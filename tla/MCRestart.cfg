SPECIFICATION Spec
CONSTANTS
    s1 = s1
    s2 = s2
    s3 = s3
    Nil = Nil
    Server = {s1, s2, s3}
    Command = {c1, c2}
    Campaigns <- StableLeader
    Beats <- LoneBeat
    BatchSize = 2
    Requests <- TwoRequests
    MaxInflight = 1
    MaxLate = 0
    MaxRestarts = 1
SYMMETRY OthersAlike
CHECK_DEADLOCK FALSE
INVARIANT CommittedOnMajority
INVARIANT TypeOK CommitWithinLog MatchWithinLog IndexInv
