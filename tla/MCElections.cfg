SPECIFICATION Spec
CONSTANTS
    s1 = s1
    s2 = s2
    s3 = s3
    Nil = Nil
    Server = {s1, s2, s3}
    Command = {c1}
    Campaigns <- TwoTerms
    Beats <- NoBeat
    BatchSize = 1
    Requests <- NoRequest
    MaxInflight = 0
    MaxLate = 2
    MaxRestarts = 1
SYMMETRY AllAlike
CHECK_DEADLOCK FALSE
INVARIANT OneVotePerTerm
INVARIANT OneWinnerPerTerm
INVARIANT NeverLeaderTwice
INVARIANT ElectionInv
PROPERTY VoteStable
