SPECIFICATION FairSpec
CONSTANTS
    s1 = s1
    s2 = s2
    s3 = s3
    Nil = Nil
    Server = {s1, s2, s3}
    Command = {c1}
    Campaigns <- StableLeader
    Beats <- PairBeat
    BatchSize = 1
    Requests <- OneRequest
    MaxInflight = 2
    MaxLate = 0
    MaxRestarts = 0
CHECK_DEADLOCK FALSE
PROPERTY CommitSpreads
