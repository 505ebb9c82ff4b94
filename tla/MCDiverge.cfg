SPECIFICATION Spec
CONSTANTS
    s1 = s1
    s2 = s2
    s3 = s3
    Nil = Nil
    Server = {s1, s2, s3}
    Command = {c1, c2}
    Campaigns <- LeaderChange
    Beats <- LoneBeat
    BatchSize = 1
    Requests <- OneRequest
    MaxInflight = 1
    MaxLate = 0
    MaxRestarts = 0
CHECK_DEADLOCK FALSE
INVARIANT AppliedAgree
