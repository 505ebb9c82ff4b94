SPECIFICATION KvSpec
CONSTANTS
    s1 = s1
    s2 = s2
    c1 = c1
    c2 = c2
    k = k
    a = a
    b = b
    Nil = Nil
    Server = {s1, s2}
    Client = {c1, c2}
    Key = {k}
    Datum = {a, b}
    LogEntry = {}
    MaxLog = 3
    Scenarios <- Mixed
SYMMETRY ServersAlike
CHECK_DEADLOCK FALSE
INVARIANT KvTypeOK ExecutedInOrder ReplicasAgree AckedIsCommitted AckedIsExecuted LeaderHasAcked
