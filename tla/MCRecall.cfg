SPECIFICATION RecallSpec
CONSTANTS
    x1 = x1
    x2 = x2
    Item = {x1, x2}
    Searcher = {t1, t2}
    Applier = Applier
    Nil = Nil
    TopKs = {0, 1}
    Capacities = {2, 3}
    Feeds <- FeatureFeeds
    MaxRestarts = 1
SYMMETRY ThreadsAlike
CHECK_DEADLOCK FALSE
INVARIANT SearchHidesDeleted SearchFindsSteady ActiveMatchesGraph IndexFollowsLog DeathHasCause LocksInOrder
