SPECIFICATION PFairSpec
CONSTANTS
    Value = {v1, v2, v3}
    Nil = Nil
    MaxSaves = 3
    MaxCrashes = 2
CHECK_DEADLOCK FALSE
INVARIANT SavedIsDurable PInv
PROPERTY Implements SaveReturns
