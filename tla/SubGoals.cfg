SPECIFICATION Spec
CONSTANTS
    SubGoals = {s1, s2}
    Rows = {r1, r2, r3}
    NoSub = none
    MaxTries = 2
    MaxAttempts = 2
    MaxCrashes = 1
    Verified = {s1}
    ByHand = {s2}
    Ops = {}
SYMMETRY RowSymmetry
CONSTRAINT Open
INVARIANTS
    StatusHasRuns
    JudgedStable
    ReviewIsWhole
    ReadyIsSeen
CHECK_DEADLOCK FALSE
