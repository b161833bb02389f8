SPECIFICATION FairSpec
CONSTANTS
    SubGoals = {s1}
    Rows = {r1, r2}
    NoSub = none
    MaxTries = 2
    MaxAttempts = 2
    MaxCrashes = 1
    Verified = {}
    ByHand = {}
    Ops = {"wake", "cancel", "human_create"}
PROPERTIES
    RevisionIsHandled
CHECK_DEADLOCK FALSE
