SPECIFICATION Spec
CONSTANTS
    Schedules = {s, d}
    BuiltIn = {d}
    Periods = {1, 2}
    DigestCron = 1
    UserCron = 2
    NoSchedule = none
    Goals = {g1, g2}
    Seeders = {p}
    MaxTime = 3
    TTL = 1
    MaxBatches = 2
    MaxEdits = 1
    MaxCrashes = 1
    Ops = {"create", "update", "toggle", "intake", "delete", "cancel", "approve", "reopen", "drop", "machine", "fail"}
CONSTRAINT Followed
INVARIANTS
    FiredOnce
    NoCatchUp
    
    DigestIsWhole
CHECK_DEADLOCK FALSE
