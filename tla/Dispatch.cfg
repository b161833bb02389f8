SPECIFICATION FairSpec
CONSTANTS
    Runs = {r1}
    Execs = {e1}
    NoExec = NoExec
    MaxClaims = 3
    MaxCrashes = 2
    MaxDrops = 2
    Ops = {"stop", "stall", "machine_crash"}
INVARIANTS
    Supervised
    OutcomeIsOfClaim
    KnownIsInFlight
PROPERTIES
    ImplementsContract
    EveryClaimEnds
CHECK_DEADLOCK FALSE
