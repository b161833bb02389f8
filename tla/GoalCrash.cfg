SPECIFICATION FairSpec
CONSTANTS
    a1 = a1
    a2 = a2
    q1 = q1
    Agents = {a1, a2}
    RunIds = {r1, r2, r3}
    NoRun = NoRun
    MaxAttempts = 2
    Squads = {q1}
    Human = Human
    Leader <- MCLeader
    Reviewer <- MCReviewer
    NoAgent = NoAgent
    Sessions = {s1}
    Jobs = {j1}
    HandoffCycle = 1
    MaxHandoffs = 0
    MaxCrashes = 1
    Ops = {"activate", "web", "ask", "timeout", "runaway", "overflow"}
INVARIANTS
    MergeExclusive
    MergeApproved
PROPERTIES
    EveryEndIsJudged
    ApprovalIsDelivered
CHECK_DEADLOCK FALSE
