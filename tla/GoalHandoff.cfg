SPECIFICATION FairSpec
CONSTANTS
    a1 = a1
    a2 = a2
    q1 = q1
    Agents = {a1, a2}
    RunIds = {r1, r2, r3}
    NoRun = NoRun
    MaxAttempts = 2
    Squads = {}
    Human = Human
    Leader <- MCLeader
    Reviewer <- MCReviewer
    NoAgent = NoAgent
    Sessions = {s1}
    Jobs = {j1}
    HandoffCycle = 2
    MaxHandoffs = 1
    MaxCrashes = 0
    Ops = {"activate", "assign", "consult", "mention"}
CHECK_DEADLOCK FALSE
INVARIANTS
    HandoffCut
    NoStall
PROPERTIES
    ClaimIsOwners
    IntentIsClaimed
