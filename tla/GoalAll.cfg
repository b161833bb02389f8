SPECIFICATION Spec
CONSTANTS
    a1 = a1
    a2 = a2
    q1 = q1
    Agents = {a1, a2}
    RunIds = {r1, r2}
    NoRun = NoRun
    MaxAttempts = 2
    Squads = {q1}
    Human = Human
    Leader <- MCLeader
    Reviewer <- MCReviewer
    NoAgent = NoAgent
    Sessions = {s1}
    Jobs = {j1}
    HandoffCycle = 1
    MaxHandoffs = 1
    MaxCrashes = 1
    Ops = {"activate", "assign", "im", "reopen", "relaunch", "continue", "reply", "stop", "cancel", "deliver_fails"}
SYMMETRY SessionSymmetry
CHECK_DEADLOCK FALSE
INVARIANTS
    OneWriter
    OnePending
    RetryChain
PROPERTIES
    TerminalRunStands
    ImplementsLifecycle
