SPECIFICATION FairSpec
CONSTANTS
    a1 = a1
    r1 = r1
    r2 = r2
    Agents = {a1, a2}
    Machines = {m1}
    MachineOf <- OneMachine
    Runs = {r1, r2}
    Guests = {g1}
    Others = {o1}
    Jobs = {j1}
    NoAgent = noAgent
    NoRun = noRun
    NoRef = noRef
    NoTree = noTree
    NoJob = noJob
    Frozen = TRUE
    MaxCrashes = 1
    Ops = {"handoff", "guest", "cancel", "return"}
CONSTRAINTS Followed InOrder
INVARIANTS
    WorkIsKept
PROPERTIES
    
    ApprovalEnds
CHECK_DEADLOCK FALSE
