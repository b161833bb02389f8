SPECIFICATION PollSpec
CONSTANTS
    d1 = d1
    Items = {i1, p1}
    Pulls = {p1}
    Domains = {d1}
    Order <- MCOneOrder
    RepoOf <- MCOneRepo
    Goals = {g1, g2, g3}
    Agents = {a1, a2}
    NoAgent = NoAgent
    NoItem = NoItem
    NoGoal = NoGoal
    Hooks = {w1}
    MaxHead = 2
    MaxEdits = 2
    MaxCrashes = 1
    Ops = {"open", "push", "close", "reopen_item", "assign", "reopen", "delete", "configure", "delete_agent", "close_fails"}
INVARIANTS
    DeliveredOnce
    
PROPERTIES
    EveryIssueIsTracked
CHECK_DEADLOCK FALSE
