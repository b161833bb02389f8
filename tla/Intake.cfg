SPECIFICATION FairSpec
CONSTANTS
    m1 = m1
    m2 = m2
    h1 = h1
    h2 = h2
    Msgs = {m1, m2}
    Kinds = {k1}
    Fields = {f1}
    Handlers = {h1, h2}
    None = None
    MaxReports = 2
    MaxCrashes = 1
CONSTRAINTS InOrder FirstRepeated
ACTION_CONSTRAINT FirstIdle
INVARIANTS
    DraftIsOpen
    DoneIsCompleted
PROPERTIES
    EveryMessageEnds
CHECK_DEADLOCK FALSE
