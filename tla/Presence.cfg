SPECIFICATION Spec
CONSTANTS
    Machines = {m1}
    Links = {l1, l2, l3}
    None = None
    Boot = Boot
    MaxEdits = 1
    MaxCrashes = 1
    Ops = {"drop", "stop", "die", "install"}
PROPERTIES
    LinkHeals
    OfflineIsSeen
CHECK_DEADLOCK FALSE
