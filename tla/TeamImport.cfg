SPECIFICATION Spec
CONSTANTS
    m1 = m1
    m2 = m2
    Imports = {i1}
    Templates = {t1}
    Kinds = {"project", "squad"}
    Strategies = {"upsert", "create"}
    Leader = lead
    Members <- MCMembers
    Stale = old
    MaxSquads = 2
    MaxEdits = 1
    MaxCrashes = 1
    Ops = {"stop", "expire", "bad_artifact", "delete_squad", "agent_fails", "repo_fails", "goal_fails", "delete_skill", "disk", "domain"}
INVARIANTS
    TeamIsWhole
PROPERTIES
    ImportEnds
CHECK_DEADLOCK FALSE
