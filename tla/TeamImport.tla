----------------------------- MODULE TeamImport -----------------------------
(***************************************************************************)
(* Teams from outside: the import of a team repository (a system goal on   *)
(* the steward whose run produces team.json) and the application of squad  *)
(* and project templates, which write skills, agents, a squad and its      *)
(* members statement by statement, with no transaction around them         *)
(* (internal/service/team_import.go, template_apply.go, skill.go,          *)
(* squad.go; internal/daemon/import_dispatch.go and the import branch of   *)
(* finishMachineRun).                                                      *)
(*                                                                         *)
(* Every source describes the same team: one squad, its leader, its        *)
(* members and one skill, which the leader selects.  The database may hold *)
(* an older squad of that name.  Rows are known by their names, the squad  *)
(* by its id, because an update by id misses a squad that was deleted.     *)
(***************************************************************************)
EXTENDS Naturals, Sequences, FiniteSets

CONSTANTS
    Imports,       \* calls of ImportTeam
    Templates,     \* applications of a template
    Kinds,         \* what a template may be: "project" or "squad"
    Strategies,    \* and its conflict strategy: "upsert" or "create"
    Leader, Members,  \* the team: an agent, and a sequence of agents
    Stale,         \* a member of the older squad that the team no longer has
    MaxSquads,     \* bound on squad ids
    MaxEdits,      \* bound on what people do
    MaxCrashes,
    Ops            \* what people and machines do in an instance

Sources == Imports \cup Templates
Mates == {Members[k] : k \in DOMAIN Members}
Team == {Leader} \cup Mates

ASSUME TeamAssumption ==
    /\ Imports \cap Templates = {} /\ {"import", "team"} \cap Templates = {}
    /\ Kinds \subseteq {"project", "squad"} /\ Strategies \subseteq {"upsert", "create"}
    /\ Members \in Seq(Mates) /\ Members # <<>> /\ Leader \notin Mates /\ Stale \notin Team
    /\ MaxSquads \in Nat \ {0} /\ {MaxEdits, MaxCrashes} \subseteq Nat

VARIABLES
    skill,     \* the skill: no row, a row without its files, or whole
    agents,    \* the agent rows
    squad,     \* [id, leader, members]; id 0: there is none
    lastId,    \* squad ids given out
    domain,    \* domain rows by name: "import", "team" and one for each template
    goals,     \* the project templates whose goals were created
    row,       \* [Imports -> status of the team_import row]
    linked,    \* the imports whose row knows its goal and its run
    goal,      \* [Imports -> status of the import goal]
    decided,   \* the imports whose goal has an approving decision
    run,       \* [Imports -> status of the run]
    call,      \* [Imports -> where the ImportTeam request is]
    job,       \* [Sources -> Job]: the writes under way
    outcome,   \* [Templates -> how the application ended]
    roster,    \* ghost: whose roster the squad has
    up, crashes, edits

squadVars == <<squad, lastId, roster>>
teamVars == <<skill, agents>>
placeVars == <<domain, goals>>
importVars == <<row, linked, goal, decided, run, call>>
lifeVars == <<up, crashes, edits>>
vars == <<squadVars, teamVars, placeVars, importVars, job, outcome, lifeVars>>

Names == {"import", "team"} \cup Templates
Import == {"idle", "lookup", "read_fail", "fail", "skill", "files", "write", "agents", "look",
           "update", "clear", "new", "add", "complete", "finish_ok", "finish_failed", "approve"}
Apply == {"repo", "probe", "domain", "skill", "write", "files", "agents", "look", "update", "clear",
          "new", "add", "scratch", "goals"}
RunStatus == {"none", "queued", "running", "completed", "failed", "cancelled",
              "expired"}              \* failed: no machine fetched its dispatch
Job == [pc : Import \cup Apply,
        kind : {"import", "project", "squad"},
        strategy : {"upsert", "create"},
        made : BOOLEAN,               \* this job found no row of the skill
        ids : SUBSET Team,            \* the agents it resolved
        squad : 0..MaxSquads,         \* the squad it looked up or created
        k : 1..(Len(Members) + 1)]    \* the member it adds next
Fresh == [pc |-> "idle", kind |-> "import", strategy |-> "upsert", made |-> FALSE, ids |-> {}, squad |-> 0, k |-> 1]

TypeOK ==
    /\ skill \in {"none", "row", "whole"} /\ agents \subseteq Team \cup {Stale}
    /\ squad \in [id : 0..MaxSquads, leader : Team \cup {Stale}, members : SUBSET (Team \cup {Stale})]
    /\ lastId \in 0..MaxSquads /\ domain \in [Names -> {"none", "scratch", "repo"}]
    /\ goals \subseteq Templates /\ roster \in {"old", "team", "part"}
    /\ row \in [Imports -> {"none", "pending", "completed", "failed"}]
    /\ linked \subseteq Imports /\ decided \subseteq Imports
    /\ goal \in [Imports -> {"none", "active", "review", "done", "failed"}]
    /\ run \in [Imports -> RunStatus]
    /\ call \in [Imports -> {"new", "insert", "seed", "create", "link", "over"}]
    /\ job \in [Sources -> Job]
    /\ outcome \in [Templates -> {"none", "applied", "partial", "failed", "cut"}]
    /\ up \in BOOLEAN /\ crashes \in 0..MaxCrashes
    /\ edits \in 0..MaxEdits

(* A database with an older squad of the name, or with none. *)
Init ==
    /\ skill = "none" /\ domain = [n \in Names |-> "none"] /\ goals = {}
    /\ \/ squad = [id |-> 1, leader |-> Stale, members |-> {Members[1], Stale}]
       \/ squad = [id |-> 0, leader |-> Stale, members |-> {}]
    /\ lastId = squad.id /\ agents = squad.members /\ roster = "old"
    /\ row = [i \in Imports |-> "none"] /\ linked = {} /\ decided = {}
    /\ goal = [i \in Imports |-> "none"] /\ run = [i \in Imports |-> "none"]
    /\ call = [i \in Imports |-> "new"] /\ job = [s \in Sources |-> Fresh]
    /\ outcome = [t \in Templates |-> "none"] /\ up = TRUE /\ crashes = 0 /\ edits = 0

Edit(op) == up /\ op \in Ops /\ edits < MaxEdits /\ edits' = edits + 1
At(s, pc) == up /\ job[s].pc = pc
Goes(s, pc) == job' = [job EXCEPT ![s].pc = pc]

--------------------------------------------------------------------------------
(* The request: a tracking row, the scratch domain, the goal with its      *)
(* first run, and the link from the row to both.                           *)

ImportTeam(i) ==
    /\ up /\ call[i] = "new"
    /\ call' = [call EXCEPT ![i] = "insert"]
    /\ row' = [j \in Imports |-> IF row[j] \in {"completed", "failed"} THEN "none" ELSE row[j]]
    /\ UNCHANGED <<squadVars, teamVars, placeVars, linked, goal, decided, run, job, outcome, lifeVars>>

InsertRow(i) ==
    /\ up /\ call[i] = "insert"
    /\ call' = [call EXCEPT ![i] = "seed"]
    /\ row' = [row EXCEPT ![i] = "pending"]
    /\ UNCHANGED <<squadVars, teamVars, placeVars, linked, goal, decided, run, job, outcome, lifeVars>>

(* A repository's domain keeps the name: the request ends, its row stays.  *)
SeedImportDomain(i) ==
    /\ up /\ call[i] = "seed"
    /\ IF domain["import"] = "repo"
         THEN call' = [call EXCEPT ![i] = "over"] /\ UNCHANGED domain
         ELSE /\ call' = [call EXCEPT ![i] = "create"]
              /\ domain' = [domain EXCEPT !["import"] = "scratch"]
    /\ UNCHANGED <<squadVars, teamVars, goals, row, linked, goal, decided, run, job, outcome, lifeVars>>

CreateImportGoal(i) ==
    /\ up /\ call[i] = "create"
    /\ goal' = [goal EXCEPT ![i] = "active"]
    /\ run' = [run EXCEPT ![i] = "queued"]
    /\ call' = [call EXCEPT ![i] = "link"]
    /\ UNCHANGED <<squadVars, teamVars, placeVars, row, linked, decided, job, outcome, lifeVars>>

CreateImportGoalFails(i) ==
    /\ up /\ call[i] = "create" /\ "goal_fails" \in Ops
    /\ row' = [row EXCEPT ![i] = "none"]
    /\ call' = [call EXCEPT ![i] = "over"]
    /\ UNCHANGED <<squadVars, teamVars, placeVars, linked, goal, decided, run, job, outcome, lifeVars>>

LinkImport(i) ==
    /\ up /\ call[i] = "link"
    /\ linked' = linked \cup {i}
    /\ call' = [call EXCEPT ![i] = "over"]
    /\ UNCHANGED <<squadVars, teamVars, placeVars, row, goal, decided, run, job, outcome, lifeVars>>

--------------------------------------------------------------------------------
(* The run of an import goal, and the report of its end.  A report is      *)
(* handled in one goroutine: the ingestion, then Finish, then the approval *)
(* of the goal that Finish has parked for review.                          *)

Claim(i) ==
    /\ up /\ run[i] = "queued"
    /\ run' = [run EXCEPT ![i] = "running"]
    /\ UNCHANGED <<squadVars, teamVars, placeVars, row, linked, goal, decided, call, job, outcome, lifeVars>>

Found(i) == i \in linked /\ row[i] # "none"

Reported(i, pc) ==
    /\ At(i, "idle") /\ run[i] = "running"
    /\ job' = [job EXCEPT ![i] = [Fresh EXCEPT !.pc = pc]]
    /\ UNCHANGED <<squadVars, teamVars, placeVars, importVars, outcome, lifeVars>>

ReportUnheard(i) == Reported(i, "finish_failed")   \* mutant for ImportEnds: the row is not told

ReportCompleted(i) == Reported(i, "lookup")
ReportFailed(i) == Reported(i, "read_fail")     \* by the machine, or at the launch

(* The machine's poll finds the dispatch too old.  It fails the run, and   *)
(* its goal, by the run's id alone: the import row is not told.            *)
DispatchExpires(i) ==
    /\ At(i, "idle") /\ run[i] = "running" /\ "expire" \in Ops
    /\ run' = [run EXCEPT ![i] = "expired"]
    /\ goal' = [goal EXCEPT ![i] = IF @ = "active" THEN "failed" ELSE @]
    /\ UNCHANGED <<squadVars, teamVars, placeVars, row, linked, decided, call, job, outcome, lifeVars>>

(* IngestImport: the row of the goal, then the artifact. *)
FindImport(i) ==
    /\ At(i, "lookup")
    /\ \/ Found(i) /\ Goes(i, "skill")
       \/ Found(i) /\ "bad_artifact" \in Ops /\ Goes(i, "fail")
       \/ ~Found(i) /\ Goes(i, "finish_failed")
    /\ UNCHANGED <<squadVars, teamVars, placeVars, importVars, outcome, lifeVars>>

(* FailImportByGoal reads the status, and failImport writes it without     *)
(* looking at it again.                                                    *)
FailImportByGoal(i) ==
    /\ At(i, "read_fail")
    /\ Goes(i, IF i \in linked /\ row[i] = "pending" THEN "fail" ELSE "finish_failed")
    /\ UNCHANGED <<squadVars, teamVars, placeVars, importVars, outcome, lifeVars>>

FailImport(i) ==
    /\ At(i, "fail")
    /\ row' = [row EXCEPT ![i] = IF @ = "none" THEN "none" ELSE "failed"]
    /\ Goes(i, "finish_failed")
    /\ UNCHANGED <<squadVars, teamVars, placeVars, linked, goal, decided, run, call, outcome, lifeVars>>

CompleteImport(i) ==
    /\ At(i, "complete")
    /\ row' = [row EXCEPT ![i] = IF @ = "pending" THEN "completed" ELSE @]
    /\ Goes(i, "finish_ok")
    /\ UNCHANGED <<squadVars, teamVars, placeVars, linked, goal, decided, run, call, outcome, lifeVars>>

(* Finish stamps a running row only; the goal of a completed run parks for *)
(* review, and that of a failed one fails: an import is never retried.     *)
FinishAs(i, pc, status, end) ==
    /\ At(i, pc)
    /\ IF run[i] = "running"
         THEN /\ run' = [run EXCEPT ![i] = status]
              /\ goal' = [goal EXCEPT ![i] = IF @ = "active" THEN end ELSE @]
         ELSE UNCHANGED <<run, goal>>
    /\ job' = [job EXCEPT ![i] = [Fresh EXCEPT !.pc = IF pc = "finish_ok" THEN "approve" ELSE "idle"]]
    /\ UNCHANGED <<squadVars, teamVars, placeVars, row, linked, decided, call, outcome, lifeVars>>

FinishCompleted(i) == FinishAs(i, "finish_ok", "completed", "review")
FinishFailed(i) == FinishAs(i, "finish_failed", "failed", "failed")

(* A goal that is not in review after the polls is given up. *)
ApproveImportGoal(i) ==
    /\ At(i, "approve")
    /\ decided' = IF goal[i] = "review" THEN decided \cup {i} ELSE decided
    /\ Goes(i, "idle")
    /\ UNCHANGED <<squadVars, teamVars, placeVars, row, linked, goal, run, call, outcome, lifeVars>>

(* The delivery of the decision, or its replay when the daemon starts. *)
MarkDelivered(i) ==
    /\ up /\ i \in decided /\ goal[i] = "review"
    /\ goal' = [goal EXCEPT ![i] = "done"]
    /\ UNCHANGED <<squadVars, teamVars, placeVars, row, linked, decided, run, call, job, outcome, lifeVars>>

(* A person stops the run, or the watchdog ends it: the row is not told. *)
StopRun(i) ==
    /\ Edit("stop") /\ run[i] = "running"
    /\ run' = [run EXCEPT ![i] = "cancelled"]
    /\ UNCHANGED <<squadVars, teamVars, placeVars, row, linked, goal, decided, call, job, outcome, up, crashes>>

--------------------------------------------------------------------------------
(* What an error does to a job: an import is failed, an application ends   *)
(* with what it wrote so far.                                              *)

Fails(s) ==
    IF s \in Imports
      THEN Goes(s, "fail") /\ UNCHANGED outcome
      ELSE job' = [job EXCEPT ![s] = Fresh] /\ outcome' = [outcome EXCEPT ![s] = "failed"]

Becomes(s, next) == job' = [job EXCEPT ![s] = next] /\ UNCHANGED outcome

(* The application of a template starts: a project's repository, the probe *)
(* of it and its domain come first, and end it when they fail.             *)

ApplyTemplate(t) ==
    /\ At(t, "idle") /\ outcome[t] = "none"
    /\ \E kind \in Kinds, strategy \in Strategies :
         job' = [job EXCEPT ![t] = [Fresh EXCEPT !.pc = IF kind = "project" THEN "repo" ELSE "skill",
                                                 !.kind = kind, !.strategy = strategy]]
    /\ UNCHANGED <<squadVars, teamVars, placeVars, importVars, outcome, lifeVars>>

ApplyRepo(t) ==
    /\ At(t, "repo")
    /\ \/ Goes(t, "probe") /\ UNCHANGED outcome
       \/ "repo_fails" \in Ops /\ Fails(t)
    /\ UNCHANGED <<squadVars, teamVars, placeVars, importVars, lifeVars>>

ProbeGit(t) ==
    /\ At(t, "probe")
    /\ \/ Goes(t, "domain") /\ UNCHANGED outcome
       \/ "repo_fails" \in Ops /\ Fails(t)
    /\ UNCHANGED <<squadVars, teamVars, placeVars, importVars, lifeVars>>

CreateProjectDomain(t) ==
    /\ At(t, "domain")
    /\ IF domain[t] = "none"
         THEN /\ domain' = [domain EXCEPT ![t] = "repo"]
              /\ Goes(t, "skill") /\ UNCHANGED outcome
         ELSE Fails(t) /\ UNCHANGED domain
    /\ UNCHANGED <<squadVars, teamVars, goals, importVars, lifeVars>>

--------------------------------------------------------------------------------
(* The skill: a query, and then a write by what it found.  A row that      *)
(* exists loses its files before the new ones are written; a row this job  *)
(* inserted is deleted when they cannot be.                                *)

FindSkill(s) ==
    /\ At(s, "skill")
    /\ Becomes(s, [job[s] EXCEPT !.pc = "write", !.made = (skill = "none")])
    /\ UNCHANGED <<squadVars, teamVars, placeVars, importVars, lifeVars>>

UpsertSkill(s) ==
    /\ At(s, "write") /\ (job[s].made => skill = "none")
    /\ skill' = IF job[s].made \/ skill # "none" THEN "row" ELSE "none"
    /\ Becomes(s, [job[s] EXCEPT !.pc = "files"])
    /\ UNCHANGED <<squadVars, agents, placeVars, importVars, lifeVars>>

WriteSkillFiles(s) ==
    /\ At(s, "files")
    /\ skill' = IF skill = "none" THEN "none" ELSE "whole"
    /\ Becomes(s, [job[s] EXCEPT !.pc = "agents"])
    /\ UNCHANGED <<squadVars, agents, placeVars, importVars, lifeVars>>

(* "create" cannot write an agent whose name is taken. *)
Create(s) == job[s].strategy = "create"
CanWrite(s) == IF Create(s) THEN Team \ agents ELSE Team

(* The leader selects the skill: a template whose skill fails goes on with *)
(* the other agents, and stops for want of a leader.                       *)
SkillFails(s) ==
    /\ Fails(s)
    /\ agents' = IF s \in Templates THEN agents \cup (CanWrite(s) \ {Leader}) ELSE agents

(* Another job has inserted the row meanwhile: its name is taken.          *)
SkillTaken(s) ==
    /\ At(s, "write") /\ job[s].made /\ skill # "none"
    /\ SkillFails(s)
    /\ UNCHANGED <<squadVars, skill, placeVars, importVars, lifeVars>>

WriteSkillFilesFails(s) ==
    /\ At(s, "files") /\ "disk" \in Ops
    /\ skill' = IF job[s].made THEN "none" ELSE skill
    /\ SkillFails(s)
    /\ UNCHANGED <<squadVars, placeVars, importVars, lifeVars>>

(* The agents, by name.  One that a template cannot write is left out; an  *)
(* import stops at it.                                                     *)
UpsertAgents(s) ==
    /\ At(s, "agents")
    /\ \E ok \in SUBSET CanWrite(s) :
         /\ ok = CanWrite(s) \/ "agent_fails" \in Ops
         /\ agents' = agents \cup ok
         /\ IF Leader \in ok /\ (s \in Imports => ok = Team)
              THEN Becomes(s, [job[s] EXCEPT !.ids = ok, !.pc = IF Create(s) THEN "new" ELSE "look"])
              ELSE Fails(s)
    /\ UNCHANGED <<squadVars, skill, placeVars, importVars, lifeVars>>

--------------------------------------------------------------------------------
(* The squad: UpsertByName, or Create and AddMember.  An existing one gets *)
(* its leader, loses every member and gets the new ones, one by one.       *)

Skipping(s, k) ==       \* the first member from k on whose agent the job has
    LET rest == {j \in k..Len(Members) : Members[j] \in job[s].ids}
    IN IF rest = {} THEN Len(Members) + 1 ELSE CHOOSE j \in rest : \A l \in rest : j <= l

Wrote(s) ==
    IF \A j \in Sources : j = s \/ job[j].pc = "add" => job[j].ids = Team THEN "team" ELSE "part"

FindSquad(s) ==
    /\ At(s, "look")
    /\ Becomes(s, [job[s] EXCEPT !.squad = squad.id, !.pc = IF squad.id = 0 THEN "new" ELSE "update"])
    /\ UNCHANGED <<squadVars, teamVars, placeVars, importVars, lifeVars>>

UpdateSquad(s) ==
    /\ At(s, "update")
    /\ squad' = IF squad.id = job[s].squad THEN [squad EXCEPT !.leader = Leader] ELSE squad
    /\ Becomes(s, [job[s] EXCEPT !.pc = "clear"])
    /\ UNCHANGED <<lastId, roster, teamVars, placeVars, importVars, lifeVars>>

(* Mutant for RosterIsWhole: the old members are kept. *)
KeepMembers(s) ==
    /\ At(s, "clear")
    /\ IF squad.id = job[s].squad THEN roster' = Wrote(s) ELSE UNCHANGED roster
    /\ Becomes(s, [job[s] EXCEPT !.pc = "add", !.k = Skipping(s, 1)])
    /\ UNCHANGED <<squad, lastId, teamVars, placeVars, importVars, lifeVars>>

ClearMembers(s) ==
    /\ At(s, "clear")
    /\ IF squad.id = job[s].squad
         THEN squad' = [squad EXCEPT !.members = {}] /\ roster' = Wrote(s)
         ELSE UNCHANGED <<squad, roster>>
    /\ Becomes(s, [job[s] EXCEPT !.pc = "add", !.k = Skipping(s, 1)])
    /\ UNCHANGED <<lastId, teamVars, placeVars, importVars, lifeVars>>

CreateSquad(s) ==
    /\ At(s, "new")
    /\ IF squad.id # 0
         THEN Fails(s) /\ UNCHANGED squadVars
         ELSE /\ lastId' = lastId + 1 /\ roster' = Wrote(s)
              /\ squad' = [id |-> lastId + 1, leader |-> Leader, members |-> {}]
              /\ Becomes(s, [job[s] EXCEPT !.pc = "add", !.squad = lastId + 1, !.k = Skipping(s, 1)])
    /\ UNCHANGED <<teamVars, placeVars, importVars, lifeVars>>

(* UNIQUE(squad, member) and the foreign key of the squad refuse a row; an *)
(* upsert stops there, "create" reports the member and goes on.            *)
AddMember(s) ==
    LET m == Members[job[s].k]
        taken == squad.id # job[s].squad \/ m \in squad.members
    IN /\ At(s, "add") /\ job[s].k <= Len(Members)
       /\ squad' = IF taken THEN squad ELSE [squad EXCEPT !.members = @ \cup {m}]
       /\ IF taken /\ ~Create(s)
            THEN Fails(s)
            ELSE Becomes(s, [job[s] EXCEPT !.k = Skipping(s, @ + 1)])
       /\ UNCHANGED <<lastId, roster, teamVars, placeVars, importVars, lifeVars>>

SquadDone(s) ==
    /\ At(s, "add") /\ job[s].k > Len(Members)
    /\ Goes(s, IF s \in Imports THEN "complete" ELSE IF job[s].kind = "project" THEN "goals" ELSE "scratch")
    /\ UNCHANGED <<squadVars, teamVars, placeVars, importVars, outcome, lifeVars>>

Ends(t) ==
    /\ job' = [job EXCEPT ![t] = Fresh]
    /\ outcome' = [outcome EXCEPT ![t] = IF job[t].ids = Team THEN "applied" ELSE "partial"]

(* A squad template also needs a project to work in: any domain of the     *)
(* squad's name will do.                                                   *)
EnsureScratchDomain(t) ==
    /\ At(t, "scratch")
    /\ domain' = [domain EXCEPT !["team"] = IF @ = "none" THEN "scratch" ELSE @]
    /\ Ends(t)
    /\ UNCHANGED <<squadVars, teamVars, goals, importVars, lifeVars>>

(* A project template's goals and schedules, left to the squad. *)
CreateGoals(t) ==
    /\ At(t, "goals")
    /\ goals' = IF squad.id # 0 THEN goals \cup {t} ELSE goals
    /\ Ends(t)
    /\ UNCHANGED <<squadVars, teamVars, domain, importVars, lifeVars>>

--------------------------------------------------------------------------------
(* People, and the process *)

DeleteSquad ==
    /\ Edit("delete_squad") /\ squad.id # 0 /\ goals = {} /\ lastId < MaxSquads
    /\ squad' = [id |-> 0, leader |-> Stale, members |-> {}]
    /\ UNCHANGED <<lastId, roster, teamVars, placeVars, importVars, job, outcome, up, crashes>>

(* Nobody's goal selects the skill while no agent row does. *)
DeleteSkill ==
    /\ Edit("delete_skill") /\ skill # "none" /\ Leader \notin agents
    /\ skill' = "none"
    /\ UNCHANGED <<squadVars, agents, placeVars, importVars, job, outcome, up, crashes>>

CreateDomain(n) ==
    /\ Edit("domain") /\ domain[n] = "none"
    /\ domain' = [domain EXCEPT ![n] = "repo"]
    /\ UNCHANGED <<squadVars, teamVars, goals, importVars, job, outcome, up, crashes>>

Crash ==
    /\ up /\ crashes < MaxCrashes
    /\ up' = FALSE /\ crashes' = crashes + 1
    /\ call' = [i \in Imports |-> IF call[i] = "new" THEN "new" ELSE "over"]
    /\ outcome' = [t \in Templates |-> IF job[t].pc = "idle" THEN outcome[t] ELSE "cut"]
    /\ roster' = IF \E s \in Sources : job[s].pc \in {"update", "clear", "add"} THEN "part" ELSE roster
    /\ job' = [s \in Sources |-> Fresh]
    /\ UNCHANGED <<squad, lastId, teamVars, placeVars, row, linked, goal, decided, run, edits>>

(* The daemon starts: runs that were under way are queued again, and a     *)
(* goal in review that nobody has decided is approved (sweepStuckImport-   *)
(* Goals).                                                                 *)
Restart ==
    /\ ~up /\ up' = TRUE
    /\ run' = [i \in Imports |-> IF run[i] = "running" THEN "queued" ELSE run[i]]
    /\ job' = [s \in Sources |->
                 IF s \in Imports /\ s \notin decided
                   THEN IF goal[s] = "review" THEN [Fresh EXCEPT !.pc = "approve"] ELSE Fresh
                   ELSE Fresh]
    /\ UNCHANGED <<squadVars, teamVars, placeVars, row, linked, goal, decided, call, outcome, crashes, edits>>

--------------------------------------------------------------------------------
Request(i) ==
    \/ InsertRow(i) \/ SeedImportDomain(i) \/ CreateImportGoal(i) \/ LinkImport(i)

Handling(i) ==
    \/ FindImport(i) \/ FailImportByGoal(i) \/ FailImport(i) \/ CompleteImport(i)
    \/ FinishCompleted(i) \/ FinishFailed(i) \/ ApproveImportGoal(i)

Applying(t) ==
    \/ ApplyRepo(t) \/ ProbeGit(t) \/ CreateProjectDomain(t)
    \/ EnsureScratchDomain(t) \/ CreateGoals(t)

Writing(s) ==
    \/ FindSkill(s) \/ UpsertSkill(s) \/ SkillTaken(s) \/ WriteSkillFiles(s) \/ UpsertAgents(s)
    \/ FindSquad(s) \/ UpdateSquad(s) \/ ClearMembers(s) \/ CreateSquad(s) \/ AddMember(s) \/ SquadDone(s)

Next ==
    \/ \E i \in Imports :
         \/ ImportTeam(i) \/ Request(i) \/ CreateImportGoalFails(i)
         \/ Claim(i) \/ ReportCompleted(i) \/ ReportFailed(i) \/ Handling(i)
         \/ DispatchExpires(i) \/ MarkDelivered(i) \/ StopRun(i)
    \/ \E t \in Templates : ApplyTemplate(t) \/ Applying(t)
    \/ \E s \in Sources : Writing(s) \/ WriteSkillFilesFails(s)
    \/ \E n \in Names : CreateDomain(n)
    \/ DeleteSquad \/ DeleteSkill \/ Crash \/ Restart

(* The dispatcher claims what is queued, a machine reports the end of the  *)
(* run it has, a request and a report are handled to their end, and the    *)
(* daemon is started again.                                                *)
Fairness ==
    /\ \A i \in Imports : /\ WF_vars(Request(i)) /\ WF_vars(Claim(i))
                          /\ WF_vars(ReportCompleted(i) \/ ReportFailed(i))
                          /\ WF_vars(Handling(i)) /\ WF_vars(MarkDelivered(i))
    /\ \A s \in Sources : WF_vars(Writing(s) \/ WriteSkillFilesFails(s))
    /\ WF_vars(Restart)

Spec == Init /\ [][Next]_vars /\ Fairness

--------------------------------------------------------------------------------
Quiet ==
    /\ \A s \in Sources : job[s].pc = "idle"
    /\ \A i \in Imports : run[i] \notin {"queued", "running"}

(* When nothing is under way, a squad that imports and templates wrote has *)
(* the team's leader and exactly the team's members, however many of them  *)
(* wrote it at once and whichever was refused a row half-way: the last to  *)
(* clear the members re-adds what the others lost.  Excepted are a roster  *)
(* a crash cut in the middle and a template that left agents out.          *)
RosterIsWhole ==
    Quiet /\ roster = "team" /\ squad.id # 0
        => squad.leader = Leader /\ squad.members = Mates

(* The goal of an import is done only when its run went through the whole  *)
(* ingestion, so the team's agents are there: an error of the ingestion    *)
(* turns the report into a failure before Finish sees it.                  *)
DoneIsImported == \A i \in Imports : goal[i] \in {"review", "done"} => Team \subseteq agents

(* A team is in place when it is said to be: the roster of its squad and   *)
(* the agents of a finished import.                                        *)
TeamIsWhole == RosterIsWhole /\ DoneIsImported

(* An import that waits for its run ends: its row says how, or somebody    *)
(* stopped the run, or no machine fetched its dispatch.  A launch that     *)
(* fails in any other way tells the row.                                   *)
Waiting(i) == i \in linked /\ row[i] = "pending" /\ run[i] \in {"queued", "running"} /\ job[i].pc = "idle"
RowIsDecided ==
    \A i \in Imports : Waiting(i) ~> (row[i] # "pending" \/ run[i] \in {"cancelled", "expired"})

(* The review an import's goal is parked in is closed by the daemon, also  *)
(* when a crash falls between Finish and the approval.                     *)
ReviewIsClosed == \A i \in Imports : goal[i] = "review" ~> goal[i] = "done"

(* An import ends, its row and the review of its goal, whatever fails or   *)
(* crashes.                                                                *)
ImportEnds == RowIsDecided /\ ReviewIsClosed

(* What the comment of failRun promises: a failure of the launch also      *)
(* flips the row.  The sweep of old dispatches does not.                   *)
LaunchFailureIsTold ==
    \A i \in linked : run[i] = "expired" => row[i] # "pending"

(* What the comment of FailImportByGoal promises: a failure that comes     *)
(* late does not overwrite a completed import.                             *)
VerdictStands == [][\A i \in Imports : row[i] = "completed" => row'[i] # "failed"]_vars
=============================================================================
