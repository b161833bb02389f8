-------------------------- MODULE TeamImportProofs --------------------------
(***************************************************************************)
(* Theorems about TeamImport, for every set of imports and templates,      *)
(* every team and every bound on what people and crashes do.               *)
(***************************************************************************)
EXTENDS TeamImport, WellFoundedInduction, TLAPS

(* Ids are given out in order: one that a job holds was given out, and a   *)
(* job that writes a squad holds one.                                      *)
JobIds ==
    \A s \in Sources : /\ job[s].squad <= lastId
                       /\ job[s].pc \in {"update", "clear", "add"} => job[s].squad # 0

IdInv ==
    /\ squad.id \in {0, lastId}
    /\ squad.id = 0 => lastId < MaxSquads
    /\ JobIds

(* TypeOK is not inductive by itself: an id must be left for CreateSquad.  *)
TypeInv == TypeOK /\ IdInv

----------------------------------------------------------------------------
(* The team.                                                               *)

(* The members, as a sequence without gaps.                                *)
LEMMA MembersType ==
    /\ Len(Members) \in Nat /\ DOMAIN Members = 1..Len(Members) /\ 1 \in 1..Len(Members)
    /\ \A i \in DOMAIN Members : Members[i] \in Mates
    /\ \A m \in Mates : \E i \in DOMAIN Members : m = Members[i]
    /\ Mates \subseteq Team
<1>1. Members \in Seq(Mates) /\ Members # <<>>
  BY TeamAssumption
<1>2. Len(Members) \in Nat /\ DOMAIN Members = 1..Len(Members) /\ 1 \in 1..Len(Members)
  BY <1>1
<1>3. QED
  BY <1>2 DEF Mates, Team

(* A set of numbers has a least one.                                       *)
LEMMA LeastNatural ==
    ASSUME NEW S \in SUBSET Nat, S # {}
    PROVE  \E j \in S : \A l \in S : j <= l
<1>1. PICK j \in S : \A l \in S : <<l, j>> \notin OpToRel(<, Nat)
  BY NatLessThanWellFounded, WFMin
<1>2. ASSUME NEW l \in S
      PROVE  j <= l
  <2>1. j \in Nat /\ l \in Nat
    OBVIOUS
  <2>2. ~ (l < j)
    BY <1>1, <2>1 DEF OpToRel
  <2>3. QED
    BY <2>1, <2>2
<1>3. QED
  BY <1>2

(* The member a job adds next: nobody it has is left out before it.        *)
LEMMA SkippingType ==
    ASSUME NEW s \in Sources, NEW k \in 1..(Len(Members) + 1)
    PROVE  /\ Skipping(s, k) \in k..(Len(Members) + 1)
           /\ \A l \in k..Len(Members) : Members[l] \in job[s].ids => Skipping(s, k) <= l
<1> DEFINE rest == {j \in k..Len(Members) : Members[j] \in job[s].ids}
<1>1. Len(Members) \in Nat
  BY MembersType
<1>2. CASE rest = {}
  <2>1. Skipping(s, k) = Len(Members) + 1
    BY <1>2 DEF Skipping
  <2>2. QED
    BY <1>1, <1>2, <2>1
<1>3. CASE rest # {}
  <2>1. Skipping(s, k) = CHOOSE j \in rest : \A l \in rest : j <= l
    BY <1>3 DEF Skipping
  <2>2. rest \in SUBSET Nat
    BY <1>1
  <2>3. \E j \in rest : \A l \in rest : j <= l
    BY <1>3, <2>2, LeastNatural
  <2> HIDE DEF rest
  <2>4. Skipping(s, k) \in rest /\ \A l \in rest : Skipping(s, k) <= l
    BY <2>1, <2>3
  <2>5. QED
    BY <1>1, <2>4 DEF rest
<1>4. QED
  BY <1>2, <1>3

----------------------------------------------------------------------------
(* Types: the values an action stores in the job of a source.              *)

(* The fields of a job, read off its type.                                 *)
LEMMA JobFields ==
    ASSUME TypeOK, NEW s \in Sources
    PROVE  /\ job[s] \in Job /\ job[s].pc \in Import \cup Apply
           /\ job[s].kind \in {"import", "project", "squad"} /\ job[s].strategy \in {"upsert", "create"}
           /\ job[s].made \in BOOLEAN /\ job[s].ids \subseteq Team
           /\ job[s].squad \in 0..MaxSquads /\ job[s].k \in 1..(Len(Members) + 1)
  BY DEF TypeOK, Job

(* A job that has not begun.                                               *)
LEMMA FreshType == Fresh \in Job /\ Fresh.pc = "idle" /\ Fresh.squad = 0
  BY MembersType, TeamAssumption DEF Fresh, Job, Import

(* A job is replaced by one whose squad exists.                            *)
LEMMA SetJob ==
    ASSUME TypeInv, NEW s \in Sources, NEW v \in Job, lastId' \in Nat, lastId <= lastId',
           v.squad <= lastId', v.pc \in {"update", "clear", "add"} => v.squad # 0,
           job' = [job EXCEPT ![s] = v]
    PROVE  job' \in [Sources -> Job] /\ JobIds'
<1>1. job' \in [Sources -> Job] /\ \A j \in Sources : job'[j] = IF j = s THEN v ELSE job[j]
  BY DEF TypeInv, TypeOK
<1>2. ASSUME NEW j \in Sources
      PROVE  job'[j].squad <= lastId' /\ (job'[j].pc \in {"update", "clear", "add"} => job'[j].squad # 0)
  <2>1. job[j].squad \in Nat /\ lastId \in Nat
    BY JobFields, TeamAssumption DEF TypeInv, TypeOK
  <2>2. QED
    BY <1>1, <2>1 DEF TypeInv, IdInv, JobIds
<1>3. QED
  BY <1>1, <1>2 DEF JobIds

(* A job that gives up, or begins again.                                   *)
LEMMA ResetJob ==
    ASSUME TypeInv, NEW s \in Sources, lastId' = lastId, NEW pc \in Import \cup Apply,
           pc \notin {"update", "clear", "add"},
           job' = [job EXCEPT ![s] = [Fresh EXCEPT !.pc = pc]]
    PROVE  job' \in [Sources -> Job] /\ JobIds'
<1> DEFINE v == [Fresh EXCEPT !.pc = pc]
<1>1. v \in Job /\ v.pc = pc /\ v.squad = 0
  BY FreshType DEF Job, Fresh
<1>2. /\ lastId' \in Nat /\ lastId <= lastId' /\ v.squad <= lastId'
      /\ v.pc \in {"update", "clear", "add"} => v.squad # 0
  <2>1. lastId \in Nat
    BY TeamAssumption DEF TypeInv, TypeOK
  <2>2. QED
    BY <1>1, <2>1
<1> HIDE DEF v
<1>3. job' = [job EXCEPT ![s] = v]
  BY DEF v
<1>4. QED
  BY <1>1, <1>2, <1>3, SetJob

(* A job goes on.                                                          *)
LEMMA GoesJob ==
    ASSUME TypeInv, NEW s \in Sources, lastId' = lastId, NEW pc \in Import \cup Apply, Goes(s, pc),
           pc \in {"update", "clear", "add"} => job[s].squad # 0
    PROVE  job' \in [Sources -> Job] /\ JobIds'
<1> DEFINE v == [job[s] EXCEPT !.pc = pc]
<1>1. v \in Job /\ v.pc = pc /\ v.squad = job[s].squad
  BY JobFields DEF Job, TypeInv
<1>2. /\ lastId' \in Nat /\ lastId <= lastId' /\ v.squad <= lastId'
      /\ v.pc \in {"update", "clear", "add"} => v.squad # 0
  <2>1. lastId \in Nat /\ job[s].squad <= lastId
    BY TeamAssumption DEF TypeInv, TypeOK, IdInv, JobIds
  <2>2. QED
    BY <1>1, <2>1
<1> HIDE DEF v
<1>3. job' = [job EXCEPT ![s] = v]
  BY DEF v, Goes, TypeInv, TypeOK
<1>4. QED
  BY <1>1, <1>2, <1>3, SetJob

(* A write is refused.                                                     *)
LEMMA FailsJob ==
    ASSUME TypeInv, NEW s \in Sources, lastId' = lastId, Fails(s)
    PROVE  /\ job' \in [Sources -> Job] /\ JobIds'
           /\ outcome' \in [Templates -> {"none", "applied", "partial", "failed", "cut"}]
<1>1. CASE s \in Imports
  BY <1>1, GoesJob DEF Fails, Import, TypeInv, TypeOK
<1>2. CASE s \notin Imports
  <2>1. s \in Templates
    BY <1>2 DEF Sources
  <2>2. job' = [job EXCEPT ![s] = Fresh] /\ outcome' = [outcome EXCEPT ![s] = "failed"]
    BY <1>2 DEF Fails
  <2>3. /\ lastId' \in Nat /\ lastId <= lastId' /\ Fresh \in Job /\ Fresh.squad <= lastId'
        /\ Fresh.pc \in {"update", "clear", "add"} => Fresh.squad # 0
    BY TeamAssumption, FreshType DEF TypeInv, TypeOK
  <2>4. job' \in [Sources -> Job] /\ JobIds'
    BY <2>2, <2>3, SetJob
  <2>5. QED
    BY <2>1, <2>2, <2>4 DEF TypeInv, TypeOK
<1>3. QED
  BY <1>1, <1>2

(* A job goes on, or a template's is over with an outcome.                 *)
LEMMA BecomesJob ==
    ASSUME TypeInv, NEW s \in Sources, NEW v \in Job, lastId' \in Nat, lastId <= lastId',
           v.squad <= lastId', v.pc \in {"update", "clear", "add"} => v.squad # 0, Becomes(s, v)
    PROVE  /\ job' \in [Sources -> Job] /\ JobIds'
           /\ outcome' \in [Templates -> {"none", "applied", "partial", "failed", "cut"}]
  BY SetJob DEF Becomes, TypeInv, TypeOK

(* At the start no job has begun.                                          *)
LEMMA InitType == Init => TypeInv
<1> SUFFICES ASSUME Init PROVE TypeInv
  OBVIOUS
<1>1. job \in [Sources -> Job] /\ \A s \in Sources : job[s].squad = 0 /\ job[s].pc = "idle"
  BY FreshType DEF Init
<1>2. Members[1] \in Team
  BY MembersType DEF Team
<1>3. /\ squad \in [id : 0..MaxSquads, leader : Team \cup {Stale}, members : SUBSET (Team \cup {Stale})]
      /\ lastId \in 0..MaxSquads /\ agents \subseteq Team \cup {Stale}
      /\ squad.id = lastId /\ squad.id \in {0, 1}
  BY <1>2, TeamAssumption DEF Init
<1>4. JobIds
  BY <1>1, <1>3, TeamAssumption DEF JobIds
<1>5. IdInv
  BY <1>3, <1>4, TeamAssumption DEF IdInv
<1>6. TypeOK
  BY <1>1, <1>3, TeamAssumption DEF Init, TypeOK, RunStatus
<1>7. QED
  BY <1>5, <1>6 DEF TypeInv

(* Edits are counted.                                                      *)
LEMMA EditType ==
    ASSUME TypeInv, NEW op, Edit(op)
    PROVE  edits' \in 0..MaxEdits
<1>1. edits \in 0..MaxEdits /\ MaxEdits \in Nat
  BY TeamAssumption DEF TypeInv, TypeOK
<1>2. QED
  BY <1>1 DEF Edit

(* The request, the run and its report.                                    *)
LEMMA ImportType ==
    ASSUME TypeInv, NEW i \in Imports,
           \/ ImportTeam(i) \/ Request(i) \/ CreateImportGoalFails(i) \/ Claim(i)
           \/ DispatchExpires(i) \/ MarkDelivered(i) \/ StopRun(i)
    PROVE  TypeInv'
<1>1. JobIds' <=> JobIds
  BY DEF JobIds, ImportTeam, Request, InsertRow, SeedImportDomain, CreateImportGoal, LinkImport,
         CreateImportGoalFails, Claim, DispatchExpires, MarkDelivered, StopRun, squadVars
<1>2. IdInv'
  BY <1>1 DEF TypeInv, IdInv, ImportTeam, Request, InsertRow, SeedImportDomain, CreateImportGoal, LinkImport,
         CreateImportGoalFails, Claim, DispatchExpires, MarkDelivered, StopRun, squadVars
<1>3. ASSUME ImportTeam(i) \/ InsertRow(i) \/ CreateImportGoalFails(i)
      PROVE  TypeOK'
  BY <1>3 DEF TypeInv, TypeOK, ImportTeam, InsertRow, CreateImportGoalFails,
              squadVars, teamVars, placeVars, lifeVars
<1>4. ASSUME SeedImportDomain(i)
      PROVE  TypeOK'
  BY <1>4 DEF TypeInv, TypeOK, SeedImportDomain, squadVars, teamVars, lifeVars
<1>5. ASSUME CreateImportGoal(i) \/ LinkImport(i) \/ Claim(i)
      PROVE  TypeOK'
  BY <1>5 DEF TypeInv, TypeOK, RunStatus, CreateImportGoal, LinkImport, Claim,
              squadVars, teamVars, placeVars, lifeVars
<1>6. ASSUME DispatchExpires(i) \/ MarkDelivered(i)
      PROVE  TypeOK'
  BY <1>6 DEF TypeInv, TypeOK, RunStatus, DispatchExpires, MarkDelivered,
              squadVars, teamVars, placeVars, lifeVars
<1>7. ASSUME StopRun(i)
      PROVE  TypeOK'
  <2>1. edits' \in 0..MaxEdits
    BY <1>7, EditType DEF StopRun
  <2>2. run' \in [Imports -> RunStatus]
    BY <1>7 DEF TypeInv, TypeOK, RunStatus, StopRun
  <2>3. QED
    BY <1>7, <2>1, <2>2 DEF TypeInv, TypeOK, StopRun, squadVars, teamVars, placeVars
<1>8. QED
  BY <1>2, <1>3, <1>4, <1>5, <1>6, <1>7 DEF Request, TypeInv

(* The goroutine that handles the end of the analysis.                     *)
LEMMA HandlingType ==
    ASSUME TypeInv, NEW i \in Imports, ReportCompleted(i) \/ ReportFailed(i) \/ Handling(i)
    PROVE  TypeInv'
<1> USE DEF squadVars, teamVars, placeVars, importVars, lifeVars
<1>1. i \in Sources /\ lastId' = lastId /\ squad' = squad
  BY DEF Sources, ReportCompleted, ReportFailed, Reported, Handling, FindImport, FailImportByGoal,
         FailImport, CompleteImport, FinishCompleted, FinishFailed, FinishAs, ApproveImportGoal
<1>2. job' \in [Sources -> Job] /\ JobIds'
  <2>1. CASE ReportCompleted(i) \/ ReportFailed(i)
    BY <1>1, <2>1, ResetJob DEF ReportCompleted, ReportFailed, Reported, Import
  <2>2. CASE FinishCompleted(i) \/ FinishFailed(i)
    BY <1>1, <2>2, ResetJob DEF FinishCompleted, FinishFailed, FinishAs, Import
  <2>3. CASE FindImport(i) \/ FailImportByGoal(i) \/ FailImport(i) \/ CompleteImport(i) \/ ApproveImportGoal(i)
    BY <1>1, <2>3, GoesJob DEF FindImport, FailImportByGoal, FailImport, CompleteImport, ApproveImportGoal, Import
  <2>4. QED
    BY <2>1, <2>2, <2>3 DEF Handling
<1>3. IdInv'
  BY <1>1, <1>2 DEF TypeInv, IdInv
<1>4. ASSUME ReportCompleted(i) \/ ReportFailed(i) \/ FindImport(i) \/ FailImportByGoal(i)
      PROVE  TypeOK'
  BY <1>1, <1>2, <1>4 DEF TypeInv, TypeOK, ReportCompleted, ReportFailed, Reported, FindImport, FailImportByGoal
<1>5. ASSUME FailImport(i) \/ CompleteImport(i) \/ ApproveImportGoal(i)
      PROVE  TypeOK'
  BY <1>1, <1>2, <1>5 DEF TypeInv, TypeOK, FailImport, CompleteImport, ApproveImportGoal
<1>6. ASSUME FinishCompleted(i) \/ FinishFailed(i)
      PROVE  TypeOK'
  BY <1>1, <1>2, <1>6 DEF TypeInv, TypeOK, RunStatus, FinishCompleted, FinishFailed, FinishAs
<1>7. QED
  BY <1>3, <1>4, <1>5, <1>6 DEF Handling, TypeInv

(* The application of a template around its writes.                        *)
LEMMA ApplyingType ==
    ASSUME TypeInv, NEW t \in Templates, ApplyTemplate(t) \/ Applying(t)
    PROVE  TypeInv'
<1> USE DEF squadVars, teamVars, placeVars, importVars, lifeVars
<1>1. t \in Sources /\ lastId' = lastId /\ squad' = squad
  BY DEF Sources, ApplyTemplate, Applying, ApplyRepo, ProbeGit, CreateProjectDomain, EnsureScratchDomain, CreateGoals
<1>2. /\ job' \in [Sources -> Job] /\ JobIds'
      /\ outcome' \in [Templates -> {"none", "applied", "partial", "failed", "cut"}]
  <2>1. CASE ApplyTemplate(t)
    <3>1. PICK kind \in Kinds, strategy \in Strategies :
            job' = [job EXCEPT ![t] = [Fresh EXCEPT !.pc = IF kind = "project" THEN "repo" ELSE "skill",
                                                    !.kind = kind, !.strategy = strategy]]
      BY <2>1 DEF ApplyTemplate
    <3> DEFINE v == [Fresh EXCEPT !.pc = IF kind = "project" THEN "repo" ELSE "skill",
                                  !.kind = kind, !.strategy = strategy]
    <3>2. v \in Job /\ v.pc \in {"repo", "skill"} /\ v.squad = 0
      BY FreshType, TeamAssumption DEF Job, Fresh, Apply
    <3>3. lastId \in Nat
      BY TeamAssumption DEF TypeInv, TypeOK
    <3> HIDE DEF v
    <3>4. v.squad <= lastId' /\ lastId' \in Nat /\ lastId <= lastId' /\ v.pc \notin {"update", "clear", "add"}
      BY <1>1, <3>2, <3>3
    <3>5. job' = [job EXCEPT ![t] = v]
      BY <3>1 DEF v
    <3>6. job' \in [Sources -> Job] /\ JobIds'
      BY <1>1, <3>2, <3>4, <3>5, SetJob
    <3>7. QED
      BY <2>1, <3>6 DEF ApplyTemplate, TypeInv, TypeOK
  <2>2. CASE ApplyRepo(t) \/ ProbeGit(t) \/ CreateProjectDomain(t)
    <3>1. \/ Fails(t)
          \/ \E pc \in {"probe", "domain", "skill"} : Goes(t, pc) /\ UNCHANGED outcome
      BY <2>2 DEF ApplyRepo, ProbeGit, CreateProjectDomain
    <3>2. QED
      BY <1>1, <3>1, FailsJob, GoesJob DEF Apply, TypeInv, TypeOK
  <2>3. CASE EnsureScratchDomain(t) \/ CreateGoals(t)
    <3>1. Ends(t)
      BY <2>3 DEF EnsureScratchDomain, CreateGoals
    <3>2. /\ Fresh \in Job /\ Fresh.squad <= lastId' /\ lastId' \in Nat /\ lastId <= lastId'
          /\ Fresh.pc \in {"update", "clear", "add"} => Fresh.squad # 0
      BY <1>1, FreshType, TeamAssumption DEF TypeInv, TypeOK
    <3>3. job' \in [Sources -> Job] /\ JobIds'
      BY <1>1, <3>1, <3>2, SetJob DEF Ends
    <3>4. QED
      BY <3>1, <3>3 DEF Ends, TypeInv, TypeOK
  <2>4. QED
    BY <2>1, <2>2, <2>3 DEF Applying
<1>3. IdInv'
  BY <1>1, <1>2 DEF TypeInv, IdInv
<1>4. ASSUME ApplyTemplate(t) \/ ApplyRepo(t) \/ ProbeGit(t)
      PROVE  TypeOK'
  <2>1. UNCHANGED <<squadVars, teamVars, placeVars, importVars, lifeVars>>
    BY <1>4 DEF ApplyTemplate, ApplyRepo, ProbeGit
  <2>2. QED
    BY <1>2, <2>1 DEF TypeInv, TypeOK
<1>5. ASSUME CreateProjectDomain(t) \/ EnsureScratchDomain(t)
      PROVE  TypeOK'
  BY <1>1, <1>2, <1>5 DEF TypeInv, TypeOK, CreateProjectDomain, EnsureScratchDomain
<1>6. ASSUME CreateGoals(t)
      PROVE  TypeOK'
  BY <1>1, <1>2, <1>6 DEF TypeInv, TypeOK, CreateGoals
<1>7. QED
  BY <1>3, <1>4, <1>5, <1>6 DEF Applying, TypeInv

(* The writes of a job, up to the agents.                                  *)
LEMMA TeamWriteType ==
    ASSUME TypeInv, NEW s \in Sources,
           \/ FindSkill(s) \/ UpsertSkill(s) \/ SkillTaken(s)
           \/ WriteSkillFiles(s) \/ WriteSkillFilesFails(s) \/ UpsertAgents(s)
    PROVE  TypeInv'
<1> USE DEF squadVars, teamVars, placeVars, importVars, lifeVars
<1>1. lastId' = lastId /\ squad' = squad /\ roster' = roster
  BY DEF FindSkill, UpsertSkill, SkillTaken, WriteSkillFiles, WriteSkillFilesFails, UpsertAgents
<1>2. /\ lastId' \in Nat /\ lastId <= lastId' /\ job[s].squad <= lastId'
      /\ job[s] \in Job /\ CanWrite(s) \subseteq Team /\ Leader \in Team
  BY <1>1, JobFields, TeamAssumption DEF TypeInv, TypeOK, IdInv, JobIds, CanWrite, Team
<1>3. CASE FindSkill(s)
  <2> DEFINE v == [job[s] EXCEPT !.pc = "write", !.made = (skill = "none")]
  <2>1. v \in Job /\ v.squad = job[s].squad /\ v.pc = "write"
    BY <1>2 DEF Job, Apply
  <2>2. Becomes(s, v) /\ UNCHANGED <<teamVars, placeVars, importVars, lifeVars>>
    BY <1>3 DEF FindSkill
  <2> HIDE DEF v
  <2>3. v.squad <= lastId' /\ v.pc \notin {"update", "clear", "add"}
    BY <1>2, <2>1
  <2>4. /\ job' \in [Sources -> Job] /\ JobIds'
        /\ outcome' \in [Templates -> {"none", "applied", "partial", "failed", "cut"}]
    BY <1>2, <2>1, <2>2, <2>3, BecomesJob
  <2>5. QED
    BY <1>1, <2>2, <2>4 DEF TypeInv, TypeOK, IdInv
<1>4. CASE UpsertSkill(s)
  <2> DEFINE v == [job[s] EXCEPT !.pc = "files"]
  <2>1. v \in Job /\ v.squad = job[s].squad /\ v.pc = "files"
    BY <1>2 DEF Job, Apply
  <2>2. /\ Becomes(s, v) /\ skill' \in {"none", "row"}
        /\ UNCHANGED <<agents, placeVars, importVars, lifeVars>>
    BY <1>4 DEF UpsertSkill
  <2> HIDE DEF v
  <2>3. v.squad <= lastId' /\ v.pc \notin {"update", "clear", "add"}
    BY <1>2, <2>1
  <2>4. /\ job' \in [Sources -> Job] /\ JobIds'
        /\ outcome' \in [Templates -> {"none", "applied", "partial", "failed", "cut"}]
    BY <1>2, <2>1, <2>2, <2>3, BecomesJob
  <2>5. QED
    BY <1>1, <2>2, <2>4 DEF TypeInv, TypeOK, IdInv
<1>5. CASE WriteSkillFiles(s)
  <2> DEFINE v == [job[s] EXCEPT !.pc = "agents"]
  <2>1. v \in Job /\ v.squad = job[s].squad /\ v.pc = "agents"
    BY <1>2 DEF Job, Apply
  <2>2. /\ Becomes(s, v) /\ skill' \in {"none", "whole"}
        /\ UNCHANGED <<agents, placeVars, importVars, lifeVars>>
    BY <1>5 DEF WriteSkillFiles
  <2> HIDE DEF v
  <2>3. v.squad <= lastId' /\ v.pc \notin {"update", "clear", "add"}
    BY <1>2, <2>1
  <2>4. /\ job' \in [Sources -> Job] /\ JobIds'
        /\ outcome' \in [Templates -> {"none", "applied", "partial", "failed", "cut"}]
    BY <1>2, <2>1, <2>2, <2>3, BecomesJob
  <2>5. QED
    BY <1>1, <2>2, <2>4 DEF TypeInv, TypeOK, IdInv
<1>6. CASE SkillTaken(s) \/ WriteSkillFilesFails(s)
  <2>1. /\ Fails(s) /\ skill' \in {"none", skill}
        /\ agents' \subseteq agents \cup Team /\ UNCHANGED <<placeVars, importVars, lifeVars>>
    BY <1>2, <1>6 DEF SkillTaken, WriteSkillFilesFails, SkillFails
  <2>2. /\ job' \in [Sources -> Job] /\ JobIds'
        /\ outcome' \in [Templates -> {"none", "applied", "partial", "failed", "cut"}]
    BY <1>1, <2>1, FailsJob
  <2>3. QED
    BY <1>1, <2>1, <2>2 DEF TypeInv, TypeOK, IdInv
<1>7. CASE UpsertAgents(s)
  <2>1. PICK ok \in SUBSET CanWrite(s) :
          /\ agents' = agents \cup ok
          /\ IF Leader \in ok /\ (s \in Imports => ok = Team)
               THEN Becomes(s, [job[s] EXCEPT !.ids = ok, !.pc = IF Create(s) THEN "new" ELSE "look"])
               ELSE Fails(s)
    BY <1>7 DEF UpsertAgents
  <2> DEFINE v == [job[s] EXCEPT !.ids = ok, !.pc = IF Create(s) THEN "new" ELSE "look"]
  <2>2. v \in Job /\ v.squad = job[s].squad /\ v.pc \in {"new", "look"} /\ ok \subseteq Team
    BY <1>2 DEF Job, Apply
  <2>3. Becomes(s, v) \/ Fails(s)
    BY <2>1
  <2> HIDE DEF v
  <2>4. v.squad <= lastId' /\ v.pc \notin {"update", "clear", "add"}
    BY <1>2, <2>2
  <2>5. /\ job' \in [Sources -> Job] /\ JobIds'
        /\ outcome' \in [Templates -> {"none", "applied", "partial", "failed", "cut"}]
    BY <1>1, <1>2, <2>2, <2>3, <2>4, BecomesJob, FailsJob
  <2>6. agents' \subseteq Team \cup {Stale} /\ UNCHANGED <<skill, placeVars, importVars, lifeVars>>
    BY <1>7, <2>1, <2>2 DEF UpsertAgents, TypeInv, TypeOK
  <2>7. QED
    BY <1>1, <2>5, <2>6 DEF TypeInv, TypeOK, IdInv
<1>8. QED
  BY <1>3, <1>4, <1>5, <1>6, <1>7

(* What a step on the squad leaves: everything but squad, job and outcome. *)
LEMMA SquadType ==
    ASSUME TypeInv, UNCHANGED <<teamVars, placeVars, importVars, lifeVars>>,
           roster' \in {"old", "team", "part"}, lastId' \in 0..MaxSquads,
           squad' \in [id : 0..MaxSquads, leader : Team \cup {Stale}, members : SUBSET (Team \cup {Stale})],
           squad'.id \in {0, lastId'}, squad'.id = 0 => lastId' < MaxSquads,
           job' \in [Sources -> Job], JobIds',
           outcome' \in [Templates -> {"none", "applied", "partial", "failed", "cut"}]
    PROVE  TypeInv'
  BY DEF TypeInv, TypeOK, IdInv, teamVars, placeVars, importVars, lifeVars

(* The squad row, read off its type.                                       *)
LEMMA SquadFields ==
    ASSUME TypeInv
    PROVE  /\ squad = [id |-> squad.id, leader |-> squad.leader, members |-> squad.members]
           /\ squad.id \in 0..MaxSquads /\ squad.leader \in Team \cup {Stale}
           /\ squad.members \subseteq Team \cup {Stale} /\ roster \in {"old", "team", "part"}
           /\ squad \in [id : 0..MaxSquads, leader : Team \cup {Stale}, members : SUBSET (Team \cup {Stale})]
           /\ lastId \in Nat /\ lastId \in 0..MaxSquads /\ MaxSquads \in Nat
           /\ squad.id \in {0, lastId} /\ (squad.id = 0 => lastId < MaxSquads)
           /\ outcome \in [Templates -> {"none", "applied", "partial", "failed", "cut"}]
  BY TeamAssumption DEF TypeInv, TypeOK, IdInv

SquadWrite(s) ==
    FindSquad(s) \/ UpdateSquad(s) \/ ClearMembers(s) \/ CreateSquad(s) \/ AddMember(s) \/ SquadDone(s)

(* The writes of the squad keep its row and the ids in order.              *)
LEMMA SquadWriteType ==
    ASSUME TypeInv, NEW s \in Sources, SquadWrite(s)
    PROVE  TypeInv'
<1>1. UNCHANGED <<teamVars, placeVars, importVars, lifeVars>>
  BY DEF SquadWrite, FindSquad, UpdateSquad, ClearMembers, CreateSquad, AddMember, SquadDone
<1>2. /\ job[s] \in Job /\ job[s].squad \in 0..MaxSquads /\ job[s].k \in 1..(Len(Members) + 1)
      /\ job[s].squad <= lastId /\ Len(Members) \in Nat
      /\ job[s].pc \in {"update", "clear", "add"} => job[s].squad # 0
  BY JobFields, MembersType DEF TypeInv, IdInv, JobIds
<1>3. Wrote(s) \in {"team", "part"} /\ Leader \in Team
  BY DEF Wrote, Team
<1>4. /\ \A k \in 1..(Len(Members) + 1) : Skipping(s, k) \in 1..(Len(Members) + 1)
      /\ Skipping(s, 1) \in 1..(Len(Members) + 1)
  BY <1>2, SkippingType
<1>5. CASE FindSquad(s)
  <2> DEFINE v == [job[s] EXCEPT !.squad = squad.id, !.pc = IF squad.id = 0 THEN "new" ELSE "update"]
  <2>1. squad.id \in 0..MaxSquads /\ lastId \in Nat /\ squad.id <= lastId
    BY SquadFields
  <2>2. /\ v \in Job /\ v.squad = squad.id /\ v.pc \in {"new", "update"}
        /\ v.pc = "update" => v.squad # 0
    BY <1>2, <2>1 DEF Job, Apply
  <2>3. Becomes(s, v) /\ UNCHANGED squadVars
    BY <1>5 DEF FindSquad
  <2> HIDE DEF v
  <2>4. lastId' = lastId /\ v.squad <= lastId' /\ (v.pc \in {"update", "clear", "add"} => v.squad # 0)
    BY <2>1, <2>2, <2>3 DEF squadVars
  <2>5. /\ job' \in [Sources -> Job] /\ JobIds'
        /\ outcome' \in [Templates -> {"none", "applied", "partial", "failed", "cut"}]
    BY <2>1, <2>2, <2>3, <2>4, BecomesJob
  <2>6. QED
    BY <1>1, <2>3, <2>5, SquadFields, SquadType DEF squadVars
<1>6. CASE UpdateSquad(s)
  <2> DEFINE v == [job[s] EXCEPT !.pc = "clear"]
  <2>1. v \in Job /\ v.squad = job[s].squad /\ v.pc = "clear" /\ v.squad # 0
    BY <1>2, <1>6 DEF Job, Apply, UpdateSquad, At
  <2>2. /\ Becomes(s, v) /\ UNCHANGED <<lastId, roster>>
        /\ squad' = IF squad.id = job[s].squad THEN [squad EXCEPT !.leader = Leader] ELSE squad
    BY <1>6 DEF UpdateSquad
  <2> HIDE DEF v
  <2>3. lastId' \in Nat /\ lastId <= lastId' /\ v.squad <= lastId' /\ (v.pc \in {"update", "clear", "add"} => v.squad # 0)
    BY <1>2, <2>1, <2>2, SquadFields
  <2>4. /\ job' \in [Sources -> Job] /\ JobIds'
        /\ outcome' \in [Templates -> {"none", "applied", "partial", "failed", "cut"}]
    BY <2>1, <2>2, <2>3, BecomesJob
  <2>5. /\ squad' \in [id : 0..MaxSquads, leader : Team \cup {Stale}, members : SUBSET (Team \cup {Stale})]
        /\ squad'.id = squad.id
    BY <1>3, <2>2 DEF TypeInv, TypeOK
  <2>6. QED
    BY <1>1, <2>2, <2>4, <2>5, SquadFields, SquadType
<1>7. CASE ClearMembers(s)
  <2> DEFINE v == [job[s] EXCEPT !.pc = "add", !.k = Skipping(s, 1)]
  <2>1. v \in Job /\ v.squad = job[s].squad /\ v.pc = "add" /\ v.squad # 0
    BY <1>2, <1>4, <1>7 DEF Job, Apply, ClearMembers, At
  <2>2. /\ Becomes(s, v) /\ lastId' = lastId
        /\ \/ squad' = [squad EXCEPT !.members = {}] /\ roster' = Wrote(s)
           \/ UNCHANGED <<squad, roster>>
    BY <1>7 DEF ClearMembers
  <2> HIDE DEF v
  <2>3. lastId' \in Nat /\ lastId <= lastId' /\ v.squad <= lastId' /\ (v.pc \in {"update", "clear", "add"} => v.squad # 0)
    BY <1>2, <2>1, <2>2, SquadFields
  <2>4. /\ job' \in [Sources -> Job] /\ JobIds'
        /\ outcome' \in [Templates -> {"none", "applied", "partial", "failed", "cut"}]
    BY <2>1, <2>2, <2>3, BecomesJob
  <2>5. /\ squad' \in [id : 0..MaxSquads, leader : Team \cup {Stale}, members : SUBSET (Team \cup {Stale})]
        /\ squad'.id = squad.id /\ roster' \in {"old", "team", "part"}
    BY <1>3, <2>2 DEF TypeInv, TypeOK
  <2>6. QED
    BY <1>1, <2>2, <2>4, <2>5, SquadFields, SquadType
<1>8. CASE CreateSquad(s)
  <2>1. CASE squad.id # 0
    <3>1. Fails(s) /\ UNCHANGED squadVars
      BY <1>8, <2>1 DEF CreateSquad
    <3>2. /\ job' \in [Sources -> Job] /\ JobIds'
          /\ outcome' \in [Templates -> {"none", "applied", "partial", "failed", "cut"}]
      BY <3>1, FailsJob DEF squadVars
    <3>3. QED
      BY <1>1, <3>1, <3>2, SquadFields, SquadType DEF squadVars
  <2>2. CASE squad.id = 0
    <3> DEFINE v == [job[s] EXCEPT !.pc = "add", !.squad = lastId + 1, !.k = Skipping(s, 1)]
    <3>1. lastId + 1 \in 0..MaxSquads /\ lastId + 1 # 0 /\ lastId \in Nat
      BY <2>2, SquadFields DEF TypeInv, IdInv
    <3>2. v \in Job /\ v.squad = lastId + 1 /\ v.pc = "add"
      BY <1>2, <1>4, <3>1 DEF Job, Apply
    <3>3. /\ Becomes(s, v) /\ lastId' = lastId + 1 /\ roster' = Wrote(s)
          /\ squad' = [id |-> lastId + 1, leader |-> Leader, members |-> {}]
      BY <1>8, <2>2 DEF CreateSquad
    <3> HIDE DEF v
    <3>4. lastId' \in Nat /\ lastId <= lastId' /\ v.squad <= lastId' /\ (v.pc \in {"update", "clear", "add"} => v.squad # 0)
      BY <3>1, <3>2, <3>3
    <3>5. /\ job' \in [Sources -> Job] /\ JobIds'
          /\ outcome' \in [Templates -> {"none", "applied", "partial", "failed", "cut"}]
      BY <3>2, <3>3, <3>4, BecomesJob
    <3>6. /\ squad' \in [id : 0..MaxSquads, leader : Team \cup {Stale}, members : SUBSET (Team \cup {Stale})]
          /\ squad'.id = lastId' /\ squad'.id # 0
      BY <1>3, <3>1, <3>3
    <3>7. QED
      BY <1>1, <1>3, <3>1, <3>3, <3>5, <3>6, SquadType
  <2>3. QED
    BY <2>1, <2>2
<1>9. CASE AddMember(s)
  <2> DEFINE m == Members[job[s].k]
             v == [job[s] EXCEPT !.k = Skipping(s, @ + 1)]
  <2>1. job[s].k \in DOMAIN Members /\ job[s].k + 1 \in 1..(Len(Members) + 1) /\ m \in Team
    BY <1>2, <1>9, MembersType DEF AddMember
  <2>2. v \in Job /\ v.squad = job[s].squad /\ v.pc = job[s].pc
    BY <1>2, <1>4, <2>1 DEF Job
  <2>3. /\ squad' = squad \/ squad' = [squad EXCEPT !.members = @ \cup {m}]
        /\ Fails(s) \/ Becomes(s, v)
        /\ UNCHANGED <<lastId, roster>>
    BY <1>9 DEF AddMember
  <2> HIDE DEF v
  <2>4. lastId' \in Nat /\ lastId <= lastId' /\ v.squad <= lastId' /\ (v.pc \in {"update", "clear", "add"} => v.squad # 0)
    BY <1>2, <2>2, <2>3, SquadFields
  <2>5. /\ job' \in [Sources -> Job] /\ JobIds'
        /\ outcome' \in [Templates -> {"none", "applied", "partial", "failed", "cut"}]
    BY <2>2, <2>3, <2>4, BecomesJob, FailsJob
  <2> HIDE DEF m
  <2>6. /\ squad' \in [id : 0..MaxSquads, leader : Team \cup {Stale}, members : SUBSET (Team \cup {Stale})]
        /\ squad'.id = squad.id
    BY <2>1, <2>3 DEF TypeInv, TypeOK
  <2>7. QED
    BY <1>1, <2>3, <2>5, <2>6, SquadFields, SquadType
<1>10. CASE SquadDone(s)
  <2>1. \E pc \in {"complete", "goals", "scratch"} : Goes(s, pc)
    BY <1>10 DEF SquadDone
  <2>2. UNCHANGED squadVars /\ UNCHANGED outcome
    BY <1>10 DEF SquadDone
  <2>3. job' \in [Sources -> Job] /\ JobIds'
    BY <2>1, <2>2, GoesJob DEF Import, Apply, squadVars
  <2>4. QED
    BY <1>1, <2>2, <2>3, SquadFields, SquadType DEF squadVars
<1>11. QED
  BY <1>5, <1>6, <1>7, <1>8, <1>9, <1>10 DEF SquadWrite

(* People, and the process.                                                *)
LEMMA WorldType ==
    ASSUME TypeInv, (\E n \in Names : CreateDomain(n)) \/ DeleteSquad \/ DeleteSkill \/ Crash \/ Restart
    PROVE  TypeInv'
<1> USE DEF squadVars, teamVars, placeVars, importVars, lifeVars
<1>1. CASE \E n \in Names : CreateDomain(n)
  <2>1. PICK n \in Names : CreateDomain(n)
    BY <1>1
  <2>2. edits' \in 0..MaxEdits /\ JobIds'
    BY <2>1, EditType DEF CreateDomain, TypeInv, IdInv, JobIds
  <2>3. domain' \in [Names -> {"none", "scratch", "repo"}]
    BY <2>1 DEF CreateDomain, TypeInv, TypeOK
  <2>4. QED
    BY <2>1, <2>2, <2>3 DEF CreateDomain, TypeInv, TypeOK, IdInv
<1>2. CASE DeleteSquad
  <2>1. edits' \in 0..MaxEdits /\ JobIds'
    BY <1>2, EditType DEF DeleteSquad, TypeInv, IdInv, JobIds
  <2>2. squad' = [id |-> 0, leader |-> Stale, members |-> {}] /\ 0 \in 0..MaxSquads /\ lastId < MaxSquads
    BY <1>2, TeamAssumption DEF DeleteSquad
  <2>3. squad' \in [id : 0..MaxSquads, leader : Team \cup {Stale}, members : SUBSET (Team \cup {Stale})] /\ squad'.id = 0
    BY <2>2
  <2>4. QED
    BY <1>2, <2>1, <2>2, <2>3 DEF DeleteSquad, TypeInv, TypeOK, IdInv
<1>3. CASE DeleteSkill
  <2>1. edits' \in 0..MaxEdits /\ JobIds'
    BY <1>3, EditType DEF DeleteSkill, TypeInv, IdInv, JobIds
  <2>2. QED
    BY <1>3, <2>1 DEF DeleteSkill, TypeInv, TypeOK, IdInv
<1>4. CASE Crash
  <2>1. job' \in [Sources -> Job] /\ JobIds'
    <3>1. job' = [s \in Sources |-> Fresh] /\ lastId' = lastId /\ lastId \in Nat
      BY <1>4, SquadFields DEF Crash
    <3>2. \A s \in Sources : job'[s].squad = 0 /\ job'[s].pc = "idle"
      BY <3>1, FreshType
    <3>3. QED
      BY <3>1, <3>2, FreshType DEF JobIds
  <2>2. crashes' \in 0..MaxCrashes /\ up' \in BOOLEAN /\ roster' \in {"old", "team", "part"}
    <3>1. crashes \in 0..MaxCrashes /\ MaxCrashes \in Nat /\ crashes < MaxCrashes /\ crashes' = crashes + 1
      BY <1>4, TeamAssumption DEF Crash, TypeInv, TypeOK
    <3>2. up' \in BOOLEAN /\ roster' \in {"old", "team", "part"}
      BY <1>4 DEF Crash, TypeInv, TypeOK
    <3>3. QED
      BY <3>1, <3>2
  <2>3. /\ call' \in [Imports -> {"new", "insert", "seed", "create", "link", "over"}]
        /\ outcome' \in [Templates -> {"none", "applied", "partial", "failed", "cut"}]
    BY <1>4 DEF Crash, TypeInv, TypeOK
  <2>4. UNCHANGED <<squad, lastId, teamVars, placeVars, row, linked, goal, decided, run, edits>>
    BY <1>4 DEF Crash
  <2>5. QED
    BY <2>1, <2>2, <2>3, <2>4 DEF TypeInv, TypeOK, IdInv
<1>5. CASE Restart
  <2>1. \A s \in Sources : job'[s] = Fresh \/ job'[s] = [Fresh EXCEPT !.pc = "approve"]
    BY <1>5 DEF Restart
  <2>2. [Fresh EXCEPT !.pc = "approve"] \in Job /\ [Fresh EXCEPT !.pc = "approve"].squad = 0
        /\ [Fresh EXCEPT !.pc = "approve"].pc = "approve"
    BY FreshType DEF Job, Fresh, Import
  <2>3. job' = [s \in Sources |-> job'[s]] /\ lastId' = lastId
    BY <1>5 DEF Restart
  <2>4. job' \in [Sources -> Job] /\ JobIds'
    <3>1. \A s \in Sources : /\ job'[s] \in Job /\ job'[s].squad = 0
                             /\ job'[s].pc \in {"idle", "approve"}
      BY <2>1, <2>2, FreshType
    <3>2. lastId' \in Nat
      BY <2>3, SquadFields
    <3>3. QED
      BY <2>3, <3>1, <3>2 DEF JobIds
  <2>5. run' \in [Imports -> RunStatus] /\ up' \in BOOLEAN
    BY <1>5 DEF Restart, TypeInv, TypeOK, RunStatus
  <2>6. UNCHANGED <<squadVars, teamVars, placeVars, row, linked, goal, decided, call, outcome, crashes, edits>>
    BY <1>5 DEF Restart
  <2>7. QED
    BY <2>4, <2>5, <2>6 DEF TypeInv, TypeOK, IdInv
<1>6. QED
  BY <1>1, <1>2, <1>3, <1>4, <1>5

(* The cases of Next, as the proofs below use them.                        *)
ImportStep(i) ==
    \/ ImportTeam(i) \/ Request(i) \/ CreateImportGoalFails(i) \/ Claim(i)
    \/ DispatchExpires(i) \/ MarkDelivered(i) \/ StopRun(i)
HandlingStep(i) == ReportCompleted(i) \/ ReportFailed(i) \/ Handling(i)
ApplyStep(t) == ApplyTemplate(t) \/ Applying(t)
TeamWrite(s) ==
    \/ FindSkill(s) \/ UpsertSkill(s) \/ SkillTaken(s)
    \/ WriteSkillFiles(s) \/ WriteSkillFilesFails(s) \/ UpsertAgents(s)
WorldStep == (\E n \in Names : CreateDomain(n)) \/ DeleteSquad \/ DeleteSkill \/ Crash \/ Restart

(* The steps, grouped as the lemmas treat them.                            *)
LEMMA NextCases ==
    Next <=> \/ \E i \in Imports : ImportStep(i) \/ HandlingStep(i)
             \/ \E t \in Templates : ApplyStep(t)
             \/ \E s \in Sources : TeamWrite(s) \/ SquadWrite(s)
             \/ WorldStep
  BY DEF Next, ImportStep, HandlingStep, ApplyStep, TeamWrite, SquadWrite, WorldStep, Writing

(* Every step keeps the types.                                             *)
LEMMA StepType == TypeInv /\ [Next]_vars => TypeInv'
<1> SUFFICES ASSUME TypeInv, [Next]_vars PROVE TypeInv'
  OBVIOUS
<1>1. CASE Next
  BY <1>1, NextCases, ImportType, HandlingType, ApplyingType, TeamWriteType, SquadWriteType, WorldType
     DEF ImportStep, HandlingStep, ApplyStep, TeamWrite, WorldStep
<1>2. CASE UNCHANGED vars
  BY <1>2 DEF vars, squadVars, teamVars, placeVars, importVars, lifeVars, TypeInv, TypeOK, IdInv, JobIds
<1>3. QED
  BY <1>1, <1>2

(* The type invariant, for the proofs that need it.                        *)
LEMMA TypeInvariance == Spec => []TypeInv
  BY InitType, StepType, PTL DEF Spec

(* Every variable keeps its type, and every squad a job creates its id.    *)
THEOREM TypeCorrect == Spec => []TypeOK
<1>1. TypeInv => TypeOK
  BY DEF TypeInv
<1>2. QED
  BY <1>1, TypeInvariance, PTL

----------------------------------------------------------------------------
(* The roster.  While the squad is the team's, whoever adds members to it  *)
(* adds them all, and each member that is missing is still to be added by  *)
(* a job that no other can stop before it gets there.                      *)

(* No agent is named twice: UNIQUE(squad, member) would refuse the second. *)
NoRepeats == \A i, j \in DOMAIN Members : Members[i] = Members[j] => i = j

Adds(s) == job[s].pc = "add" /\ job[s].squad = squad.id
Missing(i) == Members[i] \notin squad.members

(* An upsert stops at a member that another job wrote, "create" does not.  *)
Supplies(s, i) ==
    /\ Adds(s) /\ job[s].k <= i
    /\ Create(s) \/ \A j \in job[s].k..i : Missing(j)

LeaderInv ==
    /\ roster = "team" /\ squad.id # 0 => squad.leader = Leader
    /\ \A s \in Sources : job[s].pc \in {"clear", "add"} /\ job[s].squad = squad.id => squad.leader = Leader

RosterInv ==
    roster = "team" /\ squad.id # 0 =>
        /\ squad.members \subseteq Mates
        /\ \A s \in Sources : Adds(s) => job[s].ids = Team
        /\ \A i \in DOMAIN Members : Missing(i) => \E s \in Sources : Supplies(s, i)

(* A process that is down works on nothing.                                *)
DownInv == ~ up => \A s \in Sources : job[s].pc = "idle"

(* An import beyond its agents has written them.                           *)
Ingested == {"look", "update", "clear", "new", "add", "complete", "finish_ok"}
AgentsInv ==
    /\ DoneIsImported
    /\ \A i \in Imports : job[i].pc \in Ingested => Team \subseteq agents

TeamInv == TypeInv /\ LeaderInv /\ RosterInv /\ DownInv /\ AgentsInv

(* At the start nothing of the team is written.                            *)
LEMMA InitTeam == Init => TeamInv
<1> SUFFICES ASSUME Init PROVE TeamInv
  OBVIOUS
<1>1. \A s \in Sources : job[s].pc = "idle"
  BY FreshType DEF Init
<1>2. roster = "old" /\ up = TRUE /\ \A i \in Imports : goal[i] = "none"
  BY DEF Init
<1>3. LeaderInv /\ RosterInv /\ DownInv
  BY <1>1, <1>2 DEF LeaderInv, RosterInv, DownInv
<1>4. AgentsInv
  <2>1. Imports \subseteq Sources
    BY DEF Sources
  <2>2. QED
    BY <1>1, <1>2, <2>1 DEF AgentsInv, DoneIsImported, Ingested
<1>5. QED
  BY <1>3, <1>4, InitType DEF TeamInv

(* One job moves, and none that adds or will.                              *)
Elsewhere(s) == \A j \in Sources : j # s => job'[j] = job[j]
Apart(j) == job[j].pc # "add" /\ job'[j].pc \notin {"clear", "add"}

(* Such a step leaves the roster as it is.                                 *)
LEMMA RosterFrame ==
    ASSUME LeaderInv, RosterInv, UNCHANGED squadVars,
           \A j \in Sources : job'[j] = job[j] \/ Apart(j)
    PROVE  LeaderInv' /\ RosterInv'
<1>1. squad' = squad /\ roster' = roster
  BY DEF squadVars
<1>2. LeaderInv'
  BY <1>1 DEF LeaderInv, Apart
<1>3. \A j \in Sources : /\ Adds(j)' <=> Adds(j)
                         /\ Adds(j) => job'[j] = job[j]
  BY <1>1 DEF Adds, Apart
<1>4. \A i : Missing(i)' <=> Missing(i)
  BY <1>1 DEF Missing
<1>5. ASSUME NEW j \in Sources, NEW i \in DOMAIN Members, Supplies(j, i)
      PROVE  Supplies(j, i)'
  BY <1>3, <1>4, <1>5 DEF Supplies, Create
<1>6. RosterInv'
  BY <1>1, <1>3, <1>4, <1>5 DEF RosterInv
<1>7. QED
  BY <1>2, <1>6

(* One job is replaced, the others stand.                                  *)
LEMMA JobAt ==
    ASSUME TypeOK, NEW s \in Sources, NEW v, job' = [job EXCEPT ![s] = v]
    PROVE  job'[s] = v /\ Elsewhere(s)
  BY DEF TypeOK, Elsewhere

(* One job goes on, the others stand.                                      *)
LEMMA GoesAt ==
    ASSUME TypeOK, NEW s \in Sources, NEW pc, Goes(s, pc)
    PROVE  job'[s] = [job[s] EXCEPT !.pc = pc] /\ job'[s].pc = pc /\ Elsewhere(s)
<1>1. job'[s] = [job[s] EXCEPT !.pc = pc] /\ Elsewhere(s)
  BY DEF TypeOK, Elsewhere, Goes
<1>2. job[s] \in Job
  BY JobFields
<1>3. QED
  BY <1>1, <1>2 DEF Job

(* One job fails, the others stand.                                        *)
LEMMA FailsAt ==
    ASSUME TypeOK, NEW s \in Sources, Fails(s)
    PROVE  job'[s].pc \in {"fail", "idle"} /\ (s \in Imports => job'[s].pc = "fail") /\ Elsewhere(s)
<1>1. CASE s \in Imports
  BY <1>1, GoesAt DEF Fails
<1>2. CASE s \notin Imports
  BY <1>2, JobAt, FreshType DEF Fails
<1>3. QED
  BY <1>1, <1>2

(* What a step must leave of the agents.                                   *)
LEMMA AgentsFrame ==
    ASSUME AgentsInv, agents \subseteq agents',
           \A i \in Imports : /\ goal'[i] \in {"review", "done"} => goal[i] \in {"review", "done"} \/ job[i].pc = "finish_ok"
                              /\ job'[i].pc \in Ingested => job[i].pc \in Ingested \/ Team \subseteq agents'
    PROVE  AgentsInv'
<1>1. ASSUME NEW i \in Imports, goal'[i] \in {"review", "done"}
      PROVE  Team \subseteq agents'
  BY <1>1 DEF AgentsInv, DoneIsImported, Ingested
<1>2. ASSUME NEW i \in Imports, job'[i].pc \in Ingested
      PROVE  Team \subseteq agents'
  BY <1>2 DEF AgentsInv
<1>3. QED
  BY <1>1, <1>2 DEF AgentsInv, DoneIsImported

(* Requests, rows and the analysis write nothing of the team.              *)
LEMMA ImportTeamInv ==
    ASSUME TeamInv, NEW i \in Imports, ImportStep(i)
    PROVE  LeaderInv' /\ RosterInv' /\ DownInv' /\ AgentsInv'
<1> USE DEF squadVars, teamVars, placeVars, lifeVars
<1>1. /\ UNCHANGED squadVars /\ job' = job /\ agents' = agents /\ up /\ up' = up
  BY DEF ImportStep, ImportTeam, Request, InsertRow, SeedImportDomain, CreateImportGoal, LinkImport,
         CreateImportGoalFails, Claim, DispatchExpires, MarkDelivered, StopRun, Edit, At
<1>2. \A j \in Imports : goal'[j] \in {"review", "done"} => goal[j] \in {"review", "done"}
  BY DEF ImportStep, ImportTeam, Request, InsertRow, SeedImportDomain, CreateImportGoal, LinkImport,
         CreateImportGoalFails, Claim, DispatchExpires, MarkDelivered, StopRun, TeamInv, TypeInv, TypeOK
<1>3. QED
  BY <1>1, <1>2, RosterFrame, AgentsFrame DEF TeamInv, DownInv

(* An import is looked up, completed or failed.                            *)
LEMMA HandlingTeamInv ==
    ASSUME TeamInv, NEW i \in Imports, HandlingStep(i)
    PROVE  LeaderInv' /\ RosterInv' /\ DownInv' /\ AgentsInv'
<1> USE DEF squadVars, teamVars, placeVars, importVars, lifeVars
<1>1. TypeOK /\ i \in Sources /\ Imports \subseteq Sources
  BY DEF TeamInv, TypeInv, Sources
<1>2. UNCHANGED squadVars /\ agents' = agents /\ up /\ up' = up
  BY DEF HandlingStep, ReportCompleted, ReportFailed, Reported, Handling, FindImport, FailImportByGoal,
         FailImport, CompleteImport, FinishCompleted, FinishFailed, FinishAs, ApproveImportGoal, At
<1>3. /\ Elsewhere(i) /\ job[i].pc # "add" /\ job'[i].pc \notin {"clear", "add"}
      /\ job'[i].pc \in Ingested => job[i].pc \in Ingested
  <2>1. CASE ReportCompleted(i) \/ ReportFailed(i)
    <3>1. PICK pc \in {"lookup", "read_fail"} : job[i].pc = "idle" /\ job' = [job EXCEPT ![i] = [Fresh EXCEPT !.pc = pc]]
      BY <2>1 DEF ReportCompleted, ReportFailed, Reported, At
    <3>2. [Fresh EXCEPT !.pc = pc].pc = pc
      BY DEF Fresh
    <3>3. QED
      BY <1>1, <3>1, <3>2, JobAt DEF Ingested
  <2>2. CASE FinishCompleted(i) \/ FinishFailed(i)
    <3>1. /\ job[i].pc \in {"finish_ok", "finish_failed"}
          /\ \E pc \in {"approve", "idle"} : job' = [job EXCEPT ![i] = [Fresh EXCEPT !.pc = pc]]
      BY <2>2 DEF FinishCompleted, FinishFailed, FinishAs, At
    <3>2. \A pc \in {"approve", "idle"} : [Fresh EXCEPT !.pc = pc].pc = pc
      BY DEF Fresh
    <3>3. QED
      BY <1>1, <3>1, <3>2, JobAt DEF Ingested
  <2>3. CASE FindImport(i) \/ FailImportByGoal(i) \/ FailImport(i) \/ ApproveImportGoal(i)
    <3>1. /\ job[i].pc \in {"lookup", "read_fail", "fail", "approve"}
          /\ \E pc \in {"skill", "fail", "finish_failed", "idle"} : Goes(i, pc)
      BY <2>3 DEF FindImport, FailImportByGoal, FailImport, ApproveImportGoal, At
    <3>2. QED
      BY <1>1, <3>1, GoesAt DEF Ingested
  <2>4. CASE CompleteImport(i)
    <3>1. job[i].pc = "complete" /\ Goes(i, "finish_ok")
      BY <2>4 DEF CompleteImport, At
    <3>2. job'[i].pc = "finish_ok" /\ Elsewhere(i)
      BY <1>1, <3>1, GoesAt
    <3>3. QED
      BY <3>1, <3>2 DEF Ingested
  <2>5. QED
    BY <2>1, <2>2, <2>3, <2>4 DEF HandlingStep, Handling
<1>4. \A j \in Imports : goal'[j] \in {"review", "done"} => goal[j] \in {"review", "done"} \/ job[j].pc = "finish_ok"
  <2>1. CASE FinishCompleted(i) \/ FinishFailed(i)
    BY <1>1, <2>1 DEF FinishCompleted, FinishFailed, FinishAs, At, TypeOK
  <2>2. CASE ~ (FinishCompleted(i) \/ FinishFailed(i))
    <3>1. goal' = goal
      BY <2>2 DEF HandlingStep, ReportCompleted, ReportFailed, Reported, Handling, FindImport, FailImportByGoal,
                  FailImport, CompleteImport, ApproveImportGoal
    <3>2. QED
      BY <3>1
  <2>3. QED
    BY <2>1, <2>2
<1>5. \A j \in Sources : job'[j] = job[j] \/ Apart(j)
  BY <1>3 DEF Elsewhere, Apart
<1>6. \A j \in Imports : job'[j].pc \in Ingested => job[j].pc \in Ingested
  BY <1>1, <1>3 DEF Elsewhere
<1>7. QED
  BY <1>2, <1>4, <1>5, <1>6, RosterFrame, AgentsFrame DEF TeamInv, DownInv

(* A template begins, or does what is not the team.                        *)
LEMMA ApplyTeamInv ==
    ASSUME TeamInv, NEW t \in Templates, ApplyStep(t)
    PROVE  LeaderInv' /\ RosterInv' /\ DownInv' /\ AgentsInv'
<1> USE DEF squadVars, teamVars, placeVars, importVars, lifeVars
<1>1. TypeOK /\ t \in Sources /\ Imports \subseteq Sources /\ t \notin Imports
  BY TeamAssumption DEF TeamInv, TypeInv, Sources
<1>2. UNCHANGED squadVars /\ agents' = agents /\ goal' = goal /\ up /\ up' = up
  BY DEF ApplyStep, ApplyTemplate, Applying, ApplyRepo, ProbeGit, CreateProjectDomain, EnsureScratchDomain,
         CreateGoals, At
<1>3. Elsewhere(t) /\ job[t].pc # "add" /\ job'[t].pc \notin {"clear", "add"}
  <2>1. CASE ApplyTemplate(t)
    <3>1. job[t].pc = "idle"
      BY <2>1 DEF ApplyTemplate, At
    <3>2. PICK kind \in Kinds, strategy \in Strategies :
            job' = [job EXCEPT ![t] = [Fresh EXCEPT !.pc = IF kind = "project" THEN "repo" ELSE "skill",
                                                    !.kind = kind, !.strategy = strategy]]
      BY <2>1 DEF ApplyTemplate
    <3> DEFINE v == [Fresh EXCEPT !.pc = IF kind = "project" THEN "repo" ELSE "skill",
                                  !.kind = kind, !.strategy = strategy]
    <3>3. v.pc \in {"repo", "skill"}
      BY DEF Fresh
    <3> HIDE DEF v
    <3>4. job' = [job EXCEPT ![t] = v]
      BY <3>2 DEF v
    <3>5. QED
      BY <1>1, <3>1, <3>3, <3>4, JobAt
  <2>2. CASE ApplyRepo(t) \/ ProbeGit(t) \/ CreateProjectDomain(t)
    <3>1. job[t].pc \in {"repo", "probe", "domain"}
      BY <2>2 DEF ApplyRepo, ProbeGit, CreateProjectDomain, At
    <3>2. Fails(t) \/ \E pc \in {"probe", "domain", "skill"} : Goes(t, pc)
      BY <2>2 DEF ApplyRepo, ProbeGit, CreateProjectDomain
    <3>3. QED
      BY <1>1, <3>1, <3>2, FailsAt, GoesAt
  <2>3. CASE EnsureScratchDomain(t) \/ CreateGoals(t)
    <3>1. job[t].pc \in {"scratch", "goals"} /\ job' = [job EXCEPT ![t] = Fresh]
      BY <2>3 DEF EnsureScratchDomain, CreateGoals, Ends, At
    <3>2. QED
      BY <1>1, <3>1, FreshType, JobAt
  <2>4. QED
    BY <2>1, <2>2, <2>3 DEF ApplyStep, Applying
<1>4. \A j \in Sources : job'[j] = job[j] \/ Apart(j)
  BY <1>3 DEF Elsewhere, Apart
<1>5. \A j \in Imports : job'[j] = job[j]
  BY <1>1, <1>3 DEF Elsewhere
<1>6. QED
  BY <1>2, <1>4, <1>5, RosterFrame, AgentsFrame DEF TeamInv, DownInv

(* Skills and agents are written before the squad.                         *)
LEMMA TeamWriteInv ==
    ASSUME TeamInv, NEW s \in Sources, TeamWrite(s)
    PROVE  LeaderInv' /\ RosterInv' /\ DownInv' /\ AgentsInv'
<1> USE DEF squadVars, teamVars, placeVars, importVars, lifeVars
<1>1. TypeOK /\ Imports \subseteq Sources /\ job[s] \in Job
  BY JobFields DEF TeamInv, TypeInv, Sources
<1>2. UNCHANGED squadVars /\ agents \subseteq agents' /\ goal' = goal /\ up /\ up' = up
  BY DEF TeamWrite, FindSkill, UpsertSkill, SkillTaken, WriteSkillFiles, WriteSkillFilesFails,
         SkillFails, UpsertAgents, At
<1>3. /\ Elsewhere(s) /\ job[s].pc # "add" /\ job'[s].pc \notin {"clear", "add"}
      /\ s \in Imports /\ job'[s].pc \in Ingested => Team \subseteq agents'
  <2>1. CASE FindSkill(s) \/ UpsertSkill(s) \/ WriteSkillFiles(s)
    <3>1. PICK v \in {[job[s] EXCEPT !.pc = "write", !.made = (skill = "none")],
                      [job[s] EXCEPT !.pc = "files"], [job[s] EXCEPT !.pc = "agents"]} :
            job' = [job EXCEPT ![s] = v]
      BY <2>1 DEF FindSkill, UpsertSkill, WriteSkillFiles, Becomes
    <3>2. v.pc \in {"write", "files", "agents"} /\ job[s].pc \in {"skill", "write", "files"}
      BY <1>1, <2>1 DEF Job, FindSkill, UpsertSkill, WriteSkillFiles, At
    <3>3. QED
      BY <1>1, <3>1, <3>2, JobAt DEF Ingested
  <2>2. CASE SkillTaken(s) \/ WriteSkillFilesFails(s)
    <3>1. Fails(s) /\ job[s].pc \in {"write", "files"}
      BY <2>2 DEF SkillTaken, WriteSkillFilesFails, SkillFails, At
    <3>2. QED
      BY <1>1, <3>1, FailsAt DEF Ingested
  <2>3. CASE UpsertAgents(s)
    <3>1. job[s].pc = "agents"
      BY <2>3 DEF UpsertAgents, At
    <3>2. PICK ok \in SUBSET CanWrite(s) :
            /\ agents' = agents \cup ok
            /\ IF Leader \in ok /\ (s \in Imports => ok = Team)
                 THEN Becomes(s, [job[s] EXCEPT !.ids = ok, !.pc = IF Create(s) THEN "new" ELSE "look"])
                 ELSE Fails(s)
      BY <2>3 DEF UpsertAgents
    <3> DEFINE v == [job[s] EXCEPT !.ids = ok, !.pc = IF Create(s) THEN "new" ELSE "look"]
    <3>3. v.pc \in {"new", "look"}
      BY <1>1 DEF Job
    <3>4. \/ (s \in Imports => ok = Team) /\ Becomes(s, v)
          \/ Fails(s)
      BY <3>2
    <3> HIDE DEF v
    <3>5. CASE Fails(s)
      BY <1>1, <3>1, <3>5, FailsAt DEF Ingested
    <3>6. CASE (s \in Imports => ok = Team) /\ Becomes(s, v)
      BY <1>1, <3>1, <3>2, <3>3, <3>6, JobAt DEF Becomes
    <3>7. QED
      BY <3>4, <3>5, <3>6
  <2>4. QED
    BY <2>1, <2>2, <2>3 DEF TeamWrite
<1>4. \A j \in Sources : job'[j] = job[j] \/ Apart(j)
  BY <1>3 DEF Elsewhere, Apart
<1>5. \A j \in Imports : job'[j].pc \in Ingested => job[j].pc \in Ingested \/ Team \subseteq agents'
  BY <1>1, <1>3 DEF Elsewhere
<1>6. QED
  BY <1>2, <1>4, <1>5, RosterFrame, AgentsFrame DEF TeamInv, DownInv

(* Edits, deletions, a crash and a restart.                                *)
LEMMA WorldTeamInv ==
    ASSUME TeamInv, WorldStep
    PROVE  LeaderInv' /\ RosterInv' /\ DownInv' /\ AgentsInv'
<1> USE DEF squadVars, teamVars, placeVars, importVars, lifeVars
<1>0. TypeOK /\ Imports \subseteq Sources
  BY DEF TeamInv, TypeInv, Sources
<1>1. CASE (\E n \in Names : CreateDomain(n)) \/ DeleteSkill
  <2>1. UNCHANGED squadVars /\ agents' = agents /\ goal' = goal /\ job' = job /\ up /\ up' = up
    BY <1>1 DEF CreateDomain, DeleteSkill, Edit
  <2>2. QED
    BY <2>1, RosterFrame, AgentsFrame DEF TeamInv, DownInv
<1>2. CASE DeleteSquad
  <2>1. squad' = [id |-> 0, leader |-> Stale, members |-> {}] /\ squad'.id = 0
    BY <1>2 DEF DeleteSquad
  <2>2. roster' = roster /\ agents' = agents /\ goal' = goal /\ job' = job /\ up /\ up' = up
    BY <1>2 DEF DeleteSquad, Edit
  <2>3. \A s \in Sources : job[s].pc \in {"clear", "add"} => job[s].squad # 0
    BY DEF TeamInv, TypeInv, IdInv, JobIds
  <2>4. LeaderInv' /\ RosterInv'
    BY <2>1, <2>2, <2>3 DEF LeaderInv, RosterInv
  <2>5. QED
    BY <2>2, <2>4, AgentsFrame DEF TeamInv, DownInv
<1>3. CASE Crash
  <2>1. /\ squad' = squad /\ agents' = agents /\ goal' = goal
        /\ roster' = IF \E s \in Sources : job[s].pc \in {"update", "clear", "add"} THEN "part" ELSE roster
    BY <1>3 DEF Crash
  <2>2. \A s \in Sources : job'[s].pc = "idle"
    BY <1>3, FreshType DEF Crash
  <2>3. DownInv'
    BY <2>2 DEF DownInv
  <2>4. LeaderInv' /\ RosterInv'
    <3>1. CASE roster' = "part"
      BY <2>2, <3>1 DEF LeaderInv, RosterInv
    <3>2. CASE roster' # "part"
      <4>1. roster' = roster /\ \A s \in Sources : job[s].pc # "add"
        BY <2>1, <3>2
      <4>2. \A j \in Sources : Apart(j)
        BY <2>2, <4>1 DEF Apart
      <4>3. UNCHANGED squadVars
        BY <1>3, <4>1 DEF Crash
      <4>4. QED
        BY <4>2, <4>3, RosterFrame DEF TeamInv
    <3>3. QED
      BY <3>1, <3>2
  <2>5. AgentsInv'
    BY <1>0, <2>1, <2>2, AgentsFrame DEF TeamInv, Ingested
  <2>6. QED
    BY <2>3, <2>4, <2>5
<1>4. CASE Restart
  <2>1. UNCHANGED squadVars /\ agents' = agents /\ goal' = goal /\ ~ up /\ up' = TRUE
    BY <1>4 DEF Restart
  <2>2. \A s \in Sources : job[s].pc = "idle" /\ job'[s].pc \in {"idle", "approve"}
    <3>1. \A s \in Sources : job'[s] = Fresh \/ job'[s] = [Fresh EXCEPT !.pc = "approve"]
      BY <1>4 DEF Restart
    <3>2. Fresh.pc = "idle" /\ [Fresh EXCEPT !.pc = "approve"].pc = "approve"
      BY DEF Fresh
    <3>3. QED
      BY <2>1, <3>1, <3>2 DEF TeamInv, DownInv
  <2>3. \A j \in Sources : Apart(j)
    BY <2>2 DEF Apart
  <2>4. \A j \in Imports : job'[j].pc \notin Ingested
    BY <1>0, <2>2 DEF Ingested
  <2>5. QED
    BY <2>1, <2>3, <2>4, RosterFrame, AgentsFrame DEF TeamInv, DownInv
<1>5. QED
  BY <1>1, <1>2, <1>3, <1>4 DEF WorldStep

(* The squad writes, one by one.  Each is a step of one job that is up.    *)
LEMMA SquadWriteFrame ==
    ASSUME TeamInv, NEW s \in Sources, SquadWrite(s), Elsewhere(s),
           s \in Imports => (job'[s].pc \in Ingested => job[s].pc \in Ingested)
    PROVE  DownInv' /\ AgentsInv'
<1>1. agents' = agents /\ goal' = goal /\ up /\ up' = up
  BY DEF SquadWrite, FindSquad, UpdateSquad, ClearMembers, CreateSquad, AddMember, SquadDone, At,
         teamVars, importVars, lifeVars
<1>2. Imports \subseteq Sources
  BY DEF Sources
<1>3. QED
  BY <1>1, <1>2, AgentsFrame DEF TeamInv, DownInv, Elsewhere

(* Who finds the squad is to update it.                                    *)
LEMMA FindSquadInv ==
    ASSUME TeamInv, NEW s \in Sources, FindSquad(s)
    PROVE  LeaderInv' /\ RosterInv' /\ DownInv' /\ AgentsInv'
<1> DEFINE v == [job[s] EXCEPT !.squad = squad.id, !.pc = IF squad.id = 0 THEN "new" ELSE "update"]
<1>1. TypeOK /\ job[s] \in Job /\ job[s].pc = "look" /\ UNCHANGED squadVars
  BY JobFields DEF FindSquad, At, TeamInv, TypeInv
<1>2. v.pc \in {"new", "update"}
  BY <1>1 DEF Job
<1>3. Becomes(s, v)
  BY DEF FindSquad
<1> HIDE DEF v
<1>4. job'[s] = v /\ Elsewhere(s)
  BY <1>1, <1>3, JobAt DEF Becomes
<1>5. \A j \in Sources : job'[j] = job[j] \/ Apart(j)
  BY <1>1, <1>2, <1>4 DEF Elsewhere, Apart
<1>6. QED
  BY <1>1, <1>4, <1>5, RosterFrame, SquadWriteFrame DEF TeamInv, SquadWrite, Ingested

(* The leader is written before the members are cleared.                   *)
LEMMA UpdateSquadInv ==
    ASSUME TeamInv, NEW s \in Sources, UpdateSquad(s)
    PROVE  LeaderInv' /\ RosterInv' /\ DownInv' /\ AgentsInv'
<1> DEFINE v == [job[s] EXCEPT !.pc = "clear"]
<1>1. TypeOK /\ job[s] \in Job /\ job[s].pc = "update"
  BY JobFields DEF UpdateSquad, At, TeamInv, TypeInv
<1>2. v.pc = "clear" /\ v.squad = job[s].squad
  BY <1>1 DEF Job
<1>3. /\ Becomes(s, v) /\ roster' = roster
      /\ squad' = IF squad.id = job[s].squad THEN [squad EXCEPT !.leader = Leader] ELSE squad
  BY DEF UpdateSquad
<1> HIDE DEF v
<1>4. job'[s] = v /\ Elsewhere(s)
  BY <1>1, <1>3, JobAt DEF Becomes
<1>5. /\ squad'.id = squad.id /\ squad'.members = squad.members
      /\ squad'.leader = IF squad.id = job[s].squad THEN Leader ELSE squad.leader
  BY <1>3, SquadFields DEF TeamInv
<1>6. LeaderInv'
  BY <1>1, <1>2, <1>3, <1>4, <1>5 DEF TeamInv, LeaderInv, Elsewhere
<1>7. \A j \in Sources : Adds(j)' <=> Adds(j)
  BY <1>1, <1>2, <1>4, <1>5 DEF Adds, Elsewhere
<1>8. \A i : Missing(i)' <=> Missing(i)
  BY <1>5 DEF Missing
<1>9. ASSUME NEW j \in Sources, NEW i \in DOMAIN Members, Supplies(j, i)
      PROVE  Supplies(j, i)' /\ job'[j] = job[j]
  <2>1. j # s
    BY <1>1, <1>9 DEF Supplies, Adds
  <2>2. QED
    BY <1>4, <1>7, <1>8, <1>9, <2>1 DEF Supplies, Create, Elsewhere
<1>10. \A j \in Sources : Adds(j) => job'[j] = job[j]
  BY <1>1, <1>4 DEF Adds, Elsewhere
<1>11. RosterInv'
  BY <1>3, <1>5, <1>7, <1>8, <1>9, <1>10 DEF TeamInv, RosterInv
<1>12. QED
  BY <1>1, <1>2, <1>4, <1>6, <1>11, SquadWriteFrame DEF SquadWrite, Ingested

(* A squad whose members are gone, with every one of its writers whole.    *)
LEMMA EmptyRoster ==
    ASSUME TypeInv, NEW s \in Sources, Elsewhere(s), squad'.members = {}, roster' = Wrote(s),
           job'[s].pc = "add", job'[s].squad = squad'.id, job'[s].ids = job[s].ids, job'[s].k = Skipping(s, 1)
    PROVE  RosterInv'
<1> SUFFICES ASSUME roster' = "team" PROVE
        /\ squad'.members \subseteq Mates
        /\ \A j \in Sources : Adds(j)' => job'[j].ids = Team
        /\ \A i \in DOMAIN Members : Missing(i)' => \E j \in Sources : Supplies(j, i)'
  BY DEF RosterInv
<1>1. \A j \in Sources : j = s \/ job[j].pc = "add" => job[j].ids = Team
  BY DEF Wrote
<1>2. ASSUME NEW j \in Sources, Adds(j)'
      PROVE  job'[j].ids = Team
  BY <1>1, <1>2 DEF Elsewhere, Adds
<1>3. Skipping(s, 1) <= 1 /\ Skipping(s, 1) \in 1..(Len(Members) + 1)
  <2>1. 1 \in 1..Len(Members) /\ Len(Members) \in Nat /\ Members[1] \in job[s].ids
    BY <1>1, MembersType
  <2>2. QED
    BY <2>1, SkippingType
<1>4. \A i : Missing(i)'
  BY DEF Missing
<1>5. ASSUME NEW i \in DOMAIN Members
      PROVE  Supplies(s, i)'
  <2>1. i \in Nat /\ 1 <= i /\ Skipping(s, 1) = 1
    BY <1>3, MembersType
  <2>2. QED
    BY <1>4, <2>1 DEF Supplies, Adds
<1>6. QED
  BY <1>2, <1>5

(* Who clears the members owes all of them.                                *)
LEMMA ClearMembersInv ==
    ASSUME TeamInv, NEW s \in Sources, ClearMembers(s)
    PROVE  LeaderInv' /\ RosterInv' /\ DownInv' /\ AgentsInv'
<1> DEFINE v == [job[s] EXCEPT !.pc = "add", !.k = Skipping(s, 1)]
<1>1. TypeOK /\ TypeInv /\ job[s] \in Job /\ job[s].pc = "clear"
  BY JobFields DEF ClearMembers, At, TeamInv, TypeInv
<1>2. v.pc = "add" /\ v.squad = job[s].squad /\ v.ids = job[s].ids /\ v.k = Skipping(s, 1)
  BY <1>1 DEF Job
<1>3. Becomes(s, v)
  BY DEF ClearMembers
<1> HIDE DEF v
<1>4. job'[s] = v /\ Elsewhere(s)
  BY <1>1, <1>3, JobAt DEF Becomes
<1>5. LeaderInv' /\ RosterInv'
  <2>1. CASE squad.id = job[s].squad
    <3>1. roster' = Wrote(s) /\ squad' = [squad EXCEPT !.members = {}]
      BY <2>1 DEF ClearMembers
    <3>2. squad'.members = {} /\ squad'.id = squad.id /\ squad'.leader = squad.leader
      BY <3>1, SquadFields DEF TeamInv
    <3>3. RosterInv'
      BY <1>1, <1>2, <1>4, <2>1, <3>1, <3>2, EmptyRoster
    <3>4. squad.leader = Leader
      BY <1>1, <2>1 DEF TeamInv, LeaderInv
    <3>5. LeaderInv'
      BY <3>2, <3>4 DEF LeaderInv
    <3>6. QED
      BY <3>3, <3>5
  <2>2. CASE squad.id # job[s].squad
    <3>1. squad' = squad /\ roster' = roster
      BY <2>2 DEF ClearMembers
    <3>2. LeaderInv'
      BY <1>2, <1>4, <2>2, <3>1 DEF TeamInv, LeaderInv, Elsewhere
    <3>3. \A j \in Sources : /\ Adds(j)' <=> Adds(j)
                             /\ Adds(j) => job'[j] = job[j]
      BY <1>1, <1>2, <1>4, <2>2, <3>1 DEF Adds, Elsewhere
    <3>4. \A i : Missing(i)' <=> Missing(i)
      BY <3>1 DEF Missing
    <3>5. ASSUME NEW j \in Sources, NEW i \in DOMAIN Members, Supplies(j, i)
          PROVE  Supplies(j, i)'
      BY <3>3, <3>4, <3>5 DEF Supplies, Create
    <3>6. RosterInv'
      BY <3>1, <3>3, <3>4, <3>5 DEF TeamInv, RosterInv
    <3>7. QED
      BY <3>2, <3>6
  <2>3. QED
    BY <2>1, <2>2
<1>6. QED
  BY <1>1, <1>2, <1>4, <1>5, SquadWriteFrame DEF SquadWrite, Ingested

(* A new squad has the leader, and its members are owed.                   *)
LEMMA CreateSquadInv ==
    ASSUME TeamInv, NEW s \in Sources, CreateSquad(s)
    PROVE  LeaderInv' /\ RosterInv' /\ DownInv' /\ AgentsInv'
<1>1. TypeOK /\ TypeInv /\ job[s] \in Job /\ job[s].pc = "new"
  BY JobFields DEF CreateSquad, At, TeamInv, TypeInv
<1>2. CASE squad.id # 0
  <2>1. Fails(s) /\ UNCHANGED squadVars
    BY <1>2 DEF CreateSquad
  <2>2. job'[s].pc \in {"fail", "idle"} /\ Elsewhere(s)
    BY <1>1, <2>1, FailsAt
  <2>3. \A j \in Sources : job'[j] = job[j] \/ Apart(j)
    BY <1>1, <2>2 DEF Elsewhere, Apart
  <2>4. QED
    BY <1>1, <2>1, <2>2, <2>3, RosterFrame, SquadWriteFrame DEF TeamInv, SquadWrite, Ingested
<1>3. CASE squad.id = 0
  <2> DEFINE v == [job[s] EXCEPT !.pc = "add", !.squad = lastId + 1, !.k = Skipping(s, 1)]
  <2>1. v.pc = "add" /\ v.squad = lastId + 1 /\ v.ids = job[s].ids /\ v.k = Skipping(s, 1)
    BY <1>1 DEF Job
  <2>2. /\ Becomes(s, v) /\ roster' = Wrote(s)
        /\ squad' = [id |-> lastId + 1, leader |-> Leader, members |-> {}]
    BY <1>3 DEF CreateSquad
  <2> HIDE DEF v
  <2>3. job'[s] = v /\ Elsewhere(s)
    BY <1>1, <2>2, JobAt DEF Becomes
  <2>4. squad'.members = {} /\ squad'.id = lastId + 1 /\ squad'.leader = Leader
    BY <2>2
  <2>5. RosterInv'
    BY <1>1, <2>1, <2>2, <2>3, <2>4, EmptyRoster
  <2>6. LeaderInv'
    BY <2>4 DEF LeaderInv
  <2>7. QED
    BY <1>1, <2>1, <2>3, <2>5, <2>6, SquadWriteFrame DEF SquadWrite, Ingested
<1>4. QED
  BY <1>2, <1>3

(* Who wrote the last member owes nothing more.                            *)
LEMMA SquadDoneInv ==
    ASSUME TeamInv, NEW s \in Sources, SquadDone(s)
    PROVE  LeaderInv' /\ RosterInv' /\ DownInv' /\ AgentsInv'
<1>1. /\ TypeOK /\ TypeInv /\ job[s].pc = "add" /\ job[s].k > Len(Members)
      /\ squad' = squad /\ roster' = roster
      /\ \E pc \in {"complete", "goals", "scratch"} : Goes(s, pc)
  BY DEF SquadDone, At, TeamInv, TypeInv, squadVars
<1>2. job'[s].pc \in {"complete", "goals", "scratch"} /\ Elsewhere(s)
  BY <1>1, GoesAt
<1>3. LeaderInv'
  BY <1>1, <1>2 DEF TeamInv, LeaderInv, Elsewhere
<1>4. \A i : Missing(i)' <=> Missing(i)
  BY <1>1 DEF Missing
<1>5. ASSUME NEW j \in Sources, NEW i \in DOMAIN Members, Supplies(j, i)
      PROVE  Supplies(j, i)'
  <2>1. i \in Nat /\ Len(Members) \in Nat /\ i <= Len(Members) /\ job[s].k \in Nat
    BY <1>1, JobFields, MembersType
  <2>2. j # s
    BY <1>1, <1>5, <2>1 DEF Supplies
  <2>3. QED
    BY <1>1, <1>2, <1>4, <1>5, <2>2 DEF Supplies, Create, Elsewhere, Adds
<1>6. \A j \in Sources : Adds(j)' => Adds(j) /\ job'[j] = job[j]
  BY <1>1, <1>2 DEF Adds, Elsewhere
<1>7. RosterInv'
  BY <1>1, <1>4, <1>5, <1>6 DEF TeamInv, RosterInv
<1>8. QED
  BY <1>1, <1>2, <1>3, <1>7, SquadWriteFrame DEF SquadWrite, Ingested

(* The one step that supplies a member.  A job that is refused a row by    *)
(* another's insert leaves what is missing to that other.                  *)
LEMMA AddMemberInv ==
    ASSUME NoRepeats, TeamInv, NEW s \in Sources, AddMember(s)
    PROVE  LeaderInv' /\ RosterInv' /\ DownInv' /\ AgentsInv'
<1> DEFINE k == job[s].k
           taken == squad.id # job[s].squad \/ Members[k] \in squad.members
           v == [job[s] EXCEPT !.k = Skipping(s, @ + 1)]
<1>1. TypeOK /\ TypeInv /\ job[s] \in Job /\ job[s].pc = "add"
  BY JobFields DEF AddMember, At, TeamInv, TypeInv
<1>2. k \in DOMAIN Members /\ k \in Nat /\ k + 1 \in 1..(Len(Members) + 1) /\ Len(Members) \in Nat
  BY <1>1, JobFields, MembersType DEF AddMember
<1>3. /\ roster' = roster
      /\ squad' = IF taken THEN squad ELSE [squad EXCEPT !.members = @ \cup {Members[k]}]
      /\ IF taken /\ ~ Create(s) THEN Fails(s) ELSE Becomes(s, v)
  BY DEF AddMember
<1>4. /\ squad'.id = squad.id /\ squad'.leader = squad.leader
      /\ squad'.members = IF taken THEN squad.members ELSE squad.members \cup {Members[k]}
  BY <1>3, SquadFields DEF TeamInv
<1>5. v.pc = "add" /\ v.squad = job[s].squad /\ v.ids = job[s].ids /\ v.k = Skipping(s, k + 1) /\ v.strategy = job[s].strategy
  BY <1>1 DEF Job
<1> HIDE DEF v
<1>6. /\ Elsewhere(s)
      /\ \/ job'[s] = v /\ ~ (taken /\ ~ Create(s))
         \/ job'[s].pc \in {"fail", "idle"} /\ taken /\ ~ Create(s)
  BY <1>1, <1>3, JobAt, FailsAt DEF Becomes
<1>7. LeaderInv'
  BY <1>1, <1>3, <1>4, <1>5, <1>6 DEF TeamInv, LeaderInv, Elsewhere
<1>8. RosterInv'
  <2> SUFFICES ASSUME roster = "team", squad.id # 0 PROVE
        /\ squad'.members \subseteq Mates
        /\ \A j \in Sources : Adds(j)' => job'[j].ids = Team
        /\ \A i \in DOMAIN Members : Missing(i)' => \E j \in Sources : Supplies(j, i)'
    BY <1>3, <1>4 DEF RosterInv
  <2>1. /\ squad.members \subseteq Mates
        /\ \A j \in Sources : Adds(j) => job[j].ids = Team
        /\ \A i \in DOMAIN Members : Missing(i) => \E j \in Sources : Supplies(j, i)
    BY DEF TeamInv, RosterInv
  <2>2. squad'.members \subseteq Mates
    BY <1>2, <1>4, <2>1, MembersType
  <2>3. ASSUME NEW j \in Sources, Adds(j)'
        PROVE  job'[j].ids = Team
    BY <1>1, <1>4, <1>5, <1>6, <2>1, <2>3 DEF Adds, Elsewhere
  <2>4. ASSUME NEW i \in DOMAIN Members
        PROVE  Missing(i)' <=> Missing(i) /\ (taken \/ i # k)
    BY <1>2, <1>4, <2>4 DEF Missing, NoRepeats
  <2>5. ASSUME NEW j \in Sources, j # s, NEW i \in DOMAIN Members, Supplies(j, i), taken
        PROVE  Supplies(j, i)'
    <3>1. \A l \in job[j].k..i : l \in DOMAIN Members
      BY <2>5, JobFields, MembersType, <1>1
    <3>2. job'[j] = job[j]
      BY <1>6, <2>5 DEF Elsewhere
    <3>3. \A l \in DOMAIN Members : Missing(l)' <=> Missing(l)
      BY <2>4, <2>5
    <3>4. QED
      BY <1>4, <2>5, <3>1, <3>2, <3>3 DEF Supplies, Adds, Create
  <2>6. ASSUME Adds(s)
        PROVE  Skipping(s, k + 1) = k + 1 \/ (Skipping(s, k + 1) \in Nat /\ \A i \in DOMAIN Members : i <= k)
    <3>1. job[s].ids = Team
      BY <2>1, <2>6
    <3>2. CASE k + 1 \in DOMAIN Members
      <4>1. Members[k + 1] \in job[s].ids /\ k + 1 \in (k + 1)..Len(Members)
        BY <1>2, <3>1, <3>2, MembersType
      <4>2. Skipping(s, k + 1) <= k + 1 /\ Skipping(s, k + 1) \in (k + 1)..(Len(Members) + 1)
        BY <1>2, <4>1, SkippingType
      <4>3. QED
        BY <1>2, <4>2
    <3>3. CASE k + 1 \notin DOMAIN Members
      BY <1>2, <3>3, MembersType, SkippingType
    <3>4. QED
      BY <3>2, <3>3
  <2>7. ASSUME NEW i \in DOMAIN Members, Missing(i)', Adds(s), k < i, ~ (taken /\ ~ Create(s)),
               Create(s) \/ \A l \in (k + 1)..i : Missing(l)'
        PROVE  Supplies(s, i)'
    <3>1. job'[s] = v /\ i \in Nat
      BY <1>6, <2>7, MembersType
    <3>2. v.k = k + 1
      BY <1>2, <1>5, <2>6, <2>7, <3>1
    <3>3. job'[s].k <= i
      BY <1>2, <2>7, <3>1, <3>2
    <3>4. Create(s)' <=> Create(s)
      BY <1>5, <3>1 DEF Create
    <3>5. QED
      BY <1>4, <1>5, <2>7, <3>1, <3>2, <3>3, <3>4 DEF Supplies, Adds
  <2>8. ASSUME NEW i \in DOMAIN Members, Missing(i)'
        PROVE  \E j \in Sources : Supplies(j, i)'
    <3>1. PICK j \in Sources : Supplies(j, i)
      BY <2>1, <2>4, <2>8
    <3>2. /\ i \in Nat /\ job[j].k \in Nat /\ 1 <= job[j].k
          /\ \A l \in job[j].k..i : l \in DOMAIN Members
      BY <1>1, JobFields, MembersType
    <3>3. CASE j = s
      <4>1. Adds(s) /\ i # k /\ ~ (taken /\ ~ Create(s))
        BY <1>2, <2>4, <2>8, <3>1, <3>2, <3>3 DEF Supplies, Adds, Missing
      <4>2. k < i
        BY <1>2, <3>1, <3>2, <3>3, <4>1 DEF Supplies
      <4>3. Create(s) \/ \A l \in (k + 1)..i : Missing(l)'
        BY <1>2, <2>4, <3>1, <3>2, <3>3 DEF Supplies
      <4>4. QED
        BY <2>7, <2>8, <4>1, <4>2, <4>3
    <3>4. CASE j # s /\ taken
      BY <2>5, <3>1, <3>4
    <3>5. CASE j # s /\ ~ taken
      <4>1. job'[j] = job[j] /\ Adds(j)' /\ job[j].k <= i
        BY <1>4, <1>6, <3>1, <3>5 DEF Elsewhere, Adds, Supplies
      <4>2. CASE Create(j) \/ k \notin job[j].k..i
        <5>1. Create(j)' \/ \A l \in job[j].k..i : Missing(l)'
          BY <2>4, <3>1, <3>2, <4>1, <4>2 DEF Supplies, Create
        <5>2. QED
          BY <4>1, <5>1 DEF Supplies
      <4>3. CASE ~ Create(j) /\ k \in job[j].k..i
        <5>1. Adds(s) /\ i # k
          BY <1>1, <2>4, <2>8, <3>5 DEF Adds
        <5>2. k < i /\ \A l \in (k + 1)..i : l \in job[j].k..i
          BY <1>2, <3>2, <4>3, <5>1
        <5>3. \A l \in (k + 1)..i : Missing(l) /\ l # k /\ l \in DOMAIN Members
          BY <1>2, <3>1, <3>2, <4>3, <5>2 DEF Supplies
        <5>4. \A l \in (k + 1)..i : Missing(l)'
          BY <2>4, <5>3
        <5>5. QED
          BY <2>7, <2>8, <3>5, <5>1, <5>2, <5>4
      <4>4. QED
        BY <4>2, <4>3
    <3>6. QED
      BY <3>3, <3>4, <3>5
  <2>9. QED
    BY <2>2, <2>3, <2>8
<1>9. job'[s].pc \in Ingested => job[s].pc \in Ingested
  BY <1>1 DEF Ingested
<1>10. QED
  BY <1>6, <1>7, <1>8, <1>9, SquadWriteFrame DEF SquadWrite

(* All writes of the squad.                                                *)
LEMMA SquadWriteInv ==
    ASSUME NoRepeats, TeamInv, NEW s \in Sources, SquadWrite(s)
    PROVE  LeaderInv' /\ RosterInv' /\ DownInv' /\ AgentsInv'
  BY FindSquadInv, UpdateSquadInv, ClearMembersInv, CreateSquadInv, AddMemberInv, SquadDoneInv DEF SquadWrite

(* Every step keeps the invariant.                                         *)
LEMMA StepTeam == ASSUME NoRepeats PROVE TeamInv /\ [Next]_vars => TeamInv'
<1> SUFFICES ASSUME TeamInv, [Next]_vars PROVE TeamInv'
  OBVIOUS
<1>1. TypeInv'
  BY StepType DEF TeamInv
<1>2. LeaderInv' /\ RosterInv' /\ DownInv' /\ AgentsInv'
  <2>1. CASE Next
    BY <2>1, NextCases, ImportTeamInv, HandlingTeamInv, ApplyTeamInv, TeamWriteInv, SquadWriteInv, WorldTeamInv
  <2>2. CASE UNCHANGED vars
    <3>1. /\ UNCHANGED squadVars /\ agents' = agents /\ goal' = goal /\ up' = up /\ job' = job
      BY <2>2 DEF vars, teamVars, importVars, lifeVars
    <3>2. QED
      BY <3>1, RosterFrame, AgentsFrame DEF TeamInv, DownInv
  <2>3. QED
    BY <2>1, <2>2
<1>3. QED
  BY <1>1, <1>2 DEF TeamInv

(* With nothing under way, the squad that imports and templates wrote has  *)
(* the team's roster, however many of them wrote it at once and whichever  *)
(* were refused a row; and a goal is in review or done only when its       *)
(* import wrote the agents.  The team names no agent twice.                *)
THEOREM RosterStands == ASSUME NoRepeats PROVE Spec => []TeamIsWhole
<1>1. TeamInv => TeamIsWhole
  <2> SUFFICES ASSUME TeamInv PROVE TeamIsWhole
    OBVIOUS
  <2>1. ASSUME Quiet, roster = "team", squad.id # 0
        PROVE  squad.leader = Leader /\ squad.members = Mates
    <3>1. squad.leader = Leader /\ squad.members \subseteq Mates
      BY <2>1 DEF TeamInv, LeaderInv, RosterInv
    <3>2. \A i \in DOMAIN Members : ~ Missing(i)
      BY <2>1 DEF TeamInv, RosterInv, Quiet, Supplies, Adds
    <3>3. Mates \subseteq squad.members
      BY <3>2, MembersType DEF Missing
    <3>4. QED
      BY <3>1, <3>3
  <2>2. QED
    BY <2>1 DEF TeamIsWhole, RosterIsWhole, TeamInv, AgentsInv
<1>2. Spec => []TeamInv
  BY InitTeam, StepTeam, PTL DEF Spec
<1>3. QED
  BY <1>1, <1>2, PTL

=============================================================================
