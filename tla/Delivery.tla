------------------------------ MODULE Delivery ------------------------------
(***************************************************************************)
(* The way of a goal's work from an agent's worktree to the default branch *)
(* (cmd/agentwork-cli/gitwork.go, exec.go; internal/daemon/deliver.go,     *)
(* machine_dispatch.go, daemon.go).  A machine commits a run's work on its *)
(* copy of the goal branch and pushes it to the git host as a transfer     *)
(* ref; the daemon adopts that ref into its bare repository, the human     *)
(* judges it, and deliverGoal merges it, pushes, deletes the branch and    *)
(* closes the goal.                                                        *)
(*                                                                         *)
(* A commit is named by the run that made it, and so is what the run       *)
(* wrote, which a later run may be the one to commit.  A ref is the        *)
(* history of its tip, what was added in it and what was undone.           *)
(*                                                                         *)
(* A run has a row, which the daemon may stamp at any time, and an         *)
(* execution on its machine, which a stamp does not end: nothing tells the *)
(* machine of a handoff, a runaway or a restart, and a human's stop rides  *)
(* its next poll.  An execution whose row has ended is a stray: it goes on *)
(* writing, commits and pushes, and only its report is dropped.            *)
(* Every completed run is reviewed: the domain has a gate that says so, or *)
(* its policy is not frozen.                                               *)
(***************************************************************************)
EXTENDS Naturals, FiniteSets

CONSTANTS
    Agents, Machines,
    MachineOf,      \* [Agents -> Machines]
    Runs,           \* owner runs of the goal: bounds how many there are
    Guests,         \* reviews and consults of the goal that write
    Others,         \* commits other goals bring to the default branch
    Jobs,           \* deliverGoal goroutines
    NoAgent, NoRun, NoRef, NoTree, NoJob,
    Frozen,         \* the acceptance policy is confirmed
    MaxCrashes,
    Ops             \* what the environment does in an instance

ASSUME DeliveryAssumption ==
    /\ MachineOf \in [Agents -> Machines]
    /\ NoAgent \notin Agents /\ NoJob \notin Jobs
    /\ NoRun \notin Runs /\ Runs \cap Guests = {}
    /\ Others \cap (Runs \cup Guests) = {}
    /\ Frozen \in BOOLEAN /\ MaxCrashes \in Nat

VARIABLES
    goal,      \* goal.status
    note,      \* review_request starts with "deliver:"
    approved,  \* the latest decision approves the present review
    owner,     \* the agent the goal is assigned to
    run,       \* the owner run whose row is running
    strays,    \* executions of owner runs whose row was stamped
    unborn,    \* runs and guests that did not start yet
    tree,      \* [Agents -> worktree]: the files of the persistent workdir
    clone,     \* [Machines -> repository]
    origin,    \* the git host
    bare,      \* the daemon's repository of the domain
    room,      \* the worktree deliverGoal merges in
    job,       \* [Jobs -> Job]
    lock,      \* holder of the domain's lock
    cleaning,  \* a cancelled goal's branch is to be deleted
    daemon, crashes,
    shown,     \* the branch the latest review was opened on
    closed     \* the goal was closed by a delivery since it was last opened

goalVars == <<goal, note, approved, owner>>
workVars == <<run, strays, unborn, tree, clone>>
jobVars  == <<room, job, lock>>
procVars == <<daemon, crashes>>
ghosts   == <<shown, closed>>
vars == <<goalVars, workVars, origin, bare, jobVars, cleaning, procVars, ghosts>>

Commit == Runs \cup Guests \cup Others
Tip == [hist : SUBSET Commit, added : SUBSET Commit, undone : SUBSET Commit]
ASSUME NothingAssumption == NoRef \notin Tip /\ \A files \in SUBSET Commit : files # NoTree

Ref == Tip \cup {NoRef}
Root == [hist |-> {}, added |-> {}, undone |-> {}]
Files(t) == t.added \ t.undone

(* main and seen are the remote-tracking refs of the default branch and of *)
(* the transfer ref, feat is the local goal branch.                        *)
Repo == [main : Tip, seen : Ref, feat : Ref]
Fresh == [main |-> Root, seen |-> NoRef, feat |-> NoRef]

RunState == [by : Agents \cup {NoAgent}, id : Runs \cup {NoRun},
             pc : {"none", "working", "reported", "judged"},
             tip : Ref, sha : Ref, ok : BOOLEAN]
Idle == [by |-> NoAgent, id |-> NoRun, pc |-> "none",
         tip |-> NoRef, sha |-> NoRef, ok |-> FALSE]

(* What is left of a run whose row was stamped while it was judged.        *)
Judged == [Idle EXCEPT !.pc = "judged"]

Steps == {"none", "wait", "fetch", "resolve", "merge", "push",
          "clean_remote", "clean_local", "done"}
Job == [pc : Steps, ok : BOOLEAN]

TypeOK ==
    /\ goal \in {"active", "review", "done", "cancelled"}
    /\ {note, approved, cleaning, closed} \subseteq BOOLEAN
    /\ owner \in Agents /\ run \in RunState /\ strays \subseteq RunState
    /\ unborn \subseteq Runs \cup Guests
    /\ tree \in [Agents -> (SUBSET Commit) \cup {NoTree}]
    /\ clone \in [Machines -> Repo] /\ bare \in Repo
    /\ origin \in [main : Tip, feat : Ref]
    /\ room \in {"none", "dir"}
    /\ job \in [Jobs -> Job] /\ lock \in Jobs \cup {NoJob}
    /\ daemon \in {"up", "down"} /\ crashes \in 0..MaxCrashes
    /\ shown \in Ref

Init ==
    /\ goal = "active" /\ note = FALSE /\ approved = FALSE
    /\ owner \in Agents
    /\ run = Idle /\ strays = {} /\ unborn = Runs \cup Guests
    /\ tree = [a \in Agents |-> NoTree]
    /\ clone = [m \in Machines |-> Fresh] /\ bare = Fresh
    /\ origin = [main |-> Root, feat |-> NoRef]
    /\ room = "none" /\ lock = NoJob
    /\ job = [j \in Jobs |-> [pc |-> "none", ok |-> FALSE]]
    /\ cleaning = FALSE /\ daemon = "up" /\ crashes = 0
    /\ shown = NoRef /\ closed = FALSE

--------------------------------------------------------------------------------
(* git.                                                                    *)

(* fetch moves the tracking refs; without --prune it keeps the ref of a    *)
(* branch the host has deleted.                                            *)
Fetched(repo) == [repo EXCEPT !.main = origin.main,
                              !.seen = IF origin.feat = NoRef THEN @ ELSE origin.feat]
IsAncestor(a, b) == a.hist \subseteq b.hist
MergeOf(a, b) == [hist |-> a.hist \cup b.hist, added |-> a.added \cup b.added,
                  undone |-> a.undone \cup b.undone]

(* git add -A and commit: the worktree's files become the tip's.           *)
Committed(c, tip, files) ==
    IF files = Files(tip) THEN tip
    ELSE [hist |-> tip.hist \cup {c}, added |-> tip.added \cup files,
          undone |-> (tip.undone \cup Files(tip)) \ files]

(* A push that is not a fast-forward is refused.                           *)
MayPush(tip) == origin.feat # NoRef => IsAncestor(origin.feat, tip)

--------------------------------------------------------------------------------
(* Owner runs on their machine.                                            *)

(* A new goal branch starts at the default branch.                         *)
BaseOf(repo) == repo.main

(* ensureGitWorkdir: the branch of the machine's repository and the        *)
(* agent's persistent worktree are created once and then found again, also *)
(* beside a stray that works there.                                        *)
StartRun(r) ==
    LET m    == MachineOf[owner]
        repo == Fetched(clone[m])
        tip  == IF repo.feat = NoRef THEN BaseOf(repo) ELSE repo.feat
    IN  /\ daemon = "up" /\ goal = "active" /\ run = Idle
        /\ r \in unborn \cap Runs
        /\ unborn' = unborn \ {r}
        /\ run' = [Idle EXCEPT !.by = owner, !.id = r, !.pc = "working"]
        /\ clone' = [clone EXCEPT ![m] = [repo EXCEPT !.feat = tip]]
        /\ tree' = [tree EXCEPT ![owner] = IF @ = NoTree THEN Files(tip) ELSE @]
        /\ UNCHANGED <<goalVars, strays, origin, bare, jobVars, cleaning, procVars, ghosts>>

(* The executions under way, of the run and of those that lost their row.  *)
Working == {e \in strays \cup {run} : e.pc = "working"}

Write(e) ==
    /\ e.id \notin tree[e.by]
    /\ tree' = [tree EXCEPT ![e.by] = @ \cup {e.id}]
    /\ UNCHANGED <<goalVars, run, strays, unborn, clone, origin, bare, jobVars>>
    /\ UNCHANGED <<cleaning, procVars, ghosts>>

(* Nothing is pushed when the tip is what the transfer ref was last seen   *)
(* to be; a push that fails, or is refused, fails the run, not the commit. *)
Publish(m, tip, sha, ok) ==
    \/ /\ tip = clone[m].seen /\ sha = NoRef /\ ok
       /\ UNCHANGED <<origin, clone>>
    \/ /\ tip # clone[m].seen /\ sha = tip /\ ok /\ MayPush(tip)
       /\ origin' = [origin EXCEPT !.feat = tip]
       /\ clone' = [clone EXCEPT ![m].feat = tip, ![m].seen = tip]
    \/ /\ tip # clone[m].seen /\ sha = NoRef /\ ~ ok
       /\ clone' = [clone EXCEPT ![m].feat = tip]
       /\ UNCHANGED origin

(* commitAndPush at the end of a completed execution, and its report,      *)
(* which the daemon drops when the row is no longer running.               *)
CommitAndPush(e) ==
    LET m   == MachineOf[e.by]
        tip == Committed(e.id, clone[m].feat, tree[e.by])
    IN  /\ \E sha \in {tip, NoRef}, ok \in BOOLEAN :
              /\ Publish(m, tip, sha, ok)
              /\ run' = IF e = run THEN [run EXCEPT !.pc = "reported", !.tip = tip,
                                                   !.sha = sha, !.ok = ok]
                        ELSE run
        /\ strays' = strays \ {e}
        /\ UNCHANGED <<goalVars, unborn, tree, bare, jobVars, cleaning, procVars, ghosts>>

(* An execution that is over without a completed report: the agent failed, *)
(* or the machine was told to cancel it.                                   *)
ExecutionFails(e) ==
    /\ run' = IF e = run THEN Idle ELSE run
    /\ strays' = strays \ {e}
    /\ UNCHANGED <<goalVars, unborn, tree, clone, origin, bare, jobVars>>
    /\ UNCHANGED <<cleaning, procVars, ghosts>>

(* The row of the run ends from the daemon's side, also while the report   *)
(* is being judged.                                                        *)
CutRun ==
    /\ run' = Idle
    /\ strays' = IF run = Idle THEN strays ELSE strays \cup {run}

(* A human, the runaway reaper or the watchdog stamps the row.             *)
StampRun ==
    /\ daemon = "up" /\ run # Idle /\ CutRun
    /\ UNCHANGED <<goalVars, unborn, tree, clone, origin, bare, jobVars>>
    /\ UNCHANGED <<cleaning, procVars, ghosts>>

(* A guest's worktree dies with its run; what it wrote there is committed  *)
(* and pushed like an owner's work, with what a failed push left there.    *)
GuestWrites(g, a) ==
    LET m    == MachineOf[a]
        repo == Fetched(clone[m])
        old  == IF repo.feat = NoRef THEN BaseOf(repo) ELSE repo.feat
        tip  == Committed(g, old, Files(old) \cup {g})
    IN  /\ "guest" \in Ops /\ goal \in {"active", "review"}
        /\ g \in unborn \cap Guests
        /\ unborn' = unborn \ {g}
        /\ IF MayPush(tip)
             THEN /\ origin' = [origin EXCEPT !.feat = tip]
                  /\ clone' = [clone EXCEPT ![m] = [repo EXCEPT !.feat = tip, !.seen = tip]]
             ELSE /\ clone' = [clone EXCEPT ![m] = [repo EXCEPT !.feat = tip]]
                  /\ UNCHANGED origin
        /\ UNCHANGED <<goalVars, run, strays, tree, bare, jobVars, cleaning, procVars, ghosts>>

--------------------------------------------------------------------------------
(* The daemon judges the end of a run.                                     *)

Unlocked == daemon = "up" /\ lock = NoJob

(* The daemon's repository after adoption: the transfer ref is the         *)
(* authority for a pushed commit; without one a local branch stands.       *)
Adopted(sha) ==
    IF sha = NoRef /\ bare.feat # NoRef THEN bare
    ELSE LET repo == Fetched(bare)
         IN  IF repo.seen = NoRef THEN repo ELSE [repo EXCEPT !.feat = repo.seen]

Park ==
    IF goal = "active"
      THEN /\ goal' = "review" /\ note' = FALSE /\ approved' = FALSE
           /\ shown' = bare'.feat
           /\ UNCHANGED <<owner, closed>>
      ELSE UNCHANGED <<goalVars, ghosts>>

(* finishMachineRun: adopt, verify, park the goal in review; a run that is *)
(* red is retried.  An unfrozen policy adopts and verifies nothing.        *)
Judge ==
    /\ run.pc = "reported"
    /\ IF Frozen THEN Unlocked ELSE daemon = "up"
    /\ run' = Idle
    /\ bare' = IF Frozen /\ run.ok THEN Adopted(run.sha) ELSE bare
    /\ \/ run.ok /\ ((run.sha # NoRef /\ Frozen) => bare'.feat = run.sha) /\ Park
       \/ (Frozen \/ ~ run.ok) /\ UNCHANGED <<goalVars, ghosts>>
    /\ UNCHANGED <<strays, unborn, tree, clone, origin, jobVars, cleaning, procVars>>

(* The same goroutine for a row that was stamped meanwhile: it adopts, and *)
(* its stamp has no effect.  That it did is remembered for the properties. *)
JudgeStray(s) ==
    /\ s \in strays /\ s.pc = "reported"
    /\ IF Frozen THEN Unlocked ELSE daemon = "up"
    /\ strays' = (strays \ {s}) \cup {Judged}
    /\ bare' = IF Frozen /\ s.ok THEN Adopted(s.sha) ELSE bare
    /\ UNCHANGED <<goalVars, run, unborn, tree, clone, origin, jobVars>>
    /\ UNCHANGED <<cleaning, procVars, ghosts>>

--------------------------------------------------------------------------------
(* What humans decide (as far as the branch is concerned: GoalRun).        *)

Approve(j) ==
    /\ daemon = "up" /\ goal = "review" /\ (~ approved \/ note)
    /\ job[j].pc = "none"
    /\ "twice" \in Ops \/ \A k \in Jobs : job[k].pc = "none"
    /\ approved' = TRUE
    /\ job' = [job EXCEPT ![j] = [pc |-> "wait", ok |-> FALSE]]
    /\ UNCHANGED <<goal, note, owner, workVars, origin, bare, room, lock>>
    /\ UNCHANGED <<cleaning, procVars, ghosts>>

Reject ==
    /\ daemon = "up" /\ goal = "review" /\ (~ approved \/ note)
    /\ \A j \in Jobs : job[j].pc = "none"
    /\ goal' = "active" /\ note' = FALSE /\ approved' = FALSE
    /\ UNCHANGED <<owner, workVars, origin, bare, jobVars, cleaning, procVars, ghosts>>

(* A handoff takes the row from the previous owner's run.                  *)
Handoff(a) ==
    /\ "handoff" \in Ops /\ daemon = "up" /\ goal = "active"
    /\ a # owner
    /\ "return" \in Ops \/ tree[a] = NoTree
    /\ "move" \in Ops \/ MachineOf[a] = MachineOf[owner]
    /\ owner' = a /\ CutRun
    /\ UNCHANGED <<goal, note, approved, unborn, tree, clone, origin, bare, jobVars>>
    /\ UNCHANGED <<cleaning, procVars, ghosts>>

(* A cancelled goal's branch is deleted by a goroutine of its own; its run *)
(* is not told, and its row stays running.                                 *)
Cancel ==
    /\ "cancel" \in Ops /\ daemon = "up" /\ goal \in {"active", "review"}
    /\ \A j \in Jobs : job[j].pc = "none"
    /\ goal' = "cancelled" /\ cleaning' = TRUE
    /\ UNCHANGED <<note, approved, owner, workVars, origin, bare>>
    /\ UNCHANGED <<jobVars, procVars, ghosts>>

Reopen ==
    /\ daemon = "up"
    /\ goal = "done" => \A j \in Jobs : job[j].pc = "none"
    /\ goal \in IF "reopen" \in Ops THEN {"done", "cancelled"} ELSE {"done"}
    /\ goal' = "active" /\ note' = FALSE /\ approved' = FALSE /\ closed' = FALSE
    /\ UNCHANGED <<owner, workVars, origin, bare, jobVars, cleaning, procVars>>
    /\ UNCHANGED shown

(* cleanupGoalBranches: the transfer ref, then the local branch.  Pushing  *)
(* a deletion deletes the tracking ref too.                                *)
CleanCancelled ==
    /\ cleaning /\ Unlocked
    /\ cleaning' = FALSE
    /\ origin' = [origin EXCEPT !.feat = NoRef]
    /\ bare' = [bare EXCEPT !.seen = NoRef, !.feat = NoRef]
    /\ UNCHANGED <<goalVars, workVars, jobVars, procVars, ghosts>>

(* Another goal's delivery, by this daemon or not, or a human's push.      *)
OtherDelivers(o) ==
    /\ o \notin origin.main.hist
    /\ origin' = [origin EXCEPT !.main.hist = @ \cup {o}, !.main.added = @ \cup {o}]
    /\ UNCHANGED <<goalVars, workVars, bare, jobVars, cleaning, procVars, ghosts>>

--------------------------------------------------------------------------------
(* deliverGoal.                                                            *)

At(j, pc) == daemon = "up" /\ job[j].pc = pc
Goto(j, pc) == job' = [job EXCEPT ![j].pc = pc]
Succeed(j, pc) == job' = [job EXCEPT ![j] = [pc |-> pc, ok |-> TRUE]]
outside == <<goalVars, workVars, cleaning, procVars, ghosts>>

(* Nobody writes the branch, and nobody else the repository.               *)
TakeLock(j) ==
    /\ At(j, "wait") /\ lock = NoJob /\ run = Idle
    /\ lock' = j /\ Goto(j, "fetch")
    /\ UNCHANGED <<outside, origin, bare, room>>

Fetch(j) ==
    /\ At(j, "fetch")
    /\ \/ bare' = Fetched(bare) /\ Goto(j, "resolve")
       \/ UNCHANGED bare /\ Goto(j, "done")
    /\ UNCHANGED <<outside, origin, room, lock>>

(* Mutant of Deliverable: the transfer ref wins over the local branch.     *)
DeliverableRemote == IF bare.seen # NoRef THEN bare.seen ELSE bare.feat

(* A local branch wins, else the transfer ref is adopted.                  *)
Deliverable == IF bare.feat # NoRef THEN bare.feat ELSE bare.seen

(* No branch: a failure.  Nothing to merge: cleaned and closed.            *)
Resolve(j) ==
    /\ At(j, "resolve")
    /\ bare' = [bare EXCEPT !.feat = Deliverable]
    /\ IF Deliverable = NoRef THEN Goto(j, "done")
       ELSE IF IsAncestor(Deliverable, bare.main) THEN Succeed(j, "clean_remote")
       ELSE Goto(j, "merge")
    /\ UNCHANGED <<outside, origin, room, lock>>

(* A detached worktree of the default branch; a conflict, red checks and   *)
(* red guards fail the delivery.                                           *)
Merge(j) ==
    /\ At(j, "merge")
    /\ IF room = "none" THEN room' = "dir" ELSE UNCHANGED room
    /\ \/ room = "none" /\ Goto(j, "push")
       \/ Goto(j, "done")
    /\ UNCHANGED <<outside, origin, bare, lock>>

(* Mutant of Push: a refused push is taken for one that was done before.   *)
PushUnchecked(j) ==
    LET merged == MergeOf(bare.main, bare.feat)
    IN  /\ At(j, "push")
        /\ origin' = [origin EXCEPT !.main = IF @ = bare.main THEN merged ELSE @]
        /\ Succeed(j, "clean_remote")
        /\ UNCHANGED <<outside, bare, room, lock>>

(* The push is refused when the host's branch moved since the fetch; its   *)
(* answer may be lost after the host has accepted it.                      *)
Push(j) ==
    LET merged == MergeOf(bare.main, bare.feat)
    IN  /\ At(j, "push")
        /\ \/ /\ origin.main = bare.main
              /\ origin' = [origin EXCEPT !.main = merged]
              /\ \/ bare' = [bare EXCEPT !.main = merged] /\ Succeed(j, "clean_remote")
                 \/ UNCHANGED bare /\ Goto(j, "done")
           \/ UNCHANGED <<origin, bare>> /\ Goto(j, "done")
        /\ UNCHANGED <<outside, room, lock>>

CleanRemote(j) ==
    /\ At(j, "clean_remote")
    /\ origin' = [origin EXCEPT !.feat = NoRef]
    /\ bare' = [bare EXCEPT !.seen = NoRef]
    /\ Goto(j, "clean_local")
    /\ UNCHANGED <<outside, room, lock>>

CleanLocal(j) ==
    /\ At(j, "clean_local")
    /\ bare' = [bare EXCEPT !.feat = NoRef]
    /\ Goto(j, "done")
    /\ UNCHANGED <<outside, origin, room, lock>>

(* MarkDelivered, then the deferred removal of the worktree and unlock.    *)
FinishDeliver(j) ==
    /\ At(j, "done")
    /\ goal' = IF goal = "review" /\ job[j].ok THEN "done" ELSE goal
    /\ note' = (goal = "review" /\ ~ job[j].ok)
    /\ closed' = (closed \/ (goal = "review" /\ job[j].ok))
    /\ job' = [job EXCEPT ![j] = [pc |-> "none", ok |-> FALSE]]
    /\ lock' = NoJob /\ room' = "none"
    /\ UNCHANGED <<approved, owner, workVars, origin, bare, cleaning, procVars>>
    /\ UNCHANGED shown

Deliver(j) ==
    \/ TakeLock(j) \/ Fetch(j) \/ Resolve(j) \/ Merge(j) \/ Push(j)
    \/ CleanRemote(j) \/ CleanLocal(j) \/ FinishDeliver(j)

--------------------------------------------------------------------------------
(* The process.                                                            *)

(* Running rows are queued again by the restart: the execution under way   *)
(* has an old token, and the judgement under way is lost.                  *)
Crash ==
    /\ daemon = "up" /\ crashes < MaxCrashes
    /\ daemon' = "down" /\ crashes' = crashes + 1
    /\ job' = [j \in Jobs |-> [pc |-> "none", ok |-> FALSE]]
    /\ lock' = NoJob /\ cleaning' = FALSE
    /\ run' = Idle
    /\ strays' = {e \in strays \cup {run} : e.pc \in {"working", "judged"}}
    /\ UNCHANGED <<goalVars, unborn, tree, clone, origin, bare, room, ghosts>>

(* sweepDeliverWorktrees and sweepRunWorktrees: the directories first,     *)
(* then git worktree prune.                                                *)
Sweep(r) == "none"

(* Mutant of RecoverPendingDelivers.                                       *)
RecoverNothing(j) == FALSE

(* An approved review that did not fail is delivered again.                *)
RecoverPendingDelivers(j) == goal = "review" /\ approved /\ ~ note

Restart ==
    /\ daemon = "down" /\ daemon' = "up"
    /\ room' = Sweep(room)
    /\ \E j \in Jobs : job' = [job EXCEPT ![j].pc =
                                 IF RecoverPendingDelivers(j) THEN "wait" ELSE "none"]
    /\ UNCHANGED <<goalVars, workVars, origin, bare, lock, cleaning, crashes, ghosts>>

--------------------------------------------------------------------------------
Next ==
    \/ \E r \in Runs : StartRun(r)
    \/ \E e \in Working : Write(e) \/ CommitAndPush(e) \/ ExecutionFails(e)
    \/ StampRun \/ Judge
    \/ \E s \in strays : JudgeStray(s)
    \/ \E g \in Guests, a \in Agents : GuestWrites(g, a)
    \/ \E j \in Jobs : Approve(j) \/ Deliver(j)
    \/ Reject \/ Cancel \/ Reopen \/ CleanCancelled
    \/ \E a \in Agents : Handoff(a)
    \/ \E o \in Others : OtherDelivers(o)
    \/ Crash \/ Restart

Spec == Init /\ [][Next]_vars

(* Fair are the steps of a delivery (git commands end, at the latest when  *)
(* the connection does), of startup and of the judgement of a run that     *)
(* holds the delivery up.                                                  *)
FairSpec ==
    /\ Spec
    /\ \A j \in Jobs : WF_vars(Deliver(j))
    /\ WF_vars(Restart) /\ WF_vars(Judge) /\ WF_vars(CleanCancelled)

--------------------------------------------------------------------------------
(* Properties.                                                             *)

Has(ref) == IF ref = NoRef THEN {} ELSE ref.hist
Work(ref) == IF ref = NoRef THEN {} ELSE Files(ref) \cap Runs

Merges(j) == At(j, "push") /\ origin'.main # origin.main /\ job'[j].pc # "push"

(* A run's row was stamped between its report and the adoption of its work.*)
StampedWhileJudged == \E s \in strays : s.pc = "judged"

(* What a delivery brings into the default branch is the branch as the     *)
(* review showed it to the human: not what guests, a run that was stopped, *)
(* handed off or reaped and goes on working, or anybody else has pushed    *)
(* since.  Two exceptions (MergesOnlyShown): what is adopted of a run that *)
(* was stamped while it was judged; and a delivery repeated after the      *)
(* branch it merged was deleted, or of a review that had no branch to      *)
(* show, takes whatever the transfer ref has by then.                      *)
MergedIsReviewed ==
    [][\A j \in Jobs : Merges(j) => \/ bare.feat = shown
                                    \/ Has(shown) \subseteq Has(bare.main)
                                    \/ StampedWhileJudged]_vars

(* The same without the exceptions.                                        *)
MergesOnlyShown == [][\A j \in Jobs : Merges(j) => bare.feat = shown]_vars

(* The work of the run that opens a review is in the branch it shows.      *)
ReviewShowsRun ==
    [][goal = "active" /\ goal' = "review"
         => Work(run.tip) \subseteq Work(shown') \cup Has(origin.main)]_vars

(* A goal closed by a delivery has what was reviewed in the default branch.*)
DoneIsWhole == (goal = "done" /\ closed) => Has(shown) \subseteq Has(origin.main)

(* A failed delivery, a reject, a handoff, a stray's push or a crash never *)
(* costs a commit that was reviewed: while the goal is open it is in the   *)
(* daemon's repository or in the default branch, and what a delivery       *)
(* closed is in the default branch.                                        *)
WorkIsKept ==
    /\ goal \in {"active", "review"} =>
          Has(shown) \subseteq Has(origin.main) \cup Has(bare.feat)
    /\ DoneIsWhole

(* No run undoes what an earlier owner run of the goal has committed: the  *)
(* agent that takes the goal over starts from the branch as it is.         *)
NothingUndone ==
    \A m \in Machines :
        clone[m].feat # NoRef => clone[m].feat.undone \cap Runs = {}

(* An approval comes to an end, whatever crashes: the goal is closed, or   *)
(* the failure is there for the human to see.                              *)
ApprovalEnds == approved ~> goal # "review" \/ note \/ ~ approved

(* A delivery that finds the work in the default branch skips what was     *)
(* done before and closes the goal.                                        *)
ReplayIsSafe ==
    [][\A j \in Jobs :
          (At(j, "resolve") /\ daemon' = "up" /\ job'[j].pc # "resolve"
             /\ Has(shown) # {} /\ Has(shown) \subseteq Has(bare.main))
          => job'[j].ok]_vars
================================================================================
