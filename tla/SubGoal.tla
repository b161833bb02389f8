------------------------------- MODULE SubGoal -------------------------------
(***************************************************************************)
(* An active goal split into sub-goals: the assignee's and the verifier's  *)
(* runs, the changes the owner integrates, and the Coordinator that wakes  *)
(* the owner (internal/service/subgoal.go, run.go, goal.go; daemon.go).    *)
(*                                                                         *)
(* Time stamps become the comparisons made of them: "worked" and "revised" *)
(* say that a sub-goal's latest finished run, or its change's latest       *)
(* revision, is newer than the latest queued_at of an owner run; "ahead"   *)
(* says that this queued_at lies in the future (a retry with a backoff).   *)
(* Of the changes of a sub-goal only the latest one is kept: the earlier   *)
(* ones are integrated.  A run row is used again once it is reconciled.    *)
(***************************************************************************)
EXTENDS Naturals, FiniteSets

CONSTANTS
    SubGoals,     \* sub_goal rows: bounds how many are created
    Rows,         \* run rows in use at one time
    NoSub,        \* the sub_goal_id of an owner run
    MaxTries,     \* maxExecutionAttempts
    MaxAttempts,  \* maxAttempts of an owner run's retry chain
    MaxCrashes,   \* bound on the crashes of the daemon
    Verified,     \* the sub-goals that name an agent as verifier
    ByHand,       \* the sub-goals whose conflicts the owner may resolve itself
    Ops           \* what the environment does in an instance

ASSUME SubGoalAssumption ==
    /\ NoSub \notin SubGoals
    /\ Verified \subseteq SubGoals /\ ByHand \subseteq SubGoals
    /\ MaxTries \in Nat \ {0} /\ MaxAttempts \in Nat \ {0}
    /\ MaxCrashes \in Nat

VARIABLES
    goal,      \* goal.status
    sub,       \* [SubGoals -> Sub]: sub_goal.status, execution_attempt
    change,    \* [SubGoals -> ChangeStatus]: its latest change
    coded,     \* sub-goals whose latest run has base_ref # head_ref, until judged
    landed,    \* sub-goals whose conflicted head is on the goal branch
    row,       \* [Rows -> Row]: the run table
    worked,    \* sub-goals with a finished run newer than the owner's spawn
    revised,   \* sub-goals with a revision newer than the owner's spawn
    ahead,     \* the owner's latest queued_at lies in the future
    cut,       \* the latest owner run was cancelled
    hint,      \* an event that wakes the Coordinator is on its way
    merging,   \* sub-goals whose change the owner's CLI is merging
    dropping,  \* sub-goals cancelled, their queued runs not dropped yet
    creating,  \* a human's CreateSubGoal has read the goal's status
    daemon,    \* the process
    crashes,
    unseen,    \* sub-goals settled since an owner run was claimed
    late       \* sub-goals inserted when the goal was no longer active

coordVars == <<worked, revised, ahead, cut, hint, unseen>>
handVars  == <<merging, dropping, creating, late>>
procVars  == <<daemon, crashes>>
vars == <<goal, sub, change, coded, landed, row, coordVars, handVars, procVars>>

SubStatus == {"none", "running", "verifying", "verified", "cancelled", "failed"}
Settled   == {"verified", "cancelled", "failed"}
ChangeStatus == {"none", "ready", "integrating", "integrated", "conflict"}
Pending == {"queued", "running"}
Ended   == {"completed", "failed", "cancelled"}

Row == [status  : {"free"} \cup Pending \cup Ended,
        role    : {"owner", "subgoal", "verify"},
        of      : SubGoals \cup {NoSub},
        attempt : 1..MaxAttempts,
        due     : BOOLEAN]          \* queued_at <= now
FreeRow == [status |-> "free", role |-> "owner", of |-> NoSub,
            attempt |-> 1, due |-> TRUE]

TypeOK ==
    /\ goal \in {"active", "review", "done", "failed"}
    /\ sub \in [SubGoals -> [status : SubStatus, tries : 0..MaxTries]]
    /\ change \in [SubGoals -> ChangeStatus]
    /\ row \in [Rows -> Row]
    /\ coded \subseteq SubGoals /\ landed \subseteq SubGoals
    /\ worked \subseteq SubGoals /\ revised \subseteq SubGoals
    /\ {ahead, cut, hint, creating} \subseteq BOOLEAN
    /\ merging \subseteq SubGoals /\ dropping \subseteq SubGoals
    /\ late \subseteq SubGoals /\ unseen \subseteq SubGoals
    /\ daemon \in {"up", "down", "replay"} /\ crashes \in 0..MaxCrashes

Init ==
    /\ goal = "active"
    /\ sub = [s \in SubGoals |-> [status |-> "none", tries |-> 0]]
    /\ change = [s \in SubGoals |-> "none"]
    /\ row \in {[r \in Rows |-> IF r = o THEN [FreeRow EXCEPT !.status = "queued"]
                                ELSE FreeRow] : o \in Rows}
    /\ coded = {} /\ landed = {} /\ worked = {} /\ revised = {} /\ unseen = {}
    /\ ahead = FALSE /\ cut = FALSE /\ hint = FALSE /\ creating = FALSE
    /\ merging = {} /\ dropping = {} /\ late = {}
    /\ daemon = "up" /\ crashes = 0

--------------------------------------------------------------------------------
(* The run table.                                                          *)

Status(s) == sub[s].status
Free == {r \in Rows : row[r].status = "free"}
With(t, role, s) ==
    {r \in Rows : t[r].role = role /\ t[r].of = s /\ t[r].status \in Pending}
RunningOf(role, s) == {r \in With(row, role, s) : row[r].status = "running"}

(* INSERT INTO run, unless a pending run of the same (sub-goal, role)      *)
(* coalesces with the request.                                             *)
Insert(t, role, s) ==
    IF With(t, role, s) # {} THEN t
    ELSE LET f == CHOOSE r \in Rows : t[r].status = "free"
         IN  [t EXCEPT ![f] = [FreeRow EXCEPT !.status = "queued",
                                              !.role = role, !.of = s]]

(* Mutant of EnqueueSubGoalRun: a run of the other role coalesces too.     *)
EnqueueAcrossRoles(t, s) ==
    IF With(t, "verify", s) # {} THEN t ELSE Insert(t, "subgoal", s)

EnqueueSubGoalRun(t, s) == Insert(t, "subgoal", s)
EnqueueVerifyRun(t, s)  == Insert(t, "verify", s)

(* The owner's intent: a queued one is bumped to now, a running one keeps  *)
(* its queued_at.  Every new queued_at is newer than every signal.         *)
EnqueueOwner ==
    LET pending == With(row, "owner", NoSub)
        bumped  == {r \in pending : row[r].status = "queued"}
    IN  IF pending # {} /\ bumped = {}
          THEN UNCHANGED <<row, worked, revised, ahead, cut>>
          ELSE /\ worked' = {} /\ revised' = {} /\ ahead' = FALSE
               /\ IF pending = {}
                    THEN /\ Free # {} /\ cut' = FALSE
                         /\ row' = Insert(row, "owner", NoSub)
                    ELSE /\ UNCHANGED cut
                         /\ row' = [r \in Rows |->
                              IF r \in bumped THEN [row[r] EXCEPT !.due = TRUE]
                              ELSE row[r]]

(* Finish and its reconciliation are two transactions of one goroutine;    *)
(* other transactions come between them, but a claim, and the seconds an   *)
(* agent needs to start, only where the instance has it.                   *)
MayClaim ==
    /\ daemon = "up" /\ goal = "active"
    /\ "slow_reconcile" \in Ops \/ \A r \in Rows : row[r].status \notin Ended

(* Mutant of Claim: the runs of a sub-goal are not serialised.             *)
ClaimBeside(r) ==
    /\ MayClaim
    /\ row[r].status = "queued" /\ row[r].due
    /\ row' = [row EXCEPT ![r].status = "running"]
    /\ unseen' = IF row[r].role = "owner" THEN {} ELSE unseen
    /\ UNCHANGED <<goal, sub, change, coded, landed, handVars, procVars>>
    /\ UNCHANGED <<worked, revised, ahead, cut, hint>>

(* Claim: the goal is active, one owner run at a time, one run of a        *)
(* sub-goal at a time.  The prompt is built from what the tables say now.  *)
Claim(r) ==
    /\ MayClaim
    /\ row[r].status = "queued" /\ row[r].due
    /\ \A q \in Rows : row[q].status = "running" => row[q].of # row[r].of
    /\ row' = [row EXCEPT ![r].status = "running"]
    /\ unseen' = IF row[r].role = "owner" THEN {} ELSE unseen
    /\ UNCHANGED <<goal, sub, change, coded, landed, handVars, procVars>>
    /\ UNCHANGED <<worked, revised, ahead, cut, hint>>

BackoffOver ==
    /\ ahead
    /\ ahead' = FALSE
    /\ row' = [r \in Rows |-> [row[r] EXCEPT !.due = TRUE]]
    /\ UNCHANGED <<goal, sub, change, coded, landed, handVars, procVars>>
    /\ UNCHANGED <<worked, revised, cut, hint, unseen>>

(* A verify run that the agent, a timeout or a human ends before it gave a *)
(* verdict, and an owner whose CLI dies between begin and finish of an     *)
(* integration, only where the instance has them.                          *)
MayEnd(r) ==
    /\ row[r].role = "verify" /\ Status(row[r].of) = "verifying"
          => "silent" \in Ops
    /\ row[r].role = "owner" /\ merging # {} => "die_merging" \in Ops

(* The ends that reconciliation tells apart: a failed and a cancelled      *)
(* sub-goal run are treated alike, the end of a verify run is not read.    *)
EndsOf(role) == CASE role = "owner"   -> Ended
                  [] role = "subgoal" -> {"completed", "failed"}
                  [] role = "verify"  -> {"completed"}

(* Finish stamps the end and, for a completed sub-goal run, the refs       *)
(* processMachineRunCompletion found; reconciliation is a later step.      *)
Finish(r, how, c) ==
    /\ daemon = "up" /\ row[r].status = "running"
    /\ MayEnd(r) /\ how \in EndsOf(row[r].role)
    /\ c => row[r].role = "subgoal" /\ how = "completed"
    /\ row' = [row EXCEPT ![r].status = how]
    /\ IF row[r].role = "subgoal"
         THEN /\ coded' = IF c THEN coded \cup {row[r].of} ELSE coded \ {row[r].of}
              /\ worked' = IF ahead THEN worked ELSE worked \cup {row[r].of}
         ELSE UNCHANGED <<coded, worked>>
    /\ cut' = IF row[r].role = "owner" THEN how = "cancelled" ELSE cut
    /\ merging' = IF row[r].role = "owner" THEN {} ELSE merging
    /\ UNCHANGED <<goal, sub, change, landed, revised, ahead, hint, unseen>>
    /\ UNCHANGED <<dropping, creating, late, procVars>>

--------------------------------------------------------------------------------
(* The end of a sub-goal run.                                              *)

Reconcilable(r, role) ==
    daemon # "down" /\ row[r].status \in Ended /\ row[r].role = role

(* Rows after run r is reconciled.                                         *)
Stamped(r) == [row EXCEPT ![r] = FreeRow]

(* materializeChangeTx: a revision of the conflicted change, or a new one, *)
(* or none when the latest run changed nothing.                            *)
Materialize(s) ==
    IF s \notin coded THEN UNCHANGED <<change, coded, landed, revised>>
    ELSE /\ change' = [change EXCEPT ![s] = "ready"]
         /\ coded' = coded \ {s} /\ landed' = landed \ {s}
         /\ revised' = IF ahead THEN revised ELSE revised \cup {s}

(* Completed work goes to the verifier, or is verified: the machine checks *)
(* have passed before the run was stamped.                                 *)
ParkVerifying(r, s) ==
    /\ row[r].status = "completed" /\ s \in Verified
    /\ IF Status(s) = "running"
         THEN /\ sub' = [sub EXCEPT ![s].status = "verifying"]
              /\ row' = EnqueueVerifyRun(Stamped(r), s)
         ELSE /\ UNCHANGED sub
              /\ row' = Stamped(r)
    /\ UNCHANGED <<change, coded, landed, revised, unseen>>

VerifyByMachine(r, s) ==
    /\ row[r].status = "completed" /\ s \notin Verified
    /\ row' = Stamped(r)
    /\ IF Status(s) = "running"
         THEN /\ sub' = [sub EXCEPT ![s].status = "verified"]
              /\ Materialize(s)
              /\ unseen' = unseen \cup {s}
         ELSE UNCHANGED <<sub, change, coded, landed, revised, unseen>>

(* A failed or cancelled run is retried while attempts are left.  The      *)
(* status is part of the counting, not of the retry.                       *)
RetryOrFail(r, s) ==
    LET tries  == IF Status(s) = "running" THEN sub[s].tries + 1 ELSE sub[s].tries
        failed == tries >= MaxTries /\ Status(s) = "running"
    IN  /\ row[r].status = "failed"
        /\ sub' = [sub EXCEPT ![s] =
                     [status |-> IF failed THEN "failed" ELSE Status(s), tries |-> tries]]
        /\ row' = IF tries < MaxTries THEN EnqueueSubGoalRun(Stamped(r), s)
                  ELSE Stamped(r)
        /\ unseen' = IF failed THEN unseen \cup {s} ELSE unseen
        /\ UNCHANGED <<change, coded, landed, revised>>

(* Every outcome ends with run.terminal, a hint for the Coordinator.       *)
ReconcileSubGoalRun(r) ==
    /\ Reconcilable(r, "subgoal")
    /\ \/ ParkVerifying(r, row[r].of)
       \/ VerifyByMachine(r, row[r].of)
       \/ RetryOrFail(r, row[r].of)
    /\ hint' = TRUE
    /\ UNCHANGED <<goal, worked, ahead, cut, handVars, procVars>>

(* A verify run has no authority of its own: its verdict was a call.       *)
ReconcileVerifyRun(r) ==
    /\ Reconcilable(r, "verify")
    /\ row' = Stamped(r)
    /\ hint' = TRUE
    /\ UNCHANGED <<goal, sub, change, coded, landed, handVars, procVars>>
    /\ UNCHANGED <<worked, revised, ahead, cut, unseen>>

(* VerifySubGoal, called by a running verify run of the verifier.          *)
Pass(r) ==
    LET s == row[r].of
    IN  /\ daemon = "up" /\ r \in RunningOf("verify", s)
        /\ Status(s) = "verifying"
        /\ sub' = [sub EXCEPT ![s].status = "verified"]
        /\ Materialize(s)
        /\ unseen' = unseen \cup {s}
        /\ hint' = TRUE
        /\ UNCHANGED <<goal, row, worked, ahead, cut, handVars, procVars>>

Reject(r) ==
    LET s == row[r].of
    IN  /\ daemon = "up" /\ r \in RunningOf("verify", s)
        /\ Status(s) = "verifying"
        /\ Free # {}
        /\ sub' = [sub EXCEPT ![s].status = "running"]
        /\ row' = EnqueueSubGoalRun(row, s)
        /\ coded' = coded \ {s}
        /\ UNCHANGED <<goal, change, landed, coordVars, handVars, procVars>>

--------------------------------------------------------------------------------
(* What the owner and humans do.                                           *)

OwnerRuns == daemon = "up" /\ RunningOf("owner", NoSub) # {}

(* CreateSubGoal: the status of the goal is read before the transaction    *)
(* that inserts the sub-goal and its first run.  The owner's own run keeps *)
(* the goal where it is; a human's call does not.                          *)
Born(s) ==
    /\ Free # {}
    /\ Status(s) = "none"
    /\ sub' = [sub EXCEPT ![s].status = "running"]
    /\ row' = EnqueueSubGoalRun(row, s)
    /\ late' = IF goal = "active" THEN late ELSE late \cup {s}
    /\ UNCHANGED <<goal, change, coded, landed, coordVars, procVars>>
    /\ UNCHANGED <<merging, dropping>>

CreateSubGoal(s) ==
    /\ OwnerRuns /\ goal = "active"
    /\ Born(s) /\ UNCHANGED creating

BeginCreate ==
    /\ "human_create" \in Ops
    /\ daemon # "down" /\ goal = "active" /\ ~ creating
    /\ creating' = TRUE
    /\ UNCHANGED <<goal, sub, change, coded, landed, row, coordVars, procVars>>
    /\ UNCHANGED <<merging, dropping, late>>

EndCreate(s) ==
    /\ creating /\ Born(s)
    /\ creating' = FALSE

(* CancelSubGoal is two statements: the status and the queued runs.  The   *)
(* handler of its event, onSubGoalCancelled, calls cancelRun for each run  *)
(* that is running; no run is ever registered there, so the run goes on    *)
(* and its end is judged like any other.                                   *)
CancelSubGoal(s) ==
    /\ "cancel" \in Ops /\ OwnerRuns
    /\ Status(s) \in {"running", "verifying"}
    /\ sub' = [sub EXCEPT ![s].status = "cancelled"]
    /\ dropping' = dropping \cup {s}
    /\ UNCHANGED <<goal, change, coded, landed, row, coordVars, procVars>>
    /\ UNCHANGED <<merging, creating, late>>

DropQueued(s) ==
    /\ s \in dropping
    /\ dropping' = dropping \ {s}
    /\ row' = [r \in Rows |-> IF row[r].of = s /\ row[r].status = "queued"
                                THEN FreeRow ELSE row[r]]
    /\ UNCHANGED <<goal, sub, change, coded, landed, coordVars, procVars>>
    /\ UNCHANGED <<merging, creating, late>>

(* RetrySubGoal does not read the goal; the call is the running owner's.   *)
RetrySubGoal(s) ==
    /\ OwnerRuns /\ Free # {}
    /\ Status(s) = "failed"
    /\ sub' = [sub EXCEPT ![s] = [status |-> "running", tries |-> 0]]
    /\ row' = EnqueueSubGoalRun(row, s)
    /\ unseen' = unseen \ {s}
    /\ UNCHANGED <<goal, change, coded, landed, handVars, procVars>>
    /\ UNCHANGED <<worked, revised, ahead, cut, hint>>

(* change integrate: begin marks the change, the CLI merges in the owner's *)
(* worktree, finish records the outcome.                                   *)
MarkChangeIntegrating(s) ==
    /\ OwnerRuns /\ change[s] = "ready"
    /\ change' = [change EXCEPT ![s] = "integrating"]
    /\ merging' = merging \cup {s}
    /\ UNCHANGED <<goal, sub, coded, landed, row, coordVars, procVars>>
    /\ UNCHANGED <<dropping, creating, late>>

MarkChangeIntegrated(s) ==
    /\ OwnerRuns /\ s \in merging /\ change[s] \in {"ready", "integrating"}
    /\ change' = [change EXCEPT ![s] = "integrated"]
    /\ merging' = merging \ {s}
    /\ hint' = TRUE
    /\ UNCHANGED <<goal, sub, coded, landed, row, worked, revised, ahead, cut, unseen>>
    /\ UNCHANGED <<dropping, creating, late, procVars>>

(* A conflict sends the sub-goal back to its assignee.                     *)
MarkChangeConflict(s) ==
    /\ OwnerRuns /\ s \in merging /\ Free # {}
    /\ change' = [change EXCEPT ![s] =
                    IF @ \in {"ready", "integrating"} THEN "conflict" ELSE @]
    /\ merging' = merging \ {s}
    /\ sub' = [sub EXCEPT ![s].status = IF @ = "verified" THEN "running" ELSE @]
    /\ row' = EnqueueSubGoalRun(row, s)
    /\ hint' = TRUE /\ unseen' = unseen \ {s}
    /\ UNCHANGED <<goal, coded, landed, worked, revised, ahead, cut>>
    /\ UNCHANGED <<dropping, creating, late, procVars>>

(* The owner resolves a conflict by hand on the goal branch.               *)
MergeByHand(s) ==
    /\ OwnerRuns /\ s \in ByHand
    /\ change[s] = "conflict" /\ s \notin landed
    /\ landed' = landed \cup {s}
    /\ UNCHANGED <<goal, sub, change, coded, row, coordVars, handVars, procVars>>

(* EnqueueOwnerRun on an active goal: a reply, a mention, "continue".      *)
WakeOwner ==
    /\ "wake" \in Ops /\ daemon # "down" /\ goal = "active"
    /\ EnqueueOwner
    /\ UNCHANGED <<goal, sub, change, coded, landed, hint, unseen, handVars, procVars>>

--------------------------------------------------------------------------------
(* The end of an owner run.                                                *)

(* StaleConflictChanges: conflicts whose head is on the goal branch.       *)
Cleared == [s \in SubGoals |-> IF change[s] = "conflict" /\ s \in landed
                                 THEN "integrated" ELSE change[s]]

(* Mutant of Holds: a conflict is the assignee's business.                 *)
HoldsForReady(ch) ==
    \/ \E s \in SubGoals : Status(s) \in {"running", "verifying"}
    \/ \E s \in SubGoals : ch[s] = "ready"

(* The finalization guard.                                                 *)
Holds(ch) ==
    \/ \E s \in SubGoals : Status(s) \in {"running", "verifying"}
    \/ \E s \in SubGoals : ch[s] \in {"ready", "conflict"}

(* A completed run promotes the goal, or parks it in review when a gate    *)
(* of the domain is hit, unless the guard holds.                           *)
OwnerCompleted(r) ==
    /\ row[r].status = "completed"
    /\ IF goal = "active" /\ ~ Holds(Cleared)
         THEN goal' \in {"review", "done"}
         ELSE UNCHANGED goal
    /\ row' = Stamped(r)
    /\ UNCHANGED <<worked, revised, ahead, cut>>

(* A failed run is retried with its queued_at in the future.               *)
OwnerFailed(r) ==
    /\ row[r].status = "failed"
    /\ IF row[r].attempt < MaxAttempts
         THEN /\ UNCHANGED goal
              /\ IF With(row, "owner", NoSub) = {}
                   THEN /\ row' = [row EXCEPT ![r] =
                             [status |-> "queued", role |-> "owner", of |-> NoSub,
                              attempt |-> row[r].attempt + 1, due |-> FALSE]]
                        /\ cut' = FALSE
                        /\ worked' = {} /\ revised' = {} /\ ahead' = TRUE
                   ELSE /\ row' = Stamped(r)
                        /\ UNCHANGED <<worked, revised, ahead, cut>>
         ELSE /\ goal' = IF goal = "active" THEN "failed" ELSE goal
              /\ row' = Stamped(r)
              /\ UNCHANGED <<worked, revised, ahead, cut>>

(* A cancelled run leaves the goal to the humans.                          *)
OwnerCancelled(r) ==
    /\ row[r].status = "cancelled"
    /\ row' = Stamped(r)
    /\ UNCHANGED <<goal, worked, revised, ahead, cut>>

ReconcileOwnerRun(r) ==
    /\ Reconcilable(r, "owner")
    /\ change' = Cleared /\ landed' = {}
    /\ OwnerCompleted(r) \/ OwnerFailed(r) \/ OwnerCancelled(r)
    /\ hint' = TRUE
    /\ UNCHANGED <<sub, coded, unseen, handVars, procVars>>

(* The human's decision about the review.                                  *)
Approve ==
    /\ daemon # "down" /\ goal = "review"
    /\ goal' = "done"
    /\ UNCHANGED <<sub, change, coded, landed, row, coordVars, handVars, procVars>>

RejectReview ==
    /\ daemon # "down" /\ goal = "review"
    /\ goal' = "active"
    /\ EnqueueOwner
    /\ UNCHANGED <<sub, change, coded, landed, hint, unseen, handVars, procVars>>

--------------------------------------------------------------------------------
(* The Coordinator.                                                        *)

HasStatus(S, st) == \E s \in S : Status(s) = st
Ready == {s \in SubGoals : change[s] = "ready"}

(* deriveOwnerAttentionTx: recovery, integration, wrapup.                  *)
OwnerAttention ==
    \/ HasStatus(SubGoals, "failed")
    \/ Ready # {}
    \/ HasStatus(worked \ Ready, "verified")

(* newestSignal > lastOwnerSpawn                                           *)
NewSignal ==
    \/ Ready \cap revised # {}
    \/ HasStatus(worked, "failed")
    \/ HasStatus(worked, "verified")

(* ReconcileGoal: one pending handler stands for all, each decides from    *)
(* what the tables say when it runs.                                       *)
ReconcileGoal ==
    /\ hint /\ daemon # "down"
    /\ hint' = FALSE
    /\ IF goal = "active" THEN change' = Cleared /\ landed' = {}
       ELSE UNCHANGED <<change, landed>>
    /\ IF goal = "active" /\ OwnerAttention /\ ~ cut /\ NewSignal
         THEN EnqueueOwner
         ELSE UNCHANGED <<row, worked, revised, ahead, cut>>
    /\ UNCHANGED <<goal, sub, coded, unseen, handVars, procVars>>

--------------------------------------------------------------------------------
(* The process.                                                            *)

(* Handlers, events and executions die; what was committed stays.          *)
Crash ==
    /\ daemon # "down" /\ crashes < MaxCrashes
    /\ merging # {} => "die_merging" \in Ops
    /\ daemon' = "down" /\ crashes' = crashes + 1
    /\ hint' = FALSE /\ creating' = FALSE
    /\ merging' = {} /\ dropping' = {}
    /\ UNCHANGED <<goal, sub, change, coded, landed, row, late>>
    /\ UNCHANGED <<worked, revised, ahead, cut, unseen>>

(* RecoverStuckRunning; then ReconcilePendingTerminal replays the ends.    *)
Recover ==
    /\ daemon = "down"
    /\ daemon' = "replay"
    /\ row' = [r \in Rows |->
                 IF row[r].status # "running" THEN row[r]
                 ELSE IF goal \in {"done", "failed"} THEN FreeRow
                 ELSE [row[r] EXCEPT !.status = "queued"]]
    /\ UNCHANGED <<goal, sub, change, coded, landed, coordVars, handVars, crashes>>

(* Mutant of ReconcileAllActive: lost events stay lost.                    *)
StartWithoutSweep ==
    /\ daemon = "replay"
    /\ \A r \in Rows : row[r].status \notin Ended
    /\ daemon' = "up"
    /\ UNCHANGED <<goal, sub, change, coded, landed, row, coordVars, handVars, crashes>>

(* ReconcileAllActive: every active goal is reconciled, whatever was lost. *)
ReconcileAllActive ==
    /\ daemon = "replay"
    /\ \A r \in Rows : row[r].status \notin Ended
    /\ daemon' = "up"
    /\ hint' = TRUE
    /\ UNCHANGED <<goal, sub, change, coded, landed, row, handVars, crashes>>
    /\ UNCHANGED <<worked, revised, ahead, cut, unseen>>

--------------------------------------------------------------------------------
RunStep(r) ==
    \/ Claim(r)
    \/ \E how \in Ended, c \in BOOLEAN : Finish(r, how, c)
    \/ ReconcileSubGoalRun(r) \/ ReconcileVerifyRun(r) \/ ReconcileOwnerRun(r)
    \/ Pass(r) \/ Reject(r)

SubStep(s) ==
    \/ CreateSubGoal(s) \/ EndCreate(s) \/ RetrySubGoal(s)
    \/ CancelSubGoal(s) \/ DropQueued(s)
    \/ MarkChangeIntegrating(s) \/ MarkChangeIntegrated(s)
    \/ MarkChangeConflict(s) \/ MergeByHand(s)

Next ==
    \/ \E r \in Rows : RunStep(r)
    \/ \E s \in SubGoals : SubStep(s)
    \/ BackoffOver \/ BeginCreate \/ WakeOwner
    \/ Approve \/ RejectReview \/ ReconcileGoal
    \/ Crash \/ Recover \/ ReconcileAllActive

Spec == Init /\ [][Next]_vars

(* Fair are the daemon's steps, the end of every run (a watchdog sees to   *)
(* it) and the claim: the queue is served oldest first.  What agents and   *)
(* humans decide is not.                                                   *)
Ends(r) == \E how \in Ended, c \in BOOLEAN : Finish(r, how, c)
FairSpec ==
    /\ Spec
    /\ \A r \in Rows :
         /\ SF_vars(Claim(r)) /\ SF_vars(Ends(r))
         /\ WF_vars(ReconcileSubGoalRun(r) \/ ReconcileVerifyRun(r)
                      \/ ReconcileOwnerRun(r))
    /\ WF_vars(BackoffOver) /\ WF_vars(ReconcileGoal)
    /\ WF_vars(Recover) /\ WF_vars(ReconcileAllActive)

--------------------------------------------------------------------------------
(* Properties.                                                             *)

Awaited(s, role) == \E r \in Rows :
    row[r].role = role /\ row[r].of = s /\ row[r].status # "free"

(* No ghost sub-goals: a sub-goal that waits for its assignee or for its   *)
(* verifier has a run on its way, in every state a crash can leave behind. *)
NoGhost == goal \in {"active", "review"} =>
    \A s \in SubGoals :
        /\ Status(s) = "running" => Awaited(s, "subgoal")
        /\ Status(s) = "verifying" => Awaited(s, "verify")

(* The verifier judges a stable state: no run of the assignee is under way *)
(* while a verdict can still be given, and none finished later than the    *)
(* one whose change is judged.                                             *)
JudgedStable ==
    \A s \in SubGoals : RunningOf("verify", s) # {} => RunningOf("subgoal", s) = {}

(* No lost wake-up: when nothing is on its way any more and the last owner *)
(* run was not cancelled, an owner run was claimed after every revision    *)
(* that is ready, every failure and every verification by the machine.     *)
Quiet ==
    /\ daemon = "up" /\ goal = "active" /\ ~ hint /\ ~ cut
    /\ ~ Awaited(NoSub, "owner")
Unseen(S) == \E s \in unseen \cap S :
    Status(s) = "failed" \/ Status(s) = "verified" \/ change[s] = "ready"
ReadyIsSeen ==
    Quiet => ~ Unseen(Ready \cup (SubGoals \ Verified))
                /\ ~ \E s \in unseen : Status(s) = "failed"

(* The same under fairness: a revision that is ready gets an owner run, or *)
(* the goal ends, or the owner's run was cancelled: then a human decides.  *)
RevisionIsHandled ==
    \A s \in SubGoals :
        s \in unseen \cap Ready ~> s \notin unseen \cap Ready \/ goal # "active" \/ cut

(* The same of every sub-goal, those an agent verified without a change    *)
(* included.                                                               *)
SettledIsSeen == Quiet => ~ Unseen(SubGoals)

(* What the human judges, and what is done, is the whole work: no sub-goal *)
(* is open and no change of one is left outside of the goal branch.  Those *)
(* a human's call inserted behind the guard's back are left out here.      *)
ReviewIsWhole ==
    goal \in {"review", "done"} =>
        \A s \in SubGoals \ late : /\ Status(s) \in Settled \cup {"none"}
                                   /\ change[s] \in {"none", "integrated"}

(* "Only active allows new work": review freezes the goal.                 *)
NewWorkWhenActive == [][late' = late]_vars

(* A settled sub-goal is no longer worked on.                              *)
SettledIsIdle ==
    \A s \in SubGoals : Status(s) \in {"verified", "failed"} =>
        With(row, "subgoal", s) = {}

(* The status of a sub-goal and the run table agree, whatever failed, was  *)
(* retried, cancelled or crashed: what is under way has a run that will    *)
(* move it on, and nothing runs for what is settled.                       *)
StatusHasRuns == NoGhost /\ SettledIsIdle

(* A cancelled sub-goal gets no new work.                                  *)
CancelledIsLeft ==
    [][\A s \in SubGoals : Status(s) = "cancelled" /\ s \notin dropping
          => With(row', "subgoal", s) \subseteq With(row, "subgoal", s)]_vars
================================================================================
