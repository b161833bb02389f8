------------------------------ MODULE GoalRun ------------------------------
(***************************************************************************)
(* One goal and the runs that work on it: assignment and handoff, the      *)
(* claim gate, the end of a run and what it does to the goal, the review   *)
(* decision, delivery, cancel / reopen / relaunch, human stop, and a       *)
(* daemon that may crash between any two database transactions.            *)
(* (internal/service/goal.go, run.go, comment.go; internal/daemon)         *)
(*                                                                         *)
(* Every transaction, and every statement outside a transaction, is one    *)
(* step: SQLite serialises writers.  What a handler read before its        *)
(* transaction is carried in its session, so it can be stale when used.    *)
(* The event bus runs each handler in a goroutine of its own: a published  *)
(* event is a task that may run at any later time, or be lost in a crash.  *)
(*                                                                         *)
(* The module is about the rows of the run table: what is claimed, running *)
(* and judged.  A machine execution whose row a handler stamps is not told *)
(* and may go on (see CutOldOwner); what it still pushes is in Delivery.   *)
(***************************************************************************)
EXTENDS RunTable

CONSTANTS
    Squads,        \* squads a goal may be assigned to
    Human,         \* the assignee of a goal no agent owns
    Leader,        \* Leader[q]: squad.leader_id
    Reviewer,      \* Reviewer[q]: the squad's reviewer member, or NoAgent
    NoAgent,
    Sessions,      \* concurrent HTTP and IM handlers
    Jobs,          \* concurrent deliverGoal goroutines
    HandoffCycle,  \* handoffCycleThreshold
    MaxHandoffs,   \* bound on the number of handoffs explored
    MaxCrashes,    \* bound on the number of daemon crashes explored
    Ops            \* the operations the environment performs in an instance

Owners == Agents \cup Squads \cup {Human}

ASSUME GoalRunAssumption ==
    /\ Human \notin Agents \cup Squads
    /\ Agents \cap Squads = {}
    /\ Leader \in [Squads -> Agents]
    /\ NoAgent \notin Agents
    /\ Reviewer \in [Squads -> Agents \cup {NoAgent}]
    /\ HandoffCycle \in Nat \ {0}
    /\ MaxHandoffs \in Nat
    /\ MaxCrashes \in Nat

VARIABLES
    run,        \* the goal's rows of the run table
    status,     \* goal.status
    owner,      \* goal.assignee_type / assignee_id
    park,       \* what goal.review_request says
    evidence,   \* the run_id on the goal's review card
    handoffs,   \* number of handoff_event rows
    decision,   \* the latest gate_decision row of the goal
    finishing,  \* runs whose Finish call has stamped but not reconciled yet
    cuts,       \* goal:assigned events whose handler has not run yet
    sess,       \* the sessions: what each handler has read and has left to do
    job,        \* the deliver goroutines
    daemon,     \* the process: up, down, or in one of its startup phases
    replay,     \* runs ReconcilePendingTerminal still has to replay
    crashes,
    routing     \* the run dispatchOnce has claimed and not handed over yet

goalVars == <<status, owner, park, evidence, handoffs, decision>>
taskVars == <<finishing, cuts, sess, job>>
procVars == <<daemon, replay, crashes, routing>>
vars == <<run, goalVars, taskVars, procVars>>

GoalStatus == {"backlog", "active", "review", "done", "failed", "cancelled"}
Terminal   == {"done", "failed", "cancelled"}

(* goal.review_request by its prefix: a gate's reason, "handoff_loop:",    *)
(* "deliver:" after a failed delivery, or empty.                           *)
Park == {"", "gate", "handoff_loop", "deliver"}

(* The latest decision row: what was decided, with which run_id, and (for  *)
(* the properties only) whether it was made about the present review.      *)
Decision == [what : {"none", "approve", "reject"}, key : RunIds \cup {NoRun},
             current : BOOLEAN]
NoDecision == [what |-> "none", key |-> NoRun, current |-> FALSE]
Past(d) == [d EXCEPT !.current = FALSE]

Session == [pc    : {"idle", "decide", "decided", "sweep_cancel", "sweep_loop",
                     "reopen", "relaunch", "continue", "reply", "record"},
            owner : Owners, park : Park, key : RunIds \cup {NoRun},
            what  : {"none", "approve", "reject"}]
Idle == [pc |-> "idle", owner |-> Human, park |-> "", key |-> NoRun,
         what |-> "none"]

Cut == [n : 1..MaxHandoffs, owner : Owners]

TypeOK ==
    /\ run \in RunTableType
    /\ status \in GoalStatus
    /\ owner \in Owners
    /\ park \in Park
    /\ evidence \in RunIds \cup {NoRun}
    /\ handoffs \in 0..MaxHandoffs
    /\ decision \in Decision
    /\ finishing \subseteq RunIds
    /\ cuts \subseteq Cut
    /\ sess \in [Sessions -> Session]
    /\ job \in [Jobs -> {"none", "wait", "merge"}]
    /\ daemon \in {"up", "down", "boot", "replay"}
    /\ replay \subseteq RunIds
    /\ crashes \in 0..MaxCrashes
    /\ routing \in RunIds \cup {NoRun}

Init ==
    /\ run = [r \in RunIds |-> BlankRun]
    /\ status = "backlog"
    /\ owner \in Owners
    /\ park = ""
    /\ evidence = NoRun
    /\ handoffs = 0
    /\ decision = NoDecision
    /\ finishing = {}
    /\ cuts = {}
    /\ sess = [s \in Sessions |-> Idle]
    /\ job = [j \in Jobs |-> "none"]
    /\ daemon = "up"
    /\ replay = {}
    /\ crashes = 0
    /\ routing = NoRun

-----------------------------------------------------------------------------
(* Ownership.                                                              *)

(* resolveLeaderTx: the agent that works for an assignee.                  *)
AgentOf(o) == IF o \in Squads THEN Leader[o] ELSE o

(* AgentOwnsGoal *)
OwnsGoal(a) == owner # Human /\ a = AgentOf(owner)

(* ownRunByGoal: does the end of this run have authority over the goal?    *)
OwnRun(r) ==
    /\ run[r].role = "owner"
    /\ OwnsGoal(run[r].agent)
    /\ owner \in Agents => ~ run[r].leader

(* enqueueOwnerIntentTx: an owner run for assignee o, unless o is human.   *)
EnqueueOwner(rs, f, o) ==
    IF o = Human THEN rs
    ELSE Enqueue(rs, f, AgentOf(o), "owner", o \in Squads, 1)

(* The work a handler can do needs the process that runs it.               *)
Alive == daemon # "down"

(* A handler that makes several database calls begins and ends a session.  *)
Begin(s, rec) == sess[s] = Idle /\ sess' = [sess EXCEPT ![s] = rec]
End(s) == sess' = [sess EXCEPT ![s] = Idle]

-----------------------------------------------------------------------------
(* Starting and handing off.                                               *)

Activate ==
    /\ Alive /\ "activate" \in Ops
    /\ status = "backlog"
    /\ status' = "active"
    /\ \E f \in FreshRow(run) : run' = EnqueueOwner(run, f, owner)
    /\ UNCHANGED <<owner, park, evidence, handoffs, decision>>
    /\ UNCHANGED <<taskVars, procVars>>

(* Mutant of Assign: the intents of the previous owner stay queued.        *)
AssignKeepsIntents(o) ==
    /\ Alive /\ "assign" \in Ops
    /\ handoffs < MaxHandoffs
    /\ handoffs' = handoffs + 1
    /\ owner' = o
    /\ LET loop == handoffs + 1 >= HandoffCycle /\ status = "active"
           dropped == run
       IN  /\ status' = IF loop THEN "review" ELSE status
           /\ park' = IF loop THEN "handoff_loop" ELSE park
           /\ evidence' = IF loop THEN NoRun ELSE evidence
           /\ decision' = IF loop THEN Past(decision) ELSE decision
           /\ IF status \in {"active", "review"}
                THEN \E f \in FreshRow(run) : run' = EnqueueOwner(dropped, f, o)
                ELSE run' = dropped
    /\ cuts' = cuts \cup {[n |-> handoffs + 1, owner |-> o]}
    /\ UNCHANGED <<finishing, sess, job, procVars>>

(* Assign, by a human or by the owning agent: the new owner, the handoff   *)
(* row, the park of a handoff loop, the cancelled intents of the previous  *)
(* owner and the successor run are one transaction; goal:assigned follows. *)
Assign(o) ==
    /\ Alive /\ "assign" \in Ops
    /\ handoffs < MaxHandoffs
    /\ handoffs' = handoffs + 1
    /\ owner' = o
    /\ LET loop == handoffs + 1 >= HandoffCycle /\ status = "active"
           dropped == CancelRuns(run, QueuedOwner(run), "handoff")
       IN  /\ status' = IF loop THEN "review" ELSE status
           /\ park' = IF loop THEN "handoff_loop" ELSE park
           /\ evidence' = IF loop THEN NoRun ELSE evidence
           /\ decision' = IF loop THEN Past(decision) ELSE decision
           /\ IF status \in {"active", "review"}
                THEN \E f \in FreshRow(run) : run' = EnqueueOwner(dropped, f, o)
                ELSE run' = dropped
    /\ cuts' = cuts \cup {[n |-> handoffs + 1, owner |-> o]}
    /\ UNCHANGED <<finishing, sess, job, procVars>>

(* Mutant of CutOldOwner: only unassigning stops the running agent.        *)
CutOnUnassignOnly(e) ==
    /\ Alive
    /\ e \in cuts
    /\ cuts' = cuts \ {e}
    /\ run' = CancelRuns(run, {r \in RunningOwner(run) : e.owner = Human}, "handoff")
    /\ UNCHANGED <<goalVars, finishing, sess, job, procVars>>

(* onGoalAssigned, whenever its goroutine runs: running owner-role runs of *)
(* any agent but the one in the event are stamped cancelled.  No cancel    *)
(* function is registered for a run (runCancels stays empty), so every cut *)
(* is the database stamp, which neither reconciles nor tells the machine.  *)
CutOldOwner(e) ==
    /\ Alive
    /\ e \in cuts
    /\ cuts' = cuts \ {e}
    /\ run' = CancelRuns(run,
                {r \in RunningOwner(run) :
                    e.owner = Human \/ run[r].agent # AgentOf(e.owner)},
                "handoff")
    /\ UNCHANGED <<goalVars, finishing, sess, job, procVars>>

-----------------------------------------------------------------------------
(* Running.                                                                *)

(* A run the agent's worker has been given.                                *)
Executing(r) == run[r].status = "running" /\ r # routing

(* dispatchOnce gives a claimed run to its agent's worker.  That is a step *)
(* of its own only in an instance where the worker's queue can be full.    *)
HandOver(r) == routing' = IF "overflow" \in Ops THEN r ELSE NoRun

(* Mutants of Claim: without single flight; without the review freeze.     *)
ClaimTwice(r) ==
    /\ daemon = "up" /\ routing = NoRun
    /\ run[r].status = "queued" /\ run[r].due
    /\ status = "active" \/ (status = "review" /\ run[r].role = "review")
    /\ run' = [run EXCEPT ![r].status = "running", ![r].started = TRUE]
    /\ HandOver(r)
    /\ UNCHANGED <<goalVars, taskVars, daemon, replay, crashes>>
ClaimInReview(r) ==
    /\ daemon = "up" /\ routing = NoRun
    /\ run[r].status = "queued" /\ run[r].due
    /\ status \in {"active", "review"}
    /\ run[r].role = "owner" => RunningOwner(run) = {}
    /\ run' = [run EXCEPT ![r].status = "running", ![r].started = TRUE]
    /\ HandOver(r)
    /\ UNCHANGED <<goalVars, taskVars, daemon, replay, crashes>>

(* Claim: the only place that admits a queued run to execution.  Which of  *)
(* the admissible runs goes first depends on which agents are ready.       *)
Claim(r) ==
    /\ daemon = "up" /\ routing = NoRun
    /\ run[r].status = "queued" /\ run[r].due
    /\ status = "active" \/ (status = "review" /\ run[r].role = "review")
    /\ run[r].role = "owner" => RunningOwner(run) = {}
    /\ run' = [run EXCEPT ![r].status = "running", ![r].started = TRUE]
    /\ HandOver(r)
    /\ UNCHANGED <<goalVars, taskVars, daemon, replay, crashes>>

Route ==
    /\ routing # NoRun
    /\ routing' = NoRun
    /\ UNCHANGED <<run, goalVars, taskVars, daemon, replay, crashes>>

(* The queue is full: the run goes back, whatever became of it meanwhile.  *)
ReturnToQueue ==
    /\ routing # NoRun
    /\ run' = [run EXCEPT ![routing].status = "queued", ![routing].started = FALSE]
    /\ routing' = NoRun
    /\ UNCHANGED <<goalVars, taskVars, daemon, replay, crashes>>

(* Time passes: a retry's queued_at is no longer in the future.            *)
BackoffOver(r) ==
    /\ run[r].status = "queued" /\ ~ run[r].due
    /\ run' = [run EXCEPT ![r].due = TRUE]
    /\ UNCHANGED <<goalVars, taskVars, procVars>>

(* The owning agent asks another agent (a comment with a mention): the     *)
(* guest run is enqueued, then recordConsult names the requester.          *)
AskConsult(s, r, a) ==
    /\ Alive /\ "consult" \in Ops
    /\ Executing(r) /\ OwnsGoal(run[r].agent)
    /\ status \in {"active", "review"}
    /\ \E f \in RowFor(run, a, "consult") :
         /\ run' = Enqueue(run, f, a, "consult", FALSE, 1)
         /\ \E guest \in PendingOf(run', a, "consult") :
              Begin(s, [Idle EXCEPT !.pc = "record", !.owner = run[r].agent,
                                    !.key = guest])
    /\ UNCHANGED <<goalVars, finishing, cuts, job, procVars>>

RecordConsult(s) ==
    /\ Alive
    /\ sess[s].pc = "record"
    /\ run' = [run EXCEPT ![sess[s].key].askers = @ \cup {sess[s].owner}]
    /\ End(s)
    /\ UNCHANGED <<goalVars, finishing, cuts, job, procVars>>

(* A human mentions an agent: a consult nobody is resumed for.             *)
HumanMention(a) ==
    /\ Alive /\ "mention" \in Ops
    /\ status \in {"active", "review"}
    /\ \E f \in RowFor(run, a, "consult") : run' = Enqueue(run, f, a, "consult", FALSE, 1)
    /\ UNCHANGED <<goalVars, taskVars, procVars>>

(* The agent of an owner run asks its human a question.                    *)
AskHuman(r) ==
    /\ Alive /\ "ask" \in Ops
    /\ Executing(r) /\ run[r].role = "owner" /\ ~ run[r].ask
    /\ run' = [run EXCEPT ![r].ask = TRUE]
    /\ UNCHANGED <<goalVars, taskVars, procVars>>

(* Mutant of Finish: a late result overwrites a stamp.                     *)
FinishAnyway(r, outcome) ==
    /\ Alive
    /\ run[r].status \in {"running"} \cup Ended
    /\ outcome = "cancelled" => "timeout" \in Ops
    /\ run' = [run EXCEPT ![r].status = outcome]
    /\ finishing' = finishing \cup {r}
    /\ UNCHANGED <<goalVars, cuts, sess, job, procVars>>

(* Finish, first statement: the conditional terminal stamp.  "cancelled"   *)
(* is the machine watchdog's timeout.                                      *)
Finish(r, outcome) ==
    /\ Alive
    /\ Executing(r)
    /\ outcome = "cancelled" => "timeout" \in Ops
    /\ run' = [run EXCEPT ![r].status = outcome,
                          ![r].reason = IF outcome = "cancelled"
                                          THEN "timeout" ELSE @]
    /\ finishing' = finishing \cup {r}
    /\ UNCHANGED <<goalVars, cuts, sess, job, procVars>>

(* StopRun: a human cancels one run.  The stamp is not followed by a       *)
(* reconcile.  A run that already ended is left alone.                     *)
StopRun(r) ==
    /\ Alive /\ "stop" \in Ops
    /\ run[r].status \in Pending
    /\ run' = CancelRuns(run, {r}, "stopped")
    /\ UNCHANGED <<goalVars, taskVars, procVars>>

(* reapRunawayRuns: a run far over its budget is stamped, not reconciled.  *)
ReapRunaway(r) ==
    /\ daemon = "up" /\ "runaway" \in Ops
    /\ run[r].status = "running"
    /\ run' = CancelRuns(run, {r}, "runaway")
    /\ UNCHANGED <<goalVars, taskVars, procVars>>

-----------------------------------------------------------------------------
(* ReconcileOnRunEnd: what the end of run r does to the goal.  Finish calls *)
(* it after its stamp, the startup replay for every unreconciled row.  One  *)
(* action per outcome; each is one transaction that also stamps             *)
(* reconciled_at.                                                           *)

Reconcile(r) ==
    \/ /\ Alive /\ r \in finishing
       /\ finishing' = finishing \ {r}
       /\ UNCHANGED replay
    \/ /\ daemon = "replay" /\ r \in replay
       /\ replay' = replay \ {r}
       /\ UNCHANGED finishing

Stamped(rs, r) == [rs EXCEPT ![r].reconciled = TRUE]

(* Mutants of DiscardGuest: the requester is resumed whoever owns the goal *)
(* now; only an answer that came back resumes it.                          *)
ResumeAnyRequester(r) ==
    /\ Reconcile(r)
    /\ ~ OwnRun(r)
    /\ LET resumable == {a \in run[r].askers : status = "active"}
       IN  IF run[r].askers = {} THEN run' = Stamped(run, r)
           ELSE \E a \in run[r].askers :
                  IF a \in resumable
                    THEN \E f \in FreshRow(run) :
                           run' = Stamped(Enqueue(run, f, a, "owner", FALSE, 1), r)
                    ELSE run' = Stamped(run, r)
    /\ UNCHANGED <<goalVars, cuts, sess, job, daemon, crashes, routing>>
ResumeOnAnswer(r) ==
    /\ Reconcile(r)
    /\ ~ OwnRun(r)
    /\ LET resumable == {a \in run[r].askers : OwnsGoal(a) /\ status = "active"
                                         /\ run[r].status = "completed"}
       IN  IF run[r].askers = {} THEN run' = Stamped(run, r)
           ELSE \E a \in run[r].askers :
                  IF a \in resumable
                    THEN \E f \in FreshRow(run) :
                           run' = Stamped(Enqueue(run, f, a, "owner", FALSE, 1), r)
                    ELSE run' = Stamped(run, r)
    /\ UNCHANGED <<goalVars, cuts, sess, job, daemon, crashes, routing>>

(* A run without authority is discarded; if it answered a consult whose    *)
(* requester still owns the active goal, the requester is resumed.         *)
DiscardGuest(r) ==
    /\ Reconcile(r)
    /\ ~ OwnRun(r)
    /\ LET resumable == {a \in run[r].askers : OwnsGoal(a) /\ status = "active"}
       IN  IF run[r].askers = {} THEN run' = Stamped(run, r)
           ELSE \E a \in run[r].askers :
                  IF a \in resumable
                    THEN \E f \in FreshRow(run) :
                           run' = Stamped(Enqueue(run, f, a, "owner", FALSE, 1), r)
                    ELSE run' = Stamped(run, r)
    /\ UNCHANGED <<goalVars, cuts, sess, job, daemon, crashes, routing>>

DiscardCancelled(r) ==
    /\ Reconcile(r)
    /\ OwnRun(r) /\ status = "cancelled"
    /\ run' = Stamped(run, r)
    /\ UNCHANGED <<goalVars, cuts, sess, job, daemon, crashes, routing>>

Judged(r, outcome) ==
    Reconcile(r) /\ OwnRun(r) /\ status # "cancelled" /\ run[r].status = outcome

(* What keeps a completed owner run from reaching the gate: a consult its  *)
(* agent still waits for, or its own unanswered question to the human.     *)
WaitsFor(r) ==
    \/ run[r].ask
    \/ \E c \in RunIds : /\ run[c].status \in Pending /\ run[c].role = "consult"
                         /\ run[r].agent \in run[c].askers

HoldActive(r) ==
    /\ Judged(r, "completed")
    /\ WaitsFor(r) \/ status \in {"review", "done", "failed"}
    /\ run' = Stamped(run, r)
    /\ UNCHANGED <<goalVars, cuts, sess, job, daemon, crashes, routing>>

(* A gate fires: the goal parks in review; a squad's reviewer gets a run   *)
(* in the same transaction unless it is the leader or already has one.     *)
ParkInReview(r) ==
    /\ Judged(r, "completed") /\ ~ WaitsFor(r) /\ status = "active"
    /\ status' = "review" /\ park' = "gate" /\ evidence' = r
    /\ decision' = Past(decision)
    /\ LET reviewer == IF owner \in Squads THEN Reviewer[owner] ELSE NoAgent
       IN  IF \/ reviewer = NoAgent
              \/ reviewer = AgentOf(owner)
              \/ PendingOf(run, reviewer, "review") # {}
             THEN run' = Stamped(run, r)
             ELSE \E f \in FreshRow(run) :
                    run' = Stamped(Enqueue(run, f, reviewer, "review", FALSE, 1), r)
    /\ UNCHANGED <<owner, handoffs, cuts, sess, job, daemon, crashes, routing>>

(* No gate fires: the goal is done and its queued runs are cancelled.      *)
PromoteDone(r) ==
    /\ Judged(r, "completed") /\ ~ WaitsFor(r) /\ status = "active"
    /\ status' = "done"
    /\ run' = Stamped(CancelRuns(run, Queued(run), "goal_terminal"), r)
    /\ UNCHANGED <<owner, park, evidence, handoffs, decision>>
    /\ UNCHANGED <<cuts, sess, job, daemon, crashes, routing>>

(* A failed attempt with attempts left queues the next one, dated into the *)
(* future.  The goal's status is not consulted.                            *)
RetryRun(r) ==
    /\ Judged(r, "failed")
    /\ run[r].attempt < MaxAttempts
    /\ \E f \in FreshRow(run) :
         LET a == run[r].agent
             next == Enqueue(run, f, a, "owner", run[r].leader, run[r].attempt + 1)
         IN  run' = Stamped([g \in RunIds |->
                       IF g \in PendingOf(next, a, "owner")
                         THEN [next[g] EXCEPT !.due = FALSE] ELSE next[g]], r)
    /\ UNCHANGED <<goalVars, cuts, sess, job, daemon, crashes, routing>>

(* The last attempt failed: the goal fails (unless it is in review or has  *)
(* ended) and queued runs are cancelled whatever became of it.             *)
FailGoal(r) ==
    /\ Judged(r, "failed")
    /\ run[r].attempt >= MaxAttempts
    /\ status' = IF status \in Terminal \cup {"review"} THEN status ELSE "failed"
    /\ run' = Stamped(CancelRuns(run, Queued(run), "goal_terminal"), r)
    /\ UNCHANGED <<owner, park, evidence, handoffs, decision>>
    /\ UNCHANGED <<cuts, sess, job, daemon, crashes, routing>>

(* A cancelled run leaves the goal where it is.                            *)
NoteCancelled(r) ==
    /\ Judged(r, "cancelled")
    /\ run' = Stamped(run, r)
    /\ UNCHANGED <<goalVars, cuts, sess, job, daemon, crashes, routing>>

ReconcileOnRunEnd(r) ==
    \/ DiscardGuest(r)  \/ DiscardCancelled(r)
    \/ HoldActive(r)    \/ ParkInReview(r)     \/ PromoteDone(r)
    \/ RetryRun(r)      \/ FailGoal(r)         \/ NoteCancelled(r)

-----------------------------------------------------------------------------
(* Handlers that read the goal first and act on what they read later.      *)

(* Cancel: the goal is cancelled by one statement, its queued runs by the  *)
(* next one.                                                               *)
CancelGoal(s) ==
    /\ Alive /\ "cancel" \in Ops
    /\ status \notin Terminal
    /\ Begin(s, [Idle EXCEPT !.pc = "sweep_cancel"])
    /\ status' = "cancelled"
    /\ UNCHANGED <<run, owner, park, evidence, handoffs, decision>>
    /\ UNCHANGED <<finishing, cuts, job, procVars>>

SweepQueued(s) ==
    /\ Alive
    /\ sess[s].pc \in {"sweep_cancel", "sweep_loop"}
    /\ run' = CancelRuns(run, Queued(run),
                 IF sess[s].pc = "sweep_cancel" THEN "goal_cancelled"
                                                ELSE "goal_terminal")
    /\ End(s)
    /\ UNCHANGED <<goalVars, finishing, cuts, job, procVars>>

(* ResolveReview, the reads: the goal must be in review, and a second      *)
(* decision under the same run_id is refused while an approve of a gate    *)
(* park stands.  The web page decides with an empty run_id, the IM card    *)
(* (and the automatic approval of built-in goals) with the evidence run.   *)
(* "redirect" takes the path of "reject".                                  *)
Refused(key) ==
    /\ park \notin {"deliver", "handoff_loop"}
    /\ decision.what = "approve" /\ decision.key = key

BeginDecision(s, key, what) ==
    /\ Alive
    /\ \/ "web" \in Ops /\ key = NoRun
       \/ "im" \in Ops /\ key = evidence
    /\ status = "review"
    /\ ~ Refused(key)
    /\ Begin(s, [pc |-> "decide", owner |-> owner, park |-> park, key |-> key,
                 what |-> what])
    /\ UNCHANGED <<run, goalVars, finishing, cuts, job, procVars>>

(* INSERT INTO gate_decision, a statement of its own.                      *)
RecordDecision(s) ==
    /\ Alive
    /\ sess[s].pc = "decide"
    /\ decision' = [what |-> sess[s].what, key |-> sess[s].key,
                    current |-> status = "review"]
    /\ sess' = [sess EXCEPT ![s].pc = "decided"]
    /\ UNCHANGED <<run, status, owner, park, evidence, handoffs>>
    /\ UNCHANGED <<finishing, cuts, job, procVars>>

Decided(s, what) == Alive /\ sess[s].pc = "decided" /\ sess[s].what = what

(* Approving a handoff loop releases the goal: there is nothing to deliver. *)
ApproveLoop(s) ==
    /\ Decided(s, "approve") /\ sess[s].park = "handoff_loop"
    /\ IF status = "review"
         THEN status' = "active" /\ park' = ""
         ELSE UNCHANGED <<status, park>>
    /\ End(s)
    /\ UNCHANGED <<run, owner, evidence, handoffs, decision>>
    /\ UNCHANGED <<finishing, cuts, job, procVars>>

(* goal:approved starts deliverGoal; the goal stays in review.             *)
ApproveDelivery(s) ==
    /\ Decided(s, "approve") /\ sess[s].park # "handoff_loop"
    /\ \E j \in Jobs : job[j] = "none" /\ job' = [job EXCEPT ![j] = "wait"]
    /\ End(s)
    /\ UNCHANGED <<run, goalVars, finishing, cuts, procVars>>

(* Rejecting a handoff loop fails the goal; the sweep is a second statement *)
(* and does not look whether the first one changed anything.               *)
RejectLoop(s) ==
    /\ Decided(s, "reject") /\ sess[s].park = "handoff_loop"
    /\ IF status = "review"
         THEN status' = "failed" /\ park' = ""
         ELSE UNCHANGED <<status, park>>
    /\ sess' = [sess EXCEPT ![s].pc = "sweep_loop"]
    /\ UNCHANGED <<run, owner, evidence, handoffs, decision>>
    /\ UNCHANGED <<finishing, cuts, job, procVars>>

(* Rejecting a gate park: review -> active and the next run of the owner   *)
(* the session read; an error (and no change) if the review is over.       *)
RejectReview(s) ==
    /\ Decided(s, "reject") /\ sess[s].park # "handoff_loop"
    /\ IF status = "review"
         THEN /\ status' = "active" /\ park' = ""
              /\ \E f \in FreshRow(run) : run' = EnqueueOwner(run, f, sess[s].owner)
         ELSE UNCHANGED <<run, status, park>>
    /\ End(s)
    /\ UNCHANGED <<owner, evidence, handoffs, decision>>
    /\ UNCHANGED <<finishing, cuts, job, procVars>>

(* Reopen (a human, terminal goals) and Relaunch (a webhook, any goal that *)
(* is not active): the check is made on an earlier read, the transition    *)
(* and the run of the assignee read then are one transaction.              *)
BeginRestart(s, kind) ==
    /\ Alive /\ kind \in Ops
    /\ IF kind = "reopen" THEN status \in Terminal ELSE status # "active"
    /\ Begin(s, [Idle EXCEPT !.pc = kind, !.owner = owner])
    /\ UNCHANGED <<run, goalVars, finishing, cuts, job, procVars>>

RestartGoal(s) ==
    /\ Alive
    /\ sess[s].pc \in {"reopen", "relaunch"}
    /\ sess[s].owner # Human
    /\ LET relaunch == sess[s].pc = "relaunch"
           from == Terminal \cup (IF relaunch THEN {"backlog", "review"} ELSE {})
           stale == {r \in RunIds : /\ relaunch /\ run[r].role = "review"
                                    /\ run[r].status \in Pending}
       IN  /\ IF status \in from
                THEN status' = "active" /\ park' = ""
                ELSE UNCHANGED <<status, park>>
           /\ \E f \in FreshRow(run) :
                run' = EnqueueOwner(CancelRuns(run, stale, "superseded"), f,
                                    sess[s].owner)
    /\ decision' = NoDecision
    /\ End(s)
    /\ UNCHANGED <<owner, evidence, handoffs, finishing, cuts, job, procVars>>

(* resolveLeaderTx has no agent for a human's goal and returns an error:   *)
(* the transaction is rolled back.                                         *)
RefuseRestart(s) ==
    /\ Alive
    /\ sess[s].pc \in {"reopen", "relaunch"}
    /\ sess[s].owner = Human
    /\ End(s)
    /\ UNCHANGED <<run, goalVars, finishing, cuts, job, procVars>>

(* ContinueGoal, after a human stopped the run of an active goal.          *)
BeginContinue(s) ==
    /\ Alive /\ "continue" \in Ops
    /\ status = "active" /\ owner # Human
    /\ Begin(s, [Idle EXCEPT !.pc = "continue", !.owner = owner])
    /\ UNCHANGED <<run, goalVars, finishing, cuts, job, procVars>>

(* A human answers a comment of run r: the answer settles the question the *)
(* run may have asked; an active goal's owner is woken, an ended goal is   *)
(* reopened, otherwise the comment only lands.                             *)
Reply(s, r) ==
    /\ Alive /\ "reply" \in Ops
    /\ run[r].status \in Ended \cup {"running"}
    /\ run' = [run EXCEPT ![r].ask = FALSE]
    /\ CASE status = "active" /\ owner # Human ->
              Begin(s, [Idle EXCEPT !.pc = "reply", !.owner = owner])
         [] status \in Terminal ->
              Begin(s, [Idle EXCEPT !.pc = "reopen", !.owner = owner])
         [] OTHER -> sess[s] = Idle /\ UNCHANGED sess
    /\ UNCHANGED <<goalVars, finishing, cuts, job, procVars>>

(* The owner that was read gets a run, whatever the goal has become; only  *)
(* ContinueGoal marks a squad's run as its leader's.                       *)
WakeOwner(s) ==
    /\ Alive
    /\ sess[s].pc \in {"continue", "reply"}
    /\ LET o == sess[s].owner
           leader == o \in Squads /\ sess[s].pc = "continue"
       IN  \E f \in FreshRow(run) :
             run' = Enqueue(run, f, AgentOf(o), "owner", leader, 1)
    /\ End(s)
    /\ UNCHANGED <<goalVars, finishing, cuts, job, procVars>>

-----------------------------------------------------------------------------
(* deliverGoal: wait until no owner run is running, then merge and push    *)
(* (the git work is module Deliver's subject), then MarkDelivered.         *)

(* Mutant of StartMerge: nobody is waited for.                             *)
MergeAtOnce(j) ==
    /\ Alive
    /\ job[j] = "wait"
    /\ job' = [job EXCEPT ![j] = "merge"]
    /\ UNCHANGED <<run, goalVars, finishing, cuts, sess, procVars>>

StartMerge(j) ==
    /\ Alive
    /\ job[j] = "wait" /\ RunningOwner(run) = {}
    /\ job' = [job EXCEPT ![j] = "merge"]
    /\ UNCHANGED <<run, goalVars, finishing, cuts, sess, procVars>>

(* MarkDelivered(success): only a review becomes done, but queued runs are *)
(* cancelled in every case.                                                *)
Delivered(j) ==
    /\ Alive
    /\ job[j] = "merge"
    /\ job' = [job EXCEPT ![j] = "none"]
    /\ IF status = "review"
         THEN status' = "done" /\ park' = ""
         ELSE UNCHANGED <<status, park>>
    /\ run' = CancelRuns(run, Queued(run), "goal_terminal")
    /\ UNCHANGED <<owner, evidence, handoffs, decision>>
    /\ UNCHANGED <<finishing, cuts, sess, procVars>>

(* MarkDelivered(failure): a conflict, a red verification, a refused push, *)
(* or five minutes of waiting for a running owner run.                     *)
DeliverFailed(j) ==
    /\ Alive /\ "deliver_fails" \in Ops
    /\ job[j] \in {"wait", "merge"}
    /\ job' = [job EXCEPT ![j] = "none"]
    /\ park' = IF status = "review" THEN "deliver" ELSE park
    /\ UNCHANGED <<run, status, owner, evidence, handoffs, decision>>
    /\ UNCHANGED <<finishing, cuts, sess, procVars>>

-----------------------------------------------------------------------------
(* A crash loses every goroutine: open handlers, undelivered events,       *)
(* Finish calls between stamp and reconcile, deliveries.                   *)
Crash ==
    /\ Alive /\ crashes < MaxCrashes
    /\ crashes' = crashes + 1
    /\ daemon' = "down"
    /\ finishing' = {} /\ cuts' = {} /\ replay' = {}
    /\ sess' = [s \in Sessions |-> Idle]
    /\ job' = [j \in Jobs |-> "none"]
    /\ routing' = NoRun
    /\ UNCHANGED <<run, goalVars>>

(* The HTTP server and the daemon's startup sequence run side by side.     *)
Boot ==
    /\ daemon = "down"
    /\ daemon' = "boot"
    /\ UNCHANGED <<run, goalVars, taskVars, replay, crashes, routing>>

(* RecoverStuckRunning, then the scan of ReconcilePendingTerminal.         *)
Recover ==
    /\ daemon = "boot"
    /\ daemon' = "replay"
    /\ run' = RequeueRunning(run, status \in Terminal)
    /\ replay' = Unreconciled(run')
    /\ UNCHANGED <<goalVars, taskVars, crashes, routing>>

(* Mutants of StartDispatch: no delivery is recovered; any review is       *)
(* delivered.                                                              *)
StartWithoutDelivers ==
    /\ daemon = "replay" /\ replay = {}
    /\ daemon' = "up"
    /\ UNCHANGED <<run, goalVars, taskVars, replay, crashes, routing>>
StartDeliversReview ==
    /\ daemon = "replay" /\ replay = {}
    /\ daemon' = "up"
    /\ IF status = "review" /\ park # "deliver"
         THEN \E j \in Jobs : job[j] = "none" /\ job' = [job EXCEPT ![j] = "wait"]
         ELSE UNCHANGED job
    /\ UNCHANGED <<run, goalVars, finishing, cuts, sess, replay, crashes, routing>>

(* The replay is done: recoverPendingDelivers restarts the delivery of a   *)
(* review whose latest decision is an approve, and dispatch begins.        *)
StartDispatch ==
    /\ daemon = "replay" /\ replay = {}
    /\ daemon' = "up"
    /\ IF status = "review" /\ park # "deliver" /\ decision.what = "approve"
         THEN \E j \in Jobs : job[j] = "none" /\ job' = [job EXCEPT ![j] = "wait"]
         ELSE UNCHANGED job
    /\ UNCHANGED <<run, goalVars, finishing, cuts, sess, replay, crashes, routing>>

-----------------------------------------------------------------------------
RunStep(r) ==
    \/ Claim(r) \/ BackoffOver(r) \/ AskHuman(r) \/ StopRun(r) \/ ReapRunaway(r)
    \/ \E outcome \in Ended : Finish(r, outcome)
    \/ ReconcileOnRunEnd(r)

SessionStep(s) ==
    \/ CancelGoal(s) \/ SweepQueued(s)
    \/ \E key \in RunIds \cup {NoRun}, what \in {"approve", "reject"} :
         BeginDecision(s, key, what)
    \/ RecordDecision(s) \/ ApproveLoop(s) \/ ApproveDelivery(s)
    \/ RejectLoop(s) \/ RejectReview(s)
    \/ \E kind \in {"reopen", "relaunch"} : BeginRestart(s, kind)
    \/ RestartGoal(s) \/ RefuseRestart(s)
    \/ \E r \in RunIds, a \in Agents : AskConsult(s, r, a)
    \/ RecordConsult(s)
    \/ BeginContinue(s) \/ \E r \in RunIds : Reply(s, r)
    \/ WakeOwner(s)

JobStep(j) == StartMerge(j) \/ Delivered(j) \/ DeliverFailed(j)

DaemonStep ==
    \/ Crash \/ Boot \/ Recover \/ StartDispatch
    \/ Route \/ ReturnToQueue

Next ==
    \/ Activate
    \/ \E o \in Owners : Assign(o)
    \/ \E e \in cuts : CutOldOwner(e)
    \/ \E a \in Agents : HumanMention(a)
    \/ \E r \in RunIds : RunStep(r)
    \/ \E s \in Sessions : SessionStep(s)
    \/ \E j \in Jobs : JobStep(j)
    \/ DaemonStep

Spec == Init /\ [][Next]_vars

(* What the process does by itself goes on: startup, the goroutine of each *)
(* event, of each Finish call, of each handler and delivery already under  *)
(* way, the dispatch loop, and time.  Nothing is assumed of humans, of     *)
(* agents (a run may never end) or of crashes.                             *)
HandlerStep(s) ==
    \/ RecordDecision(s) \/ ApproveLoop(s) \/ ApproveDelivery(s)
    \/ RejectLoop(s) \/ RejectReview(s) \/ SweepQueued(s)
    \/ RestartGoal(s) \/ RefuseRestart(s)
    \/ WakeOwner(s) \/ RecordConsult(s)

Fairness ==
    /\ WF_vars(Boot) /\ WF_vars(Recover) /\ WF_vars(StartDispatch)
    /\ WF_vars(\E e \in cuts : CutOldOwner(e))
    /\ WF_vars(\E r \in RunIds : Claim(r)) /\ WF_vars(Route \/ ReturnToQueue)
    /\ \A r \in RunIds : WF_vars(ReconcileOnRunEnd(r)) /\ WF_vars(BackoffOver(r))
    /\ \A s \in Sessions : WF_vars(HandlerStep(s))
    /\ \A j \in Jobs : WF_vars(StartMerge(j)) /\ WF_vars(Delivered(j) \/ DeliverFailed(j))

FairSpec == Spec /\ Fairness

-----------------------------------------------------------------------------
(* Properties.                                                             *)

(* The goal branch is given to one run at a time: Claim's single-flight    *)
(* guard, together with everything that stamps, requeues or resumes runs,  *)
(* never lets two owner runs be running at once.                           *)
OneWriter == \A r1, r2 \in RunningOwner(run) : r1 = r2

(* An agent never has two pending runs of one role: coalescing in          *)
(* enqueueTx survives retries, requeues after a crash and late wakes.      *)
OnePending ==
    \A a \in Agents, role \in Role :
        \A r1, r2 \in PendingOf(run, a, role) : r1 = r2

(* A run of attempt n+1 exists only because an owner run of the same agent *)
(* failed at attempt n: the retry budget is never spent by wakes, consults *)
(* or restarts of the daemon.                                              *)
RetryChain ==
    \A r \in RunIds :
        run[r].attempt > 1 =>
            \E q \in RunIds : /\ run[q].status = "failed"
                              /\ run[q].agent = run[r].agent
                              /\ run[q].attempt = run[r].attempt - 1

(* A handoff reaches the run table: once every goal:assigned handler has   *)
(* run, no owner run is running for anybody but the assignee.  So no later *)
(* end of the former owner's turn is judged as an end of the goal's work,  *)
(* and its row does not stand in the new owner's way.  (Its execution on a *)
(* machine is not stopped by this.)                                        *)
HandoffCut ==
    cuts = {} => \A r \in RunningOwner(run) : OwnsGoal(run[r].agent)

(* Claim gives an owner run to the present owner only (the comment in      *)
(* Assign on stale intents "compet[ing] with the new one at claim time").  *)
ClaimIsOwners ==
    [][\A r \in RunIds : Claim(r) /\ run[r].role = "owner"
                            => OwnsGoal(run[r].agent)]_vars

(* A run that ended is never resurrected nor given another outcome: a late *)
(* report loses against a stamp.                                           *)
TerminalRunStands ==
    [][\A r \in RunIds :
          run[r].status \in Ended =>
              /\ run'[r].status = run[r].status
              /\ run'[r].reason = run[r].reason]_vars

(* The work an active goal of an agent waits for: a run of its owner, or a *)
(* consult its owner's agent asked for.                                    *)
Awaited(r) ==
    \/ run[r].role = "owner" /\ OwnsGoal(run[r].agent)
    \/ run[r].role = "consult" /\ \E a \in run[r].askers : OwnsGoal(a)

WorkPending == \E r \in RunIds : Awaited(r) /\ run[r].status \in Pending
EndNotJudged ==
    \E r \in RunIds : /\ run[r].status \in {"completed", "failed"}
                      /\ ~ run[r].reconciled
                      /\ OwnRun(r) \/ (Awaited(r) /\ run[r].role = "consult")
AskPending == \E r \in RunIds : run[r].ask
WakePending == \E s \in Sessions : sess[s].pc = "reply"

(* Documented: after a human stop, a timeout or a runaway kill the goal    *)
(* stays active and a human decides.                                       *)
Killed == {"stopped", "timeout", "runaway"}
HumanDecides == \E r \in RunIds : Awaited(r) /\ run[r].reason \in Killed

(* A consult that two agents wait for: its end resumes the requester of    *)
(* one row of consult_request, whichever the query returns, and with it    *)
(* perhaps nobody (a finding, see the README).                             *)
TwoRequesters ==
    \E r \in RunIds : Awaited(r) /\ \E a, b \in run[r].askers : a # b

(* An active goal owned by an agent never stalls silently: there is a run  *)
(* of its owner or a consult it asked for, the end of one not judged yet,  *)
(* an open question, an answer whose wake-up is under way, or a kill that  *)
(* is documented to leave the decision to a human; except for the one      *)
(* consult whose second requester the code does not resume.                *)
NoStall ==
    status = "active" /\ owner # Human =>
        \/ WorkPending \/ EndNotJudged \/ AskPending \/ WakePending
        \/ HumanDecides \/ TwoRequesters

(* While deliverGoal merges, no owner run is running.                      *)
MergeExclusive ==
    (\E j \in Jobs : job[j] = "merge") => RunningOwner(run) = {}

(* What is merged into the default branch of a goal in review is what a    *)
(* human approved in this review.                                          *)
MergeApproved ==
    (\E j \in Jobs : job[j] = "merge") /\ status = "review" =>
        decision.what = "approve" /\ decision.current /\ park # "handoff_loop"

(* A review that has not been decided can be decided, from the web page    *)
(* and from the IM card.                                                   *)
FreshParkDecidable ==
    status = "review" /\ ~ decision.current
        => ~ Refused(NoRun) /\ (evidence # NoRun => ~ Refused(evidence))

(* Queued work is dropped as "the goal ended" only when it ended.          *)
DropsOnlyOnEnd ==
    [][\A r \in RunIds :
          run[r].status = "queued" /\ run'[r].reason = "goal_terminal"
              => status' \in Terminal]_vars

(* deliver.go: "keeps the goal in review while deliver runs".              *)
DeliverKeepsReview == (\E j \in Jobs : job[j] # "none") => status = "review"

(* A goal that ended and is reopened becomes active again; for a goal      *)
(* assigned to a human without a run (the comments in Reopen and           *)
(* EnqueueOwnerRun: such goals "stay manual").                             *)
ReopenReopens ==
    [][\A s \in Sessions :
          sess[s].pc = "reopen" /\ sess'[s].pc = "idle" /\ status \in Terminal
              => status' = "active" \/ daemon' = "down"]_vars

(* Every run that reports an end is judged by the goal layer, even if the  *)
(* daemon crashes between the stamp and the judgement.                     *)
EveryEndIsJudged ==
    \A r \in RunIds :
        run[r].status \in {"completed", "failed"}
            ~> (run[r].reconciled \/ Unused(run) = {})

(* An approved review is delivered or ends some other way, even if the     *)
(* daemon crashes after the approval was recorded; only a running owner    *)
(* run, which nobody can be sure ends, can hold it up.  (In these two      *)
(* properties the bound RunIds may stop the model before the code.)        *)
ApprovalIsDelivered ==
    (status = "review" /\ decision.what = "approve" /\ decision.current)
        ~> \/ status # "review" \/ park = "deliver"
           \/ RunningOwner(run) # {} \/ Unused(run) = {}

(* A due intent of an active goal is claimed, unless the goal moves on or  *)
(* its current owner is already at work: the previous owner's row cannot   *)
(* keep the gate shut.                                                     *)
IntentIsClaimed ==
    \A r \in RunIds :
        (status = "active" /\ run[r].status = "queued" /\ run[r].role = "owner")
            ~> \/ run[r].status # "queued" \/ status # "active"
               \/ \E q \in RunningOwner(run) : OwnsGoal(run[q].agent)

-----------------------------------------------------------------------------
(* The promise this module keeps: the running owner runs are the writers.  *)
Lifecycle == INSTANCE GoalLifecycle
               WITH Writers <- RunIds, writing <- RunningOwner(run)

(* Every step is an edge of the goal's life cycle, the start or the stop   *)
(* of a writer, or invisible at that level.                                *)
ImplementsLifecycle == Lifecycle!Spec
=============================================================================
