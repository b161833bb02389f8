------------------------------ MODULE RunTable ------------------------------
(***************************************************************************)
(* The rows of the "run" table that belong to one goal, and the statements *)
(* the services share to change them (internal/service/run.go).  A run is  *)
(* a record; a row that has not been inserted yet has status "none".       *)
(*                                                                         *)
(* Row data is reduced to the columns that guards read: the queue time     *)
(* becomes "due" (queued_at <= now), started_at and reconciled_at become   *)
(* booleans, consult_request rows become the set of agents that asked.     *)
(***************************************************************************)
EXTENDS Naturals

CONSTANTS
    Agents,       \* the agents registered with the platform
    RunIds,       \* identifiers of run rows: bounds how many runs a goal gets
    NoRun,        \* "no run": the empty run_id column
    MaxAttempts   \* maxAttempts (goal.go): attempts of one retry chain

ASSUME RunTableAssumption ==
    /\ Agents # {}
    /\ NoRun \notin RunIds
    /\ MaxAttempts \in Nat \ {0}

Pending == {"queued", "running"}
Ended   == {"completed", "failed", "cancelled"}

(* Roles whose end is judged by the goal layer; sub-goal and verification  *)
(* runs report elsewhere.                                                  *)
Role == {"owner", "consult", "review"}

(* cancel_reason; "" for a run nobody cancelled.                           *)
Reason == {"", "handoff", "stopped", "runaway", "timeout",
           "goal_terminal", "goal_cancelled", "superseded"}

RunRow ==
    [status     : {"none"} \cup Pending \cup Ended,
     role       : Role,
     agent      : Agents,
     leader     : BOOLEAN,         \* is_leader_run
     attempt    : 1..MaxAttempts,
     due        : BOOLEAN,         \* queued_at <= now: the backoff is over
     started    : BOOLEAN,         \* started_at # ''
     reconciled : BOOLEAN,         \* reconciled_at # ''
     reason     : Reason,
     ask        : BOOLEAN,         \* an unanswered ask_human comment of this run
     askers     : SUBSET Agents]   \* requesters of the consult it answers

RunTableType == [RunIds -> RunRow]

NewRun(a, role, leader, attempt) ==
    [status |-> "queued", role |-> role, agent |-> a, leader |-> leader,
     attempt |-> attempt, due |-> TRUE, started |-> FALSE,
     reconciled |-> FALSE, reason |-> "", ask |-> FALSE, askers |-> {}]

(* A row of the table that no INSERT has filled yet.                       *)
BlankRun == [NewRun(CHOOSE a \in Agents : TRUE, "owner", FALSE, 1)
               EXCEPT !.status = "none", !.due = FALSE]

(* Row ids are random (newID): nothing depends on which unused row an      *)
(* INSERT fills, so the model fills one row it chooses.  The set is empty  *)
(* when the bound RunIds is exhausted.                                     *)
Unused(rs) == {r \in RunIds : rs[r].status = "none"}
FreshRow(rs) ==
    IF Unused(rs) = {} THEN {} ELSE {CHOOSE r \in Unused(rs) : TRUE}

(* The pending runs one agent has in one role: each is a distinct request. *)
PendingOf(rs, a, role) ==
    {r \in RunIds : /\ rs[r].status \in Pending
                    /\ rs[r].role = role
                    /\ rs[r].agent = a}

(* A request that coalesces fills no row, so it is not held back when all  *)
(* rows are used.                                                          *)
RowFor(rs, a, role) ==
    IF PendingOf(rs, a, role) = {} THEN FreshRow(rs) ELSE PendingOf(rs, a, role)

(* Mutant of Enqueue: no coalescing.                                       *)
EnqueueAlways(rs, f, a, role, leader, attempt) ==
    [rs EXCEPT ![f] = NewRun(a, role, leader, attempt)]

(***************************************************************************)
(* enqueueTx.  A pending run of the same agent and role absorbs the        *)
(* request: a queued one gets queued_at = now (which also ends a backoff), *)
(* a running one is left alone.  Otherwise row f is inserted.              *)
(***************************************************************************)
Enqueue(rs, f, a, role, leader, attempt) ==
    IF PendingOf(rs, a, role) = {}
      THEN [rs EXCEPT ![f] = NewRun(a, role, leader, attempt)]
      ELSE [r \in RunIds |->
              IF r \in PendingOf(rs, a, role) /\ rs[r].status = "queued"
                THEN [rs[r] EXCEPT !.due = TRUE]
                ELSE rs[r]]

(* UPDATE run SET status='cancelled', cancel_reason=... over a set of rows *)
CancelRuns(rs, S, why) ==
    [r \in RunIds |-> IF r \in S
                        THEN [rs[r] EXCEPT !.status = "cancelled", !.reason = why]
                        ELSE rs[r]]

Queued(rs) == {r \in RunIds : rs[r].status = "queued"}
QueuedOwner(rs) == {r \in Queued(rs) : rs[r].role = "owner"}
RunningOwner(rs) ==
    {r \in RunIds : rs[r].status = "running" /\ rs[r].role = "owner"}

(* Mutant of RequeueRunning: a restart spends an attempt.                  *)
RequeueSpendsAttempt(rs, goalEnded) ==
    [r \in RunIds |->
       IF rs[r].status # "running" THEN rs[r]
       ELSE [rs[r] EXCEPT !.status = "queued", !.started = FALSE,
               !.attempt = IF @ < MaxAttempts THEN @ + 1 ELSE @]]

(***************************************************************************)
(* RecoverStuckRunning at daemon start: running rows of a goal that ended  *)
(* are cancelled, the others go back to the queue with started_at cleared. *)
(* The two statements run before the daemon's loop hands out any work.     *)
(***************************************************************************)
RequeueRunning(rs, goalEnded) ==
    [r \in RunIds |->
       IF rs[r].status # "running" THEN rs[r]
       ELSE IF goalEnded
         THEN [rs[r] EXCEPT !.status = "cancelled", !.reason = "goal_terminal"]
         ELSE [rs[r] EXCEPT !.status = "queued", !.started = FALSE]]

(* Mutant of Unreconciled: failed runs are forgotten.                      *)
UnreconciledCompleted(rs) ==
    {r \in RunIds : ~ rs[r].reconciled /\ rs[r].status = "completed"}

(* The rows ReconcilePendingTerminal replays: ended, not yet reconciled,   *)
(* and not merely cancelled while they were queued.                        *)
Unreconciled(rs) ==
    {r \in RunIds : /\ ~ rs[r].reconciled
                    /\ \/ rs[r].status \in {"completed", "failed"}
                       \/ rs[r].status = "cancelled" /\ rs[r].started}
=============================================================================
