---------------------------- MODULE GoalRunProofs ----------------------------
(***************************************************************************)
(* Theorems about GoalRun, for every set of agents, squads, sessions,      *)
(* deliveries and operations and every bound.                              *)
(*                                                                         *)
(* The argument has layers. Section "Rows" says what one statement does to *)
(* the run table. Section "Tables" shows that every action but Claim and   *)
(* ReturnToQueue changes the table in an orderly way: rows keep what       *)
(* matters, end, or are born beside no pending run of their agent and      *)
(* role. The invariants of the table follow from orderliness alone.        *)
(* HandoffCut, MergeApproved and NoStall relate the table to the goal and  *)
(* its handlers; each has an invariant of its own in a later section.      *)
(***************************************************************************)
EXTENDS GoalRun, TLAPS

-----------------------------------------------------------------------------
(* Rows: what the statements of RunTable preserve, for every table.        *)

(* How one row may change in a step.                                       *)

(* Only bookkeeping columns change.                                        *)
Kept(old, new) ==
    /\ new.status = old.status   /\ new.reason = old.reason
    /\ new.role = old.role       /\ new.agent = old.agent
    /\ new.attempt = old.attempt

(* A pending row goes back to the queue or ends.                           *)
Moved(old, new) ==
    /\ old.status \in Pending    /\ new.status \in Pending \cup Ended
    /\ new.status = "running" => old.status = "running"
    /\ new.role = old.role       /\ new.agent = old.agent
    /\ new.attempt = old.attempt

(* No other pending run has this run's agent and role.                     *)
Alone(rs, r) ==
    \A q \in RunIds : /\ rs[q].status \in Pending
                      /\ rs[q].role = rs[r].role /\ rs[q].agent = rs[r].agent
                      => q = r

(* The attempt of a run is the successor of a failed one.                  *)
Entitled(rs, r) ==
    rs[r].attempt > 1 =>
        \E q \in RunIds : /\ rs[q].status = "failed"
                          /\ rs[q].agent = rs[r].agent
                          /\ rs[q].attempt = rs[r].attempt - 1

Born(rs, rs2, r) ==
    /\ rs[r].status = "none"     /\ rs2[r].status = "queued"
    /\ Alone(rs2, r)             /\ Entitled(rs2, r)

(* No run is born, none begins.                                            *)
Quiet(rs, rs2) ==
    \A r \in RunIds : Kept(rs[r], rs2[r]) \/ Moved(rs[r], rs2[r])

(* Runs may also be born.                                                  *)
Orderly(rs, rs2) ==
    \A r \in RunIds : \/ Kept(rs[r], rs2[r]) \/ Moved(rs[r], rs2[r])
                      \/ Born(rs, rs2, r)

(* Nothing but bookkeeping.                                                *)
Booked(rs, rs2) == \A r \in RunIds : Kept(rs[r], rs2[r])

-----------------------------------------------------------------------------
(* Types.                                                                  *)

(* A row built by the INSERT of enqueueTx has the columns' types.          *)
LEMMA NewRunType ==
    ASSUME NEW a \in Agents, NEW role \in Role, NEW leader \in BOOLEAN,
           NEW attempt \in 1..MaxAttempts
    PROVE  NewRun(a, role, leader, attempt) \in RunRow
  BY DEF NewRun, RunRow, Reason, Pending, Ended

(* An empty table is well typed.                                           *)
LEMMA BlankRunType == BlankRun \in RunRow
<1>1. (CHOOSE a \in Agents : TRUE) \in Agents
  BY RunTableAssumption
<1>2. "owner" \in Role /\ FALSE \in BOOLEAN /\ 1 \in 1..MaxAttempts
  BY RunTableAssumption DEF Role
<1>3. NewRun(CHOOSE a \in Agents : TRUE, "owner", FALSE, 1) \in RunRow
  BY <1>1, <1>2, NewRunType
<1>4. QED
  BY <1>3 DEF BlankRun, RunRow

(* enqueueTx keeps the table well typed.                                   *)
LEMMA EnqueueType ==
    ASSUME NEW rs \in RunTableType, NEW f \in RunIds, NEW a \in Agents,
           NEW role \in Role, NEW leader \in BOOLEAN,
           NEW attempt \in 1..MaxAttempts
    PROVE  Enqueue(rs, f, a, role, leader, attempt) \in RunTableType
<1>1. CASE PendingOf(rs, a, role) = {}
  BY <1>1, NewRunType DEF Enqueue, RunTableType
<1>2. CASE PendingOf(rs, a, role) # {}
  <2>1. \A r \in RunIds : [rs[r] EXCEPT !.due = TRUE] \in RunRow
    BY DEF RunTableType, RunRow
  <2>2. QED
    BY <1>2, <2>1 DEF Enqueue, RunTableType
<1>3. QED
  BY <1>1, <1>2

(* A cancelling UPDATE keeps the table well typed.                         *)
LEMMA CancelType ==
    ASSUME NEW rs \in RunTableType, NEW S, NEW why \in Reason
    PROVE  CancelRuns(rs, S, why) \in RunTableType
<1>1. \A r \in RunIds :
        [rs[r] EXCEPT !.status = "cancelled", !.reason = why] \in RunRow
  BY DEF RunTableType, RunRow, Ended
<1>2. QED
  BY <1>1 DEF CancelRuns, RunTableType

(* The requeue of a restart keeps the table well typed.                    *)
LEMMA RequeueType ==
    ASSUME NEW rs \in RunTableType, NEW ended \in BOOLEAN
    PROVE  RequeueRunning(rs, ended) \in RunTableType
<1>1. \A r \in RunIds :
        /\ [rs[r] EXCEPT !.status = "cancelled", !.reason = "goal_terminal"] \in RunRow
        /\ [rs[r] EXCEPT !.status = "queued", !.started = FALSE] \in RunRow
  BY DEF RunTableType, RunRow, Ended, Pending, Reason
<1>2. QED
  BY <1>1 DEF RequeueRunning, RunTableType

-----------------------------------------------------------------------------
(* Orderly steps.                                                          *)

(* The row an INSERT fills was unused.                                     *)
LEMMA FreshRowUnused ==
    ASSUME NEW rs, NEW f \in FreshRow(rs)
    PROVE  f \in RunIds /\ rs[f].status = "none"
  BY DEF FreshRow, Unused

(* So was the row of a request that does not coalesce.                     *)
LEMMA RowForRow ==
    ASSUME NEW rs, NEW a, NEW role, NEW f \in RowFor(rs, a, role)
    PROVE  f \in RunIds /\ (PendingOf(rs, a, role) = {} => rs[f].status = "none")
  BY DEF RowFor, PendingOf, FreshRow, Unused

(* enqueueTx is orderly: it inserts beside no pending run of that agent    *)
(* and role, and touches no other row but for its queue time.              *)
LEMMA EnqueueOrderly ==
    ASSUME NEW rs \in RunTableType, NEW f \in RunIds,
           NEW a \in Agents, NEW role \in Role, NEW leader \in BOOLEAN,
           PendingOf(rs, a, role) = {} => rs[f].status = "none",
           NEW attempt \in 1..MaxAttempts,
           attempt > 1 =>
             \E q \in RunIds : /\ rs[q].status = "failed" /\ rs[q].agent = a
                               /\ rs[q].attempt = attempt - 1
    PROVE  Orderly(rs, Enqueue(rs, f, a, role, leader, attempt))
<1> DEFINE rs2 == Enqueue(rs, f, a, role, leader, attempt)
<1> HIDE DEF rs2
<1>1. CASE PendingOf(rs, a, role) = {}
  <2>0. rs[f].status = "none"
    BY <1>1
  <2>1. rs2 = [rs EXCEPT ![f] = NewRun(a, role, leader, attempt)]
    BY <1>1 DEF Enqueue, rs2
  <2>2. /\ rs2[f].status = "queued" /\ rs2[f].agent = a
        /\ rs2[f].role = role /\ rs2[f].attempt = attempt
    BY <2>1 DEF NewRun, RunTableType
  <2>3. \A q \in RunIds \ {f} : rs2[q] = rs[q]
    BY <2>1 DEF RunTableType
  <2>4. Alone(rs2, f)
    BY <1>1, <2>2, <2>3 DEF Alone, PendingOf
  <2>5. Entitled(rs2, f)
    BY <2>0, <2>2, <2>3 DEF Entitled
  <2>6. Born(rs, rs2, f)
    BY <2>0, <2>2, <2>4, <2>5 DEF Born
  <2>7. \A q \in RunIds \ {f} : Kept(rs[q], rs2[q])
    BY <2>3 DEF Kept
  <2>8. QED
    BY <2>6, <2>7 DEF Orderly, rs2
<1>2. CASE PendingOf(rs, a, role) # {}
  <2>1. \A q \in RunIds : rs2[q] = rs[q] \/ rs2[q] = [rs[q] EXCEPT !.due = TRUE]
    BY <1>2 DEF Enqueue, rs2
  <2>2. ASSUME NEW q \in RunIds
        PROVE  Kept(rs[q], rs2[q])
    <3>1. CASE rs2[q] = rs[q]
      BY <3>1 DEF Kept
    <3>2. CASE rs2[q] = [rs[q] EXCEPT !.due = TRUE]
      <4>1. rs[q] \in RunRow
        BY DEF RunTableType
      <4>2. QED
        BY <3>2, <4>1 DEF Kept, RunRow
    <3>3. QED
      BY <2>1, <3>1, <3>2
  <2>3. QED
    BY <2>2 DEF Orderly, rs2
<1>3. QED
  BY <1>1, <1>2

(* Cancelling pending rows is quiet.                                       *)
LEMMA CancelQuiet ==
    ASSUME NEW rs \in RunTableType, NEW S, NEW why,
           \A r \in S : r \in RunIds => rs[r].status \in Pending
    PROVE  Quiet(rs, CancelRuns(rs, S, why))
<1> DEFINE rs2 == CancelRuns(rs, S, why)
<1> HIDE DEF rs2
<1> SUFFICES ASSUME NEW r \in RunIds
             PROVE  Kept(rs[r], rs2[r]) \/ Moved(rs[r], rs2[r])
  BY DEF Quiet, rs2
<1>1. CASE r \in S
  <2>1. rs2[r] = [rs[r] EXCEPT !.status = "cancelled", !.reason = why]
    BY <1>1 DEF CancelRuns, rs2
  <2>2. QED
    BY <1>1, <2>1 DEF Moved, RunTableType, RunRow, Ended
<1>2. CASE r \notin S
  BY <1>2 DEF CancelRuns, rs2, Kept
<1>3. QED
  BY <1>1, <1>2

(* The requeue of a restart is quiet.                                      *)
LEMMA RequeueQuiet ==
    ASSUME NEW rs \in RunTableType, NEW ended \in BOOLEAN
    PROVE  Quiet(rs, RequeueRunning(rs, ended))
<1> DEFINE rs2 == RequeueRunning(rs, ended)
<1> HIDE DEF rs2
<1> SUFFICES ASSUME NEW r \in RunIds
             PROVE  Kept(rs[r], rs2[r]) \/ Moved(rs[r], rs2[r])
  BY DEF Quiet, rs2
<1>1. CASE rs[r].status # "running"
  BY <1>1 DEF RequeueRunning, rs2, Kept
<1>2. CASE rs[r].status = "running" /\ ended
  <2>1. rs2[r] = [rs[r] EXCEPT !.status = "cancelled", !.reason = "goal_terminal"]
    BY <1>2 DEF RequeueRunning, rs2
  <2>2. QED
    BY <1>2, <2>1 DEF Moved, RunTableType, RunRow, Pending, Ended
<1>3. CASE rs[r].status = "running" /\ ~ ended
  <2>1. rs2[r] = [rs[r] EXCEPT !.status = "queued", !.started = FALSE]
    BY <1>3 DEF RequeueRunning, rs2
  <2>2. QED
    BY <1>3, <2>1 DEF Moved, RunTableType, RunRow, Pending
<1>4. QED
  BY <1>1, <1>2, <1>3

(* A quiet step is an orderly one.                                         *)
LEMMA QuietOrderly ==
    ASSUME NEW rs, NEW rs2, Quiet(rs, rs2)
    PROVE  Orderly(rs, rs2)
  BY DEF Quiet, Orderly

(* A step that changes bookkeeping only is an orderly one.                 *)
LEMMA BookedOrderly ==
    ASSUME NEW rs, NEW rs2, Booked(rs, rs2)
    PROVE  Orderly(rs, rs2)
  BY DEF Booked, Orderly

(* Rows may be cancelled before one is born ...                            *)
LEMMA QuietThenOrderly ==
    ASSUME NEW rs, NEW mid, NEW rs2, Quiet(rs, mid), Orderly(mid, rs2)
    PROVE  Orderly(rs, rs2)
<1> SUFFICES ASSUME NEW r \in RunIds
             PROVE  \/ Kept(rs[r], rs2[r]) \/ Moved(rs[r], rs2[r])
                    \/ Born(rs, rs2, r)
  BY DEF Orderly
<1>1. Kept(rs[r], mid[r]) \/ Moved(rs[r], mid[r])
  BY DEF Quiet
<1>2. Kept(mid[r], rs2[r]) \/ Moved(mid[r], rs2[r]) \/ Born(mid, rs2, r)
  BY DEF Orderly
<1>3. QED
  BY <1>1, <1>2 DEF Kept, Moved, Born, Pending, Ended

(* ... and the books written afterwards.                                   *)
LEMMA OrderlyThenBooked ==
    ASSUME NEW rs, NEW mid, NEW rs2, Orderly(rs, mid), Booked(mid, rs2)
    PROVE  Orderly(rs, rs2)
<1> SUFFICES ASSUME NEW r \in RunIds
             PROVE  \/ Kept(rs[r], rs2[r]) \/ Moved(rs[r], rs2[r])
                    \/ Born(rs, rs2, r)
  BY DEF Orderly
<1>1. Kept(rs[r], mid[r]) \/ Moved(rs[r], mid[r]) \/ Born(rs, mid, r)
  BY DEF Orderly
<1>2. \A q \in RunIds : Kept(mid[q], rs2[q])
  BY DEF Booked
<1>3. CASE Kept(rs[r], mid[r]) \/ Moved(rs[r], mid[r])
  BY <1>2, <1>3 DEF Kept, Moved
<1>4. CASE Born(rs, mid, r)
  <2>1. Alone(rs2, r)
    BY <1>2, <1>4 DEF Kept, Born, Alone
  <2>2. Entitled(rs2, r)
    BY <1>2, <1>4 DEF Kept, Born, Entitled
  <2>3. QED
    BY <1>2, <1>4, <2>1, <2>2 DEF Kept, Born
<1>5. QED
  BY <1>1, <1>3, <1>4

-----------------------------------------------------------------------------
(* The writers: the owner runs that are running, as rows of the table.     *)

(* An orderly step starts no writer.                                       *)
LEMMA OrderlyWriters ==
    ASSUME NEW rs, NEW rs2, Orderly(rs, rs2)
    PROVE  RunningOwner(rs2) \subseteq RunningOwner(rs)
  BY DEF Orderly, Kept, Moved, Born, RunningOwner

(* Bookkeeping leaves the writers alone.                                   *)
LEMMA BookedWriters ==
    ASSUME NEW rs, NEW rs2, Booked(rs, rs2)
    PROVE  RunningOwner(rs2) = RunningOwner(rs)
  BY DEF Booked, Kept, RunningOwner

(* enqueueTx leaves the writers alone.                                     *)
LEMMA EnqueueWriters ==
    ASSUME NEW rs \in RunTableType, NEW f \in RunIds,
           NEW a \in Agents, NEW role \in Role, NEW leader \in BOOLEAN,
           PendingOf(rs, a, role) = {} => rs[f].status = "none",
           NEW attempt \in 1..MaxAttempts
    PROVE  RunningOwner(Enqueue(rs, f, a, role, leader, attempt)) = RunningOwner(rs)
<1> DEFINE rs2 == Enqueue(rs, f, a, role, leader, attempt)
<1> HIDE DEF rs2
<1>1. CASE PendingOf(rs, a, role) = {}
  <2>1. rs2 = [rs EXCEPT ![f] = NewRun(a, role, leader, attempt)]
    BY <1>1 DEF Enqueue, rs2
  <2>2. rs2[f].status = "queued" /\ \A q \in RunIds \ {f} : rs2[q] = rs[q]
    BY <2>1 DEF NewRun, RunTableType
  <2>3. QED
    BY <1>1, <2>2 DEF RunningOwner, rs2
<1>2. CASE PendingOf(rs, a, role) # {}
  <2>1. \A q \in RunIds : rs2[q] = rs[q] \/ rs2[q] = [rs[q] EXCEPT !.due = TRUE]
    BY <1>2 DEF Enqueue, rs2
  <2>2. \A q \in RunIds : rs2[q].status = rs[q].status /\ rs2[q].role = rs[q].role
    BY <2>1 DEF RunTableType, RunRow
  <2>3. QED
    BY <2>2 DEF RunningOwner, rs2
<1>3. QED
  BY <1>1, <1>2

(* Cancelling rows that are not running owner rows leaves the writers.     *)
LEMMA CancelWriters ==
    ASSUME NEW rs \in RunTableType, NEW S, NEW why,
           S \cap RunningOwner(rs) = {}
    PROVE  RunningOwner(CancelRuns(rs, S, why)) = RunningOwner(rs)
<1> DEFINE rs2 == CancelRuns(rs, S, why)
<1> HIDE DEF rs2
<1>1. \A r \in RunIds \cap S :
         rs2[r] = [rs[r] EXCEPT !.status = "cancelled", !.reason = why]
  BY DEF CancelRuns, rs2
<1>2. \A r \in RunIds \cap S : rs2[r].status = "cancelled"
  BY <1>1 DEF RunTableType, RunRow
<1>3. \A r \in RunIds \ S : rs2[r] = rs[r]
  BY DEF CancelRuns, rs2
<1>4. QED
  BY <1>2, <1>3 DEF RunningOwner, rs2

-----------------------------------------------------------------------------
(* The goal: what an action of GoalRun does.                               *)

(* A session that will use an agent or a row it read really read one.      *)
SessionOK ==
    \A s \in Sessions :
        /\ sess[s].pc = "record" => sess[s].owner \in Agents /\ sess[s].key \in RunIds
        /\ sess[s].pc \in {"continue", "reply"} => sess[s].owner # Human

(* TypeOK is not inductive by itself: WakeOwner and RecordConsult use what *)
(* their session carries.                                                  *)
TypeInv == TypeOK /\ SessionOK

(* What an orderly action does to the table.                               *)
TableStep == run' \in RunTableType /\ Orderly(run, run')

-----------------------------------------------------------------------------
(* Statements on the table, as GoalRun uses them.                          *)

(* The agent of an assignee is an agent unless the assignee is human.      *)
LEMMA AgentOfType ==
    ASSUME NEW o \in Owners, o # Human
    PROVE  AgentOf(o) \in Agents
  BY GoalRunAssumption DEF Owners, AgentOf

(* An owner run for any assignee: typed, orderly, and no writer changes.   *)
LEMMA EnqueueOwnerTable ==
    ASSUME NEW rs \in RunTableType, NEW f \in RunIds, rs[f].status = "none",
           NEW o \in Owners
    PROVE  /\ EnqueueOwner(rs, f, o) \in RunTableType
           /\ Orderly(rs, EnqueueOwner(rs, f, o))
           /\ RunningOwner(EnqueueOwner(rs, f, o)) = RunningOwner(rs)
<1>1. CASE o = Human
  <2>1. EnqueueOwner(rs, f, o) = rs
    BY <1>1 DEF EnqueueOwner
  <2>2. Orderly(rs, rs)
    BY DEF Orderly, Kept
  <2>3. QED
    BY <2>1, <2>2
<1>2. CASE o # Human
  <2> DEFINE leader == o \in Squads
  <2>1. EnqueueOwner(rs, f, o) = Enqueue(rs, f, AgentOf(o), "owner", leader, 1)
    BY <1>2 DEF EnqueueOwner
  <2>2. AgentOf(o) \in Agents
    BY <1>2, AgentOfType
  <2>3. "owner" \in Role /\ leader \in BOOLEAN /\ 1 \in 1..MaxAttempts /\ ~ (1 > 1)
    BY RunTableAssumption DEF Role
  <2> HIDE DEF leader
  <2>4. Enqueue(rs, f, AgentOf(o), "owner", leader, 1) \in RunTableType
    BY <2>2, <2>3, EnqueueType
  <2>5. Orderly(rs, Enqueue(rs, f, AgentOf(o), "owner", leader, 1))
    BY <2>2, <2>3, EnqueueOrderly
  <2>6. RunningOwner(Enqueue(rs, f, AgentOf(o), "owner", leader, 1)) = RunningOwner(rs)
    BY <2>2, <2>3, EnqueueWriters
  <2>7. QED
    BY <2>1, <2>4, <2>5, <2>6
<1>3. QED
  BY <1>1, <1>2

(* The reconcile stamp is bookkeeping.                                     *)
LEMMA StampedTable ==
    ASSUME NEW rs \in RunTableType, NEW r \in RunIds
    PROVE  Stamped(rs, r) \in RunTableType /\ Booked(rs, Stamped(rs, r))
<1>1. rs[r] \in RunRow /\ [rs[r] EXCEPT !.reconciled = TRUE] \in RunRow
  BY DEF RunTableType, RunRow
<1>2. Stamped(rs, r) \in RunTableType
  BY <1>1 DEF Stamped, RunTableType
<1>3. \A q \in RunIds : \/ Stamped(rs, r)[q] = rs[q]
                        \/ /\ rs[q] \in RunRow
                           /\ Stamped(rs, r)[q] = [rs[q] EXCEPT !.reconciled = TRUE]
  BY <1>1 DEF Stamped, RunTableType
<1>4. \A q \in RunIds : Kept(rs[q], Stamped(rs, r)[q])
  BY <1>3 DEF Kept, RunRow
<1>5. QED
  BY <1>2, <1>4 DEF Booked

(* The stamp after an orderly change, in the same transaction.             *)
LEMMA StampedAfter ==
    ASSUME NEW rs \in RunTableType, NEW mid \in RunTableType, NEW r \in RunIds,
           Orderly(rs, mid)
    PROVE  /\ Stamped(mid, r) \in RunTableType
           /\ Orderly(rs, Stamped(mid, r))
           /\ RunningOwner(Stamped(mid, r)) = RunningOwner(mid)
<1>1. Stamped(mid, r) \in RunTableType /\ Booked(mid, Stamped(mid, r))
  BY StampedTable
<1>2. Orderly(rs, Stamped(mid, r))
  BY <1>1, OrderlyThenBooked
<1>3. RunningOwner(Stamped(mid, r)) = RunningOwner(mid)
  BY <1>1, BookedWriters
<1>4. QED
  BY <1>1, <1>2, <1>3

(* Cancelling queued rows: typed, quiet, and no writer changes.            *)
LEMMA CancelQueuedTable ==
    ASSUME NEW rs \in RunTableType, NEW S, S \subseteq Queued(rs), NEW why \in Reason
    PROVE  /\ CancelRuns(rs, S, why) \in RunTableType
           /\ Quiet(rs, CancelRuns(rs, S, why))
           /\ RunningOwner(CancelRuns(rs, S, why)) = RunningOwner(rs)
<1>1. CancelRuns(rs, S, why) \in RunTableType
  BY CancelType
<1>2. \A r \in S : r \in RunIds => rs[r].status \in Pending
  BY DEF Queued, Pending
<1>3. S \cap RunningOwner(rs) = {}
  BY DEF Queued, RunningOwner
<1>4. Quiet(rs, CancelRuns(rs, S, why))
  BY <1>2, CancelQuiet
<1>5. RunningOwner(CancelRuns(rs, S, why)) = RunningOwner(rs)
  BY <1>3, CancelWriters
<1>6. QED
  BY <1>1, <1>4, <1>5

(* Cancelling running rows is orderly too, and only stops writers.         *)
LEMMA CancelPendingTable ==
    ASSUME NEW rs \in RunTableType, NEW S, NEW why \in Reason,
           \A r \in S : r \in RunIds /\ rs[r].status \in Pending
    PROVE  /\ CancelRuns(rs, S, why) \in RunTableType
           /\ Orderly(rs, CancelRuns(rs, S, why))
<1>1. CancelRuns(rs, S, why) \in RunTableType
  BY CancelType
<1>2. Quiet(rs, CancelRuns(rs, S, why))
  BY CancelQuiet
<1>3. QED
  BY <1>1, <1>2, QuietOrderly

(* A cancelled row keeps an unused row unused.                             *)
LEMMA CancelUnused ==
    ASSUME NEW rs \in RunTableType, NEW S, NEW why, NEW f \in RunIds,
           rs[f].status = "none", \A r \in S : rs[r].status # "none"
    PROVE  CancelRuns(rs, S, why)[f].status = "none"
  BY DEF CancelRuns

-----------------------------------------------------------------------------
(* Tables: what each action does to the run table.                         *)

(* Activate, Assign and the actions of a session that spawn an owner run.  *)
LEMMA ActivateTable ==
    ASSUME TypeInv, Activate
    PROVE  TableStep /\ RunningOwner(run') = RunningOwner(run)
<1>1. PICK f \in FreshRow(run) : run' = EnqueueOwner(run, f, owner)
  BY DEF Activate
<1>2. f \in RunIds /\ run[f].status = "none"
  BY FreshRowUnused
<1>3. run \in RunTableType /\ owner \in Owners
  BY DEF TypeInv, TypeOK
<1>4. QED
  BY <1>1, <1>2, <1>3, EnqueueOwnerTable DEF TableStep

(* A handoff drops the queued intents and inserts the successor's run.     *)
LEMMA AssignTable ==
    ASSUME TypeInv, NEW o \in Owners, Assign(o)
    PROVE  TableStep /\ RunningOwner(run') = RunningOwner(run)
<1> DEFINE dropped == CancelRuns(run, QueuedOwner(run), "handoff")
<1>1. run \in RunTableType
  BY DEF TypeInv, TypeOK
<1>2. /\ dropped \in RunTableType /\ Quiet(run, dropped)
      /\ RunningOwner(dropped) = RunningOwner(run)
  <2>1. QueuedOwner(run) \subseteq Queued(run)
    BY DEF QueuedOwner
  <2>2. "handoff" \in Reason
    BY DEF Reason
  <2>3. QED
    BY <1>1, <2>1, <2>2, CancelQueuedTable
<1>3. \/ run' = dropped
      \/ \E f \in FreshRow(run) : run' = EnqueueOwner(dropped, f, o)
  BY DEF Assign
<1> HIDE DEF dropped
<1>4. CASE run' = dropped
  BY <1>2, <1>4, QuietOrderly DEF TableStep
<1>5. CASE \E f \in FreshRow(run) : run' = EnqueueOwner(dropped, f, o)
  <2>1. PICK f \in FreshRow(run) : run' = EnqueueOwner(dropped, f, o)
    BY <1>5
  <2>2. f \in RunIds /\ run[f].status = "none"
    BY FreshRowUnused
  <2>3. \A r \in QueuedOwner(run) : run[r].status # "none"
    BY DEF QueuedOwner, Queued
  <2>4. dropped[f].status = "none"
    BY <1>1, <2>2, <2>3, CancelUnused DEF dropped
  <2>5. /\ EnqueueOwner(dropped, f, o) \in RunTableType
        /\ Orderly(dropped, EnqueueOwner(dropped, f, o))
        /\ RunningOwner(EnqueueOwner(dropped, f, o)) = RunningOwner(dropped)
    BY <1>2, <2>2, <2>4, EnqueueOwnerTable
  <2>6. QED
    BY <1>2, <2>1, <2>5, QuietThenOrderly DEF TableStep
<1>6. QED
  BY <1>3, <1>4, <1>5

(* A reject queues the next run, or changes nothing.                       *)
LEMMA RejectReviewTable ==
    ASSUME TypeInv, NEW s \in Sessions, RejectReview(s)
    PROVE  TableStep /\ RunningOwner(run') = RunningOwner(run)
<1>1. run \in RunTableType /\ sess[s].owner \in Owners
  BY DEF TypeInv, TypeOK, Session
<1>2. CASE run' = run
  BY <1>1, <1>2, BookedOrderly DEF TableStep, Booked, Kept
<1>3. CASE \E f \in FreshRow(run) : run' = EnqueueOwner(run, f, sess[s].owner)
  BY <1>1, <1>3, FreshRowUnused, EnqueueOwnerTable DEF TableStep
<1>4. QED
  BY <1>2, <1>3 DEF RejectReview

(* A relaunch supersedes review runs before the owner run is born.         *)
LEMMA RestartGoalTable ==
    ASSUME TypeInv, NEW s \in Sessions, RestartGoal(s)
    PROVE  TableStep /\ RunningOwner(run') = RunningOwner(run)
<1> DEFINE stale == {r \in RunIds : /\ sess[s].pc = "relaunch"
                                    /\ run[r].role = "review"
                                    /\ run[r].status \in Pending}
           mid == CancelRuns(run, stale, "superseded")
<1>1. run \in RunTableType /\ sess[s].owner \in Owners
  BY DEF TypeInv, TypeOK, Session
<1>2. PICK f \in FreshRow(run) : run' = EnqueueOwner(mid, f, sess[s].owner)
  BY DEF RestartGoal
<1>3. f \in RunIds /\ run[f].status = "none"
  BY FreshRowUnused
<1>4. \A r \in stale : r \in RunIds /\ run[r].status \in Pending
  OBVIOUS
<1>5. "superseded" \in Reason
  BY DEF Reason
<1>6. stale \cap RunningOwner(run) = {}
  BY DEF RunningOwner
<1>7. \A r \in stale : run[r].status # "none"
  BY DEF Pending
<1> HIDE DEF stale
<1>8. mid \in RunTableType
  BY <1>1, <1>5, CancelType
<1>9. Quiet(run, mid)
  BY <1>1, <1>4, CancelQuiet
<1>10. RunningOwner(mid) = RunningOwner(run)
  BY <1>1, <1>6, CancelWriters
<1>11. mid[f].status = "none"
  BY <1>1, <1>3, <1>7, CancelUnused
<1> HIDE DEF mid
<1>12. QED
  BY <1>1, <1>2, <1>3, <1>8, <1>9, <1>10, <1>11, EnqueueOwnerTable, QuietThenOrderly
     DEF TableStep

(* A reply or a continue queues a run of the owner that was read.          *)
LEMMA WakeOwnerTable ==
    ASSUME TypeInv, NEW s \in Sessions, WakeOwner(s)
    PROVE  TableStep /\ RunningOwner(run') = RunningOwner(run)
<1> DEFINE leader == sess[s].owner \in Squads /\ sess[s].pc = "continue"
           a == AgentOf(sess[s].owner)
<1>1. PICK f \in FreshRow(run) : run' = Enqueue(run, f, a, "owner", leader, 1)
  BY DEF WakeOwner
<1>2. f \in RunIds /\ run[f].status = "none"
  BY FreshRowUnused
<1>3. run \in RunTableType
  BY DEF TypeInv, TypeOK
<1>4. a \in Agents
  BY AgentOfType DEF TypeInv, TypeOK, SessionOK, Session, WakeOwner
<1>5. "owner" \in Role /\ leader \in BOOLEAN /\ 1 \in 1..MaxAttempts /\ ~ (1 > 1)
  BY RunTableAssumption DEF Role
<1> HIDE DEF leader, a
<1>6. run' \in RunTableType
  BY <1>1, <1>2, <1>3, <1>4, <1>5, EnqueueType
<1>7. Orderly(run, run')
  BY <1>1, <1>2, <1>3, <1>4, <1>5, EnqueueOrderly
<1>8. RunningOwner(run') = RunningOwner(run)
  BY <1>1, <1>2, <1>3, <1>4, <1>5, EnqueueWriters
<1>9. QED
  BY <1>6, <1>7, <1>8 DEF TableStep

(* A consult asked by an agent or by a human.                              *)
LEMMA ConsultTable ==
    ASSUME TypeInv, NEW a \in Agents, NEW f \in RowFor(run, a, "consult"),
           run' = Enqueue(run, f, a, "consult", FALSE, 1)
    PROVE  TableStep /\ RunningOwner(run') = RunningOwner(run)
<1>2. f \in RunIds /\ (PendingOf(run, a, "consult") = {} => run[f].status = "none")
  BY RowForRow
<1>3. run \in RunTableType
  BY DEF TypeInv, TypeOK
<1>4. "consult" \in Role /\ FALSE \in BOOLEAN /\ 1 \in 1..MaxAttempts /\ ~ (1 > 1)
  BY RunTableAssumption DEF Role
<1>5. run' \in RunTableType
  BY <1>2, <1>3, <1>4, EnqueueType
<1>6. Orderly(run, run')
  BY <1>2, <1>3, <1>4, EnqueueOrderly
<1>7. RunningOwner(run') = RunningOwner(run)
  BY <1>2, <1>3, <1>4, EnqueueWriters
<1>8. QED
  BY <1>5, <1>6, <1>7 DEF TableStep

(* A reconcile that only stamps the row.                                   *)
LEMMA StampTable ==
    ASSUME TypeInv, NEW r \in RunIds, run' = Stamped(run, r)
    PROVE  TableStep /\ RunningOwner(run') = RunningOwner(run)
<1>1. run \in RunTableType
  BY DEF TypeInv, TypeOK
<1>2. Orderly(run, run)
  BY DEF Orderly, Kept
<1>3. QED
  BY <1>1, <1>2, StampedAfter DEF TableStep

(* A guest's end stamps its row and may resume its requester.              *)
LEMMA DiscardGuestTable ==
    ASSUME TypeInv, NEW r \in RunIds, DiscardGuest(r)
    PROVE  TableStep /\ RunningOwner(run') = RunningOwner(run)
<1>1. run \in RunTableType /\ run[r].askers \subseteq Agents
  BY DEF TypeInv, TypeOK, RunTableType, RunRow
<1>2. \/ run' = Stamped(run, r)
      \/ \E a \in run[r].askers : \E f \in FreshRow(run) :
           run' = Stamped(Enqueue(run, f, a, "owner", FALSE, 1), r)
  BY DEF DiscardGuest
<1>3. CASE run' = Stamped(run, r)
  BY <1>3, StampTable
<1>4. CASE \E a \in run[r].askers : \E f \in FreshRow(run) :
             run' = Stamped(Enqueue(run, f, a, "owner", FALSE, 1), r)
  <2>1. PICK a \in run[r].askers, f \in FreshRow(run) :
          run' = Stamped(Enqueue(run, f, a, "owner", FALSE, 1), r)
    BY <1>4
  <2>2. a \in Agents /\ f \in RunIds /\ run[f].status = "none"
    BY <1>1, FreshRowUnused
  <2> DEFINE mid == Enqueue(run, f, a, "owner", FALSE, 1)
  <2>3. "owner" \in Role /\ FALSE \in BOOLEAN /\ 1 \in 1..MaxAttempts /\ ~ (1 > 1)
    BY RunTableAssumption DEF Role
  <2>4. mid \in RunTableType
    BY <1>1, <2>2, <2>3, EnqueueType
  <2>5. Orderly(run, mid)
    BY <1>1, <2>2, <2>3, EnqueueOrderly
  <2>6. RunningOwner(mid) = RunningOwner(run)
    BY <1>1, <2>2, <2>3, EnqueueWriters
  <2>7. run' = Stamped(mid, r)
    BY <2>1
  <2> HIDE DEF mid
  <2>8. QED
    BY <1>1, <2>4, <2>5, <2>6, <2>7, StampedAfter DEF TableStep
<1>5. QED
  BY <1>2, <1>3, <1>4

(* A park stamps the row and may queue the reviewer's run.                 *)
LEMMA ParkInReviewTable ==
    ASSUME TypeInv, NEW r \in RunIds, ParkInReview(r)
    PROVE  TableStep /\ RunningOwner(run') = RunningOwner(run)
<1> DEFINE reviewer == IF owner \in Squads THEN Reviewer[owner] ELSE NoAgent
<1>1. run \in RunTableType
  BY DEF TypeInv, TypeOK
<1>2. \/ run' = Stamped(run, r)
      \/ /\ reviewer # NoAgent
         /\ \E f \in FreshRow(run) :
              run' = Stamped(Enqueue(run, f, reviewer, "review", FALSE, 1), r)
  BY DEF ParkInReview
<1>3. CASE run' = Stamped(run, r)
  BY <1>3, StampTable
<1>4. ASSUME reviewer # NoAgent,
             NEW f \in FreshRow(run),
             run' = Stamped(Enqueue(run, f, reviewer, "review", FALSE, 1), r)
      PROVE  TableStep /\ RunningOwner(run') = RunningOwner(run)
  <2>1. reviewer \in Agents
    BY <1>4, GoalRunAssumption
  <2> HIDE DEF reviewer
  <2>2. f \in RunIds /\ run[f].status = "none"
    BY FreshRowUnused
  <2> DEFINE mid == Enqueue(run, f, reviewer, "review", FALSE, 1)
  <2>3. "review" \in Role /\ FALSE \in BOOLEAN /\ 1 \in 1..MaxAttempts /\ ~ (1 > 1)
    BY RunTableAssumption DEF Role
  <2>4. mid \in RunTableType
    BY <1>1, <2>1, <2>2, <2>3, EnqueueType
  <2>5. Orderly(run, mid)
    BY <1>1, <2>1, <2>2, <2>3, EnqueueOrderly
  <2>6. RunningOwner(mid) = RunningOwner(run)
    BY <1>1, <2>1, <2>2, <2>3, EnqueueWriters
  <2>7. run' = Stamped(mid, r)
    BY <1>4
  <2> HIDE DEF mid
  <2>8. QED
    BY <1>1, <2>4, <2>5, <2>6, <2>7, StampedAfter DEF TableStep
<1>5. QED
  BY <1>2, <1>3, <1>4

(* The goal ends: its queued runs are cancelled and the row is stamped.    *)
LEMMA GoalEndsTable ==
    ASSUME TypeInv, NEW r \in RunIds, PromoteDone(r) \/ FailGoal(r)
    PROVE  TableStep /\ RunningOwner(run') = RunningOwner(run)
<1> DEFINE mid == CancelRuns(run, Queued(run), "goal_terminal")
<1>1. run \in RunTableType /\ "goal_terminal" \in Reason
  BY DEF TypeInv, TypeOK, Reason
<1>2. run' = Stamped(mid, r)
  BY DEF PromoteDone, FailGoal
<1>3. /\ mid \in RunTableType /\ Quiet(run, mid)
      /\ RunningOwner(mid) = RunningOwner(run)
  BY <1>1, CancelQueuedTable
<1> HIDE DEF mid
<1>4. QED
  BY <1>1, <1>2, <1>3, QuietOrderly, StampedAfter DEF TableStep

(* A retry inserts the next attempt beside the failed one and dates it.    *)
LEMMA RetryRunTable ==
    ASSUME TypeInv, NEW r \in RunIds, RetryRun(r)
    PROVE  TableStep /\ RunningOwner(run') = RunningOwner(run)
<1> DEFINE a == run[r].agent
           attempt == run[r].attempt + 1
           leader == run[r].leader
<1>1. run \in RunTableType
  BY DEF TypeInv, TypeOK
<1>2. /\ a \in Agents /\ leader \in BOOLEAN /\ run[r].attempt \in 1..MaxAttempts
      /\ run[r].status = "failed" /\ run[r].attempt < MaxAttempts
  BY <1>1 DEF RetryRun, Judged, RunTableType, RunRow
<1>3. attempt \in 1..MaxAttempts /\ run[r].attempt = attempt - 1 /\ "owner" \in Role
  BY <1>2, RunTableAssumption DEF Role
<1>4. \E q \in RunIds : /\ run[q].status = "failed" /\ run[q].agent = a
                        /\ run[q].attempt = attempt - 1
  BY <1>2, <1>3
<1>5. PICK f \in FreshRow(run) :
        LET next == Enqueue(run, f, a, "owner", leader, attempt)
        IN  run' = Stamped([g \in RunIds |->
                      IF g \in PendingOf(next, a, "owner")
                        THEN [next[g] EXCEPT !.due = FALSE] ELSE next[g]], r)
  BY DEF RetryRun
<1> DEFINE next == Enqueue(run, f, a, "owner", leader, attempt)
           later == [g \in RunIds |->
                       IF g \in PendingOf(next, a, "owner")
                         THEN [next[g] EXCEPT !.due = FALSE] ELSE next[g]]
<1>6. f \in RunIds /\ run[f].status = "none"
  BY FreshRowUnused
<1>7. run' = Stamped(later, r)
  BY <1>5
<1> HIDE DEF a, attempt, leader
<1>8. next \in RunTableType
  BY <1>1, <1>2, <1>3, <1>6, EnqueueType
<1>9. Orderly(run, next)
  BY <1>1, <1>2, <1>3, <1>4, <1>6, EnqueueOrderly
<1>10. RunningOwner(next) = RunningOwner(run)
  BY <1>1, <1>2, <1>3, <1>6, EnqueueWriters
<1> HIDE DEF next
<1>11. \A g \in RunIds : next[g] \in RunRow /\ [next[g] EXCEPT !.due = FALSE] \in RunRow
  BY <1>8 DEF RunTableType, RunRow
<1>12. later \in RunTableType
  BY <1>11 DEF RunTableType
<1>13. Booked(next, later)
  <2>1. \A g \in RunIds : \/ later[g] = next[g]
                          \/ later[g] = [next[g] EXCEPT !.due = FALSE]
    OBVIOUS
  <2>2. \A g \in RunIds : Kept(next[g], later[g])
    BY <1>11, <2>1 DEF Kept, RunRow
  <2>3. QED
    BY <2>2 DEF Booked
<1> HIDE DEF later
<1>14. Orderly(run, later) /\ RunningOwner(later) = RunningOwner(next)
  BY <1>9, <1>13, OrderlyThenBooked, BookedWriters
<1>15. QED
  BY <1>1, <1>7, <1>10, <1>12, <1>14, StampedAfter DEF TableStep

(* All outcomes of a reconcile.                                            *)
LEMMA ReconcileTable ==
    ASSUME TypeInv, NEW r \in RunIds, ReconcileOnRunEnd(r)
    PROVE  TableStep /\ RunningOwner(run') = RunningOwner(run)
<1>1. CASE DiscardGuest(r)
  BY <1>1, DiscardGuestTable
<1>2. CASE DiscardCancelled(r) \/ HoldActive(r) \/ NoteCancelled(r)
  BY <1>2, StampTable DEF DiscardCancelled, HoldActive, NoteCancelled
<1>3. CASE ParkInReview(r)
  BY <1>3, ParkInReviewTable
<1>4. CASE PromoteDone(r) \/ FailGoal(r)
  BY <1>4, GoalEndsTable
<1>5. CASE RetryRun(r)
  BY <1>5, RetryRunTable
<1>6. QED
  BY <1>1, <1>2, <1>3, <1>4, <1>5 DEF ReconcileOnRunEnd

(* A row's bookkeeping columns are written: nothing the invariants read.   *)
LEMMA BookTable ==
    ASSUME TypeInv, run' \in RunTableType,
           \A q \in RunIds : \/ run'[q] = run[q]
                             \/ run'[q] = [run[q] EXCEPT !.due = TRUE]
                             \/ run'[q] = [run[q] EXCEPT !.ask = TRUE]
                             \/ run'[q] = [run[q] EXCEPT !.ask = FALSE]
                             \/ \E S : run'[q] = [run[q] EXCEPT !.askers = S]
    PROVE  TableStep /\ Booked(run, run') /\ RunningOwner(run') = RunningOwner(run)
<1>1. \A q \in RunIds : run[q] \in RunRow
  BY DEF TypeInv, TypeOK, RunTableType
<1>2. \A q \in RunIds : Kept(run[q], run'[q])
  BY <1>1 DEF Kept, RunRow
<1>3. QED
  BY <1>2, BookedOrderly, BookedWriters DEF TableStep, Booked

(* A backoff that ends and a question change no column that matters.       *)
LEMMA BookRunTable ==
    ASSUME TypeInv,
           NEW r \in RunIds, BackoffOver(r) \/ AskHuman(r)
    PROVE  TableStep /\ Booked(run, run') /\ RunningOwner(run') = RunningOwner(run)
<1>1. run \in RunTableType /\ run[r] \in RunRow
  BY DEF TypeInv, TypeOK, RunTableType
<1>2. CASE BackoffOver(r)
  <2>1. run' = [run EXCEPT ![r] = [run[r] EXCEPT !.due = TRUE]]
    BY <1>2 DEF BackoffOver
  <2>2. [run[r] EXCEPT !.due = TRUE] \in RunRow
    BY <1>1 DEF RunRow
  <2>3. QED
    BY <1>1, <2>1, <2>2, BookTable DEF RunTableType
<1>3. CASE AskHuman(r)
  <2>1. run' = [run EXCEPT ![r] = [run[r] EXCEPT !.ask = TRUE]]
    BY <1>3 DEF AskHuman
  <2>2. [run[r] EXCEPT !.ask = TRUE] \in RunRow
    BY <1>1 DEF RunRow
  <2>3. QED
    BY <1>1, <2>1, <2>2, BookTable DEF RunTableType
<1>4. QED
  BY <1>2, <1>3

(* Nor do an answer and the name of a consult's requester.                 *)
LEMMA BookSessionTable ==
    ASSUME TypeInv, NEW s \in Sessions,
           RecordConsult(s) \/ \E r \in RunIds : Reply(s, r)
    PROVE  TableStep /\ Booked(run, run') /\ RunningOwner(run') = RunningOwner(run)
<1>1. run \in RunTableType
  BY DEF TypeInv, TypeOK
<1>2. ASSUME NEW r \in RunIds, Reply(s, r)
      PROVE  TableStep /\ Booked(run, run') /\ RunningOwner(run') = RunningOwner(run)
  <2> run[r] \in RunRow
    BY <1>1 DEF RunTableType
  <2>1. run' = [run EXCEPT ![r] = [run[r] EXCEPT !.ask = FALSE]]
    BY <1>2 DEF Reply
  <2>2. [run[r] EXCEPT !.ask = FALSE] \in RunRow
    BY <1>1 DEF RunRow
  <2>3. QED
    BY <1>1, <2>1, <2>2, BookTable DEF RunTableType
<1>3. CASE RecordConsult(s)
  <2> DEFINE k == sess[s].key
             S == run[k].askers \cup {sess[s].owner}
  <2>1. k \in RunIds /\ sess[s].owner \in Agents
    BY <1>3 DEF TypeInv, SessionOK, RecordConsult
  <2>2. run[k] \in RunRow
    BY <2>1 DEF TypeInv, TypeOK, RunTableType
  <2>3. run' = [run EXCEPT ![k] = [run[k] EXCEPT !.askers = S]]
    BY <1>3 DEF RecordConsult
  <2>4. S \subseteq Agents
    BY <2>1, <2>2 DEF RunRow
  <2> HIDE DEF S, k
  <2>5. [run[k] EXCEPT !.askers = S] \in RunRow
    BY <2>2, <2>4 DEF RunRow
  <2>6. QED
    BY <1>1, <2>1, <2>3, <2>5, BookTable DEF RunTableType
<1>4. QED
  BY <1>2, <1>3

(* A pending row ends, by a report or by a stamp.                          *)
LEMMA FinishTable ==
    ASSUME TypeInv, NEW r \in RunIds, NEW outcome \in Ended, Finish(r, outcome)
    PROVE  TableStep
<1> DEFINE why == IF outcome = "cancelled" THEN "timeout" ELSE run[r].reason
<1>1. run \in RunTableType /\ run[r] \in RunRow
  BY DEF TypeInv, TypeOK, RunTableType
<1>2. run' = [run EXCEPT ![r] = [run[r] EXCEPT !.status = outcome, !.reason = why]]
  BY <1>1 DEF Finish, RunTableType, RunRow
<1>3. why \in Reason
  BY <1>1 DEF Reason, RunRow
<1> HIDE DEF why
<1>4. [run[r] EXCEPT !.status = outcome, !.reason = why] \in RunRow
  BY <1>1, <1>3 DEF RunRow
<1>5. run' \in RunTableType
  BY <1>1, <1>2, <1>4 DEF RunTableType
<1>6. run[r].status = "running" /\ outcome # "running"
  BY DEF Finish, Executing, Ended
<1>7. Moved(run[r], run'[r])
  BY <1>1, <1>2, <1>6 DEF Moved, Pending, RunTableType, RunRow
<1>8. \A q \in RunIds \ {r} : Kept(run[q], run'[q])
  BY <1>1, <1>2 DEF Kept, RunTableType
<1>9. QED
  BY <1>5, <1>7, <1>8 DEF TableStep, Orderly

(* A stamp over pending rows is orderly, whatever its reason.              *)
LEMMA StampedCancelledTable ==
    ASSUME TypeInv, NEW S, NEW why \in Reason,
           \A r \in S : r \in RunIds /\ run[r].status \in Pending,
           run' = CancelRuns(run, S, why)
    PROVE  TableStep
  BY CancelPendingTable DEF TypeInv, TypeOK, TableStep

(* Stops, runaway kills, handoff cuts and sweeps only stamp pending rows.  *)
LEMMA StopTable ==
    ASSUME TypeInv,
           \/ \E r \in RunIds : StopRun(r) \/ ReapRunaway(r)
           \/ \E e \in cuts : CutOldOwner(e)
           \/ \E s \in Sessions : SweepQueued(s)
    PROVE  TableStep
<1>1. {"stopped", "runaway", "handoff", "goal_cancelled", "goal_terminal"} \subseteq Reason
  BY DEF Reason
<1>2. ASSUME NEW r \in RunIds, StopRun(r)
      PROVE  TableStep
  BY <1>1, <1>2, StampedCancelledTable DEF StopRun
<1>3. ASSUME NEW r \in RunIds, ReapRunaway(r)
      PROVE  TableStep
  BY <1>1, <1>3, StampedCancelledTable DEF ReapRunaway, Pending
<1>4. ASSUME NEW e \in cuts, CutOldOwner(e)
      PROVE  TableStep
  <2> DEFINE S == {r \in RunningOwner(run) :
                      e.owner = Human \/ run[r].agent # AgentOf(e.owner)}
  <2>1. run' = CancelRuns(run, S, "handoff")
    BY <1>4 DEF CutOldOwner
  <2>2. \A r \in S : r \in RunIds /\ run[r].status \in Pending
    BY DEF RunningOwner, Pending
  <2> HIDE DEF S
  <2>3. QED
    BY <1>1, <2>1, <2>2, StampedCancelledTable
<1>5. ASSUME NEW s \in Sessions, SweepQueued(s)
      PROVE  TableStep
  <2>1. \A r \in Queued(run) : r \in RunIds /\ run[r].status \in Pending
    BY DEF Queued, Pending
  <2>2. \E why \in Reason : run' = CancelRuns(run, Queued(run), why)
    BY <1>1, <1>5 DEF SweepQueued
  <2>3. QED
    BY <2>1, <2>2, StampedCancelledTable
<1>6. QED
  BY <1>2, <1>3, <1>4, <1>5

(* A delivery drops queued rows only.                                      *)
LEMMA DeliveredTable ==
    ASSUME TypeInv, NEW j \in Jobs, Delivered(j)
    PROVE  TableStep /\ RunningOwner(run') = RunningOwner(run)
<1>1. run \in RunTableType /\ "goal_terminal" \in Reason
  BY DEF TypeInv, TypeOK, Reason
<1>2. run' = CancelRuns(run, Queued(run), "goal_terminal")
  BY DEF Delivered
<1>3. QED
  BY <1>1, <1>2, CancelQueuedTable, QuietOrderly DEF TableStep

(* The startup requeue moves running rows only.                            *)
LEMMA RecoverTable ==
    ASSUME TypeInv, Recover
    PROVE  TableStep
<1> DEFINE ended == status \in Terminal
<1>1. run \in RunTableType /\ ended \in BOOLEAN
  BY DEF TypeInv, TypeOK
<1>2. run' = RequeueRunning(run, ended)
  BY DEF Recover
<1> HIDE DEF ended
<1>3. QED
  BY <1>1, <1>2, RequeueType, RequeueQuiet, QuietOrderly DEF TableStep

(* The dispatch loop: Claim and the overflow path keep the types, and an   *)
(* instance whose worker queues never fill has nothing to return.          *)
LEMMA DispatchTable ==
    ASSUME TypeInv, ReturnToQueue \/ \E r \in RunIds : Claim(r)
    PROVE  run' \in RunTableType
<1>1. run \in RunTableType
  BY DEF TypeInv, TypeOK
<1>2. CASE ReturnToQueue
  <2>1. routing \in RunIds
    BY <1>2 DEF TypeInv, TypeOK, ReturnToQueue
  <2>2. run[routing] \in RunRow
    BY <1>1, <2>1 DEF RunTableType
  <2>3. run' = [run EXCEPT ![routing] =
                  [run[routing] EXCEPT !.status = "queued", !.started = FALSE]]
    BY <1>1, <1>2, <2>1, <2>2 DEF ReturnToQueue, RunTableType, RunRow
  <2>4. [run[routing] EXCEPT !.status = "queued", !.started = FALSE] \in RunRow
    BY <2>2 DEF RunRow, Pending
  <2>5. QED
    BY <1>1, <2>3, <2>4 DEF RunTableType
<1>3. ASSUME NEW r \in RunIds, Claim(r)
      PROVE  run' \in RunTableType
  <2>1. run[r] \in RunRow
    BY <1>1 DEF RunTableType
  <2>2. run' = [run EXCEPT ![r] =
                  [run[r] EXCEPT !.status = "running", !.started = TRUE]]
    BY <1>1, <1>3, <2>1 DEF Claim, RunTableType, RunRow
  <2>3. [run[r] EXCEPT !.status = "running", !.started = TRUE] \in RunRow
    BY <2>1 DEF RunRow, Pending
  <2>4. QED
    BY <1>1, <2>2, <2>3 DEF RunTableType
<1>4. QED
  BY <1>2, <1>3

-----------------------------------------------------------------------------
(* Type correctness.                                                       *)

(* The initial state is well typed.                                        *)
LEMMA InitType == Init => TypeInv
<1> SUFFICES ASSUME Init PROVE TypeInv
  OBVIOUS
<1>1. run \in RunTableType
  BY BlankRunType DEF Init, RunTableType
<1>2. [s \in Sessions |-> Idle] \in [Sessions -> Session]
  BY DEF Idle, Session, Owners, Park
<1>3. NoDecision \in Decision
  BY DEF NoDecision, Decision
<1>4. 0 \in 0..MaxHandoffs /\ 0 \in 0..MaxCrashes
  BY GoalRunAssumption
<1>5. TypeOK
  BY <1>1, <1>2, <1>3, <1>4 DEF Init, TypeOK, GoalStatus, Park
<1>6. SessionOK
  BY DEF Init, SessionOK, Idle
<1>7. QED
  BY <1>5, <1>6 DEF TypeInv

(* A session begins with what it has read, and ends idle.                  *)
LEMMA SessionType ==
    ASSUME TypeInv, NEW s \in Sessions, NEW rec \in Session,
           sess' = [sess EXCEPT ![s] = rec],
           rec.pc = "record" => rec.owner \in Agents /\ rec.key \in RunIds,
           rec.pc \in {"continue", "reply"} => rec.owner # Human
    PROVE  sess' \in [Sessions -> Session] /\ SessionOK'
<1>1. sess' \in [Sessions -> Session]
  BY DEF TypeInv, TypeOK
<1>2. \A t \in Sessions : sess'[t] = IF t = s THEN rec ELSE sess[t]
  BY DEF TypeInv, TypeOK
<1>3. SessionOK'
  BY <1>2 DEF TypeInv, SessionOK
<1>4. QED
  BY <1>1, <1>3

(* The idle session is a session.                                          *)
LEMMA IdleType ==
    /\ Idle \in Session
    /\ Idle.pc = "idle"
  BY DEF Idle, Session, Owners, Park

(* A handler that returns leaves its session idle.                         *)
LEMMA EndType ==
    ASSUME TypeInv, NEW s \in Sessions, End(s)
    PROVE  sess' \in [Sessions -> Session] /\ SessionOK'
  BY SessionType, IdleType DEF End

(* What a session carries that asks a consult, field by field.             *)
LEMMA AskedType ==
    ASSUME NEW a \in Agents, NEW guest \in RunIds
    PROVE  /\ [Idle EXCEPT !.pc = "record", !.owner = a, !.key = guest] \in Session
           /\ [Idle EXCEPT !.pc = "record", !.owner = a, !.key = guest].pc = "record"
           /\ [Idle EXCEPT !.pc = "record", !.owner = a, !.key = guest].owner = a
           /\ [Idle EXCEPT !.pc = "record", !.owner = a, !.key = guest].key = guest
  BY DEF Idle, Session, Owners, Park

(* A handler that reads the owner and carries it.                          *)
LEMMA BeginOwnerType ==
    ASSUME TypeInv, NEW s \in Sessions,
           NEW pc \in {"reopen", "relaunch", "continue", "reply"},
           pc \in {"continue", "reply"} => owner # Human,
           Begin(s, [Idle EXCEPT !.pc = pc, !.owner = owner])
    PROVE  sess' \in [Sessions -> Session] /\ SessionOK'
<1> DEFINE rec == [Idle EXCEPT !.pc = pc, !.owner = owner]
<1>1. owner \in Owners
  BY DEF TypeInv, TypeOK
<1>2. rec \in Session /\ rec.pc = pc /\ rec.owner = owner
  BY <1>1 DEF Idle, Session, Owners, Park
<1>3. sess' = [sess EXCEPT ![s] = rec]
  BY DEF Begin
<1> HIDE DEF rec
<1>4. QED
  BY <1>2, <1>3, SessionType

(* The rest of the state, for an action that leaves the sessions alone ... *)
LEMMA ActivateType == ASSUME TypeInv, Activate PROVE TypeInv'
  BY ActivateTable
     DEF TypeInv, TypeOK, SessionOK, TableStep, Activate, GoalStatus,
         taskVars, procVars

(* A handoff keeps the types: its count stays within the bound.            *)
LEMMA AssignType ==
    ASSUME TypeInv, NEW o \in Owners, Assign(o)
    PROVE  TypeInv'
<1>1. run' \in RunTableType
  BY AssignTable DEF TableStep
<1>2. handoffs \in 0..MaxHandoffs /\ handoffs < MaxHandoffs
  BY DEF Assign, TypeInv, TypeOK
<1>3. handoffs + 1 \in 1..MaxHandoffs /\ handoffs' \in 0..MaxHandoffs
  BY <1>2, GoalRunAssumption DEF Assign
<1>4. cuts' \subseteq Cut
  BY <1>3 DEF Assign, Cut, TypeInv, TypeOK
<1>5. status' \in GoalStatus /\ park' \in Park /\ evidence' \in RunIds \cup {NoRun}
  BY DEF Assign, TypeInv, TypeOK, GoalStatus, Park
<1>6. decision' \in Decision
  BY DEF Assign, TypeInv, TypeOK, Past, Decision
<1>7. QED
  BY <1>1, <1>3, <1>4, <1>5, <1>6
     DEF Assign, TypeInv, TypeOK, SessionOK, procVars

(* Steps of a run keep the types.                                          *)
LEMMA RunStepType ==
    ASSUME TypeInv, NEW r \in RunIds, RunStep(r)
    PROVE  TypeInv'
<1>1. CASE Claim(r)
  <2>1. run' \in RunTableType /\ routing' \in RunIds \cup {NoRun}
    BY <1>1, DispatchTable DEF Claim, HandOver
  <2>2. QED
    BY <1>1, <2>1 DEF Claim, TypeInv, TypeOK, SessionOK, goalVars, taskVars
<1>2. CASE BackoffOver(r) \/ AskHuman(r)
  <2>1. run' \in RunTableType
    BY <1>2, BookRunTable DEF TableStep
  <2>2. QED
    BY <1>2, <2>1
       DEF BackoffOver, AskHuman, TypeInv, TypeOK, SessionOK, goalVars,
           taskVars, procVars
<1>3. CASE StopRun(r) \/ ReapRunaway(r)
  <2>1. run' \in RunTableType
    BY <1>3, StopTable DEF TableStep
  <2>2. QED
    BY <1>3, <2>1
       DEF StopRun, ReapRunaway, TypeInv, TypeOK, SessionOK, goalVars,
           taskVars, procVars
<1>4. ASSUME NEW outcome \in Ended, Finish(r, outcome)
      PROVE  TypeInv'
  <2>1. run' \in RunTableType
    BY <1>4, FinishTable DEF TableStep
  <2>2. QED
    BY <1>4, <2>1 DEF Finish, TypeInv, TypeOK, SessionOK, goalVars, procVars
<1>5. CASE ReconcileOnRunEnd(r)
  <2>1. run' \in RunTableType
    BY <1>5, ReconcileTable DEF TableStep
  <2>2. /\ finishing' \subseteq RunIds /\ replay' \subseteq RunIds
        /\ UNCHANGED <<owner, handoffs, cuts, sess, job, daemon, crashes, routing>>
    BY <1>5
       DEF ReconcileOnRunEnd, DiscardGuest, DiscardCancelled, HoldActive,
           ParkInReview, PromoteDone, RetryRun, FailGoal, NoteCancelled, Judged,
           Reconcile, TypeInv, TypeOK, goalVars
  <2>3. /\ status' \in GoalStatus /\ park' \in Park
        /\ evidence' \in RunIds \cup {NoRun} /\ decision' \in Decision
    BY <1>5
       DEF ReconcileOnRunEnd, DiscardGuest, DiscardCancelled, HoldActive,
           ParkInReview, PromoteDone, RetryRun, FailGoal, NoteCancelled,
           TypeInv, TypeOK, goalVars, GoalStatus, Park, Past, Decision
  <2>4. QED
    BY <2>1, <2>2, <2>3 DEF TypeInv, TypeOK, SessionOK
<1>6. QED
  BY <1>1, <1>2, <1>3, <1>4, <1>5 DEF RunStep

(* A handler begins: what it carries is what it has read.                  *)
LEMMA BeginStepType ==
    ASSUME TypeInv, NEW s \in Sessions,
           \/ CancelGoal(s) \/ BeginContinue(s)
           \/ \E kind \in {"reopen", "relaunch"} : BeginRestart(s, kind)
           \/ \E key \in RunIds \cup {NoRun}, what \in {"approve", "reject"} :
                BeginDecision(s, key, what)
    PROVE  TypeInv'
<1>1. CASE CancelGoal(s)
  <2> DEFINE rec == [Idle EXCEPT !.pc = "sweep_cancel"]
  <2>1. rec \in Session /\ rec.pc = "sweep_cancel"
    BY DEF Idle, Session, Owners, Park
  <2>2. sess' = [sess EXCEPT ![s] = rec]
    BY <1>1 DEF CancelGoal, Begin
  <2> HIDE DEF rec
  <2>3. sess' \in [Sessions -> Session] /\ SessionOK'
    BY <2>1, <2>2, SessionType
  <2>4. QED
    BY <1>1, <2>3 DEF CancelGoal, TypeInv, TypeOK, GoalStatus, procVars
<1>2. CASE BeginContinue(s)
  <2>1. sess' \in [Sessions -> Session] /\ SessionOK'
    BY <1>2, BeginOwnerType DEF BeginContinue
  <2>2. QED
    BY <1>2, <2>1 DEF BeginContinue, TypeInv, TypeOK, goalVars, procVars
<1>3. ASSUME NEW kind \in {"reopen", "relaunch"}, BeginRestart(s, kind)
      PROVE  TypeInv'
  <2>1. Begin(s, [Idle EXCEPT !.pc = kind, !.owner = owner])
    BY <1>3 DEF BeginRestart
  <2>2. kind \notin {"continue", "reply"}
    OBVIOUS
  <2>3. sess' \in [Sessions -> Session] /\ SessionOK'
    BY <2>1, <2>2, BeginOwnerType
  <2>4. QED
    BY <1>3, <2>3 DEF BeginRestart, TypeInv, TypeOK, goalVars, procVars
<1>4. ASSUME NEW key \in RunIds \cup {NoRun}, NEW what \in {"approve", "reject"},
             BeginDecision(s, key, what)
      PROVE  TypeInv'
  <2> DEFINE rec == [pc |-> "decide", owner |-> owner, park |-> park, key |-> key,
                     what |-> what]
  <2>1. rec \in Session /\ rec.pc = "decide"
    BY DEF Session, TypeInv, TypeOK
  <2>2. sess' = [sess EXCEPT ![s] = rec]
    BY <1>4 DEF BeginDecision, Begin
  <2> HIDE DEF rec
  <2>3. sess' \in [Sessions -> Session] /\ SessionOK'
    BY <2>1, <2>2, SessionType
  <2>4. QED
    BY <1>4, <2>3 DEF BeginDecision, TypeInv, TypeOK, goalVars, procVars
<1>5. QED
  BY <1>1, <1>2, <1>3, <1>4

(* A consult is asked, or a comment is answered.                           *)
LEMMA CommentStepType ==
    ASSUME TypeInv, NEW s \in Sessions, NEW r \in RunIds,
           Reply(s, r) \/ \E a \in Agents : AskConsult(s, r, a)
    PROVE  TypeInv'
<1>1. ASSUME NEW a \in Agents, AskConsult(s, r, a)
      PROVE  TypeInv'
  <2>1. PICK f \in RowFor(run, a, "consult") :
          /\ run' = Enqueue(run, f, a, "consult", FALSE, 1)
          /\ \E guest \in PendingOf(run', a, "consult") :
               Begin(s, [Idle EXCEPT !.pc = "record", !.owner = run[r].agent,
                                     !.key = guest])
    BY <1>1 DEF AskConsult
  <2>2. run' \in RunTableType
    BY <2>1, ConsultTable DEF TableStep
  <2>3. PICK guest \in RunIds :
          Begin(s, [Idle EXCEPT !.pc = "record", !.owner = run[r].agent,
                                !.key = guest])
    BY <2>1 DEF PendingOf
  <2>4. run[r].agent \in Agents
    BY DEF TypeInv, TypeOK, RunTableType, RunRow
  <2> DEFINE rec == [Idle EXCEPT !.pc = "record", !.owner = run[r].agent,
                                 !.key = guest]
  <2>5. /\ rec \in Session /\ rec.pc = "record"
        /\ rec.owner = run[r].agent /\ rec.key = guest
    BY <2>4, AskedType
  <2>6. sess' = [sess EXCEPT ![s] = rec]
    BY <2>3 DEF Begin
  <2> HIDE DEF rec
  <2>7. sess' \in [Sessions -> Session] /\ SessionOK'
    BY <2>4, <2>5, <2>6, SessionType
  <2>8. QED
    BY <1>1, <2>2, <2>7 DEF AskConsult, TypeInv, TypeOK, goalVars, procVars
<1>2. CASE Reply(s, r)
  <2>1. run' \in RunTableType
    BY <1>2, BookSessionTable DEF TableStep
  <2>2. \/ /\ owner # Human
           /\ Begin(s, [Idle EXCEPT !.pc = "reply", !.owner = owner])
        \/ Begin(s, [Idle EXCEPT !.pc = "reopen", !.owner = owner])
        \/ sess' = sess
    BY <1>2 DEF Reply
  <2>3. ASSUME owner # Human, Begin(s, [Idle EXCEPT !.pc = "reply", !.owner = owner])
        PROVE  sess' \in [Sessions -> Session] /\ SessionOK'
    BY <2>3, BeginOwnerType
  <2>4. ASSUME Begin(s, [Idle EXCEPT !.pc = "reopen", !.owner = owner])
        PROVE  sess' \in [Sessions -> Session] /\ SessionOK'
    BY <2>4, BeginOwnerType
  <2>5. ASSUME sess' = sess
        PROVE  sess' \in [Sessions -> Session] /\ SessionOK'
    BY <2>5 DEF TypeInv, TypeOK, SessionOK
  <2>6. sess' \in [Sessions -> Session] /\ SessionOK'
    BY <2>2, <2>3, <2>4, <2>5
  <2>7. QED
    BY <1>2, <2>1, <2>6 DEF Reply, TypeInv, TypeOK, goalVars, procVars
<1>3. QED
  BY <1>1, <1>2

(* A handler takes its next step or ends.                                  *)
LEMMA HandlerStepType ==
    ASSUME TypeInv, NEW s \in Sessions, HandlerStep(s)
    PROVE  TypeInv'
<1>1. CASE RecordDecision(s)
  <2>1. sess' = [sess EXCEPT ![s] = [sess[s] EXCEPT !.pc = "decided"]]
    BY <1>1 DEF RecordDecision
  <2>2. sess[s] \in Session
    BY DEF TypeInv, TypeOK
  <2>3. /\ [sess[s] EXCEPT !.pc = "decided"] \in Session
        /\ [sess[s] EXCEPT !.pc = "decided"].pc = "decided"
    BY <2>2 DEF Session
  <2>4. sess' \in [Sessions -> Session] /\ SessionOK'
    BY <2>1, <2>3, SessionType
  <2>5. decision' \in Decision
    BY <1>1, <2>2 DEF RecordDecision, Decision, Session
  <2>6. QED
    BY <1>1, <2>4, <2>5 DEF RecordDecision, TypeInv, TypeOK, procVars
<1>2. CASE RejectLoop(s)
  <2>1. sess' = [sess EXCEPT ![s] = [sess[s] EXCEPT !.pc = "sweep_loop"]]
    BY <1>2 DEF RejectLoop
  <2>2. sess[s] \in Session
    BY DEF TypeInv, TypeOK
  <2>3. /\ [sess[s] EXCEPT !.pc = "sweep_loop"] \in Session
        /\ [sess[s] EXCEPT !.pc = "sweep_loop"].pc = "sweep_loop"
    BY <2>2 DEF Session
  <2>4. sess' \in [Sessions -> Session] /\ SessionOK'
    BY <2>1, <2>3, SessionType
  <2>5. QED
    BY <1>2, <2>4 DEF RejectLoop, TypeInv, TypeOK, GoalStatus, Park, procVars
<1>3. CASE ApproveLoop(s)
  BY <1>3, EndType DEF ApproveLoop, TypeInv, TypeOK, GoalStatus, Park, procVars
<1>4. CASE ApproveDelivery(s)
  <2>1. job' \in [Jobs -> {"none", "wait", "merge"}]
    BY <1>4 DEF ApproveDelivery, TypeInv, TypeOK
  <2>2. QED
    BY <1>4, <2>1, EndType DEF ApproveDelivery, TypeInv, TypeOK, goalVars, procVars
<1>5. CASE RejectReview(s)
  <2>1. run' \in RunTableType
    BY <1>5, RejectReviewTable DEF TableStep
  <2>2. QED
    BY <1>5, <2>1, EndType
       DEF RejectReview, TypeInv, TypeOK, GoalStatus, Park, procVars
<1>6. CASE SweepQueued(s)
  <2>1. run' \in RunTableType
    BY <1>6, StopTable DEF TableStep
  <2>2. QED
    BY <1>6, <2>1, EndType DEF SweepQueued, TypeInv, TypeOK, goalVars, procVars
<1>7. CASE RestartGoal(s)
  <2>1. run' \in RunTableType
    BY <1>7, RestartGoalTable DEF TableStep
  <2>2. decision' \in Decision
    BY <1>7 DEF RestartGoal, NoDecision, Decision
  <2>3. QED
    BY <1>7, <2>1, <2>2, EndType
       DEF RestartGoal, TypeInv, TypeOK, GoalStatus, Park, procVars
<1>8. CASE RefuseRestart(s)
  BY <1>8, EndType DEF RefuseRestart, TypeInv, TypeOK, goalVars, procVars
<1>9. CASE WakeOwner(s)
  <2>1. run' \in RunTableType
    BY <1>9, WakeOwnerTable DEF TableStep
  <2>2. QED
    BY <1>9, <2>1, EndType DEF WakeOwner, TypeInv, TypeOK, goalVars, procVars
<1>10. CASE RecordConsult(s)
  <2>1. run' \in RunTableType
    BY <1>10, BookSessionTable DEF TableStep
  <2>2. QED
    BY <1>10, <2>1, EndType DEF RecordConsult, TypeInv, TypeOK, goalVars, procVars
<1>11. QED
  BY <1>1, <1>2, <1>3, <1>4, <1>5, <1>6, <1>7, <1>8, <1>9, <1>10 DEF HandlerStep

(* Steps of a handler keep the types.                                      *)
LEMMA SessionStepType ==
    ASSUME TypeInv, NEW s \in Sessions, SessionStep(s)
    PROVE  TypeInv'
<1>1. CASE HandlerStep(s)
  BY <1>1, HandlerStepType
<1>2. CASE \/ CancelGoal(s) \/ BeginContinue(s)
           \/ \E kind \in {"reopen", "relaunch"} : BeginRestart(s, kind)
           \/ \E key \in RunIds \cup {NoRun}, what \in {"approve", "reject"} :
                BeginDecision(s, key, what)
  BY <1>2, BeginStepType
<1>3. CASE \E r \in RunIds : Reply(s, r) \/ \E a \in Agents : AskConsult(s, r, a)
  BY <1>3, CommentStepType
<1>4. QED
  BY <1>1, <1>2, <1>3 DEF SessionStep, HandlerStep

(* Deliveries.                                                             *)
LEMMA JobStepType ==
    ASSUME TypeInv, NEW j \in Jobs, JobStep(j)
    PROVE  TypeInv'
<1>1. CASE StartMerge(j)
  BY <1>1 DEF StartMerge, TypeInv, TypeOK, SessionOK, goalVars, procVars
<1>2. CASE Delivered(j)
  <2>1. run' \in RunTableType
    BY <1>2, DeliveredTable DEF TableStep
  <2>2. QED
    BY <1>2, <2>1
       DEF Delivered, TypeInv, TypeOK, SessionOK, GoalStatus, Park, procVars
<1>3. CASE DeliverFailed(j)
  BY <1>3 DEF DeliverFailed, TypeInv, TypeOK, SessionOK, Park, procVars
<1>4. QED
  BY <1>1, <1>2, <1>3 DEF JobStep

(* The process.                                                            *)
LEMMA DaemonStepType ==
    ASSUME TypeInv, DaemonStep
    PROVE  TypeInv'
<1>1. CASE Crash
  <2>1. sess' \in [Sessions -> Session] /\ SessionOK'
    BY <1>1, IdleType DEF Crash, SessionOK, Idle
  <2>2. crashes' \in 0..MaxCrashes
    BY <1>1, GoalRunAssumption DEF Crash, TypeInv, TypeOK
  <2>3. QED
    BY <1>1, <2>1, <2>2 DEF Crash, TypeInv, TypeOK, goalVars
<1>2. CASE Boot
  BY <1>2 DEF Boot, TypeInv, TypeOK, SessionOK, goalVars, taskVars
<1>3. CASE Recover
  <2>1. run' \in RunTableType
    BY <1>3, RecoverTable DEF TableStep
  <2>2. replay' \subseteq RunIds
    BY <1>3 DEF Recover, Unreconciled
  <2>3. QED
    BY <1>3, <2>1, <2>2 DEF Recover, TypeInv, TypeOK, SessionOK, goalVars, taskVars
<1>4. CASE StartDispatch
  <2>1. job' \in [Jobs -> {"none", "wait", "merge"}]
    BY <1>4 DEF StartDispatch, TypeInv, TypeOK
  <2>2. QED
    BY <1>4, <2>1 DEF StartDispatch, TypeInv, TypeOK, SessionOK, goalVars
<1>5. CASE Route
  BY <1>5 DEF Route, TypeInv, TypeOK, SessionOK, goalVars, taskVars
<1>6. CASE ReturnToQueue
  <2>1. run' \in RunTableType
    BY <1>6, DispatchTable
  <2>2. QED
    BY <1>6, <2>1 DEF ReturnToQueue, TypeInv, TypeOK, SessionOK, goalVars, taskVars
<1>7. QED
  BY <1>1, <1>2, <1>3, <1>4, <1>5, <1>6 DEF DaemonStep

(* Every step keeps the types.                                             *)
LEMMA NextType == TypeInv /\ [Next]_vars => TypeInv'
<1> SUFFICES ASSUME TypeInv, [Next]_vars PROVE TypeInv'
  OBVIOUS
<1>1. CASE Activate
  BY <1>1, ActivateType
<1>2. CASE \E o \in Owners : Assign(o)
  BY <1>2, AssignType
<1>3. ASSUME NEW e \in cuts, CutOldOwner(e)
      PROVE  TypeInv'
  <2>1. run' \in RunTableType
    BY <1>3, StopTable DEF TableStep
  <2>2. QED
    BY <1>3, <2>1 DEF CutOldOwner, TypeInv, TypeOK, SessionOK, goalVars, procVars
<1>4. ASSUME NEW a \in Agents, HumanMention(a)
      PROVE  TypeInv'
  <2>1. run' \in RunTableType
    BY <1>4, ConsultTable DEF HumanMention, TableStep
  <2>2. QED
    BY <1>4, <2>1
       DEF HumanMention, TypeInv, TypeOK, SessionOK, goalVars, taskVars, procVars
<1>5. CASE \E r \in RunIds : RunStep(r)
  BY <1>5, RunStepType
<1>6. CASE \E s \in Sessions : SessionStep(s)
  BY <1>6, SessionStepType
<1>7. CASE \E j \in Jobs : JobStep(j)
  BY <1>7, JobStepType
<1>8. CASE DaemonStep
  BY <1>8, DaemonStepType
<1>9. CASE UNCHANGED vars
  BY <1>9 DEF vars, goalVars, taskVars, procVars, TypeInv, TypeOK, SessionOK
<1>10. QED
  BY <1>1, <1>2, <1>3, <1>4, <1>5, <1>6, <1>7, <1>8, <1>9 DEF Next

(* No action, in any interleaving and after any crash, writes a value a    *)
(* column or a goroutine cannot hold: in particular attempts stay within   *)
(* the retry limit of reconcileOnRunEndOnce.                               *)
THEOREM TypeCorrect == Spec => []TypeOK
<1>1. Spec => []TypeInv
  BY InitType, NextType, PTL DEF Spec
<1>2. TypeInv => TypeOK
  BY DEF TypeInv
<1>3. QED
  BY <1>1, <1>2, PTL

-----------------------------------------------------------------------------
(* Every step but the dispatch loop's is orderly.                          *)

(* A step is orderly unless the dispatch loop makes it.                    *)
LEMMA StepShape ==
    ASSUME TypeInv, [Next]_vars
    PROVE  \/ Orderly(run, run')
           \/ \E r \in RunIds : Claim(r)
           \/ ReturnToQueue
<1>1. ASSUME UNCHANGED run
      PROVE  Orderly(run, run')
  BY <1>1 DEF Orderly, Kept
<1>2. CASE Activate
  BY <1>2, ActivateTable DEF TableStep
<1>3. CASE \E o \in Owners : Assign(o)
  BY <1>3, AssignTable DEF TableStep
<1>4. CASE \E e \in cuts : CutOldOwner(e)
  BY <1>4, StopTable DEF TableStep
<1>5. CASE \E a \in Agents : HumanMention(a)
  BY <1>5, ConsultTable DEF HumanMention, TableStep
<1>6. ASSUME NEW r \in RunIds, RunStep(r), ~ Claim(r)
      PROVE  Orderly(run, run')
  BY <1>6, BookRunTable, StopTable, FinishTable, ReconcileTable DEF RunStep, TableStep
<1>7. ASSUME NEW s \in Sessions, SessionStep(s)
      PROVE  Orderly(run, run')
  <2>1. CASE SweepQueued(s)
    BY <2>1, StopTable DEF TableStep
  <2>2. CASE RejectReview(s) \/ RestartGoal(s) \/ WakeOwner(s)
    BY <2>2, RejectReviewTable, RestartGoalTable, WakeOwnerTable DEF TableStep
  <2>3. CASE RecordConsult(s) \/ \E r \in RunIds : Reply(s, r)
    BY <2>3, BookSessionTable DEF TableStep
  <2>4. CASE \E r \in RunIds, a \in Agents : AskConsult(s, r, a)
    BY <2>4, ConsultTable DEF AskConsult, TableStep
  <2>5. CASE \/ CancelGoal(s) \/ RecordDecision(s) \/ ApproveLoop(s)
             \/ ApproveDelivery(s) \/ RejectLoop(s) \/ RefuseRestart(s)
             \/ BeginContinue(s)
             \/ \E key \in RunIds \cup {NoRun}, what \in {"approve", "reject"} :
                  BeginDecision(s, key, what)
             \/ \E kind \in {"reopen", "relaunch"} : BeginRestart(s, kind)
    BY <2>5, <1>1
       DEF CancelGoal, RecordDecision, ApproveLoop, ApproveDelivery, RejectLoop,
           RefuseRestart, BeginContinue, BeginDecision, BeginRestart
  <2>6. QED
    BY <1>7, <2>1, <2>2, <2>3, <2>4, <2>5 DEF SessionStep
<1>8. ASSUME NEW j \in Jobs, JobStep(j)
      PROVE  Orderly(run, run')
  <2>1. CASE Delivered(j)
    BY <2>1, DeliveredTable DEF TableStep
  <2>2. CASE StartMerge(j) \/ DeliverFailed(j)
    BY <2>2, <1>1 DEF StartMerge, DeliverFailed
  <2>3. QED
    BY <1>8, <2>1, <2>2 DEF JobStep
<1>9. CASE Recover
  BY <1>9, RecoverTable DEF TableStep
<1>10. CASE Crash \/ Boot \/ StartDispatch \/ Route \/ UNCHANGED vars
  BY <1>10, <1>1 DEF Crash, Boot, StartDispatch, Route, vars
<1>11. QED
  BY <1>2, <1>3, <1>4, <1>5, <1>6, <1>7, <1>8, <1>9, <1>10 DEF Next, DaemonStep

(* What Claim does to the rows.                                            *)
LEMMA ClaimRows ==
    ASSUME TypeInv, NEW r \in RunIds, Claim(r)
    PROVE  /\ run[r].status = "queued" /\ run'[r].status = "running"
           /\ run'[r].role = run[r].role /\ run'[r].agent = run[r].agent
           /\ run'[r].attempt = run[r].attempt
           /\ \A q \in RunIds \ {r} : run'[q] = run[q]
<1>1. run \in RunTableType /\ run[r] \in RunRow
  BY DEF TypeInv, TypeOK, RunTableType
<1>2. run' = [run EXCEPT ![r] = [run[r] EXCEPT !.status = "running", !.started = TRUE]]
  BY <1>1 DEF Claim, RunTableType, RunRow
<1>3. QED
  BY <1>1, <1>2 DEF Claim, RunTableType, RunRow

(* What the overflow path does to them.                                    *)
LEMMA ReturnedRows ==
    ASSUME TypeInv, ReturnToQueue
    PROVE  \A q \in RunIds : run'[q].status = "queued" \/ run'[q] = run[q]
<1>1. run \in RunTableType /\ routing \in RunIds /\ run[routing] \in RunRow
  BY DEF TypeInv, TypeOK, RunTableType, ReturnToQueue
<1>2. run' = [run EXCEPT ![routing] =
                [run[routing] EXCEPT !.status = "queued", !.started = FALSE]]
  BY <1>1 DEF ReturnToQueue, RunTableType, RunRow
<1>3. QED
  BY <1>1, <1>2 DEF RunTableType, RunRow

(* At the start no row has been inserted.                                  *)
LEMMA InitRows == Init => \A r \in RunIds : run[r].status = "none"
<1>1. BlankRun.status = "none"
  BY DEF BlankRun, NewRun
<1>2. QED
  BY <1>1 DEF Init

-----------------------------------------------------------------------------
(* Who is running for the goal.                                            *)

(* Writers only start by Claim, and then there was none.                   *)
LEMMA WritersStep ==
    ASSUME TypeInv, [Next]_vars
    PROVE  \/ RunningOwner(run') \subseteq RunningOwner(run)
           \/ \E r \in RunIds : /\ Claim(r)
                                /\ RunningOwner(run) = {} /\ RunningOwner(run') = {r}
<1>1. CASE Orderly(run, run')
  BY <1>1, OrderlyWriters
<1>2. CASE ReturnToQueue
  BY <1>2, ReturnedRows DEF RunningOwner
<1>3. ASSUME NEW r \in RunIds, Claim(r)
      PROVE  \/ RunningOwner(run') \subseteq RunningOwner(run)
             \/ RunningOwner(run) = {} /\ RunningOwner(run') = {r}
  <2>1. CASE run[r].role = "owner"
    <3>1. RunningOwner(run) = {}
      BY <1>3, <2>1 DEF Claim
    <3>2. \A q \in RunIds : q \in RunningOwner(run') <=> q = r
      BY <1>3, <2>1, <3>1, ClaimRows DEF RunningOwner
    <3>3. RunningOwner(run') = {r}
      BY <3>2 DEF RunningOwner
    <3>4. QED
      BY <3>1, <3>3
  <2>2. CASE run[r].role # "owner"
    BY <1>3, <2>2, ClaimRows DEF RunningOwner
  <2>3. QED
    BY <2>1, <2>2
<1>4. QED
  BY <1>1, <1>2, <1>3, StepShape

(* Whatever is queued, requeued, retried, resumed, handed off, stopped or  *)
(* recovered, the single-flight condition of Claim keeps the goal branch   *)
(* to one running owner row.                                               *)
THEOREM WriterExclusion == Spec => []OneWriter
<1>1. Init => OneWriter
  <2>1. Init => \A r \in RunIds : run[r].status = "none"
    BY InitRows
  <2>2. QED
    BY <2>1 DEF OneWriter, RunningOwner
<1>2. TypeInv /\ OneWriter /\ [Next]_vars => OneWriter'
  BY WritersStep DEF OneWriter
<1>3. Spec => []TypeInv
  BY InitType, NextType, PTL DEF Spec
<1>4. QED
  BY <1>1, <1>2, <1>3, PTL DEF Spec

-----------------------------------------------------------------------------
(* The run table.  ReturnToQueue puts the run it holds back without        *)
(* looking whether it was stamped meanwhile: with it, a stopped run comes  *)
(* back to life and may stand beside its successor.  The three theorems    *)
(* below are about daemons whose worker queues never fill.                 *)

NeverFull == "overflow" \notin Ops

NothingHeld == routing = NoRun

(* The dispatch loop starts with nothing in hand ...                       *)
LEMMA HeldInit == Init => NothingHeld
  BY DEF Init, NothingHeld

(* ... and holds a run across a step only if a worker queue can fill.      *)
LEMMA HeldStep == ASSUME NeverFull, NothingHeld, [Next]_vars PROVE NothingHeld'
<1>1. CASE UNCHANGED routing
  BY <1>1 DEF NothingHeld
<1>2. CASE \E r \in RunIds : Claim(r)
  BY <1>2 DEF Claim, HandOver, NeverFull, NothingHeld
<1>3. CASE Crash \/ Route \/ ReturnToQueue
  BY <1>3 DEF Crash, Route, ReturnToQueue, NothingHeld
<1>4. ASSUME NEW r \in RunIds, RunStep(r), ~ Claim(r)
      PROVE  UNCHANGED routing
  BY <1>4 DEF RunStep, BackoffOver, AskHuman, StopRun, ReapRunaway, Finish, procVars,
       ReconcileOnRunEnd, DiscardGuest, DiscardCancelled, HoldActive,
       ParkInReview, PromoteDone, RetryRun, FailGoal, NoteCancelled
<1>5. ASSUME NEW s \in Sessions, SessionStep(s)
      PROVE  UNCHANGED routing
  BY <1>5 DEF SessionStep, CancelGoal, SweepQueued, BeginDecision, RecordDecision,
       ApproveLoop, ApproveDelivery, RejectLoop, RejectReview, BeginRestart,
       RestartGoal, RefuseRestart, AskConsult, RecordConsult, BeginContinue,
       Reply, WakeOwner, procVars
<1>6. ASSUME NEW j \in Jobs, JobStep(j)
      PROVE  UNCHANGED routing
  BY <1>6 DEF JobStep, StartMerge, Delivered, DeliverFailed, procVars
<1>7. CASE Boot \/ Recover \/ StartDispatch \/ UNCHANGED vars
  BY <1>7, <1>1 DEF Boot, Recover, StartDispatch, vars, procVars
<1>8. CASE \/ Activate \/ \E o \in Owners : Assign(o)
           \/ \E e \in cuts : CutOldOwner(e)
           \/ \E a \in Agents : HumanMention(a)
  BY <1>8, <1>1 DEF Activate, Assign, CutOldOwner, HumanMention, procVars
<1>9. QED
  BY <1>1, <1>2, <1>3, <1>4, <1>5, <1>6, <1>7, <1>8 DEF Next, DaemonStep

(* The step lemma of the three theorems.                                   *)
LEMMA OrderlyOrClaim ==
    ASSUME TypeInv, NothingHeld, [Next]_vars
    PROVE  Orderly(run, run') \/ \E r \in RunIds : Claim(r)
  BY StepShape DEF NothingHeld, ReturnToQueue

(* Retries, wakes, handoffs, consults, reopened goals and the requeue of a *)
(* restart never give an agent two pending runs of one role on a goal:     *)
(* the coalescing of enqueueTx holds globally.                             *)
THEOREM PendingUnique == ASSUME NeverFull PROVE Spec => []OnePending
<1>1. Init => OnePending
  <2>1. Init => \A r \in RunIds : run[r].status = "none"
    BY InitRows
  <2>2. QED
    BY <2>1 DEF OnePending, PendingOf, Pending
<1>2. TypeInv /\ NothingHeld /\ OnePending /\ [Next]_vars => OnePending'
  <2> SUFFICES ASSUME TypeInv, NothingHeld, OnePending, [Next]_vars,
                      NEW a \in Agents, NEW role \in Role,
                      NEW r1 \in PendingOf(run', a, role),
                      NEW r2 \in PendingOf(run', a, role)
               PROVE  r1 = r2
    BY DEF OnePending
  <2>1. \A q1, q2 \in RunIds :
           /\ run[q1].status \in Pending /\ run[q2].status \in Pending
           /\ run[q1].role = role /\ run[q2].role = role
           /\ run[q1].agent = a /\ run[q2].agent = a
           => q1 = q2
    BY DEF OnePending, PendingOf
  <2>2. \A r \in {r1, r2} : /\ r \in RunIds /\ run'[r].status \in Pending
                            /\ run'[r].role = role /\ run'[r].agent = a
    BY DEF PendingOf
  <2>3. CASE Orderly(run, run')
    <3>1. CASE Born(run, run', r1) \/ Born(run, run', r2)
      BY <2>2, <3>1 DEF Born, Alone
    <3>2. CASE ~ Born(run, run', r1) /\ ~ Born(run, run', r2)
      <4>1. \A r \in {r1, r2} : Kept(run[r], run'[r]) \/ Moved(run[r], run'[r])
        BY <2>2, <2>3, <3>2 DEF Orderly
      <4>2. \A r \in {r1, r2} : /\ run[r].status \in Pending
                                /\ run[r].role = role /\ run[r].agent = a
        BY <2>2, <4>1 DEF Kept, Moved
      <4>3. QED
        BY <2>1, <2>2, <4>2
    <3>3. QED
      BY <3>1, <3>2
  <2>4. ASSUME NEW c \in RunIds, Claim(c)
        PROVE  r1 = r2
    <3>1. \A r \in {r1, r2} : /\ run[r].status \in Pending
                              /\ run[r].role = role /\ run[r].agent = a
      BY <2>2, <2>4, ClaimRows DEF Pending
    <3>2. QED
      BY <2>1, <2>2, <3>1
  <2>5. QED
    BY <2>3, <2>4, OrderlyOrClaim
<1>3. TypeInv /\ [Next]_vars => TypeInv'
  BY NextType
<1>4. NothingHeld /\ [Next]_vars => NothingHeld'
  BY HeldStep
<1>5. QED
  BY <1>1, <1>2, <1>3, <1>4, InitType, HeldInit, PTL DEF Spec

(* A run that ended keeps its outcome and its reason: a late report, a     *)
(* second stop, a sweep or the requeue after a crash never revives it.     *)
THEOREM EndsStand == ASSUME NeverFull PROVE Spec => TerminalRunStands
<1>1. ASSUME TypeInv, NothingHeld, [Next]_vars, NEW r \in RunIds,
             run[r].status \in Ended
      PROVE  run'[r].status = run[r].status /\ run'[r].reason = run[r].reason
  <2>1. run[r].status \notin Pending /\ run[r].status # "none"
    BY <1>1 DEF Ended, Pending
  <2>2. CASE Orderly(run, run')
    BY <1>1, <2>1, <2>2 DEF Orderly, Kept, Moved, Born
  <2>3. ASSUME NEW c \in RunIds, Claim(c)
        PROVE  run'[r] = run[r]
    BY <1>1, <2>1, <2>3, ClaimRows DEF Pending
  <2>4. QED
    BY <1>1, <2>2, <2>3, OrderlyOrClaim
<1>2. TypeInv /\ NothingHeld /\ [Next]_vars =>
        [\A r \in RunIds :
           run[r].status \in Ended =>
              /\ run'[r].status = run[r].status
              /\ run'[r].reason = run[r].reason]_vars
  BY <1>1
<1>3. TypeInv /\ [Next]_vars => TypeInv'
  BY NextType
<1>4. NothingHeld /\ [Next]_vars => NothingHeld'
  BY HeldStep
<1>5. QED
  BY <1>2, <1>3, <1>4, InitType, HeldInit, PTL DEF Spec, TerminalRunStands

(* The retry budget: an attempt above the first continues a failed one of  *)
(* the same agent, so wakes, consults, coalescing and restarts neither     *)
(* spend nor refill it.                                                    *)
THEOREM RetriesContinue == ASSUME NeverFull PROVE Spec => []RetryChain
<1>1. Init => RetryChain
  <2>1. BlankRun.attempt = 1
    BY DEF BlankRun, NewRun
  <2>2. Init => \A r \in RunIds : run[r].attempt = 1
    BY <2>1 DEF Init
  <2>3. ~ (1 > 1)
    OBVIOUS
  <2>4. QED
    BY <2>2, <2>3 DEF RetryChain
<1>2. TypeInv /\ NothingHeld /\ RetryChain /\ [Next]_vars => RetryChain'
  <2> SUFFICES ASSUME TypeInv, NothingHeld, RetryChain, [Next]_vars,
                      NEW r \in RunIds, run'[r].attempt > 1
               PROVE  \E q \in RunIds : /\ run'[q].status = "failed"
                                        /\ run'[q].agent = run'[r].agent
                                        /\ run'[q].attempt = run'[r].attempt - 1
    BY DEF RetryChain
  <2>1. CASE Orderly(run, run')
    <3>1. CASE Born(run, run', r)
      BY <3>1 DEF Born, Entitled
    <3>2. CASE Kept(run[r], run'[r]) \/ Moved(run[r], run'[r])
      <4>1. run'[r].attempt = run[r].attempt /\ run'[r].agent = run[r].agent
        BY <3>2 DEF Kept, Moved
      <4>2. PICK q \in RunIds : /\ run[q].status = "failed"
                                /\ run[q].agent = run[r].agent
                                /\ run[q].attempt = run[r].attempt - 1
        BY <4>1 DEF RetryChain
      <4>3. Kept(run[q], run'[q])
        BY <2>1, <4>2 DEF Orderly, Moved, Born, Pending
      <4>4. QED
        BY <4>1, <4>2, <4>3 DEF Kept
    <3>3. QED
      BY <2>1, <3>1, <3>2 DEF Orderly
  <2>2. ASSUME NEW c \in RunIds, Claim(c)
        PROVE  \E q \in RunIds : /\ run'[q].status = "failed"
                                 /\ run'[q].agent = run'[r].agent
                                 /\ run'[q].attempt = run'[r].attempt - 1
    <3>1. run'[r].attempt = run[r].attempt /\ run'[r].agent = run[r].agent
      BY <2>2, ClaimRows
    <3>2. PICK q \in RunIds : /\ run[q].status = "failed"
                              /\ run[q].agent = run[r].agent
                              /\ run[q].attempt = run[r].attempt - 1
      BY <3>1 DEF RetryChain
    <3>3. run'[q] = run[q]
      BY <2>2, <3>2, ClaimRows
    <3>4. QED
      BY <3>1, <3>2, <3>3
  <2>3. QED
    BY <2>1, <2>2, OrderlyOrClaim
<1>3. TypeInv /\ [Next]_vars => TypeInv'
  BY NextType
<1>4. NothingHeld /\ [Next]_vars => NothingHeld'
  BY HeldStep
<1>5. QED
  BY <1>1, <1>2, <1>3, <1>4, InitType, HeldInit, PTL DEF Spec

-----------------------------------------------------------------------------
(* GoalRun implements GoalLifecycle.  The one edge that needs an invariant *)
(* is FailGoal's: a failed run is judged whatever the goal's status, so    *)
(* nothing may ever have run on a goal in the backlog.                     *)

BacklogIdle ==
    status = "backlog" =>
        /\ \A r \in RunIds : run[r].status = "none"
        /\ \A s \in Sessions : sess[s].pc \in {"idle", "relaunch"}
        /\ finishing = {} /\ replay = {} /\ routing = NoRun

(* A new goal is in the backlog and nothing ran on it.                     *)
LEMMA BacklogInit == Init => BacklogIdle
<1>1. Init => \A r \in RunIds : run[r].status = "none"
  BY InitRows
<1>2. Init => \A s \in Sessions : sess[s].pc = "idle"
  BY IdleType DEF Init
<1>3. QED
  BY <1>1, <1>2 DEF Init, BacklogIdle

(* What can happen while nothing ever ran.                                 *)
BacklogAction ==
    \/ Activate \/ \E o \in Owners : Assign(o)
    \/ \E e \in cuts : CutOldOwner(e)
    \/ \E s \in Sessions :
         \/ CancelGoal(s) \/ RestartGoal(s) \/ RefuseRestart(s)
         \/ BeginRestart(s, "relaunch")
    \/ \E j \in Jobs : JobStep(j)
    \/ Crash \/ Boot \/ Recover \/ StartDispatch

(* No other action is enabled on a goal in the backlog.                    *)
LEMMA BacklogActions ==
    ASSUME TypeInv, BacklogIdle, status = "backlog", Next
    PROVE  BacklogAction
<1>1. /\ \A r \in RunIds : run[r].status = "none"
      /\ \A s \in Sessions : sess[s].pc \in {"idle", "relaunch"}
      /\ finishing = {} /\ replay = {} /\ routing = NoRun
  BY DEF BacklogIdle
<1>2. ASSUME NEW r \in RunIds, RunStep(r) PROVE FALSE
  <2>1. ~ Claim(r) /\ ~ BackoffOver(r) /\ ~ AskHuman(r) /\ ~ StopRun(r)
        /\ ~ ReapRunaway(r) /\ \A outcome \in Ended : ~ Finish(r, outcome)
    BY <1>1 DEF Claim, BackoffOver, AskHuman, StopRun, ReapRunaway, Finish,
         Executing, Pending
  <2>2. ~ Reconcile(r)
    BY <1>1 DEF Reconcile
  <2>3. ~ ReconcileOnRunEnd(r)
    BY <2>2 DEF ReconcileOnRunEnd, DiscardGuest, DiscardCancelled, HoldActive,
         ParkInReview, PromoteDone, RetryRun, FailGoal, NoteCancelled, Judged
  <2>4. QED
    BY <1>2, <2>1, <2>3 DEF RunStep
<1>3. ASSUME NEW s \in Sessions, SessionStep(s)
      PROVE  \/ CancelGoal(s) \/ RestartGoal(s) \/ RefuseRestart(s)
             \/ BeginRestart(s, "relaunch")
  <2>1. sess[s].pc = "idle" \/ sess[s].pc = "relaunch"
    BY <1>1
  <2>2. /\ ~ SweepQueued(s) /\ ~ RecordDecision(s) /\ ~ ApproveLoop(s)
        /\ ~ ApproveDelivery(s) /\ ~ RejectLoop(s) /\ ~ RejectReview(s)
        /\ ~ RecordConsult(s) /\ ~ WakeOwner(s)
    BY <2>1 DEF SweepQueued, RecordDecision, ApproveLoop, ApproveDelivery,
         RejectLoop, RejectReview, RecordConsult, WakeOwner, Decided
  <2>3. /\ \A key \in RunIds \cup {NoRun}, what \in {"approve", "reject"} :
             ~ BeginDecision(s, key, what)
        /\ ~ BeginContinue(s) /\ ~ BeginRestart(s, "reopen")
    BY DEF BeginDecision, BeginContinue, BeginRestart, Terminal
  <2>4. \A r \in RunIds, a \in Agents : ~ AskConsult(s, r, a)
    BY DEF AskConsult
  <2>5. \A r \in RunIds : ~ Reply(s, r)
    BY <1>1 DEF Reply, Ended
  <2>6. QED
    BY <1>3, <2>2, <2>3, <2>4, <2>5 DEF SessionStep
<1>4. \A a \in Agents : ~ HumanMention(a)
  BY DEF HumanMention
<1>5. ~ Route /\ ~ ReturnToQueue
  BY <1>1 DEF Route, ReturnToQueue
<1>6. QED
  BY <1>2, <1>3, <1>4, <1>5 DEF Next, DaemonStep, BacklogAction

(* While the goal stays in the backlog nothing is born.                    *)
LEMMA BacklogRows ==
    ASSUME TypeInv, BacklogIdle, status = "backlog", status' = "backlog",
           BacklogAction
    PROVE  \A r \in RunIds : run'[r].status = "none"
<1>1. \A r \in RunIds : run[r].status = "none"
  BY DEF BacklogIdle
<1>2. ASSUME Quiet(run, run')
      PROVE  \A r \in RunIds : run'[r].status = "none"
  BY <1>1, <1>2 DEF Quiet, Kept, Moved, Pending
<1>3. run \in RunTableType
  BY DEF TypeInv, TypeOK
<1>4. ASSUME NEW S, NEW why, run' = CancelRuns(run, S, why),
             \A r \in S : r \in RunIds /\ run[r].status # "none"
      PROVE  Quiet(run, run')
  BY <1>1, <1>3, <1>4, CancelQuiet
<1>5. CASE \E o \in Owners : Assign(o)
  <2>1. run' = CancelRuns(run, QueuedOwner(run), "handoff")
    BY <1>5 DEF Assign
  <2>2. \A r \in QueuedOwner(run) : r \in RunIds /\ run[r].status # "none"
    BY DEF QueuedOwner, Queued
  <2>3. QED
    BY <1>2, <1>4, <2>1, <2>2
<1>6. ASSUME NEW e \in cuts, CutOldOwner(e)
      PROVE  \A r \in RunIds : run'[r].status = "none"
  <2> DEFINE S == {r \in RunningOwner(run) :
                      e.owner = Human \/ run[r].agent # AgentOf(e.owner)}
  <2>1. run' = CancelRuns(run, S, "handoff")
    BY <1>6 DEF CutOldOwner
  <2>2. \A r \in S : r \in RunIds /\ run[r].status # "none"
    BY DEF RunningOwner
  <2> HIDE DEF S
  <2>3. QED
    BY <1>2, <1>4, <2>1, <2>2
<1>7. ASSUME NEW j \in Jobs, JobStep(j)
      PROVE  \A r \in RunIds : run'[r].status = "none"
  <2>1. CASE Delivered(j)
    <3>1. run' = CancelRuns(run, Queued(run), "goal_terminal")
      BY <2>1 DEF Delivered
    <3>2. \A r \in Queued(run) : r \in RunIds /\ run[r].status # "none"
      BY DEF Queued
    <3>3. QED
      BY <1>2, <1>4, <3>1, <3>2
  <2>2. CASE StartMerge(j) \/ DeliverFailed(j)
    BY <1>1, <2>2 DEF StartMerge, DeliverFailed
  <2>3. QED
    BY <1>7, <2>1, <2>2 DEF JobStep
<1>8. CASE Recover
  <2> DEFINE ended == status \in Terminal
  <2>1. run' = RequeueRunning(run, ended)
    BY <1>8 DEF Recover
  <2>2. ended \in BOOLEAN
    OBVIOUS
  <2> HIDE DEF ended
  <2>3. QED
    BY <1>2, <1>3, <2>1, <2>2, RequeueQuiet
<1>9. \A s \in Sessions : ~ CancelGoal(s) /\ ~ RestartGoal(s)
  <2>1. \A s \in Sessions : RestartGoal(s) => sess[s].pc = "relaunch"
    BY DEF RestartGoal, BacklogIdle
  <2>2. \A s \in Sessions : RestartGoal(s) => status' = "active"
    BY <2>1 DEF RestartGoal
  <2>3. QED
    BY <2>2 DEF CancelGoal
<1>10. ASSUME \/ \E s \in Sessions : RefuseRestart(s) \/ BeginRestart(s, "relaunch")
              \/ Crash \/ Boot \/ StartDispatch
       PROVE  \A r \in RunIds : run'[r].status = "none"
  BY <1>1, <1>10 DEF RefuseRestart, BeginRestart, Crash, Boot, StartDispatch
<1>11. ~ Activate
  BY DEF Activate
<1>12. QED
  BY <1>5, <1>6, <1>7, <1>8, <1>9, <1>10, <1>11 DEF BacklogAction

(* No step leads back to the backlog.                                      *)
LEMMA BacklogStays ==
    ASSUME Next, status' = "backlog"
    PROVE  status = "backlog"
<1>1. CASE UNCHANGED status
  BY <1>1
<1>2. CASE Activate \/ \E o \in Owners : Assign(o)
  BY <1>2 DEF Activate, Assign
<1>3. ASSUME NEW r \in RunIds, RunStep(r)
      PROVE  status = "backlog"
  BY <1>3 DEF RunStep, Claim, BackoffOver, AskHuman, StopRun, ReapRunaway, Finish,
       ReconcileOnRunEnd, DiscardGuest, DiscardCancelled, HoldActive,
       ParkInReview, PromoteDone, RetryRun, FailGoal, NoteCancelled, goalVars
<1>4. ASSUME NEW s \in Sessions, SessionStep(s)
      PROVE  status = "backlog"
  BY <1>4 DEF SessionStep, CancelGoal, SweepQueued, BeginDecision, RecordDecision,
       ApproveLoop, ApproveDelivery, RejectLoop, RejectReview, BeginRestart,
       RestartGoal, RefuseRestart, AskConsult, RecordConsult, BeginContinue,
       Reply, WakeOwner, goalVars
<1>5. ASSUME NEW j \in Jobs, JobStep(j)
      PROVE  status = "backlog"
  BY <1>5 DEF JobStep, StartMerge, Delivered, DeliverFailed, goalVars
<1>6. CASE DaemonStep \/ \E e \in cuts : CutOldOwner(e)
  BY <1>6 DEF DaemonStep, Crash, Boot, Recover, StartDispatch, Route, ReturnToQueue,
       CutOldOwner, goalVars
<1>7. CASE \E a \in Agents : HumanMention(a)
  BY <1>7 DEF HumanMention, goalVars
<1>8. QED
  BY <1>2, <1>3, <1>4, <1>5, <1>6, <1>7 DEF Next

(* The only handler that waits on such a goal is a relaunch.               *)
LEMMA BacklogSessions ==
    ASSUME TypeInv, status' = "backlog", BacklogAction,
           \A s \in Sessions : sess[s].pc \in {"idle", "relaunch"}
    PROVE  \A s \in Sessions : sess'[s].pc \in {"idle", "relaunch"}
<1>1. sess \in [Sessions -> Session] /\ Idle.pc = "idle"
  BY IdleType DEF TypeInv, TypeOK
<1>2. CASE UNCHANGED sess
  BY <1>2
<1>3. CASE \E s \in Sessions : RestartGoal(s) \/ RefuseRestart(s)
  BY <1>1, <1>3 DEF RestartGoal, RefuseRestart, End
<1>4. ASSUME NEW s \in Sessions, BeginRestart(s, "relaunch")
      PROVE  \A t \in Sessions : sess'[t].pc \in {"idle", "relaunch"}
  <2>1. [Idle EXCEPT !.pc = "relaunch", !.owner = owner].pc = "relaunch"
    BY DEF Idle
  <2>2. sess' = [sess EXCEPT ![s] = [Idle EXCEPT !.pc = "relaunch", !.owner = owner]]
    BY <1>4 DEF BeginRestart, Begin
  <2>3. QED
    BY <1>1, <2>1, <2>2
<1>5. CASE Crash
  BY <1>1, <1>5 DEF Crash
<1>6. \A s \in Sessions : ~ CancelGoal(s)
  BY DEF CancelGoal
<1>7. CASE \/ Activate \/ \E o \in Owners : Assign(o)
           \/ \E e \in cuts : CutOldOwner(e)
           \/ \E j \in Jobs : JobStep(j)
           \/ Boot \/ Recover \/ StartDispatch
  BY <1>2, <1>7 DEF Activate, Assign, CutOldOwner, JobStep, StartMerge, Delivered,
       DeliverFailed, Boot, Recover, StartDispatch, taskVars
<1>8. QED
  BY <1>3, <1>4, <1>5, <1>6, <1>7 DEF BacklogAction

(* So nothing has run on a goal that never left the backlog.               *)
LEMMA BacklogStep == TypeInv /\ BacklogIdle /\ [Next]_vars => BacklogIdle'
<1> SUFFICES ASSUME TypeInv, BacklogIdle, [Next]_vars, status' = "backlog"
             PROVE  BacklogIdle'
  BY DEF BacklogIdle
<1>1. CASE UNCHANGED vars
  BY <1>1 DEF vars, goalVars, taskVars, procVars, BacklogIdle
<1>2. CASE Next
  <2>1. status = "backlog"
    BY <1>2, BacklogStays
  <2>2. BacklogAction
    BY <1>2, <2>1, BacklogActions
  <2>3. \A r \in RunIds : run'[r].status = "none"
    BY <2>1, <2>2, BacklogRows
  <2>4. /\ \A s \in Sessions : sess[s].pc \in {"idle", "relaunch"}
        /\ finishing = {} /\ replay = {} /\ routing = NoRun
    BY <2>1 DEF BacklogIdle
  <2>5. finishing' = {} /\ routing' = NoRun
    BY <2>2, <2>4
       DEF BacklogAction, Activate, Assign, CutOldOwner, CancelGoal, RestartGoal,
           RefuseRestart, BeginRestart, JobStep, StartMerge, Delivered,
           DeliverFailed, Crash, Boot, Recover, StartDispatch, taskVars, procVars
  <2>6. replay' = {}
    <3>1. CASE Recover
      BY <2>3, <3>1 DEF Recover, Unreconciled
    <3>2. CASE ~ Recover
      BY <2>2, <2>4, <3>2
         DEF BacklogAction, Activate, Assign, CutOldOwner, CancelGoal, RestartGoal,
             RefuseRestart, BeginRestart, JobStep, StartMerge, Delivered,
             DeliverFailed, Crash, Boot, StartDispatch, taskVars, procVars
    <3>3. QED
      BY <3>1, <3>2
  <2>7. \A s \in Sessions : sess'[s].pc \in {"idle", "relaunch"}
    BY <2>1, <2>2, <2>4, BacklogSessions
  <2>8. QED
    BY <2>3, <2>5, <2>6, <2>7 DEF BacklogIdle
<1>3. QED
  BY <1>1, <1>2

(* A change of status along an edge, the branch left to its writer.        *)
LEMMA EdgeStep ==
    ASSUME RunningOwner(run') = RunningOwner(run),
           \/ status = "backlog" /\ status' = "active"
           \/ status = "active" /\ status' = "review"
           \/ status = "review" /\ status' = "active"
           \/ status \in {"active", "review"} /\ status' \in {"done", "failed"}
           \/ status \in {"backlog", "active", "review"} /\ status' = "cancelled"
           \/ status \in Terminal /\ status' = "active"
    PROVE  Lifecycle!Next
  BY DEF Lifecycle!Next, Lifecycle!Start, Lifecycle!Park, Lifecycle!Release,
         Lifecycle!Complete, Lifecycle!Fail, Lifecycle!Cancel, Lifecycle!Reopen,
         Lifecycle!Edge, Lifecycle!Terminal, Terminal

(* No change of status: a writer begins, or some stop, or nothing happens. *)
LEMMA WorkStep ==
    ASSUME TypeInv, [Next]_vars, status' = status
    PROVE  Lifecycle!Next
<1>1. CASE RunningOwner(run') \subseteq RunningOwner(run)
  BY <1>1 DEF Lifecycle!Next, Lifecycle!Stop
<1>2. ASSUME NEW r \in RunIds, Claim(r), RunningOwner(run) = {},
             RunningOwner(run') = {r}
      PROVE  Lifecycle!Next
  <2>1. run[r].role = "owner"
    BY <1>2, ClaimRows DEF RunningOwner
  <2>2. status = "active"
    BY <1>2, <2>1 DEF Claim
  <2>3. Lifecycle!Begin(r)
    BY <1>2, <2>2 DEF Lifecycle!Begin
  <2>4. QED
    BY <2>3 DEF Lifecycle!Next
<1>3. QED
  BY <1>1, <1>2, WritersStep

(* Every step is a step of the life cycle or invisible there.              *)
LEMMA LifecycleStep ==
    TypeInv /\ BacklogIdle /\ [Next]_vars => [Lifecycle!Next]_(Lifecycle!vars)
<1> SUFFICES ASSUME TypeInv, BacklogIdle, [Next]_vars, status' # status
             PROVE  Lifecycle!Next
  BY WorkStep
<1>1. status \in GoalStatus
  BY DEF TypeInv, TypeOK
<1>2. CASE Activate
  BY <1>2, ActivateTable, EdgeStep DEF Activate
<1>3. ASSUME NEW o \in Owners, Assign(o)
      PROVE  Lifecycle!Next
  <2>1. status = "active" /\ status' = "review"
    BY <1>3 DEF Assign
  <2>2. QED
    BY <1>3, <2>1, AssignTable, EdgeStep
<1>4. ASSUME NEW r \in RunIds, RunStep(r)
      PROVE  Lifecycle!Next
  <2>1. ReconcileOnRunEnd(r)
    BY <1>4 DEF RunStep, Claim, BackoffOver, AskHuman, StopRun, ReapRunaway,
         Finish, goalVars
  <2>2. RunningOwner(run') = RunningOwner(run)
    BY <2>1, ReconcileTable
  <2>3. CASE ParkInReview(r)
    BY <2>2, <2>3, EdgeStep DEF ParkInReview
  <2>4. CASE PromoteDone(r)
    BY <2>2, <2>4, EdgeStep DEF PromoteDone
  <2>5. CASE FailGoal(r)
    <3>1. status' = "failed" /\ status \notin Terminal \cup {"review"}
      BY <2>5 DEF FailGoal
    <3>2. r \in finishing \/ r \in replay
      BY <2>5 DEF FailGoal, Judged, Reconcile
    <3>3. status # "backlog"
      BY <3>2 DEF BacklogIdle
    <3>4. status = "active"
      BY <1>1, <3>1, <3>3 DEF GoalStatus, Terminal
    <3>5. QED
      BY <2>2, <3>1, <3>4, EdgeStep
  <2>6. QED
    BY <2>1, <2>3, <2>4, <2>5
       DEF ReconcileOnRunEnd, DiscardGuest, DiscardCancelled, HoldActive,
           RetryRun, NoteCancelled, goalVars
<1>5. ASSUME NEW s \in Sessions, SessionStep(s)
      PROVE  Lifecycle!Next
  <2>1. CASE CancelGoal(s)
    BY <1>1, <2>1, EdgeStep DEF CancelGoal, GoalStatus, Terminal
  <2>2. CASE ApproveLoop(s)
    BY <2>2, EdgeStep DEF ApproveLoop
  <2>3. CASE RejectLoop(s)
    BY <2>3, EdgeStep DEF RejectLoop
  <2>4. CASE RejectReview(s)
    BY <2>4, RejectReviewTable, EdgeStep DEF RejectReview
  <2>5. CASE RestartGoal(s)
    <3>1. status' = "active" /\ status \in Terminal \cup {"backlog", "review"}
      BY <2>5 DEF RestartGoal
    <3>2. QED
      BY <2>5, <3>1, RestartGoalTable, EdgeStep
  <2>6. QED
    BY <1>5, <2>1, <2>2, <2>3, <2>4, <2>5
       DEF SessionStep, SweepQueued, BeginDecision, RecordDecision,
           ApproveDelivery, BeginRestart, RefuseRestart, AskConsult,
           RecordConsult, BeginContinue, Reply, WakeOwner, goalVars
<1>6. ASSUME NEW j \in Jobs, JobStep(j)
      PROVE  Lifecycle!Next
  <2>1. Delivered(j)
    BY <1>6 DEF JobStep, StartMerge, DeliverFailed, goalVars
  <2>2. status = "review" /\ status' = "done"
    BY <2>1 DEF Delivered
  <2>3. QED
    BY <2>1, <2>2, DeliveredTable, EdgeStep
<1>7. ~ DaemonStep /\ ~ \E e \in cuts : CutOldOwner(e)
  BY DEF DaemonStep, Crash, Boot, Recover, StartDispatch, Route, ReturnToQueue,
       CutOldOwner, goalVars
<1>8. \A a \in Agents : ~ HumanMention(a)
  BY DEF HumanMention, goalVars
<1>9. ~ UNCHANGED vars
  BY DEF vars, goalVars
<1>10. QED
  BY <1>2, <1>3, <1>4, <1>5, <1>6, <1>7, <1>8, <1>9 DEF Next

(* Every behaviour of the goal layer, crashes and late handlers included,  *)
(* is one of the goal life cycle: the status moves along its edges only,   *)
(* work begins on an active goal nobody works on, and no change of status  *)
(* hands the branch over.                                                  *)
THEOREM LifecycleImplemented == Spec => ImplementsLifecycle
<1>1. Init => Lifecycle!Init
  <2>1. Init => \A r \in RunIds : run[r].status = "none"
    BY InitRows
  <2>2. QED
    BY <2>1 DEF Init, Lifecycle!Init, RunningOwner
<1>2. TypeInv /\ BacklogIdle /\ [Next]_vars => [Lifecycle!Next]_(Lifecycle!vars)
  BY LifecycleStep
<1>3. TypeInv /\ [Next]_vars => TypeInv'
  BY NextType
<1>4. TypeInv /\ BacklogIdle /\ [Next]_vars => BacklogIdle'
  BY BacklogStep
<1>5. QED
  BY <1>1, <1>2, <1>3, <1>4, InitType, BacklogInit, PTL
     DEF Spec, ImplementsLifecycle, Lifecycle!Spec

-----------------------------------------------------------------------------
(* The branch changes hands.  What a handoff promises is kept by the cut   *)
(* of its goal:assigned event and by the intents it drops, as long as the  *)
(* event is not lost in a crash, no handler queues a run for the owner it  *)
(* read before a handoff, and no claimed run goes back to the queue.       *)

NoCrash == MaxCrashes = 0

(* No handler acts for an owner it read before a handoff.                  *)
FreshHandlers ==
    \A s \in Sessions :
        RejectReview(s) \/ RestartGoal(s) \/ WakeOwner(s) => sess[s].owner = owner

(* Only assignee o has owner runs in the queue.                            *)
OwnedQueue(rs, o) ==
    \A r \in QueuedOwner(rs) : o # Human /\ rs[r].agent = AgentOf(o)

(* The event of the last handoff, whose handler has yet to run.            *)
LatestCut == [n |-> handoffs, owner |-> owner]

(* An owner run of an agent that lost the goal is about to be cut.         *)
CutInv ==
    /\ OwnedQueue(run, owner)
    /\ \A r \in RunningOwner(run) : OwnsGoal(run[r].agent) \/ LatestCut \in cuts

(* Rows that stay what they are, or leave the queue, keep it the owner's.  *)
LEMMA QueueKept ==
    ASSUME NEW rs, NEW rs2, NEW o, OwnedQueue(rs, o),
           \A r \in RunIds : rs2[r].status = "queued" =>
               rs[r].status = "queued" /\ rs2[r].role = rs[r].role
                                       /\ rs2[r].agent = rs[r].agent
    PROVE  OwnedQueue(rs2, o)
  BY DEF OwnedQueue, QueuedOwner, Queued

(* enqueueTx keeps it so, if an owner run is asked for by the owner.       *)
LEMMA EnqueueOwned ==
    ASSUME NEW rs \in RunTableType, NEW f \in RunIds, NEW o, OwnedQueue(rs, o),
           NEW a \in Agents, NEW role \in Role, NEW leader \in BOOLEAN,
           NEW attempt \in 1..MaxAttempts,
           role = "owner" => o # Human /\ a = AgentOf(o)
    PROVE  OwnedQueue(Enqueue(rs, f, a, role, leader, attempt), o)
<1> DEFINE rs2 == Enqueue(rs, f, a, role, leader, attempt)
<1> HIDE DEF rs2
<1>1. CASE PendingOf(rs, a, role) = {}
  <2>1. rs2 = [rs EXCEPT ![f] = NewRun(a, role, leader, attempt)]
    BY <1>1 DEF Enqueue, rs2
  <2>2. /\ rs2[f].agent = a /\ rs2[f].role = role
        /\ \A q \in RunIds \ {f} : rs2[q] = rs[q]
    BY <2>1 DEF NewRun, RunTableType
  <2>3. ASSUME NEW r \in QueuedOwner(rs2)
        PROVE  o # Human /\ rs2[r].agent = AgentOf(o)
    <3>1. r \in RunIds /\ rs2[r].status = "queued" /\ rs2[r].role = "owner"
      BY DEF QueuedOwner, Queued
    <3>2. CASE r = f
      BY <2>2, <3>1, <3>2
    <3>3. CASE r # f
      BY <2>2, <3>1, <3>3 DEF OwnedQueue, QueuedOwner, Queued
    <3>4. QED
      BY <3>2, <3>3
  <2>4. QED
    BY <2>3 DEF OwnedQueue, rs2
<1>2. CASE PendingOf(rs, a, role) # {}
  <2>1. \A q \in RunIds : rs2[q] = rs[q] \/ rs2[q] = [rs[q] EXCEPT !.due = TRUE]
    BY <1>2 DEF Enqueue, rs2
  <2>2. ASSUME NEW q \in RunIds
        PROVE  /\ rs2[q].status = rs[q].status
               /\ rs2[q].role = rs[q].role /\ rs2[q].agent = rs[q].agent
    <3>1. rs[q] \in RunRow
      BY DEF RunTableType
    <3>2. CASE rs2[q] = rs[q]
      BY <3>2
    <3>3. CASE rs2[q] = [rs[q] EXCEPT !.due = TRUE]
      BY <3>1, <3>3 DEF RunRow
    <3>4. QED
      BY <2>1, <3>2, <3>3
  <2>3. OwnedQueue(rs2, o)
    BY <2>2, QueueKept
  <2>4. QED
    BY <2>3 DEF rs2
<1>3. QED
  BY <1>1, <1>2

(* The run of an assignee, enqueued for that assignee.                     *)
LEMMA EnqueueOwnerOwned ==
    ASSUME NEW rs \in RunTableType, NEW f \in RunIds, NEW o \in Owners,
           OwnedQueue(rs, o)
    PROVE  OwnedQueue(EnqueueOwner(rs, f, o), o)
<1>1. CASE o = Human
  BY <1>1 DEF EnqueueOwner
<1>2. CASE o # Human
  <2> DEFINE leader == o \in Squads
             a == AgentOf(o)
  <2>1. EnqueueOwner(rs, f, o) = Enqueue(rs, f, a, "owner", leader, 1)
    BY <1>2 DEF EnqueueOwner
  <2>2. /\ a \in Agents /\ leader \in BOOLEAN
        /\ "owner" \in Role /\ 1 \in 1..MaxAttempts
    BY <1>2, AgentOfType, RunTableAssumption DEF Role
  <2>3. o # Human /\ a = AgentOf(o)
    BY <1>2
  <2> HIDE DEF leader, a
  <2>4. QED
    BY <2>1, <2>2, <2>3, EnqueueOwned
<1>3. QED
  BY <1>1, <1>2

(* Cancelled rows leave the queue.                                         *)
LEMMA CancelOwned ==
    ASSUME NEW rs \in RunTableType, NEW S, NEW why, NEW o, OwnedQueue(rs, o)
    PROVE  OwnedQueue(CancelRuns(rs, S, why), o)
<1> DEFINE rs2 == CancelRuns(rs, S, why)
<1> HIDE DEF rs2
<1>1. \A r \in RunIds \cap S :
         rs2[r] = [rs[r] EXCEPT !.status = "cancelled", !.reason = why]
  BY DEF CancelRuns, rs2
<1>2. \A r \in RunIds \cap S : rs2[r].status = "cancelled"
  BY <1>1 DEF RunTableType, RunRow
<1>3. \A r \in RunIds \ S : rs2[r] = rs[r]
  BY DEF CancelRuns, rs2
<1>4. OwnedQueue(rs2, o)
  BY <1>2, <1>3, QueueKept
<1>5. QED
  BY <1>4 DEF rs2

(* The reconcile stamp changes nothing in the queue.                       *)
LEMMA BookedOwned ==
    ASSUME NEW rs, NEW rs2, Booked(rs, rs2), NEW o, OwnedQueue(rs, o)
    PROVE  OwnedQueue(rs2, o)
  BY QueueKept DEF Booked, Kept

(* Judging an end leaves the queue its owner's.                           *)
LEMMA StampedOwned ==
    ASSUME NEW rs \in RunTableType, NEW r \in RunIds, NEW o, OwnedQueue(rs, o)
    PROVE  OwnedQueue(Stamped(rs, r), o)
  BY StampedTable, BookedOwned

(* While nothing crashes the process stays up.                             *)
LEMMA UpStep ==
    ASSUME NoCrash, TypeInv, daemon = "up", [Next]_vars
    PROVE  daemon' = "up"
<1>1. ~ Crash
  BY DEF NoCrash, TypeInv, TypeOK, Crash
<1>2. CASE UNCHANGED daemon
  BY <1>2
<1>3. CASE Boot \/ Recover \/ StartDispatch
  BY <1>3 DEF Boot, Recover, StartDispatch
<1>4. CASE Route \/ ReturnToQueue
  BY <1>4 DEF Route, ReturnToQueue
<1>5. ASSUME NEW r \in RunIds, RunStep(r)
      PROVE  UNCHANGED daemon
  BY <1>5 DEF RunStep, Claim, BackoffOver, AskHuman, StopRun, ReapRunaway, Finish,
       procVars, ReconcileOnRunEnd, DiscardGuest, DiscardCancelled, HoldActive,
       ParkInReview, PromoteDone, RetryRun, FailGoal, NoteCancelled
<1>6. ASSUME NEW s \in Sessions, SessionStep(s)
      PROVE  UNCHANGED daemon
  BY <1>6 DEF SessionStep, CancelGoal, SweepQueued, BeginDecision, RecordDecision,
       ApproveLoop, ApproveDelivery, RejectLoop, RejectReview, BeginRestart,
       RestartGoal, RefuseRestart, AskConsult, RecordConsult, BeginContinue,
       Reply, WakeOwner, procVars
<1>7. ASSUME NEW j \in Jobs, JobStep(j)
      PROVE  UNCHANGED daemon
  BY <1>7 DEF JobStep, StartMerge, Delivered, DeliverFailed, procVars
<1>8. CASE \/ Activate \/ \E o \in Owners : Assign(o)
           \/ \E e \in cuts : CutOldOwner(e)
           \/ \E a \in Agents : HumanMention(a)
  BY <1>8 DEF Activate, Assign, CutOldOwner, HumanMention, procVars
<1>9. CASE UNCHANGED vars
  BY <1>9 DEF vars, procVars
<1>10. QED
  BY <1>1, <1>2, <1>3, <1>4, <1>5, <1>6, <1>7, <1>8, <1>9 DEF Next, DaemonStep

(* A handoff empties the owner queue before it queues the new owner's run. *)
LEMMA AssignOwned ==
    ASSUME TypeInv, NEW o \in Owners, Assign(o)
    PROVE  OwnedQueue(run', owner')
<1> DEFINE dropped == CancelRuns(run, QueuedOwner(run), "handoff")
<1>1. run \in RunTableType /\ owner' = o /\ "handoff" \in Reason
  BY DEF TypeInv, TypeOK, Assign, Reason
<1>2. \/ run' = dropped
      \/ \E f \in FreshRow(run) : run' = EnqueueOwner(dropped, f, o)
  BY DEF Assign
<1>3. \A r \in QueuedOwner(run) :
         dropped[r] = [run[r] EXCEPT !.status = "cancelled", !.reason = "handoff"]
  BY DEF CancelRuns, QueuedOwner, Queued
<1>4. \A r \in RunIds \ QueuedOwner(run) : dropped[r] = run[r]
  BY DEF CancelRuns
<1>5. dropped \in RunTableType
  BY <1>1, CancelType
<1> HIDE DEF dropped
<1>6. \A r \in QueuedOwner(run) : dropped[r].status = "cancelled"
  BY <1>1, <1>3 DEF QueuedOwner, Queued, RunTableType, RunRow
<1>7. QueuedOwner(dropped) = {}
  BY <1>4, <1>6 DEF QueuedOwner, Queued
<1>8. OwnedQueue(dropped, o)
  BY <1>7 DEF OwnedQueue
<1>9. QED
  BY <1>1, <1>2, <1>5, <1>8, EnqueueOwnerOwned, FreshRowUnused

(* The end of a run queues work for the owner only.                        *)
LEMMA ReconcileOwned ==
    ASSUME TypeInv, OwnedQueue(run, owner), NEW r \in RunIds, ReconcileOnRunEnd(r)
    PROVE  OwnedQueue(run', owner)
<1>1. run \in RunTableType /\ run[r] \in RunRow
  BY DEF TypeInv, TypeOK, RunTableType
<1>2. "owner" \in Role /\ "review" \in Role /\ 1 \in 1..MaxAttempts /\ FALSE \in BOOLEAN
  BY RunTableAssumption DEF Role
<1>3. CASE run' = Stamped(run, r)
  BY <1>1, <1>3, StampedOwned
<1>4. CASE DiscardGuest(r)
  <2>1. CASE \E a \in run[r].askers :
               /\ OwnsGoal(a)
               /\ \E f \in FreshRow(run) :
                    run' = Stamped(Enqueue(run, f, a, "owner", FALSE, 1), r)
    <3>1. PICK a \in run[r].askers, f \in FreshRow(run) :
            /\ OwnsGoal(a)
            /\ run' = Stamped(Enqueue(run, f, a, "owner", FALSE, 1), r)
      BY <2>1
    <3>2. a \in Agents /\ f \in RunIds /\ run[f].status = "none"
      BY <1>1, FreshRowUnused DEF RunRow
    <3> DEFINE mid == Enqueue(run, f, a, "owner", FALSE, 1)
    <3>3. OwnedQueue(mid, owner)
      BY <1>1, <1>2, <3>1, <3>2, EnqueueOwned DEF OwnsGoal
    <3>4. mid \in RunTableType
      BY <1>1, <1>2, <3>2, EnqueueType
    <3> HIDE DEF mid
    <3>5. QED
      BY <3>1, <3>3, <3>4, StampedOwned DEF mid
  <2>2. \/ run' = Stamped(run, r)
        \/ \E a \in run[r].askers :
             /\ OwnsGoal(a)
             /\ \E f \in FreshRow(run) :
                  run' = Stamped(Enqueue(run, f, a, "owner", FALSE, 1), r)
    BY <1>4 DEF DiscardGuest
  <2>3. QED
    BY <1>3, <2>1, <2>2
<1>5. CASE ParkInReview(r)
  <2> DEFINE reviewer == IF owner \in Squads THEN Reviewer[owner] ELSE NoAgent
  <2>1. \/ run' = Stamped(run, r)
        \/ /\ reviewer # NoAgent
           /\ \E f \in FreshRow(run) :
                run' = Stamped(Enqueue(run, f, reviewer, "review", FALSE, 1), r)
    BY <1>5 DEF ParkInReview
  <2>2. reviewer \in Agents \cup {NoAgent}
    BY GoalRunAssumption
  <2> HIDE DEF reviewer
  <2>3. ASSUME reviewer # NoAgent, NEW f \in FreshRow(run),
               run' = Stamped(Enqueue(run, f, reviewer, "review", FALSE, 1), r)
        PROVE  OwnedQueue(run', owner)
    <3> DEFINE mid == Enqueue(run, f, reviewer, "review", FALSE, 1)
    <3>1. f \in RunIds /\ run[f].status = "none"
      BY FreshRowUnused
    <3>2. reviewer \in Agents
      BY <2>2, <2>3
    <3>3. OwnedQueue(mid, owner)
      BY <1>1, <1>2, <3>1, <3>2, EnqueueOwned
    <3>4. mid \in RunTableType
      BY <1>1, <1>2, <3>1, <3>2, EnqueueType
    <3> HIDE DEF mid
    <3>5. QED
      BY <2>3, <3>3, <3>4, StampedOwned DEF mid
  <2>4. QED
    BY <1>3, <2>1, <2>3
<1>6. CASE PromoteDone(r) \/ FailGoal(r)
  <2> DEFINE mid == CancelRuns(run, Queued(run), "goal_terminal")
  <2>1. run' = Stamped(mid, r)
    BY <1>6 DEF PromoteDone, FailGoal
  <2>2. mid \in RunTableType
    BY <1>1, CancelType DEF Reason
  <2>3. OwnedQueue(mid, owner)
    BY <1>1, CancelOwned
  <2> HIDE DEF mid
  <2>4. QED
    BY <2>1, <2>2, <2>3, StampedOwned
<1>7. CASE RetryRun(r)
  <2> DEFINE a == run[r].agent
             attempt == run[r].attempt + 1
             leader == run[r].leader
  <2>1. /\ a \in Agents /\ leader \in BOOLEAN /\ attempt \in 1..MaxAttempts
        /\ owner # Human /\ a = AgentOf(owner)
    BY <1>1, <1>7, RunTableAssumption DEF RetryRun, Judged, OwnRun, OwnsGoal, RunRow
  <2>2. PICK f \in FreshRow(run) :
          LET next == Enqueue(run, f, a, "owner", leader, attempt)
          IN  run' = Stamped([g \in RunIds |->
                        IF g \in PendingOf(next, a, "owner")
                          THEN [next[g] EXCEPT !.due = FALSE] ELSE next[g]], r)
    BY <1>7 DEF RetryRun
  <2> DEFINE next == Enqueue(run, f, a, "owner", leader, attempt)
             later == [g \in RunIds |->
                         IF g \in PendingOf(next, a, "owner")
                           THEN [next[g] EXCEPT !.due = FALSE] ELSE next[g]]
  <2>3. f \in RunIds /\ run[f].status = "none"
    BY FreshRowUnused
  <2>4. run' = Stamped(later, r)
    BY <2>2
  <2> HIDE DEF a, attempt, leader
  <2>5. next \in RunTableType
    BY <1>1, <1>2, <2>1, <2>3, EnqueueType
  <2>6. OwnedQueue(next, owner)
    BY <1>1, <1>2, <2>1, <2>3, EnqueueOwned
  <2> HIDE DEF next
  <2>7. \A g \in RunIds : next[g] \in RunRow /\ [next[g] EXCEPT !.due = FALSE] \in RunRow
    BY <2>5 DEF RunTableType, RunRow
  <2>8. later \in RunTableType
    BY <2>7 DEF RunTableType
  <2>9. \A g \in RunIds : later[g] = next[g] \/ later[g] = [next[g] EXCEPT !.due = FALSE]
    OBVIOUS
  <2> HIDE DEF later
  <2>10. Booked(next, later)
    BY <2>7, <2>9 DEF Booked, Kept, RunRow
  <2>11. QED
    BY <2>4, <2>6, <2>8, <2>10, BookedOwned, StampedOwned
<1>8. CASE DiscardCancelled(r) \/ HoldActive(r) \/ NoteCancelled(r)
  BY <1>3, <1>8 DEF DiscardCancelled, HoldActive, NoteCancelled
<1>9. QED
  BY <1>4, <1>5, <1>6, <1>7, <1>8 DEF ReconcileOnRunEnd

(* No step puts an owner run in the queue for anyone but the owner.        *)
LEMMA OwnedStep ==
    ASSUME TypeInv, OwnedQueue(run, owner), NeverFull, NothingHeld, daemon = "up",
           [Next]_vars, [FreshHandlers]_vars
    PROVE  OwnedQueue(run', owner')
<1>1. /\ run \in RunTableType /\ owner \in Owners
      /\ "owner" \in Role /\ "consult" \in Role /\ 1 \in 1..MaxAttempts
      /\ FALSE \in BOOLEAN
  BY RunTableAssumption DEF TypeInv, TypeOK, Role
<1>2. ASSUME UNCHANGED run, UNCHANGED owner
      PROVE  OwnedQueue(run', owner')
  BY <1>2
<1>3. ASSUME NEW S, NEW why, run' = CancelRuns(run, S, why), UNCHANGED owner
      PROVE  OwnedQueue(run', owner')
  BY <1>1, <1>3, CancelOwned
<1>4. ASSUME NEW f \in FreshRow(run), run' = EnqueueOwner(run, f, owner), UNCHANGED owner
      PROVE  OwnedQueue(run', owner')
  BY <1>1, <1>4, FreshRowUnused, EnqueueOwnerOwned
<1>5. ASSUME NEW a \in Agents, NEW f \in RowFor(run, a, "consult"),
             run' = Enqueue(run, f, a, "consult", FALSE, 1), UNCHANGED owner
      PROVE  OwnedQueue(run', owner')
  BY <1>1, <1>5, RowForRow, EnqueueOwned
<1>6. CASE Activate
  BY <1>4, <1>6 DEF Activate
<1>7. CASE \E o \in Owners : Assign(o)
  BY <1>7, AssignOwned
<1>8. ASSUME NEW e \in cuts, CutOldOwner(e)
      PROVE  OwnedQueue(run', owner')
  BY <1>3, <1>8 DEF CutOldOwner, goalVars
<1>9. ASSUME NEW a \in Agents, HumanMention(a)
      PROVE  OwnedQueue(run', owner')
  BY <1>5, <1>9 DEF HumanMention, goalVars
<1>10. ASSUME NEW r \in RunIds, RunStep(r)
       PROVE  OwnedQueue(run', owner')
  <2>1. CASE Claim(r)
    <3>1. \A q \in RunIds : run'[q].status = "queued" => run'[q] = run[q]
      BY <2>1, ClaimRows
    <3>2. UNCHANGED owner
      BY <2>1 DEF Claim, goalVars
    <3>3. OwnedQueue(run', owner)
      BY <3>1, QueueKept
    <3>4. QED
      BY <3>2, <3>3
  <2>2. CASE BackoffOver(r) \/ AskHuman(r)
    <3>1. Booked(run, run')
      BY <2>2, BookRunTable
    <3>2. UNCHANGED owner
      BY <2>2 DEF BackoffOver, AskHuman, goalVars
    <3>3. OwnedQueue(run', owner)
      BY <3>1, BookedOwned
    <3>4. QED
      BY <3>2, <3>3
  <2>3. CASE StopRun(r) \/ ReapRunaway(r)
    BY <1>3, <2>3 DEF StopRun, ReapRunaway, goalVars
  <2>4. ASSUME NEW outcome \in Ended, Finish(r, outcome)
        PROVE  OwnedQueue(run', owner')
    <3>1. UNCHANGED owner /\ outcome # "queued"
      BY <2>4 DEF Finish, goalVars, Ended
    <3>2. \A q \in RunIds : q # r => run'[q] = run[q]
      BY <1>1, <2>4 DEF Finish, RunTableType
    <3>3. run'[r].status # "queued"
      <4> DEFINE why == IF outcome = "cancelled" THEN "timeout" ELSE run[r].reason
      <4>1. run[r] \in RunRow
        BY <1>1 DEF RunTableType
      <4>2. run' = [run EXCEPT ![r] = [run[r] EXCEPT !.status = outcome, !.reason = why]]
        BY <1>1, <2>4, <4>1 DEF Finish, RunTableType, RunRow
      <4> HIDE DEF why
      <4>3. run'[r].status = outcome
        BY <1>1, <4>1, <4>2 DEF RunTableType, RunRow
      <4>4. QED
        BY <3>1, <4>3
    <3>4. OwnedQueue(run', owner)
      BY <3>2, <3>3, QueueKept
    <3>5. QED
      BY <3>1, <3>4
  <2>5. CASE ReconcileOnRunEnd(r)
    <3>1. UNCHANGED owner
      BY <2>5 DEF ReconcileOnRunEnd, DiscardGuest, DiscardCancelled, HoldActive,
           ParkInReview, PromoteDone, RetryRun, FailGoal, NoteCancelled, goalVars
    <3>2. QED
      BY <2>5, <3>1, ReconcileOwned
  <2>6. QED
    BY <1>10, <2>1, <2>2, <2>3, <2>4, <2>5 DEF RunStep
<1>11. ASSUME NEW s \in Sessions, SessionStep(s)
       PROVE  OwnedQueue(run', owner')
  <2>1. CASE SweepQueued(s)
    BY <1>3, <2>1 DEF SweepQueued, goalVars
  <2>2. CASE RejectReview(s) \/ RestartGoal(s) \/ WakeOwner(s)
    <3>1. CASE UNCHANGED vars
      BY <1>2, <3>1 DEF vars, goalVars
    <3>2. CASE FreshHandlers
      <4>1. sess[s].owner = owner /\ UNCHANGED owner
        BY <2>2, <3>2 DEF FreshHandlers, RejectReview, RestartGoal, WakeOwner, goalVars
      <4>2. CASE RejectReview(s)
        BY <1>2, <1>4, <4>1, <4>2 DEF RejectReview
      <4>3. CASE RestartGoal(s)
        <5> DEFINE stale == {r \in RunIds : /\ sess[s].pc = "relaunch"
                                            /\ run[r].role = "review"
                                            /\ run[r].status \in Pending}
                   mid == CancelRuns(run, stale, "superseded")
        <5>1. PICK f \in FreshRow(run) : run' = EnqueueOwner(mid, f, sess[s].owner)
          BY <4>3 DEF RestartGoal
        <5>2. f \in RunIds
          BY FreshRowUnused
        <5> HIDE DEF stale
        <5>3. mid \in RunTableType
          BY <1>1, CancelType DEF Reason
        <5>4. OwnedQueue(mid, owner)
          BY <1>1, CancelOwned
        <5> HIDE DEF mid
        <5>5. OwnedQueue(run', owner)
          BY <1>1, <4>1, <5>1, <5>2, <5>3, <5>4, EnqueueOwnerOwned
        <5>6. QED
          BY <4>1, <5>5
      <4>4. CASE WakeOwner(s)
        <5> DEFINE leader == sess[s].owner \in Squads /\ sess[s].pc = "continue"
                   a == AgentOf(sess[s].owner)
        <5>1. PICK f \in FreshRow(run) : run' = Enqueue(run, f, a, "owner", leader, 1)
          BY <4>4 DEF WakeOwner
        <5>2. sess[s].owner # Human
          BY <4>4 DEF WakeOwner, TypeInv, SessionOK
        <5>3. /\ f \in RunIds /\ a \in Agents /\ leader \in BOOLEAN
              /\ owner # Human /\ a = AgentOf(owner)
          BY <1>1, <4>1, <5>2, AgentOfType, FreshRowUnused
        <5> HIDE DEF a, leader
        <5>4. OwnedQueue(run', owner)
          BY <1>1, <5>1, <5>3, EnqueueOwned
        <5>5. QED
          BY <4>1, <5>4
      <4>5. QED
        BY <2>2, <4>2, <4>3, <4>4
    <3>3. QED
      BY <3>1, <3>2
  <2>3. CASE RecordConsult(s) \/ \E r \in RunIds : Reply(s, r)
    <3>1. Booked(run, run')
      BY <2>3, BookSessionTable
    <3>2. UNCHANGED owner
      BY <2>3 DEF RecordConsult, Reply, goalVars
    <3>3. OwnedQueue(run', owner)
      BY <3>1, BookedOwned
    <3>4. QED
      BY <3>2, <3>3
  <2>4. CASE \E r \in RunIds, a \in Agents : AskConsult(s, r, a)
    BY <1>5, <2>4 DEF AskConsult, goalVars
  <2>5. CASE \/ CancelGoal(s) \/ RecordDecision(s) \/ ApproveLoop(s)
             \/ ApproveDelivery(s) \/ RejectLoop(s) \/ RefuseRestart(s)
             \/ BeginContinue(s)
             \/ \E key \in RunIds \cup {NoRun}, what \in {"approve", "reject"} :
                  BeginDecision(s, key, what)
             \/ \E kind \in {"reopen", "relaunch"} : BeginRestart(s, kind)
    BY <1>2, <2>5
       DEF CancelGoal, RecordDecision, ApproveLoop, ApproveDelivery, RejectLoop,
           RefuseRestart, BeginContinue, BeginDecision, BeginRestart, goalVars
  <2>6. QED
    BY <1>11, <2>1, <2>2, <2>3, <2>4, <2>5 DEF SessionStep
<1>12. ASSUME NEW j \in Jobs, JobStep(j)
       PROVE  OwnedQueue(run', owner')
  <2>1. CASE Delivered(j)
    BY <1>3, <2>1 DEF Delivered
  <2>2. CASE StartMerge(j) \/ DeliverFailed(j)
    BY <1>2, <2>2 DEF StartMerge, DeliverFailed, goalVars
  <2>3. QED
    BY <1>12, <2>1, <2>2 DEF JobStep
<1>13. ~ Recover /\ ~ ReturnToQueue
  BY DEF Recover, ReturnToQueue, NothingHeld
<1>14. CASE Crash \/ Boot \/ StartDispatch \/ Route \/ UNCHANGED vars
  BY <1>2, <1>14 DEF Crash, Boot, StartDispatch, Route, vars, goalVars
<1>15. QED
  BY <1>6, <1>7, <1>8, <1>9, <1>10, <1>11, <1>12, <1>13, <1>14 DEF Next, DaemonStep

(* Only a handoff changes the owner; an event stays until its handler runs. *)
LEMMA OwnerKept ==
    ASSUME NoCrash, TypeInv, [Next]_vars, \A o \in Owners : ~ Assign(o)
    PROVE  /\ UNCHANGED <<owner, handoffs>>
           /\ UNCHANGED cuts \/ \E e \in cuts : CutOldOwner(e)
<1>1. ~ Crash
  BY DEF NoCrash, TypeInv, TypeOK, Crash
<1>2. CASE UNCHANGED <<owner, handoffs, cuts>>
  BY <1>2
<1>3. CASE \E e \in cuts : CutOldOwner(e)
  BY <1>3 DEF CutOldOwner, goalVars
<1>4. CASE Activate \/ \E a \in Agents : HumanMention(a)
  BY <1>2, <1>4 DEF Activate, HumanMention, goalVars, taskVars
<1>5. ASSUME NEW r \in RunIds, RunStep(r)
      PROVE  UNCHANGED <<owner, handoffs, cuts>>
  BY <1>5 DEF RunStep, Claim, BackoffOver, AskHuman, StopRun, ReapRunaway, Finish,
       goalVars, taskVars, ReconcileOnRunEnd, DiscardGuest, DiscardCancelled,
       HoldActive, ParkInReview, PromoteDone, RetryRun, FailGoal, NoteCancelled
<1>6. ASSUME NEW s \in Sessions, SessionStep(s)
      PROVE  UNCHANGED <<owner, handoffs, cuts>>
  BY <1>6 DEF SessionStep, CancelGoal, SweepQueued, BeginDecision, RecordDecision,
       ApproveLoop, ApproveDelivery, RejectLoop, RejectReview, BeginRestart,
       RestartGoal, RefuseRestart, AskConsult, RecordConsult, BeginContinue,
       Reply, WakeOwner, goalVars
<1>7. ASSUME NEW j \in Jobs, JobStep(j)
      PROVE  UNCHANGED <<owner, handoffs, cuts>>
  BY <1>7 DEF JobStep, StartMerge, Delivered, DeliverFailed, goalVars
<1>8. CASE Boot \/ Recover \/ StartDispatch \/ Route \/ ReturnToQueue \/ UNCHANGED vars
  BY <1>2, <1>8 DEF Boot, Recover, StartDispatch, Route, ReturnToQueue, vars,
       goalVars, taskVars
<1>9. QED
  BY <1>1, <1>2, <1>3, <1>4, <1>5, <1>6, <1>7, <1>8 DEF Next, DaemonStep

(* The handler of the last handoff leaves no writer but the owner's.       *)
LEMMA LatestCutCuts ==
    ASSUME TypeInv, CutOldOwner(LatestCut), NEW r \in RunningOwner(run')
    PROVE  r \in RunningOwner(run) /\ run'[r] = run[r] /\ OwnsGoal(run[r].agent)
<1> DEFINE S == {q \in RunningOwner(run) :
                    owner = Human \/ run[q].agent # AgentOf(owner)}
<1>1. run \in RunTableType /\ run' = CancelRuns(run, S, "handoff")
  BY DEF TypeInv, TypeOK, CutOldOwner, LatestCut
<1>2. \A q \in S : q \in RunIds
  BY DEF RunningOwner
<1>3. r \in RunIds /\ run'[r].status = "running"
  BY DEF RunningOwner
<1>4. r \notin S
  <2>1. ASSUME r \in S
        PROVE  FALSE
    <3> HIDE DEF S
    <3>1. run[r] \in RunRow
      BY <1>1, <1>3 DEF RunTableType
    <3>2. run'[r] = [run[r] EXCEPT !.status = "cancelled", !.reason = "handoff"]
      BY <1>1, <1>3, <2>1 DEF CancelRuns
    <3>3. run'[r].status = "cancelled"
      BY <3>1, <3>2 DEF RunRow
    <3>4. QED
      BY <1>3, <3>3
  <2>2. QED
    BY <2>1
<1>5. run'[r] = run[r]
  <2> HIDE DEF S
  <2>1. QED
    BY <1>1, <1>3, <1>4 DEF CancelRuns
<1>6. r \in RunningOwner(run)
  BY <1>3, <1>5 DEF RunningOwner
<1>7. QED
  BY <1>4, <1>5, <1>6 DEF OwnsGoal

(* A writer that goes on was one before and works for the same agent.      *)
LEMMA WriterWas ==
    ASSUME NEW rs, NEW rs2, Orderly(rs, rs2), NEW r \in RunningOwner(rs2)
    PROVE  r \in RunningOwner(rs) /\ rs2[r].agent = rs[r].agent
  BY DEF Orderly, Kept, Moved, Born, RunningOwner

(* Every step keeps the handoff invariant: the queue is the owner's, and   *)
(* whoever else still writes has a handler on its way that stops it.       *)
LEMMA CutStep ==
    ASSUME TypeInv, CutInv, NeverFull, NoCrash, NothingHeld, daemon = "up",
           [Next]_vars, [FreshHandlers]_vars
    PROVE  CutInv'
<1>1. OwnedQueue(run', owner')
  BY OwnedStep DEF CutInv
<1>2. ASSUME NEW r \in RunningOwner(run')
      PROVE  (OwnsGoal(run[r].agent) \/ LatestCut \in cuts)'
  <2>1. CASE \E o \in Owners : Assign(o)
    BY <2>1 DEF Assign, LatestCut
  <2>2. CASE \E e \in cuts : CutOldOwner(e) /\ e = LatestCut
    BY <2>2, LatestCutCuts DEF CutOldOwner, goalVars, OwnsGoal, AgentOf
  <2>3. ASSUME \A o \in Owners : ~ Assign(o),
               \A e \in cuts : CutOldOwner(e) => e # LatestCut
        PROVE  (OwnsGoal(run[r].agent) \/ LatestCut \in cuts)'
    <3>1. /\ UNCHANGED <<owner, handoffs>>
          /\ UNCHANGED cuts \/ \E e \in cuts : CutOldOwner(e)
      BY <2>3, OwnerKept
    <3>2. LatestCut \in cuts => LatestCut' \in cuts'
      BY <2>3, <3>1 DEF LatestCut, CutOldOwner
    <3>3. OwnsGoal(run[r].agent) /\ run'[r].agent = run[r].agent
             => OwnsGoal(run[r].agent)'
      BY <3>1 DEF OwnsGoal, AgentOf
    <3>4. CASE Orderly(run, run')
      BY <3>2, <3>3, <3>4, WriterWas DEF CutInv
    <3>5. ASSUME NEW q \in RunIds, Claim(q)
          PROVE  (OwnsGoal(run[r].agent) \/ LatestCut \in cuts)'
      <4>1. CASE r = q
        <5>1. q \in QueuedOwner(run) /\ run'[q].agent = run[q].agent
          BY <1>2, <3>5, <4>1, ClaimRows DEF RunningOwner, QueuedOwner, Queued
        <5>2. OwnsGoal(run[q].agent)
          BY <5>1 DEF CutInv, OwnedQueue, OwnsGoal
        <5>3. QED
          BY <3>3, <4>1, <5>1, <5>2
      <4>2. CASE r # q
        <5>1. r \in RunningOwner(run) /\ run'[r].agent = run[r].agent
          BY <1>2, <3>5, <4>2, ClaimRows DEF RunningOwner
        <5>2. QED
          BY <3>2, <3>3, <5>1 DEF CutInv
      <4>3. QED
        BY <4>1, <4>2
    <3>6. QED
      BY <3>4, <3>5, OrderlyOrClaim
  <2>4. QED
    BY <2>1, <2>2, <2>3
<1>3. QED
  BY <1>1, <1>2 DEF CutInv

(* It holds at the start, when there is no run.                            *)
LEMMA CutInit == Init => CutInv
<1>1. Init => \A r \in RunIds : run[r].status = "none"
  BY InitRows
<1>2. QED
  BY <1>1 DEF CutInv, OwnedQueue, QueuedOwner, Queued, RunningOwner

(* So it is invariant, with what it rests on.                              *)
LEMMA CutInvariant ==
    ASSUME NeverFull, NoCrash
    PROVE  Spec /\ [][FreshHandlers]_vars => []CutInv
<1> DEFINE Inv == TypeInv /\ NothingHeld /\ daemon = "up" /\ CutInv
<1>1. Init => Inv
  BY InitType, HeldInit, CutInit DEF Init
<1>2. ASSUME Inv, [Next]_vars, [FreshHandlers]_vars
      PROVE  Inv'
  <2>1. TypeInv' /\ NothingHeld'
    BY <1>2, NextType, HeldStep
  <2>2. daemon' = "up"
    BY <1>2, UpStep
  <2>3. CutInv'
    BY <1>2, CutStep
  <2>4. QED
    BY <2>1, <2>2, <2>3
<1>3. Inv => CutInv
  OBVIOUS
<1> HIDE DEF Inv
<1>4. QED
  BY <1>1, <1>2, <1>3, PTL DEF Spec

(* A handoff reaches the run table: once the handlers of all handoffs ran, *)
(* no row of a former owner is running, after any sequence of handoffs     *)
(* whose events are handled late and out of order.  This says nothing of   *)
(* an execution on a machine, which is not told of the stamp.  Each of the *)
(* premises is necessary: a crash loses the event, an overflow revives the *)
(* row that was cut, a stale handler queues a run of the former owner.     *)
THEOREM FormerOwnerIsCut ==
    ASSUME NeverFull, NoCrash
    PROVE  Spec /\ [][FreshHandlers]_vars => []HandoffCut
<1>1. CutInv => HandoffCut
  BY DEF CutInv, HandoffCut
<1>2. QED
  BY <1>1, CutInvariant, PTL

(* The dispatch loop gives the branch to the owner of the goal only.       *)
THEOREM OwnerClaims ==
    ASSUME NeverFull, NoCrash
    PROVE  Spec /\ [][FreshHandlers]_vars => ClaimIsOwners
<1> DEFINE Claimed == \A r \in RunIds : Claim(r) /\ run[r].role = "owner"
                                          => OwnsGoal(run[r].agent)
<1>1. CutInv => Claimed
  BY DEF CutInv, OwnedQueue, QueuedOwner, Queued, Claim, OwnsGoal
<1> HIDE DEF Claimed
<1>2. CutInv => [Claimed]_vars
  BY <1>1
<1>3. [][Claimed]_vars => ClaimIsOwners
  BY PTL DEF ClaimIsOwners, Claimed
<1>4. QED
  BY <1>2, <1>3, CutInvariant, PTL

-----------------------------------------------------------------------------
(* What is merged.  ResolveReview and deliverGoal keep each other apart by *)
(* what they read of the goal; that is enough if decisions are taken one   *)
(* at a time and over one channel, no handoff loop and no failed delivery  *)
(* left a note that changes what they read, and no goal is restarted while *)
(* it is being delivered.                                                  *)

OneDecider ==
    /\ \A s1, s2 \in Sessions : s1 = s2
    /\ ~ ({"web", "im"} \subseteq Ops)
    /\ MaxHandoffs < HandoffCycle
    /\ "deliver_fails" \notin Ops

CalmRestart ==
    \A s \in Sessions : RestartGoal(s) => \A j \in Jobs : job[j] = "none"

(* The run_id a decision is taken with.                                    *)
Channel == IF "web" \in Ops THEN NoRun ELSE evidence

Deciding(s) == sess[s].pc \in {"decide", "decided"}
Open == status \in {"backlog", "active"}

(* An approve is of the present review and was taken over the channel.     *)
DecisionInv ==
    /\ park \in {"", "gate"}
    /\ Open => decision.what # "approve"
    /\ status = "review" /\ decision.what = "approve"
         => decision.current /\ decision.key = Channel

(* Who decides does so before any approve; its decision is the latest.     *)
DeciderInv ==
    \A s \in Sessions : Deciding(s) =>
        /\ ~ Open
        /\ sess[s].park # "handoff_loop" /\ sess[s].key = Channel
        /\ status = "review" =>
             /\ sess[s].pc = "decide" => decision.what # "approve"
             /\ sess[s].pc = "decided" => decision.what = sess[s].what

(* What is delivered was approved.                                         *)
JobInv ==
    \A j \in Jobs : job[j] # "none" =>
        ~ Open /\ (status = "review" => decision.what = "approve")

ReviewInv == DecisionInv /\ DeciderInv /\ JobInv

(* A merge has the branch for itself.                                      *)
MergeAlone == \A j \in Jobs : job[j] = "merge" => RunningOwner(run) = {}

(* A delivery begins to merge when no owner run is running.                *)
LEMMA MergeBegins ==
    ASSUME TypeInv, [Next]_vars, NEW j \in Jobs, job'[j] = "merge"
    PROVE  job[j] = "merge" \/ StartMerge(j)
<1>1. job \in [Jobs -> {"none", "wait", "merge"}]
  BY DEF TypeInv, TypeOK
<1>2. CASE UNCHANGED job
  BY <1>2
<1>3. ASSUME NEW i \in Jobs, JobStep(i)
      PROVE  job[j] = "merge" \/ StartMerge(j)
  BY <1>1, <1>3 DEF JobStep, StartMerge, Delivered, DeliverFailed
<1>4. CASE Activate \/ \E o \in Owners : Assign(o)
  BY <1>2, <1>4 DEF Activate, Assign, taskVars
<1>5. CASE (\E e \in cuts : CutOldOwner(e)) \/ \E a \in Agents : HumanMention(a)
  BY <1>2, <1>5 DEF CutOldOwner, HumanMention, taskVars
<1>6. ASSUME NEW r \in RunIds, RunStep(r)
      PROVE  UNCHANGED job
  BY <1>6 DEF RunStep, Claim, BackoffOver, AskHuman, StopRun, ReapRunaway, Finish,
       taskVars, ReconcileOnRunEnd, DiscardGuest, DiscardCancelled, HoldActive,
       ParkInReview, PromoteDone, RetryRun, FailGoal, NoteCancelled
<1>7. ASSUME NEW s \in Sessions, SessionStep(s)
      PROVE  UNCHANGED job \/ ApproveDelivery(s)
  BY <1>7 DEF SessionStep, CancelGoal, SweepQueued, BeginDecision, RecordDecision,
       ApproveLoop, RejectLoop, RejectReview, BeginRestart, RestartGoal,
       RefuseRestart, AskConsult, RecordConsult, BeginContinue, Reply, WakeOwner
<1>8. CASE \E s \in Sessions : ApproveDelivery(s)
  BY <1>1, <1>8 DEF ApproveDelivery
<1>9. CASE DaemonStep
  BY <1>1, <1>9 DEF DaemonStep, Crash, Boot, Recover, StartDispatch, Route,
       ReturnToQueue, taskVars
<1>10. CASE UNCHANGED vars
  BY <1>10 DEF vars, taskVars
<1>11. QED
  BY <1>2, <1>3, <1>4, <1>5, <1>6, <1>7, <1>8, <1>9, <1>10 DEF Next

(* Claim admits no owner run to a goal that is being delivered.            *)
LEMMA MergeAloneStep ==
    ASSUME TypeInv, JobInv, MergeAlone, [Next]_vars
    PROVE  MergeAlone'
<1> SUFFICES ASSUME NEW j \in Jobs, job'[j] = "merge"
             PROVE  RunningOwner(run') = {}
  BY DEF MergeAlone
<1>1. CASE StartMerge(j)
  BY <1>1 DEF StartMerge
<1>2. CASE job[j] = "merge"
  <2>1. RunningOwner(run) = {} /\ status # "active"
    BY <1>2 DEF MergeAlone, JobInv, Open
  <2>2. ASSUME NEW r \in RunIds, Claim(r), RunningOwner(run') = {r}
        PROVE  FALSE
    <3>1. run[r].role = "owner"
      BY <2>2, ClaimRows DEF RunningOwner
    <3>2. QED
      BY <2>1, <2>2, <3>1 DEF Claim
  <2>3. QED
    BY <2>1, <2>2, WritersStep
<1>3. QED
  BY <1>1, <1>2, MergeBegins

(* Steps that touch neither review nor delivery, and begin no decision.    *)
LEMMA ReviewKept ==
    ASSUME ReviewInv, UNCHANGED <<status, park, decision, evidence, job>>,
           \A s \in Sessions : Deciding(s)' => sess'[s] = sess[s]
    PROVE  ReviewInv'
  BY DEF ReviewInv, DecisionInv, DeciderInv, JobInv, Deciding, Open, Channel

(* The goal ends or is parked by its last run, or starts.                  *)
LEMMA ReviewGoalStep ==
    ASSUME TypeInv, ReviewInv,
           Activate \/ \E r \in RunIds : ReconcileOnRunEnd(r)
    PROVE  ReviewInv'
<1>1. CASE Activate
  BY <1>1 DEF Activate, taskVars, ReviewInv, DecisionInv, DeciderInv, JobInv, Deciding,
       Open, Channel
<1>2. ASSUME NEW r \in RunIds, ParkInReview(r)
      PROVE  ReviewInv'
  <2>1. /\ status = "active" /\ status' = "review" /\ park' = "gate"
        /\ decision' = Past(decision) /\ UNCHANGED <<sess, job>>
    BY <1>2 DEF ParkInReview
  <2>2. decision \in Decision
    BY DEF TypeInv, TypeOK
  <2>3. decision'.what = decision.what
    BY <2>1, <2>2 DEF Past, Decision
  <2>4. decision'.what # "approve"
    BY <2>1, <2>3 DEF ReviewInv, DecisionInv, Open
  <2>5. (\A s \in Sessions : ~ Deciding(s)) /\ (\A j \in Jobs : job[j] = "none")
    BY <2>1 DEF ReviewInv, DeciderInv, JobInv, Open
  <2>6. QED
    BY <2>1, <2>4, <2>5
       DEF ReviewInv, DecisionInv, DeciderInv, JobInv, Deciding, Open
<1>3. ASSUME NEW r \in RunIds, PromoteDone(r) \/ FailGoal(r)
      PROVE  ReviewInv'
  BY <1>3 DEF PromoteDone, FailGoal, Terminal, ReviewInv, DecisionInv, DeciderInv,
       JobInv, Deciding, Open, Channel
<1>4. ASSUME NEW r \in RunIds,
             DiscardGuest(r) \/ DiscardCancelled(r) \/ HoldActive(r) \/ RetryRun(r)
               \/ NoteCancelled(r)
      PROVE  ReviewInv'
  BY <1>4, ReviewKept
     DEF DiscardGuest, DiscardCancelled, HoldActive, RetryRun, NoteCancelled, goalVars
<1>5. QED
  BY <1>1, <1>2, <1>3, <1>4 DEF ReconcileOnRunEnd

(* A decision: read, recorded, carried out.                                *)
LEMMA DecisionStep ==
    ASSUME TypeInv, ReviewInv, OneDecider, NEW s \in Sessions,
           \/ \E key \in RunIds \cup {NoRun}, what \in {"approve", "reject"} :
                BeginDecision(s, key, what)
           \/ RecordDecision(s) \/ ApproveLoop(s) \/ ApproveDelivery(s)
           \/ RejectLoop(s) \/ RejectReview(s)
    PROVE  ReviewInv'
<1>1. /\ sess \in [Sessions -> Session] /\ job \in [Jobs -> {"none", "wait", "merge"}]
      /\ sess[s] \in Session /\ \A t \in Sessions : t = s
      /\ Idle.pc = "idle"
  BY IdleType DEF TypeInv, TypeOK, OneDecider
<1>2. ASSUME NEW key \in RunIds \cup {NoRun}, NEW what \in {"approve", "reject"},
             BeginDecision(s, key, what)
      PROVE  ReviewInv'
  <2>1. key = Channel
    BY <1>2 DEF BeginDecision, OneDecider, Channel
  <2>2. status = "review" /\ park # "handoff_loop"
        /\ UNCHANGED <<status, park, evidence, decision, job>>
    BY <1>2 DEF BeginDecision, ReviewInv, DecisionInv, goalVars
  <2>3. decision.what # "approve"
    BY <1>2, <2>1, <2>2 DEF BeginDecision, Refused, ReviewInv, DecisionInv
  <2>4. sess' = [sess EXCEPT ![s] = [pc |-> "decide", owner |-> owner, park |-> park,
                                     key |-> key, what |-> what]]
    BY <1>2 DEF BeginDecision, Begin
  <2>5. /\ sess'[s].pc = "decide" /\ sess'[s].park = park /\ sess'[s].key = key
    BY <1>1, <2>4
  <2>6. QED
    BY <1>1, <2>1, <2>2, <2>3, <2>5
       DEF ReviewInv, DecisionInv, DeciderInv, JobInv, Deciding, Open, Channel
<1>3. CASE RecordDecision(s)
  <2>1. Deciding(s) /\ sess[s].pc = "decide"
    BY <1>3 DEF RecordDecision, Deciding
  <2>2. /\ ~ Open /\ sess[s].park # "handoff_loop" /\ sess[s].key = Channel
        /\ status = "review" => decision.what # "approve"
    BY <2>1 DEF ReviewInv, DeciderInv
  <2>3. /\ UNCHANGED <<status, park, evidence, job>>
        /\ decision' = [what |-> sess[s].what, key |-> sess[s].key,
                        current |-> status = "review"]
        /\ sess' = [sess EXCEPT ![s].pc = "decided"]
    BY <1>3 DEF RecordDecision
  <2>4. /\ sess'[s].pc = "decided" /\ sess'[s].park = sess[s].park
        /\ sess'[s].key = sess[s].key /\ sess'[s].what = sess[s].what
    BY <1>1, <2>3 DEF Session
  <2>5. /\ decision'.what = sess[s].what /\ decision'.key = sess[s].key
        /\ status = "review" => decision'.current
    BY <2>3
  <2>6. DecisionInv'
    BY <2>2, <2>3, <2>5 DEF ReviewInv, DecisionInv, Open, Channel
  <2>7. DeciderInv'
    BY <1>1, <2>2, <2>3, <2>4, <2>5 DEF DeciderInv, Deciding, Open, Channel
  <2>8. JobInv'
    BY <2>2, <2>3 DEF ReviewInv, JobInv, Open
  <2>9. QED
    BY <2>6, <2>7, <2>8 DEF ReviewInv
<1>4. ~ ApproveLoop(s) /\ ~ RejectLoop(s)
  BY DEF ApproveLoop, RejectLoop, Decided, ReviewInv, DeciderInv, Deciding
<1>5. CASE ApproveDelivery(s) \/ RejectReview(s)
  <2>1. Deciding(s) /\ sess[s].pc = "decided"
    BY <1>5 DEF ApproveDelivery, RejectReview, Decided, Deciding
  <2>2. ~ Open /\ (status = "review" => decision.what = sess[s].what)
    BY <2>1 DEF ReviewInv, DeciderInv
  <2>3. \A t \in Sessions : ~ Deciding(t)'
    BY <1>1, <1>5 DEF ApproveDelivery, RejectReview, End, Deciding
  <2>4. CASE ApproveDelivery(s)
    <3>1. sess[s].what = "approve" /\ UNCHANGED <<status, park, evidence, decision>>
      BY <2>4 DEF ApproveDelivery, Decided, goalVars
    <3>2. DecisionInv' /\ DeciderInv'
      BY <2>3, <3>1 DEF ReviewInv, DecisionInv, DeciderInv, Open, Channel
    <3>3. JobInv'
      BY <2>2, <3>1 DEF JobInv, Open
    <3>4. QED
      BY <3>2, <3>3 DEF ReviewInv
  <2>5. CASE RejectReview(s)
    <3>1. sess[s].what = "reject" /\ UNCHANGED <<evidence, decision, job>>
      BY <2>5 DEF RejectReview, Decided
    <3>2. CASE status = "review"
      <4>1. status' = "active" /\ park' = ""
        BY <2>5, <3>2 DEF RejectReview
      <4>2. decision.what # "approve"
        BY <2>2, <3>1, <3>2
      <4>3. \A j \in Jobs : job[j] = "none"
        BY <3>2, <4>2 DEF ReviewInv, JobInv
      <4>4. QED
        BY <2>3, <3>1, <4>1, <4>2, <4>3
           DEF ReviewInv, DecisionInv, DeciderInv, JobInv, Open
    <3>3. CASE status # "review"
      <4>1. UNCHANGED <<status, park>>
        BY <2>5, <3>3 DEF RejectReview
      <4>2. QED
        BY <2>3, <3>1, <4>1, ReviewKept
    <3>4. QED
      BY <3>2, <3>3
  <2>6. QED
    BY <1>5, <2>4, <2>5
<1>6. QED
  BY <1>2, <1>3, <1>4, <1>5

(* What other handlers do to the review.                                   *)
LEMMA ReviewSessionStep ==
    ASSUME TypeInv, ReviewInv, OneDecider, [CalmRestart]_vars, NEW s \in Sessions,
           SessionStep(s)
    PROVE  ReviewInv'
<1>1. /\ sess \in [Sessions -> Session] /\ \A t \in Sessions : t = s
      /\ Idle.pc = "idle"
  BY IdleType DEF TypeInv, TypeOK, OneDecider
<1>2. CASE CancelGoal(s)
  <2>1. sess' = [sess EXCEPT ![s] = [Idle EXCEPT !.pc = "sweep_cancel"]]
    BY <1>2 DEF CancelGoal, Begin
  <2>2. [Idle EXCEPT !.pc = "sweep_cancel"].pc = "sweep_cancel"
    BY DEF Idle
  <2>3. \A t \in Sessions : ~ Deciding(t)'
    BY <1>1, <2>1, <2>2 DEF Deciding
  <2>4. status' = "cancelled" /\ UNCHANGED <<park, evidence, decision, job>>
    BY <1>2 DEF CancelGoal
  <2>5. QED
    BY <2>3, <2>4 DEF ReviewInv, DecisionInv, DeciderInv, JobInv, Open
<1>3. CASE RestartGoal(s)
  <2>1. CASE UNCHANGED vars
    BY <2>1, ReviewKept DEF vars, goalVars, taskVars
  <2>2. CASE CalmRestart
    <3>1. \A j \in Jobs : job[j] = "none"
      BY <1>3, <2>2 DEF CalmRestart
    <3>2. \A t \in Sessions : ~ Deciding(t)'
      BY <1>1, <1>3 DEF RestartGoal, End, Deciding
    <3>3. decision' = NoDecision /\ UNCHANGED job
      BY <1>3 DEF RestartGoal
    <3>4. park' \in {"", park}
      BY <1>3 DEF RestartGoal
    <3>5. QED
      BY <3>1, <3>2, <3>3, <3>4
         DEF ReviewInv, DecisionInv, DeciderInv, JobInv, NoDecision
  <2>3. QED
    BY <2>1, <2>2
<1>4. CASE SweepQueued(s) \/ RefuseRestart(s) \/ RecordConsult(s) \/ WakeOwner(s)
  <2>1. \A t \in Sessions : ~ Deciding(t)'
    BY <1>1, <1>4 DEF SweepQueued, RefuseRestart, RecordConsult, WakeOwner, End, Deciding
  <2>2. QED
    BY <1>4, <2>1, ReviewKept
       DEF SweepQueued, RefuseRestart, RecordConsult, WakeOwner, goalVars
<1>5. CASE \/ BeginContinue(s) \/ \E kind \in {"reopen", "relaunch"} : BeginRestart(s, kind)
           \/ \E r \in RunIds, a \in Agents : AskConsult(s, r, a)
           \/ \E r \in RunIds : Reply(s, r)
  <2>1. UNCHANGED goalVars /\ UNCHANGED job
    BY <1>5 DEF BeginContinue, BeginRestart, AskConsult, Reply
  <2>2. ASSUME NEW pc \in {"continue", "reopen", "relaunch", "reply"},
               Begin(s, [Idle EXCEPT !.pc = pc, !.owner = owner])
        PROVE  \A t \in Sessions : ~ Deciding(t)'
    <3>1. [Idle EXCEPT !.pc = pc, !.owner = owner].pc = pc
      BY DEF Idle
    <3>2. sess'[s].pc = pc
      BY <1>1, <2>2, <3>1 DEF Begin
    <3>3. QED
      BY <1>1, <3>2 DEF Deciding
  <2>3. ASSUME NEW a, NEW k, Begin(s, [Idle EXCEPT !.pc = "record", !.owner = a, !.key = k])
        PROVE  \A t \in Sessions : ~ Deciding(t)'
    <3>1. [Idle EXCEPT !.pc = "record", !.owner = a, !.key = k].pc = "record"
      BY DEF Idle
    <3>2. sess'[s].pc = "record"
      BY <1>1, <2>3, <3>1 DEF Begin
    <3>3. QED
      BY <1>1, <3>2 DEF Deciding
  <2>4. \A t \in Sessions : Deciding(t)' => sess'[t] = sess[t]
    <3>1. CASE BeginContinue(s) \/ \E kind \in {"reopen", "relaunch"} : BeginRestart(s, kind)
      BY <2>2, <3>1 DEF BeginContinue, BeginRestart
    <3>2. CASE \E r \in RunIds, a \in Agents : AskConsult(s, r, a)
      BY <2>3, <3>2 DEF AskConsult
    <3>3. CASE \E r \in RunIds : Reply(s, r)
      <4>1. CASE UNCHANGED sess
        BY <4>1
      <4>2. CASE \E pc \in {"reply", "reopen"} :
                   Begin(s, [Idle EXCEPT !.pc = pc, !.owner = owner])
        BY <2>2, <4>2
      <4>3. QED
        BY <3>3, <4>1, <4>2 DEF Reply
    <3>4. QED
      BY <1>5, <3>1, <3>2, <3>3
  <2>5. QED
    BY <2>1, <2>4, ReviewKept DEF goalVars
<1>6. QED
  BY <1>2, <1>3, <1>4, <1>5, DecisionStep DEF SessionStep

(* What deliveries and the process do to it.                               *)
LEMMA ReviewJobStep ==
    ASSUME TypeInv, ReviewInv, OneDecider, NEW j \in Jobs, JobStep(j)
    PROVE  ReviewInv'
<1>1. job \in [Jobs -> {"none", "wait", "merge"}]
  BY DEF TypeInv, TypeOK
<1>2. ~ DeliverFailed(j)
  BY DEF DeliverFailed, OneDecider
<1>3. CASE StartMerge(j)
  <2>1. \A i \in Jobs : job'[i] # "none" => job[i] # "none"
    BY <1>1, <1>3 DEF StartMerge
  <2>2. UNCHANGED <<status, park, decision, evidence, sess>>
    BY <1>3 DEF StartMerge, goalVars
  <2>3. QED
    BY <2>1, <2>2
       DEF ReviewInv, DecisionInv, DeciderInv, JobInv, Deciding, Open, Channel
<1>4. CASE Delivered(j)
  <2>1. \A i \in Jobs : job'[i] # "none" => job[i] # "none"
    BY <1>1, <1>4 DEF Delivered
  <2>2. UNCHANGED <<decision, evidence, sess>>
    BY <1>4 DEF Delivered
  <2>3. \/ status' = "done" /\ park' = ""
        \/ UNCHANGED <<status, park>>
    BY <1>4 DEF Delivered
  <2>4. QED
    BY <2>1, <2>2, <2>3
       DEF ReviewInv, DecisionInv, DeciderInv, JobInv, Deciding, Open, Channel
<1>5. QED
  BY <1>2, <1>3, <1>4 DEF JobStep

(* A crash forgets who was deciding and what was being delivered; startup  *)
(* and the dispatch loop begin a delivery only of what was approved.       *)
LEMMA ReviewDaemonStep ==
    ASSUME TypeInv, ReviewInv, DaemonStep
    PROVE  ReviewInv'
<1>1. CASE Crash
  <2>1. (\A s \in Sessions : ~ Deciding(s)') /\ (\A j \in Jobs : job'[j] = "none")
    BY <1>1, IdleType DEF Crash, Deciding
  <2>2. UNCHANGED <<status, park, decision, evidence>>
    BY <1>1 DEF Crash, goalVars
  <2>3. QED
    BY <2>1, <2>2 DEF ReviewInv, DecisionInv, DeciderInv, JobInv, Open, Channel
<1>2. CASE StartDispatch
  <2>1. UNCHANGED <<status, park, decision, evidence, sess>>
    BY <1>2 DEF StartDispatch, goalVars
  <2>2. \/ UNCHANGED job
        \/ status = "review" /\ decision.what = "approve"
    BY <1>2 DEF StartDispatch
  <2>3. QED
    BY <2>1, <2>2
       DEF ReviewInv, DecisionInv, DeciderInv, JobInv, Deciding, Open, Channel
<1>3. CASE Boot \/ Recover \/ Route \/ ReturnToQueue
  BY <1>3, ReviewKept DEF Boot, Recover, Route, ReturnToQueue, goalVars, taskVars
<1>4. QED
  BY <1>1, <1>2, <1>3 DEF DaemonStep

(* Every step keeps the review invariant and the merge exclusive.          *)
LEMMA ReviewStep ==
    ASSUME TypeInv, ReviewInv, OneDecider, [Next]_vars, [CalmRestart]_vars
    PROVE  ReviewInv'
<1>1. CASE Activate \/ \E r \in RunIds : ReconcileOnRunEnd(r)
  BY <1>1, ReviewGoalStep
<1>2. ASSUME NEW o \in Owners, Assign(o)
      PROVE  ReviewInv'
  <2>1. handoffs \in Nat /\ MaxHandoffs \in Nat /\ HandoffCycle \in Nat
    BY GoalRunAssumption DEF TypeInv, TypeOK
  <2>2. ~ (handoffs + 1 >= HandoffCycle)
    BY <1>2, <2>1 DEF Assign, OneDecider
  <2>3. UNCHANGED <<status, park, evidence, decision, job, sess>>
    BY <1>2, <2>2 DEF Assign
  <2>4. QED
    BY <2>3, ReviewKept
<1>3. CASE (\E e \in cuts : CutOldOwner(e)) \/ \E a \in Agents : HumanMention(a)
  BY <1>3, ReviewKept DEF CutOldOwner, HumanMention, goalVars, taskVars
<1>4. ASSUME NEW r \in RunIds, RunStep(r), ~ ReconcileOnRunEnd(r)
      PROVE  ReviewInv'
  BY <1>4, ReviewKept DEF RunStep, Claim, BackoffOver, AskHuman, StopRun, ReapRunaway,
       Finish, goalVars, taskVars
<1>5. CASE \E s \in Sessions : SessionStep(s)
  BY <1>5, ReviewSessionStep
<1>6. CASE \E j \in Jobs : JobStep(j)
  BY <1>6, ReviewJobStep
<1>7. CASE DaemonStep
  BY <1>7, ReviewDaemonStep
<1>8. CASE UNCHANGED vars
  BY <1>8, ReviewKept DEF vars, goalVars, taskVars
<1>9. QED
  BY <1>1, <1>2, <1>3, <1>4, <1>5, <1>6, <1>7, <1>8 DEF Next

(* They hold at the start: nothing is decided and nothing runs.            *)
LEMMA ReviewInit == Init => ReviewInv /\ MergeAlone
<1> SUFFICES ASSUME Init PROVE ReviewInv /\ MergeAlone
  OBVIOUS
<1>1. \A s \in Sessions : sess[s].pc = "idle"
  BY IdleType DEF Init
<1>2. QED
  BY <1>1 DEF Init, ReviewInv, DecisionInv, DeciderInv, JobInv, Deciding, Open,
       NoDecision, MergeAlone

(* Reviews and deliveries, with crashes anywhere.                          *)
LEMMA ReviewInvariant ==
    ASSUME OneDecider
    PROVE  Spec /\ [][CalmRestart]_vars => [](TypeInv /\ ReviewInv /\ MergeAlone)
<1>1. Init => TypeInv /\ ReviewInv /\ MergeAlone
  BY InitType, ReviewInit
<1>2. ASSUME TypeInv, ReviewInv, MergeAlone, [Next]_vars, [CalmRestart]_vars
      PROVE  (TypeInv /\ ReviewInv /\ MergeAlone)'
  <2>1. TypeInv' /\ ReviewInv'
    BY <1>2, NextType, ReviewStep
  <2>2. MergeAlone'
    BY <1>2, MergeAloneStep DEF ReviewInv
  <2>3. QED
    BY <2>1, <2>2
<1>3. QED
  BY <1>1, <1>2, PTL DEF Spec

(* While deliverGoal merges, no owner run is running: whatever             *)
(* crashes, is retried, stopped, requeued or approved again on restart.    *)
THEOREM MergeHasBranch ==
    ASSUME OneDecider
    PROVE  Spec /\ [][CalmRestart]_vars => []MergeExclusive
<1>1. MergeAlone => MergeExclusive
  BY DEF MergeAlone, MergeExclusive
<1>2. QED
  BY <1>1, ReviewInvariant, PTL

(* A goal in review is merged because a human approved this review, also   *)
(* when the delivery was lost in a crash and begun again by the restart.   *)
THEOREM MergeWasApproved ==
    ASSUME OneDecider
    PROVE  Spec /\ [][CalmRestart]_vars => []MergeApproved
<1>1. ReviewInv => MergeApproved
  BY DEF ReviewInv, DecisionInv, JobInv, MergeApproved
<1>2. QED
  BY <1>1, ReviewInvariant, PTL

-----------------------------------------------------------------------------
(* An active goal is carried on.  Something is live that will move it: a   *)
(* row its owner waits for, a question, or the wake-up for an answer.  A   *)
(* step keeps what is live, or leaves a run of the owner behind, or takes  *)
(* the goal out of "active".                                               *)

(* Fewer handoffs than park the goal as a loop.                            *)
NoLoops == MaxHandoffs < HandoffCycle

(* No goal is assigned to an agent that leads a squad.                     *)
NotLeader == \A q \in Squads : owner # Leader[q]

(* What is done later finds what it was begun for: the owner a handler or  *)
(* a handoff event names, a goal that is not active again when its runs    *)
(* are swept, a process that wakes whom it took an answer for.             *)
PromptSteps ==
    /\ FreshHandlers
    /\ \A e \in cuts : CutOldOwner(e) => e.owner = owner
    /\ \A s \in Sessions : SweepQueued(s) => status # "active"
    /\ \A j \in Jobs : Delivered(j) => status # "active"
    /\ Crash => ~ WakePending

(* A row that assignee o waits for, as Awaited says of a row of the table. *)
Needed(row, o) ==
    \/ row.role = "owner" /\ o # Human /\ row.agent = AgentOf(o)
    \/ row.role = "consult" /\ \E a \in row.askers : o # Human /\ a = AgentOf(o)

(* A row that will move the goal of assignee o, or lets a human do so.     *)
Live(row, o) ==
    \/ row.ask
    \/ Needed(row, o) /\ \/ row.status \in Pending
                         \/ row.status \in {"completed", "failed"} /\ ~ row.reconciled
                         \/ row.reason \in Killed
                         \/ \E a, b \in row.askers : a # b

CarriedOn ==
    status = "active" /\ owner # Human =>
        (\E r \in RunIds : Live(run[r], owner)) \/ WakePending

(* A row not inserted yet is blank; a leader's run is that of a leader.    *)
RowOK(row) ==
    /\ row.status = "none" => ~ row.ask /\ row.askers = {} /\ row.reason = ""
    /\ row.leader => \E q \in Squads : row.agent = Leader[q]
RowsOK(rs) == \A r \in RunIds : RowOK(rs[r])

(* What is pending, or held by the dispatch loop, has not been judged and  *)
(* is not about to be.                                                     *)
OpenRow(r) == r = routing \/ run[r].status \in Pending \cup {"none"}
JudgedOK ==
    /\ daemon # "up" => routing = NoRun
    /\ \A r \in RunIds : OpenRow(r) => ~ run[r].reconciled /\ r \notin finishing \cup replay

(* Nobody decides about a handoff loop.                                    *)
NoLoopPark ==
    /\ park # "handoff_loop"
    /\ \A s \in Sessions : Deciding(s) => sess[s].park # "handoff_loop"

(* Requesters are recorded on a row that was inserted.                     *)
RecordedRow ==
    \A s \in Sessions : sess[s].pc = "record" => run[sess[s].key].status # "none"

StallInv == RecordedRow /\ RowsOK(run) /\ JudgedOK /\ NoLoopPark /\ CarriedOn

(* What a statement on the table may do.                                   *)
Tidy(rs, rs2) == \A r \in RunIds : rs2[r].reconciled => rs[r].reconciled
Carries(rs, rs2, o) == \A r \in RunIds : Live(rs[r], o) => Live(rs2[r], o)
HasRun(rs, o) ==
    o # Human => \E r \in RunIds : /\ rs[r].status \in Pending /\ rs[r].role = "owner"
                                   /\ rs[r].agent = AgentOf(o)

(* enqueueTx carries on what is live, and its request is pending.          *)
LEMMA EnqueueLive ==
    ASSUME NEW rs \in RunTableType, RowsOK(rs), NEW f \in RunIds, NEW a \in Agents,
           NEW role \in Role, NEW leader \in BOOLEAN, NEW attempt \in 1..MaxAttempts,
           PendingOf(rs, a, role) = {} => rs[f].status = "none",
           leader => \E q \in Squads : a = Leader[q]
    PROVE  LET rs2 == Enqueue(rs, f, a, role, leader, attempt)
           IN  /\ RowsOK(rs2) /\ Tidy(rs, rs2) /\ \A o : Carries(rs, rs2, o)
               /\ \E r \in RunIds : /\ rs2[r].status \in Pending /\ rs2[r].role = role
                                    /\ rs2[r].agent = a
<1> DEFINE rs2 == Enqueue(rs, f, a, role, leader, attempt)
<1> HIDE DEF rs2
<1> SUFFICES /\ RowsOK(rs2) /\ Tidy(rs, rs2) /\ \A o : Carries(rs, rs2, o)
             /\ \E r \in RunIds : /\ rs2[r].status \in Pending /\ rs2[r].role = role
                                  /\ rs2[r].agent = a
  BY DEF rs2
<1>1. CASE PendingOf(rs, a, role) = {}
  <2>1. rs2 = [rs EXCEPT ![f] = NewRun(a, role, leader, attempt)] /\ rs[f].status = "none"
    BY <1>1 DEF Enqueue, rs2
  <2>2. /\ rs2[f].status = "queued" /\ rs2[f].agent = a /\ rs2[f].role = role
        /\ rs2[f].leader = leader /\ rs2[f].reconciled = FALSE
        /\ \A q \in RunIds \ {f} : rs2[q] = rs[q]
    BY <2>1 DEF NewRun, RunTableType
  <2>3. RowOK(rs2[f])
    BY <2>2 DEF RowOK
  <2>4. \A o : ~ Live(rs[f], o)
    BY <2>1 DEF RowsOK, RowOK, Live, Pending, Killed
  <2>5. \A r \in RunIds : r = f \/ rs2[r] = rs[r]
    BY <2>2
  <2>6. RowsOK(rs2)
    BY <2>3, <2>5 DEF RowsOK
  <2>7. Tidy(rs, rs2)
    BY <2>2, <2>5 DEF Tidy
  <2>8. \A o : Carries(rs, rs2, o)
    BY <2>4, <2>5 DEF Carries
  <2>9. QED
    BY <2>2, <2>6, <2>7, <2>8 DEF Pending
<1>2. CASE PendingOf(rs, a, role) # {}
  <2>1. \A q \in RunIds : rs2[q] = rs[q] \/ rs2[q] = [rs[q] EXCEPT !.due = TRUE]
    BY <1>2 DEF Enqueue, rs2
  <2>2. ASSUME NEW q \in RunIds
        PROVE  /\ rs2[q].status = rs[q].status /\ rs2[q].role = rs[q].role
               /\ rs2[q].agent = rs[q].agent /\ rs2[q].leader = rs[q].leader
               /\ rs2[q].reconciled = rs[q].reconciled /\ rs2[q].reason = rs[q].reason
               /\ rs2[q].ask = rs[q].ask /\ rs2[q].askers = rs[q].askers
    <3>1. rs[q] \in RunRow
      BY DEF RunTableType
    <3>2. QED
      BY <2>1, <3>1 DEF RunRow
  <2>3. RowsOK(rs2) /\ Tidy(rs, rs2)
    <3>1. \A q \in RunIds : RowOK(rs[q]) => RowOK(rs2[q])
      BY <2>2 DEF RowOK
    <3>2. QED
      BY <2>2, <3>1 DEF RowsOK, Tidy
  <2>4. \A o : Carries(rs, rs2, o)
    BY <2>2 DEF Carries, Live, Needed
  <2>5. QED
    BY <1>2, <2>2, <2>3, <2>4 DEF PendingOf
<1>3. QED
  BY <1>1, <1>2

(* The run of an assignee.                                                 *)
LEMMA EnqueueOwnerLive ==
    ASSUME NEW rs \in RunTableType, RowsOK(rs), NEW f \in RunIds, rs[f].status = "none",
           NEW o \in Owners
    PROVE  LET rs2 == EnqueueOwner(rs, f, o)
           IN  RowsOK(rs2) /\ Tidy(rs, rs2) /\ HasRun(rs2, o)
<1>1. CASE o = Human
  BY <1>1 DEF EnqueueOwner, Tidy, HasRun
<1>2. CASE o # Human
  <2> DEFINE leader == o \in Squads
             a == AgentOf(o)
  <2>1. EnqueueOwner(rs, f, o) = Enqueue(rs, f, a, "owner", leader, 1)
    BY <1>2 DEF EnqueueOwner
  <2>2. a \in Agents /\ leader \in BOOLEAN /\ "owner" \in Role /\ 1 \in 1..MaxAttempts
    BY <1>2, AgentOfType, RunTableAssumption DEF Role
  <2>3. leader => \E q \in Squads : a = Leader[q]
    BY DEF AgentOf
  <2> HIDE DEF leader, a
  <2>4. /\ RowsOK(EnqueueOwner(rs, f, o)) /\ Tidy(rs, EnqueueOwner(rs, f, o))
        /\ \E r \in RunIds : /\ EnqueueOwner(rs, f, o)[r].status \in Pending
                             /\ EnqueueOwner(rs, f, o)[r].role = "owner"
                             /\ EnqueueOwner(rs, f, o)[r].agent = a
    BY <2>1, <2>2, <2>3, EnqueueLive
  <2>5. QED
    BY <2>4 DEF HasRun, a
<1>3. QED
  BY <1>1, <1>2

(* A cancelling UPDATE keeps the rows sound; it carries on what is live if *)
(* it spares what the owner waits for, or leaves it to a human.            *)
LEMMA CancelLive ==
    ASSUME NEW rs \in RunTableType, RowsOK(rs), NEW S, NEW why \in Reason
    PROVE  LET rs2 == CancelRuns(rs, S, why)
           IN  /\ RowsOK(rs2) /\ Tidy(rs, rs2)
               /\ \A o : (\A r \in S \cap RunIds : why \in Killed \/ ~ Needed(rs[r], o))
                           => Carries(rs, rs2, o)
<1> DEFINE rs2 == CancelRuns(rs, S, why)
<1>1. ASSUME NEW r \in RunIds
      PROVE  /\ rs2[r].role = rs[r].role /\ rs2[r].agent = rs[r].agent
             /\ rs2[r].leader = rs[r].leader /\ rs2[r].reconciled = rs[r].reconciled
             /\ rs2[r].ask = rs[r].ask /\ rs2[r].askers = rs[r].askers
             /\ r \notin S => rs2[r] = rs[r]
             /\ r \in S => rs2[r].status = "cancelled" /\ rs2[r].reason = why
  <2>1. rs[r] \in RunRow
    BY DEF RunTableType
  <2>2. CASE r \in S
    <3>1. rs2[r] = [rs[r] EXCEPT !.status = "cancelled", !.reason = why]
      BY <2>2 DEF CancelRuns
    <3> HIDE DEF rs2
    <3>2. QED
      BY <2>1, <2>2, <3>1 DEF RunRow
  <2>3. CASE r \notin S
    BY <2>3 DEF CancelRuns
  <2>4. QED
    BY <2>2, <2>3
<1> HIDE DEF rs2
<1>2. RowsOK(rs2) /\ Tidy(rs, rs2)
  <2>1. \A r \in RunIds : RowOK(rs[r]) => RowOK(rs2[r])
    BY <1>1 DEF RowOK
  <2>2. QED
    BY <1>1, <2>1 DEF RowsOK, Tidy
<1>3. ASSUME NEW o, \A r \in S \cap RunIds : why \in Killed \/ ~ Needed(rs[r], o)
      PROVE  Carries(rs, rs2, o)
  <2> SUFFICES ASSUME NEW r \in RunIds, Live(rs[r], o) PROVE Live(rs2[r], o)
    BY DEF Carries
  <2>1. Needed(rs2[r], o) <=> Needed(rs[r], o)
    BY <1>1 DEF Needed
  <2>2. QED
    BY <1>1, <1>3, <2>1 DEF Live
<1>4. QED
  BY <1>2, <1>3 DEF rs2

(* The reconcile stamp ends what only waited to be judged.                 *)
LEMMA StampedLive ==
    ASSUME NEW rs \in RunTableType, RowsOK(rs), NEW r \in RunIds
    PROVE  LET rs2 == Stamped(rs, r)
           IN  /\ RowsOK(rs2)
               /\ \A q \in RunIds : q = r \/ rs2[q] = rs[q]
               /\ rs2[r].status = rs[r].status /\ rs2[r].role = rs[r].role
               /\ rs2[r].agent = rs[r].agent /\ rs2[r].ask = rs[r].ask
               /\ \A o : (rs[r].status \in {"completed", "failed"} =>
                         ~ Needed(rs[r], o) \/ \E a, b \in rs[r].askers : a # b)
                           => Carries(rs, rs2, o)
<1> DEFINE rs2 == Stamped(rs, r)
<1>1. rs[r] \in RunRow
  BY DEF RunTableType
<1>2. rs2 = [rs EXCEPT ![r] = [rs[r] EXCEPT !.reconciled = TRUE]]
  BY <1>1 DEF Stamped, RunTableType, RunRow
<1> HIDE DEF rs2
<1>3. \A q \in RunIds : q = r \/ rs2[q] = rs[q]
  BY <1>2 DEF RunTableType
<1>4. /\ rs2[r].status = rs[r].status /\ rs2[r].role = rs[r].role
      /\ rs2[r].agent = rs[r].agent /\ rs2[r].leader = rs[r].leader
      /\ rs2[r].reason = rs[r].reason
      /\ rs2[r].ask = rs[r].ask /\ rs2[r].askers = rs[r].askers
  BY <1>1, <1>2 DEF RunTableType, RunRow
<1>5. RowsOK(rs2)
  <2>1. RowOK(rs[r]) => RowOK(rs2[r])
    BY <1>4 DEF RowOK
  <2>2. QED
    BY <1>3, <2>1 DEF RowsOK
<1>6. ASSUME NEW o,
             rs[r].status \in {"completed", "failed"} =>
               ~ Needed(rs[r], o) \/ \E a, b \in rs[r].askers : a # b
      PROVE  Carries(rs, rs2, o)
  <2>1. Needed(rs2[r], o) <=> Needed(rs[r], o)
    BY <1>4 DEF Needed
  <2>2. Live(rs[r], o) => Live(rs2[r], o)
    BY <1>4, <1>6, <2>1 DEF Live
  <2>3. QED
    BY <1>3, <2>2 DEF Carries
<1>7. QED
  BY <1>3, <1>4, <1>5, <1>6 DEF rs2

(* The rows stay sound, only judged ends are stamped, the goal goes on.    *)
TidyStep ==
    \A r \in RunIds : run'[r].reconciled => run[r].reconciled \/ r \in finishing \cup replay
StallStep == RowsOK(run') /\ TidyStep /\ CarriedOn'

(* What is live stays so, the goal does not become active, and nobody's    *)
(* wake-up is forgotten ...                                                *)
LEMMA CarriedKept ==
    ASSUME CarriedOn, owner' = owner, status' = "active" => status = "active",
           Carries(run, run', owner),
           \A s \in Sessions : sess[s].pc = "reply" => sess'[s].pc = "reply"
    PROVE  CarriedOn'
  BY DEF CarriedOn, Carries, WakePending

(* ... or a run of the owner is pending.                                   *)
LEMMA CarriedRun ==
    ASSUME HasRun(run', owner')
    PROVE  CarriedOn'
<1> SUFFICES ASSUME owner' # Human PROVE \E r \in RunIds : Live(run'[r], owner')
  BY DEF CarriedOn
<1>1. PICK r \in RunIds : /\ run'[r].status \in Pending /\ run'[r].role = "owner"
                          /\ run'[r].agent = AgentOf(owner')
  BY DEF HasRun
<1>2. QED
  BY <1>1 DEF Live, Needed

(* A handler that begins or ends forgets no wake-up but its own.           *)
LEMMA ReplyKept ==
    ASSUME TypeInv, NEW s \in Sessions, NEW v, sess[s].pc # "reply",
           sess' = [sess EXCEPT ![s] = v]
    PROVE  \A t \in Sessions : sess[t].pc = "reply" => sess'[t].pc = "reply"
<1>1. \A t \in Sessions : t = s \/ sess'[t] = sess[t]
  BY DEF TypeInv, TypeOK
<1>2. QED
  BY <1>1

(* One row is updated.                                                     *)
LEMMA RowUpdated ==
    ASSUME TypeInv, RowsOK(run), NEW r \in RunIds, NEW v, run' = [run EXCEPT ![r] = v],
           RowOK(v), v.reconciled => run[r].reconciled, Live(run[r], owner) => Live(v, owner)
    PROVE  RowsOK(run') /\ TidyStep /\ Carries(run, run', owner)
<1>1. run'[r] = v /\ \A q \in RunIds : q = r \/ run'[q] = run[q]
  BY DEF TypeInv, TypeOK, RunTableType
<1>2. QED
  BY <1>1 DEF RowsOK, TidyStep, Carries

(* Steps that leave the table alone.                                       *)
LEMMA IdleStall ==
    ASSUME TypeInv, StallInv, UNCHANGED <<run, owner>>, status' = "active" => status = "active",
           \A s \in Sessions : sess[s].pc = "reply" => sess'[s].pc = "reply"
    PROVE  StallStep
<1>1. RowsOK(run') /\ TidyStep /\ Carries(run, run', owner)
  BY DEF StallInv, TidyStep, Carries
<1>2. QED
  BY <1>1, CarriedKept DEF StallInv, StallStep

(* A handler begins: it was idle.                                          *)
LEMMA BeginKept ==
    ASSUME TypeInv, NEW s \in Sessions, NEW rec, Begin(s, rec)
    PROVE  \A t \in Sessions : sess[t].pc = "reply" => sess'[t].pc = "reply"
  BY ReplyKept, IdleType DEF Begin

(* A handler that begins leaves the table alone.                           *)
LEMMA BeginStall ==
    ASSUME TypeInv, StallInv, NEW s \in Sessions,
           \/ CancelGoal(s) \/ BeginContinue(s)
           \/ \E key \in RunIds \cup {NoRun}, what \in {"approve", "reject"} :
                BeginDecision(s, key, what)
           \/ \E kind \in {"reopen", "relaunch"} : BeginRestart(s, kind)
    PROVE  StallStep
<1>1. /\ UNCHANGED <<run, owner>> /\ (status' = "active" => status = "active")
      /\ \E rec : Begin(s, rec)
  BY DEF CancelGoal, BeginContinue, BeginDecision, BeginRestart, goalVars
<1>2. QED
  BY <1>1, BeginKept, IdleStall

(* Decisions, but for the reject that enqueues; a handoff loop is nobody's. *)
LEMMA DecideStall ==
    ASSUME TypeInv, StallInv, NEW s \in Sessions,
           \/ RecordDecision(s) \/ ApproveLoop(s) \/ ApproveDelivery(s)
           \/ RejectLoop(s) \/ RefuseRestart(s)
    PROVE  StallStep
<1>1. UNCHANGED <<run, owner>>
  BY DEF RecordDecision, ApproveLoop, ApproveDelivery, RejectLoop, RefuseRestart, goalVars
<1>2. ~ ApproveLoop(s)
  BY DEF StallInv, NoLoopPark, ApproveLoop, Decided, Deciding
<1>3. status' = "active" => status = "active"
  BY <1>2 DEF RecordDecision, ApproveDelivery, RejectLoop, RefuseRestart, goalVars
<1>4. sess[s].pc # "reply" /\ \E v : sess' = [sess EXCEPT ![s] = v]
  BY DEF RecordDecision, ApproveLoop, ApproveDelivery, RejectLoop, RefuseRestart, Decided, End
<1>5. QED
  BY <1>1, <1>3, <1>4, ReplyKept, IdleStall

(* A run for the owner, whoever it is now.                                 *)
LEMMA ActivateStall ==
    ASSUME TypeInv, StallInv, Activate
    PROVE  StallStep
<1>1. PICK f \in FreshRow(run) : run' = EnqueueOwner(run, f, owner)
  BY DEF Activate
<1>2. f \in RunIds /\ run[f].status = "none" /\ run \in RunTableType /\ owner \in Owners
  BY FreshRowUnused DEF TypeInv, TypeOK
<1>3. RowsOK(run') /\ Tidy(run, run') /\ HasRun(run', owner)
  BY <1>1, <1>2, EnqueueOwnerLive DEF StallInv
<1>4. owner' = owner
  BY DEF Activate
<1>5. QED
  BY <1>3, <1>4, CarriedRun DEF StallStep, Tidy, TidyStep

(* The owner or the assign endpoint hands the goal over: a run of the new  *)
(* owner is queued when the goal is active.                                *)
LEMMA AssignStall ==
    ASSUME TypeInv, StallInv, NEW o \in Owners, Assign(o)
    PROVE  StallStep
<1> DEFINE dropped == CancelRuns(run, QueuedOwner(run), "handoff")
<1>1. run \in RunTableType /\ "handoff" \in Reason /\ owner' = o
  BY DEF TypeInv, TypeOK, Reason, Assign
<1>2. RowsOK(dropped) /\ Tidy(run, dropped) /\ dropped \in RunTableType
  BY <1>1, CancelLive, CancelType DEF StallInv
<1>3. IF status \in {"active", "review"}
        THEN \E f \in FreshRow(run) : run' = EnqueueOwner(dropped, f, o)
        ELSE run' = dropped
  BY DEF Assign
<1>4. \A f \in FreshRow(run) : f \in RunIds /\ dropped[f].status = "none"
  <2> SUFFICES ASSUME NEW f \in FreshRow(run) PROVE f \in RunIds /\ dropped[f].status = "none"
    OBVIOUS
  <2>1. f \in RunIds /\ run[f].status = "none"
    BY FreshRowUnused
  <2>2. f \notin QueuedOwner(run)
    BY <2>1 DEF QueuedOwner, Queued
  <2>3. QED
    BY <2>1, <2>2 DEF CancelRuns
<1> HIDE DEF dropped
<1>5. CASE status \in {"active", "review"}
  <2>1. PICK f \in FreshRow(run) : run' = EnqueueOwner(dropped, f, o)
    BY <1>3, <1>5
  <2>2. RowsOK(run') /\ Tidy(dropped, run') /\ HasRun(run', o)
    BY <1>2, <1>4, <2>1, EnqueueOwnerLive
  <2>3. TidyStep
    BY <1>2, <2>2 DEF Tidy, TidyStep
  <2>4. QED
    BY <1>1, <2>2, <2>3, CarriedRun DEF StallStep
<1>6. CASE status \notin {"active", "review"}
  <2>1. run' = dropped /\ status' # "active"
    BY <1>3, <1>6 DEF Assign
  <2>2. RowsOK(run') /\ TidyStep
    BY <1>2, <2>1 DEF Tidy, TidyStep
  <2>3. QED
    BY <2>1, <2>2 DEF StallStep, CarriedOn
<1>7. QED
  BY <1>5, <1>6

(* A reject, restart or wake acts for the present owner.                   *)
LEMMA RejectStall ==
    ASSUME TypeInv, StallInv, FreshHandlers, NEW s \in Sessions, RejectReview(s)
    PROVE  StallStep
<1>1. /\ run \in RunTableType /\ owner \in Owners /\ sess[s].owner = owner /\ owner' = owner
      /\ sess[s].pc = "decided" /\ sess' = [sess EXCEPT ![s] = Idle]
  BY DEF TypeInv, TypeOK, FreshHandlers, RejectReview, Decided, End
<1>2. CASE status = "review"
  <2>1. PICK f \in FreshRow(run) : run' = EnqueueOwner(run, f, owner)
    BY <1>1, <1>2 DEF RejectReview
  <2>2. f \in RunIds /\ run[f].status = "none"
    BY FreshRowUnused
  <2>3. RowsOK(run') /\ Tidy(run, run') /\ HasRun(run', owner)
    BY <1>1, <2>1, <2>2, EnqueueOwnerLive DEF StallInv
  <2>4. QED
    BY <1>1, <2>3, CarriedRun DEF StallStep, Tidy, TidyStep
<1>3. CASE status # "review"
  <2>1. UNCHANGED <<run, owner, status>>
    BY <1>1, <1>3 DEF RejectReview
  <2>2. QED
    BY <1>1, <2>1, ReplyKept, IdleStall
<1>4. QED
  BY <1>2, <1>3

(* Reopen and relaunch queue a run of the owner they read.                 *)
LEMMA RestartStall ==
    ASSUME TypeInv, StallInv, FreshHandlers, NEW s \in Sessions, RestartGoal(s)
    PROVE  StallStep
<1> DEFINE stale == {r \in RunIds : /\ sess[s].pc = "relaunch" /\ run[r].role = "review"
                                    /\ run[r].status \in Pending}
           rest == CancelRuns(run, stale, "superseded")
<1>1. /\ run \in RunTableType /\ owner \in Owners /\ sess[s].owner = owner /\ owner' = owner
      /\ "superseded" \in Reason
  BY DEF TypeInv, TypeOK, FreshHandlers, RestartGoal, Reason
<1>2. RowsOK(rest) /\ Tidy(run, rest) /\ rest \in RunTableType
  BY <1>1, CancelLive, CancelType DEF StallInv
<1>3. PICK f \in FreshRow(run) : run' = EnqueueOwner(rest, f, owner)
  BY <1>1 DEF RestartGoal
<1>4. f \in RunIds /\ rest[f].status = "none"
  <2>1. f \in RunIds /\ run[f].status = "none"
    BY FreshRowUnused
  <2>2. f \notin stale
    BY <2>1 DEF Pending
  <2>3. QED
    BY <2>1, <2>2 DEF CancelRuns
<1> HIDE DEF rest
<1>5. RowsOK(run') /\ Tidy(rest, run') /\ HasRun(run', owner)
  BY <1>1, <1>2, <1>3, <1>4, EnqueueOwnerLive
<1>6. TidyStep
  BY <1>2, <1>5 DEF Tidy, TidyStep
<1>7. QED
  BY <1>1, <1>5, <1>6, CarriedRun DEF StallStep

(* An answer or a continue wakes the owner it was for.                     *)
LEMMA WakeStall ==
    ASSUME TypeInv, StallInv, FreshHandlers, NEW s \in Sessions, WakeOwner(s)
    PROVE  StallStep
<1> DEFINE leader == owner \in Squads /\ sess[s].pc = "continue"
           a == AgentOf(owner)
<1>1. /\ run \in RunTableType /\ owner \in Owners /\ sess[s].owner = owner /\ owner' = owner
      /\ owner # Human
  BY DEF TypeInv, TypeOK, SessionOK, FreshHandlers, WakeOwner, goalVars
<1>2. PICK f \in FreshRow(run) : run' = Enqueue(run, f, a, "owner", leader, 1)
  BY <1>1 DEF WakeOwner
<1>3. f \in RunIds /\ run[f].status = "none"
  BY FreshRowUnused
<1>4. /\ a \in Agents /\ leader \in BOOLEAN /\ "owner" \in Role /\ 1 \in 1..MaxAttempts
      /\ leader => \E q \in Squads : a = Leader[q]
  BY <1>1, AgentOfType, RunTableAssumption DEF Role, AgentOf
<1> HIDE DEF leader
<1>5. /\ RowsOK(run') /\ Tidy(run, run')
      /\ \E r \in RunIds : /\ run'[r].status \in Pending /\ run'[r].role = "owner"
                           /\ run'[r].agent = a
  BY <1>2, <1>3, <1>4, <1>1, EnqueueLive DEF StallInv
<1>6. HasRun(run', owner')
  BY <1>1, <1>5 DEF HasRun
<1>7. QED
  BY <1>5, <1>6, CarriedRun DEF StallStep, Tidy, TidyStep

(* A handoff event stops runs the owner does not wait for, if it is the    *)
(* owner's event.                                                          *)
LEMMA CutStall ==
    ASSUME TypeInv, StallInv, NEW e \in cuts, CutOldOwner(e), e.owner = owner
    PROVE  StallStep
<1> DEFINE S == {r \in RunningOwner(run) :
                   e.owner = Human \/ run[r].agent # AgentOf(e.owner)}
<1>1. run \in RunTableType /\ "handoff" \in Reason /\ RowsOK(run)
  BY DEF TypeInv, TypeOK, Reason, StallInv
<1>2. run' = CancelRuns(run, S, "handoff") /\ UNCHANGED <<owner, status, sess>>
  BY DEF CutOldOwner, goalVars
<1>3. \A r \in S \cap RunIds : ~ Needed(run[r], owner)
  BY DEF RunningOwner, Needed
<1> HIDE DEF S
<1>4. RowsOK(run') /\ Tidy(run, run') /\ Carries(run, run', owner)
  BY <1>1, <1>2, <1>3, CancelLive
<1>5. CarriedOn'
  BY <1>2, <1>4, CarriedKept DEF StallInv
<1>6. QED
  BY <1>4, <1>5 DEF StallStep, Tidy, TidyStep

(* A stop or a kill leaves the run to a human.                             *)
LEMMA StopStall ==
    ASSUME TypeInv, StallInv, NEW r \in RunIds, StopRun(r) \/ ReapRunaway(r)
    PROVE  StallStep
<1>1. run \in RunTableType /\ Killed \subseteq Reason /\ RowsOK(run)
  BY DEF TypeInv, TypeOK, Reason, Killed, StallInv
<1>2. /\ \E why \in Killed : run' = CancelRuns(run, {r}, why)
      /\ UNCHANGED <<owner, status, sess>>
  BY DEF StopRun, ReapRunaway, Killed, goalVars, taskVars
<1>3. PICK why \in Killed : run' = CancelRuns(run, {r}, why)
  BY <1>2
<1>4. RowsOK(run') /\ Tidy(run, run') /\ Carries(run, run', owner)
  BY <1>1, <1>3, CancelLive
<1>5. CarriedOn'
  BY <1>2, <1>4, CarriedKept DEF StallInv
<1>6. QED
  BY <1>4, <1>5 DEF StallStep, Tidy, TidyStep

(* A sweep or a delivery, of a goal that is not active again.              *)
LEMMA SweepStall ==
    ASSUME TypeInv, StallInv, status # "active",
           (\E s \in Sessions : SweepQueued(s)) \/ \E j \in Jobs : Delivered(j)
    PROVE  StallStep
<1>1. run \in RunTableType /\ {"goal_cancelled", "goal_terminal"} \subseteq Reason /\ RowsOK(run)
  BY DEF TypeInv, TypeOK, Reason, StallInv
<1>2. /\ \E why \in {"goal_cancelled", "goal_terminal"} : run' = CancelRuns(run, Queued(run), why)
      /\ status' # "active"
  BY DEF SweepQueued, Delivered, goalVars
<1>3. RowsOK(run') /\ Tidy(run, run')
  BY <1>1, <1>2, CancelLive
<1>4. QED
  BY <1>2, <1>3 DEF StallStep, CarriedOn, Tidy, TidyStep

(* The dispatch loop takes a run and may put it back.                      *)
LEMMA LoopStall ==
    ASSUME TypeInv, StallInv, NEW r \in RunIds,
           \/ Claim(r) \/ BackoffOver(r) \/ AskHuman(r)
           \/ ReturnToQueue /\ r = routing
    PROVE  StallStep
<1>1. run[r] \in RunRow /\ run \in RunTableType /\ RowOK(run[r]) /\ RowsOK(run)
  BY DEF TypeInv, TypeOK, RunTableType, StallInv, RowsOK
<1>2. PICK v : /\ run' = [run EXCEPT ![r] = v]
               /\ \/ /\ v = [run[r] EXCEPT !.status = "running", !.started = TRUE]
                     /\ run[r].status = "queued"
                  \/ v = [run[r] EXCEPT !.due = TRUE] /\ run[r].status = "queued"
                  \/ v = [run[r] EXCEPT !.ask = TRUE] /\ run[r].status = "running"
                  \/ v = [run[r] EXCEPT !.status = "queued", !.started = FALSE]
  <2>1. CASE Claim(r)
    <3>1. run' = [run EXCEPT ![r] = [run[r] EXCEPT !.status = "running", !.started = TRUE]]
      BY <1>1, <2>1 DEF Claim, RunTableType, RunRow
    <3>2. QED
      BY <2>1, <3>1 DEF Claim
  <2>2. CASE BackoffOver(r)
    <3>1. run' = [run EXCEPT ![r] = [run[r] EXCEPT !.due = TRUE]]
      BY <1>1, <2>2 DEF BackoffOver, RunTableType, RunRow
    <3>2. QED
      BY <2>2, <3>1 DEF BackoffOver
  <2>3. CASE AskHuman(r)
    <3>1. run' = [run EXCEPT ![r] = [run[r] EXCEPT !.ask = TRUE]]
      BY <1>1, <2>3 DEF AskHuman, RunTableType, RunRow
    <3>2. QED
      BY <2>3, <3>1 DEF AskHuman, Executing
  <2>4. CASE ReturnToQueue /\ r = routing
    <3>1. run' = [run EXCEPT ![r] = [run[r] EXCEPT !.status = "queued", !.started = FALSE]]
      BY <1>1, <2>4 DEF ReturnToQueue, RunTableType, RunRow
    <3>2. QED
      BY <3>1
  <2>5. QED
    BY <2>1, <2>2, <2>3, <2>4
<1>3. /\ v.role = run[r].role /\ v.agent = run[r].agent /\ v.leader = run[r].leader
      /\ v.reconciled = run[r].reconciled /\ v.reason = run[r].reason
      /\ v.askers = run[r].askers /\ (run[r].ask => v.ask)
      /\ \/ v.status \in Pending
         \/ v.status = run[r].status
      /\ v.status # "none"
  BY <1>1, <1>2 DEF RunRow, Pending
<1> HIDE DEF RunTableType
<1>4. RowOK(v)
  BY <1>1, <1>3 DEF RowOK
<1>5. Needed(run[r], owner) <=> Needed(v, owner)
  BY <1>3 DEF Needed
<1>6. Live(run[r], owner) => Live(v, owner)
  BY <1>3, <1>5 DEF Live
<1>7. RowsOK(run') /\ TidyStep /\ Carries(run, run', owner)
  BY <1>1, <1>2, <1>3, <1>4, <1>6, RowUpdated
<1>8. UNCHANGED <<owner, status, sess>>
  BY DEF Claim, BackoffOver, AskHuman, ReturnToQueue, goalVars, taskVars
<1>9. QED
  BY <1>7, <1>8, CarriedKept DEF StallInv, StallStep

(* The end of a run is not judged yet; a timeout is a kill.                *)
LEMMA FinishStall ==
    ASSUME TypeInv, StallInv, NEW r \in RunIds, NEW outcome \in Ended, Finish(r, outcome)
    PROVE  StallStep
<1> DEFINE why == IF outcome = "cancelled" THEN "timeout" ELSE run[r].reason
           v == [run[r] EXCEPT !.status = outcome, !.reason = why]
<1>1. run[r] \in RunRow /\ run \in RunTableType /\ RowOK(run[r]) /\ RowsOK(run)
  BY DEF TypeInv, TypeOK, RunTableType, StallInv, RowsOK
<1>2. run' = [run EXCEPT ![r] = v]
  BY <1>1 DEF Finish, RunTableType, RunRow
<1>3. /\ v.role = run[r].role /\ v.agent = run[r].agent /\ v.leader = run[r].leader
      /\ v.reconciled = run[r].reconciled /\ v.reason = why
      /\ v.askers = run[r].askers /\ v.ask = run[r].ask /\ v.status = outcome
  BY <1>1 DEF RunRow
<1>4. ~ run[r].reconciled
  BY DEF StallInv, JudgedOK, OpenRow, Pending, Finish, Executing
<1> HIDE DEF v
<1>5. RowOK(v)
  BY <1>1, <1>3 DEF RowOK, Ended
<1>6. Needed(run[r], owner) <=> Needed(v, owner)
  BY <1>3 DEF Needed
<1>7. Live(run[r], owner) => Live(v, owner)
  BY <1>3, <1>4, <1>6 DEF Live, Ended, Killed
<1>8. RowsOK(run') /\ TidyStep /\ Carries(run, run', owner)
  BY <1>1, <1>2, <1>3, <1>5, <1>7, RowUpdated
<1>9. UNCHANGED <<owner, status, sess>>
  BY DEF Finish, goalVars
<1>10. QED
  BY <1>8, <1>9, CarriedKept DEF StallInv, StallStep

(* Consults are asked, and their requesters recorded.                      *)
LEMMA ConsultStall ==
    ASSUME TypeInv, StallInv, NEW a \in Agents, NEW f \in RowFor(run, a, "consult"),
           run' = Enqueue(run, f, a, "consult", FALSE, 1), UNCHANGED <<owner, status>>,
           \A s \in Sessions : sess[s].pc = "reply" => sess'[s].pc = "reply"
    PROVE  StallStep
<1>1. f \in RunIds /\ (PendingOf(run, a, "consult") = {} => run[f].status = "none")
  BY RowForRow
<1>2. run \in RunTableType /\ "consult" \in Role /\ FALSE \in BOOLEAN /\ 1 \in 1..MaxAttempts
  BY RunTableAssumption DEF TypeInv, TypeOK, Role
<1>3. RowsOK(run') /\ Tidy(run, run') /\ Carries(run, run', owner)
  BY <1>1, <1>2, EnqueueLive DEF StallInv
<1>4. QED
  BY <1>3, CarriedKept DEF StallInv, StallStep, Tidy, TidyStep

(* Who asked is added to the askers of the consult.                        *)
LEMMA RecordStall ==
    ASSUME TypeInv, StallInv, NEW s \in Sessions, RecordConsult(s)
    PROVE  StallStep
<1> DEFINE r == sess[s].key
           v == [run[r] EXCEPT !.askers = @ \cup {sess[s].owner}]
<1>1. /\ r \in RunIds /\ run[r].status # "none" /\ run[r] \in RunRow /\ run \in RunTableType
      /\ RowOK(run[r]) /\ RowsOK(run)
  BY DEF StallInv, RecordedRow, RecordConsult, TypeInv, TypeOK, SessionOK, RunTableType,
     RowsOK
<1>2. run' = [run EXCEPT ![r] = v]
  BY <1>1 DEF RecordConsult, RunTableType, RunRow
<1>3. /\ v.role = run[r].role /\ v.agent = run[r].agent /\ v.leader = run[r].leader
      /\ v.reconciled = run[r].reconciled /\ v.reason = run[r].reason
      /\ v.ask = run[r].ask /\ v.status = run[r].status
      /\ run[r].askers \subseteq v.askers
  BY <1>1 DEF RunRow
<1> HIDE DEF v, r
<1>4. RowOK(v)
  BY <1>1, <1>3 DEF RowOK
<1>5. Needed(run[r], owner) => Needed(v, owner)
  BY <1>3 DEF Needed
<1>6. Live(run[r], owner) => Live(v, owner)
  BY <1>3, <1>5 DEF Live
<1>7. RowsOK(run') /\ TidyStep /\ Carries(run, run', owner)
  BY <1>1, <1>2, <1>3, <1>4, <1>6, RowUpdated
<1>8. UNCHANGED <<owner, status>> /\ sess[s].pc # "reply" /\ sess' = [sess EXCEPT ![s] = Idle]
  BY DEF RecordConsult, End, goalVars
<1>9. QED
  BY <1>7, <1>8, ReplyKept, CarriedKept DEF StallInv, StallStep

(* An answer settles the question and wakes the owner of an active goal.   *)
LEMMA ReplyStall ==
    ASSUME TypeInv, StallInv, NEW s \in Sessions, NEW r \in RunIds, Reply(s, r)
    PROVE  StallStep
<1> DEFINE v == [run[r] EXCEPT !.ask = FALSE]
<1>1. run[r] \in RunRow /\ run \in RunTableType /\ RowOK(run[r]) /\ RowsOK(run)
  BY DEF TypeInv, TypeOK, RunTableType, StallInv, RowsOK
<1>2. run' = [run EXCEPT ![r] = v] /\ UNCHANGED <<owner, status>>
  BY <1>1 DEF Reply, RunTableType, RunRow, goalVars
<1>3. v.leader = run[r].leader /\ v.agent = run[r].agent /\ v.reconciled = run[r].reconciled
      /\ v.askers = run[r].askers /\ v.reason = run[r].reason /\ v.ask = FALSE
      /\ v.status = run[r].status
  BY <1>1 DEF RunRow
<1>4. run'[r] = v /\ \A q \in RunIds : q = r \/ run'[q] = run[q]
  BY <1>1, <1>2 DEF RunTableType
<1> HIDE DEF v
<1>5. RowOK(v)
  BY <1>1, <1>3 DEF RowOK
<1>6. RowsOK(run') /\ TidyStep
  BY <1>1, <1>3, <1>4, <1>5 DEF RowsOK, TidyStep
<1>7. ASSUME status = "active", owner # Human
      PROVE  WakePending'
  <2>1. sess' = [sess EXCEPT ![s] = [Idle EXCEPT !.pc = "reply", !.owner = owner]]
    BY <1>7 DEF Reply, Begin, Terminal
  <2>2. sess'[s].pc = "reply"
    BY <2>1 DEF TypeInv, TypeOK, Idle
  <2>3. QED
    BY <2>2 DEF WakePending
<1>8. CarriedOn'
  BY <1>2, <1>7 DEF CarriedOn
<1>9. QED
  BY <1>6, <1>8 DEF StallStep

(* The judgement of r after a change of the table in its transaction.      *)
LEMMA JudgedStall ==
    ASSUME NEW mid \in RunTableType, RowsOK(mid), Tidy(run, mid),
           NEW r \in RunIds, r \in finishing \cup replay, run' = Stamped(mid, r)
    PROVE  /\ RowsOK(run') /\ TidyStep
           /\ \A o : HasRun(mid, o) => HasRun(run', o)
<1>1. /\ RowsOK(run')
      /\ \A q \in RunIds : q = r \/ run'[q] = mid[q]
      /\ run'[r].status = mid[r].status /\ run'[r].role = mid[r].role
      /\ run'[r].agent = mid[r].agent
  BY StampedLive
<1>2. TidyStep
  BY <1>1 DEF Tidy, TidyStep
<1>3. ASSUME NEW o, HasRun(mid, o)
      PROVE  HasRun(run', o)
  BY <1>1, <1>3 DEF HasRun
<1>4. QED
  BY <1>1, <1>2, <1>3

(* What the owner waits for as its own run has authority over the goal.    *)
LEMMA NeededIsOwn ==
    ASSUME TypeInv, RowsOK(run), NotLeader, NEW r \in RunIds,
           run[r].role = "owner", Needed(run[r], owner)
    PROVE  OwnRun(r)
<1>1. OwnsGoal(run[r].agent)
  BY DEF Needed, OwnsGoal
<1>2. ASSUME owner \in Agents, run[r].leader
      PROVE  FALSE
  <2>1. PICK q \in Squads : run[r].agent = Leader[q]
    BY <1>2 DEF RowsOK, RowOK
  <2>2. AgentOf(owner) = owner
    BY <1>2, GoalRunAssumption DEF AgentOf
  <2>3. QED
    BY <1>1, <2>1, <2>2 DEF NotLeader, OwnsGoal
<1>3. QED
  BY <1>1, <1>2 DEF OwnRun

(* The end of a guest resumes its requester, unless two agents asked.      *)
LEMMA GuestStall ==
    ASSUME TypeInv, StallInv, NotLeader, NEW r \in RunIds, DiscardGuest(r)
    PROVE  StallStep
<1>1. /\ run \in RunTableType /\ run[r].askers \subseteq Agents /\ RowsOK(run)
      /\ r \in finishing \cup replay /\ ~ OwnRun(r) /\ UNCHANGED <<owner, status, sess>>
      /\ Tidy(run, run)
  BY DEF TypeInv, TypeOK, RunTableType, RunRow, StallInv, DiscardGuest, Reconcile, goalVars, Tidy
<1>2. \/ /\ run' = Stamped(run, r)
         /\ \/ run[r].askers = {}
            \/ \E a \in run[r].askers : ~ (OwnsGoal(a) /\ status = "active")
      \/ \E a \in run[r].askers : \E f \in FreshRow(run) :
           OwnsGoal(a) /\ run' = Stamped(Enqueue(run, f, a, "owner", FALSE, 1), r)
  BY DEF DiscardGuest
<1>3. CASE \E a \in run[r].askers : \E f \in FreshRow(run) :
             OwnsGoal(a) /\ run' = Stamped(Enqueue(run, f, a, "owner", FALSE, 1), r)
  <2>1. PICK a \in run[r].askers, f \in FreshRow(run) :
          OwnsGoal(a) /\ run' = Stamped(Enqueue(run, f, a, "owner", FALSE, 1), r)
    BY <1>3
  <2> DEFINE mid == Enqueue(run, f, a, "owner", FALSE, 1)
  <2>2. /\ a \in Agents /\ f \in RunIds /\ run[f].status = "none" /\ "owner" \in Role
        /\ FALSE \in BOOLEAN /\ 1 \in 1..MaxAttempts
    BY <1>1, FreshRowUnused, RunTableAssumption DEF Role
  <2> DEFINE leader == FALSE
  <2>4. /\ mid = Enqueue(run, f, a, "owner", leader, 1) /\ run' = Stamped(mid, r)
        /\ leader \in BOOLEAN /\ ~ leader
    BY <2>1
  <2> HIDE DEF mid, leader
  <2>3. /\ mid \in RunTableType /\ RowsOK(mid) /\ Tidy(run, mid)
        /\ \E q \in RunIds : /\ mid[q].status \in Pending /\ mid[q].role = "owner"
                             /\ mid[q].agent = a
    BY <1>1, <2>2, <2>4, EnqueueLive, EnqueueType
  <2>5. HasRun(mid, owner')
    BY <1>1, <2>1, <2>3 DEF HasRun, OwnsGoal
  <2>6. RowsOK(run') /\ TidyStep /\ HasRun(run', owner')
    BY <1>1, <2>4, <2>3, <2>5, JudgedStall
  <2>7. QED
    BY <2>6, CarriedRun DEF StallStep
<1>4. CASE /\ run' = Stamped(run, r)
           /\ \/ run[r].askers = {}
              \/ \E a \in run[r].askers : ~ (OwnsGoal(a) /\ status = "active")
  <2>1. RowsOK(run') /\ TidyStep
    BY <1>1, <1>4, JudgedStall
  <2>2. CASE status # "active"
    BY <1>1, <2>1, <2>2 DEF StallStep, CarriedOn
  <2>3. CASE status = "active"
    <3>1. ASSUME Needed(run[r], owner)
          PROVE  \E a, b \in run[r].askers : a # b
      <4>1. run[r].role # "owner"
        BY <1>1, <3>1, NeededIsOwn
      <4>2. PICK a \in run[r].askers : OwnsGoal(a)
        BY <3>1, <4>1 DEF Needed, OwnsGoal
      <4>3. PICK b \in run[r].askers : ~ OwnsGoal(b)
        BY <1>4, <2>3, <4>2
      <4>4. QED
        BY <4>2, <4>3
    <3>2. Carries(run, run', owner)
      BY <1>1, <1>4, <3>1, StampedLive
    <3>3. CarriedOn'
      BY <1>1, <3>2, CarriedKept DEF StallInv
    <3>4. QED
      BY <2>1, <3>3 DEF StallStep
  <2>4. QED
    BY <2>2, <2>3
<1>5. QED
  BY <1>2, <1>3, <1>4

(* What holds a completed run back is live itself.                         *)
LEMMA HoldStall ==
    ASSUME TypeInv, StallInv, NEW r \in RunIds, HoldActive(r)
    PROVE  StallStep
<1>1. /\ run \in RunTableType /\ RowsOK(run) /\ r \in finishing \cup replay /\ OwnRun(r)
      /\ run[r].status = "completed" /\ UNCHANGED <<owner, status>> /\ run' = Stamped(run, r)
      /\ WaitsFor(r) \/ status # "active"
      /\ Tidy(run, run)
  BY DEF TypeInv, TypeOK, StallInv, HoldActive, Judged, Reconcile, goalVars, Tidy
<1>2. RowsOK(run') /\ TidyStep
  BY <1>1, JudgedStall
<1>3. CASE status # "active"
  BY <1>1, <1>2, <1>3 DEF StallStep, CarriedOn
<1>4. CASE WaitsFor(r)
  <2>1. \A q \in RunIds : q = r \/ run'[q] = run[q]
    BY <1>1, StampedLive
  <2>2. CASE run[r].ask
    <3>1. run'[r].ask
      BY <1>1, <2>2, StampedLive
    <3>2. QED
      BY <1>2, <3>1 DEF StallStep, CarriedOn, Live
  <2>3. CASE ~ run[r].ask
    <3>1. PICK c \in RunIds : /\ run[c].status \in Pending /\ run[c].role = "consult"
                              /\ run[r].agent \in run[c].askers
      BY <1>4, <2>3 DEF WaitsFor
    <3>2. run'[c] = run[c]
      BY <1>1, <2>1, <3>1 DEF Pending
    <3>3. Needed(run[c], owner)
      BY <1>1, <3>1 DEF Needed, OwnRun, OwnsGoal
    <3>4. Live(run'[c], owner')
      BY <1>1, <3>1, <3>2, <3>3 DEF Live
    <3>5. QED
      BY <1>2, <3>4 DEF StallStep, CarriedOn
  <2>4. QED
    BY <2>2, <2>3
<1>5. QED
  BY <1>1, <1>3, <1>4

(* The next attempt is the owner's.                                        *)
LEMMA RetryStall ==
    ASSUME TypeInv, StallInv, NEW r \in RunIds, RetryRun(r)
    PROVE  StallStep
<1> DEFINE a == run[r].agent
           attempt == run[r].attempt + 1
           leader == run[r].leader
<1>1. /\ run \in RunTableType /\ RowsOK(run) /\ r \in finishing \cup replay /\ OwnsGoal(a)
      /\ owner' = owner
  BY DEF TypeInv, TypeOK, StallInv, RetryRun, Judged, Reconcile, goalVars, OwnRun
<1>2. /\ a \in Agents /\ leader \in BOOLEAN /\ run[r].attempt \in 1..MaxAttempts
      /\ run[r].attempt < MaxAttempts /\ "owner" \in Role
      /\ leader => \E q \in Squads : a = Leader[q]
  BY <1>1 DEF RetryRun, RunTableType, RunRow, RowsOK, RowOK, Role
<1>3. attempt \in 1..MaxAttempts
  BY <1>2, RunTableAssumption
<1>4. PICK f \in FreshRow(run) :
        LET next == Enqueue(run, f, a, "owner", leader, attempt)
        IN  run' = Stamped([g \in RunIds |->
                      IF g \in PendingOf(next, a, "owner")
                        THEN [next[g] EXCEPT !.due = FALSE] ELSE next[g]], r)
  BY DEF RetryRun
<1> DEFINE next == Enqueue(run, f, a, "owner", leader, attempt)
           later == [g \in RunIds |->
                       IF g \in PendingOf(next, a, "owner")
                         THEN [next[g] EXCEPT !.due = FALSE] ELSE next[g]]
<1>5. f \in RunIds /\ run[f].status = "none" /\ run' = Stamped(later, r)
  BY <1>4, FreshRowUnused
<1> HIDE DEF a, attempt, leader
<1>6. /\ next \in RunTableType /\ RowsOK(next) /\ Tidy(run, next)
      /\ \E q \in RunIds : /\ next[q].status \in Pending /\ next[q].role = "owner"
                           /\ next[q].agent = a
  BY <1>1, <1>2, <1>3, <1>5, EnqueueLive, EnqueueType
<1> HIDE DEF next
<1>7. \A g \in RunIds : next[g] \in RunRow /\ [next[g] EXCEPT !.due = FALSE] \in RunRow
  BY <1>6 DEF RunTableType, RunRow
<1>8. later \in RunTableType
  BY <1>7 DEF RunTableType
<1>9. ASSUME NEW g \in RunIds
      PROVE  /\ later[g].status = next[g].status /\ later[g].role = next[g].role
             /\ later[g].agent = next[g].agent /\ later[g].leader = next[g].leader
             /\ later[g].reconciled = next[g].reconciled /\ later[g].reason = next[g].reason
             /\ later[g].ask = next[g].ask /\ later[g].askers = next[g].askers
  <2>1. later[g] = next[g] \/ later[g] = [next[g] EXCEPT !.due = FALSE]
    OBVIOUS
  <2> HIDE DEF later
  <2>2. QED
    BY <1>7, <2>1 DEF RunRow
<1> HIDE DEF later
<1>10. RowsOK(later) /\ Tidy(run, later)
  <2>1. \A g \in RunIds : RowOK(next[g]) => RowOK(later[g])
    BY <1>9 DEF RowOK
  <2>2. QED
    BY <1>6, <1>9, <2>1 DEF RowsOK, Tidy
<1>11. HasRun(later, owner')
  BY <1>1, <1>6, <1>9 DEF HasRun, OwnsGoal
<1>12. RowsOK(run') /\ TidyStep /\ HasRun(run', owner')
  BY <1>1, <1>5, <1>8, <1>10, <1>11, JudgedStall
<1>13. QED
  BY <1>12, CarriedRun DEF StallStep

(* The end of a run may end the goal or park it.                           *)
LEMMA EndsStall ==
    ASSUME TypeInv, StallInv, NEW r \in RunIds,
           ParkInReview(r) \/ PromoteDone(r) \/ FailGoal(r)
    PROVE  StallStep
<1>1. /\ run \in RunTableType /\ RowsOK(run) /\ r \in finishing \cup replay /\ status' # "active"
      /\ Tidy(run, run)
  BY DEF TypeInv, TypeOK, StallInv, ParkInReview, PromoteDone, FailGoal, Judged, Reconcile,
         GoalStatus, Terminal, Tidy
<1>2. CASE run' = Stamped(run, r)
  BY <1>1, <1>2, JudgedStall DEF StallStep, CarriedOn
<1>3. CASE run' = Stamped(CancelRuns(run, Queued(run), "goal_terminal"), r)
  <2> DEFINE mid == CancelRuns(run, Queued(run), "goal_terminal")
  <2>1. "goal_terminal" \in Reason
    BY DEF Reason
  <2>2. mid \in RunTableType /\ RowsOK(mid) /\ Tidy(run, mid)
    BY <1>1, <2>1, CancelLive, CancelType
  <2> HIDE DEF mid
  <2>3. run' = Stamped(mid, r)
    BY <1>3 DEF mid
  <2>4. QED
    BY <1>1, <2>2, <2>3, JudgedStall DEF StallStep, CarriedOn
<1>4. ASSUME NEW a \in Agents, NEW f \in FreshRow(run),
             run' = Stamped(Enqueue(run, f, a, "review", FALSE, 1), r)
      PROVE  StallStep
  <2> DEFINE mid == Enqueue(run, f, a, "review", FALSE, 1)
  <2>1. /\ f \in RunIds /\ run[f].status = "none" /\ "review" \in Role
        /\ FALSE \in BOOLEAN /\ 1 \in 1..MaxAttempts
    BY FreshRowUnused, RunTableAssumption DEF Role
  <2>2. mid \in RunTableType /\ RowsOK(mid) /\ Tidy(run, mid)
    BY <1>1, <2>1, EnqueueLive, EnqueueType
  <2> HIDE DEF mid
  <2>3. run' = Stamped(mid, r)
    BY <1>4 DEF mid
  <2>4. QED
    BY <1>1, <2>2, <2>3, JudgedStall DEF StallStep, CarriedOn
<1>5. CASE ParkInReview(r)
  <2> DEFINE reviewer == IF owner \in Squads THEN Reviewer[owner] ELSE NoAgent
  <2>1. \/ run' = Stamped(run, r)
        \/ /\ reviewer # NoAgent
           /\ \E f \in FreshRow(run) :
                run' = Stamped(Enqueue(run, f, reviewer, "review", FALSE, 1), r)
    BY <1>5 DEF ParkInReview
  <2>2. reviewer # NoAgent => reviewer \in Agents
    BY GoalRunAssumption
  <2> HIDE DEF reviewer
  <2>3. QED
    BY <1>2, <1>4, <2>1, <2>2
<1>6. QED
  BY <1>3, <1>5 DEF PromoteDone, FailGoal

(* A cancelled run is stamped: a kill stays a kill.                        *)
LEMMA NoteStall ==
    ASSUME TypeInv, StallInv, NEW r \in RunIds, NoteCancelled(r) \/ DiscardCancelled(r)
    PROVE  StallStep
<1>1. /\ run \in RunTableType /\ RowsOK(run) /\ r \in finishing \cup replay
      /\ UNCHANGED <<owner, status, sess>> /\ run' = Stamped(run, r) /\ Tidy(run, run)
  BY DEF TypeInv, TypeOK, StallInv, NoteCancelled, DiscardCancelled, Judged, Reconcile,
         goalVars, Tidy
<1>2. RowsOK(run') /\ TidyStep
  BY <1>1, JudgedStall
<1>3. CASE NoteCancelled(r)
  <2>1. run[r].status = "cancelled"
    BY <1>3 DEF NoteCancelled, Judged
  <2>2. Carries(run, run', owner)
    BY <1>1, <2>1, StampedLive
  <2>3. QED
    BY <1>1, <1>2, <2>2, CarriedKept DEF StallInv, StallStep
<1>4. CASE DiscardCancelled(r)
  BY <1>1, <1>2, <1>4 DEF DiscardCancelled, StallStep, CarriedOn
<1>5. QED
  BY <1>3, <1>4

(* A restart puts running rows of an active goal back into the queue.      *)
LEMMA RecoverStall ==
    ASSUME TypeInv, StallInv, Recover
    PROVE  StallStep
<1>1. /\ run \in RunTableType /\ RowsOK(run) /\ UNCHANGED <<owner, status, sess>>
      /\ run' = RequeueRunning(run, status \in Terminal)
  BY DEF TypeInv, TypeOK, StallInv, Recover, goalVars, taskVars
<1>2. ASSUME NEW r \in RunIds
      PROVE  /\ run'[r].role = run[r].role /\ run'[r].agent = run[r].agent
             /\ run'[r].leader = run[r].leader /\ run'[r].reconciled = run[r].reconciled
             /\ run'[r].ask = run[r].ask /\ run'[r].askers = run[r].askers
             /\ run'[r].status # run[r].status =>
                  run[r].status = "running" /\ run'[r].status \in {"queued", "cancelled"}
             /\ status \notin Terminal =>
                  /\ run'[r].reason = run[r].reason
                  /\ run'[r].status # run[r].status => run'[r].status = "queued"
             /\ run'[r].status = "none" => run'[r].reason = run[r].reason
  <2>1. run[r] \in RunRow
    BY <1>1 DEF RunTableType
  <2>2. CASE run[r].status # "running"
    BY <1>1, <2>2 DEF RequeueRunning
  <2>3. CASE run[r].status = "running" /\ status \in Terminal
    <3>1. run'[r] = [run[r] EXCEPT !.status = "cancelled", !.reason = "goal_terminal"]
      BY <1>1, <2>3 DEF RequeueRunning
    <3>2. QED
      BY <2>1, <2>3, <3>1 DEF RunRow
  <2>4. CASE run[r].status = "running" /\ status \notin Terminal
    <3>1. run'[r] = [run[r] EXCEPT !.status = "queued", !.started = FALSE]
      BY <1>1, <2>4 DEF RequeueRunning
    <3>2. QED
      BY <2>1, <2>4, <3>1 DEF RunRow
  <2>5. QED
    BY <2>2, <2>3, <2>4
<1>3. \A r \in RunIds : RowOK(run[r]) => RowOK(run'[r])
  BY <1>2 DEF RowOK
<1>4. RowsOK(run') /\ TidyStep
  BY <1>1, <1>2, <1>3 DEF RowsOK, TidyStep
<1>5. CASE status \in Terminal
  BY <1>1, <1>4, <1>5 DEF Terminal, StallStep, CarriedOn
<1>6. CASE status \notin Terminal
  <2>1. ASSUME NEW r \in RunIds, Live(run[r], owner)
        PROVE  Live(run'[r], owner)
    <3>1. Needed(run[r], owner) <=> Needed(run'[r], owner)
      BY <1>2 DEF Needed
    <3>2. run'[r].status = run[r].status \/ run'[r].status \in Pending
      BY <1>2, <1>6 DEF Pending
    <3>3. QED
      BY <1>2, <1>6, <2>1, <3>1, <3>2 DEF Live
  <2>2. CarriedOn'
    BY <1>1, <2>1, CarriedKept DEF StallInv, Carries
  <2>3. QED
    BY <1>4, <2>2 DEF StallStep
<1>7. QED
  BY <1>5, <1>6

(* Every step of the goal, its runs, its handlers and the process.         *)
LEMMA CarriedStep ==
    ASSUME TypeInv, StallInv, NotLeader, Next, PromptSteps
    PROVE  StallStep
<1>1. CASE Activate
  BY <1>1, ActivateStall
<1>2. ASSUME NEW o \in Owners, Assign(o)
      PROVE  StallStep
  BY <1>2, AssignStall
<1>3. ASSUME NEW e \in cuts, CutOldOwner(e)
      PROVE  StallStep
  BY <1>3, CutStall DEF PromptSteps
<1>4. ASSUME NEW a \in Agents, HumanMention(a)
      PROVE  StallStep
  <2>1. \E f \in RowFor(run, a, "consult") : run' = Enqueue(run, f, a, "consult", FALSE, 1)
    BY <1>4 DEF HumanMention
  <2>2. UNCHANGED <<owner, status, sess>>
    BY <1>4 DEF HumanMention, goalVars, taskVars
  <2>3. QED
    BY <2>1, <2>2, ConsultStall
<1>5. ASSUME NEW r \in RunIds, RunStep(r)
      PROVE  StallStep
  <2>1. CASE ReconcileOnRunEnd(r)
    BY <2>1, GuestStall, HoldStall, RetryStall, EndsStall, NoteStall DEF ReconcileOnRunEnd
  <2>2. CASE ~ ReconcileOnRunEnd(r)
    BY <1>5, <2>2, LoopStall, StopStall, FinishStall DEF RunStep
  <2>3. QED
    BY <2>1, <2>2
<1>6. ASSUME NEW s \in Sessions, SessionStep(s)
      PROVE  StallStep
  <2>1. CASE RejectReview(s) \/ RestartGoal(s) \/ WakeOwner(s)
    BY <2>1, RejectStall, RestartStall, WakeStall DEF PromptSteps
  <2>2. CASE SweepQueued(s)
    BY <2>2, SweepStall DEF PromptSteps
  <2>3. ASSUME NEW r \in RunIds, NEW a \in Agents, AskConsult(s, r, a)
        PROVE  StallStep
    <3>1. /\ \E f \in RowFor(run, a, "consult") : run' = Enqueue(run, f, a, "consult", FALSE, 1)
          /\ \E rec : Begin(s, rec)
          /\ UNCHANGED <<owner, status>>
      BY <2>3 DEF AskConsult, goalVars
    <3>2. QED
      BY <3>1, BeginKept, ConsultStall
  <2>4. CASE RecordConsult(s) \/ \E r \in RunIds : Reply(s, r)
    BY <2>4, RecordStall, ReplyStall
  <2>5. CASE \/ CancelGoal(s) \/ BeginContinue(s)
             \/ \E key \in RunIds \cup {NoRun}, what \in {"approve", "reject"} :
                  BeginDecision(s, key, what)
             \/ \E kind \in {"reopen", "relaunch"} : BeginRestart(s, kind)
    BY <2>5, BeginStall
  <2>6. CASE \/ RecordDecision(s) \/ ApproveLoop(s) \/ ApproveDelivery(s)
             \/ RejectLoop(s) \/ RefuseRestart(s)
    BY <2>6, DecideStall
  <2>7. QED
    BY <1>6, <2>1, <2>2, <2>3, <2>4, <2>5, <2>6 DEF SessionStep
<1>7. ASSUME NEW j \in Jobs, JobStep(j)
      PROVE  StallStep
  <2>1. CASE Delivered(j)
    BY <2>1, SweepStall DEF PromptSteps
  <2>2. CASE StartMerge(j) \/ DeliverFailed(j)
    BY <2>2, IdleStall DEF StartMerge, DeliverFailed, goalVars
  <2>3. QED
    BY <1>7, <2>1, <2>2 DEF JobStep
<1>8. CASE DaemonStep
  <2>1. CASE Crash
    <3>1. UNCHANGED <<run, owner, status>> /\ \A s \in Sessions : sess[s].pc # "reply"
      BY <2>1 DEF Crash, goalVars, PromptSteps, WakePending
    <3>2. QED
      BY <3>1, IdleStall
  <2>2. CASE Boot \/ StartDispatch \/ Route
    BY <2>2, IdleStall DEF Boot, StartDispatch, Route, goalVars, taskVars
  <2>3. CASE Recover
    BY <2>3, RecoverStall
  <2>4. CASE ReturnToQueue
    <3>1. routing \in RunIds
      BY <2>4 DEF ReturnToQueue, TypeInv, TypeOK
    <3>2. QED
      BY <2>4, <3>1, LoopStall
  <2>5. QED
    BY <1>8, <2>1, <2>2, <2>3, <2>4 DEF DaemonStep
<1>9. QED
  BY <1>1, <1>2, <1>3, <1>4, <1>5, <1>6, <1>7, <1>8 DEF Next

(* The process is up while it holds a run; only Claim takes one.           *)
LEMMA RoutingStep ==
    ASSUME [Next]_vars
    PROVE  \/ routing' = NoRun
           \/ routing' = routing /\ (daemon' # "up" => daemon # "up")
           \/ \E r \in RunIds : Claim(r) /\ routing' = r /\ daemon' = "up"
<1>1. CASE UNCHANGED vars
  BY <1>1 DEF vars, procVars
<1>2. CASE Activate \/ (\E o \in Owners : Assign(o)) \/ (\E e \in cuts : CutOldOwner(e))
           \/ \E a \in Agents : HumanMention(a)
  BY <1>2 DEF Activate, Assign, CutOldOwner, HumanMention, procVars
<1>3. ASSUME NEW r \in RunIds, RunStep(r)
      PROVE  \/ routing' = NoRun
             \/ routing' = routing /\ (daemon' # "up" => daemon # "up")
             \/ Claim(r) /\ routing' = r /\ daemon' = "up"
  <2>1. CASE Claim(r)
    BY <2>1 DEF Claim, HandOver
  <2>2. CASE ~ Claim(r)
    BY <1>3, <2>2 DEF RunStep, BackoffOver, AskHuman, StopRun, ReapRunaway, Finish,
       ReconcileOnRunEnd, DiscardGuest, DiscardCancelled, HoldActive, ParkInReview,
       PromoteDone, RetryRun, FailGoal, NoteCancelled, procVars
  <2>3. QED
    BY <2>1, <2>2
<1>4. CASE \E s \in Sessions : SessionStep(s)
  BY <1>4 DEF SessionStep, CancelGoal, SweepQueued, BeginDecision, RecordDecision,
     ApproveLoop, ApproveDelivery, RejectLoop, RejectReview, BeginRestart, RestartGoal,
     RefuseRestart, AskConsult, RecordConsult, BeginContinue, Reply, WakeOwner, procVars
<1>5. CASE \E j \in Jobs : JobStep(j)
  BY <1>5 DEF JobStep, StartMerge, Delivered, DeliverFailed, procVars
<1>6. CASE DaemonStep
  BY <1>6 DEF DaemonStep, Crash, Boot, Recover, StartDispatch, Route, ReturnToQueue
<1>7. QED
  BY <1>1, <1>2, <1>3, <1>4, <1>5, <1>6 DEF Next

(* An end waits to be judged since its Finish or since the restart.        *)
LEMMA JudgedGrow ==
    ASSUME [Next]_vars, NEW r \in finishing' \cup replay'
    PROVE  \/ r \in finishing \cup replay
           \/ \E outcome \in Ended : Finish(r, outcome)
           \/ Recover /\ r \in Unreconciled(run')
<1>1. CASE UNCHANGED vars
  BY <1>1 DEF vars, taskVars, procVars
<1>2. CASE Activate \/ (\E o \in Owners : Assign(o)) \/ (\E e \in cuts : CutOldOwner(e))
           \/ \E a \in Agents : HumanMention(a)
  BY <1>2 DEF Activate, Assign, CutOldOwner, HumanMention, taskVars, procVars
<1>3. ASSUME NEW q \in RunIds, RunStep(q)
      PROVE  r \in finishing \cup replay \/ \E outcome \in Ended : Finish(r, outcome)
  <2>1. CASE \E outcome \in Ended : Finish(q, outcome)
    BY <2>1 DEF Finish, procVars
  <2>2. CASE ReconcileOnRunEnd(q)
    <3>1. Reconcile(q)
      BY <2>2 DEF ReconcileOnRunEnd, DiscardGuest, DiscardCancelled, HoldActive,
         ParkInReview, PromoteDone, RetryRun, FailGoal, NoteCancelled, Judged
    <3>2. QED
      BY <3>1 DEF Reconcile
  <2>3. CASE Claim(q) \/ BackoffOver(q) \/ AskHuman(q) \/ StopRun(q) \/ ReapRunaway(q)
    BY <2>3 DEF Claim, BackoffOver, AskHuman, StopRun, ReapRunaway, taskVars, procVars
  <2>4. QED
    BY <1>3, <2>1, <2>2, <2>3 DEF RunStep
<1>4. CASE \E s \in Sessions : SessionStep(s)
  BY <1>4 DEF SessionStep, CancelGoal, SweepQueued, BeginDecision, RecordDecision,
     ApproveLoop, ApproveDelivery, RejectLoop, RejectReview, BeginRestart, RestartGoal,
     RefuseRestart, AskConsult, RecordConsult, BeginContinue, Reply, WakeOwner, procVars
<1>5. CASE \E j \in Jobs : JobStep(j)
  BY <1>5 DEF JobStep, StartMerge, Delivered, DeliverFailed, procVars
<1>6. CASE DaemonStep
  BY <1>6 DEF DaemonStep, Crash, Boot, Recover, StartDispatch, Route, ReturnToQueue, taskVars
<1>7. QED
  BY <1>1, <1>2, <1>3, <1>4, <1>5, <1>6 DEF Next

(* A row is inserted once; what ended is pending again only if the         *)
(* dispatch loop holds it.                                                 *)
LEMMA RowsStay ==
    ASSUME TypeInv, [Next]_vars, NEW r \in RunIds
    PROVE  /\ run[r].status # "none" => run'[r].status # "none"
           /\ run'[r].status \in Pending \cup {"none"} =>
                run[r].status \in Pending \cup {"none"} \/ r = routing
<1>1. CASE Orderly(run, run')
  BY <1>1 DEF Orderly, Kept, Moved, Born, Pending, Ended
<1>2. CASE \E q \in RunIds : Claim(q)
  BY <1>2, ClaimRows DEF Pending
<1>3. CASE ReturnToQueue
  <2>1. r # routing => run'[r] = run[r]
    BY <1>3 DEF ReturnToQueue, TypeInv, TypeOK, RunTableType
  <2>2. run'[r].status = "queued" \/ run'[r] = run[r]
    BY <1>3, ReturnedRows
  <2>3. QED
    BY <2>1, <2>2
<1>4. QED
  BY <1>1, <1>2, <1>3, StepShape

(* No step stamps or ends what is open, and what it opens is not judged.   *)
LEMMA JudgedStep ==
    ASSUME TypeInv, JudgedOK, TidyStep, [Next]_vars
    PROVE  JudgedOK'
<1>1. daemon' # "up" => routing' = NoRun
  BY RoutingStep DEF JudgedOK
<1>2. ASSUME NEW r \in RunIds, OpenRow(r)'
      PROVE  ~ run'[r].reconciled /\ r \notin finishing' \cup replay'
  <2>1. r # NoRun
    BY RunTableAssumption
  <2>2. OpenRow(r)
    <3>1. CASE routing' = r /\ routing' # routing
      BY <2>1, <3>1, RoutingStep DEF Claim, OpenRow, Pending
    <3>2. CASE ~ (routing' = r /\ routing' # routing)
      BY <1>2, <3>2, RowsStay DEF OpenRow
    <3>3. QED
      BY <3>1, <3>2
  <2>3. ~ run[r].reconciled /\ r \notin finishing \cup replay
    BY <2>2 DEF JudgedOK
  <2>4. ~ run'[r].reconciled
    BY <2>3 DEF TidyStep
  <2>5. ASSUME NEW outcome \in Ended, Finish(r, outcome)
        PROVE  FALSE
    <3>1. run'[r].status = outcome /\ routing' = routing /\ r # routing
      BY <2>5 DEF Finish, Executing, procVars, TypeInv, TypeOK, RunTableType, RunRow
    <3>2. QED
      BY <1>2, <3>1 DEF OpenRow, Pending, Ended
  <2>6. ASSUME Recover, r \in Unreconciled(run')
        PROVE  FALSE
    <3>1. routing' = NoRun
      BY <2>6 DEF Recover, JudgedOK
    <3>2. QED
      BY <1>2, <2>1, <2>6, <3>1 DEF OpenRow, Unreconciled, Pending
  <2>7. QED
    BY <2>3, <2>4, <2>5, <2>6, JudgedGrow
<1>3. QED
  BY <1>1, <1>2 DEF JudgedOK

(* What a handler holds after a step: what it held, what it just read, or  *)
(* its decision, now recorded.                                             *)
LEMMA SessionHolds ==
    ASSUME TypeInv, [Next]_vars, NEW s \in Sessions
    PROVE  \/ sess'[s] = sess[s]
           \/ sess'[s].pc \notin {"record", "decide", "decided"}
           \/ sess'[s].pc = "decide" /\ sess'[s].park = park
           \/ sess'[s].pc = "decided" /\ sess[s].pc = "decide" /\ sess'[s].park = sess[s].park
           \/ \E r \in RunIds, a \in Agents : AskConsult(s, r, a)
<1>1. sess \in [Sessions -> Session] /\ Idle.pc = "idle"
  BY DEF TypeInv, TypeOK, Idle
<1>2. CASE UNCHANGED sess
  BY <1>2
<1>3. ASSUME NEW t \in Sessions, SessionStep(t), s # t
      PROVE  sess'[s] = sess[s]
  <2>1. \A v : [sess EXCEPT ![t] = v][s] = sess[s]
    BY <1>1, <1>3
  <2>2. sess' = sess \/ \E v : sess' = [sess EXCEPT ![t] = v]
    <3>1. ASSUME NEW r \in RunIds, NEW a \in Agents, AskConsult(t, r, a)
          PROVE  \E v : sess' = [sess EXCEPT ![t] = v]
      BY <3>1 DEF AskConsult, Begin
    <3>2. ASSUME NEW r \in RunIds, Reply(t, r)
          PROVE  sess' = sess \/ \E v : sess' = [sess EXCEPT ![t] = v]
      BY <3>2 DEF Reply, Begin
    <3>3. CASE \/ CancelGoal(t) \/ SweepQueued(t) \/ RecordDecision(t) \/ ApproveLoop(t)
               \/ ApproveDelivery(t) \/ RejectLoop(t) \/ RejectReview(t)
      BY <3>3, Zenon DEF CancelGoal, SweepQueued, RecordDecision, ApproveLoop,
         ApproveDelivery, RejectLoop, RejectReview, Begin, End
    <3>4. CASE \/ RestartGoal(t) \/ RefuseRestart(t) \/ RecordConsult(t)
               \/ BeginContinue(t) \/ WakeOwner(t)
      BY <3>4, Zenon DEF RestartGoal, RefuseRestart, RecordConsult, BeginContinue, WakeOwner,
         Begin, End
    <3>5. ASSUME NEW kind \in {"reopen", "relaunch"}, BeginRestart(t, kind)
          PROVE  \E v : sess' = [sess EXCEPT ![t] = v]
      BY <3>5 DEF BeginRestart, Begin
    <3>6. ASSUME NEW key \in RunIds \cup {NoRun}, NEW what \in {"approve", "reject"},
                 BeginDecision(t, key, what)
          PROVE  \E v : sess' = [sess EXCEPT ![t] = v]
      BY <3>6 DEF BeginDecision, Begin
    <3>7. QED
      BY <1>3, <3>1, <3>2, <3>3, <3>4, <3>5, <3>6 DEF SessionStep
  <2>3. QED
    BY <2>1, <2>2
<1>4. ASSUME SessionStep(s)
      PROVE  \/ sess'[s] = sess[s]
             \/ sess'[s].pc \notin {"record", "decide", "decided"}
             \/ sess'[s].pc = "decide" /\ sess'[s].park = park
             \/ sess'[s].pc = "decided" /\ sess[s].pc = "decide" /\ sess'[s].park = sess[s].park
             \/ \E r \in RunIds, a \in Agents : AskConsult(s, r, a)
  <2>1. CASE \/ CancelGoal(s) \/ \E kind \in {"reopen", "relaunch"} : BeginRestart(s, kind)
             \/ BeginContinue(s)
    <3>1. \E p \in {"sweep_cancel", "reopen", "relaunch", "continue", "reply"} :
            \/ sess'[s] = [Idle EXCEPT !.pc = p]
            \/ sess'[s] = [Idle EXCEPT !.pc = p, !.owner = owner]
      BY <1>1, <2>1 DEF CancelGoal, BeginRestart, BeginContinue, Begin
    <3>2. sess'[s].pc \in {"sweep_cancel", "reopen", "relaunch", "continue", "reply"}
      BY <3>1 DEF Idle
    <3>3. QED
      BY <3>2
  <2>2. ASSUME NEW r \in RunIds, Reply(s, r)
        PROVE  sess'[s] = sess[s] \/ sess'[s].pc \in {"reply", "reopen"}
    <3>1. \/ sess' = sess
          \/ sess' = [sess EXCEPT ![s] = [Idle EXCEPT !.pc = "reply", !.owner = owner]]
          \/ sess' = [sess EXCEPT ![s] = [Idle EXCEPT !.pc = "reopen", !.owner = owner]]
      BY <2>2 DEF Reply, Begin, Terminal
    <3>2. \/ sess' = sess
          \/ sess'[s] = [Idle EXCEPT !.pc = "reply", !.owner = owner]
          \/ sess'[s] = [Idle EXCEPT !.pc = "reopen", !.owner = owner]
      BY <1>1, <3>1
    <3>3. QED
      BY <3>2 DEF Idle
  <2>3. CASE \E key \in RunIds \cup {NoRun}, what \in {"approve", "reject"} :
               BeginDecision(s, key, what)
    BY <1>1, <2>3 DEF BeginDecision, Begin
  <2>4. CASE RecordDecision(s)
    <3>1. /\ sess' = [sess EXCEPT ![s] = [sess[s] EXCEPT !.pc = "decided"]]
          /\ sess[s].pc = "decide"
      BY <1>1, <2>4 DEF RecordDecision, Session
    <3>2. sess[s] \in Session
      BY <1>1
    <3>3. QED
      BY <1>1, <3>1, <3>2 DEF Session
  <2>5. CASE RejectLoop(s)
    <3>1. sess' = [sess EXCEPT ![s] = [sess[s] EXCEPT !.pc = "sweep_loop"]]
      BY <1>1, <2>5 DEF RejectLoop, Session
    <3>2. sess[s] \in Session
      BY <1>1
    <3>3. QED
      BY <1>1, <3>1, <3>2 DEF Session
  <2>6. CASE \/ SweepQueued(s) \/ ApproveLoop(s) \/ ApproveDelivery(s) \/ RejectReview(s)
             \/ RestartGoal(s) \/ RefuseRestart(s) \/ RecordConsult(s) \/ WakeOwner(s)
    BY <1>1, <2>6 DEF SweepQueued, ApproveLoop, ApproveDelivery, RejectReview, RestartGoal,
       RefuseRestart, RecordConsult, WakeOwner, End
  <2>7. QED
    BY <1>4, <2>1, <2>2, <2>3, <2>4, <2>5, <2>6 DEF SessionStep
<1>5. CASE Activate \/ (\E o \in Owners : Assign(o)) \/ (\E e \in cuts : CutOldOwner(e))
           \/ (\E a \in Agents : HumanMention(a)) \/ UNCHANGED vars
  BY <1>2, <1>5 DEF Activate, Assign, CutOldOwner, HumanMention, taskVars, vars
<1>6. CASE \E r \in RunIds : RunStep(r)
  BY <1>2, <1>6 DEF RunStep, Claim, BackoffOver, AskHuman, StopRun, ReapRunaway, Finish,
     ReconcileOnRunEnd, DiscardGuest, DiscardCancelled, HoldActive, ParkInReview,
     PromoteDone, RetryRun, FailGoal, NoteCancelled, taskVars
<1>7. CASE \E j \in Jobs : JobStep(j)
  BY <1>2, <1>7 DEF JobStep, StartMerge, Delivered, DeliverFailed
<1>8. CASE DaemonStep
  BY <1>1, <1>2, <1>8 DEF DaemonStep, Crash, Boot, Recover, StartDispatch, Route,
     ReturnToQueue, taskVars
<1>9. QED
  BY <1>3, <1>4, <1>5, <1>6, <1>7, <1>8 DEF Next

(* No handoff is the one that parks the goal.                              *)
LEMMA ParkStep ==
    ASSUME NoLoops, TypeInv, NoLoopPark, [Next]_vars
    PROVE  park' # "handoff_loop"
<1>1. CASE UNCHANGED park
  BY <1>1 DEF NoLoopPark
<1>2. ASSUME NEW o \in Owners, Assign(o)
      PROVE  UNCHANGED park
  <2>1. /\ handoffs \in Nat /\ handoffs < MaxHandoffs /\ MaxHandoffs \in Nat
        /\ HandoffCycle \in Nat /\ MaxHandoffs < HandoffCycle
    BY <1>2, GoalRunAssumption DEF Assign, TypeInv, TypeOK, NoLoops
  <2>2. ~ (handoffs + 1 >= HandoffCycle)
    BY <2>1
  <2>3. QED
    BY <1>2, <2>2 DEF Assign
<1>3. CASE Activate \/ (\E e \in cuts : CutOldOwner(e)) \/ (\E a \in Agents : HumanMention(a))
           \/ UNCHANGED vars
  BY <1>1, <1>3 DEF Activate, CutOldOwner, HumanMention, goalVars, vars
<1>4. CASE \E r \in RunIds : RunStep(r)
  BY <1>1, <1>4 DEF RunStep, Claim, BackoffOver, AskHuman, StopRun, ReapRunaway, Finish,
     ReconcileOnRunEnd, DiscardGuest, DiscardCancelled, HoldActive, ParkInReview,
     PromoteDone, RetryRun, FailGoal, NoteCancelled, goalVars
<1>5. CASE \E s \in Sessions : SessionStep(s)
  BY <1>1, <1>5 DEF SessionStep, CancelGoal, SweepQueued, BeginDecision, RecordDecision,
     ApproveLoop, ApproveDelivery, RejectLoop, RejectReview, BeginRestart, RestartGoal,
     RefuseRestart, AskConsult, RecordConsult, BeginContinue, Reply, WakeOwner, goalVars
<1>6. CASE \E j \in Jobs : JobStep(j)
  BY <1>1, <1>6 DEF JobStep, StartMerge, Delivered, DeliverFailed, goalVars
<1>7. CASE DaemonStep
  BY <1>1, <1>7 DEF DaemonStep, Crash, Boot, Recover, StartDispatch, Route,
     ReturnToQueue, goalVars
<1>8. QED
  BY <1>1, <1>2, <1>3, <1>4, <1>5, <1>6, <1>7 DEF Next

(* No decision is taken about a handoff loop.                              *)
LEMMA NoLoopStep ==
    ASSUME NoLoops, TypeInv, NoLoopPark, [Next]_vars
    PROVE  NoLoopPark'
<1>1. ASSUME NEW s \in Sessions, Deciding(s)'
      PROVE  sess'[s].park # "handoff_loop"
  <2>1. ASSUME NEW r \in RunIds, NEW a \in Agents, AskConsult(s, r, a)
        PROVE  FALSE
    <3>1. \E key \in RunIds :
            sess' = [sess EXCEPT ![s] = [Idle EXCEPT !.pc = "record", !.owner = run[r].agent,
                                                     !.key = key]]
      BY <2>1 DEF AskConsult, Begin, PendingOf
    <3>2. sess'[s].pc = "record"
      BY <3>1 DEF TypeInv, TypeOK, Idle
    <3>3. QED
      BY <1>1, <3>2 DEF Deciding
  <2>2. QED
    BY <1>1, <2>1, SessionHolds DEF NoLoopPark, Deciding
<1>2. QED
  BY <1>1, ParkStep DEF NoLoopPark

(* A requester is recorded on a row that was pending when it was asked.    *)
LEMMA RecordedStep ==
    ASSUME TypeInv, RecordedRow, [Next]_vars
    PROVE  RecordedRow'
<1> SUFFICES ASSUME NEW s \in Sessions, sess'[s].pc = "record"
             PROVE  run'[sess'[s].key].status # "none"
  BY DEF RecordedRow
<1>1. CASE sess'[s] = sess[s]
  <2>1. sess[s].key \in RunIds /\ run[sess[s].key].status # "none"
    BY <1>1 DEF TypeInv, SessionOK, RecordedRow
  <2>2. QED
    BY <1>1, <2>1, RowsStay
<1>2. ASSUME NEW r \in RunIds, NEW a \in Agents, AskConsult(s, r, a)
      PROVE  run'[sess'[s].key].status # "none"
  <2>1. PICK guest \in PendingOf(run', a, "consult") :
          sess' = [sess EXCEPT ![s] = [Idle EXCEPT !.pc = "record", !.owner = run[r].agent,
                                                   !.key = guest]]
    BY <1>2 DEF AskConsult, Begin
  <2>2. sess'[s].key = guest
    BY <2>1 DEF TypeInv, TypeOK, Idle
  <2>3. QED
    BY <2>2 DEF PendingOf, Pending
<1>3. QED
  BY <1>1, <1>2, SessionHolds

(* At the start the goal is not active and nothing is stamped.             *)
LEMMA StallInit == Init => StallInv
<1> SUFFICES ASSUME Init PROVE StallInv
  OBVIOUS
<1>1. ASSUME NEW r \in RunIds
      PROVE  /\ run[r].status = "none" /\ run[r].leader = FALSE /\ run[r].reconciled = FALSE
             /\ run[r].ask = FALSE /\ run[r].askers = {} /\ run[r].reason = ""
  BY DEF Init, BlankRun, NewRun
<1>2. RowsOK(run)
  BY <1>1 DEF RowsOK, RowOK
<1>3. /\ finishing \cup replay = {} /\ routing = NoRun /\ park = "" /\ status = "backlog"
      /\ \A s \in Sessions : sess[s].pc = "idle"
  BY IdleType DEF Init
<1>4. JudgedOK
  BY <1>1, <1>3 DEF JudgedOK
<1>5. QED
  BY <1>2, <1>3, <1>4 DEF StallInv, RecordedRow, NoLoopPark, Deciding, CarriedOn

(* Every step that comes in time keeps the invariant.                      *)
LEMMA StallStays ==
    ASSUME NoLoops, TypeInv, StallInv, NotLeader, [Next]_vars, [PromptSteps]_vars
    PROVE  StallInv'
<1>1. CASE UNCHANGED vars
  BY <1>1 DEF vars, goalVars, taskVars, procVars, StallInv, RecordedRow, RowsOK, JudgedOK,
     OpenRow, NoLoopPark, Deciding, CarriedOn, WakePending
<1>2. CASE Next /\ PromptSteps
  <2>1. RowsOK(run') /\ TidyStep /\ CarriedOn'
    BY <1>2, CarriedStep DEF StallStep
  <2>2. RecordedRow' /\ JudgedOK' /\ NoLoopPark'
    BY <2>1, RecordedStep, JudgedStep, NoLoopStep DEF StallInv
  <2>3. QED
    BY <2>1, <2>2 DEF StallInv
<1>3. QED
  BY <1>1, <1>2

(* What is live is what NoStall lists.                                     *)
LEMMA LiveMoves ==
    ASSUME TypeInv, StallInv, NotLeader
    PROVE  NoStall
<1> SUFFICES ASSUME NEW r \in RunIds, Live(run[r], owner)
             PROVE  \/ WorkPending \/ EndNotJudged \/ AskPending
                    \/ HumanDecides \/ TwoRequesters
  BY DEF StallInv, CarriedOn, NoStall
<1>1. Needed(run[r], owner) => Awaited(r)
  BY DEF Needed, Awaited, OwnsGoal
<1>2. Needed(run[r], owner) => OwnRun(r) \/ run[r].role = "consult"
  BY NeededIsOwn DEF Needed, StallInv
<1>3. QED
  BY <1>1, <1>2 DEF Live, WorkPending, EndNotJudged, AskPending, HumanDecides, TwoRequesters

(* Through handoffs, consults, questions and answers, retries, reviews,    *)
(* stops, kills, crashes and full worker queues, an active goal of an      *)
(* agent always has something that moves it on, or a human who was told to *)
(* decide.                                                                 *)
THEOREM GoalGoesOn ==
    ASSUME NoLoops
    PROVE  Spec /\ [][PromptSteps]_vars /\ []NotLeader => []NoStall
<1>1. TypeInv /\ StallInv /\ NotLeader /\ [Next]_vars /\ [PromptSteps]_vars => StallInv'
  BY StallStays
<1>2. TypeInv /\ StallInv /\ NotLeader => NoStall
  BY LiveMoves
<1>3. Spec => []TypeInv
  BY InitType, NextType, PTL DEF Spec
<1>4. QED
  BY <1>1, <1>2, <1>3, StallInit, PTL DEF Spec

=============================================================================
