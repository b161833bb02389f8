------------------------ MODULE MachineDispatchProofs ------------------------
(***************************************************************************)
(* Theorems about MachineDispatch, for every set of runs and executions,   *)
(* every number of claims, crashes and link failures, and every set of     *)
(* operations of the environment.                                          *)
(*                                                                         *)
(* Most invariants hold action by action.  Two need to know where the      *)
(* traces of a run can be: AckRetires, that the machine has not heard of   *)
(* a run still with a worker (section "Traces"), and OutcomeIsOfClaim,     *)
(* that a report being processed is one of the present claim.              *)
(***************************************************************************)
EXTENDS MachineDispatch, TLAPS

(* TypeOK is not inductive by itself: an execution makes a report out of   *)
(* the token it was started with.                                          *)
ExecTokens == \A e \in Execs : exec[e].pc # "free" => exec[e].tok \in Token

TypeInv == TypeOK /\ ExecTokens

--------------------------------------------------------------------------------
(* Types.                                                                  *)

(* An end stamps one row, keeps its token, and changes no ended row.       *)
LEMMA EndedRow ==
    ASSUME row \in [Runs -> Row], NEW r \in Runs, NEW end \in 0..MaxClaims
    PROVE  /\ Ended(r, end) \in [Runs -> Row]
           /\ \A q \in Runs : row[q].status = "ended" => Ended(r, end)[q] = row[q]
           /\ \A q \in Runs : q # r => Ended(r, end)[q] = row[q]
           /\ Ended(r, end)[r].status = "ended"
           /\ Ended(r, end)[r].tok = row[r].tok
           /\ row[r].status # "ended" => Ended(r, end)[r].end = end
  BY DEF Ended, Row

(* A free slot is one of an execution that is free.                        *)
LEMMA FreeSlotFree ==
    ASSUME NEW e \in FreeSlot
    PROVE  e \in Execs /\ exec[e].pc = "free"
  BY DEF FreeSlot

(* A report is accepted under the token of a running row.                  *)
LEMMA AcceptedReports ==
    ASSUME NEW t
    PROVE  /\ Accepted(t) \subseteq finishing \cup {t}
           /\ finishing \subseteq Accepted(t)
           /\ t \in Accepted(t) /\ t \notin finishing
                => Running(t.run) /\ row[t.run].tok = t.tok
  BY DEF Accepted

LEMMA FreeExecType == FreeExec \in Exec
<1>1. PICK r \in Runs : TRUE
  BY MachineDispatchAssumption
<1>2. (CHOOSE q \in Runs : TRUE) \in Runs
  BY <1>1
<1>3. 0 \in 0..MaxClaims
  BY MachineDispatchAssumption
<1>4. QED
  BY <1>2, <1>3 DEF FreeExec, Exec

(* The fields of an execution, read off its type.                          *)
LEMMA ExecFields ==
    ASSUME TypeOK, NEW e \in Execs
    PROVE  /\ exec[e] \in Exec
           /\ exec[e].run \in Runs /\ exec[e].tok \in 0..MaxClaims
           /\ exec[e].seen \subseteq Ticket /\ exec[e].old \in BOOLEAN
  BY DEF TypeOK, Exec

(* The report of an execution that is not free is a ticket.                *)
LEMMA ReportType ==
    ASSUME TypeInv, NEW e \in Execs, exec[e].pc # "free"
    PROVE  ReportOf(e) \in Ticket
  BY ExecFields DEF TypeInv, ExecTokens, ReportOf, Ticket

(* What an execution does when it returns.                                 *)
LEMMA LeaveType ==
    ASSUME TypeInv, NEW e \in Execs, Leave(e)
    PROVE  /\ exec' \in [Execs -> Exec]
           /\ known' \in [Runs -> Execs \cup {NoExec}]
           /\ ExecTokens'
<1>1. exec' \in [Execs -> Exec]
  BY FreeExecType DEF TypeInv, TypeOK, Leave
<1>2. known' \in [Runs -> Execs \cup {NoExec}]
  BY DEF TypeInv, TypeOK, Leave
<1>3. FreeExec.pc = "free"
  BY DEF FreeExec
<1>4. ExecTokens'
  BY <1>3 DEF TypeInv, TypeOK, ExecTokens, Leave
<1>5. QED
  BY <1>1, <1>2, <1>4

(* What the death of a link does on the machine.                           *)
LEMMA DisconnectType ==
    ASSUME TypeInv, Disconnect
    PROVE  /\ exec' \in [Execs -> Exec]
           /\ known' \in [Runs -> Execs \cup {NoExec}]
           /\ reply' \in [runs : SUBSET Ticket, cancels : SUBSET Runs]
           /\ ExecTokens'
<1>1. \A e \in Execs : [exec[e] EXCEPT !.old = TRUE] \in Exec
  BY ExecFields DEF TypeInv, Exec
<1>2. exec' \in [Execs -> Exec]
  BY <1>1 DEF TypeInv, TypeOK, Disconnect
<1>3. \A e \in Execs : exec'[e].pc = exec[e].pc /\ exec'[e].tok = exec[e].tok
  BY ExecFields DEF TypeInv, TypeOK, Disconnect, Exec
<1>4. ExecTokens'
  BY <1>3 DEF TypeInv, ExecTokens
<1>5. known' \in [Runs -> Execs \cup {NoExec}]
  BY DEF Disconnect
<1>6. reply' \in [runs : SUBSET Ticket, cancels : SUBSET Runs]
  BY DEF Disconnect, NoReply
<1>7. QED
  BY <1>2, <1>4, <1>5, <1>6

LEMMA InitType == Init => TypeInv
<1> SUFFICES ASSUME Init PROVE TypeInv
  OBVIOUS
<1>1. 0 \in 0..MaxClaims /\ 0 \in 0..MaxCrashes /\ 0 \in 0..MaxDrops
  BY MachineDispatchAssumption
<1>2. row \in [Runs -> Row]
  BY <1>1 DEF Init, Row
<1>3. exec \in [Execs -> Exec]
  BY FreeExecType DEF Init
<1>4. reply \in [runs : SUBSET Ticket, cancels : SUBSET Runs]
  BY DEF Init, NoReply
<1>5. flush \in Flush
  BY DEF Init, Flush, NoFlush
<1>6. watch \in [Runs -> Watch] /\ known \in [Runs -> Execs \cup {NoExec}]
  BY DEF Init, Watch
<1>7. TypeOK
  BY <1>1, <1>2, <1>3, <1>4, <1>5, <1>6 DEF Init, TypeOK
<1>8. ExecTokens
  BY DEF Init, ExecTokens, FreeExec
<1>9. QED
  BY <1>7, <1>8 DEF TypeInv

(* Daemon steps about one run.                                             *)
LEMMA PlatformType ==
    ASSUME TypeInv, NEW r \in Runs, Platform(r)
    PROVE  TypeInv'
<1> USE DEF TypeInv, TypeOK, daemonVars, machineVars, ExecTokens
<1>0. 0 \in 0..MaxClaims
  BY MachineDispatchAssumption
<1>1. CASE Claim(r)
  <2>1. row[r].tok + 1 \in Token /\ row[r].tok + 1 \in 0..MaxClaims
    BY <1>1, MachineDispatchAssumption DEF Claim, Row, Token
  <2>2. row' \in [Runs -> Row]
    <3>1. [row[r] EXCEPT !.status = "running", !.tok = row[r].tok + 1] \in Row
      BY <2>1 DEF Row
    <3>2. QED
      BY <1>1, <3>1 DEF Claim
  <2>3. assigned' \subseteq Ticket
    BY <1>1, <2>1 DEF Claim, Ticket
  <2>4. QED
    BY <1>1, <2>2, <2>3 DEF Claim
<1>2. CASE Stamp(r)
  BY <1>0, <1>2, EndedRow DEF Stamp
<1>3. CASE AskStop(r)
  BY <1>3 DEF AskStop
<1>4. CASE FailExpired(r)
  BY <1>0, <1>4, EndedRow DEF FailExpired
<1>5. CASE IngestRunClaimed(r)
  <2>1. Watched(r) \in [Runs -> Watch]
    BY DEF Watched, Watch
  <2>2. watch' \in [Runs -> Watch] /\ pending' \subseteq Ticket
    BY <1>5, <2>1 DEF IngestRunClaimed, Without
  <2>3. QED
    BY <1>5, <2>2 DEF IngestRunClaimed
<1>6. CASE WatchdogStops(r)
  BY <1>6 DEF WatchdogStops, Watch
<1>7. CASE WatchdogCancels(r)
  BY <1>7 DEF WatchdogCancels, Watch
<1>8. CASE WatchdogEnds(r)
  <2>1. row' \in [Runs -> Row] /\ watch' \in [Runs -> Watch]
    BY <1>0, <1>8, EndedRow DEF WatchdogEnds, Watch
  <2>2. QED
    BY <1>8, <2>1 DEF WatchdogEnds
<1>9. QED
  BY <1>1, <1>2, <1>3, <1>4, <1>5, <1>6, <1>7, <1>8 DEF Platform

(* Daemon steps about one dispatch or report, and the flush of reports.    *)
LEMMA TicketType ==
    ASSUME TypeInv, NEW t \in Ticket, Tickets(t)
    PROVE  TypeInv'
<1> USE DEF TypeInv, TypeOK, daemonVars, machineVars, ExecTokens
<1>0. t.run \in Runs /\ t.tok \in 0..MaxClaims /\ 0 \in 0..MaxClaims
  BY MachineDispatchAssumption DEF Ticket, Token
<1>1. Accepted(t) \subseteq Ticket
  BY AcceptedReports
<1>2. CASE DispatchToMachine(t)
  BY <1>2 DEF DispatchToMachine
<1>3. CASE FailLaunch(t)
  BY <1>0, <1>3, EndedRow DEF FailLaunch
<1>4. CASE PickupTimeout(t)
  BY <1>0, <1>4 DEF PickupTimeout, Without
<1>5. CASE SweepExpired(t)
  BY <1>0, <1>5 DEF SweepExpired
<1>6. CASE FinishMachineRun(t)
  BY <1>0, <1>6, EndedRow DEF FinishMachineRun
<1>7. CASE FlushSends(t)
  <2>1. flush' \in Flush
    BY <1>7 DEF FlushSends, Flush
  <2>2. QED
    BY <1>1, <1>7, <2>1 DEF FlushSends
<1>8. ASSUME NEW handled \in BOOLEAN, FlushFails(t, handled)
      PROVE  TypeInv'
  <2>1. flush' \in Flush
    BY <1>8 DEF FlushFails, Flush
  <2>2. finishing' \subseteq Ticket
    BY <1>1, <1>8 DEF FlushFails
  <2>3. QED
    BY <1>8, <2>1, <2>2 DEF FlushFails
<1>9. QED
  BY <1>2, <1>3, <1>4, <1>5, <1>6, <1>7, <1>8 DEF Tickets

(* Steps of one execution on the machine.                                  *)
LEMMA ExecutorType ==
    ASSUME TypeInv, NEW e \in Execs, Executor(e)
    PROVE  TypeInv'
<1> USE DEF TypeInv, TypeOK, daemonVars, machineVars
<1>0. exec[e] \in Exec
  BY ExecFields
<1>1. CASE Enter(e)
  <2>1. [exec[e] EXCEPT !.pc = "starting"] \in Exec
    BY <1>0 DEF Exec
  <2>2. exec' \in [Execs -> Exec] /\ known' \in [Runs -> Execs \cup {NoExec}]
    BY <1>1, <2>1 DEF Enter
  <2>3. ExecTokens'
    BY <1>0, <1>1 DEF Enter, ExecTokens, Exec
  <2>4. QED
    BY <1>1, <2>2, <2>3 DEF Enter
<1>2. CASE Acknowledge(e)
  <2>1. [exec[e] EXCEPT !.pc = "working"] \in Exec
    BY <1>0 DEF Exec
  <2>2. exec' \in [Execs -> Exec] /\ acks' \subseteq Runs
    BY <1>2, <2>1, ExecFields DEF Acknowledge
  <2>3. ExecTokens'
    BY <1>0, <1>2 DEF Acknowledge, ExecTokens, Exec
  <2>4. QED
    BY <1>2, <2>2, <2>3 DEF Acknowledge
<1>3. CASE EndWork(e)
  <2>1. [exec[e] EXCEPT !.pc = "reporting"] \in Exec
    BY <1>0 DEF Exec
  <2>2. exec' \in [Execs -> Exec]
    BY <1>3, <2>1 DEF EndWork
  <2>3. ExecTokens'
    BY <1>0, <1>3 DEF EndWork, ExecTokens, Exec
  <2>4. QED
    BY <1>3, <2>2, <2>3 DEF EndWork
<1>4. CASE IngestRunFinished(e)
  <2>1. ReportOf(e) \in Ticket
    BY <1>4, ReportType DEF IngestRunFinished
  <2>2. finishing' \subseteq Ticket
    BY <1>4, <2>1, AcceptedReports DEF IngestRunFinished
  <2>3. QED
    BY <1>4, <2>2, LeaveType DEF IngestRunFinished
<1>5. CASE SaveStash(e)
  <2>1. ReportOf(e) \in Ticket
    BY <1>5, ReportType DEF SaveStash
  <2>2. stash' \subseteq Ticket
    BY <1>5, <2>1, ExecFields DEF SaveStash
  <2>3. QED
    BY <1>5, <2>2, LeaveType DEF SaveStash
<1>6. ASSUME NEW handled \in BOOLEAN, ReportFails(e, handled)
      PROVE  TypeInv'
  <2>1. ReportOf(e) \in Ticket
    BY <1>6, ReportType DEF ReportFails
  <2>2. finishing' \subseteq Ticket
    BY <1>6, <2>1, AcceptedReports DEF ReportFails
  <2>3. [exec[e] EXCEPT !.pc = "stashing", !.seen = stash] \in Exec
    BY <1>0 DEF Exec
  <2>4. exec' = [exec EXCEPT ![e] = [exec[e] EXCEPT !.pc = "stashing", !.seen = stash]]
    BY <1>0, <1>6 DEF ReportFails, Exec
  <2>5. exec' \in [Execs -> Exec]
    BY <2>3, <2>4
  <2>6. ExecTokens'
    BY <1>0, <1>6 DEF ReportFails, ExecTokens, Exec
  <2>7. QED
    BY <1>6, <2>2, <2>5, <2>6 DEF ReportFails
<1>7. QED
  BY <1>1, <1>2, <1>3, <1>4, <1>5, <1>6 DEF Executor

(* A poll response at the machine.                                         *)
LEMMA ReceiveType ==
    ASSUME TypeInv, Receive
    PROVE  /\ exec' \in [Execs -> Exec]
           /\ known' \in [Runs -> Execs \cup {NoExec}]
           /\ ExecTokens'
<1> DEFINE new(t) == [FreeExec EXCEPT !.pc = "launched", !.run = t.run, !.tok = t.tok]
<1>1. known' \in [Runs -> Execs \cup {NoExec}]
  BY DEF Receive, TypeInv, TypeOK
<1>2. CASE UNCHANGED exec
  BY <1>1, <1>2 DEF TypeInv, TypeOK, ExecTokens
<1>3. CASE \E t \in reply.runs, e \in FreeSlot : exec' = [exec EXCEPT ![e] = new(t)]
  <2>1. PICK t \in reply.runs, e \in FreeSlot : exec' = [exec EXCEPT ![e] = new(t)]
    BY <1>3
  <2>2. t \in Ticket /\ e \in Execs
    BY FreeSlotFree DEF TypeInv, TypeOK
  <2>3. new(t) \in Exec /\ new(t).tok \in Token
    <3>1. t.run \in Runs /\ t.tok \in Token
      BY <2>2 DEF Ticket
    <3>2. t.tok \in 0..MaxClaims
      BY <3>1, MachineDispatchAssumption DEF Token
    <3>3. new(t) = [FreeExec EXCEPT !.pc = "launched", !.run = t.run, !.tok = t.tok]
      OBVIOUS
    <3>4. QED
      BY <3>1, <3>2, <3>3, FreeExecType DEF Exec
  <2>4. exec' \in [Execs -> Exec]
    BY <2>1, <2>2, <2>3 DEF TypeInv, TypeOK
  <2>5. ExecTokens'
    BY <2>1, <2>2, <2>3 DEF TypeInv, TypeOK, ExecTokens
  <2>6. QED
    BY <1>1, <2>4, <2>5
<1>4. QED
  BY <1>2, <1>3 DEF Receive

(* The link, the file, and crashes.                                        *)
LEMMA LinkType ==
    ASSUME TypeInv, Link
    PROVE  TypeInv'
<1> USE DEF TypeInv, TypeOK, daemonVars, machineVars
<1>1. CASE Serve
  <2>1. reply' \in [runs : SUBSET Ticket, cancels : SUBSET Runs] /\ cancels' \subseteq Runs
    BY <1>1 DEF Serve
  <2>2. QED
    BY <1>1, <2>1 DEF Serve, ExecTokens
<1>2. CASE LoseReply
  <2>1. reply' \in [runs : SUBSET Ticket, cancels : SUBSET Runs]
    BY <1>2 DEF LoseReply, NoReply
  <2>2. QED
    BY <1>2, <2>1 DEF LoseReply, ExecTokens
<1>3. CASE Receive
  <2>1. reply' \in [runs : SUBSET Ticket, cancels : SUBSET Runs]
    BY <1>3 DEF Receive, NoReply
  <2>2. QED
    BY <1>3, <2>1, ReceiveType DEF Receive
<1>4. CASE LinkDrops
  <2>1. drops' \in 0..MaxDrops
    BY <1>4, MachineDispatchAssumption DEF LinkDrops
  <2>2. QED
    BY <1>4, <2>1, DisconnectType DEF LinkDrops, Disconnect
<1>5. CASE LinkUp
  <2>1. flush' \in Flush
    BY <1>5 DEF LinkUp, Flush, NoFlush
  <2>2. QED
    BY <1>5, <2>1 DEF LinkUp, ExecTokens
<1>6. CASE FlushSaves
  <2>1. flush' \in Flush /\ stash' \subseteq Ticket
    BY <1>6 DEF FlushSaves, Flush, NoFlush
  <2>2. QED
    BY <1>6, <2>1 DEF FlushSaves, ExecTokens
<1>7. CASE MachineCrash
  <2>1. drops' \in 0..MaxDrops
    BY <1>7, MachineDispatchAssumption DEF MachineCrash
  <2>2. exec' \in [Execs -> Exec] /\ ExecTokens'
    BY <1>7, FreeExecType DEF MachineCrash, ExecTokens, FreeExec
  <2>3. /\ reply' \in [runs : SUBSET Ticket, cancels : SUBSET Runs]
        /\ flush' \in Flush
    BY <1>7 DEF MachineCrash, NoReply, NoFlush, Flush
  <2>4. QED
    BY <1>7, <2>1, <2>2, <2>3 DEF MachineCrash
<1>8. CASE Crash
  <2>1. crashes' \in 0..MaxCrashes
    BY <1>8, MachineDispatchAssumption DEF Crash
  <2>2. watch' \in [Runs -> Watch]
    BY <1>8 DEF Crash, Watch
  <2>3. QED
    BY <1>8, <2>1, <2>2, DisconnectType DEF Crash, Disconnect
<1>9. CASE Boot
  BY <1>9 DEF Boot, ExecTokens
<1>10. CASE Recover
  <2>1. row' \in [Runs -> Row]
    BY <1>10 DEF Recover, Row
  <2>2. QED
    BY <1>10, <2>1 DEF Recover, ExecTokens
<1>11. QED
  BY <1>1, <1>2, <1>3, <1>4, <1>5, <1>6, <1>7, <1>8, <1>9, <1>10 DEF Link

LEMMA NextType == TypeInv /\ [Next]_vars => TypeInv'
<1> SUFFICES ASSUME TypeInv, [Next]_vars PROVE TypeInv'
  OBVIOUS
<1>1. CASE UNCHANGED vars
  BY <1>1 DEF vars, daemonVars, machineVars, TypeInv, TypeOK, ExecTokens
<1>2. QED
  BY <1>1, PlatformType, TicketType, ExecutorType, LinkType DEF Next

(* Every variable keeps its type; in particular no token exceeds the       *)
(* claims, every report is one of a claim, and what waits in the file of   *)
(* reports can be sent.                                                    *)
THEOREM TypeCorrect == Spec => []TypeOK
<1>1. TypeInv => TypeOK
  BY DEF TypeInv
<1>2. QED
  BY <1>1, InitType, NextType, PTL DEF Spec

--------------------------------------------------------------------------------
(* Ends.                                                                   *)

(* The steps that write the run table.                                     *)
LEMMA RowWriters ==
    ASSUME TypeInv, Next, row' # row
    PROVE  \/ \E r \in Runs : Claim(r)
           \/ \E r \in Runs, end \in 0..MaxClaims :
                /\ row' = Ended(r, end)
                /\ end = 0 \/ \E t \in finishing : t.run = r /\ t.tok = end
           \/ Recover
<1>1. 0 \in 0..MaxClaims
  BY MachineDispatchAssumption
<1>2. ASSUME NEW r \in Runs, Platform(r)
      PROVE  Claim(r) \/ row' = Ended(r, 0)
  BY <1>2 DEF Platform, Stamp, AskStop, FailExpired, IngestRunClaimed,
              WatchdogStops, WatchdogCancels, WatchdogEnds, daemonVars
<1>3. ASSUME NEW t \in Ticket, Tickets(t)
      PROVE  \/ row' = Ended(t.run, 0)
             \/ t \in finishing /\ row' = Ended(t.run, t.tok)
  BY <1>3 DEF Tickets, DispatchToMachine, FailLaunch, PickupTimeout, SweepExpired,
              FinishMachineRun, FlushSends, FlushFails, daemonVars
<1>4. \A t \in Ticket : t.run \in Runs /\ t.tok \in 0..MaxClaims
  BY MachineDispatchAssumption DEF Ticket, Token
<1>5. ASSUME NEW e \in Execs, Executor(e)
      PROVE  FALSE
  BY <1>5 DEF Executor, Enter, Acknowledge, EndWork, IngestRunFinished, SaveStash,
              ReportFails, daemonVars
<1>6. ASSUME Link
      PROVE  Recover
  BY <1>6 DEF Link, Serve, LoseReply, Receive, LinkDrops, LinkUp, FlushSaves,
              MachineCrash, Crash, Boot, daemonVars
<1>7. QED
  BY <1>1, <1>2, <1>3, <1>4, <1>5, <1>6 DEF Next

LEMMA EndStep ==
    ASSUME TypeInv, [Next]_vars
    PROVE  \A r \in Runs : row[r].status = "ended" => row'[r] = row[r]
<1>1. row \in [Runs -> Row]
  BY DEF TypeInv, TypeOK
<1>2. CASE row' = row
  BY <1>2
<1>3. ASSUME NEW r \in Runs, Claim(r)
      PROVE  \A q \in Runs : row[q].status = "ended" => row'[q] = row[q]
  BY <1>1, <1>3 DEF Claim
<1>4. ASSUME NEW r \in Runs, NEW end \in 0..MaxClaims, row' = Ended(r, end)
      PROVE  \A q \in Runs : row[q].status = "ended" => row'[q] = row[q]
  BY <1>1, <1>4, EndedRow
<1>5. CASE Recover
  BY <1>5 DEF Recover, Running
<1>6. QED
  BY <1>2, <1>3, <1>4, <1>5, RowWriters DEF vars

(* Whatever reports, timers, stops and restarts follow, the first end of a *)
(* run stands: Finish and the stamps are conditional on a pending row.     *)
THEOREM FirstEndStands == Spec => EndStands
<1>1. TypeInv /\ [Next]_vars
        => [\A r \in Runs : row[r].status = "ended" => row'[r] = row[r]]_vars
  BY EndStep
<1>2. QED
  BY <1>1, InitType, NextType, PTL DEF Spec, EndStands

--------------------------------------------------------------------------------
(* Supervision.                                                            *)

(* What holds on to a run.                                                 *)
Held(r) == \/ r \in RunsOf(assigned) \cup RunsOf(pending)
           \/ r \in expired \cup RunsOf(finishing)
           \/ watch[r] # "off"

(* A set without one ticket still has those of the other runs.             *)
LEMMA TicketGone ==
    ASSUME NEW T, NEW t, NEW r, r # t.run
    PROVE  r \in RunsOf(T) <=> r \in RunsOf(T \ {t})
  BY DEF RunsOf

LEMMA RunGone ==
    ASSUME NEW T, NEW q, NEW r, r # q
    PROVE  r \in RunsOf(T) <=> r \in RunsOf(Without(T, q))
  BY DEF RunsOf, Without

(* What is accepted stays with what was.                                   *)
LEMMA MoreFinishing ==
    ASSUME NEW t
    PROVE  RunsOf(finishing) \subseteq RunsOf(Accepted(t))
  BY AcceptedReports DEF RunsOf

(* A step that writes no row, lets nothing go and does not bring the       *)
(* daemon up keeps the supervision.                                        *)
LEMMA HeldOn ==
    ASSUME Supervised, row' = row, up' = up \/ up' # "up",
           \A r \in Runs : Held(r) => Held(r)'
    PROVE  Supervised'
  BY DEF Supervised, Held, Running

(* The same when the step ends the run it lets go.                         *)
LEMMA HeldToEnd ==
    ASSUME TypeInv, Supervised, NEW q \in Runs, NEW end \in 0..MaxClaims,
           row' = Ended(q, end), up' = up,
           \A r \in Runs : r # q => (Held(r) => Held(r)')
    PROVE  Supervised'
<1>1. \A r \in Runs : Running(r)' => r # q /\ Running(r)
  BY EndedRow DEF TypeInv, TypeOK, Running
<1>2. QED
  BY <1>1 DEF Supervised, Held

(* A claim gives the run to a worker, and takes nothing from one.          *)
LEMMA ClaimAssigns ==
    ASSUME NEW q \in Runs, Claim(q)
    PROVE  RunsOf(assigned') = RunsOf(assigned) \cup {q}
<1> DEFINE new == [run |-> q, tok |-> row[q].tok + 1]
<1>1. new.run = q
  OBVIOUS
<1>2. assigned' = assigned \cup {new}
  BY DEF Claim
<1> HIDE DEF new
<1>3. QED
  BY <1>1, <1>2 DEF RunsOf

LEMMA PlatformSupervised ==
    ASSUME TypeInv, Supervised, NEW q \in Runs, Platform(q)
    PROVE  Supervised'
<1>0. 0 \in 0..MaxClaims /\ watch \in [Runs -> Watch]
  BY MachineDispatchAssumption DEF TypeInv, TypeOK
<1>1. CASE Claim(q)
  <2>1. q \in RunsOf(assigned') /\ RunsOf(assigned) \subseteq RunsOf(assigned')
    BY <1>1, ClaimAssigns
  <2>2. \A r \in Runs : r # q => (Running(r)' <=> Running(r))
    BY <1>1 DEF Claim, Running, TypeInv, TypeOK
  <2>3. QED
    BY <1>1, <2>1, <2>2 DEF Supervised, Claim
<1>2. CASE Stamp(q)
  <2>1. \A r \in Runs : Held(r) => Held(r)'
    BY <1>2 DEF Stamp, daemonVars, Held
  <2>2. QED
    BY <1>0, <1>2, <2>1, HeldToEnd DEF Stamp, daemonVars
<1>3. CASE AskStop(q)
  <2>1. \A r \in Runs : Held(r) => Held(r)'
    BY <1>3 DEF AskStop, Held
  <2>2. QED
    BY <1>3, <2>1, HeldOn DEF AskStop
<1>4. CASE FailExpired(q)
  <2>1. \A r \in Runs : r # q => (Held(r) => Held(r)')
    BY <1>4 DEF FailExpired, Held
  <2>2. QED
    BY <1>0, <1>4, <2>1, HeldToEnd DEF FailExpired
<1>5. CASE IngestRunClaimed(q)
  <2>1. Watched(q)[q] # "off" /\ \A r \in Runs : r # q => Watched(q)[r] = watch[r]
    BY <1>0 DEF Watched
  <2>2. \A r \in Runs : Held(r) => Held(r)'
    BY <1>5, <2>1, RunGone DEF IngestRunClaimed, Held
  <2>3. QED
    BY <1>5, <2>2, HeldOn DEF IngestRunClaimed
<1>6. CASE WatchdogStops(q)
  <2>1. \A r \in Runs : r # q => (Held(r) => Held(r)')
    BY <1>0, <1>6 DEF WatchdogStops, Held
  <2>2. ~ Running(q)
    BY <1>6 DEF WatchdogStops
  <2>3. QED
    BY <1>6, <2>1, <2>2 DEF WatchdogStops, Supervised, Held, Running
<1>7. CASE WatchdogCancels(q)
  <2>1. \A r \in Runs : Held(r) => Held(r)'
    BY <1>0, <1>7 DEF WatchdogCancels, Held
  <2>2. QED
    BY <1>7, <2>1, HeldOn DEF WatchdogCancels
<1>8. CASE WatchdogEnds(q)
  <2>1. \A r \in Runs : r # q => (Held(r) => Held(r)')
    BY <1>0, <1>8 DEF WatchdogEnds, Held
  <2>2. QED
    BY <1>0, <1>8, <2>1, HeldToEnd DEF WatchdogEnds
<1>9. QED
  BY <1>1, <1>2, <1>3, <1>4, <1>5, <1>6, <1>7, <1>8 DEF Platform

LEMMA TicketSupervised ==
    ASSUME TypeInv, Supervised, NEW t \in Ticket, Tickets(t)
    PROVE  Supervised'
<1>0. t.run \in Runs /\ t.tok \in 0..MaxClaims /\ 0 \in 0..MaxClaims
  BY MachineDispatchAssumption DEF Ticket, Token
<1>1. CASE DispatchToMachine(t)
  <2>1. \A r \in Runs : r \in RunsOf(assigned) \cup RunsOf(pending)
                         => r \in RunsOf(assigned') \cup RunsOf(pending')
    BY <1>1 DEF DispatchToMachine, RunsOf
  <2>2. \A r \in Runs : Held(r) => Held(r)'
    BY <1>1, <2>1 DEF DispatchToMachine, Held
  <2>3. QED
    BY <1>1, <2>2, HeldOn DEF DispatchToMachine
<1>2. CASE FailLaunch(t)
  <2>1. \A r \in Runs : r # t.run => (Held(r) => Held(r)')
    BY <1>2, TicketGone DEF FailLaunch, Held
  <2>2. QED
    BY <1>0, <1>2, <2>1, HeldToEnd DEF FailLaunch
<1>3. CASE PickupTimeout(t)
  <2>1. \A r \in Runs : Held(r) => Held(r)'
    BY <1>3, RunGone DEF PickupTimeout, Held
  <2>2. QED
    BY <1>3, <2>1, HeldOn DEF PickupTimeout
<1>4. CASE SweepExpired(t)
  <2>1. \A r \in Runs : Held(r) => Held(r)'
    BY <1>4, TicketGone DEF SweepExpired, Held
  <2>2. QED
    BY <1>4, <2>1, HeldOn DEF SweepExpired
<1>5. CASE FinishMachineRun(t)
  <2>1. \A r \in Runs : r # t.run => (Held(r) => Held(r)')
    BY <1>5, TicketGone DEF FinishMachineRun, Held
  <2>2. QED
    BY <1>0, <1>5, <2>1, HeldToEnd DEF FinishMachineRun
<1>6. CASE FlushSends(t)
  <2>1. \A r \in Runs : Held(r) => Held(r)'
    BY <1>6, MoreFinishing DEF FlushSends, Held
  <2>2. QED
    BY <1>6, <2>1, HeldOn DEF FlushSends
<1>7. ASSUME NEW handled \in BOOLEAN, FlushFails(t, handled)
      PROVE  Supervised'
  <2>1. \A r \in Runs : Held(r) => Held(r)'
    BY <1>7, MoreFinishing DEF FlushFails, Held
  <2>2. QED
    BY <1>7, <2>1, HeldOn DEF FlushFails
<1>8. QED
  BY <1>1, <1>2, <1>3, <1>4, <1>5, <1>6, <1>7 DEF Tickets

LEMMA ExecutorSupervised ==
    ASSUME Supervised, NEW e \in Execs, Executor(e)
    PROVE  Supervised'
<1>1. row' = row /\ up' = up
  BY DEF Executor, Enter, Acknowledge, EndWork, IngestRunFinished, SaveStash,
         ReportFails, daemonVars
<1>2. RunsOf(finishing) \subseteq RunsOf(finishing')
  BY MoreFinishing DEF Executor, Enter, Acknowledge, EndWork, IngestRunFinished,
         SaveStash, ReportFails, daemonVars
<1>3. UNCHANGED <<assigned, pending, expired, watch>>
  BY DEF Executor, Enter, Acknowledge, EndWork, IngestRunFinished, SaveStash,
         ReportFails, daemonVars
<1>4. \A r \in Runs : Held(r) => Held(r)'
  BY <1>2, <1>3 DEF Held
<1>5. QED
  BY <1>1, <1>4, HeldOn

LEMMA LinkSupervised ==
    ASSUME TypeInv, Supervised, Link
    PROVE  Supervised'
<1>1. CASE Crash \/ Boot
  BY <1>1 DEF Crash, Boot, Supervised
<1>2. CASE Recover
  <2>1. \A r \in Runs : ~ Running(r)'
    BY <1>2 DEF Recover, Running, TypeInv, TypeOK, Row
  <2>2. QED
    BY <2>1 DEF Supervised
<1>3. CASE UNCHANGED <<row, up, assigned, pending, expired, watch, finishing>>
  BY <1>3 DEF Supervised, Running
<1>4. QED
  BY <1>1, <1>2, <1>3
     DEF Link, Serve, LoseReply, Receive, LinkDrops, LinkUp, FlushSaves,
         MachineCrash, daemonVars

(* While the daemon works, every running run is with a worker, in the      *)
(* queue, being failed, being watched or being finished: nothing the       *)
(* machine or the link does can leave it to nobody.                        *)
THEOREM EveryRunSupervised == Spec => []Supervised
<1>1. Init => Supervised
  BY DEF Init, Supervised, Running
<1>2. TypeInv /\ Supervised /\ [Next]_vars => Supervised'
  <2>1. CASE UNCHANGED vars
    BY <2>1 DEF vars, daemonVars, Supervised, Running
  <2>2. QED
    BY <2>1, PlatformSupervised, TicketSupervised, ExecutorSupervised,
       LinkSupervised DEF Next
<1>3. QED
  BY <1>1, <1>2, InitType, NextType, PTL DEF Spec

--------------------------------------------------------------------------------
(* The executor's map.                                                     *)

LEMMA LeaveKnows ==
    ASSUME TypeInv, KnownIsInFlight, NEW e \in Execs, Leave(e)
    PROVE  KnownIsInFlight'
<1>1. \A r \in Runs : known'[r] # NoExec => known'[r] = known[r] /\ known[r] # e
  BY DEF Leave, KnownIsInFlight, TypeInv, TypeOK
<1>2. \A d \in Execs : d # e => exec'[d] = exec[d]
  BY DEF Leave, TypeInv, TypeOK
<1>3. \A r \in Runs : known[r] # NoExec => known[r] \in Execs
  BY DEF TypeInv, TypeOK
<1>4. QED
  BY <1>1, <1>2, <1>3 DEF KnownIsInFlight

(* An execution that moves on inside execute is still in flight.           *)
LEMMA MovesOn ==
    ASSUME TypeInv, KnownIsInFlight, UNCHANGED known, NEW e \in Execs,
           \A d \in Execs : d # e => exec'[d] = exec[d],
           exec'[e].pc \notin {"free", "launched"},
           exec'[e].run = exec[e].run, exec'[e].old = exec[e].old
    PROVE  KnownIsInFlight'
<1>1. \A r \in Runs : known[r] # NoExec => known[r] \in Execs
  BY DEF TypeInv, TypeOK
<1>2. QED
  BY <1>1 DEF KnownIsInFlight

LEMMA ExecutorKnows ==
    ASSUME TypeInv, KnownIsInFlight, NEW e \in Execs, Executor(e)
    PROVE  KnownIsInFlight'
<1>0. exec \in [Execs -> Exec] /\ exec[e] \in Exec
  BY ExecFields DEF TypeInv, TypeOK
<1>1. CASE Enter(e)
  <2>1. /\ \A d \in Execs : d # e => exec'[d] = exec[d]
        /\ exec'[e].pc = "starting" /\ exec'[e].run = exec[e].run
        /\ exec'[e].old = exec[e].old
    BY <1>0, <1>1 DEF Enter, Exec
  <2>2. CASE exec[e].old
    BY <1>1, <2>1, <2>2, MovesOn DEF Enter
  <2>3. CASE ~ exec[e].old
    <3>1. /\ known'[exec[e].run] = e
          /\ \A r \in Runs : r # exec[e].run => known'[r] = known[r]
      BY <1>0, <1>1, <2>3 DEF Enter, TypeInv, TypeOK, Exec
    <3>2. \A r \in Runs : known[r] # NoExec => known[r] \in Execs
      BY DEF TypeInv, TypeOK
    <3>3. \A r \in Runs : known[r] # e
      BY <1>1, MachineDispatchAssumption DEF Enter, KnownIsInFlight
    <3>4. QED
      BY <2>1, <2>3, <3>1, <3>2, <3>3 DEF KnownIsInFlight
  <2>4. QED
    BY <2>2, <2>3
<1>2. CASE Acknowledge(e)
  <2>1. /\ \A d \in Execs : d # e => exec'[d] = exec[d]
        /\ exec'[e].pc = "working" /\ exec'[e].run = exec[e].run
        /\ exec'[e].old = exec[e].old
    BY <1>0, <1>2 DEF Acknowledge, Exec
  <2>2. QED
    BY <1>2, <2>1, MovesOn DEF Acknowledge
<1>3. CASE EndWork(e)
  <2>1. /\ \A d \in Execs : d # e => exec'[d] = exec[d]
        /\ exec'[e].pc = "reporting" /\ exec'[e].run = exec[e].run
        /\ exec'[e].old = exec[e].old
    BY <1>0, <1>3 DEF EndWork, Exec
  <2>2. QED
    BY <1>3, <2>1, MovesOn DEF EndWork
<1>4. CASE IngestRunFinished(e) \/ SaveStash(e)
  BY <1>4, LeaveKnows DEF IngestRunFinished, SaveStash
<1>5. ASSUME NEW handled \in BOOLEAN, ReportFails(e, handled)
      PROVE  KnownIsInFlight'
  <2>1. /\ \A d \in Execs : d # e => exec'[d] = exec[d]
        /\ exec'[e].pc = "stashing" /\ exec'[e].run = exec[e].run
        /\ exec'[e].old = exec[e].old
    BY <1>0, <1>5 DEF ReportFails, Exec
  <2>2. QED
    BY <1>5, <2>1, MovesOn DEF ReportFails
<1>6. QED
  BY <1>1, <1>2, <1>3, <1>4, <1>5 DEF Executor

(* A new execution takes a free slot, which the map does not know.         *)
LEMMA ReceiveKnows ==
    ASSUME TypeInv, KnownIsInFlight, Receive
    PROVE  KnownIsInFlight'
<1>1. \A r \in Runs : known'[r] # NoExec => known'[r] = known[r]
  BY DEF Receive
<1>2. \A r \in Runs : known[r] # NoExec => known[r] \in Execs
  BY DEF TypeInv, TypeOK
<1>3. \A e \in Execs : exec[e].pc # "free" => exec'[e] = exec[e]
  <2>1. CASE UNCHANGED exec
    BY <2>1
  <2>2. CASE \E t \in reply.runs, e \in FreeSlot :
               exec' = [exec EXCEPT ![e] =
                 [FreeExec EXCEPT !.pc = "launched", !.run = t.run, !.tok = t.tok]]
    BY <2>2, FreeSlotFree DEF TypeInv, TypeOK
  <2>3. QED
    BY <2>1, <2>2 DEF Receive
<1>4. QED
  BY <1>1, <1>2, <1>3 DEF KnownIsInFlight

(* The executor refuses a dispatch as already in flight only while an      *)
(* execution of that run is in flight: no entry outlives its execution, so *)
(* no dispatch is refused for ever.                                        *)
THEOREM KnownInFlight == Spec => []KnownIsInFlight
<1>1. Init => KnownIsInFlight
  BY DEF Init, KnownIsInFlight
<1>2. TypeInv /\ KnownIsInFlight /\ [Next]_vars => KnownIsInFlight'
  <2> SUFFICES ASSUME TypeInv, KnownIsInFlight, [Next]_vars
               PROVE  KnownIsInFlight'
    OBVIOUS
  <2>1. CASE UNCHANGED <<exec, known>>
    BY <2>1 DEF KnownIsInFlight
  <2>2. CASE known' = [r \in Runs |-> NoExec]
    BY <2>2 DEF KnownIsInFlight
  <2>3. ASSUME NEW r \in Runs, Platform(r)
        PROVE  UNCHANGED <<exec, known>>
    BY <2>3 DEF Platform, Claim, Stamp, AskStop, FailExpired, IngestRunClaimed,
                WatchdogStops, WatchdogCancels, WatchdogEnds, machineVars
  <2>4. ASSUME NEW t \in Ticket, Tickets(t)
        PROVE  UNCHANGED <<exec, known>>
    BY <2>4 DEF Tickets, DispatchToMachine, FailLaunch, PickupTimeout, SweepExpired,
                FinishMachineRun, FlushSends, FlushFails, machineVars
  <2>5. ASSUME Link, ~ Receive
        PROVE  UNCHANGED <<exec, known>> \/ known' = [r \in Runs |-> NoExec]
    BY <2>5 DEF Link, Serve, LoseReply, LinkDrops, LinkUp, FlushSaves, MachineCrash,
                Crash, Boot, Recover, Disconnect, machineVars
  <2>6. CASE UNCHANGED vars
    BY <2>1, <2>6 DEF vars, machineVars
  <2>7. QED
    BY <2>1, <2>2, <2>3, <2>4, <2>5, <2>6, ReceiveKnows, ExecutorKnows DEF Next
<1>3. QED
  BY <1>1, <1>2, InitType, NextType, PTL DEF Spec

--------------------------------------------------------------------------------
(* Traces.                                                                 *)

(* The machine has been told of a run, on the present link.                *)
Active(e) == exec[e].pc # "free" /\ ~ exec[e].old
Told(r) == \/ r \in RunsOf(pending) \cup RunsOf(reply.runs) \cup acks
           \/ \E e \in Execs : Active(e) /\ exec[e].run = r

(* A daemon that starts knows of nothing, and nothing of it.               *)
StartsQuiet ==
    up # "up" => assigned = {} /\ \A r \in Runs : watch[r] = "off" /\ ~ Told(r)

(* Nor is there a trace of a queued run: it was never claimed, or before   *)
(* the last crash.                                                         *)
QueuedQuiet ==
    \A r \in Runs : row[r].status = "queued" =>
        r \notin RunsOf(assigned) /\ watch[r] = "off" /\ ~ Told(r)

(* A run with a worker has one dispatch, which the machine has not seen.   *)
WithWorker ==
    \A t \in assigned :
        /\ watch[t.run] = "off" /\ ~ Told(t.run)
        /\ \A u \in assigned : u.run = t.run => u = t

(* An acknowledged run has left the queue.                                 *)
Retired == \A r \in Runs : watch[r] # "off" => r \notin RunsOf(pending)

Traces == StartsQuiet /\ QueuedQuiet /\ WithWorker /\ Retired

(* What a step tells the machine.                                          *)
LEMMA NothingTold ==
    ASSUME pending' \subseteq pending,
           reply'.runs \subseteq pending \cup reply.runs,
           \A r \in acks' : r \in acks \/ Told(r),
           \A e \in Execs : Active(e)' => Told(exec'[e].run)
    PROVE  \A r \in Runs : Told(r)' => Told(r)
<1>1. \A r : r \in RunsOf(pending') => r \in RunsOf(pending)
  BY DEF RunsOf
<1>2. \A r : r \in RunsOf(reply'.runs) => r \in RunsOf(pending) \cup RunsOf(reply.runs)
  BY DEF RunsOf
<1>3. QED
  BY <1>1, <1>2 DEF Told

(* The same for a step that leaves the reply alone.                        *)
LEMMA ExecutionsTold ==
    ASSUME UNCHANGED <<pending, reply>>,
           \A r \in acks' : r \in acks \/ Told(r),
           \A e \in Execs : Active(e)' => Active(e) /\ exec'[e].run = exec[e].run
    PROVE  \A r \in Runs : Told(r)' => Told(r)
<1>1. \A e \in Execs : Active(e)' => Told(exec'[e].run)
  BY DEF Told
<1>2. QED
  BY <1>1, NothingTold

LEMMA PlatformTold ==
    ASSUME NEW q \in Runs, Platform(q)
    PROVE  \A r \in Runs : Told(r)' => Told(r)
<1>1. pending' \subseteq pending
  BY DEF Platform, Claim, Stamp, AskStop, FailExpired, IngestRunClaimed, Without,
         WatchdogStops, WatchdogCancels, WatchdogEnds, daemonVars
<1>2. acks' \subseteq acks /\ UNCHANGED <<reply, exec>>
  BY DEF Platform, Claim, Stamp, AskStop, FailExpired, IngestRunClaimed,
         WatchdogStops, WatchdogCancels, WatchdogEnds, machineVars
<1>3. \A e \in Execs : Active(e)' => Told(exec'[e].run)
  BY <1>2 DEF Active, Told
<1>4. QED
  BY <1>1, <1>2, <1>3, NothingTold

LEMMA TicketTold ==
    ASSUME NEW t \in Ticket, Tickets(t)
    PROVE  \A r \in Runs : Told(r)' => Told(r) \/ (DispatchToMachine(t) /\ r = t.run)
<1>1. UNCHANGED <<acks, reply, exec>>
  BY DEF Tickets, DispatchToMachine, FailLaunch, PickupTimeout, SweepExpired,
         FinishMachineRun, FlushSends, FlushFails, machineVars
<1>2. CASE DispatchToMachine(t)
  <2>1. \A r : r \in RunsOf(pending') => r \in RunsOf(pending) \/ r = t.run
    BY <1>2 DEF DispatchToMachine, RunsOf
  <2>2. \A e \in Execs : Active(e)' => Told(exec'[e].run)
    BY <1>1 DEF Active, Told
  <2>3. acks' = acks /\ RunsOf(reply'.runs) = RunsOf(reply.runs)
    BY <1>1
  <2>4. ASSUME NEW r \in Runs, Told(r)', r # t.run
        PROVE  Told(r)
    BY <2>1, <2>2, <2>3, <2>4 DEF Told
  <2>5. QED
    BY <1>2, <2>4
<1>3. CASE ~ DispatchToMachine(t)
  <2>1. pending' \subseteq pending
    BY <1>3 DEF Tickets, FailLaunch, PickupTimeout, SweepExpired, Without,
                FinishMachineRun, FlushSends, FlushFails
  <2>2. \A e \in Execs : Active(e)' => Told(exec'[e].run)
    BY <1>1 DEF Active, Told
  <2>3. /\ reply'.runs \subseteq pending \cup reply.runs
        /\ \A r \in acks' : r \in acks \/ Told(r)
    BY <1>1
  <2>4. QED
    BY <2>1, <2>2, <2>3, NothingTold
<1>4. QED
  BY <1>2, <1>3

LEMMA ExecutorTold ==
    ASSUME TypeInv, NEW e \in Execs, Executor(e)
    PROVE  \A r \in Runs : Told(r)' => Told(r)
<1>0. exec \in [Execs -> Exec] /\ exec[e] \in Exec
  BY ExecFields DEF TypeInv, TypeOK
<1>1. UNCHANGED <<pending, reply>>
  BY DEF Executor, Enter, Acknowledge, EndWork, IngestRunFinished, SaveStash,
         ReportFails, daemonVars
<1>2. \A d \in Execs : d # e => exec'[d] = exec[d]
  BY <1>0 DEF Executor, Enter, Acknowledge, EndWork, IngestRunFinished, SaveStash,
              ReportFails, Leave
<1>3. \/ exec'[e].pc = "free"
      \/ exec'[e].run = exec[e].run /\ exec'[e].old = exec[e].old
  <2>1. ASSUME Leave(e)
        PROVE  exec'[e].pc = "free"
    BY <1>0, <2>1 DEF Leave, FreeExec
  <2>2. ASSUME Enter(e) \/ Acknowledge(e) \/ EndWork(e)
        PROVE  exec'[e].run = exec[e].run /\ exec'[e].old = exec[e].old
    BY <1>0, <2>2 DEF Enter, Acknowledge, EndWork, Exec
  <2>3. ASSUME NEW handled \in BOOLEAN, ReportFails(e, handled)
        PROVE  exec'[e].run = exec[e].run /\ exec'[e].old = exec[e].old
    BY <1>0, <2>3 DEF ReportFails, Exec
  <2>4. CASE IngestRunFinished(e) \/ SaveStash(e)
    BY <2>1, <2>4 DEF IngestRunFinished, SaveStash
  <2>5. QED
    BY <2>2, <2>3, <2>4 DEF Executor
<1>4. exec[e].pc # "free"
  BY DEF Executor, Enter, Acknowledge, EndWork, IngestRunFinished, SaveStash,
         ReportFails
<1>5. \A d \in Execs : Active(d)' => Active(d) /\ exec'[d].run = exec[d].run
  BY <1>2, <1>3, <1>4 DEF Active
<1>6. \A r \in acks' : r \in acks \/ Told(r)
  <2>1. CASE Acknowledge(e)
    BY <1>4, <2>1 DEF Acknowledge, Told, Active
  <2>2. CASE ~ Acknowledge(e)
    BY <2>2 DEF Executor, Enter, EndWork, IngestRunFinished, SaveStash, ReportFails
  <2>3. QED
    BY <2>1, <2>2
<1>7. QED
  BY <1>1, <1>5, <1>6, ExecutionsTold

LEMMA LinkTold ==
    ASSUME TypeInv, Link
    PROVE  \A r \in Runs : Told(r)' => Told(r)
<1>1. CASE Disconnect /\ pending' \subseteq pending
  <2>1. \A e \in Execs : ~ Active(e)'
    BY <1>1, ExecFields DEF Disconnect, Active, TypeInv, TypeOK, Exec
  <2>2. reply'.runs = {} /\ acks' = {}
    BY <1>1 DEF Disconnect, NoReply
  <2>3. QED
    BY <1>1, <2>1, <2>2, NothingTold
<1>2. CASE MachineCrash
  <2>1. \A e \in Execs : ~ Active(e)'
    BY <1>2 DEF MachineCrash, Active, FreeExec
  <2>2. reply'.runs = {} /\ acks' = {} /\ pending' = pending
    BY <1>2 DEF MachineCrash, NoReply, daemonVars
  <2>3. QED
    BY <2>1, <2>2, NothingTold
<1>3. CASE UNCHANGED <<pending, acks, exec>> /\ reply'.runs \subseteq pending \cup reply.runs
  <2>1. \A e \in Execs : Active(e)' => Told(exec'[e].run)
    BY <1>3 DEF Active, Told
  <2>2. QED
    BY <1>3, <2>1, NothingTold
<1>4. CASE Receive
  <2>1. reply'.runs = {} /\ acks' = acks /\ pending' = pending
    BY <1>4 DEF Receive, NoReply, daemonVars
  <2>2. ASSUME NEW d \in Execs, Active(d)'
        PROVE  Told(exec'[d].run)
    <3>1. CASE exec'[d] = exec[d]
      BY <2>2, <3>1 DEF Active, Told
    <3>2. CASE exec'[d] # exec[d]
      <4>1. PICK t \in reply.runs, e \in FreeSlot :
              exec' = [exec EXCEPT ![e] =
                [FreeExec EXCEPT !.pc = "launched", !.run = t.run, !.tok = t.tok]]
        BY <1>4, <3>2 DEF Receive
      <4>2. exec'[d] = [FreeExec EXCEPT !.pc = "launched", !.run = t.run, !.tok = t.tok]
        BY <3>2, <4>1 DEF TypeInv, TypeOK
      <4>3. exec'[d].run = t.run
        BY <4>2 DEF FreeExec
      <4>4. QED
        BY <4>3 DEF Told, RunsOf
    <3>3. QED
      BY <3>1, <3>2
  <2>3. QED
    BY <2>1, <2>2, NothingTold
<1>5. Serve \/ LoseReply \/ LinkUp \/ FlushSaves \/ Boot \/ Recover
        => UNCHANGED <<pending, acks, exec>> /\ reply'.runs \subseteq pending \cup reply.runs
  BY DEF Serve, LoseReply, NoReply, LinkUp, FlushSaves, Boot, Recover, daemonVars,
         machineVars
<1>6. LinkDrops \/ Crash => Disconnect /\ pending' \subseteq pending
  BY DEF LinkDrops, Crash, daemonVars
<1>7. QED
  BY <1>1, <1>2, <1>3, <1>4, <1>5, <1>6 DEF Link

(* A step that starts no claim, dispatch, acknowledgement, recovery or     *)
(* crash leaves fewer traces, and no trace is added to a queued run.       *)
LEMMA FewerTraces ==
    ASSUME Traces,
           up' # "up" => up # "up",
           assigned' \subseteq assigned, RunsOf(pending') \subseteq RunsOf(pending),
           \A r \in Runs : row'[r].status = "queued" => row[r].status = "queued",
           \A r \in Runs : watch[r] = "off" => watch'[r] = "off",
           \A t \in assigned : t.run \in Runs,
           \A r \in Runs : Told(r)' => Told(r)
    PROVE  Traces'
<1>1. RunsOf(assigned') \subseteq RunsOf(assigned)
  BY DEF RunsOf
<1>2. StartsQuiet'
  BY DEF Traces, StartsQuiet
<1>3. QueuedQuiet'
  BY <1>1 DEF Traces, QueuedQuiet
<1>4. WithWorker'
  BY DEF Traces, WithWorker
<1>5. Retired'
  BY DEF Traces, Retired
<1>6. QED
  BY <1>2, <1>3, <1>4, <1>5 DEF Traces

(* An end leaves no row queued that was not.                               *)
LEMMA EndQueues ==
    ASSUME TypeInv, NEW q \in Runs, NEW end \in 0..MaxClaims, row' = Ended(q, end)
    PROVE  \A r \in Runs : row'[r].status = "queued" => row[r].status = "queued"
<1>1. row'[q].status = "ended" /\ \A r \in Runs : r # q => row'[r] = row[r]
  BY EndedRow DEF TypeInv, TypeOK
<1>2. QED
  BY <1>1

LEMMA AssignedRuns ==
    ASSUME TypeInv
    PROVE  \A t \in assigned : t.run \in Runs /\ t.run \in RunsOf(assigned)
  BY DEF TypeInv, TypeOK, Ticket, RunsOf

LEMMA ClaimTraces ==
    ASSUME TypeInv, Traces, NEW q \in Runs, Claim(q)
    PROVE  Traces'
<1> DEFINE new == [run |-> q, tok |-> row[q].tok + 1]
<1>1. q \notin RunsOf(assigned) /\ watch[q] = "off" /\ ~ Told(q)
  BY DEF Claim, Traces, QueuedQuiet
<1>2. \A r \in Runs : Told(r)' => Told(r)
  BY PlatformTold DEF Platform
<1>3. up = "up" /\ UNCHANGED <<up, pending, watch>>
  BY DEF Claim
<1>4. new.run = q /\ assigned' = assigned \cup {new}
  BY DEF Claim
<1> HIDE DEF new
<1>5. StartsQuiet'
  BY <1>3 DEF StartsQuiet
<1>6. QueuedQuiet'
  <2>1. \A r \in Runs : row'[r].status = "queued" => r # q /\ row[r].status = "queued"
    BY DEF Claim, TypeInv, TypeOK, Row
  <2>2. RunsOf(assigned') = RunsOf(assigned) \cup {q}
    BY ClaimAssigns
  <2>3. QED
    BY <1>2, <1>3, <2>1, <2>2 DEF Traces, QueuedQuiet
<1>7. WithWorker'
  <2>1. \A t \in assigned : t.run # q /\ t.run \in Runs
    BY <1>1, AssignedRuns
  <2>2. ~ Told(q)' /\ \A t \in assigned : ~ Told(t.run)'
    BY <1>1, <1>2, <2>1 DEF Traces, WithWorker
  <2>3. QED
    BY <1>1, <1>3, <1>4, <2>1, <2>2 DEF Traces, WithWorker
<1>8. Retired'
  BY <1>3 DEF Traces, Retired
<1>9. QED
  BY <1>5, <1>6, <1>7, <1>8 DEF Traces

LEMMA ClaimedTraces ==
    ASSUME TypeInv, Traces, NEW q \in Runs, IngestRunClaimed(q)
    PROVE  Traces'
<1>1. \A r \in Runs : Told(r)' => Told(r)
  BY PlatformTold DEF Platform
<1>2. /\ UNCHANGED <<row, up, assigned>> /\ q \in acks
      /\ RunsOf(pending') \subseteq RunsOf(pending)
  BY DEF IngestRunClaimed, Without, RunsOf
<1>3. CASE ~ Running(q)
  <2>1. UNCHANGED watch
    BY <1>3 DEF IngestRunClaimed
  <2>2. QED
    BY <1>1, <1>2, <2>1, FewerTraces, AssignedRuns
<1>4. CASE Running(q)
  <2>1. Told(q)
    BY <1>2 DEF Told
  <2>2. q \notin RunsOf(assigned) /\ up = "up" /\ row[q].status # "queued"
    BY <1>4, <2>1 DEF Traces, StartsQuiet, WithWorker, RunsOf, Running
  <2>3. /\ \A r \in Runs : r # q => watch'[r] = watch[r]
        /\ q \notin RunsOf(pending')
    BY <1>4 DEF IngestRunClaimed, Watched, TypeInv, TypeOK, Without, RunsOf
  <2>4. StartsQuiet'
    BY <1>2, <2>2 DEF StartsQuiet
  <2>5. QueuedQuiet'
    BY <1>1, <1>2, <2>2, <2>3 DEF Traces, QueuedQuiet
  <2>6. WithWorker'
    BY <1>1, <1>2, <2>2, <2>3, AssignedRuns DEF Traces, WithWorker
  <2>7. Retired'
    BY <1>2, <2>3 DEF Traces, Retired
  <2>8. QED
    BY <2>4, <2>5, <2>6, <2>7 DEF Traces
<1>5. QED
  BY <1>3, <1>4

LEMMA DispatchTraces ==
    ASSUME TypeInv, Traces, NEW t \in Ticket, DispatchToMachine(t)
    PROVE  Traces'
<1>1. \A r \in Runs : Told(r)' => Told(r) \/ r = t.run
  BY TicketTold DEF Tickets
<1>2. /\ UNCHANGED <<row, up, watch>> /\ t \in assigned
      /\ assigned' = assigned \ {t}
  BY DEF DispatchToMachine
<1>3. t.run \in Runs /\ t.run \in RunsOf(assigned)
  BY <1>2, AssignedRuns
<1>4. watch[t.run] = "off" /\ \A u \in assigned' : u.run # t.run
  BY <1>2 DEF Traces, WithWorker
<1>5. row[t.run].status # "queued" /\ up = "up"
  BY <1>2, <1>3 DEF Traces, QueuedQuiet, StartsQuiet
<1>6. RunsOf(assigned') \subseteq RunsOf(assigned)
  BY <1>2 DEF RunsOf
<1>7. StartsQuiet'
  BY <1>2, <1>5 DEF StartsQuiet
<1>8. QueuedQuiet'
  BY <1>1, <1>2, <1>5, <1>6 DEF Traces, QueuedQuiet
<1>9. WithWorker'
  BY <1>1, <1>2, <1>4, AssignedRuns DEF Traces, WithWorker
<1>10. Retired'
  <2>1. \A r : r \in RunsOf(pending') => r \in RunsOf(pending) \/ r = t.run
    BY DEF DispatchToMachine, RunsOf
  <2>2. QED
    BY <1>2, <1>4, <2>1 DEF Traces, Retired
<1>11. QED
  BY <1>7, <1>8, <1>9, <1>10 DEF Traces

(* A crash wipes all traces out, and a recovery finds none.                *)
LEMMA CrashTraces ==
    ASSUME TypeInv, Traces, Crash \/ Recover
    PROVE  Traces'
<1>0. \A r \in Runs : Told(r)' => Told(r)
  BY LinkTold DEF Link
<1>1. assigned' = {} /\ \A r \in Runs : watch'[r] = "off" /\ ~ Told(r)'
  <2>1. CASE Crash
    <3>1. pending' = {} /\ reply'.runs = {} /\ acks' = {} /\ assigned' = {}
      BY <2>1 DEF Crash, Disconnect, NoReply
    <3>2. \A e \in Execs : ~ Active(e)'
      BY <2>1, ExecFields DEF Crash, Disconnect, Active, TypeInv, TypeOK, Exec
    <3>3. \A r \in Runs : ~ Told(r)'
      BY <3>1, <3>2 DEF Told, RunsOf
    <3>4. QED
      BY <2>1, <3>1, <3>3 DEF Crash
  <2>2. CASE Recover
    BY <1>0, <2>2 DEF Recover, Traces, StartsQuiet
  <2>3. QED
    BY <2>1, <2>2
<1>2. RunsOf(assigned') = {}
  BY <1>1 DEF RunsOf
<1>3. StartsQuiet' /\ QueuedQuiet' /\ WithWorker' /\ Retired'
  BY <1>1, <1>2 DEF StartsQuiet, QueuedQuiet, WithWorker, Retired
<1>4. QED
  BY <1>3 DEF Traces

LEMMA TracesStep ==
    ASSUME TypeInv, Traces, [Next]_vars
    PROVE  Traces'
<1>0. \A t \in assigned : t.run \in Runs
  BY AssignedRuns
<1>00. 0 \in 0..MaxClaims
  BY MachineDispatchAssumption
<1>1. ASSUME NEW q \in Runs, Platform(q)
      PROVE  Traces'
  <2>1. CASE Claim(q) \/ IngestRunClaimed(q)
    BY <2>1, ClaimTraces, ClaimedTraces
  <2>2. CASE Stamp(q) \/ AskStop(q) \/ FailExpired(q)
    <3>1. row' = row \/ row' = Ended(q, 0)
      BY <2>2 DEF Stamp, AskStop, FailExpired
    <3>2. UNCHANGED <<up, assigned, pending, watch>>
      BY <2>2 DEF Stamp, AskStop, FailExpired, daemonVars
    <3>3. \A r \in Runs : row'[r].status = "queued" => row[r].status = "queued"
      BY <1>00, <3>1, EndQueues
    <3>4. \A r \in Runs : Told(r)' => Told(r)
      BY <1>1, PlatformTold
    <3>5. QED
      BY <1>0, <3>2, <3>3, <3>4, FewerTraces
  <2>3. CASE WatchdogStops(q) \/ WatchdogCancels(q) \/ WatchdogEnds(q)
    <3>1. row' = row \/ row' = Ended(q, 0)
      BY <2>3 DEF WatchdogStops, WatchdogCancels, WatchdogEnds
    <3>2. /\ UNCHANGED <<up, assigned, pending>>
          /\ \A r \in Runs : r # q => watch'[r] = watch[r]
          /\ watch[q] # "off"
      BY <2>3 DEF WatchdogStops, WatchdogCancels, WatchdogEnds, TypeInv, TypeOK
    <3>3. \A r \in Runs : row'[r].status = "queued" => row[r].status = "queued"
      BY <1>00, <3>1, EndQueues
    <3>4. \A r \in Runs : Told(r)' => Told(r)
      BY <1>1, PlatformTold
    <3>5. \A r \in Runs : watch'[r] # "off" => watch[r] # "off"
      BY <3>2
    <3>6. QED
      BY <1>0, <3>2, <3>3, <3>4, <3>5, FewerTraces
  <2>4. QED
    BY <1>1, <2>1, <2>2, <2>3 DEF Platform
<1>2. ASSUME NEW t \in Ticket, Tickets(t)
      PROVE  Traces'
  <2>1. CASE DispatchToMachine(t)
    BY <2>1, DispatchTraces
  <2>2. CASE ~ DispatchToMachine(t)
    <3>1. t.run \in Runs /\ t.tok \in 0..MaxClaims
      BY MachineDispatchAssumption DEF Ticket, Token
    <3>2. row' = row \/ row' = Ended(t.run, 0) \/ row' = Ended(t.run, t.tok)
      BY <1>2, <2>2 DEF Tickets, FailLaunch, PickupTimeout, SweepExpired,
                        FinishMachineRun, FlushSends, FlushFails
    <3>3. UNCHANGED <<up, watch>> /\ assigned' \subseteq assigned
      BY <1>2, <2>2 DEF Tickets, FailLaunch, PickupTimeout, SweepExpired,
                        FinishMachineRun, FlushSends, FlushFails
    <3>4. pending' \subseteq pending
      BY <1>2, <2>2 DEF Tickets, FailLaunch, PickupTimeout, SweepExpired, Without,
                        FinishMachineRun, FlushSends, FlushFails
    <3>5. RunsOf(pending') \subseteq RunsOf(pending)
      BY <3>4 DEF RunsOf
    <3>6. \A r \in Runs : row'[r].status = "queued" => row[r].status = "queued"
      BY <1>00, <3>1, <3>2, EndQueues
    <3>7. \A r \in Runs : Told(r)' => Told(r)
      BY <1>2, <2>2, TicketTold
    <3>8. QED
      BY <1>0, <3>3, <3>5, <3>6, <3>7, FewerTraces
  <2>3. QED
    BY <2>1, <2>2
<1>3. ASSUME NEW e \in Execs, Executor(e)
      PROVE  Traces'
  <2>1. UNCHANGED <<row, up, assigned, pending, watch>>
    BY <1>3 DEF Executor, Enter, Acknowledge, EndWork, IngestRunFinished, SaveStash,
                ReportFails, daemonVars
  <2>2. QED
    BY <1>0, <1>3, <2>1, ExecutorTold, FewerTraces
<1>4. CASE Link
  <2>1. CASE Crash \/ Recover
    BY <2>1, CrashTraces
  <2>2. CASE ~ (Crash \/ Recover)
    <3>1. UNCHANGED <<row, assigned, pending, watch>> /\ (up' # "up" => up # "up")
      BY <1>4, <2>2 DEF Link, Serve, LoseReply, Receive, LinkDrops, LinkUp,
                        FlushSaves, MachineCrash, Boot, daemonVars
    <3>2. QED
      BY <1>0, <1>4, <3>1, LinkTold, FewerTraces
  <2>3. QED
    BY <2>1, <2>2
<1>5. CASE UNCHANGED vars
  <2>1. UNCHANGED <<row, up, assigned, pending, watch, reply, acks, exec>>
    BY <1>5 DEF vars, daemonVars, machineVars
  <2>2. \A e \in Execs : Active(e)' => Active(e) /\ exec'[e].run = exec[e].run
    BY <2>1 DEF Active
  <2>3. QED
    BY <1>0, <2>1, <2>2, ExecutionsTold, FewerTraces
<1>6. QED
  BY <1>1, <1>2, <1>3, <1>4, <1>5 DEF Next

(* A run whose execution was acknowledged is not in the queue: it is       *)
(* neither served again nor failed by the pickup timeout, whatever delay,  *)
(* loss and restarts the acknowledgement went through.                     *)
THEOREM AcknowledgedRetired == Spec => []AckRetires
<1>1. Init => Traces
  <2> SUFFICES ASSUME Init PROVE Traces
    OBVIOUS
  <2>1. RunsOf({}) = {}
    BY DEF RunsOf
  <2>2. \A e \in Execs : ~ Active(e)
    BY DEF Init, Active, FreeExec
  <2>3. \A r \in Runs : ~ Told(r)
    BY <2>1, <2>2 DEF Init, Told, NoReply
  <2>4. QED
    BY <2>1, <2>3 DEF Init, Traces, StartsQuiet, QueuedQuiet, WithWorker, Retired
<1>2. TypeInv /\ Traces /\ [Next]_vars => Traces'
  BY TracesStep
<1>3. Traces => AckRetires
  BY DEF Traces, Retired, AckRetires
<1>4. QED
  BY <1>1, <1>2, <1>3, InitType, NextType, PTL DEF Spec

--------------------------------------------------------------------------------
(* Outcomes.                                                               *)

(* Between Boot and Recover the rows still have the status and the token   *)
(* of before the crash, so a report that comes in then can be accepted and *)
(* processed after the run was requeued.  The theorem is about daemons     *)
(* whose startup recovery is over before the machine is back.              *)
RecoversFirst == "early" \notin Ops

(* A report being processed is one of the present claim.                   *)
Timely ==
    /\ up # "up" => ~ link /\ finishing = {}
    /\ \A t \in finishing : row[t.run].status # "queued" /\ row[t.run].tok = t.tok
    /\ \A r \in Runs : row[r].status # "ended" => row[r].end = 0
    /\ OutcomeIsOfClaim

(* Who accepts reports.                                                    *)
LEMMA FinishingGrows ==
    ASSUME Next, ~ finishing' \subseteq finishing
    PROVE  /\ link /\ UNCHANGED <<row, up, link>>
           /\ \E t : finishing' = Accepted(t)
<1>1. \A r \in Runs : Platform(r) => finishing' = finishing
  BY DEF Platform, Claim, Stamp, AskStop, FailExpired, IngestRunClaimed,
         WatchdogStops, WatchdogCancels, WatchdogEnds, daemonVars
<1>2. Link => finishing' \subseteq finishing
  BY DEF Link, Serve, LoseReply, Receive, LinkDrops, LinkUp, FlushSaves,
         MachineCrash, Crash, Boot, Recover, daemonVars
<1>3. ASSUME NEW t \in Ticket, Tickets(t)
      PROVE  link /\ UNCHANGED <<row, up, link>> /\ finishing' = Accepted(t)
  BY <1>3 DEF Tickets, DispatchToMachine, FailLaunch, PickupTimeout, SweepExpired,
              FinishMachineRun, FlushSends, FlushFails
<1>4. ASSUME NEW e \in Execs, Executor(e)
      PROVE  /\ link /\ UNCHANGED <<row, up, link>>
             /\ finishing' = Accepted(ReportOf(e))
  BY <1>4 DEF Executor, Enter, Acknowledge, EndWork, IngestRunFinished, SaveStash,
              ReportFails, daemonVars
<1>5. QED
  BY <1>1, <1>2, <1>3, <1>4 DEF Next

(* The link comes up, and the daemon goes down, as Timely says.            *)
LEMMA UpStep ==
    ASSUME RecoversFirst, Timely, Next
    PROVE  up' # "up" => ~ link' /\ finishing' = {}
<1>1. CASE ~ finishing' \subseteq finishing
  BY <1>1, FinishingGrows DEF Timely
<1>2. CASE finishing' \subseteq finishing
  <2>1. \A r \in Runs : Platform(r) => UNCHANGED <<up, link>>
    BY DEF Platform, Claim, Stamp, AskStop, FailExpired, IngestRunClaimed,
           WatchdogStops, WatchdogCancels, WatchdogEnds, daemonVars
  <2>2. \A t \in Ticket : Tickets(t) => UNCHANGED <<up, link>>
    BY DEF Tickets, DispatchToMachine, FailLaunch, PickupTimeout, SweepExpired,
           FinishMachineRun, FlushSends, FlushFails
  <2>3. \A e \in Execs : Executor(e) => UNCHANGED <<up, link>>
    BY DEF Executor, Enter, Acknowledge, EndWork, IngestRunFinished, SaveStash,
           ReportFails, daemonVars
  <2>4. CASE Crash
    BY <2>4 DEF Crash, Disconnect
  <2>5. CASE Link /\ ~ Crash
    BY <1>2, <2>5
       DEF Link, Serve, LoseReply, Receive, LinkDrops, LinkUp, FlushSaves,
           MachineCrash, Boot, Recover, Disconnect, daemonVars, machineVars, Timely,
           RecoversFirst
  <2>6. QED
    BY <1>2, <2>1, <2>2, <2>3, <2>4, <2>5 DEF Next, Timely
<1>3. QED
  BY <1>1, <1>2

(* Reports that are being processed.                                       *)
LEMMA FinishingStep ==
    ASSUME TypeInv, Timely, Next, NEW t \in finishing'
    PROVE  row'[t.run].status # "queued" /\ row'[t.run].tok = t.tok
<1>0. t.run \in Runs
  BY NextType DEF TypeInv, TypeOK, Ticket
<1>1. CASE t \notin finishing
  <2>1. PICK u : finishing' = Accepted(u)
    BY <1>1, FinishingGrows
  <2>2. t = u /\ row' = row
    BY <1>1, <2>1, AcceptedReports, FinishingGrows
  <2>3. QED
    BY <1>1, <2>1, <2>2, AcceptedReports DEF Running
<1>2. CASE t \in finishing
  <2>1. row[t.run].status # "queued" /\ row[t.run].tok = t.tok
    BY <1>2 DEF Timely
  <2>2. CASE row' = row
    BY <2>1, <2>2
  <2>3. ASSUME NEW r \in Runs, Claim(r)
        PROVE  row'[t.run] = row[t.run]
    BY <1>0, <2>1, <2>3 DEF Claim, TypeInv, TypeOK
  <2>4. ASSUME NEW r \in Runs, NEW end \in 0..MaxClaims, row' = Ended(r, end)
        PROVE  row'[t.run].status # "queued" /\ row'[t.run].tok = t.tok
    <3>1. /\ row'[r].status = "ended" /\ row'[r].tok = row[r].tok
          /\ \A q \in Runs : q # r => row'[q] = row[q]
      BY <2>4, EndedRow DEF TypeInv, TypeOK
    <3>2. QED
      BY <1>0, <2>1, <3>1
  <2>5. ~ Recover
    BY <1>2 DEF Recover, Timely
  <2>6. QED
    BY <2>1, <2>2, <2>3, <2>4, <2>5, RowWriters
<1>3. QED
  BY <1>1, <1>2

(* What a step does to the outcome of a run.                               *)
LEMMA OutcomeStep ==
    ASSUME TypeInv, Timely, Next, NEW q \in Runs
    PROVE  /\ row'[q].status # "ended" => row'[q].end = 0
           /\ row'[q].end # 0 => row'[q].end = row'[q].tok
<1>0. /\ row \in [Runs -> Row]
      /\ row[q].status # "ended" => row[q].end = 0
      /\ row[q].end # 0 => row[q].end = row[q].tok
  BY DEF TypeInv, TypeOK, Timely, OutcomeIsOfClaim
<1>1. CASE row'[q] = row[q]
  BY <1>0, <1>1
<1>2. ASSUME NEW r \in Runs, Claim(r), r = q
      PROVE  row'[q].end = 0
  BY <1>0, <1>2 DEF Claim, Row
<1>3. ASSUME NEW end \in 0..MaxClaims, row' = Ended(q, end),
             end = 0 \/ \E t \in finishing : t.run = q /\ t.tok = end
      PROVE  \/ row'[q] = row[q]
             \/ row'[q].status = "ended" /\ (row'[q].end = 0 \/ row'[q].end = row'[q].tok)
  <2>1. CASE row[q].status = "ended"
    BY <1>0, <1>3, <2>1, EndedRow
  <2>2. CASE row[q].status # "ended"
    <3>1. /\ row'[q].status = "ended" /\ row'[q].tok = row[q].tok
          /\ row'[q].end = end
      BY <1>0, <1>3, <2>2, EndedRow
    <3>2. end = 0 \/ end = row[q].tok
      BY <1>3 DEF Timely
    <3>3. QED
      BY <3>1, <3>2
  <2>3. QED
    BY <2>1, <2>2
<1>4. ASSUME Recover
      PROVE  row'[q] = row[q] \/ row'[q].end = 0
  BY <1>0, <1>4 DEF Recover, Running, Row
<1>5. \A r \in Runs : Claim(r) => r = q \/ row'[q] = row[q]
  BY <1>0 DEF Claim
<1>6. \A r \in Runs, end \in 0..MaxClaims :
        row' = Ended(r, end) => r = q \/ row'[q] = row[q]
  BY <1>0, EndedRow
<1>7. CASE row' = row
  BY <1>1, <1>7
<1>8. QED
  BY <1>1, <1>2, <1>3, <1>4, <1>5, <1>6, <1>7, RowWriters

LEMMA TimelyStep ==
    ASSUME RecoversFirst, TypeInv, Timely, [Next]_vars
    PROVE  Timely'
<1>1. CASE UNCHANGED vars
  BY <1>1 DEF vars, daemonVars, Timely, OutcomeIsOfClaim
<1>2. CASE Next
  <2>1. up' # "up" => ~ link' /\ finishing' = {}
    BY <1>2, UpStep
  <2>2. \A t \in finishing' : row'[t.run].status # "queued" /\ row'[t.run].tok = t.tok
    BY <1>2, FinishingStep
  <2>3. \A r \in Runs : row'[r].status # "ended" => row'[r].end = 0
    BY <1>2, OutcomeStep
  <2>4. OutcomeIsOfClaim'
    BY <1>2, OutcomeStep DEF OutcomeIsOfClaim
  <2>5. QED
    BY <2>1, <2>2, <2>3, <2>4 DEF Timely
<1>3. QED
  BY <1>1, <1>2

(* A report stashed under an earlier claim never finishes a later one,     *)
(* however often links and processes die and the report is sent again, if  *)
(* startup recovery is over before the machine is back.                    *)
THEOREM OutcomeCurrent ==
    ASSUME RecoversFirst
    PROVE  Spec => []OutcomeIsOfClaim
<1>1. Init => Timely
  BY DEF Init, Timely, OutcomeIsOfClaim
<1>2. TypeInv /\ Timely /\ [Next]_vars => Timely'
  BY TimelyStep
<1>3. Timely => OutcomeIsOfClaim
  BY DEF Timely
<1>4. QED
  BY <1>1, <1>2, <1>3, InitType, NextType, PTL DEF Spec

--------------------------------------------------------------------------------
(* The contract.                                                           *)

(* A row and its state in the contract, one case per kind of write.        *)
LEMMA StateSame ==
    ASSUME NEW q \in Runs, row'[q] = row[q]
    PROVE  StateOf(q)' = StateOf(q) /\ row'[q].tok = row[q].tok
  BY DEF StateOf

LEMMA ClaimContract ==
    ASSUME TypeInv, NEW r \in Runs, Claim(r)
    PROVE  Contract!Claim(r)
<1>1. row \in [Runs -> Row] /\ row[r] \in Row
  BY DEF TypeInv, TypeOK
<1>2. /\ row[r].status = "queued" /\ row'[r].status = "running"
      /\ row'[r].tok = row[r].tok + 1
      /\ \A q \in Runs : q # r => row'[q] = row[q]
  BY <1>1 DEF Claim, Row
<1>3. StateOf(r) = "queued" /\ StateOf(r)' = "claimed"
  BY <1>2 DEF StateOf
<1>4. QED
  BY <1>2, <1>3, StateSame DEF Contract!Claim

(* An end: a report of the present claim, or none.                         *)
LEMMA EndContract ==
    ASSUME TypeInv, Timely, NEW r \in Runs, NEW end \in 0..MaxClaims, row' = Ended(r, end),
           end = 0 \/ \E t \in finishing : t.run = r /\ t.tok = end
    PROVE  Contract!Report(r) \/ Contract!Drop(r) \/ UNCHANGED Contract!vars
<1>1. row \in [Runs -> Row] /\ row[r] \in Row
  BY DEF TypeInv, TypeOK
<1>2. /\ \A q \in Runs : q # r => row'[q] = row[q]
      /\ row'[r].tok = row[r].tok
  BY <1>1, EndedRow
<1>3. /\ \A q \in Runs : q # r => StateOf(q)' = StateOf(q)
      /\ \A q \in Runs : row'[q].tok = row[q].tok
  BY <1>2, StateSame
<1>4. CASE row[r].status = "ended"
  <2>1. \A q \in Runs : row'[q] = row[q]
    BY <1>1, <1>2, <1>4, EndedRow
  <2>2. QED
    BY <2>1, StateSame DEF Contract!vars
<1>5. CASE row[r].status # "ended" /\ end = 0
  <2>1. StateOf(r) \in {"queued", "claimed"}
    BY <1>1, <1>5 DEF StateOf, Row
  <2>2. StateOf(r)' = "dropped"
    BY <1>1, <1>5, EndedRow DEF StateOf
  <2>3. QED
    BY <1>3, <2>1, <2>2 DEF Contract!Drop
<1>6. CASE row[r].status # "ended" /\ end # 0
  <2>1. row[r].status = "running" /\ row[r].tok = end
    BY <1>1, <1>6 DEF Timely, Row
  <2>2. StateOf(r) = "claimed"
    BY <2>1 DEF StateOf
  <2>3. StateOf(r)' = "reported"
    BY <1>1, <1>2, <1>6, <2>1, EndedRow DEF StateOf
  <2>4. QED
    BY <1>3, <2>2, <2>3 DEF Contract!Report
<1>7. QED
  BY <1>4, <1>5, <1>6

(* Recovery takes back all claims at once.                                 *)
LEMMA RecoverContract ==
    ASSUME TypeInv, Timely, Recover
    PROVE  Contract!Restart
<1>1. PICK S \in SUBSET {r \in Runs : Running(r)} :
        row' = [r \in Runs |-> IF ~ Running(r) THEN row[r]
                               ELSE [row[r] EXCEPT !.status =
                                       IF r \in S THEN "ended" ELSE "queued"]]
  BY DEF Recover
<1>2. \A r \in Runs : Running(r) <=> StateOf(r) = "claimed"
  BY DEF Running, StateOf
<1>3. ASSUME NEW r \in Runs
      PROVE  /\ row'[r].tok = row[r].tok
             /\ StateOf(r)' = IF r \in S THEN "dropped"
                              ELSE IF StateOf(r) = "claimed" THEN "queued" ELSE StateOf(r)
  <2>1. row[r] \in Row
    BY DEF TypeInv, TypeOK
  <2>2. CASE ~ Running(r)
    BY <1>1, <1>2, <2>2, StateSame
  <2>3. CASE Running(r)
    <3>1. /\ row'[r].tok = row[r].tok /\ row'[r].end = row[r].end
          /\ row'[r].status = IF r \in S THEN "ended" ELSE "queued"
      BY <1>1, <2>1, <2>3 DEF Row
    <3>2. row'[r].end = 0
      BY <2>3, <3>1 DEF Timely, Running
    <3>3. QED
      BY <1>2, <2>3, <3>1, <3>2 DEF StateOf
  <2>4. QED
    BY <2>2, <2>3
<1>4. S \in SUBSET Contract!Claimed
  BY <1>2 DEF Contract!Claimed
<1>5. QED
  BY <1>3, <1>4 DEF Contract!Restart, Contract!Claimed

LEMMA ContractStep ==
    ASSUME TypeInv, Timely, [Next]_vars
    PROVE  [Contract!Next]_(Contract!vars)
<1>1. CASE row' = row
  BY <1>1, StateSame DEF Contract!vars
<1>2. CASE Next /\ row' # row
  BY <1>2, RowWriters, ClaimContract, EndContract, RecoverContract DEF Contract!Next
<1>3. QED
  BY <1>1, <1>2 DEF vars

(* All that polls, timers, acknowledgements, stashes, links and crashes do *)
(* to a run is what its contract with the goal layer allows, under the     *)
(* premise of OutcomeCurrent.                                              *)
THEOREM ContractKept ==
    ASSUME RecoversFirst
    PROVE  Spec => ImplementsContract
<1>1. Init => Contract!Init
  BY DEF Init, StateOf, Contract!Init
<1>2. TypeInv /\ Timely /\ [Next]_vars => [Contract!Next]_(Contract!vars)
  BY ContractStep
<1>3. Init => Timely
  BY DEF Init, Timely, OutcomeIsOfClaim
<1>4. TypeInv /\ Timely /\ [Next]_vars => Timely'
  BY TimelyStep
<1>5. QED
  BY <1>1, <1>2, <1>3, <1>4, InitType, NextType, PTL
     DEF Spec, ImplementsContract, Contract!Spec
=============================================================================
