---------------------------- MODULE MachineDispatch ----------------------------
(***************************************************************************)
(* The link between the daemon and one machine: how a claimed run gets to  *)
(* the machine, is executed there, and how its outcome comes back.         *)
(*                                                                         *)
(* Daemon (internal/daemon/machine_dispatch.go): dispatches wait in a      *)
(* queue for the machine's poll until the machine acknowledges them or 60s *)
(* have passed; an acknowledged run has a watchdog; an accepted report is  *)
(* processed by a goroutine of its own.  All of this is lost in a crash.   *)
(* Machine (cmd/agentwork-cli): a poll loop, one goroutine per execution,  *)
(* and a file with the reports that could not be sent.                     *)
(*                                                                         *)
(* Each claim of a run draws a fresh token.  A ticket, the pair of a run   *)
(* and a token, stands for a dispatch and for the report that echoes it.   *)
(***************************************************************************)
EXTENDS Naturals

CONSTANTS
    Runs,        \* rows of the run table, with a runtime on this machine
    Execs,       \* goroutines of execManager.execute: bounds how many coexist
    NoExec,      \* "no execution"
    MaxClaims,   \* bound on the claims (tokens) of a run
    MaxCrashes,  \* bound on the crashes of the daemon
    MaxDrops,    \* bound on the times the link drops
    Ops          \* the environment's operations this instance performs

OpNames == {"stop", "stall", "machine_crash", "early"}

ASSUME MachineDispatchAssumption ==
    /\ Runs # {}
    /\ NoExec \notin Execs
    /\ MaxClaims \in Nat \ {0}
    /\ MaxCrashes \in Nat /\ MaxDrops \in Nat
    /\ Ops \subseteq OpNames

VARIABLES
    row,        \* [Runs -> Row]: the run table
    up,         \* "up", "down", or "boot": listening, Run not past recovery
    assigned,   \* claimed tickets a worker has not dispatched yet
    pending,    \* machinePending: dispatches waiting for the machine
    cancels,    \* machineCancels: run.cancel orders waiting for its poll
    expired,    \* runs taken off machinePending, not failed yet
    watch,      \* [Runs -> Watch]: the watchdog of each run
    finishing,  \* accepted reports in finishMachineRun
    link,       \* the machine is registered over a live connection
    reply,      \* the poll response on its way to the machine
    acks,       \* run.claimed calls on their way to the daemon
    exec,       \* [Execs -> Exec]: executions on the machine
    known,      \* executor.cancels: the executions the executor knows
    stash,      \* the pending-reports file
    flush,      \* the progress of flushPendingReports
    crashes,    \* number of daemon crashes so far
    drops       \* number of link failures so far

daemonVars == <<up, assigned, pending, cancels, expired, watch, finishing, crashes>>
machineVars == <<exec, known, stash, flush, drops>>
vars == <<row, daemonVars, link, reply, acks, machineVars>>

Token == 1..MaxClaims
Ticket == [run : Runs, tok : Token]

(* "end" is the token of the report that ended the run, or 0.              *)
Row == [status : {"queued", "running", "ended"}, tok : 0..MaxClaims,
        end : 0..MaxClaims]

Watch == {"off", "on", "cancelled"}

NoReply == [runs |-> {}, cancels |-> {}]

(* An execution: started but not in the map yet, preparing its workspace,  *)
(* working on the prompt, calling run.finished, or rewriting the file of   *)
(* reports it read as "seen".                                              *)
Exec == [pc   : {"free", "launched", "starting", "working", "reporting",
                 "stashing"},
         run  : Runs, tok : 0..MaxClaims,
         old  : BOOLEAN,           \* it belongs to the executor of a dead link
         seen : SUBSET Ticket]

FreeExec == [pc |-> "free", run |-> CHOOSE r \in Runs : TRUE, tok |-> 0,
             old |-> FALSE, seen |-> {}]

Flush == [on : BOOLEAN, todo : SUBSET Ticket, left : SUBSET Ticket]
NoFlush == [on |-> FALSE, todo |-> {}, left |-> {}]

TypeOK ==
    /\ row \in [Runs -> Row]
    /\ up \in {"up", "down", "boot"}
    /\ assigned \subseteq Ticket /\ pending \subseteq Ticket
    /\ cancels \subseteq Runs /\ expired \subseteq Runs
    /\ watch \in [Runs -> Watch]
    /\ finishing \subseteq Ticket
    /\ link \in BOOLEAN
    /\ reply \in [runs : SUBSET Ticket, cancels : SUBSET Runs]
    /\ acks \subseteq Runs
    /\ exec \in [Execs -> Exec]
    /\ known \in [Runs -> Execs \cup {NoExec}]
    /\ stash \subseteq Ticket
    /\ flush \in Flush
    /\ crashes \in 0..MaxCrashes /\ drops \in 0..MaxDrops

Init ==
    /\ row = [r \in Runs |-> [status |-> "queued", tok |-> 0, end |-> 0]]
    /\ up = "up" /\ crashes = 0
    /\ assigned = {} /\ pending = {} /\ cancels = {} /\ expired = {}
    /\ watch = [r \in Runs |-> "off"]
    /\ finishing = {}
    /\ link = FALSE /\ drops = 0
    /\ reply = NoReply /\ acks = {}
    /\ exec = [e \in Execs |-> FreeExec]
    /\ known = [r \in Runs |-> NoExec]
    /\ stash = {} /\ flush = NoFlush

--------------------------------------------------------------------------------
(* The row.                                                                *)

Running(r) == row[r].status = "running"
Listening == up \in {"up", "boot"}
RunsOf(T) == {t.run : t \in T}
Without(T, r) == {t \in T : t.run # r}

(* Mutant of Ended: a late result overwrites the first one.                *)
EndedAnyway(r, end) == [row EXCEPT ![r].status = "ended", ![r].end = end]

(* RunService.Finish: only a pending run takes an end.                     *)
Ended(r, end) ==
    IF row[r].status = "ended" THEN row
    ELSE [row EXCEPT ![r].status = "ended", ![r].end = end]

(* Claim: the row is running under a fresh token, a worker has the ticket. *)
Claim(r) ==
    /\ up = "up"
    /\ row[r].status = "queued" /\ row[r].tok < MaxClaims
    /\ row' = [row EXCEPT ![r].status = "running", ![r].tok = @ + 1]
    /\ assigned' = assigned \cup {[run |-> r, tok |-> row[r].tok + 1]}
    /\ UNCHANGED <<up, pending, cancels, expired, watch, finishing, crashes>>
    /\ UNCHANGED <<link, reply, acks, machineVars>>

(* A stamp from outside the dispatch: the second half of StopRun, the cut  *)
(* of a handoff, the reaper, the cancellation of queued runs.              *)
Stamp(r) ==
    /\ Listening /\ "stop" \in Ops
    /\ row[r].status # "ended"
    /\ row' = Ended(r, 0)
    /\ UNCHANGED <<daemonVars, link, reply, acks, machineVars>>

(* The first half of StopRun: the cancel waits for the machine's poll.     *)
AskStop(r) ==
    /\ Listening /\ "stop" \in Ops
    /\ Running(r)
    /\ cancels' = cancels \cup {r}
    /\ UNCHANGED <<row, up, assigned, pending, expired, watch, finishing, crashes>>
    /\ UNCHANGED <<link, reply, acks, machineVars>>

--------------------------------------------------------------------------------
(* Dispatch and pickup.                                                    *)

(* dispatchToMachine.  The peer of a link that just died may still be      *)
(* registered, so the dispatch can be queued for a machine that is gone.   *)
DispatchToMachine(t) ==
    /\ t \in assigned
    /\ assigned' = assigned \ {t}
    /\ pending' = pending \cup {t}
    /\ UNCHANGED <<row, up, cancels, expired, watch, finishing, crashes>>
    /\ UNCHANGED <<link, reply, acks, machineVars>>

(* No peer, or the run cannot be assembled: it fails at launch.            *)
FailLaunch(t) ==
    /\ t \in assigned
    /\ assigned' = assigned \ {t}
    /\ row' = Ended(t.run, 0)
    /\ UNCHANGED <<up, pending, cancels, expired, watch, finishing, crashes>>
    /\ UNCHANGED <<link, reply, acks, machineVars>>

(* Mutant of PickupTimeout: the entry goes, the run is not failed.         *)
PickupForgets(t) ==
    /\ t \in pending
    /\ pending' = Without(pending, t.run)
    /\ cancels' = cancels \cup {t.run}
    /\ UNCHANGED <<row, up, assigned, expired, watch, finishing, crashes>>
    /\ UNCHANGED <<link, reply, acks, machineVars>>

(* 60s after the dispatch: an entry that is still there is removed, the    *)
(* machine is told to cancel, and the run will be failed.                  *)
PickupTimeout(t) ==
    /\ t \in pending
    /\ pending' = Without(pending, t.run)
    /\ cancels' = cancels \cup {t.run}
    /\ expired' = expired \cup {t.run}
    /\ UNCHANGED <<row, up, assigned, watch, finishing, crashes>>
    /\ UNCHANGED <<link, reply, acks, machineVars>>

(* tryDequeue sweeps old entries too; it queues no cancel.                 *)
SweepExpired(t) ==
    /\ link /\ ~ flush.on
    /\ t \in pending
    /\ pending' = pending \ {t}
    /\ expired' = expired \cup {t.run}
    /\ UNCHANGED <<row, up, assigned, cancels, watch, finishing, crashes>>
    /\ UNCHANGED <<link, reply, acks, machineVars>>

(* failRun, once the lock on the queue is released.                        *)
FailExpired(r) ==
    /\ r \in expired
    /\ expired' = expired \ {r}
    /\ row' = Ended(r, 0)
    /\ UNCHANGED <<up, assigned, pending, cancels, watch, finishing, crashes>>
    /\ UNCHANGED <<link, reply, acks, machineVars>>

(* The poll: one dispatch stays queued and is handed out again and again;  *)
(* all cancels are handed out once.  (The oldest dispatch is served; which *)
(* one that is depends on time, so the model serves any.)                  *)
Serve ==
    /\ Listening /\ link /\ ~ flush.on
    /\ reply = NoReply
    /\ \E T \in {{t} : t \in pending} \cup (IF pending = {} THEN {{}} ELSE {}) :
         /\ T # {} \/ cancels # {}
         /\ reply' = [runs |-> T, cancels |-> cancels]
    /\ cancels' = {}
    /\ UNCHANGED <<row, up, assigned, pending, expired, watch, finishing, crashes>>
    /\ UNCHANGED <<link, acks, machineVars>>

(* A response that arrives after the 35s of the call is dropped.           *)
LoseReply ==
    /\ reply # NoReply
    /\ reply' = NoReply
    /\ UNCHANGED <<row, daemonVars, link, acks, machineVars>>

--------------------------------------------------------------------------------
(* The machine's executor.                                                 *)

(* Any free slot stands for a new goroutine; none is left at the bound.    *)
FreeSlot ==
    LET free == {e \in Execs : exec[e].pc = "free"}
    IN  IF free = {} THEN {} ELSE {CHOOSE e \in free : TRUE}

(* The poll loop handles a response: cancelRun forgets the execution (its  *)
(* context is cancelled, so it ends, as it may at any time), startIfNew    *)
(* starts the dispatch unless the executor knows an execution of that run. *)
Receive ==
    /\ reply # NoReply
    /\ reply' = NoReply
    /\ LET kept == [r \in Runs |-> IF r \in reply.cancels THEN NoExec ELSE known[r]]
       IN  /\ known' = kept
           /\ IF \E t \in reply.runs : kept[t.run] = NoExec
                THEN \E t \in reply.runs, e \in FreeSlot :
                       exec' = [exec EXCEPT ![e] =
                         [FreeExec EXCEPT !.pc = "launched", !.run = t.run,
                                          !.tok = t.tok]]
                ELSE UNCHANGED exec
    /\ UNCHANGED <<row, daemonVars, link, acks, stash, flush, drops>>

(* execute enters its cancel function in the map of its executor.          *)
Enter(e) ==
    /\ exec[e].pc = "launched"
    /\ exec' = [exec EXCEPT ![e].pc = "starting"]
    /\ known' = IF exec[e].old THEN known
                ELSE [known EXCEPT ![exec[e].run] = e]
    /\ UNCHANGED <<row, daemonVars, link, reply, acks, stash, flush, drops>>

(* The session is open: run.claimed is called, then the prompt is sent     *)
(* whether or not the call came through.                                   *)
Acknowledge(e) ==
    /\ exec[e].pc = "starting"
    /\ exec' = [exec EXCEPT ![e].pc = "working"]
    /\ acks' = IF link /\ ~ exec[e].old THEN acks \cup {exec[e].run} ELSE acks
    /\ UNCHANGED <<row, daemonVars, link, reply, known, stash, flush, drops>>

(* The work ends, or fails before it began, or was cancelled.              *)
EndWork(e) ==
    /\ exec[e].pc \in {"starting", "working"}
    /\ exec' = [exec EXCEPT ![e].pc = "reporting"]
    /\ UNCHANGED <<row, daemonVars, link, reply, acks, known, stash, flush, drops>>

(* Mutant of Leave: the map keeps the execution.                           *)
LeaveKnown(e) ==
    /\ exec' = [exec EXCEPT ![e] = FreeExec]
    /\ UNCHANGED known

(* execute returns: its deferred function deletes the run from the map of  *)
(* its executor, whichever execution is entered there.                     *)
Leave(e) ==
    /\ exec' = [exec EXCEPT ![e] = FreeExec]
    /\ known' = IF exec[e].old THEN known
                ELSE [known EXCEPT ![exec[e].run] = NoExec]

(* The report echoes the token of the dispatch.                            *)
ReportOf(e) == [run |-> exec[e].run, tok |-> exec[e].tok]

(* stashPendingReport writes the file it read back with one report more.   *)
SaveStash(e) ==
    /\ exec[e].pc = "stashing"
    /\ stash' = exec[e].seen \cup {ReportOf(e)}
    /\ Leave(e)
    /\ UNCHANGED <<row, daemonVars, link, reply, acks, flush, drops>>

--------------------------------------------------------------------------------
(* Reports reach the daemon.                                               *)

(* Each acknowledgement starts a watchdog; the oldest one acts first.      *)
Watched(r) == [watch EXCEPT ![r] = IF @ = "off" THEN "on" ELSE @]

(* run.claimed carries no token.  For a running row it retires the queued  *)
(* dispatch and starts a watchdog; otherwise it changes nothing.           *)
IngestRunClaimed(r) ==
    /\ Listening /\ r \in acks
    /\ acks' = acks \ {r}
    /\ IF Running(r)
         THEN /\ pending' = Without(pending, r)
              /\ watch' = Watched(r)
         ELSE UNCHANGED <<pending, watch>>
    /\ UNCHANGED <<row, up, assigned, cancels, expired, finishing, crashes>>
    /\ UNCHANGED <<link, reply, machineVars>>

(* Mutant of Accepted: the token is not compared.                          *)
AcceptedAnyToken(t) == IF Running(t.run) THEN finishing \cup {t} ELSE finishing

(* The guards of IngestRunFinished: the token of the present claim and a   *)
(* running row, or the report is dropped.                                  *)
Accepted(t) ==
    IF Running(t.run) /\ row[t.run].tok = t.tok THEN finishing \cup {t}
    ELSE finishing

(* run.finished is called, handled, and the execution returns.             *)
IngestRunFinished(e) ==
    /\ Listening /\ link
    /\ exec[e].pc = "reporting" /\ ~ exec[e].old
    /\ finishing' = Accepted(ReportOf(e))
    /\ Leave(e)
    /\ UNCHANGED <<row, up, assigned, pending, cancels, expired, watch, crashes>>
    /\ UNCHANGED <<link, reply, acks, stash, flush, drops>>

(* The call fails, handled or not: the connection is gone, or 30s passed.  *)
(* stashPendingReport reads the file.                                      *)
ReportFails(e, handled) ==
    /\ exec[e].pc = "reporting"
    /\ exec[e].old \/ "stall" \in Ops
    /\ handled => Listening /\ link /\ ~ exec[e].old
    /\ finishing' = IF handled THEN Accepted(ReportOf(e)) ELSE finishing
    /\ exec' = [exec EXCEPT ![e].pc = "stashing", ![e].seen = stash]
    /\ UNCHANGED <<row, up, assigned, pending, cancels, expired, watch, crashes>>
    /\ UNCHANGED <<link, reply, acks, known, stash, flush, drops>>

(* finishMachineRun: verification takes minutes, then Finish.              *)
FinishMachineRun(t) ==
    /\ t \in finishing
    /\ finishing' = finishing \ {t}
    /\ row' = Ended(t.run, t.tok)
    /\ UNCHANGED <<up, assigned, pending, cancels, expired, watch, crashes>>
    /\ UNCHANGED <<link, reply, acks, machineVars>>

(* The watchdog of an ended run stops; the one of a run over its budget    *)
(* asks the machine to cancel, and two minutes later ends the run itself.  *)
WatchdogStops(r) ==
    /\ watch[r] # "off" /\ ~ Running(r)
    /\ watch' = [watch EXCEPT ![r] = "off"]
    /\ UNCHANGED <<row, up, assigned, pending, cancels, expired, finishing, crashes>>
    /\ UNCHANGED <<link, reply, acks, machineVars>>

WatchdogCancels(r) ==
    /\ watch[r] = "on" /\ Running(r)
    /\ watch' = [watch EXCEPT ![r] = "cancelled"]
    /\ cancels' = cancels \cup {r}
    /\ UNCHANGED <<row, up, assigned, pending, expired, finishing, crashes>>
    /\ UNCHANGED <<link, reply, acks, machineVars>>

(* Mutant of WatchdogEnds: the cancel was sent, the machine will report.   *)
WatchdogTrusts(r) ==
    /\ watch[r] = "cancelled" /\ Running(r)
    /\ watch' = [watch EXCEPT ![r] = "off"]
    /\ UNCHANGED <<row, up, assigned, pending, cancels, expired, finishing, crashes>>
    /\ UNCHANGED <<link, reply, acks, machineVars>>

WatchdogEnds(r) ==
    /\ watch[r] = "cancelled" /\ Running(r)
    /\ watch' = [watch EXCEPT ![r] = "off"]
    /\ row' = Ended(r, 0)
    /\ UNCHANGED <<up, assigned, pending, cancels, expired, finishing, crashes>>
    /\ UNCHANGED <<link, reply, acks, machineVars>>

--------------------------------------------------------------------------------
(* The link, the file of reports, crashes.                                 *)

(* executor.shutdown when a link dies: what it knows is cancelled, and the *)
(* next link gets a new executor that knows nothing.                       *)
Disconnect ==
    /\ link' = FALSE /\ reply' = NoReply /\ acks' = {}
    /\ known' = [r \in Runs |-> NoExec]
    /\ exec' = [e \in Execs |->
                  IF exec[e].pc = "free" THEN exec[e]
                  ELSE [exec[e] EXCEPT !.old = TRUE]]
    /\ UNCHANGED <<stash, flush>>

LinkDrops ==
    /\ link /\ drops < MaxDrops
    /\ drops' = drops + 1
    /\ Disconnect
    /\ UNCHANGED <<row, daemonVars>>

(* runLink registers and loads the file; the poll loop waits for the flush. *)
(* Between Boot and Recover the daemon listens already ("early").          *)
LinkUp ==
    /\ ~ link /\ ~ flush.on
    /\ up = "up" \/ (up = "boot" /\ "early" \in Ops)
    /\ link' = TRUE
    /\ flush' = IF stash = {} THEN NoFlush
                ELSE [on |-> TRUE, todo |-> stash, left |-> {}]
    /\ UNCHANGED <<row, daemonVars, reply, acks, exec, known, stash, drops>>

(* One report is sent again; a call that fails, handled or not, leaves it. *)
FlushSends(t) ==
    /\ Listening /\ link
    /\ t \in flush.todo
    /\ finishing' = Accepted(t)
    /\ flush' = [flush EXCEPT !.todo = @ \ {t}]
    /\ UNCHANGED <<row, up, assigned, pending, cancels, expired, watch, crashes>>
    /\ UNCHANGED <<link, reply, acks, exec, known, stash, drops>>

FlushFails(t, handled) ==
    /\ t \in flush.todo
    /\ ~ link \/ "stall" \in Ops
    /\ handled => Listening /\ link
    /\ finishing' = IF handled THEN Accepted(t) ELSE finishing
    /\ flush' = [flush EXCEPT !.todo = @ \ {t}, !.left = @ \cup {t}]
    /\ UNCHANGED <<row, up, assigned, pending, cancels, expired, watch, crashes>>
    /\ UNCHANGED <<link, reply, acks, exec, known, stash, drops>>

(* What could not be sent replaces the contents of the file.               *)
FlushSaves ==
    /\ flush.on /\ flush.todo = {}
    /\ stash' = flush.left
    /\ flush' = NoFlush
    /\ UNCHANGED <<row, daemonVars, link, reply, acks, exec, known, drops>>

(* The machine's process dies: the file stays.                             *)
MachineCrash ==
    /\ "machine_crash" \in Ops
    /\ drops < MaxDrops /\ drops' = drops + 1
    /\ link' = FALSE /\ reply' = NoReply /\ acks' = {}
    /\ exec' = [e \in Execs |-> FreeExec]
    /\ known' = [r \in Runs |-> NoExec]
    /\ flush' = NoFlush
    /\ UNCHANGED <<row, daemonVars, stash>>

Crash ==
    /\ Listening /\ crashes < MaxCrashes
    /\ crashes' = crashes + 1
    /\ up' = "down"
    /\ assigned' = {} /\ pending' = {} /\ cancels' = {} /\ expired' = {}
    /\ watch' = [r \in Runs |-> "off"]
    /\ finishing' = {}
    /\ Disconnect
    /\ UNCHANGED <<row, drops>>

Boot ==
    /\ up = "down"
    /\ up' = "boot"
    /\ UNCHANGED <<row, assigned, pending, cancels, expired, watch, finishing, crashes>>
    /\ UNCHANGED <<link, reply, acks, machineVars>>

(* RecoverStuckRunning: running rows go back to the queue; those of a goal *)
(* that ended, which is not this module's to know, are cancelled.          *)
Recover ==
    /\ up = "boot"
    /\ up' = "up"
    /\ \E S \in SUBSET {r \in Runs : Running(r)} :
         row' = [r \in Runs |->
                   IF ~ Running(r) THEN row[r]
                   ELSE [row[r] EXCEPT !.status =
                           IF r \in S THEN "ended" ELSE "queued"]]
    /\ UNCHANGED <<assigned, pending, cancels, expired, watch, finishing, crashes>>
    /\ UNCHANGED <<link, reply, acks, machineVars>>

--------------------------------------------------------------------------------
Platform(r) ==
    \/ Claim(r)           \/ Stamp(r)           \/ AskStop(r)
    \/ FailExpired(r)     \/ IngestRunClaimed(r)
    \/ WatchdogStops(r)   \/ WatchdogCancels(r) \/ WatchdogEnds(r)

Tickets(t) ==
    \/ DispatchToMachine(t) \/ FailLaunch(t)
    \/ PickupTimeout(t)     \/ SweepExpired(t)
    \/ FinishMachineRun(t)  \/ FlushSends(t)
    \/ \E handled \in BOOLEAN : FlushFails(t, handled)

Executor(e) ==
    \/ Enter(e) \/ Acknowledge(e) \/ EndWork(e) \/ IngestRunFinished(e)
    \/ SaveStash(e) \/ \E handled \in BOOLEAN : ReportFails(e, handled)

Link ==
    \/ Serve \/ LoseReply \/ Receive
    \/ LinkDrops \/ LinkUp \/ FlushSaves \/ MachineCrash
    \/ Crash \/ Boot \/ Recover

Next ==
    \/ \E r \in Runs : Platform(r)
    \/ \E t \in Ticket : Tickets(t)
    \/ \E e \in Execs : Executor(e)
    \/ Link

Spec == Init /\ [][Next]_vars

(* Fair are the daemon's own steps: startup, the workers, the timers, the  *)
(* completion goroutines and the watchdogs.  The machine and the link are  *)
(* not: the daemon must not depend on them.                                *)
FairSpec ==
    /\ Spec
    /\ WF_vars(Boot \/ Recover)
    /\ \A r \in Runs :
         /\ WF_vars(FailExpired(r))
         /\ WF_vars(WatchdogStops(r) \/ WatchdogCancels(r) \/ WatchdogEnds(r))
    /\ \A t \in Ticket :
         /\ WF_vars(DispatchToMachine(t) \/ FailLaunch(t))
         /\ WF_vars(PickupTimeout(t) \/ SweepExpired(t))
         /\ WF_vars(FinishMachineRun(t))

--------------------------------------------------------------------------------
(* Properties.                                                             *)

(* While the daemon works, a running run always has something in the       *)
(* daemon that will end it: a worker, a pickup timer, a failure under way, *)
(* a watchdog or a report being processed.                                 *)
Supervised ==
    up = "up" => \A r \in Runs :
        Running(r) => \/ r \in RunsOf(assigned) \cup RunsOf(pending)
                      \/ r \in expired \cup RunsOf(finishing)
                      \/ watch[r] # "off"

(* The outcome recorded for a run was reported under its latest claim.     *)
OutcomeIsOfClaim ==
    \A r \in Runs : row[r].end # 0 => row[r].end = row[r].tok

(* The executor refuses a dispatch as "already in flight" only while an    *)
(* execution of that run is in flight on this link.                        *)
KnownIsInFlight ==
    \A r \in Runs : known[r] # NoExec =>
        /\ exec[known[r]].pc \notin {"free", "launched"}
        /\ exec[known[r]].run = r /\ ~ exec[known[r]].old

(* A running run whose execution was acknowledged is neither served again  *)
(* nor put through the pickup timeout ("a claimed run must never be        *)
(* failed here").                                                          *)
AckRetires ==
    \A r \in Runs : Running(r) /\ watch[r] # "off" => r \notin RunsOf(pending)

(* The first end of a run stands, whatever reports, timers and stamps      *)
(* arrive later.                                                           *)
EndStands ==
    [][\A r \in Runs : row[r].status = "ended" => row'[r] = row[r]]_vars

(* The contract with the goal layer: the row is all of it that the goal    *)
(* layer sees, and "stale" is no state of the contract.                    *)
StateOf(r) ==
    CASE row[r].status = "queued"  -> "queued"
      [] row[r].status = "running" -> "claimed"
      [] OTHER -> IF row[r].end = 0 THEN "dropped"
                  ELSE IF row[r].end = row[r].tok THEN "reported" ELSE "stale"

Contract == INSTANCE RunContract WITH
    state  <- [r \in Runs |-> StateOf(r)],
    claims <- [r \in Runs |-> row[r].tok]

(* Queues, timers, acknowledgements, stashes and crashes only ever do to   *)
(* a run what its contract allows: no report of an earlier claim ends it,  *)
(* nothing but a claim starts it, nothing but a restart takes it back.     *)
ImplementsContract == Contract!Spec

(* Every claim comes to an end, whatever the machine and the link do.      *)
EveryClaimEnds == \A r \in Runs : Running(r) ~> ~ Running(r)

(* "The executor is the dedupe": a dispatch is not executed again once its *)
(* outcome is recorded.                                                    *)
NotExecutedAgain ==
    [][\A e \in Execs :
          exec[e].pc = "free" /\ exec'[e].pc = "launched"
              => row[exec'[e].run].end # exec'[e].tok]_vars

(* "A lost terminal report would leave the run hanging": while no process  *)
(* crashes, an acknowledged run is being executed, or its report is still  *)
(* somewhere.                                                              *)
ReportHeld(t) ==
    \/ t \in stash \cup flush.todo \cup flush.left \cup finishing
    \/ \E e \in Execs : \/ exec[e].pc # "free" /\ exec[e].run = t.run /\ exec[e].tok = t.tok
                        \/ t \in exec[e].seen
ReportNotLost ==
    \A r \in Runs : Running(r) /\ watch[r] = "on"
        => ReportHeld([run |-> r, tok |-> row[r].tok])
================================================================================
