------------------------------- MODULE Intake -------------------------------
(***************************************************************************)
(* Requests in plain language (internal/daemon/intake.go,                  *)
(* internal/notify/intake.go, connector.go, handler.go,                    *)
(* RunService.EnqueueProcessorRun).  A message from IM or from the web     *)
(* assistant becomes a run of the steward that parses it into an action;   *)
(* the daemon executes the action when the run's report arrives.  The      *)
(* steward's chat calls the same handlers as a tool.  A create that lacks  *)
(* a required field is asked about once: what is known waits as a draft,   *)
(* in one settings key that every lane shares, for the next create of its  *)
(* kind.                                                                   *)
(*                                                                         *)
(* Reports are acknowledged before they are handled, so a report sent      *)
(* again may be handled twice, by two goroutines at once.  What a parser   *)
(* makes of a message is any outcome; a payload is the set of required     *)
(* fields it has.                                                          *)
(***************************************************************************)
EXTENDS Naturals, FiniteSets

CONSTANTS
    Msgs,          \* messages; a run has the name of the message it parses
    Kinds,         \* what can be created: a goal, an agent, a squad, a domain
    Fields,        \* the required fields of a create
    Handlers,      \* goroutines that execute an action
    None,
    MaxReports,    \* how often one terminal report gets through
    MaxCrashes

ASSUME IntakeAssumption ==
    /\ IsFiniteSet(Handlers) /\ Handlers # {}
    /\ None \notin Msgs \cup Kinds
    /\ MaxReports \in Nat \ {0} /\ MaxCrashes \in Nat

VARIABLES
    run,       \* [Msgs -> Run]
    draft,     \* Draft: the settings key intake.draft
    handler,   \* [Handlers -> Handler]
    done,      \* messages executed in this life of the daemon, or stamped
    up, crashes,
    online     \* the steward's machine is connected and its runtime is there

lifeVars == <<up, crashes, online>>
vars == <<run, draft, handler, done, lifeVars>>

Lanes == {"im", "web"}
DraftIds == 1..Cardinality(Handlers) + 1

\* What the parser wrote: a create, another command, or nothing that parses.
Outcome == [what : {"create"}, kind : Kinds, fields : SUBSET Fields]
           \cup [what : {"command", "bad"}, kind : {None}, fields : {{}}]
NoOutcome == [what |-> "none", kind |-> None, fields |-> {}]

Run == [lane : Lanes \cup {"chat"},
        status : {"none", "folded", "tool", "queued", "running", "completed", "failed"},
        out : Outcome \cup {NoOutcome}, reports : 0..MaxReports,
        watched : BOOLEAN]     \* a timeout of this life of the daemon is on
Draft == [id : DraftIds \cup {0}, kind : Kinds \cup {None}, fields : SUBSET Fields,
          old : BOOLEAN,     \* past its ten minutes
          kept : BOOLEAN,    \* it was to be cleared, and the write failed
          tried : BOOLEAN]   \* it was merged into a create that has run
Handler == [pc : {"idle", "load", "drop", "clear", "save", "create", "command", "stamp", "fail"},
            msg : Msgs \cup {None}, kind : Kinds \cup {None}, fields : SUBSET Fields,
            from : DraftIds \cup {0}]

NoDraft == [id |-> 0, kind |-> None, fields |-> {}, old |-> FALSE, kept |-> FALSE, tried |-> FALSE]
Idle == [pc |-> "idle", msg |-> None, kind |-> None, fields |-> {}, from |-> 0]

TypeOK ==
    /\ run \in [Msgs -> Run] /\ draft \in Draft /\ handler \in [Handlers -> Handler]
    /\ done \subseteq Msgs /\ up \in BOOLEAN /\ crashes \in 0..MaxCrashes
    /\ online \in BOOLEAN

Init ==
    /\ run = [m \in Msgs |-> [lane |-> "im", status |-> "none", out |-> NoOutcome, reports |-> 0,
                         watched |-> FALSE]]
    /\ draft = NoDraft /\ handler = [h \in Handlers |-> Idle] /\ done = {}
    /\ up = TRUE /\ crashes = 0 /\ online \in BOOLEAN

----------------------------------------------------------------------------
\* A message and its run.

Live(m) == run[m].status \in {"queued", "running"}
Pending(lane) == \E m \in Msgs : run[m].lane = lane /\ Live(m)

\* A run that ends is reported on no more.
Ended(m, end) == [run EXCEPT ![m].status = end, ![m].out = NoOutcome, ![m].reports = 0]

\* A stamp with "status IN ('queued','running')".
StampedIfLive(m, end) == IF Live(m) THEN Ended(m, end) ELSE run

\* The draft is a key of the settings.  A write of it may fail, and nobody looks at the error.
Left(next) == draft' \in {next, draft}

\* LoadDraft: an expired draft is deleted by whoever reads it.
Unexpired == IF draft.old THEN NoDraft ELSE draft

\* EnqueueProcessorRun: the run that is waiting or at work stands for the new message.
Enqueued(lane) == IF Pending(lane) THEN "folded" ELSE "queued"

\* dispatchInbound, EnqueueWeb: the prompt is built with the draft of the moment.
Receive(m, lane) ==
    /\ up /\ run[m].status = "none"
    /\ run' = [run EXCEPT ![m].lane = lane, ![m].status = Enqueued(lane)]
    /\ Left(Unexpired)
    /\ UNCHANGED <<handler, done, lifeVars>>

\* A run is claimed only while the agent's machine is connected and its runtime is there.
Claim(m) ==
    /\ up /\ online /\ run[m].status = "queued"
    /\ run' = [run EXCEPT ![m].status = "running", ![m].watched = TRUE]
    /\ UNCHANGED <<draft, handler, done, lifeVars>>

\* dispatchToMachine, pickup timeout, watchdog: failRun ends the run, if it has not ended.
Expire(m) ==
    /\ up /\ run[m].watched
    /\ run' = [StampedIfLive(m, "failed") EXCEPT ![m].watched = FALSE]
    /\ UNCHANGED <<draft, handler, done, lifeVars>>

----------------------------------------------------------------------------
\* Executing an action.

\* The registry routes the action to its handler.
Dispatched(m, out) ==
    [Idle EXCEPT !.pc = CASE out.what = "create" -> "load"
                          [] out.what = "command" -> "command"
                          [] OTHER -> "fail",
                 !.msg = m, !.kind = out.kind, !.fields = out.fields]

\* The machine's executor has ended; a report sent again says the same.
Reported(m) == IF run[m].reports = 0 THEN Outcome ELSE {run[m].out}

\* IngestRunFinished: an acknowledgement now, the work in a goroutine of its own.
IngestRunFinished(m, h) ==
    /\ up /\ handler[h].pc = "idle"
    /\ run[m].status = "running" /\ run[m].reports < MaxReports
    /\ \E out \in Reported(m) :
         /\ run' = [run EXCEPT ![m].out = out, ![m].reports = @ + 1]
         /\ handler' = [handler EXCEPT ![h] = Dispatched(m, out)]
    /\ UNCHANGED <<draft, done, lifeVars>>

\* POST /intake/dispatch: the steward's chat calls a handler as a tool.
DispatchIntake(m, h) ==
    /\ up /\ handler[h].pc = "idle" /\ run[m].status = "none"
    /\ \E out \in Outcome :
         /\ out.what # "bad"
         /\ handler' = [handler EXCEPT ![h] = Dispatched(m, out)]
    /\ run' = [run EXCEPT ![m].lane = "chat", ![m].status = "tool"]
    /\ UNCHANGED <<draft, done, lifeVars>>

At(h, pc) == up /\ handler[h].pc = pc
Goes(h, pc) == [handler EXCEPT ![h].pc = pc]

\* A create with no draft to complete: it is complete itself, or is asked about.
FreshCreate(h) == IF handler[h].fields = Fields THEN "create" ELSE "save"

\* intakeCreateGoal and its siblings: the draft of the same kind, or a fresh create.
LoadDraft(h) ==
    /\ At(h, "load")
    /\ handler' =
         CASE draft.id # 0 /\ draft.old -> Goes(h, "drop")
           [] draft.id # 0 /\ ~draft.old /\ draft.kind = handler[h].kind ->
                [handler EXCEPT ![h].pc = "clear", ![h].from = draft.id,
                                ![h].fields = @ \cup draft.fields]
           [] OTHER -> Goes(h, FreshCreate(h))
    /\ UNCHANGED <<run, draft, done, lifeVars>>

\* The draft that was read had expired; the delete takes what is there by now.
DropExpired(h) ==
    /\ At(h, "drop")
    /\ Left(NoDraft) /\ handler' = Goes(h, FreshCreate(h))
    /\ UNCHANGED <<run, done, lifeVars>>

KeepDraft(h) ==
    /\ At(h, "clear")
    /\ handler' = Goes(h, "create")
    /\ UNCHANGED <<run, draft, done, lifeVars>>

\* The merged draft is cleared before the create is tried, which is tried all the same.
ClearDraft(h) ==
    /\ At(h, "clear")
    /\ \/ draft' = NoDraft
       \/ draft' = [draft EXCEPT !.kept = @ \/ draft.id = handler[h].from]
    /\ handler' = Goes(h, "create")
    /\ UNCHANGED <<run, done, lifeVars>>

FreshId == CHOOSE i \in DraftIds : i # draft.id /\ \A h \in Handlers : handler[h].from # i

\* collectAndAsk: what is known becomes the draft, and the answer is the question.
CollectAndAsk(h) ==
    /\ At(h, "save")
    /\ Left([id |-> FreshId, kind |-> handler[h].kind, fields |-> handler[h].fields,
             old |-> FALSE, kept |-> FALSE, tried |-> FALSE])
    /\ handler' = Goes(h, "stamp")
    /\ UNCHANGED <<run, done, lifeVars>>

\* doCreate: one try, whose error is the answer; a vague reply fails here, unasked.
DoCreate(h) ==
    /\ At(h, "create")
    /\ draft' = [draft EXCEPT !.tried = @ \/ (draft.id # 0 /\ draft.id = handler[h].from)]
    /\ done' = done \cup {handler[h].msg}
    /\ handler' = [handler EXCEPT ![h].pc = "stamp", ![h].from = 0]
    /\ UNCHANGED <<run, lifeVars>>

\* Any other intent: one call of a service, or a list.
Command(h) ==
    /\ At(h, "command")
    /\ done' = done \cup {handler[h].msg} /\ handler' = Goes(h, "stamp")
    /\ UNCHANGED <<run, draft, lifeVars>>

StampIfLive(h) ==
    /\ At(h, "stamp")
    /\ run' = StampedIfLive(handler[h].msg, "completed")
    /\ handler' = [handler EXCEPT ![h] = Idle]
    /\ UNCHANGED <<draft, done, lifeVars>>

\* replyIntake: the run completed, whatever it was stamped meanwhile; a tool call returns.
ReplyIntake(h) ==
    /\ At(h, "stamp")
    /\ run' = IF run[handler[h].msg].status = "tool" THEN run ELSE Ended(handler[h].msg, "completed")
    /\ handler' = [handler EXCEPT ![h] = Idle]
    /\ UNCHANGED <<draft, done, lifeVars>>

\* failIntakeRun: only a run that has not ended fails.
FailIntakeRun(h) ==
    /\ At(h, "fail")
    /\ run' = StampedIfLive(handler[h].msg, "failed")
    /\ handler' = [handler EXCEPT ![h] = Idle]
    /\ UNCHANGED <<draft, done, lifeVars>>

----------------------------------------------------------------------------
\* Time, the machine, crash, restart.

Age ==
    /\ draft.id # 0 /\ ~draft.old
    /\ draft' = [draft EXCEPT !.old = TRUE]
    /\ UNCHANGED <<run, handler, done, lifeVars>>

\* The machine connects and disconnects as it likes, its runtime comes and goes.
Connection ==
    /\ online' = ~online
    /\ UNCHANGED <<run, draft, handler, done, up, crashes>>

Crash ==
    /\ up /\ crashes < MaxCrashes
    /\ up' = FALSE /\ crashes' = crashes + 1
    /\ handler' = [h \in Handlers |-> Idle]
    /\ run' = [m \in Msgs |-> [run[m] EXCEPT !.watched = FALSE]]
    /\ done' = {m \in done : run[m].status = "completed"}
    /\ UNCHANGED <<draft, online>>

LeftRunning == ~up /\ up' = TRUE /\ UNCHANGED <<run, draft, handler, done, crashes, online>>

\* RecoverStuckRunning: the run is claimed again; a report of the old claim is dropped.
Restart ==
    /\ ~up /\ up' = TRUE
    /\ run' = [m \in Msgs |-> IF run[m].status = "running"
                                THEN [run[m] EXCEPT !.status = "queued", !.out = NoOutcome, !.reports = 0]
                                ELSE run[m]]
    /\ UNCHANGED <<draft, handler, done, crashes, online>>

Handling(h) ==
    \/ LoadDraft(h) \/ DropExpired(h) \/ ClearDraft(h) \/ CollectAndAsk(h) \/ DoCreate(h)
    \/ Command(h) \/ ReplyIntake(h) \/ FailIntakeRun(h)

Next ==
    \/ \E m \in Msgs :
         \/ \E lane \in Lanes : Receive(m, lane)
         \/ Claim(m) \/ Expire(m)
         \/ \E h \in Handlers : IngestRunFinished(m, h) \/ DispatchIntake(m, h)
    \/ \E h \in Handlers : Handling(h)
    \/ Age \/ Connection \/ Crash \/ Restart

Spec == Init /\ [][Next]_vars

\* The worker claims what is queued while it can, a goroutine goes on, the timeouts of
\* a dispatch end a run nobody reports on, and a daemon that died is started.  Nothing
\* is assumed of the machine.
FairSpec ==
    /\ Spec
    /\ \A m \in Msgs : WF_vars(Claim(m)) /\ WF_vars(Expire(m))
    /\ \A h \in Handlers : WF_vars(Handling(h))
    /\ WF_vars(Restart)

\* The draft in the settings is never one whose merged request has been tried, unless
\* the write that cleared it failed: after a crash, a race or a report handled twice, no
\* later create inherits the fields of a request that is already done (intake.go,
\* intakeCreateGoal and its siblings).
DraftIsOpen == draft.tried => draft.kept

\* A run whose action was executed ends completed, also when a timeout failed it while
\* the action ran: nothing that was done is reported as failed (intake.go, replyIntake).
DoneIsCompleted ==
    \A m \in done : \/ run[m].status \in {"completed", "tool"}
                    \/ \E h \in Handlers : handler[h].msg = m

\* Every run ends, through crashes and lost reports, or waits for a machine that is away:
\* a run that waits is taken up when the machine is there again, if it stays.  (While it
\* waits the messages of its lane are folded into it.)
Over(m) == run[m].status \in {"completed", "failed"}
EveryMessageEnds ==
    \A m \in Msgs : Live(m) ~> (Over(m) \/ (run[m].status = "queued" /\ ~online))
=============================================================================
