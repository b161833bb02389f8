---------------------------- MODULE IntakeProofs ----------------------------
(***************************************************************************)
(* Theorems about Intake, for every set of messages, kinds, fields and     *)
(* handlers and every number of reports and crashes.                       *)
(*                                                                         *)
(* DraftIsOpen rests on names: a draft that is saved gets an id no handler *)
(* at work has merged, and there is always one (a pigeonhole argument), so *)
(* a create marks the stored draft only when the write that should have    *)
(* cleared it failed.  DoneIsCompleted rests   *)
(* on agreement: all reports of one claim say the same, so no handler      *)
(* fails a run whose action another one has executed.                      *)
(***************************************************************************)
EXTENDS Intake, FiniteSetTheorems, TLAPS

(* A handler at work has a message; only one about to create has a draft.  *)
HandlerOK ==
    \A h \in Handlers :
        /\ handler[h].pc # "idle" => handler[h].msg \in Msgs
        /\ handler[h].pc = "idle" => handler[h].msg = None
        /\ handler[h].from # 0 => handler[h].pc \in {"clear", "create"}

TypeInv == TypeOK /\ HandlerOK

----------------------------------------------------------------------------
(* Types.                                                                  *)

(* The shape of a handler's value, and that of the values that are reset.  *)
Shaped(v) ==
    /\ v \in Handler
    /\ v.pc # "idle" => v.msg \in Msgs
    /\ v.pc = "idle" => v.msg = None
    /\ v.from # 0 => v.pc \in {"clear", "create"}

LEMMA IdleType ==
    /\ Idle \in Handler /\ Shaped(Idle) /\ Idle.msg = None /\ Idle.from = 0
    /\ Idle.pc = "idle" /\ NoDraft \in Draft /\ NoOutcome.what = "none"
    /\ NoDraft.id = 0 /\ ~ NoDraft.tried /\ ~ NoDraft.kept
  BY DEF Idle, Handler, NoDraft, Draft, NoOutcome, Shaped

(* The fields of a run, a handler and the draft, read off their types.     *)
LEMMA RunFields ==
    ASSUME TypeOK, NEW m \in Msgs
    PROVE  /\ run[m] \in Run
           /\ run[m].reports \in 0..MaxReports /\ run[m].watched \in BOOLEAN
           /\ run[m].out \in Outcome \cup {NoOutcome}
  BY DEF TypeOK, Run

LEMMA HandlerFields ==
    ASSUME TypeOK, NEW h \in Handlers
    PROVE  /\ handler[h] \in Handler
           /\ handler[h].msg \in Msgs \cup {None}
           /\ handler[h].kind \in Kinds \cup {None}
           /\ handler[h].fields \subseteq Fields
           /\ handler[h].from \in DraftIds \cup {0}
  BY DEF TypeOK, Handler

LEMMA DraftFields ==
    ASSUME TypeOK
    PROVE  /\ draft \in Draft
           /\ draft.id \in DraftIds \cup {0} /\ draft.kind \in Kinds \cup {None}
           /\ draft.fields \subseteq Fields
           /\ draft.old \in BOOLEAN /\ draft.kept \in BOOLEAN /\ draft.tried \in BOOLEAN
  BY DEF TypeOK, Draft

(* A run that is ended, or ended if it still lives.                        *)
LEMMA EndedType ==
    ASSUME TypeOK, NEW m \in Msgs, NEW end \in {"completed", "failed"}
    PROVE  Ended(m, end) \in [Msgs -> Run] /\ StampedIfLive(m, end) \in [Msgs -> Run]
<1>1. [run[m] EXCEPT !.status = end, !.out = NoOutcome, !.reports = 0] \in Run
  <2>1. 0 \in 0..MaxReports /\ NoOutcome \in Outcome \cup {NoOutcome}
    BY IntakeAssumption
  <2>2. run[m] \in Run
    BY RunFields
  <2>3. QED
    BY <2>1, <2>2 DEF Run
<1>2. Ended(m, end) \in [Msgs -> Run]
  BY <1>1 DEF TypeOK, Ended
<1>3. QED
  BY <1>2 DEF TypeOK, StampedIfLive

(* What an action dispatches is a handler at work on its message.          *)
LEMMA DispatchedType ==
    ASSUME NEW m \in Msgs, NEW out \in Outcome \cup {NoOutcome}
    PROVE  /\ Dispatched(m, out) \in Handler
           /\ Dispatched(m, out).pc \in {"load", "command", "fail"}
           /\ Dispatched(m, out).pc = "fail" <=> out.what \in {"bad", "none"}
           /\ Dispatched(m, out).msg = m /\ Dispatched(m, out).from = 0
<1>1. /\ out.what \in {"create", "command", "bad", "none"}
      /\ out.kind \in Kinds \cup {None} /\ out.fields \subseteq Fields
  BY DEF Outcome, NoOutcome
<1> DEFINE pc == CASE out.what = "create" -> "load"
                   [] out.what = "command" -> "command"
                   [] OTHER -> "fail"
<1>2. pc \in {"load", "command", "fail"} /\ (pc = "fail" <=> out.what \in {"bad", "none"})
  BY <1>1
<1> HIDE DEF pc
<1>3. Dispatched(m, out) = [Idle EXCEPT !.pc = pc, !.msg = m, !.kind = out.kind,
                                        !.fields = out.fields]
  BY DEF Dispatched, pc
<1>4. Dispatched(m, out) = [pc |-> pc, msg |-> m, kind |-> out.kind,
                            fields |-> out.fields, from |-> 0]
  BY <1>3 DEF Idle
<1>5. QED
  BY <1>1, <1>2, <1>4 DEF Handler

(* Setting one handler to a value of the right shape.                      *)
LEMMA SetHandler ==
    ASSUME TypeInv, NEW h \in Handlers, NEW v, Shaped(v),
           handler' = [handler EXCEPT ![h] = v]
    PROVE  handler' \in [Handlers -> Handler] /\ HandlerOK'
<1>1. handler' \in [Handlers -> Handler]
  BY DEF Shaped, TypeInv, TypeOK
<1>2. \A g \in Handlers : handler'[g] = IF g = h THEN v ELSE handler[g]
  BY DEF TypeInv, TypeOK
<1>3. HandlerOK'
  BY <1>2 DEF Shaped, TypeInv, HandlerOK
<1>4. QED
  BY <1>1, <1>3

(* A handler's step keeps its message.                                     *)
LEMMA GoesType ==
    ASSUME TypeInv, NEW h \in Handlers, handler[h].pc # "idle",
           NEW pc \in {"drop", "create", "save", "stamp"},
           pc = "create" \/ handler[h].from = 0,
           handler' = Goes(h, pc)
    PROVE  handler' \in [Handlers -> Handler] /\ HandlerOK'
<1> DEFINE v == [handler[h] EXCEPT !.pc = pc]
<1>1. v.pc = pc /\ v.msg = handler[h].msg /\ v.from = handler[h].from /\ v \in Handler
  BY HandlerFields DEF TypeInv, Handler
<1>2. handler' = [handler EXCEPT ![h] = v]
  BY DEF Goes
<1> HIDE DEF v
<1>3. Shaped(v)
  BY <1>1 DEF Shaped, TypeInv, HandlerOK
<1>4. QED
  BY <1>2, <1>3, SetHandler

(* There is always an id for a draft that no handler has merged and that   *)
(* is not the stored draft's: the handler that saves one has none itself.  *)
LEMMA FreshIdExists ==
    ASSUME TypeInv, NEW h \in Handlers, handler[h].from = 0
    PROVE  FreshId \in DraftIds /\ FreshId # draft.id
           /\ \A g \in Handlers : handler[g].from # FreshId
<1> DEFINE n == Cardinality(Handlers)
           ids == DraftIds \ {draft.id}
           others == Handlers \ {h}
<1>1. n \in Nat
  BY IntakeAssumption, FS_CardinalityType
<1>2. IsFiniteSet(others) /\ Cardinality(others) = n - 1
  BY IntakeAssumption, FS_RemoveElement
<1>3. IsFiniteSet(DraftIds) /\ Cardinality(DraftIds) = n + 1
  BY <1>1, FS_Interval, 1 \in Int, n + 1 \in Int DEF DraftIds
<1>4. IsFiniteSet(ids) /\ Cardinality(ids) >= n
  BY <1>1, <1>3, FS_RemoveElement
<1>5. \E i \in ids : \A g \in Handlers : handler[g].from # i
  <2> SUFFICES ASSUME \A i \in ids : \E g \in Handlers : handler[g].from = i
               PROVE  FALSE
    OBVIOUS
  <2>1. 0 \notin ids
    BY <1>1 DEF DraftIds
  <2>2. \A i \in ids : \E g \in others : handler[g].from = i
    BY <2>1
  <2> DEFINE who == [i \in ids |-> CHOOSE g \in others : handler[g].from = i]
  <2>3. \A i \in ids : who[i] \in others /\ handler[who[i]].from = i
    BY <2>2
  <2>4. who \in [ids -> others]
    BY <2>3
  <2> HIDE DEF who
  <2>5. Cardinality(others) < Cardinality(ids)
    <3>1. Cardinality(ids) \in Nat
      BY <1>4, FS_CardinalityType
    <3>2. QED
      BY <1>1, <1>2, <1>4, <3>1
  <2> HIDE DEF ids, others
  <2>6. \E x, y \in ids : x # y /\ who[x] = who[y]
    BY <1>2, <1>4, <2>4, <2>5, FS_PigeonHole
  <2>7. QED
    BY <2>3, <2>6
<1>6. QED
  BY <1>5 DEF FreshId

LEMMA InitType == Init => TypeInv
<1> SUFFICES ASSUME Init PROVE TypeInv
  OBVIOUS
<1>1. 0 \in 0..MaxReports /\ 0 \in 0..MaxCrashes
  BY IntakeAssumption
<1>2. run \in [Msgs -> Run]
  BY <1>1 DEF Init, Run, Lanes
<1>3. QED
  BY <1>1, <1>2, IdleType DEF Init, TypeInv, TypeOK, HandlerOK, Idle

(* Each action keeps the types and the shape of the handlers.              *)
LEMMA RunStepType ==
    ASSUME TypeInv, NEW m \in Msgs, NEW h \in Handlers,
           \/ \E lane \in Lanes : Receive(m, lane)
           \/ Claim(m) \/ Expire(m) \/ IngestRunFinished(m, h) \/ DispatchIntake(m, h)
    PROVE  TypeInv'
<1> USE DEF TypeInv, TypeOK, HandlerOK, lifeVars
<1>1. ASSUME NEW lane \in Lanes, Receive(m, lane) PROVE TypeInv'
  <2>1. [run[m] EXCEPT !.lane = lane, !.status = Enqueued(lane)] \in Run
    BY RunFields DEF Enqueued, Run
  <2>2. run' \in [Msgs -> Run]
    BY <1>1, <2>1 DEF Receive, Run
  <2>3. QED
    BY <1>1, <2>2, IdleType DEF Receive, Left, Unexpired
<1>2. CASE Claim(m)
  <2>1. run' \in [Msgs -> Run]
    BY <1>2, RunFields DEF Claim, Run
  <2>2. QED
    BY <1>2, <2>1 DEF Claim
<1>3. CASE Expire(m)
  <2>1. StampedIfLive(m, "failed") \in [Msgs -> Run]
    BY EndedType
  <2> DEFINE ended == StampedIfLive(m, "failed")
  <2> HIDE DEF ended
  <2>2. [ended[m] EXCEPT !.watched = FALSE] \in Run
    BY <2>1 DEF Run, ended
  <2>3. run' = [ended EXCEPT ![m].watched = FALSE]
    BY <1>3 DEF Expire, ended
  <2>4. run' \in [Msgs -> Run]
    BY <2>1, <2>2, <2>3 DEF ended
  <2>5. QED
    BY <1>3, <2>4 DEF Expire
<1>4. CASE IngestRunFinished(m, h)
  <2>1. PICK out \in Reported(m) :
          /\ run' = [run EXCEPT ![m].out = out, ![m].reports = @ + 1]
          /\ handler' = [handler EXCEPT ![h] = Dispatched(m, out)]
    BY <1>4 DEF IngestRunFinished
  <2>2. out \in Outcome \cup {NoOutcome} /\ run[m].reports < MaxReports
    BY <1>4, <2>1, RunFields DEF Reported, IngestRunFinished
  <2>3. run[m].reports + 1 \in 0..MaxReports
    BY <2>2, RunFields, IntakeAssumption
  <2>4. [run[m] EXCEPT !.out = out, !.reports = @ + 1] \in Run
    BY <2>2, <2>3, RunFields DEF Run
  <2>5. run' \in [Msgs -> Run]
    BY <2>1, <2>4 DEF Run
  <2>6. Shaped(Dispatched(m, out))
    BY <2>2, DispatchedType DEF Shaped
  <2>7. QED
    BY <1>4, <2>1, <2>5, <2>6, SetHandler DEF IngestRunFinished
<1>5. CASE DispatchIntake(m, h)
  <2>1. PICK out \in Outcome : handler' = [handler EXCEPT ![h] = Dispatched(m, out)]
    BY <1>5 DEF DispatchIntake
  <2>2. run' \in [Msgs -> Run]
    BY <1>5, RunFields DEF DispatchIntake, Run
  <2>3. QED
    BY <1>5, <2>1, <2>2, DispatchedType, SetHandler DEF DispatchIntake, Shaped
<1>6. QED
  BY <1>1, <1>2, <1>3, <1>4, <1>5

LEMMA HandlingType ==
    ASSUME TypeInv, NEW h \in Handlers, Handling(h)
    PROVE  TypeInv'
<1> USE DEF TypeInv, TypeOK, lifeVars
<1>0. /\ handler[h].pc # "idle" /\ handler[h].msg \in Msgs
      /\ handler[h].pc # "clear" /\ handler[h].pc # "create" => handler[h].from = 0
  BY DEF Handling, LoadDraft, DropExpired, ClearDraft, CollectAndAsk, DoCreate, Command,
         ReplyIntake, FailIntakeRun, At, HandlerOK
<1>1. CASE LoadDraft(h)
  <2>0. FreshCreate(h) \in {"create", "save"} /\ handler[h].from = 0
    BY <1>0, <1>1 DEF FreshCreate, LoadDraft, At
  <2> DEFINE merged == [handler[h] EXCEPT !.pc = "clear", !.from = draft.id,
                                          !.fields = @ \cup draft.fields]
  <2>1. merged \in Handler /\ merged.pc = "clear" /\ merged.msg = handler[h].msg
    BY HandlerFields, DraftFields DEF Handler
  <2> HIDE DEF merged
  <2>2. \/ handler' = Goes(h, "drop") \/ handler' = Goes(h, FreshCreate(h))
        \/ handler' = [handler EXCEPT ![h] = merged]
    BY <1>1 DEF LoadDraft, merged
  <2>3. Shaped(merged)
    BY <1>0, <2>1 DEF Shaped
  <2>4. handler' \in [Handlers -> Handler] /\ HandlerOK'
    BY <1>0, <2>0, <2>2, <2>3, GoesType, SetHandler
  <2>5. QED
    BY <1>1, <2>4 DEF LoadDraft
<1>2. CASE DropExpired(h)
  <2>1. FreshCreate(h) \in {"create", "save"} /\ handler[h].from = 0
    BY <1>0, <1>2 DEF FreshCreate, DropExpired, At
  <2>2. QED
    BY <1>0, <1>2, <2>1, IdleType, GoesType DEF DropExpired, Left
<1>3. CASE ClearDraft(h)
  <2>1. draft' \in Draft
    BY <1>3, IdleType, DraftFields DEF ClearDraft, Draft
  <2>2. QED
    BY <1>0, <1>3, <2>1, GoesType DEF ClearDraft
<1>4. CASE CollectAndAsk(h)
  <2>1. handler[h].from = 0
    BY <1>0, <1>4 DEF CollectAndAsk, At
  <2> DEFINE v == [id |-> FreshId, kind |-> handler[h].kind, fields |-> handler[h].fields,
                   old |-> FALSE, kept |-> FALSE, tried |-> FALSE]
  <2>2. v \in Draft
    BY <2>1, FreshIdExists, HandlerFields DEF Draft
  <2>3. draft' \in {v, draft}
    BY <1>4 DEF CollectAndAsk, Left
  <2> HIDE DEF v
  <2>4. draft' \in Draft
    BY <2>2, <2>3
  <2>5. QED
    BY <1>0, <1>4, <2>1, <2>4, GoesType DEF CollectAndAsk
<1>5. CASE DoCreate(h)
  <2>1. draft' \in Draft
    BY <1>5, DraftFields DEF DoCreate, Draft
  <2> DEFINE v == [handler[h] EXCEPT !.pc = "stamp", !.from = 0]
  <2>2. v \in Handler /\ v.pc = "stamp" /\ v.msg = handler[h].msg /\ v.from = 0
    BY HandlerFields DEF Handler
  <2>3. handler' = [handler EXCEPT ![h] = v]
    BY <1>5 DEF DoCreate
  <2> HIDE DEF v
  <2>4. handler' \in [Handlers -> Handler] /\ HandlerOK'
    BY <1>0, <2>2, <2>3, SetHandler DEF Shaped
  <2>5. QED
    BY <1>0, <1>5, <2>1, <2>4 DEF DoCreate
<1>6. CASE Command(h)
  <2>1. handler[h].from = 0
    BY <1>0, <1>6 DEF Command, At
  <2>2. QED
    BY <1>0, <1>6, <2>1, GoesType DEF Command
<1>7. CASE ReplyIntake(h)
  BY <1>0, <1>7, EndedType, IdleType, SetHandler DEF ReplyIntake
<1>8. CASE FailIntakeRun(h)
  BY <1>0, <1>8, EndedType, IdleType, SetHandler DEF FailIntakeRun
<1>9. QED
  BY <1>1, <1>2, <1>3, <1>4, <1>5, <1>6, <1>7, <1>8 DEF Handling

LEMMA LifeType ==
    ASSUME TypeInv, Age \/ Connection \/ Crash \/ Restart
    PROVE  TypeInv'
<1> USE DEF TypeInv, TypeOK, HandlerOK, lifeVars
<1>1. CASE Age
  BY <1>1, DraftFields DEF Age, Draft
<1>2. CASE Crash
  <2>1. \A m \in Msgs : [run[m] EXCEPT !.watched = FALSE] \in Run
    BY RunFields DEF Run
  <2>2. handler' \in [Handlers -> Handler] /\ HandlerOK'
    BY <1>2, IdleType DEF Crash
  <2>3. crashes' \in 0..MaxCrashes
    BY <1>2, IntakeAssumption DEF Crash
  <2>4. run' \in [Msgs -> Run]
    BY <1>2, <2>1 DEF Crash
  <2>5. QED
    BY <1>2, <2>2, <2>3, <2>4 DEF Crash
<1>3. CASE Restart
  <2>1. \A m \in Msgs : [run[m] EXCEPT !.status = "queued", !.out = NoOutcome,
                                        !.reports = 0] \in Run
    <3>1. 0 \in 0..MaxReports
      BY IntakeAssumption
    <3>2. QED
      BY <3>1, RunFields DEF Run
  <2>2. QED
    BY <1>3, <2>1, RunFields DEF Restart
<1>4. CASE Connection
  BY <1>4 DEF Connection
<1>5. QED
  BY <1>1, <1>2, <1>3, <1>4

LEMMA NextType == TypeInv /\ [Next]_vars => TypeInv'
<1> SUFFICES ASSUME TypeInv, [Next]_vars PROVE TypeInv'
  OBVIOUS
<1>1. CASE UNCHANGED vars
  BY <1>1 DEF vars, lifeVars, TypeInv, TypeOK, HandlerOK
<1>2. CASE Next
  <2>1. Handlers # {}
    BY IntakeAssumption
  <2>2. QED
    BY <1>2, <2>1, RunStepType, HandlingType, LifeType DEF Next
<1>3. QED
  BY <1>1, <1>2

(* No interleaving of messages, reports, handlers, timeouts and crashes    *)
(* leaves the types; in particular there is always a fresh draft id.       *)
THEOREM TypeCorrect == Spec => []TypeOK
<1>1. TypeInv => TypeOK
  BY DEF TypeInv
<1>2. QED
  BY <1>1, InitType, NextType, PTL DEF Spec

----------------------------------------------------------------------------
(* DraftIsOpen: a create that is about to run has not merged the stored    *)
(* draft; what it merged was cleared, or is kept by a write that failed,   *)
(* and what was saved since has another id.                                *)
DraftInv ==
    /\ DraftIsOpen
    /\ \A h \in Handlers :
         handler[h].pc = "create" /\ handler[h].from # 0
           => handler[h].from # draft.id \/ draft.kept

LEMMA DraftStep == TypeInv /\ DraftInv /\ [Next]_vars => DraftInv'
<1> SUFFICES ASSUME TypeInv, DraftInv, [Next]_vars PROVE DraftInv'
  OBVIOUS
<1>0. /\ handler \in [Handlers -> Handler] /\ draft \in Draft
      /\ \A h \in Handlers : handler[h].from # 0 => handler[h].pc \in {"clear", "create"}
  BY DEF TypeInv, TypeOK, HandlerOK
<1>1. CASE UNCHANGED <<draft, handler>>
  BY <1>1 DEF DraftInv, DraftIsOpen
<1>2. CASE draft' = NoDraft /\ handler' = handler
  BY <1>2, IdleType DEF DraftInv, DraftIsOpen
<1>3. ASSUME NEW h \in Handlers, NEW v, v.pc # "create" \/ v.from = 0,
             handler' = [handler EXCEPT ![h] = v], draft' \in {draft, NoDraft}
      PROVE  DraftInv'
  <2>1. \A g \in Handlers : handler'[g] = IF g = h THEN v ELSE handler[g]
    BY <1>0, <1>3
  <2>2. QED
    BY <1>3, <2>1, IdleType DEF DraftInv, DraftIsOpen
<1>4. ASSUME NEW h \in Handlers, NEW pc \in {"drop", "create", "save", "stamp"},
             handler' = Goes(h, pc), handler[h].from = 0, draft' \in {draft, NoDraft}
      PROVE  DraftInv'
  <2> DEFINE v == [handler[h] EXCEPT !.pc = pc]
  <2>1. v.from = 0
    BY <1>0, <1>4 DEF Handler
  <2>2. handler' = [handler EXCEPT ![h] = v]
    BY <1>4 DEF Goes
  <2> HIDE DEF v
  <2>3. QED
    BY <1>3, <1>4, <2>1, <2>2
<1>5. ASSUME NEW m \in Msgs, NEW h \in Handlers,
             IngestRunFinished(m, h) \/ DispatchIntake(m, h)
      PROVE  DraftInv'
  <2>1. PICK out \in Outcome \cup {NoOutcome} :
          handler' = [handler EXCEPT ![h] = Dispatched(m, out)] /\ draft' = draft
    BY <1>5, RunFields DEF TypeInv, IngestRunFinished, DispatchIntake, Reported
  <2>2. Dispatched(m, out).from = 0
    BY DispatchedType
  <2>3. QED
    BY <1>3, <2>1, <2>2
<1>6. ASSUME NEW h \in Handlers, Handling(h)
      PROVE  DraftInv'
  <2>1. CASE LoadDraft(h)
    <3>1. FreshCreate(h) \in {"create", "save"} /\ handler[h].from = 0 /\ draft' = draft
      BY <1>0, <2>1 DEF FreshCreate, LoadDraft, At
    <3> DEFINE merged == [handler[h] EXCEPT !.pc = "clear", !.from = draft.id,
                                            !.fields = @ \cup draft.fields]
    <3>2. merged.pc = "clear"
      BY <1>0 DEF Handler
    <3> HIDE DEF merged
    <3>3. \/ handler' = Goes(h, "drop") \/ handler' = Goes(h, FreshCreate(h))
          \/ handler' = [handler EXCEPT ![h] = merged]
      BY <2>1 DEF LoadDraft, merged
    <3>4. QED
      BY <1>3, <1>4, <3>1, <3>2, <3>3
  <2>2. CASE DropExpired(h)
    <3>1. FreshCreate(h) \in {"create", "save"} /\ handler[h].from = 0
      BY <1>0, <2>2 DEF FreshCreate, DropExpired, At
    <3>2. QED
      BY <1>4, <2>2, <3>1 DEF DropExpired, Left
  <2>3. CASE ClearDraft(h)
    <3> DEFINE v == [handler[h] EXCEPT !.pc = "create"]
    <3>1. /\ handler' = [handler EXCEPT ![h] = v] /\ v.from = handler[h].from
          /\ \A g \in Handlers : handler'[g] = IF g = h THEN v ELSE handler[g]
      BY <1>0, <2>3 DEF ClearDraft, Goes, Handler
    <3> HIDE DEF v
    <3>2. CASE draft' = NoDraft
      BY <3>1, <3>2, IdleType DEF DraftInv, DraftIsOpen
    <3>3. CASE draft' = [draft EXCEPT !.kept = @ \/ draft.id = handler[h].from]
      <4>1. /\ draft'.id = draft.id /\ draft'.tried = draft.tried
            /\ draft'.kept <=> draft.kept \/ draft.id = handler[h].from
        BY <1>0, <3>3 DEF Draft
      <4>2. QED
        BY <3>1, <4>1 DEF DraftInv, DraftIsOpen
    <3>4. QED
      BY <2>3, <3>2, <3>3 DEF ClearDraft
  <2>4. CASE CollectAndAsk(h)
    <3>1. handler[h].from = 0 /\ handler' = Goes(h, "stamp")
      BY <1>0, <2>4 DEF CollectAndAsk, At
    <3>2. draft' = draft \/ (draft'.id = FreshId /\ ~ draft'.tried)
      BY <2>4 DEF CollectAndAsk, Left
    <3>3. \A g \in Handlers : handler[g].from # FreshId
      BY <3>1, FreshIdExists
    <3>4. \A g \in Handlers : handler'[g].from = handler[g].from
                               /\ (handler'[g].pc = "create" => handler[g].pc = "create")
      BY <1>0, <3>1 DEF Goes, Handler
    <3>5. QED
      BY <3>2, <3>3, <3>4 DEF DraftInv, DraftIsOpen
  <2>5. CASE DoCreate(h)
    <3>1. handler[h].from = 0 \/ handler[h].from # draft.id \/ draft.kept
      BY <2>5 DEF DoCreate, At, DraftInv
    <3>2. draft' = [draft EXCEPT !.tried = @ \/ (draft.id # 0 /\ draft.id = handler[h].from)]
      BY <2>5 DEF DoCreate
    <3>3. /\ draft'.id = draft.id /\ draft'.kept = draft.kept
          /\ draft'.tried => draft.tried \/ draft.kept
      BY <1>0, <3>1, <3>2 DEF Draft
    <3> DEFINE v == [handler[h] EXCEPT !.pc = "stamp", !.from = 0]
    <3>4. v.from = 0 /\ handler' = [handler EXCEPT ![h] = v]
      BY <1>0, <2>5 DEF DoCreate, Handler
    <3> HIDE DEF v
    <3>5. \A g \in Handlers : handler'[g] = IF g = h THEN v ELSE handler[g]
      BY <1>0, <3>4
    <3>6. QED
      BY <3>3, <3>4, <3>5 DEF DraftInv, DraftIsOpen
  <2>6. CASE Command(h)
    <3>1. handler[h].from = 0
      BY <1>0, <2>6 DEF Command, At
    <3>2. QED
      BY <1>4, <2>6, <3>1 DEF Command
  <2>7. CASE ReplyIntake(h) \/ FailIntakeRun(h)
    BY <1>3, <2>7, IdleType DEF ReplyIntake, FailIntakeRun
  <2>8. QED
    BY <1>6, <2>1, <2>2, <2>3, <2>4, <2>5, <2>6, <2>7 DEF Handling
<1>7. ASSUME NEW m \in Msgs,
             (\E lane \in Lanes : Receive(m, lane)) \/ Claim(m) \/ Expire(m)
      PROVE  DraftInv'
  <2>1. handler' = handler /\ draft' \in {draft, NoDraft}
    BY <1>7 DEF Receive, Left, Unexpired, Claim, Expire
  <2>2. QED
    BY <1>1, <1>2, <2>1
<1>8. CASE Age
  <2>1. /\ draft'.id = draft.id /\ draft'.tried = draft.tried /\ draft'.kept = draft.kept
        /\ handler' = handler
    BY <1>0, <1>8 DEF Age, Draft
  <2>2. QED
    BY <2>1 DEF DraftInv, DraftIsOpen
<1>9. CASE Crash
  BY <1>9, IdleType DEF Crash, DraftInv, DraftIsOpen
<1>10. CASE Connection \/ Restart \/ UNCHANGED vars
  BY <1>1, <1>10 DEF Connection, Restart, vars
<1>11. QED
  BY <1>5, <1>6, <1>7, <1>8, <1>9, <1>10 DEF Next

(* The stored draft is never one that was merged into a create already     *)
(* tried, unless the write that clears it failed: whatever handlers share  *)
(* it, and however often a report is handled, no later create inherits the *)
(* fields of a request that is done.                                       *)
THEOREM DraftStaysOpen == Spec => []DraftIsOpen
<1>1. Init => DraftInv
  BY IdleType DEF Init, DraftInv, DraftIsOpen
<1>2. DraftInv => DraftIsOpen
  BY DEF DraftInv
<1>3. QED
  BY <1>1, <1>2, InitType, NextType, DraftStep, PTL DEF Spec

----------------------------------------------------------------------------
(* DoneIsCompleted: nobody has handled a message whose run is not at work  *)
(* yet; the reports of one claim agree, so the handlers of a message all   *)
(* fail it, and then nothing was done, or none does; and a daemon that is  *)
(* down left neither handlers nor unstamped work.                          *)
Resting(m) == run[m].status \in {"none", "folded", "queued"}
Claimed(m) == run[m].status = "running"
Of(h, m) == handler[h].msg = m

RestingOK ==
    \A m \in Msgs :
      Resting(m) => m \notin done /\ run[m].reports = 0 /\ \A h \in Handlers : ~ Of(h, m)
UnreportedOK ==
    \A m \in Msgs :
      Claimed(m) /\ run[m].reports = 0 => m \notin done /\ \A h \in Handlers : ~ Of(h, m)
ReportedOK ==
    \A m \in Msgs :
      Claimed(m) /\ run[m].reports # 0 =>
        /\ run[m].out \in Outcome /\ (run[m].out.what = "bad" => m \notin done)
        /\ \A h \in Handlers : Of(h, m) => (handler[h].pc = "fail" <=> run[m].out.what = "bad")
FailingOK ==
    \A h \in Handlers :
      handler[h].pc = "fail" =>
        /\ handler[h].msg \notin done
        /\ \A g \in Handlers : Of(g, handler[h].msg) => handler[g].pc = "fail"
DownOK ==
    ~ up => /\ \A h \in Handlers : handler[h] = Idle
            /\ \A m \in done : run[m].status = "completed"

DoneInv ==
    /\ DoneIsCompleted
    /\ RestingOK /\ UnreportedOK /\ ReportedOK /\ FailingOK /\ DownOK

(* A step of a handler that stays at work on its message without failing   *)
(* it, and may mark the message done.                                      *)
LEMMA HandlerGoesOn ==
    ASSUME TypeInv, DoneInv, NEW h \in Handlers, handler[h].pc \notin {"idle", "fail"},
           NEW v, v.pc # "fail", v.msg = handler[h].msg,
           handler' = [handler EXCEPT ![h] = v],
           done' \in {done, done \cup {handler[h].msg}},
           run' = run, up, up' = up
    PROVE  DoneInv'
<1>1. /\ handler[h].msg \in Msgs
      /\ \A g \in Handlers : handler'[g] = IF g = h THEN v ELSE handler[g]
  BY DEF TypeInv, TypeOK, HandlerOK
<1>2. \A g \in Handlers, m \in Msgs : Of(g, m)' <=> Of(g, m)
  BY <1>1 DEF Of
<1>3. \A g \in Handlers : handler'[g].pc = "fail" <=> handler[g].pc = "fail"
  BY <1>1
<1>4. Of(h, handler[h].msg)
  BY DEF Of
<1>5. DoneIsCompleted'
  BY <1>1, <1>2, <1>4 DEF DoneInv, DoneIsCompleted, Of
<1>6. RestingOK' /\ UnreportedOK'
  BY <1>1, <1>2, <1>4 DEF DoneInv, RestingOK, UnreportedOK, Resting, Claimed
<1>7. ReportedOK'
  BY <1>1, <1>2, <1>3, <1>4 DEF DoneInv, ReportedOK, Claimed
<1>8. FailingOK'
  <2>1. \A g \in Handlers : handler'[g].msg = handler[g].msg
    BY <1>1
  <2>2. \A g \in Handlers : handler[g].pc = "fail" => handler[g].msg # handler[h].msg
    BY <1>4 DEF DoneInv, FailingOK
  <2>3. QED
    BY <1>3, <2>1, <2>2 DEF DoneInv, FailingOK, Of
<1>9. QED
  BY <1>5, <1>6, <1>7, <1>8 DEF DoneInv, DownOK

(* A handler is done with a message: the run is stamped, or was before.    *)
LEMMA HandlerEnds ==
    ASSUME TypeInv, DoneInv, NEW h \in Handlers, NEW m \in Msgs, m = handler[h].msg,
           handler[h].pc # "idle", handler' = [handler EXCEPT ![h] = Idle],
           \A k \in Msgs : k # m => run'[k] = run[k],
           run'[m].status \notin {"none", "folded", "queued", "running"},
           m \in done => run'[m].status \in {"completed", "tool"},
           done' = done, up, up' = up
    PROVE  DoneInv'
<1>1. \A g \in Handlers : handler'[g] = IF g = h THEN Idle ELSE handler[g]
  BY DEF TypeInv, TypeOK
<1>2. /\ \A g \in Handlers, k \in Msgs : Of(g, k)' => Of(g, k) /\ handler'[g] = handler[g]
      /\ \A g \in Handlers, k \in Msgs : k # m /\ Of(g, k) => Of(g, k)'
  BY <1>1, IdleType, IntakeAssumption DEF Of
<1>3. DoneIsCompleted'
  BY <1>2 DEF DoneInv, DoneIsCompleted, Of, TypeInv, TypeOK
<1>4. RestingOK' /\ UnreportedOK'
  BY <1>2 DEF DoneInv, RestingOK, UnreportedOK, Resting, Claimed
<1>5. ReportedOK'
  BY <1>2 DEF DoneInv, ReportedOK, Claimed
<1>6. FailingOK'
  <2>1. \A g \in Handlers : handler'[g].pc = "fail" => g # h /\ handler'[g] = handler[g]
    BY <1>1, IdleType
  <2>2. \A g \in Handlers : handler'[g].pc = "fail" => handler[g].msg \in Msgs
    BY <2>1 DEF TypeInv, HandlerOK
  <2>3. QED
    BY <1>2, <2>1, <2>2 DEF DoneInv, FailingOK, Of
<1>7. QED
  BY <1>3, <1>4, <1>5, <1>6 DEF DoneInv, DownOK

(* An idle handler starts on a message nobody has done.                    *)
LEMMA HandlerStarts ==
    ASSUME TypeInv, DoneInv, NEW h \in Handlers, NEW m \in Msgs, handler[h].pc = "idle",
           NEW v, v.msg = m, handler' = [handler EXCEPT ![h] = v],
           \A k \in Msgs : k # m => run'[k] = run[k],
           done' = done, up, up' = up
    PROVE  /\ \A g \in Handlers : handler'[g] = IF g = h THEN v ELSE handler[g]
           /\ \A g \in Handlers, k \in Msgs :
                Of(g, k)' <=> (Of(g, k) \/ (g = h /\ k = m))
           /\ \A k \in Msgs : ~ Of(h, k)
<1>1. handler[h].msg = None
  BY DEF TypeInv, HandlerOK
<1>2. \A g \in Handlers : handler'[g] = IF g = h THEN v ELSE handler[g]
  BY DEF TypeInv, TypeOK
<1>3. QED
  BY <1>1, <1>2, IntakeAssumption DEF Of

LEMMA IngestDone ==
    ASSUME TypeInv, DoneInv, NEW m \in Msgs, NEW h \in Handlers, IngestRunFinished(m, h)
    PROVE  DoneInv'
<1>1. PICK out \in Reported(m) :
        /\ run' = [run EXCEPT ![m].out = out, ![m].reports = @ + 1]
        /\ handler' = [handler EXCEPT ![h] = Dispatched(m, out)]
  BY DEF IngestRunFinished
<1>2. /\ up /\ up' = up /\ done' = done /\ handler[h].pc = "idle"
      /\ run[m].status = "running" /\ run[m].reports \in Nat
  BY RunFields, IntakeAssumption DEF IngestRunFinished, lifeVars, TypeInv
<1>3. out \in Outcome
  BY <1>1, <1>2 DEF Reported, DoneInv, ReportedOK, Claimed
<1> DEFINE v == Dispatched(m, out)
<1>4. v.msg = m /\ (v.pc = "fail" <=> out.what = "bad")
  BY <1>3, DispatchedType DEF Outcome
<1>5. handler' = [handler EXCEPT ![h] = v]
  BY <1>1
<1> HIDE DEF v
<1>6. /\ \A k \in Msgs : k # m => run'[k] = run[k]
      /\ run'[m].out = out /\ run'[m].reports # 0 /\ run'[m].status = "running"
  BY <1>1, <1>2 DEF TypeInv, TypeOK, Run
<1>7. /\ \A g \in Handlers : handler'[g] = IF g = h THEN v ELSE handler[g]
      /\ \A g \in Handlers, k \in Msgs : Of(g, k)' <=> (Of(g, k) \/ (g = h /\ k = m))
      /\ \A k \in Msgs : ~ Of(h, k)
  BY <1>2, <1>4, <1>5, <1>6, HandlerStarts
<1>8. \A g \in Handlers : Of(g, m) => (handler[g].pc = "fail" <=> out.what = "bad")
  <2>1. run[m].reports # 0 => run[m].out = out
    BY <1>1 DEF Reported
  <2>2. QED
    BY <1>2, <2>1 DEF DoneInv, UnreportedOK, ReportedOK, Claimed
<1>9. out.what = "bad" => m \notin done
  BY <1>1, <1>2 DEF DoneInv, UnreportedOK, ReportedOK, Claimed, Reported
<1>10. DoneIsCompleted'
  BY <1>2, <1>4, <1>6, <1>7 DEF DoneInv, DoneIsCompleted, Of, TypeInv, TypeOK
<1>11. RestingOK' /\ UnreportedOK'
  BY <1>2, <1>6, <1>7 DEF DoneInv, RestingOK, UnreportedOK, Resting, Claimed
<1>12. ReportedOK'
  <2>1. ASSUME NEW k \in Msgs, Claimed(k)', run'[k].reports # 0
        PROVE  /\ run'[k].out \in Outcome /\ (run'[k].out.what = "bad" => k \notin done)
               /\ \A g \in Handlers : Of(g, k)' => (handler'[g].pc = "fail" <=> run'[k].out.what = "bad")
    <3>1. CASE k = m
      BY <3>1, <1>3, <1>4, <1>6, <1>7, <1>8, <1>9
    <3>2. CASE k # m
      BY <3>2, <2>1, <1>6, <1>7 DEF DoneInv, ReportedOK, Claimed
    <3>3. QED
      BY <3>1, <3>2
  <2>2. QED
    BY <1>2, <2>1 DEF ReportedOK
<1>13. FailingOK'
  <2>1. ASSUME NEW g \in Handlers, handler'[g].pc = "fail"
        PROVE  /\ handler'[g].msg \notin done
               /\ \A f \in Handlers : handler'[f].msg = handler'[g].msg => handler'[f].pc = "fail"
    <3>1. CASE Of(g, m)'
      <4>1. out.what = "bad"
        BY <3>1, <2>1, <1>4, <1>7, <1>8
      <4>2. QED
        BY <3>1, <4>1, <1>4, <1>7, <1>8, <1>9 DEF Of
    <3>2. CASE ~ Of(g, m)'
      <4>1. handler'[g] = handler[g] /\ handler[g].msg \in Msgs /\ handler[g].msg # m
        BY <3>2, <2>1, <1>4, <1>7 DEF Of, TypeInv, HandlerOK
      <4>2. QED
        BY <2>1, <4>1, <1>7 DEF DoneInv, FailingOK, Of
    <3>3. QED
      BY <3>1, <3>2
  <2>2. QED
    BY <1>2, <2>1 DEF FailingOK, Of
<1>14. QED
  BY <1>2, <1>10, <1>11, <1>12, <1>13 DEF DoneInv, DownOK

LEMMA ToolDone ==
    ASSUME TypeInv, DoneInv, NEW m \in Msgs, NEW h \in Handlers, DispatchIntake(m, h)
    PROVE  DoneInv'
<1>1. PICK out \in Outcome :
        out.what # "bad" /\ handler' = [handler EXCEPT ![h] = Dispatched(m, out)]
  BY DEF DispatchIntake
<1>2. /\ up /\ up' = up /\ done' = done /\ handler[h].pc = "idle"
      /\ run[m].status = "none"
      /\ \A k \in Msgs : k # m => run'[k] = run[k]
      /\ run'[m].status = "tool"
  BY DEF DispatchIntake, lifeVars, TypeInv, TypeOK, Run
<1> DEFINE v == Dispatched(m, out)
<1>3. v.msg = m /\ v.pc # "fail" /\ handler' = [handler EXCEPT ![h] = v]
  BY <1>1, DispatchedType DEF Outcome
<1> HIDE DEF v
<1>4. /\ \A g \in Handlers : handler'[g] = IF g = h THEN v ELSE handler[g]
      /\ \A g \in Handlers, k \in Msgs : Of(g, k)' <=> (Of(g, k) \/ (g = h /\ k = m))
      /\ \A k \in Msgs : ~ Of(h, k)
  BY <1>2, <1>3, HandlerStarts
<1>5. m \notin done /\ \A g \in Handlers : ~ Of(g, m)
  BY <1>2 DEF DoneInv, RestingOK, Resting
<1>6. DoneIsCompleted'
  BY <1>2, <1>3, <1>4, <1>5 DEF DoneInv, DoneIsCompleted, Of, TypeInv, TypeOK
<1>7. RestingOK' /\ UnreportedOK'
  BY <1>2, <1>4 DEF DoneInv, RestingOK, UnreportedOK, Resting, Claimed
<1>8. ReportedOK'
  BY <1>2, <1>4 DEF DoneInv, ReportedOK, Claimed
<1>9. FailingOK'
  <2>1. ASSUME NEW g \in Handlers, handler'[g].pc = "fail"
        PROVE  g # h /\ handler'[g] = handler[g] /\ handler[g].msg \in Msgs /\ handler[g].msg # m
    BY <1>3, <1>4, <1>5, <2>1 DEF Of, TypeInv, HandlerOK
  <2>2. QED
    BY <1>2, <1>4, <2>1 DEF DoneInv, FailingOK, Of
<1>10. QED
  BY <1>2, <1>6, <1>7, <1>8, <1>9 DEF DoneInv, DownOK

(* A message received, claimed or timed out.                               *)
LEMMA RunStepDone ==
    ASSUME TypeInv, DoneInv, NEW m \in Msgs,
           (\E lane \in Lanes : Receive(m, lane)) \/ Claim(m) \/ Expire(m)
    PROVE  DoneInv'
<1>1. /\ handler' = handler /\ done' = done /\ up /\ up' = up
      /\ \A k \in Msgs : k # m => run'[k] = run[k]
  <2>1. CASE Expire(m)
    BY <2>1 DEF Expire, StampedIfLive, Ended, lifeVars, TypeInv, TypeOK
  <2>2. QED
    BY <2>1 DEF Receive, Claim, lifeVars, TypeInv, TypeOK
<1>2. \A g \in Handlers, k \in Msgs : Of(g, k)' <=> Of(g, k)
  BY <1>1 DEF Of
<1>3. \/ run'[m].status = run[m].status /\ run'[m].reports = run[m].reports /\ run'[m].out = run[m].out
      \/ Resting(m) /\ run'[m].status \in {"folded", "queued", "running"} /\ run'[m].reports = run[m].reports
      \/ Live(m) /\ run'[m].status = "failed"
  <2>1. CASE Expire(m)
    <3> DEFINE ended == StampedIfLive(m, "failed")
    <3>0. ended \in [Msgs -> Run]
      BY EndedType DEF TypeInv
    <3>1. ended[m] = run[m] \/ (Live(m) /\ ended[m].status = "failed")
      BY DEF StampedIfLive, Ended, TypeInv, TypeOK, Run
    <3>2. run' = [ended EXCEPT ![m].watched = FALSE]
      BY <2>1 DEF Expire
    <3> HIDE DEF ended
    <3>3. QED
      BY <3>0, <3>1, <3>2 DEF Run
  <2>2. CASE Claim(m)
    BY <2>2 DEF Claim, Resting, TypeInv, TypeOK, Run
  <2>3. ASSUME NEW lane \in Lanes, Receive(m, lane) PROVE Resting(m)
        /\ run'[m].status \in {"folded", "queued"} /\ run'[m].reports = run[m].reports
    BY <2>3 DEF Receive, Enqueued, Resting, TypeInv, TypeOK, Run
  <2>4. QED
    BY <2>1, <2>2, <2>3
<1>4. DoneIsCompleted'
  BY <1>1, <1>3 DEF DoneInv, DoneIsCompleted, RestingOK, Live, Resting, TypeInv, TypeOK
<1>5. RestingOK' /\ UnreportedOK' /\ ReportedOK'
  BY <1>1, <1>2, <1>3 DEF DoneInv, RestingOK, UnreportedOK, ReportedOK, Resting, Claimed
<1>6. FailingOK'
  BY <1>1 DEF DoneInv, FailingOK, Of
<1>7. QED
  BY <1>1, <1>4, <1>5, <1>6 DEF DoneInv, DownOK

LEMMA HandlingDone ==
    ASSUME TypeInv, DoneInv, NEW h \in Handlers, Handling(h)
    PROVE  DoneInv'
<1>0. handler[h] \in Handler /\ (handler[h].pc # "idle" => handler[h].msg \in Msgs)
  BY DEF TypeInv, TypeOK, HandlerOK
<1>1. ASSUME NEW pc \in {"drop", "create", "save", "stamp"}, handler' = Goes(h, pc),
             handler[h].pc \notin {"idle", "fail"}, run' = run, up, up' = up,
             done' \in {done, done \cup {handler[h].msg}}
      PROVE  DoneInv'
  <2> DEFINE v == [handler[h] EXCEPT !.pc = pc]
  <2>1. v.pc = pc /\ v.msg = handler[h].msg /\ handler' = [handler EXCEPT ![h] = v]
    BY <1>0, <1>1 DEF Goes, Handler
  <2> HIDE DEF v
  <2>2. QED
    BY <1>1, <2>1, HandlerGoesOn
<1>2. CASE LoadDraft(h)
  <2>1. /\ handler[h].pc \notin {"idle", "fail"} /\ run' = run /\ up /\ up' = up /\ done' = done
        /\ FreshCreate(h) \in {"create", "save"}
    BY <1>2 DEF LoadDraft, At, lifeVars, FreshCreate
  <2> DEFINE v == [handler[h] EXCEPT !.pc = "clear", !.from = draft.id,
                                     !.fields = @ \cup draft.fields]
  <2>2. v.pc = "clear" /\ v.msg = handler[h].msg
    BY <1>0 DEF Handler
  <2>3. \/ handler' = Goes(h, "drop") \/ handler' = Goes(h, FreshCreate(h))
        \/ handler' = [handler EXCEPT ![h] = v]
    BY <1>2 DEF LoadDraft
  <2> HIDE DEF v
  <2>4. QED
    BY <1>1, <2>1, <2>2, <2>3, HandlerGoesOn
<1>3. CASE DropExpired(h) \/ ClearDraft(h) \/ CollectAndAsk(h) \/ Command(h)
  <2>1. /\ handler[h].pc \notin {"idle", "fail"} /\ run' = run /\ up /\ up' = up
        /\ done' \in {done, done \cup {handler[h].msg}}
        /\ \E pc \in {"drop", "create", "save", "stamp"} : handler' = Goes(h, pc)
    BY <1>3 DEF DropExpired, ClearDraft, CollectAndAsk, Command, At, lifeVars, FreshCreate
  <2>2. QED
    BY <1>1, <2>1
<1>4. CASE DoCreate(h)
  <2>1. /\ handler[h].pc \notin {"idle", "fail"} /\ run' = run /\ up /\ up' = up
        /\ done' = done \cup {handler[h].msg}
    BY <1>4 DEF DoCreate, At, lifeVars
  <2> DEFINE v == [handler[h] EXCEPT !.pc = "stamp", !.from = 0]
  <2>2. v.pc = "stamp" /\ v.msg = handler[h].msg /\ handler' = [handler EXCEPT ![h] = v]
    BY <1>0, <1>4 DEF DoCreate, Handler
  <2> HIDE DEF v
  <2>3. QED
    BY <2>1, <2>2, HandlerGoesOn
<1>5. CASE ReplyIntake(h)
  <2>1. /\ handler[h].msg \in Msgs /\ up /\ up' = up /\ done' = done
        /\ handler[h].pc # "idle" /\ handler' = [handler EXCEPT ![h] = Idle]
        /\ \A k \in Msgs : k # handler[h].msg => run'[k] = run[k]
        /\ run'[handler[h].msg].status \in {"completed", "tool"}
    BY <1>0, <1>5 DEF ReplyIntake, At, lifeVars, Ended, TypeInv, TypeOK, Run
  <2>2. QED
    BY <2>1, HandlerEnds
<1>6. CASE FailIntakeRun(h)
  <2> DEFINE m == handler[h].msg
  <2>1. /\ m \in Msgs /\ up /\ up' = up /\ done' = done
        /\ handler[h].pc = "fail" /\ handler' = [handler EXCEPT ![h] = Idle]
        /\ run' = StampedIfLive(m, "failed")
    BY <1>0, <1>6 DEF FailIntakeRun, At, lifeVars
  <2>2. m \notin done /\ ~ Resting(m)
    BY <2>1 DEF DoneInv, FailingOK, RestingOK, Of
  <2>3. \A k \in Msgs : k # m => run'[k] = run[k]
    BY <2>1 DEF StampedIfLive, Ended, TypeInv, TypeOK
  <2>4. run'[m].status \notin {"none", "folded", "queued", "running"}
    <3>1. CASE Live(m)
      BY <2>1, <3>1 DEF StampedIfLive, Ended, TypeInv, TypeOK, Run
    <3>2. CASE ~ Live(m)
      BY <2>1, <2>2, <3>2 DEF StampedIfLive, Live, Resting
    <3>3. QED
      BY <3>1, <3>2
  <2>5. QED
    BY <2>1, <2>2, <2>3, <2>4, HandlerEnds
<1>7. QED
  BY <1>2, <1>3, <1>4, <1>5, <1>6 DEF Handling

LEMMA LifeDone ==
    ASSUME TypeInv, DoneInv, Age \/ Connection \/ Crash \/ Restart
    PROVE  DoneInv'
<1>1. CASE Age \/ Connection
  BY <1>1 DEF Age, Connection, lifeVars, DoneInv, DoneIsCompleted, RestingOK, UnreportedOK, ReportedOK,
              FailingOK, DownOK, Resting, Claimed, Of
<1>2. CASE Crash
  <2>1. /\ \A h \in Handlers : handler'[h] = Idle
        /\ \A h \in Handlers, m \in Msgs : ~ Of(h, m)'
    BY <1>2, IdleType, IntakeAssumption DEF Crash, Of
  <2>2. \A m \in Msgs : /\ run'[m].status = run[m].status /\ run'[m].out = run[m].out
                        /\ run'[m].reports = run[m].reports
    BY <1>2, RunFields DEF Crash, TypeInv, Run
  <2>3. done' \subseteq done /\ done' \subseteq Msgs /\ \A m \in done' : run'[m].status = "completed"
    BY <1>2, <2>2 DEF Crash, TypeInv, TypeOK
  <2>4. DoneIsCompleted' /\ DownOK'
    BY <2>1, <2>3 DEF DoneIsCompleted, DownOK
  <2>5. RestingOK' /\ UnreportedOK' /\ ReportedOK'
    BY <2>1, <2>2, <2>3 DEF DoneInv, RestingOK, UnreportedOK, ReportedOK, Resting, Claimed
  <2>6. FailingOK'
    BY <2>1, IdleType DEF FailingOK
  <2>7. QED
    BY <2>4, <2>5, <2>6 DEF DoneInv
<1>3. CASE Restart
  <2>1. /\ handler' = handler /\ done' = done /\ up' /\ ~ up
        /\ \A h \in Handlers : handler[h] = Idle
        /\ \A m \in done : run[m].status = "completed"
    BY <1>3 DEF Restart, DoneInv, DownOK
  <2>2. \A h \in Handlers, m \in Msgs : ~ Of(h, m)'
    BY <2>1, IdleType, IntakeAssumption DEF Of
  <2>3. \A m \in Msgs : IF run[m].status = "running"
                          THEN run'[m].status = "queued" /\ run'[m].reports = 0
                          ELSE run'[m] = run[m]
    BY <1>3, RunFields DEF Restart, TypeInv, Run
  <2>4. DoneIsCompleted' /\ DownOK'
    BY <2>1, <2>3 DEF DoneIsCompleted, DownOK, TypeInv, TypeOK
  <2>5. RestingOK' /\ UnreportedOK' /\ ReportedOK'
    BY <2>1, <2>2, <2>3 DEF DoneInv, RestingOK, UnreportedOK, ReportedOK, Resting, Claimed
  <2>6. FailingOK'
    BY <2>1, IdleType DEF FailingOK
  <2>7. QED
    BY <2>4, <2>5, <2>6 DEF DoneInv
<1>4. QED
  BY <1>1, <1>2, <1>3

LEMMA DoneStep == TypeInv /\ DoneInv /\ [Next]_vars => DoneInv'
<1> SUFFICES ASSUME TypeInv, DoneInv, [Next]_vars PROVE DoneInv'
  OBVIOUS
<1>1. CASE UNCHANGED vars
  BY <1>1 DEF vars, lifeVars, DoneInv, DoneIsCompleted, RestingOK, UnreportedOK, ReportedOK,
              FailingOK, DownOK, Resting, Claimed, Of
<1>2. CASE Next
  BY <1>2, RunStepDone, IngestDone, ToolDone, HandlingDone, LifeDone DEF Next
<1>3. QED
  BY <1>1, <1>2

(* A run whose action was executed ends completed, or is about to: no      *)
(* timeout, second report or crash leaves a request that was carried out   *)
(* reported as failed.                                                     *)
THEOREM DoneEndsCompleted == Spec => []DoneIsCompleted
<1>1. Init => DoneInv
  BY IdleType, IntakeAssumption
  DEF Init, DoneInv, DoneIsCompleted, RestingOK, UnreportedOK, ReportedOK, FailingOK, DownOK,
      Resting, Claimed, Of
<1>2. DoneInv => DoneIsCompleted
  BY DEF DoneInv
<1>3. QED
  BY <1>1, <1>2, InitType, NextType, DoneStep, PTL DEF Spec
=============================================================================
