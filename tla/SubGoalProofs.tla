---------------------------- MODULE SubGoalProofs ----------------------------
(***************************************************************************)
(* Theorems about SubGoal, for every set of sub-goals and run rows, every  *)
(* bound, and whatever the environment does beyond what a premise excludes.*)
(***************************************************************************)
EXTENDS SubGoal, TLAPS

Roles     == {"owner", "subgoal", "verify"}
RowStatus == {"free"} \cup Pending \cup Ended

(* An owner run has no sub-goal, the others have one.                      *)
Shaped == {v \in Row : v.role = "owner" <=> v.of = NoSub}

(* Only a sub-goal that failed has used up its tries.                      *)
TriesOK == \A s \in SubGoals : Status(s) # "failed" => sub[s].tries < MaxTries

TypeInv == TypeOK /\ row \in [Rows -> Shaped] /\ TriesOK

NewRow(role, s) == [FreeRow EXCEPT !.status = "queued", !.role = role, !.of = s]

(* What a change of the run table from t to u says of row q.               *)
Kept(t, u, q) ==
    u[q].status = t[q].status /\ u[q].role = t[q].role /\ u[q].of = t[q].of
Became(t, u, q, st) ==
    u[q].status = st /\ u[q].role = t[q].role /\ u[q].of = t[q].of
Added(t, u, role, s) ==
    /\ With(u, role, s) # {}
    /\ \E f \in Rows :
         /\ \A q \in Rows \ {f} : u[q] = t[q]
         /\ \/ u[f] = t[f]
            \/ t[f].status = "free" /\ With(t, role, s) = {} /\ u[f] = NewRow(role, s)

----------------------------------------------------------------------------
(* Rows and the operators on the run table.                                *)

LEMMA RowFields ==
    ASSUME NEW v \in Shaped
    PROVE  /\ v \in Row /\ v.status \in RowStatus /\ v.role \in Roles
           /\ v.of \in SubGoals \cup {NoSub} /\ v.attempt \in 1..MaxAttempts
           /\ v.due \in BOOLEAN
           /\ v.role = "owner" => v.of = NoSub
           /\ v.role # "owner" => v.of \in SubGoals
  BY DEF Shaped, Row, RowStatus, Roles

LEMMA FreeIsShaped == FreeRow \in Shaped /\ FreeRow.status = "free"
<1>1. 1 \in 1..MaxAttempts
  BY SubGoalAssumption
<1>2. QED
  BY <1>1 DEF FreeRow, Shaped, Row

LEMMA NewIsShaped ==
    ASSUME NEW role \in Roles, NEW s \in SubGoals \cup {NoSub}, role = "owner" <=> s = NoSub
    PROVE  /\ NewRow(role, s) \in Shaped
           /\ NewRow(role, s).status = "queued" /\ NewRow(role, s).due = TRUE
           /\ NewRow(role, s).role = role /\ NewRow(role, s).of = s
<1>1. 1 \in 1..MaxAttempts
  BY SubGoalAssumption
<1>2. QED
  BY <1>1 DEF NewRow, FreeRow, Shaped, Row, Pending, Roles

LEMMA StatusSet ==
    ASSUME NEW v \in Shaped, NEW st \in RowStatus
    PROVE  LET w == [v EXCEPT !.status = st]
           IN  /\ w \in Shaped /\ w.status = st /\ w.role = v.role /\ w.of = v.of
               /\ w.attempt = v.attempt /\ w.due = v.due
  BY DEF Shaped, Row, RowStatus

LEMMA DueSet ==
    ASSUME NEW v \in Shaped
    PROVE  LET w == [v EXCEPT !.due = TRUE]
           IN  /\ w \in Shaped /\ w.status = v.status /\ w.role = v.role /\ w.of = v.of
               /\ w.due = TRUE
  BY DEF Shaped, Row

LEMMA OneRowSet ==
    ASSUME NEW t \in [Rows -> Shaped], NEW r \in Rows, NEW v \in Shaped
    PROVE  /\ [t EXCEPT ![r] = v] \in [Rows -> Shaped]
           /\ [t EXCEPT ![r] = v][r] = v
           /\ \A q \in Rows \ {r} : [t EXCEPT ![r] = v][q] = t[q]
  OBVIOUS

LEMMA StampedRows ==
    ASSUME TypeInv, NEW r \in Rows
    PROVE  /\ Stamped(r) \in [Rows -> Shaped] /\ Stamped(r)[r] = FreeRow
           /\ \A q \in Rows \ {r} : Stamped(r)[q] = row[q]
           /\ \E q \in Rows : Stamped(r)[q].status = "free"
  BY OneRowSet, FreeIsShaped DEF Stamped, TypeInv

(* An insert adds one queued row, or finds a pending one.                  *)
LEMMA InsertNew ==
    ASSUME NEW t \in [Rows -> Shaped], NEW role \in Roles, NEW s \in SubGoals \cup {NoSub},
           role = "owner" <=> s = NoSub, \E r \in Rows : t[r].status = "free"
    PROVE  Insert(t, role, s) \in [Rows -> Shaped] /\ Added(t, Insert(t, role, s), role, s)
<1>1. CASE With(t, role, s) # {}
  <2>1. Insert(t, role, s) = t
    BY <1>1 DEF Insert
  <2>2. PICK f \in Rows : t[f].status = "free"
    OBVIOUS
  <2>3. Added(t, t, role, s)
    BY <1>1, <2>2 DEF Added
  <2>4. QED
    BY <2>1, <2>3
<1>2. CASE With(t, role, s) = {}
  <2>3. NewRow(role, s) \in Shaped
    BY NewIsShaped
  <2>7. /\ NewRow(role, s).status = "queued" /\ NewRow(role, s).role = role
        /\ NewRow(role, s).of = s
    BY DEF NewRow, FreeRow
  <2> DEFINE f == CHOOSE r \in Rows : t[r].status = "free"
             u == [t EXCEPT ![f] = NewRow(role, s)]
             v == NewRow(role, s)
  <2>1. f \in Rows /\ t[f].status = "free"
    OBVIOUS
  <2>2. Insert(t, role, s) = u
    BY <1>2 DEF Insert, NewRow
  <2> HIDE DEF f
  <2>4. u \in [Rows -> Shaped] /\ u[f] = v /\ \A q \in Rows \ {f} : u[q] = t[q]
    BY <2>1, <2>3, OneRowSet
  <2> HIDE DEF u
  <2>5. f \in With(u, role, s)
    BY <2>1, <2>7, <2>4 DEF With, Pending
  <2>6. QED
    BY <1>2, <2>1, <2>2, <2>4, <2>5 DEF Added, v
<1>3. QED
  BY <1>1, <1>2

(* A request for the owner changes no other run.                           *)
LEMMA OwnerAsked ==
    ASSUME TypeInv, EnqueueOwner
    PROVE  /\ row' \in [Rows -> Shaped] /\ With(row', "owner", NoSub) # {}
           /\ \A q \in Rows : \/ Kept(row, row', q)
                              \/ row[q].status = "free" /\ row'[q] = NewRow("owner", NoSub)
           /\ \/ UNCHANGED <<row, worked, revised, ahead, cut>>
              \/ /\ worked' = {} /\ revised' = {} /\ ahead' = FALSE /\ cut' \in {cut, FALSE}
                 /\ \E q \in Rows : row'[q].role = "owner" /\ row'[q].status = "queued"
<1> DEFINE pending == With(row, "owner", NoSub)
           bumped == {r \in pending : row[r].status = "queued"}
<1>0. row \in [Rows -> Shaped]
  BY DEF TypeInv
<1>1. CASE pending # {} /\ bumped = {}
  BY <1>0, <1>1 DEF EnqueueOwner, Kept
<1>2. CASE pending = {}
  <2>1. Free # {} /\ row' = Insert(row, "owner", NoSub) /\ cut' = FALSE
        /\ worked' = {} /\ revised' = {} /\ ahead' = FALSE
    BY <1>2 DEF EnqueueOwner
  <2>2. row' \in [Rows -> Shaped] /\ Added(row, row', "owner", NoSub)
    BY <1>0, <2>1, InsertNew DEF Free, Roles
  <2>3. NewRow("owner", NoSub).role = "owner" /\ NewRow("owner", NoSub).status = "queued"
    BY NewIsShaped DEF Roles
  <2>4. PICK f \in Rows : /\ row'[f] = NewRow("owner", NoSub) /\ row[f].status = "free"
                          /\ \A q \in Rows \ {f} : row'[q] = row[q]
    <3>1. With(row', "owner", NoSub) # With(row, "owner", NoSub)
      BY <1>2, <2>2 DEF Added
    <3>2. \A f \in Rows : (\A q \in Rows \ {f} : row'[q] = row[q]) /\ row'[f] = row[f]
             => row' = row
      BY <1>0, <2>2
    <3>3. QED
      BY <2>2, <3>1, <3>2 DEF Added
  <2>5. QED
    BY <2>1, <2>2, <2>3, <2>4 DEF Added, Kept
<1>3. CASE bumped # {}
  <2>1. /\ row' = [r \in Rows |-> IF r \in bumped THEN [row[r] EXCEPT !.due = TRUE] ELSE row[r]]
        /\ worked' = {} /\ revised' = {} /\ ahead' = FALSE /\ cut' = cut
    BY <1>3 DEF EnqueueOwner
  <2>2. row' \in [Rows -> Shaped] /\ \A q \in Rows : Kept(row, row', q)
    BY <1>0, <2>1, DueSet DEF Kept
  <2>3. PICK q \in Rows : row[q].role = "owner" /\ row[q].of = NoSub /\ row[q].status = "queued"
    BY <1>3 DEF With
  <2>4. row'[q].role = "owner" /\ row'[q].of = NoSub /\ row'[q].status = "queued"
    BY <2>2, <2>3 DEF Kept
  <2>5. q \in With(row', "owner", NoSub)
    BY <2>4 DEF With, Pending
  <2>6. QED
    BY <2>1, <2>2, <2>4, <2>5
<1>4. QED
  BY <1>1, <1>2, <1>3

----------------------------------------------------------------------------
(* Types.                                                                  *)

LEMMA RowAt ==
    ASSUME TypeInv, NEW r \in Rows
    PROVE  row[r] \in Shaped /\ row \in [Rows -> Shaped]
  BY DEF TypeInv

LEMMA SubFields ==
    ASSUME TypeInv, NEW s \in SubGoals
    PROVE  /\ sub[s] \in [status : SubStatus, tries : 0..MaxTries]
           /\ Status(s) \in SubStatus /\ sub[s].tries \in 0..MaxTries
  BY DEF TypeInv, TypeOK, Status

(* One sub-goal takes a new value, or a new status.                        *)
LEMMA SubSet ==
    ASSUME TypeInv, NEW s \in SubGoals, NEW v \in [status : SubStatus, tries : 0..MaxTries],
           v.status # "failed" => v.tries < MaxTries, sub' = [sub EXCEPT ![s] = v]
    PROVE  /\ sub' \in [SubGoals -> [status : SubStatus, tries : 0..MaxTries]] /\ TriesOK'
           /\ Status(s)' = v.status /\ \A o \in SubGoals \ {s} : Status(o)' = Status(o)
<1>1. /\ sub' \in [SubGoals -> [status : SubStatus, tries : 0..MaxTries]]
      /\ sub'[s] = v /\ \A o \in SubGoals \ {s} : sub'[o] = sub[o]
  BY DEF TypeInv, TypeOK
<1>2. QED
  BY <1>1 DEF TypeInv, TriesOK, Status

LEMMA SubStatusSet ==
    ASSUME TypeInv, NEW s \in SubGoals, NEW st \in SubStatus, Status(s) # "failed" \/ st = "failed",
           sub' = [sub EXCEPT ![s].status = st]
    PROVE  /\ sub' \in [SubGoals -> [status : SubStatus, tries : 0..MaxTries]] /\ TriesOK'
           /\ Status(s)' = st /\ \A o \in SubGoals \ {s} : Status(o)' = Status(o)
<1> DEFINE v == [sub[s] EXCEPT !.status = st]
<1>1. /\ v \in [status : SubStatus, tries : 0..MaxTries] /\ v.status = st
      /\ v.tries = sub[s].tries /\ sub' = [sub EXCEPT ![s] = v]
  BY SubFields
<1>2. v.status # "failed" => v.tries < MaxTries
  BY <1>1 DEF TypeInv, TriesOK
<1> HIDE DEF v
<1>3. QED
  BY <1>1, <1>2, SubSet

LEMMA SubsKept ==
    ASSUME TypeInv, UNCHANGED sub
    PROVE  /\ sub' \in [SubGoals -> [status : SubStatus, tries : 0..MaxTries]] /\ TriesOK'
           /\ \A o \in SubGoals : Status(o)' = Status(o)
  BY DEF TypeInv, TypeOK, TriesOK, Status

LEMMA MaterializeType ==
    ASSUME TypeInv, NEW s \in SubGoals, Materialize(s)
    PROVE  /\ change' \in [SubGoals -> ChangeStatus] /\ coded' \subseteq SubGoals
           /\ landed' \subseteq SubGoals /\ revised' \subseteq SubGoals
  BY DEF TypeInv, TypeOK, Materialize, ChangeStatus

LEMMA ClearedType ==
    ASSUME TypeInv
    PROVE  Cleared \in [SubGoals -> ChangeStatus]
  BY DEF TypeInv, TypeOK, Cleared, ChangeStatus

(* The end of a sub-goal run: what each outcome does to the two tables.    *)
LEMMA SubRunReconciled ==
    ASSUME TypeInv, NEW r \in Rows, ReconcileSubGoalRun(r)
    PROVE  \E s \in SubGoals :
               /\ s = row[r].of /\ row' \in [Rows -> Shaped]
               /\ sub' \in [SubGoals -> [status : SubStatus, tries : 0..MaxTries]] /\ TriesOK'
               /\ \A o \in SubGoals \ {s} : Status(o)' = Status(o)
               /\ \/ /\ row' = Stamped(r)
                     /\ \/ Status(s)' \in {"verified", "failed"}
                        \/ Status(s)' = Status(s) /\ Status(s) # "running"
                  \/ Added(Stamped(r), row', "verify", s) /\ Status(s)' = "verifying"
                  \/ Added(Stamped(r), row', "subgoal", s) /\ Status(s)' = Status(s)
<1>0. PICK s \in SubGoals : s = row[r].of /\ s # NoSub
  BY RowAt, RowFields, SubGoalAssumption DEF ReconcileSubGoalRun, Reconcilable
<1>1. s \in SubGoals /\ s # NoSub /\ s = row[r].of
  BY <1>0
<1>2. CASE ParkVerifying(r, s)
  <2>1. CASE Status(s) = "running"
    <3>1. /\ row' = Insert(Stamped(r), "verify", s) /\ sub' = [sub EXCEPT ![s].status = "verifying"]
      BY <1>2, <2>1 DEF ParkVerifying, EnqueueVerifyRun
    <3>2. row' \in [Rows -> Shaped] /\ Added(Stamped(r), row', "verify", s)
      BY <1>1, <3>1, StampedRows, InsertNew DEF Roles
    <3>3. QED
      BY <1>1, <2>1, <3>1, <3>2, SubStatusSet DEF SubStatus
  <2>2. CASE Status(s) # "running"
    BY <1>1, <1>2, <2>2, StampedRows, SubsKept DEF ParkVerifying
  <2>3. QED
    BY <2>1, <2>2
<1>3. CASE VerifyByMachine(r, s)
  <2>1. row' = Stamped(r) /\ Stamped(r) \in [Rows -> Shaped]
    BY <1>3, StampedRows DEF VerifyByMachine
  <2>2. CASE Status(s) = "running"
    BY <1>1, <1>3, <2>1, <2>2, SubStatusSet DEF VerifyByMachine, SubStatus
  <2>3. CASE Status(s) # "running"
    BY <1>1, <1>3, <2>1, <2>3, SubsKept DEF VerifyByMachine
  <2>4. QED
    BY <2>2, <2>3
<1>4. CASE RetryOrFail(r, s)
  <2> DEFINE tries  == IF Status(s) = "running" THEN sub[s].tries + 1 ELSE sub[s].tries
             failed == tries >= MaxTries /\ Status(s) = "running"
             v == [status |-> IF failed THEN "failed" ELSE Status(s), tries |-> tries]
  <2>1. tries \in 0..MaxTries /\ (~ failed /\ Status(s) # "failed" => tries < MaxTries)
    <3>1. sub[s].tries \in 0..MaxTries /\ MaxTries \in Nat
          /\ (Status(s) # "failed" => sub[s].tries < MaxTries)
      BY <1>1, SubFields, SubGoalAssumption DEF TypeInv, TriesOK
    <3>2. CASE Status(s) = "running"
      BY <3>1, <3>2
    <3>3. CASE Status(s) # "running"
      BY <3>1, <3>3
    <3>4. QED
      BY <3>2, <3>3
  <2>2. sub' = [sub EXCEPT ![s] = v]
    BY <1>1, <1>4 DEF RetryOrFail
  <2>3. v \in [status : SubStatus, tries : 0..MaxTries]
        /\ (v.status # "failed" => v.tries < MaxTries)
    BY <1>1, <2>1, SubFields DEF Status, SubStatus
  <2>4. row' = IF tries < MaxTries THEN EnqueueSubGoalRun(Stamped(r), s) ELSE Stamped(r)
    BY <1>4 DEF RetryOrFail
  <2>5. /\ tries < MaxTries => v.status = Status(s)
        /\ tries >= MaxTries => \/ v.status = "failed"
                                \/ v.status = Status(s) /\ Status(s) # "running"
    BY <2>1, SubGoalAssumption
  <2> HIDE DEF v, failed
  <2>6. /\ sub' \in [SubGoals -> [status : SubStatus, tries : 0..MaxTries]] /\ TriesOK'
        /\ Status(s)' = v.status /\ \A o \in SubGoals \ {s} : Status(o)' = Status(o)
    BY <1>1, <2>2, <2>3, SubSet
  <2> HIDE DEF tries
  <2>7. CASE tries < MaxTries
    <3>1. row' = Insert(Stamped(r), "subgoal", s)
      BY <2>4, <2>7 DEF EnqueueSubGoalRun
    <3>2. row' \in [Rows -> Shaped] /\ Added(Stamped(r), row', "subgoal", s)
      BY <1>1, <3>1, StampedRows, InsertNew DEF Roles
    <3>3. QED
      BY <1>1, <2>5, <2>6, <2>7, <3>2
  <2>8. CASE ~ (tries < MaxTries)
    <3>1. tries >= MaxTries /\ row' = Stamped(r)
      BY <2>1, <2>4, <2>8, SubGoalAssumption
    <3>2. QED
      BY <1>1, <2>5, <2>6, <3>1, StampedRows
  <2>9. QED
    BY <2>7, <2>8
<1>5. QED
  BY <1>1, <1>2, <1>3, <1>4 DEF ReconcileSubGoalRun

(* What the other actions do to the run table.                             *)
LEMMA RunClaimed ==
    ASSUME TypeInv, NEW r \in Rows, Claim(r)
    PROVE  /\ row' \in [Rows -> Shaped] /\ row[r].status = "queued"
           /\ Became(row, row', r, "running") /\ \A q \in Rows \ {r} : row'[q] = row[q]
<1>1. row[r].status = "queued" /\ row' = [row EXCEPT ![r] = [row[r] EXCEPT !.status = "running"]]
  BY DEF Claim
<1> DEFINE v == [row[r] EXCEPT !.status = "running"]
<1>2. v \in Shaped /\ v.status = "running" /\ v.role = row[r].role /\ v.of = row[r].of
  BY RowAt, StatusSet DEF RowStatus, Pending
<1> HIDE DEF v
<1>3. QED
  BY <1>1, <1>2, OneRowSet, RowAt DEF Became, v

LEMMA RunFinished ==
    ASSUME TypeInv, NEW r \in Rows, NEW how \in Ended, NEW c \in BOOLEAN, Finish(r, how, c)
    PROVE  /\ row' \in [Rows -> Shaped] /\ row[r].status = "running"
           /\ Became(row, row', r, how) /\ \A q \in Rows \ {r} : row'[q] = row[q]
<1>1. row[r].status = "running" /\ row' = [row EXCEPT ![r] = [row[r] EXCEPT !.status = how]]
  BY DEF Finish
<1> DEFINE v == [row[r] EXCEPT !.status = how]
<1>2. v \in Shaped /\ v.status = how /\ v.role = row[r].role /\ v.of = row[r].of
  BY RowAt, StatusSet DEF RowStatus
<1> HIDE DEF v
<1>3. QED
  BY <1>1, <1>2, OneRowSet, RowAt DEF Became, v

LEMMA OwnerRunReconciled ==
    ASSUME TypeInv, NEW r \in Rows, ReconcileOwnerRun(r)
    PROVE  /\ row' \in [Rows -> Shaped] /\ \A q \in Rows \ {r} : row'[q] = row[q]
           /\ \/ row'[r] = FreeRow /\ UNCHANGED <<worked, revised, ahead, cut>>
              \/ /\ Became(row, row', r, "queued") /\ ~ row'[r].due
                 /\ worked' = {} /\ revised' = {} /\ ahead' = TRUE /\ cut' = FALSE
<1>1. CASE row' = Stamped(r) /\ UNCHANGED <<worked, revised, ahead, cut>>
  BY <1>1, StampedRows
<1>2. CASE /\ row[r].attempt < MaxAttempts
           /\ row' = [row EXCEPT ![r] =
                        [status |-> "queued", role |-> "owner", of |-> NoSub,
                         attempt |-> row[r].attempt + 1, due |-> FALSE]]
           /\ worked' = {} /\ revised' = {} /\ ahead' = TRUE /\ cut' = FALSE
  <2>1. row[r].attempt + 1 \in 1..MaxAttempts /\ row[r].role = "owner" /\ row[r].of = NoSub
    <3>1. row[r].attempt \in 1..MaxAttempts /\ row[r].role = "owner" /\ row[r].of = NoSub
      BY RowAt, RowFields DEF ReconcileOwnerRun, Reconcilable
    <3>2. QED
      BY <1>2, <3>1, SubGoalAssumption
  <2> DEFINE k == row[r].attempt + 1
             v == [status |-> "queued", role |-> "owner", of |-> NoSub, attempt |-> k, due |-> FALSE]
  <2>2. v \in Shaped /\ v.status = "queued" /\ v.role = "owner" /\ v.of = NoSub /\ ~ v.due
    <3> HIDE DEF k
    <3>1. k \in 1..MaxAttempts
      BY <2>1 DEF k
    <3>2. QED
      BY <3>1 DEF Shaped, Row, Pending
  <2> HIDE DEF v
  <2>3. QED
    BY <1>2, <2>1, <2>2, OneRowSet, RowAt DEF Became, v
<1>3. QED
  BY <1>1, <1>2 DEF ReconcileOwnerRun, OwnerCompleted, OwnerFailed, OwnerCancelled

LEMMA RunsDropped ==
    ASSUME TypeInv, NEW s \in SubGoals, DropQueued(s)
    PROVE  /\ row' \in [Rows -> Shaped]
           /\ \A q \in Rows : \/ row'[q] = row[q]
                              \/ row[q].of = s /\ row[q].status = "queued" /\ row'[q] = FreeRow
  BY RowAt, FreeIsShaped DEF DropQueued

LEMMA RunsRecovered ==
    ASSUME TypeInv, Recover
    PROVE  /\ row' \in [Rows -> Shaped]
           /\ \A q \in Rows :
                \/ row'[q] = row[q] /\ row[q].status # "running"
                \/ row[q].status = "running" /\ goal \in {"done", "failed"} /\ row'[q] = FreeRow
                \/ row[q].status = "running" /\ Became(row, row', q, "queued")
<1>1. ASSUME NEW q \in Rows
      PROVE  /\ row'[q] \in Shaped
             /\ \/ row'[q] = row[q] /\ row[q].status # "running"
                \/ row[q].status = "running" /\ goal \in {"done", "failed"} /\ row'[q] = FreeRow
                \/ row[q].status = "running" /\ Became(row, row', q, "queued")
  <2>1. row'[q] = IF row[q].status # "running" THEN row[q]
                  ELSE IF goal \in {"done", "failed"} THEN FreeRow
                  ELSE [row[q] EXCEPT !.status = "queued"]
    BY DEF Recover
  <2>2. LET w == [row[q] EXCEPT !.status = "queued"]
        IN  w \in Shaped /\ w.status = "queued" /\ w.role = row[q].role /\ w.of = row[q].of
    BY RowAt, StatusSet DEF RowStatus, Pending
  <2>3. QED
    BY <2>1, <2>2, FreeIsShaped, RowAt DEF Became
<1>2. row' \in [Rows -> Shaped]
  BY <1>1 DEF Recover
<1>3. QED
  BY <1>1, <1>2

LEMMA RunsDue ==
    ASSUME TypeInv, BackoffOver
    PROVE  row' \in [Rows -> Shaped] /\ \A q \in Rows : Kept(row, row', q)
  BY RowAt, DueSet DEF BackoffOver, Kept

(* A request for a run of a sub-goal while there is a free row.            *)
LEMMA SubAsked ==
    ASSUME TypeInv, NEW s \in SubGoals, Free # {}, row' = EnqueueSubGoalRun(row, s)
    PROVE  row' \in [Rows -> Shaped] /\ Added(row, row', "subgoal", s)
<1>1. s # NoSub
  BY SubGoalAssumption
<1>2. QED
  BY <1>1, InsertNew, RowAt DEF EnqueueSubGoalRun, Free, Roles, TypeInv

(* The variables other than sub and row.                                   *)
RestOK ==
    /\ goal \in {"active", "review", "done", "failed"}
    /\ change \in [SubGoals -> ChangeStatus]
    /\ coded \subseteq SubGoals /\ landed \subseteq SubGoals
    /\ worked \subseteq SubGoals /\ revised \subseteq SubGoals
    /\ ahead \in BOOLEAN /\ cut \in BOOLEAN /\ hint \in BOOLEAN /\ creating \in BOOLEAN
    /\ merging \subseteq SubGoals /\ dropping \subseteq SubGoals
    /\ late \subseteq SubGoals /\ unseen \subseteq SubGoals
    /\ daemon \in {"up", "down", "replay"} /\ crashes \in 0..MaxCrashes
SubsOK == sub \in [SubGoals -> [status : SubStatus, tries : 0..MaxTries]] /\ TriesOK
RowsOK == row \in [Rows -> Shaped]

LEMMA TypeParts == TypeInv <=> RestOK /\ SubsOK /\ RowsOK
<1>1. Shaped \subseteq Row
  BY DEF Shaped
<1>2. QED
  BY <1>1 DEF TypeInv, TypeOK, RestOK, SubsOK, RowsOK

LEMMA TypeNext == RestOK' /\ SubsOK' /\ RowsOK' => TypeInv'
  BY DEF TypeInv, TypeOK, RestOK, SubsOK, RowsOK, Shaped

LEMMA RunStepType ==
    ASSUME TypeInv, NEW r \in Rows, RunStep(r)
    PROVE  TypeInv'
<1> USE DEF coordVars, handVars, procVars
<1>1. RestOK /\ (UNCHANGED sub => SubsOK') /\ (UNCHANGED row => RowsOK')
  BY TypeParts, SubsKept DEF SubsOK, RowsOK
<1>2. CASE Claim(r)
  BY <1>1, <1>2, RunClaimed, TypeNext DEF Claim, RestOK, RowsOK
<1>3. ASSUME NEW how \in Ended, NEW c \in BOOLEAN, Finish(r, how, c) PROVE TypeInv'
  <2>1. row[r].role = "subgoal" => row[r].of \in SubGoals
    BY RowAt, RowFields
  <2>2. RestOK'
    BY <1>1, <1>3, <2>1 DEF Finish, RestOK
  <2>3. QED
    BY <1>1, <1>3, <2>2, RunFinished, TypeNext DEF Finish, RowsOK
<1>4. CASE ReconcileSubGoalRun(r)
  <2>1. row[r].of \in SubGoals
    BY <1>4, SubRunReconciled
  <2>2. /\ change' \in [SubGoals -> ChangeStatus] /\ coded' \subseteq SubGoals
        /\ landed' \subseteq SubGoals /\ revised' \subseteq SubGoals /\ unseen' \subseteq SubGoals
    BY <1>1, <1>4, <2>1, MaterializeType
    DEF ReconcileSubGoalRun, ParkVerifying, VerifyByMachine, RetryOrFail, RestOK
  <2>3. RestOK'
    BY <1>1, <1>4, <2>2 DEF ReconcileSubGoalRun, RestOK
  <2>4. QED
    BY <1>4, <2>3, SubRunReconciled, TypeNext DEF SubsOK, RowsOK
<1>5. CASE ReconcileVerifyRun(r)
  BY <1>1, <1>5, StampedRows, TypeNext DEF ReconcileVerifyRun, RestOK, RowsOK
<1>6. CASE ReconcileOwnerRun(r)
  <2>1. RestOK'
    <3>1. goal' \in {"active", "review", "done", "failed"}
      BY <1>1, <1>6 DEF ReconcileOwnerRun, OwnerCompleted, OwnerFailed, OwnerCancelled, RestOK
    <3>2. worked' \subseteq SubGoals /\ revised' \subseteq SubGoals
          /\ ahead' \in BOOLEAN /\ cut' \in BOOLEAN
      BY <1>1, <1>6, OwnerRunReconciled DEF RestOK
    <3>3. QED
      BY <1>1, <1>6, <3>1, <3>2, ClearedType DEF ReconcileOwnerRun, RestOK
  <2>2. QED
    BY <1>1, <1>6, <2>1, OwnerRunReconciled, TypeNext DEF ReconcileOwnerRun, RowsOK
<1>7. CASE Pass(r)
  <2>1. PICK s \in SubGoals : /\ Status(s) = "verifying" /\ sub' = [sub EXCEPT ![s].status = "verified"]
                              /\ Materialize(s) /\ unseen' = unseen \cup {s}
    BY <1>7, RowAt, RowFields DEF Pass, RunningOf, With
  <2>2. SubsOK'
    BY <2>1, SubStatusSet DEF SubsOK, SubStatus
  <2>3. RestOK'
    <3>1. /\ change' \in [SubGoals -> ChangeStatus] /\ coded' \subseteq SubGoals
          /\ landed' \subseteq SubGoals /\ revised' \subseteq SubGoals
      BY <2>1, MaterializeType
    <3>2. QED
      BY <1>1, <1>7, <2>1, <3>1 DEF Pass, RestOK
  <2>4. QED
    BY <1>1, <1>7, <2>2, <2>3, TypeNext DEF Pass, RowsOK
<1>8. CASE Reject(r)
  <2>1. PICK s \in SubGoals : /\ Status(s) = "verifying" /\ sub' = [sub EXCEPT ![s].status = "running"]
                              /\ row' = EnqueueSubGoalRun(row, s) /\ coded' = coded \ {s}
    BY <1>8, RowAt, RowFields DEF Reject, RunningOf, With
  <2>2. SubsOK'
    BY <2>1, SubStatusSet DEF SubsOK, SubStatus
  <2>3. RowsOK'
    BY <1>8, <2>1, SubAsked DEF Reject, RowsOK
  <2>4. RestOK'
    BY <1>1, <1>8, <2>1 DEF Reject, RestOK
  <2>5. QED
    BY <2>2, <2>3, <2>4, TypeNext
<1>9. QED
  BY <1>2, <1>3, <1>4, <1>5, <1>6, <1>7, <1>8 DEF RunStep

LEMMA SubStepType ==
    ASSUME TypeInv, NEW s \in SubGoals, SubStep(s)
    PROVE  TypeInv'
<1> USE DEF coordVars, handVars, procVars
<1>1. RestOK /\ (UNCHANGED sub => SubsOK') /\ (UNCHANGED row => RowsOK')
  BY TypeParts, SubsKept DEF SubsOK, RowsOK
<1>2. CASE CreateSubGoal(s) \/ EndCreate(s)
  <2>1. SubsOK'
    BY <1>2, SubStatusSet DEF CreateSubGoal, EndCreate, Born, SubsOK, SubStatus
  <2>2. RowsOK'
    BY <1>2, SubAsked DEF CreateSubGoal, EndCreate, Born, RowsOK
  <2>3. RestOK'
    BY <1>1, <1>2 DEF CreateSubGoal, EndCreate, Born, RestOK
  <2>4. QED
    BY <2>1, <2>2, <2>3, TypeNext
<1>3. CASE RetrySubGoal(s)
  <2>1. SubsOK'
    <3> DEFINE v == [status |-> "running", tries |-> 0]
    <3>1. v \in [status : SubStatus, tries : 0..MaxTries] /\ v.tries < MaxTries
      BY SubGoalAssumption DEF SubStatus
    <3>2. QED
      BY <1>3, <3>1, SubSet DEF RetrySubGoal, SubsOK
  <2>2. RowsOK'
    BY <1>3, SubAsked DEF RetrySubGoal, RowsOK
  <2>3. RestOK'
    BY <1>1, <1>3 DEF RetrySubGoal, RestOK
  <2>4. QED
    BY <2>1, <2>2, <2>3, TypeNext
<1>4. CASE CancelSubGoal(s)
  <2>1. SubsOK'
    BY <1>4, SubStatusSet DEF CancelSubGoal, SubsOK, SubStatus
  <2>2. RestOK'
    BY <1>1, <1>4 DEF CancelSubGoal, RestOK
  <2>3. QED
    BY <1>1, <1>4, <2>1, <2>2, TypeNext DEF CancelSubGoal
<1>5. CASE DropQueued(s)
  BY <1>1, <1>5, RunsDropped, TypeNext DEF DropQueued, RestOK, RowsOK
<1>7. CASE MarkChangeIntegrating(s) \/ MarkChangeIntegrated(s) \/ MergeByHand(s)
  BY <1>1, <1>7, TypeNext
  DEF MarkChangeIntegrating, MarkChangeIntegrated, MergeByHand, RestOK, ChangeStatus
<1>8. CASE MarkChangeConflict(s)
  <2>1. SubsOK'
    <3>1. \/ UNCHANGED sub
          \/ Status(s) = "verified" /\ sub' = [sub EXCEPT ![s].status = "running"]
      BY <1>8, TypeParts DEF MarkChangeConflict, Status, SubsOK
    <3>2. QED
      BY <1>1, <3>1, SubStatusSet DEF SubsOK, SubStatus
  <2>2. RowsOK'
    BY <1>8, SubAsked DEF MarkChangeConflict, RowsOK
  <2>3. RestOK'
    BY <1>1, <1>8 DEF MarkChangeConflict, RestOK, ChangeStatus
  <2>4. QED
    BY <2>1, <2>2, <2>3, TypeNext
<1>9. QED
  BY <1>2, <1>3, <1>4, <1>5, <1>7, <1>8 DEF SubStep

LEMMA OwnerAskedType ==
    ASSUME TypeInv, EnqueueOwner
    PROVE  /\ RowsOK' /\ worked' \subseteq SubGoals /\ revised' \subseteq SubGoals
           /\ ahead' \in BOOLEAN /\ cut' \in BOOLEAN
<1>1. RestOK
  BY TypeParts
<1>2. QED
  BY <1>1, OwnerAsked DEF RowsOK, RestOK

LEMMA TypeStep == TypeInv /\ [Next]_vars => TypeInv'
<1> SUFFICES ASSUME TypeInv, [Next]_vars PROVE TypeInv'
  OBVIOUS
<1> USE DEF coordVars, handVars, procVars
<1>1. RestOK /\ (UNCHANGED sub => SubsOK') /\ (UNCHANGED row => RowsOK')
  BY TypeParts, SubsKept DEF SubsOK, RowsOK
<1>2. CASE BackoffOver
  BY <1>1, <1>2, RunsDue, TypeNext DEF BackoffOver, RestOK, RowsOK
<1>3. CASE WakeOwner
  BY <1>1, <1>3, OwnerAskedType, TypeNext DEF WakeOwner, RestOK
<1>4. CASE RejectReview
  BY <1>1, <1>4, OwnerAskedType, TypeNext DEF RejectReview, RestOK
<1>5. CASE ReconcileGoal
  <2>1. change' \in [SubGoals -> ChangeStatus] /\ landed' \subseteq SubGoals
    BY <1>1, <1>5, ClearedType DEF ReconcileGoal, RestOK
  <2>2. /\ RowsOK' /\ worked' \subseteq SubGoals /\ revised' \subseteq SubGoals
        /\ ahead' \in BOOLEAN /\ cut' \in BOOLEAN
    BY <1>1, <1>5, OwnerAskedType DEF ReconcileGoal, RestOK
  <2>3. QED
    BY <1>1, <1>5, <2>1, <2>2, TypeNext DEF ReconcileGoal, RestOK
<1>6. CASE Recover
  BY <1>1, <1>6, RunsRecovered, TypeNext DEF Recover, RestOK, RowsOK
<1>7. CASE Crash
  <2>1. crashes' \in 0..MaxCrashes
    BY <1>1, <1>7, SubGoalAssumption DEF Crash, RestOK
  <2>2. QED
    BY <1>1, <1>7, <2>1, TypeNext DEF Crash, RestOK
<1>8. CASE BeginCreate \/ Approve \/ ReconcileAllActive \/ UNCHANGED vars
  BY <1>1, <1>8, TypeNext DEF BeginCreate, Approve, ReconcileAllActive, vars, RestOK
<1>9. QED
  BY <1>2, <1>3, <1>4, <1>5, <1>6, <1>7, <1>8, RunStepType, SubStepType DEF Next

LEMMA InitType == Init => TypeInv
<1> SUFFICES ASSUME Init PROVE TypeInv
  OBVIOUS
<1>1. SubsOK
  BY SubGoalAssumption DEF Init, SubsOK, TriesOK, Status, SubStatus
<1>2. RowsOK
  <2>1. LET w == [FreeRow EXCEPT !.status = "queued"] IN w \in Shaped
    BY FreeIsShaped, StatusSet DEF RowStatus, Pending
  <2> DEFINE w == [FreeRow EXCEPT !.status = "queued"]
  <2>2. PICK o \in Rows : row = [r \in Rows |-> IF r = o THEN w ELSE FreeRow]
    BY DEF Init
  <2> HIDE DEF w
  <2>3. QED
    BY <2>1, <2>2, FreeIsShaped DEF RowsOK, w
<1>3. RestOK
  <2>1. 0 \in 0..MaxCrashes
    BY SubGoalAssumption
  <2>2. change \in [SubGoals -> ChangeStatus]
    BY DEF Init, ChangeStatus
  <2>3. QED
    BY <2>1, <2>2 DEF Init, RestOK
<1>4. QED
  BY <1>1, <1>2, <1>3, TypeParts

(* An owner run names no sub-goal and every other run names one; the tries *)
(* of a sub-goal never pass their limit, nor the attempts of an owner run. *)
THEOREM TypeCorrect == Spec => []TypeOK
<1>1. TypeInv => TypeOK
  BY DEF TypeInv
<1>2. QED
  BY <1>1, InitType, TypeStep, PTL DEF Spec

----------------------------------------------------------------------------
(* The steps, by what they do to the run table.                            *)

KeepsRows ==
    \/ BackoffOver \/ BeginCreate \/ Approve \/ Crash \/ ReconcileAllActive \/ UNCHANGED vars
    \/ \E r \in Rows : Pass(r)
    \/ \E s \in SubGoals : \/ CancelSubGoal(s) \/ MarkChangeIntegrating(s)
                           \/ MarkChangeIntegrated(s) \/ MergeByHand(s)
AsksOwner == WakeOwner \/ RejectReview \/ ReconcileGoal
AsksSub(s) ==
    \/ CreateSubGoal(s) \/ EndCreate(s) \/ RetrySubGoal(s) \/ MarkChangeConflict(s)
    \/ \E r \in Rows : row[r].of = s /\ Reject(r)
Reconciles(r) == ReconcileSubGoalRun(r) \/ ReconcileVerifyRun(r) \/ ReconcileOwnerRun(r)

LEMMA StepKinds ==
    ASSUME TypeInv, [Next]_vars
    PROVE  \/ KeepsRows \/ AsksOwner \/ Recover
           \/ \E s \in SubGoals : AsksSub(s) \/ DropQueued(s)
           \/ \E r \in Rows : Claim(r) \/ Reconciles(r)
           \/ \E r \in Rows, how \in Ended, c \in BOOLEAN : Finish(r, how, c)
<1>1. ASSUME NEW r \in Rows, Reject(r) PROVE \E s \in SubGoals : AsksSub(s)
  BY <1>1, RowAt, RowFields DEF Reject, RunningOf, With, AsksSub
<1>2. ASSUME NEW r \in Rows, RunStep(r)
      PROVE  \/ \E s \in SubGoals : AsksSub(s)
             \/ Pass(r) \/ Claim(r) \/ Reconciles(r)
             \/ \E how \in Ended, c \in BOOLEAN : Finish(r, how, c)
  BY <1>1, <1>2 DEF RunStep, Reconciles
<1>3. QED
  BY <1>2 DEF Next, SubStep, KeepsRows, AsksOwner, AsksSub

LEMMA RowsKept ==
    ASSUME TypeInv, KeepsRows
    PROVE  \A q \in Rows : Kept(row, row', q)
<1>1. CASE BackoffOver
  BY <1>1, RunsDue
<1>2. CASE ~ BackoffOver
  BY <1>2 DEF KeepsRows, BeginCreate, Approve, Crash, ReconcileAllActive, vars, Pass,
              CancelSubGoal, MarkChangeIntegrating, MarkChangeIntegrated, MergeByHand, Kept
<1>3. QED
  BY <1>1, <1>2

LEMMA RowsOfOwnerAsked ==
    ASSUME TypeInv, AsksOwner
    PROVE  \A q \in Rows :
              \/ Kept(row, row', q)
              \/ /\ row[q].status = "free" /\ row'[q].status = "queued"
                 /\ row'[q].role = "owner" /\ row'[q].of = NoSub
<1>1. EnqueueOwner \/ UNCHANGED row
  BY DEF AsksOwner, WakeOwner, RejectReview, ReconcileGoal
<1>2. /\ NewRow("owner", NoSub).status = "queued" /\ NewRow("owner", NoSub).role = "owner"
      /\ NewRow("owner", NoSub).of = NoSub
  BY NewIsShaped DEF Roles
<1>3. CASE EnqueueOwner
  BY <1>2, <1>3, OwnerAsked
<1>4. CASE UNCHANGED row
  BY <1>4 DEF Kept
<1>5. QED
  BY <1>1, <1>3, <1>4

LEMMA RowsOfSubAsked ==
    ASSUME TypeInv, NEW s \in SubGoals, AsksSub(s)
    PROVE  row' \in [Rows -> Shaped] /\ Added(row, row', "subgoal", s)
<1>1. Free # {} /\ row' = EnqueueSubGoalRun(row, s)
  BY DEF AsksSub, CreateSubGoal, EndCreate, Born, RetrySubGoal, MarkChangeConflict, Reject
<1>2. QED
  BY <1>1, SubAsked

(* What an insert did, row by row.                                         *)
LEMMA AddedRows ==
    ASSUME NEW t \in [Rows -> Shaped], NEW u \in [Rows -> Shaped], NEW role \in Roles,
           NEW s \in SubGoals \cup {NoSub}, role = "owner" <=> s = NoSub, Added(t, u, role, s)
    PROVE  /\ \A q \in Rows : t[q].status # "free" => u[q] = t[q]
           /\ \A q \in Rows : \/ u[q] = t[q]
                              \/ /\ t[q].status = "free" /\ u[q].status = "queued"
                                 /\ u[q].role = role /\ u[q].of = s /\ With(t, role, s) = {}
           /\ \A p, q \in Rows : u[p] # t[p] /\ u[q] # t[q] => p = q
           /\ \E q \in Rows : u[q].role = role /\ u[q].of = s /\ u[q].status \in Pending
<1>1. PICK f \in Rows :
         /\ \A q \in Rows \ {f} : u[q] = t[q]
         /\ \/ u[f] = t[f]
            \/ t[f].status = "free" /\ With(t, role, s) = {} /\ u[f] = NewRow(role, s)
  BY DEF Added
<1>2. \E q \in Rows : u[q].role = role /\ u[q].of = s /\ u[q].status \in Pending
  BY DEF Added, With
<1>3. /\ NewRow(role, s).status = "queued" /\ NewRow(role, s).role = role
      /\ NewRow(role, s).of = s
  BY NewIsShaped
<1>4. QED
  BY <1>1, <1>2, <1>3

(* The run of a sub-goal or of its verifier, with or without a new row.    *)
LEMMA ReconciledRows ==
    ASSUME TypeInv, NEW r \in Rows, Reconciles(r)
    PROVE  /\ row[r].status \in Ended
           /\ row' \in [Rows -> Shaped]
           /\ \A q \in Rows \ {r} :
                \/ row'[q] = row[q]
                \/ row[q].status = "free" /\ row'[q].status = "queued" /\ row'[q].of = row[r].of
           /\ row'[r] = FreeRow \/ row'[r].status = "queued"
<1>1. row[r].status \in Ended
  BY DEF Reconciles, ReconcileSubGoalRun, ReconcileVerifyRun, ReconcileOwnerRun, Reconcilable
<1>2. CASE ReconcileSubGoalRun(r)
  <2>1. PICK s \in SubGoals :
           /\ s = row[r].of /\ row' \in [Rows -> Shaped]
           /\ \/ row' = Stamped(r)
              \/ \E role \in {"verify", "subgoal"} : Added(Stamped(r), row', role, s)
    BY <1>2, SubRunReconciled
  <2>2. s # NoSub
    BY SubGoalAssumption
  <2>3. \A q \in Rows : \/ row'[q] = Stamped(r)[q]
                        \/ /\ Stamped(r)[q].status = "free" /\ row'[q].status = "queued"
                           /\ row'[q].of = s
    <3>1. Stamped(r) \in [Rows -> Shaped]
      BY StampedRows
    <3>2. ASSUME NEW role \in {"verify", "subgoal"}, Added(Stamped(r), row', role, s)
          PROVE  \A q \in Rows : \/ row'[q] = Stamped(r)[q]
                                \/ /\ Stamped(r)[q].status = "free" /\ row'[q].status = "queued"
                                   /\ row'[q].of = s
      BY <2>1, <2>2, <3>1, <3>2, AddedRows DEF Roles
    <3>3. QED
      BY <2>1, <3>2
  <2>4. QED
    BY <1>1, <2>1, <2>3, StampedRows, FreeIsShaped
<1>3. CASE ReconcileVerifyRun(r)
  BY <1>1, <1>3, StampedRows DEF ReconcileVerifyRun
<1>4. CASE ReconcileOwnerRun(r)
  BY <1>1, <1>4, OwnerRunReconciled DEF Became
<1>5. QED
  BY <1>2, <1>3, <1>4 DEF Reconciles

----------------------------------------------------------------------------
(* The verifier judges a stable state.                                     *)

RunDistinct == \A p, q \in Rows :
    row[p].status = "running" /\ row[q].status = "running" /\ row[p].of = row[q].of => p = q

(* Only a claim starts a run.                                              *)
LEMMA OnlyClaimsStart ==
    ASSUME TypeInv, [Next]_vars
    PROVE  \/ \E r \in Rows : Claim(r)
           \/ \A q \in Rows : row'[q].status = "running" =>
                row[q].status = "running" /\ row'[q].of = row[q].of /\ row'[q].role = row[q].role
<1>0. \A q \in Rows : row[q].status \in RowStatus
  BY RowAt, RowFields
<1> USE DEF Ended, RowStatus
<1>1. CASE KeepsRows
  BY <1>1, RowsKept DEF Kept
<1>2. CASE AsksOwner
  BY <1>2, RowsOfOwnerAsked DEF Kept
<1>3. CASE Recover
  BY <1>3, RunsRecovered, FreeIsShaped DEF Became
<1>4. ASSUME NEW s \in SubGoals, AsksSub(s)
      PROVE  \A q \in Rows : row'[q].status = "running" =>
                row[q].status = "running" /\ row'[q].of = row[q].of /\ row'[q].role = row[q].role
  <2>1. s # NoSub
    BY SubGoalAssumption
  <2>2. QED
    BY <1>4, <2>1, RowsOfSubAsked, AddedRows, RowAt DEF Roles, TypeInv
<1>5. ASSUME NEW s \in SubGoals, DropQueued(s)
      PROVE  \A q \in Rows : row'[q].status = "running" =>
                row[q].status = "running" /\ row'[q].of = row[q].of /\ row'[q].role = row[q].role
  BY <1>5, RunsDropped, FreeIsShaped DEF Became
<1>6. ASSUME NEW r \in Rows, Reconciles(r)
      PROVE  \A q \in Rows : row'[q].status = "running" =>
                row[q].status = "running" /\ row'[q].of = row[q].of /\ row'[q].role = row[q].role
  BY <1>6, ReconciledRows, FreeIsShaped
<1>7. ASSUME NEW r \in Rows, NEW how \in Ended, NEW c \in BOOLEAN, Finish(r, how, c)
      PROVE  \A q \in Rows : row'[q].status = "running" =>
                row[q].status = "running" /\ row'[q].of = row[q].of /\ row'[q].role = row[q].role
  BY <1>7, RunFinished DEF Became
<1>8. QED
  BY <1>1, <1>2, <1>3, <1>4, <1>5, <1>6, <1>7, StepKinds

LEMMA RunDistinctStep == TypeInv /\ RunDistinct /\ [Next]_vars => RunDistinct'
<1> SUFFICES ASSUME TypeInv, RunDistinct, [Next]_vars PROVE RunDistinct'
  OBVIOUS
<1>1. ASSUME NEW r \in Rows, Claim(r) PROVE RunDistinct'
  <2>1. \A q \in Rows : row[q].status = "running" => row[q].of # row[r].of
    BY <1>1 DEF Claim
  <2>2. QED
    BY <1>1, <2>1, RunClaimed DEF RunDistinct, Became
<1>2. QED
  BY <1>1, OnlyClaimsStart DEF RunDistinct

(* While a verify run of a sub-goal is running no run of its assignee is:  *)
(* Claim serialises the runs of a sub-goal whatever role they have, and    *)
(* nothing but a claim starts a run, a restart of the daemon included.     *)
THEOREM VerdictOnStableState == Spec => []JudgedStable
<1>1. Init => RunDistinct
  <2> SUFFICES ASSUME Init PROVE RunDistinct
    OBVIOUS
  <2>1. \A r \in Rows : row[r].status # "running"
    BY DEF Init, FreeRow
  <2>2. QED
    BY <2>1 DEF RunDistinct
<1>2. RunDistinct => JudgedStable
  BY DEF RunDistinct, JudgedStable, RunningOf, With
<1>3. QED
  BY <1>1, <1>2, InitType, TypeStep, RunDistinctStep, PTL DEF Spec

----------------------------------------------------------------------------
(* The status of a sub-goal, its run and its change.                       *)

(* Row q of table t is a run of the assignee of s, reconciled or not.      *)
IsSub(t, q, s) == t[q].status # "free" /\ t[q].role = "subgoal" /\ t[q].of = s

OneSub == \A p, q \in Rows, s \in SubGoals : IsSub(row, p, s) /\ IsSub(row, q, s) => p = q
IdleSub == \A q \in Rows, s \in SubGoals :
    IsSub(row, q, s) => Status(s) \in {"running", "cancelled"}
CancelOK == \A s \in dropping : Status(s) = "cancelled"
VerifyOK == \A s \in SubGoals : Status(s) = "verifying" => s \in Verified
ChangeOK == \A s \in SubGoals :
    /\ change[s] \in {"ready", "integrating"} => Status(s) = "verified"
    /\ s \in merging => change[s] = "integrating"

TableInv == OneSub /\ IdleSub
StateInv == CancelOK /\ VerifyOK /\ ChangeOK

LEMMA MaterializedChange ==
    ASSUME TypeInv, NEW s \in SubGoals, Materialize(s)
    PROVE  /\ \A o \in SubGoals \ {s} : change'[o] = change[o]
           /\ change'[s] \in {change[s], "ready"}
  BY DEF Materialize, TypeInv, TypeOK

LEMMA ClearedChange ==
    \A o \in SubGoals : \/ Cleared[o] = change[o]
                        \/ change[o] = "conflict" /\ Cleared[o] = "integrated"
  BY DEF Cleared

(* Whoever gets a new run of its assignee had none, and now waits for it.  *)
LEMMA SubAskedStatus ==
    ASSUME TypeInv, StateInv, NEW s \in SubGoals, AsksSub(s)
    PROVE  /\ Status(s) \in {"none", "failed", "verifying", "verified"}
           /\ Status(s) = "verified" => MarkChangeConflict(s)
           /\ Status(s)' = "running" /\ \A o \in SubGoals \ {s} : Status(o)' = Status(o)
<1>1. CASE CreateSubGoal(s) \/ EndCreate(s)
  BY <1>1, SubStatusSet DEF CreateSubGoal, EndCreate, Born, SubStatus
<1>2. CASE RetrySubGoal(s)
  <2> DEFINE v == [status |-> "running", tries |-> 0]
  <2>1. v \in [status : SubStatus, tries : 0..MaxTries] /\ v.tries < MaxTries
    BY SubGoalAssumption DEF SubStatus
  <2>2. QED
    BY <1>2, <2>1, SubSet DEF RetrySubGoal
<1>3. CASE MarkChangeConflict(s)
  <2>1. Status(s) = "verified"
    BY <1>3 DEF MarkChangeConflict, StateInv, ChangeOK
  <2>2. sub' = [sub EXCEPT ![s].status = "running"]
    BY <1>3, <2>1 DEF MarkChangeConflict, Status
  <2>3. QED
    BY <1>3, <2>1, <2>2, SubStatusSet DEF SubStatus
<1>4. CASE \E r \in Rows : row[r].of = s /\ Reject(r)
  <2>1. Status(s) = "verifying" /\ sub' = [sub EXCEPT ![s].status = "running"]
    BY <1>4 DEF Reject
  <2>2. QED
    BY <2>1, SubStatusSet DEF SubStatus
<1>5. QED
  BY <1>1, <1>2, <1>3, <1>4 DEF AsksSub

LEMMA PassedStatus ==
    ASSUME TypeInv, NEW r \in Rows, Pass(r)
    PROVE  \E s \in SubGoals :
              /\ s = row[r].of /\ Status(s) = "verifying" /\ Status(s)' = "verified"
              /\ \A o \in SubGoals \ {s} : Status(o)' = Status(o)
              /\ Materialize(s) /\ unseen' = unseen \cup {s}
<1>1. PICK s \in SubGoals :
         /\ s = row[r].of /\ Status(s) = "verifying" /\ sub' = [sub EXCEPT ![s].status = "verified"]
         /\ Materialize(s) /\ unseen' = unseen \cup {s}
  BY RowAt, RowFields DEF Pass, RunningOf, With
<1>2. QED
  BY <1>1, SubStatusSet DEF SubStatus

(* A completed or failed run of the assignee moves its own sub-goal only.  *)
LEMMA ReconciledStatus ==
    ASSUME TypeInv, NEW r \in Rows, ReconcileSubGoalRun(r)
    PROVE  \E s \in SubGoals :
              /\ s = row[r].of /\ \A o \in SubGoals \ {s} : Status(o)' = Status(o)
              /\ \/ Status(s)' = Status(s) /\ UNCHANGED <<change, coded, landed, revised, unseen>>
                 \/ /\ Status(s) = "running" /\ Status(s)' = "verifying" /\ s \in Verified
                    /\ UNCHANGED <<change, coded, landed, revised, unseen>>
                 \/ /\ Status(s) = "running" /\ Status(s)' = "verified" /\ s \notin Verified
                    /\ Materialize(s) /\ unseen' = unseen \cup {s}
                 \/ /\ Status(s) = "running" /\ Status(s)' = "failed"
                    /\ UNCHANGED <<change, coded, landed, revised>> /\ unseen' = unseen \cup {s}
<1>1. PICK s \in SubGoals : s = row[r].of /\ \A o \in SubGoals \ {s} : Status(o)' = Status(o)
  BY SubRunReconciled
<1>2. CASE ParkVerifying(r, s)
  <2>1. Status(s) = "running" => Status(s)' = "verifying"
    BY <1>2, SubStatusSet DEF ParkVerifying, SubStatus
  <2>2. Status(s) # "running" => Status(s)' = Status(s)
    BY <1>2 DEF ParkVerifying, Status
  <2>3. QED
    BY <1>1, <1>2, <2>1, <2>2 DEF ParkVerifying
<1>3. CASE VerifyByMachine(r, s)
  <2>1. Status(s) = "running" => Status(s)' = "verified"
    BY <1>3, SubStatusSet DEF VerifyByMachine, SubStatus
  <2>2. Status(s) # "running" => Status(s)' = Status(s)
    BY <1>3 DEF VerifyByMachine, Status
  <2>3. QED
    BY <1>1, <1>3, <2>1, <2>2 DEF VerifyByMachine
<1>4. CASE RetryOrFail(r, s)
  <2> DEFINE tries  == IF Status(s) = "running" THEN sub[s].tries + 1 ELSE sub[s].tries
             failed == tries >= MaxTries /\ Status(s) = "running"
  <2>1. /\ sub' = [sub EXCEPT ![s] = [status |-> IF failed THEN "failed" ELSE Status(s),
                                      tries |-> tries]]
        /\ unseen' = (IF failed THEN unseen \cup {s} ELSE unseen)
        /\ UNCHANGED <<change, coded, landed, revised>>
    BY <1>4 DEF RetryOrFail
  <2> HIDE DEF tries
  <2>2. Status(s)' = IF failed THEN "failed" ELSE Status(s)
    BY <2>1 DEF Status, TypeInv, TypeOK
  <2>3. QED
    BY <1>1, <2>1, <2>2
<1>5. QED
  BY <1>1, <1>2, <1>3, <1>4 DEF ReconcileSubGoalRun

LEMMA StateStep ==
    ASSUME TypeInv, StateInv, [Next]_vars
    PROVE  StateInv'
<1> USE DEF coordVars, handVars, procVars
<1>1. (UNCHANGED <<sub, change, merging>> => VerifyOK' /\ ChangeOK')
  BY SubsKept DEF StateInv, VerifyOK, ChangeOK
<1>2. (UNCHANGED <<sub, dropping>> => CancelOK')
  BY SubsKept DEF StateInv, CancelOK, TypeInv, TypeOK
<1>3. ASSUME NEW s \in SubGoals, CancelSubGoal(s) PROVE StateInv'
  <2>1. /\ Status(s) \in {"running", "verifying"} /\ Status(s)' = "cancelled"
        /\ \A o \in SubGoals \ {s} : Status(o)' = Status(o)
    BY <1>3, SubStatusSet DEF CancelSubGoal, SubStatus
  <2>2. QED
    BY <1>3, <2>1 DEF CancelSubGoal, StateInv, CancelOK, VerifyOK, ChangeOK, TypeInv, TypeOK
<1>4. ASSUME NEW s \in SubGoals, MarkChangeIntegrating(s) \/ MarkChangeIntegrated(s) PROVE StateInv'
  <2>1. \A o \in SubGoals : Status(o)' = Status(o)
    BY <1>4 DEF MarkChangeIntegrating, MarkChangeIntegrated, Status
  <2>2. QED
    BY <1>2, <1>4, <2>1
    DEF MarkChangeIntegrating, MarkChangeIntegrated, StateInv, VerifyOK, ChangeOK, TypeInv, TypeOK
<1>5. ASSUME NEW s \in SubGoals, AsksSub(s) PROVE StateInv'
  <2>1. /\ \A o \in SubGoals \ {s} : change'[o] = change[o] /\ (o \in merging' => o \in merging)
        /\ change'[s] \in {change[s], "conflict"} /\ (s \in merging' => s \in merging)
        /\ UNCHANGED dropping
        /\ MarkChangeConflict(s) => change'[s] = "conflict" /\ s \notin merging'
        /\ ~ MarkChangeConflict(s) => UNCHANGED <<change, merging>>
    <3>1. CASE MarkChangeConflict(s)
      BY <3>1 DEF MarkChangeConflict, StateInv, ChangeOK, TypeInv, TypeOK
    <3>2. CASE ~ MarkChangeConflict(s)
      BY <1>5, <3>2 DEF AsksSub, CreateSubGoal, EndCreate, Born, RetrySubGoal, Reject
    <3>3. QED
      BY <3>1, <3>2
  <2>2. QED
    <3>1. /\ Status(s) \in {"none", "failed", "verifying", "verified"}
          /\ Status(s) = "verified" => MarkChangeConflict(s)
          /\ Status(s)' = "running" /\ \A o \in SubGoals \ {s} : Status(o)' = Status(o)
      BY <1>5, SubAskedStatus
    <3>2. CancelOK'
      BY <2>1, <3>1 DEF StateInv, CancelOK, TypeInv, TypeOK
    <3>3. VerifyOK'
      BY <3>1 DEF StateInv, VerifyOK
    <3>4. ChangeOK'
      BY <2>1, <3>1 DEF StateInv, ChangeOK
    <3>5. QED
      BY <3>2, <3>3, <3>4 DEF StateInv
<1>6. ASSUME NEW s \in SubGoals, DropQueued(s) PROVE StateInv'
  <2>1. CancelOK'
    BY <1>6 DEF DropQueued, StateInv, CancelOK, Status
  <2>2. QED
    BY <1>1, <1>6, <2>1 DEF DropQueued, StateInv
<1>7. ASSUME NEW r \in Rows, Pass(r) PROVE StateInv'
  <2>1. UNCHANGED <<merging, dropping>>
    BY <1>7 DEF Pass
  <2>2. QED
    BY <1>7, <2>1, PassedStatus, MaterializedChange
    DEF StateInv, CancelOK, VerifyOK, ChangeOK, TypeInv, TypeOK
<1>8. ASSUME NEW r \in Rows, ReconcileSubGoalRun(r) PROVE StateInv'
  <2>1. UNCHANGED <<merging, dropping>>
    BY <1>8 DEF ReconcileSubGoalRun
  <2>2. QED
    BY <1>8, <2>1, ReconciledStatus, MaterializedChange
    DEF StateInv, CancelOK, VerifyOK, ChangeOK, TypeInv, TypeOK
<1>9. ASSUME NEW r \in Rows, ReconcileOwnerRun(r) PROVE StateInv'
  BY <1>2, <1>9, SubsKept, ClearedChange
  DEF ReconcileOwnerRun, StateInv, VerifyOK, ChangeOK
<1>10. CASE ReconcileGoal
  BY <1>1, <1>2, <1>10, SubsKept, ClearedChange DEF ReconcileGoal, StateInv, VerifyOK, ChangeOK
<1>11. ASSUME NEW r \in Rows, NEW how \in Ended, NEW c \in BOOLEAN, Finish(r, how, c)
       PROVE  StateInv'
  BY <1>2, <1>11, SubsKept DEF Finish, StateInv, VerifyOK, ChangeOK
<1>12. CASE Crash
  BY <1>12, SubsKept DEF Crash, StateInv, CancelOK, VerifyOK, ChangeOK
<1>13. ASSUME NEW r \in Rows, Claim(r) \/ ReconcileVerifyRun(r) PROVE StateInv'
  BY <1>1, <1>2, <1>13 DEF Claim, ReconcileVerifyRun, StateInv
<1>14. CASE \/ BackoffOver \/ BeginCreate \/ Approve \/ ReconcileAllActive \/ UNCHANGED vars
            \/ WakeOwner \/ RejectReview \/ Recover \/ \E s \in SubGoals : MergeByHand(s)
  BY <1>1, <1>2, <1>14
  DEF BackoffOver, BeginCreate, Approve, ReconcileAllActive, vars, WakeOwner, RejectReview,
      Recover, MergeByHand, StateInv
<1>15. QED
  BY <1>3, <1>4, <1>5, <1>6, <1>7, <1>8, <1>9, <1>10, <1>11, <1>12, <1>13, <1>14, StepKinds
  DEF KeepsRows, AsksOwner, Reconciles

(* No step but a request adds a run of an assignee.                        *)
LEMMA SubsShrink ==
    ASSUME TypeInv, TableInv,
           \A q \in Rows, s \in SubGoals : IsSub(row', q, s) => IsSub(row, q, s),
           \A s \in SubGoals : \/ Status(s)' = Status(s) \/ Status(s)' \in {"running", "cancelled"}
                               \/ \A q \in Rows : ~ IsSub(row', q, s)
    PROVE  TableInv'
<1>1. OneSub'
  BY DEF TableInv, OneSub, IsSub
<1>2. IdleSub'
  BY DEF TableInv, IdleSub, IsSub
<1>3. QED
  BY <1>1, <1>2 DEF TableInv

LEMMA CancelledStatus ==
    ASSUME TypeInv, NEW s \in SubGoals, CancelSubGoal(s)
    PROVE  /\ Status(s) \in {"running", "verifying"} /\ Status(s)' = "cancelled"
           /\ \A o \in SubGoals \ {s} : Status(o)' = Status(o)
  BY SubStatusSet DEF CancelSubGoal, SubStatus

(* The rows after a reconciled run of the assignee of s: no run of s, or   *)
(* the one that was asked for.                                             *)
LEMMA ReconciledSubs ==
    ASSUME TypeInv, TableInv, NEW r \in Rows, ReconcileSubGoalRun(r)
    PROVE  /\ TableInv'
           /\ \E s \in SubGoals :
                /\ s = row[r].of /\ \A o \in SubGoals \ {s} : Status(o)' = Status(o)
                /\ Status(s)' = "running" => \E q \in Rows : IsSub(row', q, s)
                /\ Status(s)' = "verifying" => With(row', "verify", s) # {}
           /\ \A q \in Rows : row[q].status \notin {"free"} \cup Ended => row'[q] = row[q]
           /\ \A q \in Rows, s \in SubGoals : s # row[r].of /\ IsSub(row, q, s) => IsSub(row', q, s)
<1>1. PICK s \in SubGoals :
         /\ s = row[r].of /\ row' \in [Rows -> Shaped]
         /\ \A o \in SubGoals \ {s} : Status(o)' = Status(o)
         /\ \/ /\ row' = Stamped(r)
               /\ \/ Status(s)' \in {"verified", "failed"}
                  \/ Status(s)' = Status(s) /\ Status(s) # "running"
            \/ Added(Stamped(r), row', "verify", s) /\ Status(s)' = "verifying"
            \/ Added(Stamped(r), row', "subgoal", s) /\ Status(s)' = Status(s)
  BY SubRunReconciled
<1> DEFINE t == Stamped(r)
<1>2. /\ t \in [Rows -> Shaped] /\ t[r].status = "free" /\ \A q \in Rows \ {r} : t[q] = row[q]
      /\ s # NoSub /\ IsSub(row, r, s) /\ row[r].status \in Ended
  BY <1>1, StampedRows, FreeIsShaped, SubGoalAssumption
  DEF ReconcileSubGoalRun, Reconcilable, IsSub, Ended
<1>3. Status(s) \in {"running", "cancelled"} /\ \A q \in Rows : ~ IsSub(t, q, s)
  BY <1>2 DEF TableInv, OneSub, IdleSub, IsSub
<1>4. \A q \in Rows, o \in SubGoals : IsSub(t, q, o) => IsSub(row, q, o)
  BY <1>2 DEF IsSub
<1>5. \A q \in Rows, o \in SubGoals : o # s /\ IsSub(row, q, o) => IsSub(t, q, o)
  BY <1>2 DEF IsSub
<1>6. \A q \in Rows : row[q].status \notin {"free"} \cup Ended => t[q] = row[q] /\ t[q].status # "free"
  BY <1>2
<1> HIDE DEF t
<1>7. CASE /\ row' = t
           /\ \/ Status(s)' \in {"verified", "failed"}
              \/ Status(s)' = Status(s) /\ Status(s) # "running"
  <2>1. Status(s)' \notin {"running", "verifying"}
    BY <1>3, <1>7
  <2>2. TableInv'
    BY <1>1, <1>3, <1>4, <1>7, SubsShrink
  <2>3. QED
    BY <1>1, <1>5, <1>6, <1>7, <2>1, <2>2
<1>8. CASE Added(t, row', "verify", s) /\ Status(s)' = "verifying"
  <2>1. /\ \A q \in Rows : t[q].status # "free" => row'[q] = t[q]
        /\ \A q \in Rows : row'[q] = t[q] \/ row'[q].role = "verify"
    BY <1>1, <1>2, <1>8, AddedRows DEF Roles
  <2>2. /\ \A q \in Rows, o \in SubGoals : IsSub(row', q, o) => IsSub(t, q, o)
        /\ \A q \in Rows, o \in SubGoals : IsSub(t, q, o) => IsSub(row', q, o)
    BY <2>1 DEF IsSub
  <2>3. TableInv'
    BY <1>1, <1>3, <1>4, <2>2, SubsShrink
  <2>4. With(row', "verify", s) # {}
    BY <1>8 DEF Added
  <2>5. QED
    BY <1>1, <1>5, <1>6, <1>8, <2>1, <2>2, <2>3, <2>4
<1>9. CASE Added(t, row', "subgoal", s) /\ Status(s)' = Status(s)
  <2>1. /\ \A q \in Rows : t[q].status # "free" => row'[q] = t[q]
        /\ \A q \in Rows : \/ row'[q] = t[q]
                           \/ t[q].status = "free" /\ row'[q].role = "subgoal" /\ row'[q].of = s
        /\ \A p, q \in Rows : row'[p] # t[p] /\ row'[q] # t[q] => p = q
        /\ \E q \in Rows : row'[q].role = "subgoal" /\ row'[q].of = s /\ row'[q].status \in Pending
    BY <1>1, <1>2, <1>9, AddedRows DEF Roles
  <2>2. /\ \A q \in Rows, o \in SubGoals : IsSub(row', q, o) => IsSub(t, q, o) \/ o = s
        /\ \A q \in Rows, o \in SubGoals : IsSub(t, q, o) => IsSub(row', q, o)
        /\ \A p, q \in Rows : IsSub(row', p, s) /\ IsSub(row', q, s) => p = q
        /\ \E q \in Rows : IsSub(row', q, s)
    BY <1>3, <2>1 DEF IsSub, Pending
  <2>3. OneSub'
    <3>1. \A p, q \in Rows, o \in SubGoals : IsSub(row', p, o) /\ IsSub(row', q, o) => p = q
      BY <1>4, <2>2 DEF TableInv, OneSub
    <3>2. QED
      BY <3>1 DEF OneSub, IsSub
  <2>4. IdleSub'
    <3>1. \A q \in Rows, o \in SubGoals : IsSub(row', q, o) => Status(o)' \in {"running", "cancelled"}
      BY <1>1, <1>3, <1>4, <1>9, <2>2 DEF TableInv, IdleSub
    <3>2. QED
      BY <3>1 DEF IdleSub, IsSub
  <2>5. QED
    BY <1>1, <1>3, <1>5, <1>6, <1>9, <2>1, <2>2, <2>3, <2>4 DEF TableInv
<1>10. \/ /\ row' = t
          /\ \/ Status(s)' \in {"verified", "failed"}
             \/ Status(s)' = Status(s) /\ Status(s) # "running"
       \/ Added(t, row', "verify", s) /\ Status(s)' = "verifying"
       \/ Added(t, row', "subgoal", s) /\ Status(s)' = Status(s)
  BY <1>1 DEF t
<1>11. QED
  BY <1>7, <1>8, <1>9, <1>10

LEMMA TableStep ==
    ASSUME TypeInv, TableInv, StateInv, [Next]_vars
    PROVE  TableInv'
<1>1. CASE KeepsRows
  <2>1. \A q \in Rows, s \in SubGoals : IsSub(row', q, s) => IsSub(row, q, s)
    BY <1>1, RowsKept DEF Kept, IsSub
  <2>2. CASE \E r \in Rows : Pass(r)
    <3>1. PICK s \in SubGoals : /\ Status(s) = "verifying"
                                /\ \A o \in SubGoals \ {s} : Status(o)' = Status(o)
      BY <2>2, PassedStatus
    <3>2. \A q \in Rows : ~ IsSub(row', q, s)
      BY <2>1, <3>1 DEF TableInv, IdleSub
    <3>3. QED
      BY <2>1, <3>1, <3>2, SubsShrink
  <2>3. CASE \E s \in SubGoals : CancelSubGoal(s)
    <3>1. PICK s \in SubGoals : /\ Status(s)' = "cancelled"
                                /\ \A o \in SubGoals \ {s} : Status(o)' = Status(o)
      BY <2>3, CancelledStatus
    <3>2. QED
      BY <2>1, <3>1, SubsShrink
  <2>4. CASE UNCHANGED sub
    <3>1. \A s \in SubGoals : Status(s)' = Status(s)
      BY <2>4 DEF Status
    <3>2. QED
      BY <2>1, <3>1, SubsShrink
  <2>5. QED
    BY <1>1, <2>2, <2>3, <2>4
    DEF KeepsRows, BackoffOver, BeginCreate, Approve, Crash, ReconcileAllActive, vars,
        MarkChangeIntegrating, MarkChangeIntegrated, MergeByHand, coordVars, handVars, procVars
<1>2. CASE AsksOwner
  <2>1. \A q \in Rows, s \in SubGoals : IsSub(row', q, s) => IsSub(row, q, s)
    BY <1>2, RowsOfOwnerAsked DEF Kept, IsSub
  <2>2. \A s \in SubGoals : Status(s)' = Status(s)
    BY <1>2 DEF AsksOwner, WakeOwner, RejectReview, ReconcileGoal, Status
  <2>3. QED
    BY <2>1, <2>2, SubsShrink
<1>3. CASE Recover
  <2>1. \A q \in Rows, s \in SubGoals : IsSub(row', q, s) => IsSub(row, q, s)
    BY <1>3, RunsRecovered, FreeIsShaped DEF Became, IsSub
  <2>2. \A s \in SubGoals : Status(s)' = Status(s)
    BY <1>3 DEF Recover, Status
  <2>3. QED
    BY <2>1, <2>2, SubsShrink
<1>4. ASSUME NEW s \in SubGoals, AsksSub(s) PROVE TableInv'
  <2>1. /\ Status(s) \in {"none", "failed", "verifying", "verified"} /\ Status(s)' = "running"
        /\ \A o \in SubGoals \ {s} : Status(o)' = Status(o)
    BY <1>4, SubAskedStatus
  <2>2. \A q \in Rows : ~ IsSub(row, q, s)
    BY <2>1 DEF TableInv, IdleSub
  <2>3. /\ \A q \in Rows : \/ row'[q] = row[q]
                           \/ row'[q].role = "subgoal" /\ row'[q].of = s
        /\ \A p, q \in Rows : row'[p] # row[p] /\ row'[q] # row[q] => p = q
    <3>1. s # NoSub /\ row \in [Rows -> Shaped]
      BY SubGoalAssumption DEF TypeInv
    <3>2. row' \in [Rows -> Shaped] /\ Added(row, row', "subgoal", s)
      BY <1>4, RowsOfSubAsked
    <3>3. QED
      BY <3>1, <3>2, AddedRows DEF Roles
  <2>4. \A q \in Rows, o \in SubGoals : IsSub(row', q, o) => IsSub(row, q, o) \/ o = s
    BY <2>3 DEF IsSub
  <2>5. \A p, q \in Rows : IsSub(row', p, s) /\ IsSub(row', q, s) => p = q
    BY <2>2, <2>3 DEF IsSub
  <2>6. \A p, q \in Rows, o \in SubGoals : IsSub(row', p, o) /\ IsSub(row', q, o) => p = q
    BY <2>4, <2>5 DEF TableInv, OneSub
  <2>7. \A q \in Rows, o \in SubGoals : IsSub(row', q, o) => Status(o)' \in {"running", "cancelled"}
    BY <2>1, <2>4 DEF TableInv, IdleSub
  <2>8. OneSub' /\ IdleSub'
    BY <2>6, <2>7 DEF OneSub, IdleSub, IsSub
  <2>9. QED
    BY <2>8 DEF TableInv
<1>5. ASSUME NEW s \in SubGoals, DropQueued(s) PROVE TableInv'
  <2>1. \A q \in Rows, o \in SubGoals : IsSub(row', q, o) => IsSub(row, q, o)
    BY <1>5, RunsDropped, FreeIsShaped DEF Became, IsSub
  <2>2. \A o \in SubGoals : Status(o)' = Status(o)
    BY <1>5 DEF DropQueued, Status
  <2>3. QED
    BY <2>1, <2>2, SubsShrink
<1>6. ASSUME NEW r \in Rows, Claim(r) PROVE TableInv'
  <2>1. \A q \in Rows, s \in SubGoals : IsSub(row', q, s) => IsSub(row, q, s)
    BY <1>6, RunClaimed DEF Became, IsSub
  <2>2. \A s \in SubGoals : Status(s)' = Status(s)
    BY <1>6 DEF Claim, Status
  <2>3. QED
    BY <2>1, <2>2, SubsShrink
<1>7. ASSUME NEW r \in Rows, NEW how \in Ended, NEW c \in BOOLEAN, Finish(r, how, c)
      PROVE  TableInv'
  <2>1. \A q \in Rows, s \in SubGoals : IsSub(row', q, s) => IsSub(row, q, s)
    BY <1>7, RunFinished DEF Became, IsSub
  <2>2. \A s \in SubGoals : Status(s)' = Status(s)
    BY <1>7 DEF Finish, Status
  <2>3. QED
    BY <2>1, <2>2, SubsShrink
<1>8. ASSUME NEW r \in Rows, ReconcileSubGoalRun(r) PROVE TableInv'
  BY <1>8, ReconciledSubs
<1>9. ASSUME NEW r \in Rows, ReconcileVerifyRun(r) \/ ReconcileOwnerRun(r) PROVE TableInv'
  <2>1. row[r].role # "subgoal"
    BY <1>9 DEF ReconcileVerifyRun, ReconcileOwnerRun, Reconcilable
  <2>2. \A q \in Rows, s \in SubGoals : IsSub(row', q, s) => IsSub(row, q, s)
    <3>1. CASE ReconcileVerifyRun(r)
      BY <3>1, StampedRows, FreeIsShaped DEF ReconcileVerifyRun, IsSub
    <3>2. CASE ReconcileOwnerRun(r)
      BY <2>1, <3>2, OwnerRunReconciled, FreeIsShaped DEF Became, IsSub
    <3>3. QED
      BY <1>9, <3>1, <3>2
  <2>3. \A s \in SubGoals : Status(s)' = Status(s)
    BY <1>9 DEF ReconcileVerifyRun, ReconcileOwnerRun, Status
  <2>4. QED
    BY <2>2, <2>3, SubsShrink
<1>10. QED
  BY <1>1, <1>2, <1>3, <1>4, <1>5, <1>6, <1>7, <1>8, <1>9, StepKinds DEF Reconciles

LEMMA TableInit == Init => TableInv /\ StateInv
<1> SUFFICES ASSUME Init PROVE TableInv /\ StateInv
  OBVIOUS
<1>1. \A r \in Rows : row[r].status = "free" \/ row[r].role = "owner"
  BY DEF Init, FreeRow
<1>2. TableInv
  BY <1>1 DEF TableInv, OneSub, IdleSub, IsSub
<1>3. StateInv
  BY DEF Init, StateInv, CancelOK, VerifyOK, ChangeOK, Status
<1>4. QED
  BY <1>2, <1>3

LEMMA IdleWhenSettled == TypeInv /\ TableInv => SettledIsIdle
<1>1. \A s \in SubGoals : \A q \in With(row, "subgoal", s) : q \in Rows /\ IsSub(row, q, s)
  BY DEF With, IsSub, Pending
<1>2. QED
  BY <1>1 DEF TableInv, IdleSub, SettledIsIdle

(* A sub-goal that is verified or has failed has no run of its assignee,   *)
(* pending or ended: the inductive form says that a sub-goal has one such  *)
(* row at most, and only while it runs or once it is cancelled.            *)
THEOREM SettledAreIdle == Spec => []SettledIsIdle
  BY IdleWhenSettled, InitType, TypeStep, TableInit, TableStep, StateStep, PTL DEF Spec

----------------------------------------------------------------------------
(* What is under way has a run.                                            *)

HasRuns == goal \in {"active", "review"} => \A s \in SubGoals :
    /\ Status(s) = "running" => \E q \in Rows : IsSub(row, q, s)
    /\ Status(s) = "verifying" => With(row, "verify", s) # {}

LEMMA HasRunsKept ==
    ASSUME HasRuns, goal' \in {"active", "review"} => goal \in {"active", "review"},
           \A s \in SubGoals : Status(s)' = "running" =>
              \/ \E q \in Rows : IsSub(row', q, s)
              \/ Status(s) = "running" /\ \A q \in Rows : IsSub(row, q, s) => IsSub(row', q, s),
           \A s \in SubGoals : Status(s)' = "verifying" =>
              \/ With(row', "verify", s) # {}
              \/ Status(s) = "verifying" /\ With(row, "verify", s) \subseteq With(row', "verify", s)
    PROVE  HasRuns'
<1>1. goal' \in {"active", "review"} => \A s \in SubGoals :
         /\ Status(s)' = "running" => \E q \in Rows : IsSub(row', q, s)
         /\ Status(s)' = "verifying" => With(row', "verify", s) # {}
  BY DEF HasRuns
<1>2. QED
  BY <1>1 DEF HasRuns, IsSub, With

(* Rows that a step keeps, but for the status of a run that stays pending. *)
LEMMA RowsStay ==
    ASSUME TypeInv, NEW s \in SubGoals,
           \A q \in Rows : row[q].status # "free" /\ row[q].of = s =>
              /\ row'[q].status # "free" /\ row'[q].role = row[q].role /\ row'[q].of = s
              /\ row[q].status \in Pending => row'[q].status \in Pending
    PROVE  /\ \A q \in Rows : IsSub(row, q, s) => IsSub(row', q, s)
           /\ With(row, "verify", s) \subseteq With(row', "verify", s)
  BY DEF IsSub, With, Pending

LEMMA HasRunsStep ==
    ASSUME TypeInv, TableInv, StateInv, HasRuns, "silent" \notin Ops, [Next]_vars
    PROVE  HasRuns'
<1>1. goal' \in {"active", "review"} => goal \in {"active", "review"}
  BY DEF Next, RunStep, SubStep, Claim, Finish, ReconcileSubGoalRun, ReconcileVerifyRun,
         ReconcileOwnerRun, OwnerCompleted, OwnerFailed, OwnerCancelled, Pass, Reject,
         CreateSubGoal, EndCreate, Born, RetrySubGoal, CancelSubGoal, DropQueued,
         MarkChangeIntegrating, MarkChangeIntegrated, MarkChangeConflict, MergeByHand,
         BackoffOver, BeginCreate, WakeOwner, Approve, RejectReview, ReconcileGoal, Crash,
         Recover, ReconcileAllActive, vars
<1>2. CASE KeepsRows
  <2>1. \A s \in SubGoals :
           /\ \A q \in Rows : IsSub(row, q, s) => IsSub(row', q, s)
           /\ With(row, "verify", s) \subseteq With(row', "verify", s)
    BY <1>2, RowsKept, RowsStay DEF Kept
  <2>2. \A s \in SubGoals : Status(s)' \in {"running", "verifying"} => Status(s)' = Status(s)
    <3>1. ASSUME NEW r \in Rows, Pass(r)
          PROVE  \A s \in SubGoals : Status(s)' \in {"running", "verifying"} => Status(s)' = Status(s)
      BY <3>1, PassedStatus
    <3>2. ASSUME NEW o \in SubGoals, CancelSubGoal(o)
          PROVE  \A s \in SubGoals : Status(s)' \in {"running", "verifying"} => Status(s)' = Status(s)
      BY <3>2, CancelledStatus
    <3>3. CASE UNCHANGED sub
      BY <3>3 DEF Status
    <3>4. QED
      BY <1>2, <3>1, <3>2, <3>3
      DEF KeepsRows, BackoffOver, BeginCreate, Approve, Crash, ReconcileAllActive, vars,
          MarkChangeIntegrating, MarkChangeIntegrated, MergeByHand, coordVars, handVars, procVars
  <2>3. QED
    BY <1>1, <2>1, <2>2, HasRunsKept
<1>3. CASE AsksOwner
  <2>1. \A s \in SubGoals :
           /\ \A q \in Rows : IsSub(row, q, s) => IsSub(row', q, s)
           /\ With(row, "verify", s) \subseteq With(row', "verify", s)
    BY <1>3, RowsOfOwnerAsked, RowsStay DEF Kept
  <2>2. \A s \in SubGoals : Status(s)' = Status(s)
    BY <1>3 DEF AsksOwner, WakeOwner, RejectReview, ReconcileGoal, Status
  <2>3. QED
    BY <1>1, <2>1, <2>2, HasRunsKept
<1>4. CASE Recover
  <2>1. goal' \in {"active", "review"} => \A s \in SubGoals :
           /\ \A q \in Rows : IsSub(row, q, s) => IsSub(row', q, s)
           /\ With(row, "verify", s) \subseteq With(row', "verify", s)
    BY <1>4, RunsRecovered, RowsStay DEF Recover, Became, Pending
  <2>2. \A s \in SubGoals : Status(s)' = Status(s)
    BY <1>4 DEF Recover, Status
  <2>3. CASE goal' \in {"active", "review"}
    BY <1>1, <2>1, <2>2, <2>3, HasRunsKept
  <2>4. CASE goal' \notin {"active", "review"}
    BY <2>4 DEF HasRuns
  <2>5. QED
    BY <2>3, <2>4
<1>5. ASSUME NEW s \in SubGoals, AsksSub(s) PROVE HasRuns'
  <2>1. s # NoSub /\ row \in [Rows -> Shaped] /\ row' \in [Rows -> Shaped]
        /\ Added(row, row', "subgoal", s)
    BY <1>5, RowsOfSubAsked, SubGoalAssumption DEF TypeInv
  <2>2. /\ \A q \in Rows : row[q].status # "free" => row'[q] = row[q]
        /\ \E q \in Rows : row'[q].role = "subgoal" /\ row'[q].of = s /\ row'[q].status \in Pending
    BY <2>1, AddedRows DEF Roles
  <2>3. \E q \in Rows : IsSub(row', q, s)
    BY <2>2 DEF IsSub, Pending
  <2>4. \A o \in SubGoals :
           /\ \A q \in Rows : IsSub(row, q, o) => IsSub(row', q, o)
           /\ With(row, "verify", o) \subseteq With(row', "verify", o)
    BY <2>2, RowsStay
  <2>5. Status(s)' = "running" /\ \A o \in SubGoals \ {s} : Status(o)' = Status(o)
    BY <1>5, SubAskedStatus
  <2>6. QED
    BY <1>1, <2>3, <2>4, <2>5, HasRunsKept
<1>6. ASSUME NEW s \in SubGoals, DropQueued(s) PROVE HasRuns'
  <2>1. \A o \in SubGoals : Status(o)' = Status(o)
    BY <1>6 DEF DropQueued, Status
  <2>2. Status(s) = "cancelled"
    BY <1>6 DEF DropQueued, StateInv, CancelOK
  <2>3. \A q \in Rows : row[q].of # s => row'[q] = row[q]
    BY <1>6, RunsDropped
  <2>4. \A o \in SubGoals \ {s} :
           /\ \A q \in Rows : IsSub(row, q, o) => IsSub(row', q, o)
           /\ With(row, "verify", o) \subseteq With(row', "verify", o)
    BY <2>3, RowsStay
  <2>5. QED
    BY <1>1, <2>1, <2>2, <2>4, HasRunsKept
<1>7. ASSUME NEW r \in Rows, Claim(r) PROVE HasRuns'
  <2>1. \A s \in SubGoals :
           /\ \A q \in Rows : IsSub(row, q, s) => IsSub(row', q, s)
           /\ With(row, "verify", s) \subseteq With(row', "verify", s)
    BY <1>7, RunClaimed, RowsStay DEF Became, Pending
  <2>2. \A s \in SubGoals : Status(s)' = Status(s)
    BY <1>7 DEF Claim, Status
  <2>3. QED
    BY <1>1, <2>1, <2>2, HasRunsKept
<1>8. ASSUME NEW r \in Rows, NEW how \in Ended, NEW c \in BOOLEAN, Finish(r, how, c)
      PROVE  HasRuns'
  <2>1. /\ Became(row, row', r, how) /\ how # "free" /\ \A q \in Rows \ {r} : row'[q] = row[q]
    BY <1>8, RunFinished DEF Ended
  <2>2. \A s \in SubGoals, q \in Rows : IsSub(row, q, s) => IsSub(row', q, s)
    BY <2>1 DEF Became, IsSub
  <2>3. \A s \in SubGoals : Status(s) = "verifying" =>
           With(row, "verify", s) \subseteq With(row', "verify", s)
    <3>1. ~ (row[r].role = "verify" /\ Status(row[r].of) = "verifying")
      BY <1>8 DEF Finish, MayEnd
    <3>2. QED
      BY <2>1, <3>1 DEF With
  <2>4. \A s \in SubGoals : Status(s)' = Status(s)
    BY <1>8 DEF Finish, Status
  <2>5. QED
    BY <1>1, <2>2, <2>3, <2>4, HasRunsKept
<1>9. ASSUME NEW r \in Rows, ReconcileSubGoalRun(r) PROVE HasRuns'
  <2>1. PICK s \in SubGoals :
           /\ s = row[r].of /\ \A o \in SubGoals \ {s} : Status(o)' = Status(o)
           /\ Status(s)' = "running" => \E q \in Rows : IsSub(row', q, s)
           /\ Status(s)' = "verifying" => With(row', "verify", s) # {}
    BY <1>9, ReconciledSubs
  <2>2. \A o \in SubGoals : With(row, "verify", o) \subseteq With(row', "verify", o)
    <3>1. \A q \in Rows : row[q].status \in Pending => row'[q] = row[q]
      BY <1>9, ReconciledSubs DEF Pending, Ended
    <3>2. QED
      BY <3>1 DEF With
  <2>3. \A q \in Rows, o \in SubGoals \ {s} : IsSub(row, q, o) => IsSub(row', q, o)
    BY <1>9, <2>1, ReconciledSubs
  <2>4. QED
    BY <1>1, <2>1, <2>2, <2>3, HasRunsKept
<1>10. ASSUME NEW r \in Rows, ReconcileVerifyRun(r) \/ ReconcileOwnerRun(r) PROVE HasRuns'
  <2>1. row[r].role # "subgoal" /\ row[r].status \in Ended
    BY <1>10 DEF ReconcileVerifyRun, ReconcileOwnerRun, Reconcilable
  <2>2. \A q \in Rows \ {r} : row'[q] = row[q]
    BY <1>10, StampedRows, OwnerRunReconciled DEF ReconcileVerifyRun
  <2>3. \A s \in SubGoals :
           /\ \A q \in Rows : IsSub(row, q, s) => IsSub(row', q, s)
           /\ With(row, "verify", s) \subseteq With(row', "verify", s)
    BY <2>1, <2>2 DEF IsSub, With, Pending, Ended
  <2>4. \A s \in SubGoals : Status(s)' = Status(s)
    BY <1>10 DEF ReconcileVerifyRun, ReconcileOwnerRun, Status
  <2>5. QED
    BY <1>1, <2>3, <2>4, HasRunsKept
<1>11. QED
  BY <1>2, <1>3, <1>4, <1>5, <1>6, <1>7, <1>8, <1>9, <1>10, StepKinds DEF Reconciles

(* No ghost sub-goals: whatever fails, is retried, rejected, cancelled or  *)
(* crashes, a sub-goal that waits for its assignee has a run of it, one    *)
(* that waits for a verdict has a pending verify run, and a settled one    *)
(* has no run.  The premise leaves out a verify run that ends without a    *)
(* verdict: it leaves its sub-goal waiting for ever.                       *)
THEOREM NoGhosts ==
    ASSUME "silent" \notin Ops
    PROVE  Spec => []StatusHasRuns
<1>1. Init => HasRuns
  BY DEF Init, HasRuns, Status
<1>2. TypeInv /\ TableInv /\ HasRuns => NoGhost
  <2>1. \A s \in SubGoals, q \in Rows : IsSub(row, q, s) => Awaited(s, "subgoal")
    BY DEF IsSub, Awaited
  <2>2. \A s \in SubGoals : With(row, "verify", s) # {} => Awaited(s, "verify")
    BY DEF With, Awaited, Pending
  <2>3. QED
    BY <2>1, <2>2 DEF HasRuns, NoGhost
<1>3. TypeInv /\ TableInv /\ StateInv /\ HasRuns /\ [Next]_vars => HasRuns'
  BY HasRunsStep
<1>4. QED
  BY <1>1, <1>2, <1>3, IdleWhenSettled, InitType, TypeStep, TableInit, TableStep, StateStep, PTL
  DEF Spec, StatusHasRuns

----------------------------------------------------------------------------
(* What is reviewed is the whole work.                                     *)

IsOwner(t, q, S) == t[q].role = "owner" /\ t[q].status \in S
OwnerRunning == \E q \in Rows : IsOwner(row, q, {"running"})
OwnerEnded   == \E q \in Rows : IsOwner(row, q, Ended)

(* An integration is the business of a running owner.                      *)
MergeInv ==
    /\ daemon # "up" => merging = {}
    /\ merging # {} => OwnerRunning
    /\ \A s \in SubGoals : change[s] = "integrating" => s \in merging

(* No owner run is claimed while the end of one is not reconciled yet.     *)
OwnerInv ==
    /\ OwnerEnded => ~ OwnerRunning
    /\ goal \in {"review", "done"} => ~ OwnerRunning

LEMMA OwnerRunsRow == TypeInv => (OwnerRuns <=> daemon = "up" /\ OwnerRunning)
  BY RowAt, RowFields DEF OwnerRuns, RunningOf, With, OwnerRunning, IsOwner, Pending

(* The running and the ended owner runs before and after a step.           *)
SameOwner ==
    /\ \A q \in Rows : IsOwner(row, q, {"running"}) <=> IsOwner(row', q, {"running"})
    /\ \A q \in Rows : IsOwner(row', q, Ended) => IsOwner(row, q, Ended)

LEMMA OwnerSame ==
    ASSUME TypeInv,
           \/ KeepsRows \/ AsksOwner
           \/ \E s \in SubGoals : AsksSub(s) \/ DropQueued(s)
           \/ \E r \in Rows : row[r].role # "owner" /\ (Claim(r) \/ Reconciles(r))
           \/ \E r \in Rows, how \in Ended, c \in BOOLEAN :
                 row[r].role # "owner" /\ Finish(r, how, c)
    PROVE  SameOwner
<1> USE DEF SameOwner, IsOwner, Ended
<1>1. CASE KeepsRows
  BY <1>1, RowsKept DEF Kept
<1>2. CASE AsksOwner
  BY <1>2, RowsOfOwnerAsked DEF Kept
<1>3. ASSUME NEW s \in SubGoals, AsksSub(s) PROVE SameOwner
  <2>1. s # NoSub /\ row \in [Rows -> Shaped] /\ row' \in [Rows -> Shaped]
        /\ Added(row, row', "subgoal", s)
    BY <1>3, RowsOfSubAsked, SubGoalAssumption DEF TypeInv
  <2>2. \A q \in Rows : \/ row'[q] = row[q]
                        \/ row[q].status = "free" /\ row'[q].role = "subgoal"
    BY <2>1, AddedRows DEF Roles
  <2>3. QED
    BY <2>2
<1>4. ASSUME NEW s \in SubGoals, DropQueued(s) PROVE SameOwner
  <2>1. \A q \in Rows : row[q].role = "owner" => row[q].of # s
    BY RowAt, RowFields, SubGoalAssumption
  <2>2. QED
    BY <1>4, <2>1, RunsDropped, FreeIsShaped DEF Became
<1>5. ASSUME NEW r \in Rows, row[r].role # "owner", Claim(r) PROVE SameOwner
  BY <1>5, RunClaimed DEF Became
<1>6. ASSUME NEW r \in Rows, row[r].role # "owner", Reconciles(r) PROVE SameOwner
  BY <1>6, ReconciledRows, FreeIsShaped
<1>7. ASSUME NEW r \in Rows, NEW how \in Ended, NEW c \in BOOLEAN, row[r].role # "owner",
             Finish(r, how, c)
      PROVE  SameOwner
  BY <1>7, RunFinished DEF Became
<1>8. QED
  BY <1>1, <1>2, <1>3, <1>4, <1>5, <1>6, <1>7

LEMMA OwnerClaimed ==
    ASSUME TypeInv, NEW r \in Rows, Claim(r)
    PROVE  \A q \in Rows : IsOwner(row, q, {"running"}) => IsOwner(row', q, {"running"})
  BY RunClaimed DEF Became, IsOwner

LEMMA OwnerFinished ==
    ASSUME TypeInv, RunDistinct, NEW r \in Rows, NEW how \in Ended, NEW c \in BOOLEAN,
           row[r].role = "owner", Finish(r, how, c)
    PROVE  \A q \in Rows : ~ IsOwner(row', q, {"running"})
<1>1. \A q \in Rows : IsOwner(row, q, {"running"}) => q = r
  <2>1. \A q \in Rows : row[q].role = "owner" => row[q].of = NoSub
    BY RowAt, RowFields
  <2>2. QED
    BY <2>1, RunFinished DEF RunDistinct, IsOwner
<1>2. QED
  BY <1>1, RunFinished DEF IsOwner, Became, Ended

LEMMA OwnerRecovered ==
    ASSUME TypeInv, Recover
    PROVE  \A q \in Rows : ~ IsOwner(row', q, {"running"})
  BY RunsRecovered, FreeIsShaped DEF IsOwner, Became

LEMMA OwnerReconciled ==
    ASSUME TypeInv, NEW r \in Rows, ReconcileOwnerRun(r)
    PROVE  /\ \A q \in Rows : IsOwner(row, q, {"running"}) <=> IsOwner(row', q, {"running"})
           /\ OwnerEnded
<1>1. row[r].role = "owner" /\ row[r].status \in Ended
  BY DEF ReconcileOwnerRun, Reconcilable
<1>2. row'[r].status # "running" /\ \A q \in Rows \ {r} : row'[q] = row[q]
  BY OwnerRunReconciled, FreeIsShaped DEF Became
<1>3. QED
  BY <1>1, <1>2 DEF IsOwner, OwnerEnded, Ended

LEMMA MergeStep ==
    ASSUME TypeInv, StateInv, RunDistinct, MergeInv, "die_merging" \notin Ops, [Next]_vars
    PROVE  MergeInv'
<1> USE DEF coordVars, handVars, procVars
<1>0. ASSUME \A q \in Rows : IsOwner(row, q, {"running"}) => IsOwner(row', q, {"running"})
      PROVE  OwnerRunning => OwnerRunning'
  BY <1>0 DEF OwnerRunning, IsOwner
<1>1. SameOwner => (OwnerRunning => OwnerRunning')
  BY <1>0 DEF SameOwner
<1>2. ASSUME UNCHANGED <<daemon, merging>>, OwnerRunning => OwnerRunning',
             \A s \in SubGoals : change'[s] = "integrating" => change[s] = "integrating"
      PROVE  MergeInv'
  BY <1>2 DEF MergeInv
<1>3. CASE KeepsRows
  <2>1. OwnerRunning => OwnerRunning'
    BY <1>1, <1>3, OwnerSame
  <2>2. ASSUME NEW r \in Rows, Pass(r) PROVE MergeInv'
    <3>1. \A s \in SubGoals : change'[s] = "integrating" => change[s] = "integrating"
      BY <2>2, PassedStatus, MaterializedChange
    <3>2. QED
      BY <1>2, <2>1, <2>2, <3>1 DEF Pass
  <2>3. ASSUME NEW s \in SubGoals, MarkChangeIntegrating(s) PROVE MergeInv'
    <3>1. daemon = "up" /\ OwnerRunning
      BY <2>3, OwnerRunsRow DEF MarkChangeIntegrating
    <3>2. QED
      BY <2>1, <2>3, <3>1 DEF MarkChangeIntegrating, MergeInv, TypeInv, TypeOK
  <2>4. ASSUME NEW s \in SubGoals, MarkChangeIntegrated(s) PROVE MergeInv'
    BY <2>1, <2>4 DEF MarkChangeIntegrated, MergeInv, TypeInv, TypeOK
  <2>5. CASE Crash
    BY <2>5 DEF Crash, MergeInv
  <2>6. CASE ReconcileAllActive
    BY <2>1, <2>6 DEF ReconcileAllActive, MergeInv
  <2>7. CASE UNCHANGED <<daemon, merging, change>>
    BY <1>2, <2>1, <2>7
  <2>8. QED
    BY <1>3, <2>2, <2>3, <2>4, <2>5, <2>6, <2>7
    DEF KeepsRows, BackoffOver, BeginCreate, Approve, vars, CancelSubGoal, MergeByHand
<1>4. CASE AsksOwner
  <2>1. UNCHANGED <<daemon, merging>>
    BY <1>4 DEF AsksOwner, WakeOwner, RejectReview, ReconcileGoal
  <2>2. \A s \in SubGoals : change'[s] = "integrating" => change[s] = "integrating"
    BY <1>4, ClearedChange DEF AsksOwner, WakeOwner, RejectReview, ReconcileGoal
  <2>3. QED
    BY <1>1, <1>2, <1>4, <2>1, <2>2, OwnerSame
<1>5. ASSUME NEW s \in SubGoals, AsksSub(s) PROVE MergeInv'
  <2>1. OwnerRunning => OwnerRunning'
    BY <1>1, <1>5, OwnerSame
  <2>2. CASE MarkChangeConflict(s)
    BY <2>1, <2>2 DEF MarkChangeConflict, MergeInv, TypeInv, TypeOK
  <2>3. CASE ~ MarkChangeConflict(s)
    BY <1>2, <1>5, <2>1, <2>3
    DEF AsksSub, CreateSubGoal, EndCreate, Born, RetrySubGoal, Reject
  <2>4. QED
    BY <2>2, <2>3
<1>6. ASSUME NEW s \in SubGoals, DropQueued(s) PROVE MergeInv'
  BY <1>1, <1>2, <1>6, OwnerSame DEF DropQueued
<1>7. ASSUME NEW r \in Rows, Claim(r) PROVE MergeInv'
  BY <1>0, <1>2, <1>7, OwnerClaimed DEF Claim
<1>8. ASSUME NEW r \in Rows, NEW how \in Ended, NEW c \in BOOLEAN, Finish(r, how, c)
      PROVE  MergeInv'
  <2>1. CASE row[r].role = "owner"
    BY <1>8, <2>1 DEF Finish, MayEnd, MergeInv
  <2>2. CASE row[r].role # "owner"
    BY <1>1, <1>2, <1>8, <2>2, OwnerSame DEF Finish
  <2>3. QED
    BY <2>1, <2>2
<1>9. ASSUME NEW r \in Rows, Reconciles(r) PROVE MergeInv'
  <2>1. UNCHANGED <<daemon, merging>>
    BY <1>9 DEF Reconciles, ReconcileSubGoalRun, ReconcileVerifyRun, ReconcileOwnerRun
  <2>2. \A s \in SubGoals : change'[s] = "integrating" => change[s] = "integrating"
    <3>1. CASE ReconcileSubGoalRun(r)
      BY <3>1, ReconciledStatus, MaterializedChange
    <3>2. CASE ReconcileVerifyRun(r) \/ ReconcileOwnerRun(r)
      BY <3>2, ClearedChange DEF ReconcileVerifyRun, ReconcileOwnerRun
    <3>3. QED
      BY <1>9, <3>1, <3>2 DEF Reconciles
  <2>3. OwnerRunning => OwnerRunning'
    <3>1. CASE row[r].role = "owner"
      BY <1>0, <1>9, <3>1, OwnerReconciled
      DEF Reconciles, ReconcileSubGoalRun, ReconcileVerifyRun, Reconcilable
    <3>2. CASE row[r].role # "owner"
      BY <1>1, <1>9, <3>2, OwnerSame
    <3>3. QED
      BY <3>1, <3>2
  <2>4. QED
    BY <1>2, <2>1, <2>2, <2>3
<1>10. CASE Recover
  BY <1>10 DEF Recover, MergeInv
<1>11. QED
  BY <1>3, <1>4, <1>5, <1>6, <1>7, <1>8, <1>9, <1>10, StepKinds

(* The goal ends, or comes to its review, at the end of an owner run only. *)
LEMMA GoalStep ==
    ASSUME [Next]_vars, goal' \in {"review", "done"}
    PROVE  goal \in {"review", "done"} \/ \E r \in Rows : ReconcileOwnerRun(r)
  BY DEF Next, RunStep, SubStep, Claim, Finish, ReconcileSubGoalRun, ReconcileVerifyRun,
         Pass, Reject, CreateSubGoal, EndCreate, Born, RetrySubGoal, CancelSubGoal, DropQueued,
         MarkChangeIntegrating, MarkChangeIntegrated, MarkChangeConflict, MergeByHand,
         BackoffOver, BeginCreate, WakeOwner, Approve, RejectReview, ReconcileGoal, Crash,
         Recover, ReconcileAllActive, vars

LEMMA OwnerStep ==
    ASSUME TypeInv, RunDistinct, OwnerInv, "slow_reconcile" \notin Ops, [Next]_vars
    PROVE  OwnerInv'
<1>1. ASSUME \A q \in Rows : ~ IsOwner(row', q, {"running"}) PROVE OwnerInv'
  BY <1>1 DEF OwnerInv, OwnerRunning, IsOwner
<1>2. ASSUME SameOwner, ~ \E r \in Rows : ReconcileOwnerRun(r) PROVE OwnerInv'
  <2>1. (OwnerRunning' <=> OwnerRunning) /\ (OwnerEnded' => OwnerEnded)
    BY <1>2 DEF SameOwner, OwnerRunning, OwnerEnded, IsOwner
  <2>2. QED
    BY <1>2, <2>1, GoalStep DEF OwnerInv
<1>3. ASSUME NEW r \in Rows, ReconcileOwnerRun(r) PROVE OwnerInv'
  <2>1. OwnerEnded /\ \A q \in Rows : IsOwner(row, q, {"running"}) <=> IsOwner(row', q, {"running"})
    BY <1>3, OwnerReconciled
  <2>2. \A q \in Rows : ~ IsOwner(row', q, {"running"})
    BY <2>1 DEF OwnerInv, OwnerRunning
  <2>3. QED
    BY <1>1, <2>2
<1>4. ASSUME NEW r \in Rows, Claim(r) PROVE OwnerInv'
  <2>1. goal' = "active" /\ \A q \in Rows : row[q].status \notin Ended
    BY <1>4 DEF Claim, MayClaim
  <2>2. \A q \in Rows : ~ IsOwner(row', q, Ended)
    BY <1>4, <2>1, RunClaimed DEF IsOwner, Became, Ended
  <2>3. QED
    BY <2>1, <2>2 DEF OwnerInv, OwnerEnded, IsOwner
<1>5. ASSUME NEW r \in Rows, NEW how \in Ended, NEW c \in BOOLEAN, Finish(r, how, c),
             row[r].role = "owner"
      PROVE  OwnerInv'
  BY <1>1, <1>5, OwnerFinished
<1>6. CASE Recover
  BY <1>1, <1>6, OwnerRecovered
<1>7. CASE ~ (\E r \in Rows : ReconcileOwnerRun(r))
  <2>1. ASSUME NEW r \in Rows, Reconciles(r) PROVE row[r].role # "owner"
    BY <1>7, <2>1 DEF Reconciles, ReconcileSubGoalRun, ReconcileVerifyRun, Reconcilable
  <2>2. \/ SameOwner \/ Recover \/ \E r \in Rows : Claim(r)
        \/ \E r \in Rows, how \in Ended, c \in BOOLEAN : row[r].role = "owner" /\ Finish(r, how, c)
    BY <2>1, StepKinds, OwnerSame
  <2>3. QED
    BY <1>2, <1>4, <1>5, <1>6, <1>7, <2>2
<1>8. QED
  BY <1>3, <1>7

Whole(s) == Status(s) \in Settled \cup {"none"} /\ change[s] \in {"none", "integrated"}

LEMMA WholeStep ==
    ASSUME TypeInv, TableInv, StateInv, MergeInv, OwnerInv, ReviewIsWhole, [Next]_vars
    PROVE  ReviewIsWhole'
<1> USE DEF coordVars, handVars, procVars
<1> SUFFICES ASSUME goal' \in {"review", "done"}, NEW s \in SubGoals, s \notin late'
             PROVE  Whole(s)'
  BY DEF ReviewIsWhole, Whole
<1>1. s \notin late
  BY DEF Next, RunStep, SubStep, Claim, Finish, ReconcileSubGoalRun, ReconcileVerifyRun,
         ReconcileOwnerRun, Pass, Reject, CreateSubGoal, EndCreate, Born, RetrySubGoal,
         CancelSubGoal, DropQueued, MarkChangeIntegrating, MarkChangeIntegrated,
         MarkChangeConflict, MergeByHand, BackoffOver, BeginCreate, WakeOwner, Approve,
         RejectReview, ReconcileGoal, Crash, Recover, ReconcileAllActive, vars
<1>2. ASSUME NEW r \in Rows, ReconcileOwnerRun(r) PROVE Whole(s)'
  <2>1. Status(s)' = Status(s) /\ change'[s] = Cleared[s]
    BY <1>2 DEF ReconcileOwnerRun, Status
  <2>2. CASE goal \in {"review", "done"}
    BY <1>1, <2>1, <2>2, ClearedChange DEF ReviewIsWhole, Whole, Cleared
  <2>3. CASE goal \notin {"review", "done"}
    <3>1. ~ Holds(Cleared)
      BY <1>2, <2>3 DEF ReconcileOwnerRun, OwnerCompleted, OwnerFailed, OwnerCancelled
    <3>2. change[s] # "integrating"
      BY <1>2, OwnerReconciled DEF OwnerInv, MergeInv
    <3>3. Cleared[s] \in ChangeStatus \ {"ready", "conflict", "integrating"}
      BY <3>1, <3>2, ClearedType, ClearedChange DEF Holds
    <3>4. Status(s) \in SubStatus \ {"running", "verifying"}
      BY <3>1, SubFields DEF Holds
    <3>5. QED
      BY <2>1, <3>3, <3>4 DEF Whole, ChangeStatus, SubStatus, Settled
  <2>4. QED
    BY <2>2, <2>3
<1>3. CASE goal \in {"review", "done"} /\ ~ \E r \in Rows : ReconcileOwnerRun(r)
  <2>1. Whole(s) /\ Status(s) \notin {"running", "verifying"}
    BY <1>1, <1>3 DEF ReviewIsWhole, Whole, Settled
  <2>2. ~ OwnerRuns
    BY <1>3, OwnerRunsRow DEF OwnerInv
  <2>3. ASSUME Status(s)' = Status(s), change'[s] = change[s] PROVE Whole(s)'
    BY <2>1, <2>3 DEF Whole, Status
  <2>4. CASE KeepsRows
    <3>1. ASSUME NEW r \in Rows, Pass(r) PROVE Whole(s)'
      BY <2>1, <2>3, <3>1, PassedStatus, MaterializedChange
    <3>2. CASE UNCHANGED <<sub, change>>
      BY <2>3, <3>2 DEF Status
    <3>3. QED
      BY <2>2, <2>4, <3>1, <3>2
      DEF KeepsRows, BackoffOver, BeginCreate, Approve, Crash, ReconcileAllActive, vars,
          CancelSubGoal, MarkChangeIntegrating, MarkChangeIntegrated, MergeByHand
  <2>5. CASE AsksOwner
    BY <1>3, <2>3, <2>5 DEF AsksOwner, WakeOwner, RejectReview, ReconcileGoal, Status
  <2>6. ASSUME NEW o \in SubGoals, AsksSub(o) PROVE Whole(s)'
    <3>1. CASE EndCreate(o)
      <4>1. o # s
        BY <1>3, <3>1 DEF EndCreate, Born
      <4>2. QED
        BY <2>3, <2>6, <3>1, <4>1, SubAskedStatus DEF EndCreate, Born
    <3>2. CASE \E r \in Rows : row[r].of = o /\ Reject(r)
      <4>1. Status(o) = "verifying" /\ change' = change
        BY <3>2 DEF Reject
      <4>2. QED
        BY <2>1, <2>3, <2>6, <4>1, SubAskedStatus
    <3>3. QED
      BY <2>2, <2>6, <3>1, <3>2 DEF AsksSub, CreateSubGoal, RetrySubGoal, MarkChangeConflict
  <2>7. ASSUME NEW r \in Rows, ReconcileSubGoalRun(r) PROVE Whole(s)'
    BY <2>1, <2>3, <2>7, ReconciledStatus, MaterializedChange
  <2>8. CASE \/ \E o \in SubGoals : DropQueued(o)
             \/ \E r \in Rows : Claim(r) \/ ReconcileVerifyRun(r)
             \/ \E r \in Rows, how \in Ended, c \in BOOLEAN : Finish(r, how, c)
             \/ Recover
    BY <2>3, <2>8 DEF DropQueued, Claim, ReconcileVerifyRun, Finish, Recover, Status
  <2>9. QED
    BY <1>3, <2>4, <2>5, <2>6, <2>7, <2>8, StepKinds DEF Reconciles
<1>4. QED
  BY <1>2, <1>3, GoalStep

(* The whole work is reviewed: a goal that is in review or done has no     *)
(* open sub-goal and no change outside of its branch, but those a human's  *)
(* call inserted behind the guard's back.  The end of the owner run finds  *)
(* no integration half done, since integrations are the running owner's    *)
(* and no second owner runs.  The premise leaves out an owner whose CLI    *)
(* dies while it integrates, and a claim before the reconciliation.        *)
THEOREM WholeWork ==
    ASSUME "die_merging" \notin Ops, "slow_reconcile" \notin Ops
    PROVE  Spec => []ReviewIsWhole
<1>1. Init => MergeInv /\ OwnerInv /\ ReviewIsWhole /\ RunDistinct
  <2> SUFFICES ASSUME Init PROVE MergeInv /\ OwnerInv /\ ReviewIsWhole /\ RunDistinct
    OBVIOUS
  <2>1. \A r \in Rows : row[r].status \in {"free", "queued"}
    BY DEF Init, FreeRow
  <2>2. QED
    BY <2>1
    DEF Init, MergeInv, OwnerInv, OwnerRunning, OwnerEnded, IsOwner, ReviewIsWhole, RunDistinct,
        Ended
<1>2. TypeInv /\ StateInv /\ RunDistinct /\ MergeInv /\ [Next]_vars => MergeInv'
  BY MergeStep
<1>3. TypeInv /\ RunDistinct /\ OwnerInv /\ [Next]_vars => OwnerInv'
  BY OwnerStep
<1>4. TypeInv /\ TableInv /\ StateInv /\ MergeInv /\ OwnerInv /\ ReviewIsWhole /\ [Next]_vars
        => ReviewIsWhole'
  BY WholeStep
<1>5. QED
  BY <1>1, <1>2, <1>3, <1>4, InitType, TypeStep, TableInit, TableStep, StateStep,
     RunDistinctStep, PTL DEF Spec

----------------------------------------------------------------------------
(* No lost wake-up.                                                        *)

OwnerQueued == \E q \in Rows : IsOwner(row, q, {"queued"})

(* A run that ended, and what the owner has not seen yet, is a signal that *)
(* is newer than the latest owner run, or an owner run is queued.          *)
SignalInv ==
    /\ ahead => \E q \in Rows : IsOwner(row, q, {"queued"}) /\ ~ row[q].due
    /\ \A q \in Rows : row[q].role = "subgoal" /\ row[q].status \in Ended
         => row[q].of \in worked \/ OwnerQueued
    /\ \A s \in unseen :
         /\ Status(s) = "failed" \/ (Status(s) = "verified" /\ s \notin Verified)
              => s \in worked \/ OwnerQueued
         /\ change[s] = "ready" => s \in worked \cup revised \/ OwnerQueued

(* When nothing is on its way the Coordinator has nothing to say.          *)
CalmInv == Quiet => ~ (OwnerAttention /\ NewSignal)

(* A queued owner run stays as it is, but for its claim, the end of its    *)
(* backoff and the bump of a new request.                                  *)
LEMMA QueuedStays ==
    ASSUME TypeInv, [Next]_vars, ~ BackoffOver, EnqueueOwner => UNCHANGED row
    PROVE  \A q \in Rows : IsOwner(row, q, {"queued"}) => row'[q] = row[q] \/ Claim(q)
<1> USE DEF IsOwner, Ended
<1>1. CASE KeepsRows
  BY <1>1 DEF KeepsRows, BeginCreate, Approve, Crash, ReconcileAllActive, vars, Pass,
              CancelSubGoal, MarkChangeIntegrating, MarkChangeIntegrated, MergeByHand
<1>2. CASE AsksOwner
  BY <1>2 DEF AsksOwner, WakeOwner, RejectReview, ReconcileGoal
<1>3. CASE Recover
  BY <1>3, RunsRecovered
<1>4. ASSUME NEW s \in SubGoals, AsksSub(s)
      PROVE  \A q \in Rows : IsOwner(row, q, {"queued"}) => row'[q] = row[q]
  <2>1. s # NoSub /\ row \in [Rows -> Shaped] /\ row' \in [Rows -> Shaped]
        /\ Added(row, row', "subgoal", s)
    BY <1>4, RowsOfSubAsked, SubGoalAssumption DEF TypeInv
  <2>2. QED
    BY <2>1, AddedRows DEF Roles
<1>5. ASSUME NEW s \in SubGoals, DropQueued(s)
      PROVE  \A q \in Rows : IsOwner(row, q, {"queued"}) => row'[q] = row[q]
  <2>1. \A q \in Rows : row[q].role = "owner" => row[q].of # s
    BY RowAt, RowFields, SubGoalAssumption
  <2>2. QED
    BY <1>5, <2>1, RunsDropped
<1>6. ASSUME NEW r \in Rows, Claim(r)
      PROVE  \A q \in Rows : IsOwner(row, q, {"queued"}) => row'[q] = row[q] \/ Claim(q)
  BY <1>6, RunClaimed
<1>7. ASSUME NEW r \in Rows, Reconciles(r)
      PROVE  \A q \in Rows : IsOwner(row, q, {"queued"}) => row'[q] = row[q]
  BY <1>7, ReconciledRows
<1>8. ASSUME NEW r \in Rows, NEW how \in Ended, NEW c \in BOOLEAN, Finish(r, how, c)
      PROVE  \A q \in Rows : IsOwner(row, q, {"queued"}) => row'[q] = row[q]
  BY <1>8, RunFinished
<1>9. QED
  BY <1>1, <1>2, <1>3, <1>4, <1>5, <1>6, <1>7, <1>8, StepKinds

(* The ended runs of assignees after a step, but for the end of one.       *)
LEMMA EndedSubs ==
    ASSUME TypeInv, [Next]_vars,
           ~ \E r \in Rows, how \in Ended, c \in BOOLEAN : Finish(r, how, c)
    PROVE  \A q \in Rows : row'[q].role = "subgoal" /\ row'[q].status \in Ended
             => row[q].role = "subgoal" /\ row[q].status \in Ended /\ row'[q].of = row[q].of
<1> USE DEF Ended
<1>1. CASE KeepsRows
  BY <1>1, RowsKept DEF Kept
<1>2. CASE AsksOwner
  BY <1>2, RowsOfOwnerAsked DEF Kept
<1>3. CASE Recover
  BY <1>3, RunsRecovered, FreeIsShaped DEF Became
<1>4. ASSUME NEW s \in SubGoals, AsksSub(s)
      PROVE  \A q \in Rows : row'[q].status \in Ended => row'[q] = row[q]
  <2>1. s # NoSub /\ row \in [Rows -> Shaped] /\ row' \in [Rows -> Shaped]
        /\ Added(row, row', "subgoal", s)
    BY <1>4, RowsOfSubAsked, SubGoalAssumption DEF TypeInv
  <2>2. QED
    BY <2>1, AddedRows DEF Roles
<1>5. ASSUME NEW s \in SubGoals, DropQueued(s)
      PROVE  \A q \in Rows : row'[q].status \in Ended => row'[q] = row[q]
  BY <1>5, RunsDropped, FreeIsShaped
<1>6. ASSUME NEW r \in Rows, Claim(r)
      PROVE  \A q \in Rows : row'[q].status \in Ended => row'[q] = row[q]
  BY <1>6, RunClaimed DEF Became
<1>7. ASSUME NEW r \in Rows, Reconciles(r)
      PROVE  \A q \in Rows : row'[q].status \in Ended => row'[q] = row[q]
  BY <1>7, ReconciledRows, FreeIsShaped
<1>8. QED
  BY <1>1, <1>2, <1>3, <1>4, <1>5, <1>6, <1>7, StepKinds

(* With an owner run queued nothing else has to be said.                   *)
LEMMA SignalQueued ==
    ASSUME OwnerQueued',
           ahead' => \E q \in Rows : IsOwner(row', q, {"queued"}) /\ ~ row'[q].due
    PROVE  SignalInv'
  BY DEF SignalInv, OwnerQueued, IsOwner

LEMMA SignalKept ==
    ASSUME SignalInv, ahead' => ahead, worked \subseteq worked', revised \subseteq revised',
           \A q \in Rows : IsOwner(row, q, {"queued"}) => row'[q] = row[q],
           \A q \in Rows : row'[q].role = "subgoal" /\ row'[q].status \in Ended =>
              \/ row[q].role = "subgoal" /\ row[q].status \in Ended /\ row'[q].of = row[q].of
              \/ row'[q].of \in worked' \/ ahead,
           \A s \in unseen' :
              Status(s)' = "failed" \/ (Status(s)' = "verified" /\ s \notin Verified) =>
                 \/ s \in unseen /\ Status(s)' = Status(s)
                 \/ s \in worked \/ OwnerQueued,
           \A s \in unseen' : change'[s] = "ready" =>
              \/ s \in unseen /\ change[s] = "ready"
              \/ s \in worked \cup revised' \/ OwnerQueued
    PROVE  SignalInv'
<1>1. OwnerQueued => OwnerQueued'
  BY DEF OwnerQueued, IsOwner
<1>2. ahead => OwnerQueued
  BY DEF SignalInv, OwnerQueued
<1>3. ahead' => \E q \in Rows : IsOwner(row', q, {"queued"}) /\ ~ row'[q].due
  BY DEF SignalInv, IsOwner
<1>4. \A q \in Rows : row'[q].role = "subgoal" /\ row'[q].status \in Ended
        => row'[q].of \in worked' \/ OwnerQueued'
  BY <1>1, <1>2 DEF SignalInv
<1>5. ASSUME NEW s \in unseen'
      PROVE  /\ Status(s)' = "failed" \/ (Status(s)' = "verified" /\ s \notin Verified)
                  => s \in worked' \/ OwnerQueued'
             /\ change'[s] = "ready" => s \in worked' \cup revised' \/ OwnerQueued'
  BY <1>1, <1>5 DEF SignalInv
<1>6. QED
  BY <1>3, <1>4, <1>5 DEF SignalInv, IsOwner

LEMMA SignalStep ==
    ASSUME TypeInv, TableInv, StateInv, SignalInv, "slow_reconcile" \notin Ops, [Next]_vars
    PROVE  SignalInv'
<1> USE DEF coordVars, handVars, procVars
<1>1. CASE EnqueueOwner /\ ~ UNCHANGED <<row, worked, revised, ahead, cut>>
  <2>1. ahead' = FALSE /\ \E q \in Rows : row'[q].role = "owner" /\ row'[q].status = "queued"
    BY <1>1, OwnerAsked
  <2>2. OwnerQueued'
    BY <2>1 DEF OwnerQueued, IsOwner
  <2>3. QED
    BY <2>1, <2>2, SignalQueued
<1>2. CASE BackoffOver
  <2>1. \A q \in Rows : Kept(row, row', q)
    BY <1>2, RunsDue
  <2>2. OwnerQueued => OwnerQueued'
    BY <2>1 DEF OwnerQueued, IsOwner, Kept
  <2>3. /\ ~ ahead' /\ UNCHANGED <<worked, revised, unseen, change>>
        /\ \A s \in unseen : Status(s)' = Status(s)
    BY <1>2 DEF BackoffOver, Status
  <2>4. \A q \in Rows : row'[q].role = "subgoal" /\ row'[q].status \in Ended
          => row'[q].of \in worked' \/ OwnerQueued'
    BY <2>1, <2>2, <2>3 DEF SignalInv, Kept
  <2>5. ASSUME NEW s \in unseen'
        PROVE  /\ Status(s)' = "failed" \/ (Status(s)' = "verified" /\ s \notin Verified)
                    => s \in worked' \/ OwnerQueued'
               /\ change'[s] = "ready" => s \in worked' \cup revised' \/ OwnerQueued'
    BY <2>2, <2>3, <2>5 DEF SignalInv
  <2>6. QED
    BY <2>3, <2>4, <2>5 DEF SignalInv
<1>3. ASSUME NEW r \in Rows, Claim(r) PROVE SignalInv'
  <2>1. /\ row[r].due /\ \A q \in Rows : row[q].status \notin Ended
        /\ UNCHANGED <<ahead, worked, revised, change>>
        /\ unseen' = IF row[r].role = "owner" THEN {} ELSE unseen
        /\ \A s \in unseen : Status(s)' = Status(s)
    BY <1>3 DEF Claim, MayClaim, Status
  <2>2. row'[r].status = "running" /\ \A q \in Rows \ {r} : row'[q] = row[q]
    BY <1>3, RunClaimed DEF Became
  <2>3. ahead' => \E q \in Rows : IsOwner(row', q, {"queued"}) /\ ~ row'[q].due
    BY <2>1, <2>2 DEF SignalInv, IsOwner
  <2>4. \A q \in Rows : row'[q].status \notin Ended
    BY <2>1, <2>2 DEF Ended
  <2>5. row[r].role # "owner" => (OwnerQueued => OwnerQueued')
    BY <2>2 DEF OwnerQueued, IsOwner
  <2>6. ASSUME NEW s \in unseen'
        PROVE  /\ Status(s)' = "failed" \/ (Status(s)' = "verified" /\ s \notin Verified)
                    => s \in worked' \/ OwnerQueued'
               /\ change'[s] = "ready" => s \in worked' \cup revised' \/ OwnerQueued'
    BY <2>1, <2>5, <2>6 DEF SignalInv
  <2>7. QED
    BY <2>3, <2>4, <2>6 DEF SignalInv, IsOwner
<1>4. CASE /\ ~ BackoffOver /\ ~ \E r \in Rows : Claim(r)
           /\ EnqueueOwner => UNCHANGED <<row, worked, revised, ahead, cut>>
  <2>1. \A q \in Rows : IsOwner(row, q, {"queued"}) => row'[q] = row[q]
    BY <1>4, QueuedStays
  <2>3. ASSUME NEW r \in Rows, NEW how \in Ended, NEW c \in BOOLEAN, Finish(r, how, c)
        PROVE  SignalInv'
    <3>1. Became(row, row', r, how) /\ \A q \in Rows \ {r} : row'[q] = row[q]
      BY <2>3, RunFinished
    <3>2. row[r].role = "subgoal" => row[r].of \in worked' \/ ahead
      BY <2>3 DEF Finish
    <3>3. /\ ahead' = ahead /\ worked \subseteq worked' /\ UNCHANGED <<revised, unseen, change>>
          /\ \A o \in unseen : Status(o)' = Status(o)
      BY <2>3 DEF Finish, Status
    <3>4. \A q \in Rows : row'[q].role = "subgoal" /\ row'[q].status \in Ended =>
             \/ row[q].role = "subgoal" /\ row[q].status \in Ended /\ row'[q].of = row[q].of
             \/ row'[q].of \in worked' \/ ahead
      BY <3>1, <3>2 DEF Became
    <3>5. QED
      BY <2>1, <3>3, <3>4, SignalKept
  <2>4. CASE ~ \E r \in Rows, how \in Ended, c \in BOOLEAN : Finish(r, how, c)
    <3>1. \A q \in Rows : row'[q].role = "subgoal" /\ row'[q].status \in Ended
            => row[q].role = "subgoal" /\ row[q].status \in Ended /\ row'[q].of = row[q].of
      BY <2>4, EndedSubs
    <3>2. ASSUME UNCHANGED <<ahead, worked, revised>>, unseen' \subseteq unseen,
                 \A s \in unseen' : Status(s)' = Status(s) \/ Status(s)' \notin {"failed", "verified"},
                 \A s \in unseen' : change'[s] = "ready" => change[s] = "ready"
          PROVE  SignalInv'
      BY <2>1, <3>1, <3>2, SignalKept
    <3>3. ASSUME NEW r \in Rows, Pass(r) PROVE SignalInv'
      <4>1. PICK s \in SubGoals :
               /\ Status(s) = "verifying" /\ Status(s)' = "verified"
               /\ \A o \in SubGoals \ {s} : Status(o)' = Status(o)
               /\ Materialize(s) /\ unseen' = unseen \cup {s}
        BY <3>3, PassedStatus
      <4>2. s \in Verified /\ change[s] # "ready"
        BY <4>1 DEF StateInv, VerifyOK, ChangeOK
      <4>3. UNCHANGED <<ahead, worked>> /\ unseen \subseteq SubGoals
        BY <3>3 DEF Pass, TypeInv, TypeOK
      <4>4. /\ revised \subseteq revised' /\ \A o \in SubGoals \ {s} : change'[o] = change[o]
            /\ change'[s] = "ready" => s \in revised' \/ ahead
        BY <4>1, <4>2 DEF Materialize, TypeInv, TypeOK
      <4>5. ahead => OwnerQueued
        BY DEF SignalInv, OwnerQueued
      <4>6. ASSUME NEW o \in unseen'
            PROVE  /\ Status(o)' = "failed" \/ (Status(o)' = "verified" /\ o \notin Verified) =>
                         \/ o \in unseen /\ Status(o)' = Status(o)
                         \/ o \in worked \/ OwnerQueued
                   /\ change'[o] = "ready" =>
                         \/ o \in unseen /\ change[o] = "ready"
                         \/ o \in worked \cup revised' \/ OwnerQueued
        BY <4>1, <4>2, <4>3, <4>4, <4>5, <4>6
      <4>7. QED
        BY <2>1, <3>1, <4>3, <4>4, <4>6, SignalKept
    <3>4. ASSUME NEW r \in Rows, ReconcileSubGoalRun(r) PROVE SignalInv'
      <4>1. PICK s \in SubGoals :
               /\ s = row[r].of /\ \A o \in SubGoals \ {s} : Status(o)' = Status(o)
               /\ \/ Status(s)' = Status(s)
                       /\ UNCHANGED <<change, coded, landed, revised, unseen>>
                  \/ /\ Status(s)' = "verifying"
                     /\ UNCHANGED <<change, coded, landed, revised, unseen>>
                  \/ Materialize(s) /\ unseen' = unseen \cup {s}
                  \/ UNCHANGED <<change, coded, landed, revised>> /\ unseen' = unseen \cup {s}
        BY <3>4, ReconciledStatus
      <4>2. s \in worked \/ OwnerQueued
        BY <3>4, <4>1 DEF ReconcileSubGoalRun, Reconcilable, SignalInv
      <4>3. UNCHANGED <<ahead, worked>> /\ unseen \subseteq SubGoals
        BY <3>4 DEF ReconcileSubGoalRun, TypeInv, TypeOK
      <4>4. /\ revised \subseteq revised' /\ unseen' \subseteq unseen \cup {s}
            /\ \A o \in SubGoals \ {s} : change'[o] = change[o]
        BY <4>1 DEF Materialize, TypeInv, TypeOK
      <4>5. QED
        BY <2>1, <3>1, <4>1, <4>2, <4>3, <4>4, SignalKept
    <3>5. ASSUME NEW s \in SubGoals, AsksSub(s) PROVE SignalInv'
      <4>1. Status(s)' = "running" /\ \A o \in SubGoals \ {s} : Status(o)' = Status(o)
        BY <3>5, SubAskedStatus
      <4>2. UNCHANGED <<ahead, worked, revised>> /\ unseen' \subseteq unseen /\ unseen \subseteq SubGoals
        BY <3>5 DEF AsksSub, CreateSubGoal, EndCreate, Born, RetrySubGoal, MarkChangeConflict,
                    Reject, TypeInv, TypeOK
      <4>3. \A o \in SubGoals : change'[o] = "ready" => change[o] = "ready"
        BY <3>5 DEF AsksSub, CreateSubGoal, EndCreate, Born, RetrySubGoal, MarkChangeConflict,
                    Reject, TypeInv, TypeOK
      <4>4. QED
        BY <3>2, <4>1, <4>2, <4>3
    <3>6. ASSUME NEW s \in SubGoals,
                 CancelSubGoal(s) \/ MarkChangeIntegrating(s) \/ MarkChangeIntegrated(s)
          PROVE  SignalInv'
      <4>1. UNCHANGED <<ahead, worked, revised, unseen>> /\ unseen \subseteq SubGoals
        BY <3>6 DEF CancelSubGoal, MarkChangeIntegrating, MarkChangeIntegrated, TypeInv, TypeOK
      <4>2. \A o \in SubGoals : change'[o] = "ready" => change[o] = "ready"
        BY <3>6 DEF CancelSubGoal, MarkChangeIntegrating, MarkChangeIntegrated, TypeInv, TypeOK
      <4>3. \A o \in SubGoals : Status(o)' = Status(o) \/ Status(o)' = "cancelled"
        BY <3>6, CancelledStatus DEF MarkChangeIntegrating, MarkChangeIntegrated, Status
      <4>4. QED
        BY <3>2, <4>1, <4>2, <4>3
    <3>7. ASSUME NEW r \in Rows, ReconcileOwnerRun(r) PROVE SignalInv'
      <4>1. /\ UNCHANGED unseen /\ unseen \subseteq SubGoals
            /\ \A s \in SubGoals : Status(s)' = Status(s)
            /\ \A s \in SubGoals : change'[s] = "ready" => change[s] = "ready"
        BY <3>7, ClearedChange DEF ReconcileOwnerRun, TypeInv, TypeOK, Status
      <4>2. CASE UNCHANGED <<worked, revised, ahead>>
        BY <3>2, <4>1, <4>2
      <4>3. CASE Became(row, row', r, "queued") /\ ~ row'[r].due
        <5>1. IsOwner(row', r, {"queued"})
          BY <3>7, <4>3 DEF ReconcileOwnerRun, Reconcilable, Became, IsOwner
        <5>2. QED
          BY <4>3, <5>1, SignalQueued DEF OwnerQueued, IsOwner
      <4>4. QED
        BY <3>7, <4>2, <4>3, OwnerRunReconciled
    <3>8. CASE AsksOwner
      <4>1. UNCHANGED <<ahead, worked, revised>>
        BY <1>4, <3>8 DEF AsksOwner, WakeOwner, RejectReview, ReconcileGoal
      <4>2. /\ UNCHANGED unseen /\ unseen \subseteq SubGoals
            /\ \A s \in SubGoals : Status(s)' = Status(s)
            /\ \A s \in SubGoals : change'[s] = "ready" => change[s] = "ready"
        BY <3>8, ClearedChange
        DEF AsksOwner, WakeOwner, RejectReview, ReconcileGoal, TypeInv, TypeOK, Status
      <4>3. QED
        BY <3>2, <4>1, <4>2
    <3>9. CASE UNCHANGED <<sub, change, ahead, worked, revised, unseen>>
      BY <3>2, <3>9 DEF Status
    <3>10. QED
      BY <1>4, <2>4, <3>3, <3>4, <3>5, <3>6, <3>7, <3>8, <3>9, StepKinds
      DEF KeepsRows, BeginCreate, Approve, Crash, ReconcileAllActive, vars, MergeByHand,
          Reconciles, ReconcileVerifyRun, DropQueued, Recover
  <2>5. QED
    BY <2>3, <2>4
<1>5. QED
  BY <1>1, <1>2, <1>3, <1>4

(* The rows of owner runs stay in use until such a run is reconciled.      *)
LEMMA OwnerAwaited ==
    ASSUME TypeInv, [Next]_vars, ~ Recover, ~ \E r \in Rows : ReconcileOwnerRun(r)
    PROVE  Awaited(NoSub, "owner") => Awaited(NoSub, "owner")'
<1> DEFINE Stays == \A q \in Rows : IsOwner(row, q, Pending \cup Ended)
                      => row'[q].status # "free" /\ row'[q].role = "owner"
                         /\ row'[q].of = row[q].of
<1> USE DEF IsOwner, Pending, Ended
<1>1. CASE KeepsRows
  <2>1. Stays
    BY <1>1, RowsKept DEF Kept
  <2>2. QED
    BY <2>1, RowAt, RowFields DEF Awaited, RowStatus
<1>2. CASE AsksOwner
  <2>1. Stays
    BY <1>2, RowsOfOwnerAsked DEF Kept
  <2>2. QED
    BY <2>1, RowAt, RowFields DEF Awaited, RowStatus
<1>3. ASSUME NEW s \in SubGoals, AsksSub(s) PROVE Stays
  <2>1. s # NoSub /\ row \in [Rows -> Shaped] /\ row' \in [Rows -> Shaped]
        /\ Added(row, row', "subgoal", s)
    BY <1>3, RowsOfSubAsked, SubGoalAssumption DEF TypeInv
  <2>2. QED
    BY <2>1, AddedRows DEF Roles
<1>4. ASSUME NEW s \in SubGoals, DropQueued(s) PROVE Stays
  <2>1. \A q \in Rows : row[q].role = "owner" => row[q].of # s
    BY RowAt, RowFields, SubGoalAssumption
  <2>2. QED
    BY <1>4, <2>1, RunsDropped
<1>5. ASSUME NEW r \in Rows, Claim(r) PROVE Stays
  BY <1>5, RunClaimed DEF Became
<1>6. ASSUME NEW r \in Rows, Reconciles(r), ~ ReconcileOwnerRun(r) PROVE Stays
  <2>1. row[r].role # "owner"
    BY <1>6 DEF Reconciles, ReconcileSubGoalRun, ReconcileVerifyRun, Reconcilable
  <2>2. QED
    BY <1>6, <2>1, ReconciledRows
<1>7. ASSUME NEW r \in Rows, NEW how \in Ended, NEW c \in BOOLEAN, Finish(r, how, c)
      PROVE  Stays
  BY <1>7, RunFinished DEF Became
<1>8. Stays => (Awaited(NoSub, "owner") => Awaited(NoSub, "owner")')
  BY RowAt, RowFields DEF Awaited, RowStatus
<1>9. QED
  BY <1>1, <1>2, <1>3, <1>4, <1>5, <1>6, <1>7, <1>8, StepKinds

(* What can only make the Coordinator silent.                              *)
LEMMA AttentionShrinks ==
    ASSUME \A s \in SubGoals :
              /\ Status(s)' \in {"failed", "verified"} => Status(s)' = Status(s)
              /\ change'[s] = "ready" => change[s] = "ready"
              /\ s \in worked' => s \in worked \/ Status(s)' \notin {"failed", "verified"}
           , worked' \subseteq SubGoals, revised' \subseteq revised,
           (OwnerAttention /\ NewSignal)'
    PROVE  OwnerAttention /\ NewSignal
<1>1. NewSignal
  BY DEF NewSignal, HasStatus, Ready
<1>2. OwnerAttention
  BY DEF OwnerAttention, HasStatus, Ready
<1>3. QED
  BY <1>1, <1>2

LEMMA CalmStep ==
    ASSUME TypeInv, TableInv, StateInv, CalmInv, [Next]_vars
    PROVE  CalmInv'
<1> USE DEF coordVars, handVars, procVars
<1> SUFFICES ASSUME Quiet', (OwnerAttention /\ NewSignal)' PROVE FALSE
  BY DEF CalmInv
<1>0. /\ daemon' = "up" /\ goal' = "active" /\ ~ hint' /\ ~ cut'
      /\ ~ Awaited(NoSub, "owner")' /\ worked' \subseteq SubGoals
  BY TypeStep DEF Quiet, TypeInv, TypeOK
<1>1. ASSUME EnqueueOwner PROVE FALSE
  <2>1. With(row', "owner", NoSub) # {}
    BY <1>1, OwnerAsked
  <2>2. QED
    BY <1>0, <2>1 DEF With, Awaited, Pending
<1>2. CASE ReconcileGoal
  <2>1. /\ ~ (OwnerAttention /\ NewSignal) /\ UNCHANGED <<worked, revised>>
        /\ \A s \in SubGoals : Status(s)' = Status(s)
    BY <1>0, <1>1, <1>2 DEF ReconcileGoal, Status
  <2>2. \A s \in SubGoals : change'[s] = "ready" => change[s] = "ready"
    BY <1>2, ClearedChange DEF ReconcileGoal
  <2>3. QED
    BY <1>0, <2>1, <2>2, AttentionShrinks
<1>3. /\ ~ Recover /\ ~ Crash /\ ~ ReconcileAllActive /\ ~ Approve
      /\ \A r \in Rows : ~ Pass(r) /\ ~ Reconciles(r)
      /\ \A s \in SubGoals : ~ MarkChangeIntegrated(s) /\ ~ MarkChangeConflict(s)
  BY <1>0 DEF Recover, Crash, ReconcileAllActive, Approve, Pass, Reconciles, ReconcileSubGoalRun,
      ReconcileVerifyRun, ReconcileOwnerRun, MarkChangeIntegrated, MarkChangeConflict
<1>4. ~ Awaited(NoSub, "owner")
  BY <1>0, <1>3, OwnerAwaited DEF Reconciles
<1>5. ASSUME UNCHANGED <<goal, daemon, hint, cut, revised>>,
             \A s \in SubGoals :
                /\ Status(s)' \in {"failed", "verified"} => Status(s)' = Status(s)
                /\ change'[s] = "ready" => change[s] = "ready"
                /\ s \in worked' => s \in worked \/ Status(s)' \notin {"failed", "verified"}
      PROVE  FALSE
  <2>1. OwnerAttention /\ NewSignal
    BY <1>0, <1>5, AttentionShrinks
  <2>2. QED
    BY <1>0, <1>4, <1>5, <2>1 DEF CalmInv, Quiet
<1>6. ASSUME NEW r \in Rows, NEW how \in Ended, NEW c \in BOOLEAN, Finish(r, how, c)
      PROVE  FALSE
  <2>1. Became(row, row', r, how)
    BY <1>6, RunFinished
  <2>2. row[r].role # "owner"
    BY <1>0, <2>1, RowAt, RowFields DEF Became, Awaited, Ended
  <2>3. /\ UNCHANGED <<goal, daemon, hint, cut, revised, change>>
        /\ \A s \in SubGoals : Status(s)' = Status(s)
        /\ worked' \subseteq worked \cup {row[r].of}
        /\ row[r].role # "subgoal" => worked' = worked
    BY <1>6, <2>2 DEF Finish, Status
  <2>4. \A s \in SubGoals : row[r].role = "subgoal" /\ s = row[r].of
           => Status(s) \notin {"failed", "verified"}
    BY <1>6, RunFinished DEF TableInv, IdleSub, IsSub
  <2>5. QED
    BY <1>5, <2>3, <2>4
<1>8. ASSUME NEW s \in SubGoals, AsksSub(s) PROVE FALSE
  <2>1. Status(s)' = "running" /\ \A o \in SubGoals \ {s} : Status(o)' = Status(o)
    BY <1>8, SubAskedStatus
  <2>2. UNCHANGED <<goal, daemon, hint, cut, revised, worked, change>>
    BY <1>3, <1>8 DEF AsksSub, CreateSubGoal, EndCreate, Born, RetrySubGoal, Reject
  <2>3. QED
    BY <1>5, <2>1, <2>2
<1>9. ASSUME NEW s \in SubGoals, CancelSubGoal(s) PROVE FALSE
  <2>1. UNCHANGED <<goal, daemon, hint, cut, revised, worked, change>>
    BY <1>9 DEF CancelSubGoal
  <2>2. QED
    BY <1>5, <1>9, <2>1, CancelledStatus
<1>10. ASSUME NEW s \in SubGoals, MarkChangeIntegrating(s) PROVE FALSE
  <2>1. /\ UNCHANGED <<goal, daemon, hint, cut, revised, worked>>
        /\ \A o \in SubGoals : Status(o)' = Status(o)
    BY <1>10 DEF MarkChangeIntegrating, Status
  <2>2. \A o \in SubGoals : change'[o] = "ready" => change[o] = "ready"
    BY <1>10 DEF MarkChangeIntegrating, TypeInv, TypeOK
  <2>3. QED
    BY <1>5, <2>1, <2>2
<1>11. CASE UNCHANGED <<goal, daemon, hint, cut, revised, worked, change, sub>>
  BY <1>5, <1>11 DEF Status
<1>12. QED
  BY <1>1, <1>2, <1>3, <1>6, <1>8, <1>9, <1>10, <1>11, StepKinds
  DEF KeepsRows, AsksOwner, WakeOwner, RejectReview, BackoffOver, BeginCreate, vars, MergeByHand,
      DropQueued, Claim

(* No wake-up is lost: when nothing is on its way and the last owner run   *)
(* was not cancelled, the owner has been run after every revision that is  *)
(* ready, every failure and every verification by the machine.  Each of    *)
(* these is a signal newer than the latest owner run, or one is queued;    *)
(* and the Coordinator leaves no signal behind: whatever raises one, a     *)
(* restart included, ends with a hint.  The premise leaves out a claim     *)
(* between the end of a run and its reconciliation.                        *)
THEOREM WakeUpNotLost ==
    ASSUME "slow_reconcile" \notin Ops
    PROVE  Spec => []ReadyIsSeen
<1>1. Init => SignalInv /\ CalmInv
  <2> SUFFICES ASSUME Init PROVE SignalInv /\ CalmInv
    OBVIOUS
  <2>1. \A r \in Rows : row[r].status \in {"free", "queued"}
    BY DEF Init, FreeRow
  <2>2. SignalInv
    BY <2>1 DEF Init, SignalInv, Ended
  <2>3. ~ NewSignal
    BY DEF Init, NewSignal, HasStatus
  <2>4. QED
    BY <2>2, <2>3 DEF CalmInv
<1>2. TypeInv /\ StateInv /\ SignalInv /\ CalmInv => ReadyIsSeen
  <2> SUFFICES ASSUME TypeInv, StateInv, SignalInv, CalmInv, Quiet, NEW s \in unseen
               PROVE  /\ Status(s) # "failed" /\ change[s] # "ready"
                      /\ s \notin Verified => Status(s) # "verified"
    BY DEF ReadyIsSeen, Unseen, Ready
  <2>1. s \in SubGoals /\ ~ OwnerQueued
    BY RowAt, RowFields DEF TypeInv, TypeOK, Quiet, Awaited, OwnerQueued, IsOwner
  <2>2. ~ (OwnerAttention /\ NewSignal)
    BY DEF CalmInv
  <2>3. CASE Status(s) = "failed"
    BY <2>1, <2>2, <2>3 DEF SignalInv, OwnerAttention, NewSignal, HasStatus
  <2>4. CASE change[s] = "ready"
    <3>1. Status(s) = "verified" /\ s \in Ready
      BY <2>1, <2>4 DEF StateInv, ChangeOK, Ready
    <3>2. s \in worked \cup revised
      BY <2>1, <2>4 DEF SignalInv
    <3>3. QED
      BY <2>1, <2>2, <3>1, <3>2 DEF OwnerAttention, NewSignal, HasStatus
  <2>5. CASE s \notin Verified /\ Status(s) = "verified" /\ change[s] # "ready"
    <3>1. s \in worked \ Ready
      BY <2>1, <2>5 DEF SignalInv, Ready
    <3>2. QED
      BY <2>2, <2>5, <3>1 DEF OwnerAttention, NewSignal, HasStatus
  <2>6. QED
    BY <2>3, <2>4, <2>5
<1>3. TypeInv /\ TableInv /\ StateInv /\ SignalInv /\ [Next]_vars => SignalInv'
  BY SignalStep
<1>4. TypeInv /\ TableInv /\ StateInv /\ CalmInv /\ [Next]_vars => CalmInv'
  BY CalmStep
<1>5. QED
  BY <1>1, <1>2, <1>3, <1>4, InitType, TypeStep, TableInit, TableStep, StateStep, PTL DEF Spec
============================================================================
