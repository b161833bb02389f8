-------------------------- MODULE ScheduleProofs --------------------------
(***************************************************************************)
(* Theorems about Schedule, for every set of schedules, goals and cron     *)
(* expressions and every bound on time, edits and crashes.                 *)
(***************************************************************************)
EXTENDS Schedule, SequenceTheorems, TLAPS

GoalStatus == {"none", "done", "failed", "cancelled", "deleted"} \cup GoalOpen
GoalRuns   == {"none", "completed", "failed", "cancelled"} \cup RunOpen
LoopType   == [pc : {"idle", "rows", "advance", "stale", "drop", "stamp"},
               todo : SUBSET (Due \cup Goals), now : SUBSET (Due \cup Goals)]

(* What the goroutine has in hand: rows in the tick, goals in the sweep.   *)
LoopOK ==
    /\ loop \in LoopType /\ loop.now \subseteq loop.todo
    /\ loop.pc # "idle" => loop.todo # {}
    /\ loop.pc \in {"advance", "drop", "stamp"} => loop.now # {}
    /\ loop.pc \in {"rows", "advance"} => loop.todo \subseteq Due
    /\ loop.pc \in {"stale", "drop", "stamp"} => loop.todo \subseteq Goals

(* A seeder that marks a row or fires it has created one.                  *)
SeedOK == \A p \in Seeders : seeder[p].pc \in {"mark", "now"} => seeder[p].id \in BuiltIn

TypeInv == TypeOK /\ LoopOK /\ SeedOK

----------------------------------------------------------------------------
(* Occurrences.                                                            *)

LEMMA AfterIsLater ==
    ASSUME NEW every \in Periods, NEW t \in Nat
    PROVE  After(every, t) \in Nat /\ After(every, t) > t
<1>1. every \in Nat \ {0}
  BY ScheduleAssumption
<1>2. QED
  BY <1>1 DEF After

LEMMA CronIsLater ==
    ASSUME NEW every \in Periods, NEW t \in Nat
    PROVE  /\ Cron(every, t) \in Instant /\ Cron(every, t).at > t
           /\ Cron(every, t).now = FALSE
  BY AfterIsLater DEF Cron, Instant

LEMMA Clock == TypeInv => clock \in Nat /\ upSince \in Nat
  BY ScheduleAssumption DEF TypeInv, TypeOK

LEMMA RowFields ==
    ASSUME TypeInv, NEW s \in Schedules
    PROVE  /\ schedule[s] \in Row /\ schedule[s].every \in Periods
           /\ schedule[s].next \in Instant /\ schedule[s].next.at \in Nat
           /\ schedule[s].alive \in BOOLEAN /\ schedule[s].enabled \in BOOLEAN
  BY DEF TypeInv, TypeOK, Row, Instant

LEMMA DueFields ==
    ASSUME NEW r \in Due
    PROVE  /\ r.id \in Schedules /\ r.every \in Periods /\ r.next \in Instant
           /\ r.next.at \in Nat /\ r.next.now \in BOOLEAN
  BY DEF Due, Instant

LEMMA GoalFields ==
    ASSUME TypeInv, NEW g \in Goals
    PROVE  /\ goal[g] \in Goal /\ goal[g].status \in GoalStatus /\ goal[g].run \in GoalRuns
           /\ goal[g].schedule \in Schedules /\ goal[g].planned \in Instant
           /\ goal[g].planned.at \in Nat /\ goal[g].planned.now \in BOOLEAN
           /\ goal[g].born \in Nat /\ goal[g].queued_at \in Nat /\ goal[g].missed \in BOOLEAN
           /\ goal[g].reopened \in BOOLEAN
  BY DEF TypeInv, TypeOK, Goal, GoalStatus, GoalRuns, Instant

(* The item in hand is one of the items to do.                             *)
LEMMA ItemInHand ==
    ASSUME TypeInv, loop.pc # "idle", NEW i \in Item
    PROVE  i \in loop.todo /\ (loop.now # {} => i \in loop.now)
  BY DEF TypeInv, LoopOK, Item

----------------------------------------------------------------------------
(* One slot of a table.                                                    *)

LEMMA NextSet ==
    ASSUME TypeInv, NEW s \in Schedules, NEW next \in Instant, schedule' = SetNext(s, next)
    PROVE  /\ schedule' \in [Schedules -> Row]
           /\ \A o \in Schedules \ {s} : schedule'[o] = schedule[o]
           /\ schedule[s].alive => /\ schedule'[s].next = next /\ schedule'[s].alive
                                   /\ schedule'[s].every = schedule[s].every
           /\ ~ schedule[s].alive => schedule'[s] = schedule[s]
  BY DEF SetNext, TypeInv, TypeOK, Row

LEMMA RowSet ==
    ASSUME TypeInv, NEW s \in Schedules, NEW v \in Row, schedule' = [schedule EXCEPT ![s] = v]
    PROVE  /\ schedule' \in [Schedules -> Row] /\ schedule'[s] = v
           /\ \A o \in Schedules \ {s} : schedule'[o] = schedule[o]
  BY DEF TypeInv, TypeOK

LEMMA NewRowType ==
    ASSUME TypeInv, NEW every \in Periods
    PROVE  NewRow(every) \in Row /\ NewRow(every).alive /\ NewRow(every).next.at > clock
  BY CronIsLater, Clock DEF NewRow, Row

(* A goal keeps its firing; only a person reopens it and only the sweep    *)
(* forgets that, only a claim starts its run, and only the stamp of the    *)
(* sweep calls it a miss.                                                  *)
Kept(g) ==
    /\ goal'[g].schedule = goal[g].schedule /\ goal'[g].planned = goal[g].planned
    /\ goal'[g].born = goal[g].born
    /\ goal'[g].status = "none" <=> goal[g].status = "none"
    /\ goal[g].status = "deleted" => goal'[g].status = "deleted"
    /\ goal'[g].status \in GoalOpen => goal[g].status \in GoalOpen \/ goal'[g].reopened
    /\ goal[g].reopened => goal'[g].reopened \/ (ExpireCancel(g) /\ g \in loop.todo)
    /\ goal'[g].status = "review" =>
         \/ goal[g].status = "review"
         \/ goal'[g].run = "completed" /\ (Completed(g) \/ FinishDigest(g))
    /\ goal'[g].run \in RunOpen => goal[g].run \in RunOpen \/ goal'[g].status = "active"
    /\ goal'[g].run = "running" => goal[g].run = "running" \/ Claim(g)
    /\ goal'[g].missed => goal[g].missed \/ (ExpireStamp(g) /\ g \in loop.now)

GoalsKept == goal' \in [Goals -> Goal] /\ \A q \in Goals : Kept(q)

LEMMA GoalSet ==
    ASSUME TypeInv, NEW g \in Goals, NEW v \in Goal, goal' = [goal EXCEPT ![g] = v],
           v.schedule = goal[g].schedule, v.planned = goal[g].planned, v.born = goal[g].born,
           v.status = "none" <=> goal[g].status = "none",
           goal[g].status = "deleted" => v.status = "deleted",
           v.status \in GoalOpen => goal[g].status \in GoalOpen \/ v.reopened,
           goal[g].reopened => v.reopened \/ (ExpireCancel(g) /\ g \in loop.todo),
           v.status = "review" => \/ goal[g].status = "review"
                                  \/ v.run = "completed" /\ (Completed(g) \/ FinishDigest(g)),
           v.run \in RunOpen => goal[g].run \in RunOpen \/ v.status = "active",
           v.run = "running" => goal[g].run = "running" \/ Claim(g),
           v.missed => goal[g].missed \/ (ExpireStamp(g) /\ g \in loop.now)
    PROVE  GoalsKept
<1>1. goal' \in [Goals -> Goal] /\ goal'[g] = v /\ \A h \in Goals \ {g} : goal'[h] = goal[h]
  BY DEF TypeInv, TypeOK
<1>2. QED
  BY <1>1 DEF GoalsKept, Kept

LEMMA StatusSet ==
    ASSUME NEW v \in Goal, NEW st \in GoalStatus
    PROVE  LET w == [v EXCEPT !.status = st]
           IN  /\ w \in Goal /\ w.status = st /\ w.run = v.run /\ w.missed = v.missed
               /\ w.schedule = v.schedule /\ w.planned = v.planned /\ w.born = v.born
               /\ w.reopened = v.reopened
  BY DEF Goal, GoalStatus

LEMMA RunSet ==
    ASSUME NEW v \in Goal, NEW rn \in GoalRuns
    PROVE  LET w == [v EXCEPT !.run = rn]
           IN  /\ w \in Goal /\ w.status = v.status /\ w.run = rn /\ w.missed = v.missed
               /\ w.schedule = v.schedule /\ w.planned = v.planned /\ w.born = v.born
               /\ w.reopened = v.reopened
  BY DEF Goal, GoalRuns

LEMMA MissedSet ==
    ASSUME NEW v \in Goal, NEW m \in BOOLEAN
    PROVE  LET w == [v EXCEPT !.missed = m]
           IN  /\ w \in Goal /\ w.status = v.status /\ w.run = v.run /\ w.missed = m
               /\ w.schedule = v.schedule /\ w.planned = v.planned /\ w.born = v.born
               /\ w.reopened = v.reopened
  BY DEF Goal

LEMMA DeletedSet ==
    ASSUME NEW v \in Goal
    PROVE  LET w == [v EXCEPT !.status = "deleted", !.run = "none", !.missed = FALSE]
           IN  /\ w \in Goal /\ w.status = "deleted" /\ w.run = "none" /\ w.missed = FALSE
               /\ w.schedule = v.schedule /\ w.planned = v.planned /\ w.born = v.born
               /\ w.reopened = v.reopened
  BY DEF Goal

----------------------------------------------------------------------------
(* The steps, by what they do to the goals.                                *)

FiredGoal(r) ==
    [status |-> "active", schedule |-> r.id, planned |-> r.next, born |-> clock,
     missed |-> FALSE, reopened |-> FALSE, run |-> "queued", queued_at |-> clock]
Fired(r, g) ==
    /\ FireSchedule(r) /\ goal[g].status = "none" /\ goal' = [goal EXCEPT ![g] = FiredGoal(r)]

LEMMA HandledRow ==
    ASSUME TypeInv, HandleRow
    PROVE  \E r \in Due : /\ r \in loop.todo /\ (loop.now # {} => r \in loop.now)
                          /\ \/ SkipMissed(r) \/ FireSchedule(r) \/ FireNothing(r)
                             \/ FireFails(r) \/ Advance(r)
<1>1. loop.pc \in {"rows", "advance"} /\ \E r \in Item :
         SkipMissed(r) \/ FireSchedule(r) \/ FireNothing(r) \/ FireFails(r) \/ Advance(r)
  BY DEF HandleRow
<1>2. QED
  BY <1>1, ItemInHand DEF TypeInv, LoopOK

LEMMA ExpiredGoal ==
    ASSUME TypeInv, ExpireStale
    PROVE  \E g \in Goals : /\ g \in loop.todo /\ (loop.now # {} => g \in loop.now)
                            /\ ExpireCancel(g) \/ ExpireDrop(g) \/ ExpireStamp(g)
<1>1. loop.pc \in {"stale", "drop", "stamp"} /\ \E g \in Item :
         ExpireCancel(g) \/ ExpireDrop(g) \/ ExpireStamp(g)
  BY DEF ExpireStale
<1>2. QED
  BY <1>1, ItemInHand DEF TypeInv, LoopOK

LEMMA FiredGoalType ==
    ASSUME TypeInv, NEW r \in Due
    PROVE  FiredGoal(r) \in Goal
  BY Clock, DueFields DEF FiredGoal, Goal, GoalOpen, RunOpen

LEMMA DroppedRun ==
    ASSUME TypeInv, NEW g \in Goals
    PROVE  LET rn == IF goal[g].run = "queued" THEN "cancelled" ELSE goal[g].run
           IN  rn \in GoalRuns /\ Dropped(g) = [goal EXCEPT ![g].run = rn]
  BY GoalFields DEF Dropped, GoalRuns, TypeInv, TypeOK

LEMMA GoalsStep ==
    ASSUME TypeInv, [Next]_vars
    PROVE  GoalsKept \/ \E r \in Due, g \in Goals : r \in loop.todo /\ Fired(r, g)
<1> USE DEF GoalOpen, RunOpen
<1>1. ASSUME UNCHANGED goal PROVE GoalsKept
  BY <1>1 DEF GoalsKept, Kept, TypeInv, TypeOK
<1>2. ASSUME NEW r \in Due, FireSchedule(r) PROVE \E g \in Goals : Fired(r, g)
  BY <1>2 DEF FireSchedule, Fired, FiredGoal
<1>3. ASSUME NEW g \in Goals, ExpireCancel(g), g \in loop.todo PROVE GoalsKept
  <2> DEFINE st == Cancels(g)
             v == [goal[g] EXCEPT !.status = st, !.reopened = FALSE]
  <2>1. /\ st \in GoalStatus /\ (st = "none" <=> goal[g].status = "none")
        /\ (goal[g].status = "deleted" => st = "deleted") /\ st \notin GoalOpen
    BY GoalFields DEF Cancels, GoalStatus
  <2>2. goal' = [goal EXCEPT ![g] = v]
    BY <1>3 DEF ExpireCancel
  <2> HIDE DEF st
  <2>3. /\ v \in Goal /\ v.status = st /\ v.run = goal[g].run /\ v.missed = goal[g].missed
        /\ v.schedule = goal[g].schedule /\ v.planned = goal[g].planned /\ v.born = goal[g].born
    BY <2>1, GoalFields DEF Goal, GoalStatus
  <2> HIDE DEF v
  <2>4. QED
    BY <1>3, <2>1, <2>2, <2>3, GoalSet
<1>4. ASSUME NEW g \in Goals, ExpireDrop(g) PROVE GoalsKept
  <2> DEFINE rn == IF goal[g].run = "queued" THEN "cancelled" ELSE goal[g].run
             v == [goal[g] EXCEPT !.run = rn]
  <2>1. /\ rn \in GoalRuns /\ (rn = "running" => goal[g].run = "running")
        /\ rn \in RunOpen => goal[g].run \in RunOpen
    BY DroppedRun
  <2>2. goal' = [goal EXCEPT ![g] = v]
    BY <1>4, DroppedRun DEF ExpireDrop
  <2> HIDE DEF rn
  <2>3. /\ v \in Goal /\ v.status = goal[g].status /\ v.run = rn /\ v.missed = goal[g].missed
        /\ v.schedule = goal[g].schedule /\ v.planned = goal[g].planned /\ v.born = goal[g].born
        /\ v.reopened = goal[g].reopened
    BY <2>1, GoalFields, RunSet
  <2> HIDE DEF v
  <2>4. QED
    BY <2>1, <2>2, <2>3, GoalSet
<1>5. ASSUME NEW g \in Goals, ExpireStamp(g), g \in loop.now PROVE GoalsKept
  <2> DEFINE m == goal[g].status # "deleted"
             v == [goal[g] EXCEPT !.missed = m]
  <2>1. goal' = [goal EXCEPT ![g] = v]
    BY <1>5 DEF ExpireStamp
  <2>2. m \in BOOLEAN
    OBVIOUS
  <2> HIDE DEF m
  <2>3. /\ v \in Goal /\ v.status = goal[g].status /\ v.run = goal[g].run
        /\ v.schedule = goal[g].schedule /\ v.planned = goal[g].planned /\ v.born = goal[g].born
        /\ v.reopened = goal[g].reopened
    BY <2>2, GoalFields, MissedSet
  <2> HIDE DEF v
  <2>4. QED
    BY <1>5, <2>1, <2>3, GoalSet
<1>6. ASSUME NEW g \in Goals, NEW st \in GoalStatus, NEW rn \in GoalRuns, GoalStep(g, st, rn),
             st = "none" <=> goal[g].status = "none",
             goal[g].status = "deleted" => st = "deleted",
             st \in GoalOpen => goal[g].status \in GoalOpen,
             st = "review" => \/ goal[g].status = "review"
                              \/ rn = "completed" /\ (Completed(g) \/ FinishDigest(g)),
             rn \in RunOpen => goal[g].run \in RunOpen \/ st = "active",
             rn = "running" => goal[g].run = "running" \/ Claim(g)
      PROVE  GoalsKept
  <2> DEFINE v == [goal[g] EXCEPT !.status = st, !.run = rn]
  <2>1. goal' = [goal EXCEPT ![g] = v]
    BY <1>6 DEF GoalStep
  <2>2. goal[g] \in Goal
    BY GoalFields
  <2>3. /\ v \in Goal /\ v.status = st /\ v.run = rn /\ v.missed = goal[g].missed
        /\ v.schedule = goal[g].schedule /\ v.planned = goal[g].planned /\ v.born = goal[g].born
        /\ v.reopened = goal[g].reopened
    BY <1>6, <2>2 DEF Goal, GoalStatus, GoalRuns
  <2> HIDE DEF v
  <2>4. QED
    BY <1>6, <2>1, <2>3, GoalSet
<1>7. ASSUME NEW g \in Goals, Claim(g) PROVE GoalsKept
  BY <1>6, <1>7, GoalFields DEF Claim, GoalRuns
<1>8. ASSUME NEW g \in Goals, Completed(g) PROVE GoalsKept
  BY <1>6, <1>8, GoalFields DEF Completed, GoalRuns, GoalStatus
<1>9. ASSUME NEW g \in Goals, Failed(g) PROVE GoalsKept
  <2>1. CASE goal' = [goal EXCEPT ![g].run = "queued", ![g].queued_at = clock]
    <3> DEFINE v == [goal[g] EXCEPT !.run = "queued", !.queued_at = clock]
    <3>1. goal' = [goal EXCEPT ![g] = v]
      BY <2>1
    <3>2. "queued" \in GoalRuns /\ goal[g] \in Goal /\ clock \in Nat
      BY GoalFields, Clock DEF GoalRuns
    <3>3. /\ v \in Goal /\ v.status = goal[g].status /\ v.run = "queued"
          /\ v.missed = goal[g].missed
          /\ v.schedule = goal[g].schedule /\ v.planned = goal[g].planned /\ v.born = goal[g].born
          /\ v.reopened = goal[g].reopened
      BY <3>2 DEF Goal, GoalRuns
    <3> HIDE DEF v
    <3>4. goal[g].run \in RunOpen
      BY <1>9 DEF Failed
    <3>5. QED
      BY <3>1, <3>3, <3>4, GoalSet
  <2>2. QED
    BY <1>6, <1>9, <2>1, GoalFields DEF Failed, GoalRuns, GoalStatus
<1>10. ASSUME NEW g \in Goals, FinishDigest(g) PROVE GoalsKept
  <2>1. CASE goal[g].run = "running"
    BY <1>6, <1>10, <2>1, GoalFields DEF FinishDigest, GoalRuns, GoalStatus
  <2>2. QED
    BY <1>1, <1>10, <2>1 DEF FinishDigest
<1>11. ASSUME NEW g \in Goals, NEW st \in GoalStatus, goal' = [goal EXCEPT ![g].status = st],
              goal[g].status = "review", st \in {"review", "done"}
       PROVE  GoalsKept
  <2> DEFINE v == [goal[g] EXCEPT !.status = st]
  <2>1. goal' = [goal EXCEPT ![g] = v]
    BY <1>11
  <2>2. /\ v \in Goal /\ v.status = st /\ v.run = goal[g].run /\ v.missed = goal[g].missed
        /\ v.schedule = goal[g].schedule /\ v.planned = goal[g].planned /\ v.born = goal[g].born
        /\ v.reopened = goal[g].reopened
    BY <1>11, GoalFields, StatusSet
  <2> HIDE DEF v
  <2>3. /\ v.status # "none" /\ goal[g].status = "review" /\ goal[g].status \in GoalOpen
        /\ goal[g].status \notin {"none", "deleted"}
    BY <1>11, <2>2
  <2>4. QED
    BY <2>1, <2>2, <2>3, GoalSet
<1>12. ASSUME NEW g \in Goals, ApproveDigest(g) \/ ApproveGoal(g) PROVE GoalsKept
  <2>1. CASE goal[g].status = "review"
    <3>1. "done" \in GoalStatus /\ goal' = [goal EXCEPT ![g].status = "done"]
      BY <1>12, <2>1 DEF ApproveDigest, ApproveFails, ApproveGoal, GoalStatus
    <3>2. QED
      BY <1>11, <2>1, <3>1
  <2>2. CASE goal[g].status # "review"
    <3>1. goal' = [goal EXCEPT ![g].status = goal[g].status]
      BY <1>12, <2>2 DEF ApproveDigest, ApproveFails, ApproveGoal
    <3>2. goal' = goal
      BY <3>1, GoalFields DEF Goal, TypeInv, TypeOK
    <3>3. QED
      BY <1>1, <3>2
  <2>3. QED
    BY <2>1, <2>2
<1>13. ASSUME NEW g \in Goals, CancelGoal(g) PROVE GoalsKept
  <2> DEFINE rn == IF goal[g].run = "queued" THEN "cancelled" ELSE goal[g].run
  <2>1. /\ rn \in GoalRuns /\ (rn = "running" => goal[g].run = "running")
        /\ rn \in RunOpen => goal[g].run \in RunOpen
        /\ Dropped(g) = [goal EXCEPT ![g].run = rn]
    BY DroppedRun
  <2> HIDE DEF rn
  <2>2. goal' = [[goal EXCEPT ![g].run = rn] EXCEPT ![g].status = "cancelled"]
    BY <1>13, <2>1 DEF CancelGoal
  <2>3. GoalStep(g, "cancelled", rn)
    BY <2>2, GoalFields DEF GoalStep, Goal, TypeInv, TypeOK
  <2>4. QED
    BY <1>6, <1>13, <2>1, <2>3 DEF CancelGoal, GoalStatus
<1>14. ASSUME NEW g \in Goals, DeleteGoal(g) PROVE GoalsKept
  <2> DEFINE v == [goal[g] EXCEPT !.status = "deleted", !.run = "none", !.missed = FALSE]
  <2>1. goal' = [goal EXCEPT ![g] = v] /\ goal[g].status # "none"
    BY <1>14 DEF DeleteGoal
  <2>2. /\ v \in Goal /\ v.status = "deleted" /\ v.run = "none" /\ v.missed = FALSE
        /\ v.schedule = goal[g].schedule /\ v.planned = goal[g].planned /\ v.born = goal[g].born
        /\ v.reopened = goal[g].reopened
    BY GoalFields, DeletedSet
  <2> HIDE DEF v
  <2>3. QED
    BY <2>1, <2>2, GoalSet
<1>22. ASSUME NEW g \in Goals, Reopen(g) PROVE GoalsKept
  <2> DEFINE rn == IF goal[g].run = "running" THEN goal[g].run ELSE "queued"
             q == IF goal[g].run = "running" THEN goal[g].queued_at ELSE clock
             v == [goal[g] EXCEPT !.status = "active", !.reopened = TRUE, !.run = rn,
                                  !.queued_at = q]
  <2>1. goal' = [goal EXCEPT ![g] = v]
    BY <1>22 DEF Reopen
  <2>2. rn \in GoalRuns /\ (rn = "running" => goal[g].run = "running") /\ q \in Nat
    BY GoalFields, Clock DEF GoalRuns
  <2> HIDE DEF rn, q
  <2>3. /\ v \in Goal /\ v.status = "active" /\ v.run = rn /\ v.missed = goal[g].missed
        /\ v.schedule = goal[g].schedule /\ v.planned = goal[g].planned /\ v.born = goal[g].born
        /\ v.reopened
    BY <2>2, GoalFields DEF Goal, GoalRuns
  <2> HIDE DEF v
  <2>4. goal[g].status # "none" /\ goal[g].status # "deleted"
    BY <1>22 DEF Reopen
  <2>5. QED
    BY <2>1, <2>2, <2>3, <2>4, GoalSet
<1>15. CASE Restart
  <2>1. ASSUME NEW g \in Goals PROVE goal'[g] \in Goal /\ Kept(g)
    <3>1. goal'[g] = Recovered(g)
      BY <1>15 DEF Restart
    <3>2. CASE goal[g].run # "running"
      BY <3>1, <3>2, GoalFields DEF Recovered, Kept
    <3>3. CASE goal[g].run = "running"
      <4> DEFINE rn == IF goal[g].status \in GoalOpen THEN "queued" ELSE "cancelled"
                 v == [goal[g] EXCEPT !.run = rn]
      <4>1. goal'[g] = v
        BY <3>1, <3>3 DEF Recovered
      <4>2. rn \in GoalRuns /\ rn # "running"
        BY DEF GoalRuns
      <4> HIDE DEF rn
      <4>3. /\ v \in Goal /\ v.status = goal[g].status /\ v.run = rn /\ v.missed = goal[g].missed
            /\ v.schedule = goal[g].schedule /\ v.planned = goal[g].planned
            /\ v.born = goal[g].born /\ v.reopened = goal[g].reopened
        BY <4>2, GoalFields, RunSet
      <4> HIDE DEF v
      <4>4. QED
        BY <3>3, <4>1, <4>2, <4>3 DEF Kept
    <3>4. QED
      BY <3>2, <3>3
  <2>2. QED
    BY <1>15, <2>1 DEF Restart, GoalsKept
<1>16. CASE HandleRow
  BY <1>1, <1>2, <1>16, HandledRow DEF SkipMissed, FireNothing, FireFails, Advance
<1>17. CASE ExpireStale
  <2>1. PICK g \in Goals : /\ g \in loop.todo /\ (loop.now # {} => g \in loop.now)
                           /\ ExpireCancel(g) \/ ExpireDrop(g) \/ ExpireStamp(g)
    BY <1>17, ExpiredGoal
  <2>2. ExpireStamp(g) => g \in loop.now
    BY <2>1 DEF ExpireStamp, TypeInv, LoopOK
  <2>3. QED
    BY <1>3, <1>4, <1>5, <2>1, <2>2
<1>18. ASSUME NEW g \in Goals, CloseDigest(g) PROVE GoalsKept
  BY <1>1, <1>10, <1>12, <1>18 DEF CloseDigest, WriteBatch, SkipBatch, WriteIndex,
      ApproveFails
<1>19. CASE Users
  BY <1>1, <1>12, <1>13, <1>14, <1>19, <1>22
  DEF Users, SetEnabled, IntakeEnable, IntakeEnabled, DeleteSchedule, Create, Update, userRest
<1>20. CASE Tick \/ Sweep \/ Seed \/ Pass \/ Machine \/ Crash \/ UNCHANGED vars
  BY <1>1, <1>20
  DEF Tick, Sweep, Seed, SeedHeal, SeedCreate, SeedMark, FireNow, seedRest, Pass, Machine, Crash, vars
<1>21. QED
  BY <1>7, <1>8, <1>9, <1>15, <1>16, <1>17, <1>18, <1>19, <1>20 DEF Next

----------------------------------------------------------------------------
(* The steps, by what they do to the loop and to the schedules.            *)

LEMMA WorkLoop ==
    ASSUME TypeInv, NEW pc \in {"advance", "drop", "stamp"}, NEW i \in loop.todo, Work(pc, i)
    PROVE  /\ loop' \in LoopType /\ loop'.pc = pc /\ loop'.todo = loop.todo /\ loop'.now = {i}
  BY DEF Work, TypeInv, LoopOK, LoopType

LEMMA HandledLoop ==
    ASSUME TypeInv, NEW pc \in {"rows", "stale"}, NEW i \in loop.todo, Handled(pc, i)
    PROVE  /\ loop' \in LoopType /\ loop'.todo = loop.todo \ {i} /\ loop'.now = {}
           /\ loop'.pc = IF loop.todo = {i} THEN "idle" ELSE pc
  BY DEF Handled, Idle, TypeInv, LoopOK, LoopType

LEMMA TickLoop ==
    ASSUME TypeInv, Tick
    PROVE  /\ loop' \in LoopType /\ loop'.pc = "rows" /\ loop'.now = {}
           /\ loop'.todo = {[id |-> s, every |-> schedule[s].every, next |-> schedule[s].next]
                              : s \in {o \in Schedules : IsDue(o)}}
           /\ loop'.todo \subseteq Due /\ loop'.todo # {}
<1> DEFINE todo == {[id |-> s, every |-> schedule[s].every, next |-> schedule[s].next]
                      : s \in {o \in Schedules : IsDue(o)}}
<1>1. todo \subseteq Due
  BY RowFields DEF Due
<1>2. todo # {}
  BY DEF Tick
<1>3. loop' = [pc |-> "rows", todo |-> todo, now |-> {}]
  BY DEF Tick, Idle
<1> HIDE DEF todo
<1>4. QED
  BY <1>1, <1>2, <1>3 DEF LoopType, todo

LEMMA LoopStep ==
    ASSUME TypeInv, [Next]_vars
    PROVE  LoopOK'
<1>1. CASE UNCHANGED loop
  BY <1>1 DEF TypeInv, LoopOK
<1>2. CASE Tick
  BY <1>2, TickLoop DEF LoopOK
<1>3. CASE HandleRow
  <2>1. PICK r \in Due : /\ r \in loop.todo
                         /\ \/ SkipMissed(r) \/ FireSchedule(r) \/ FireNothing(r)
                            \/ FireFails(r) \/ Advance(r)
    BY <1>3, HandledRow
  <2>2. loop.pc \in {"rows", "advance"} /\ loop.todo \subseteq Due
    BY <2>1 DEF SkipMissed, FireSchedule, FireNothing, Fires, FireFails, Advance, TypeInv, LoopOK
  <2>3. CASE Work("advance", r)
    BY <2>1, <2>2, <2>3, WorkLoop DEF LoopOK
  <2>4. CASE Handled("rows", r)
    BY <2>1, <2>2, <2>4, HandledLoop DEF LoopOK
  <2>5. QED
    BY <2>1, <2>3, <2>4
    DEF SkipMissed, FireSchedule, FireNothing, FireFails, Advance, RowDone
<1>4. CASE Sweep
  <2>1. loop' = [pc |-> "stale", todo |-> Stale, now |-> {}] /\ Stale \subseteq Goals
        /\ Stale # {}
    BY <1>4 DEF Sweep, Stale
  <2>2. QED
    BY <2>1 DEF LoopOK, LoopType
<1>5. CASE ExpireStale
  <2>1. PICK g \in Goals : /\ g \in loop.todo
                           /\ ExpireCancel(g) \/ ExpireDrop(g) \/ ExpireStamp(g)
    BY <1>5, ExpiredGoal
  <2>2. loop.todo \subseteq Goals
    BY <1>5 DEF ExpireStale, TypeInv, LoopOK
  <2>3. ASSUME NEW pc \in {"drop", "stamp"}, Work(pc, g) PROVE LoopOK'
    BY <2>1, <2>2, <2>3, WorkLoop DEF LoopOK
  <2>4. CASE Handled("stale", g)
    BY <2>1, <2>2, <2>4, HandledLoop DEF LoopOK
  <2>5. QED
    BY <2>1, <2>3, <2>4 DEF ExpireCancel, ExpireDrop, ExpireStamp
<1>6. CASE Crash
  BY <1>6 DEF Crash, Idle, LoopOK, LoopType
<1>7. QED
  BY <1>1, <1>2, <1>3, <1>4, <1>5, <1>6
  DEF Next, Claim, Completed, Failed, CloseDigest, closeRest, WriteBatch, SkipBatch, WriteIndex,
      FinishDigest, ApproveDigest, ApproveFails, Users, SetEnabled, IntakeEnable, IntakeEnabled, DeleteSchedule,
      Create, Update, userRest, CancelGoal, ApproveGoal, Reopen, DeleteGoal, Seed, SeedHeal, SeedCreate,
      SeedMark, FireNow, seedRest, Pass, Machine, Restart, vars

(* What a user, the seeder or the tick writes to a row: the row is dead    *)
(* then, or it keeps its occurrence, or it has a new one.                  *)
RowKept(s) ==
    /\ schedule'[s].alive => schedule[s].alive
    /\ schedule'[s].every = schedule[s].every /\ schedule'[s].next = schedule[s].next
RowLater(s) == schedule'[s].next.at > clock

RowsMove ==
    /\ schedule' \in [Schedules -> Row]
    /\ \/ \E r \in Due : /\ r \in loop.todo /\ (loop.now # {} => r \in loop.now)
                         /\ SkipMissed(r) \/ Advance(r)
       \/ \E p \in Seeders : FireNow(p)
       \/ \A s \in Schedules : RowKept(s) \/ RowLater(s)

LEMMA RowsStep ==
    ASSUME TypeInv, [Next]_vars
    PROVE  RowsMove
<1>1. ASSUME UNCHANGED schedule PROVE RowsMove
  BY <1>1 DEF RowsMove, RowKept, TypeInv, TypeOK
<1>2. ASSUME NEW s \in Schedules, NEW v \in Row, schedule' = [schedule EXCEPT ![s] = v],
             \/ v.next.at > clock
             \/ /\ v.every = schedule[s].every /\ v.next = schedule[s].next
                /\ v.alive => schedule[s].alive
      PROVE  RowsMove
  BY <1>2, RowSet DEF RowsMove, RowKept, RowLater
<1>3. CASE HandleRow
  <2>1. PICK r \in Due : /\ r \in loop.todo /\ (loop.now # {} => r \in loop.now)
                         /\ \/ SkipMissed(r) \/ FireSchedule(r) \/ FireNothing(r)
                            \/ FireFails(r) \/ Advance(r)
    BY <1>3, HandledRow
  <2>2. CASE SkipMissed(r)
    <3>1. SkippedTo(r) \in Instant
      BY DueFields, RowFields, CronIsLater, Clock DEF SkippedTo
    <3>2. schedule' \in [Schedules -> Row]
      BY <2>2, <3>1, DueFields, NextSet DEF SkipMissed
    <3>3. QED
      BY <2>1, <2>2, <3>2 DEF RowsMove
  <2>3. CASE Advance(r)
    <3>1. Cron(r.every, r.next.at) \in Instant
      BY DueFields, CronIsLater
    <3>2. schedule' \in [Schedules -> Row]
      BY <2>3, <3>1, DueFields, NextSet DEF Advance
    <3>3. QED
      BY <2>1, <2>3, <3>2 DEF RowsMove
  <2>4. QED
    BY <1>1, <2>1, <2>2, <2>3 DEF FireSchedule, FireNothing, FireFails
<1>4. ASSUME NEW s \in Schedules, NEW every \in Periods, Create(s, every) PROVE RowsMove
  BY <1>2, <1>4, NewRowType DEF Create
<1>5. ASSUME NEW s \in Schedules, NEW every \in Periods, Update(s, every) PROVE RowsMove
  <2> DEFINE next == Cron(every, clock)
             v == [schedule[s] EXCEPT !.every = every, !.next = next]
  <2>1. next \in Instant /\ next.at > clock /\ schedule[s] \in Row
    BY CronIsLater, Clock, RowFields
  <2>2. schedule' = [schedule EXCEPT ![s] = v]
    BY <1>5 DEF Update
  <2> HIDE DEF next
  <2>3. v \in Row /\ v.next = next
    BY <2>1 DEF Row
  <2> HIDE DEF v
  <2>4. QED
    BY <1>2, <2>1, <2>2, <2>3
<1>6. ASSUME NEW s \in Schedules, NEW b \in BOOLEAN, schedule' = [schedule EXCEPT ![s].enabled = b]
      PROVE  RowsMove
  <2> DEFINE v == [schedule[s] EXCEPT !.enabled = b]
  <2>1. schedule' = [schedule EXCEPT ![s] = v] /\ schedule[s] \in Row
    BY <1>6, RowFields
  <2>2. v \in Row /\ v.next = schedule[s].next /\ v.every = schedule[s].every
        /\ v.alive = schedule[s].alive
    BY <2>1 DEF Row
  <2> HIDE DEF v
  <2>3. QED
    BY <1>2, <2>1, <2>2
<1>7. ASSUME NEW s \in Schedules, DeleteSchedule(s) PROVE RowsMove
  <2> DEFINE v == [schedule[s] EXCEPT !.alive = FALSE]
  <2>1. schedule' = [schedule EXCEPT ![s] = v] /\ schedule[s] \in Row
    BY <1>7, RowFields DEF DeleteSchedule
  <2>2. v \in Row /\ v.next = schedule[s].next /\ v.every = schedule[s].every /\ ~ v.alive
    BY <2>1 DEF Row
  <2> HIDE DEF v
  <2>3. QED
    BY <1>2, <2>1, <2>2
<1>8. ASSUME NEW s \in Schedules, IntakeEnabled(s) PROVE RowsMove
  <2>1. Cron(schedule[s].every, clock) \in Instant /\ Cron(schedule[s].every, clock).at > clock
    BY RowFields, CronIsLater, Clock
  <2>2. QED
    BY <1>8, <2>1, NextSet DEF IntakeEnabled, RowsMove, RowKept, RowLater
<1>9. ASSUME NEW p \in Seeders, SeedCreate(p) PROVE RowsMove
  <2>1. DigestCron \in Periods /\ BuiltIn \subseteq Schedules
    BY ScheduleAssumption
  <2>2. QED
    BY <1>2, <1>9, <2>1, NewRowType DEF SeedCreate
<1>10. ASSUME NEW p \in Seeders, FireNow(p) PROVE RowsMove
  <2>1. [at |-> clock, now |-> TRUE] \in Instant
    BY Clock DEF Instant
  <2>2. seeder[p].id \in Schedules
    BY <1>10, ScheduleAssumption DEF FireNow, SeedStep, TypeInv, SeedOK
  <2>3. QED
    BY <1>10, <2>1, <2>2, NextSet DEF FireNow, RowsMove
<1>11. CASE Users
  BY <1>1, <1>4, <1>5, <1>6, <1>7, <1>8, <1>11
  DEF Users, SetEnabled, IntakeEnable, CancelGoal, ApproveGoal, Reopen, DeleteGoal
<1>12. CASE Seed
  BY <1>1, <1>9, <1>10, <1>12 DEF Seed, SeedHeal, SeedMark
<1>13. QED
  BY <1>1, <1>3, <1>11, <1>12
  DEF Next, Tick, Sweep, ExpireStale, ExpireCancel, ExpireDrop, ExpireStamp, Claim, Completed,
      Failed, CloseDigest, closeRest, WriteBatch, SkipBatch, WriteIndex, FinishDigest,
      ApproveDigest, ApproveFails, Pass, Machine, Crash, Restart, vars

LEMMA SeederStep ==
    ASSUME TypeInv, [Next]_vars
    PROVE  /\ marker' \in BuiltIn \cup {NoSchedule} /\ SeedOK'
           /\ seeder' \in [Seeders -> [pc : {"idle", "create", "mark", "now"},
                                       id : BuiltIn \cup {NoSchedule}]]
<1> USE DEF TypeInv, TypeOK, SeedOK
<1>1. ASSUME UNCHANGED seeder, marker' \in BuiltIn \cup {NoSchedule}
      PROVE  /\ marker' \in BuiltIn \cup {NoSchedule} /\ SeedOK'
             /\ seeder' \in [Seeders -> [pc : {"idle", "create", "mark", "now"},
                                         id : BuiltIn \cup {NoSchedule}]]
  BY <1>1
<1>2. ASSUME NEW p \in Seeders, NEW pc \in {"idle", "create", "mark", "now"},
             NEW id \in BuiltIn \cup {NoSchedule}, NEW from, SeedStep(p, from, pc, id),
             pc \in {"mark", "now"} => id \in BuiltIn,
             marker' \in BuiltIn \cup {NoSchedule}
      PROVE  /\ marker' \in BuiltIn \cup {NoSchedule} /\ SeedOK'
             /\ seeder' \in [Seeders -> [pc : {"idle", "create", "mark", "now"},
                                         id : BuiltIn \cup {NoSchedule}]]
  <2>1. seeder' = [seeder EXCEPT ![p] = [pc |-> pc, id |-> id]]
    BY <1>2 DEF SeedStep
  <2>2. \A q \in Seeders : seeder'[q] = IF q = p THEN [pc |-> pc, id |-> id] ELSE seeder[q]
    BY <2>1
  <2>3. SeedOK'
    BY <1>2, <2>2
  <2>4. QED
    BY <1>2, <2>1, <2>3
<1>3. CASE Crash
  BY <1>3 DEF Crash
<1>4. CASE Seed
  <2>1. PICK p \in Seeders : SeedHeal(p) \/ SeedCreate(p) \/ SeedMark(p) \/ FireNow(p)
    BY <1>4 DEF Seed
  <2>2. CASE SeedHeal(p)
    BY <1>2, <2>2 DEF SeedHeal, Seeded
  <2>3. CASE SeedCreate(p)
    BY <1>2, <2>3 DEF SeedCreate, seedRest
  <2>4. CASE SeedMark(p)
    <3>1. seeder[p].id \in BuiltIn
      BY <2>4 DEF SeedMark, SeedStep
    <3>2. QED
      BY <1>2, <2>4, <3>1 DEF SeedMark
  <2>5. CASE FireNow(p)
    BY <1>2, <2>5 DEF FireNow, seedRest
  <2>6. QED
    BY <2>1, <2>2, <2>3, <2>4, <2>5
<1>5. CASE Restart
  BY <1>1, <1>5 DEF Restart, Seeded
<1>6. QED
  BY <1>1, <1>3, <1>4, <1>5
  DEF Next, Tick, HandleRow, SkipMissed, FireSchedule, FireNothing, FireFails, Advance, seedVars,
      Sweep, ExpireStale, ExpireCancel, ExpireDrop, ExpireStamp, Claim, Completed, Failed,
      CloseDigest, closeRest, WriteBatch, SkipBatch, WriteIndex, FinishDigest, ApproveDigest, ApproveFails,
      Users, SetEnabled, IntakeEnable, IntakeEnabled, DeleteSchedule, Create, Update, CancelGoal,
      ApproveGoal, Reopen, DeleteGoal, Pass, Machine, vars

LEMMA TimeStep ==
    ASSUME TypeInv, [Next]_vars
    PROVE  /\ clock' \in 0..MaxTime /\ upSince' \in 0..MaxTime /\ {up, online}' \subseteq BOOLEAN
           /\ edits' \in 0..MaxEdits /\ crashes' \in 0..MaxCrashes
           /\ Pass \/ clock' = clock
<1>0. /\ clock \in 0..MaxTime /\ upSince \in 0..MaxTime /\ {up, online} \subseteq BOOLEAN
      /\ edits \in 0..MaxEdits /\ crashes \in 0..MaxCrashes
      /\ MaxTime \in Nat /\ MaxEdits \in Nat /\ MaxCrashes \in Nat
  BY ScheduleAssumption DEF TypeInv, TypeOK
<1>1. ASSUME UNCHANGED timeVars, UNCHANGED edits \/ \E op \in Ops : Edit(op)
      PROVE  /\ clock' \in 0..MaxTime /\ upSince' \in 0..MaxTime
             /\ {up, online}' \subseteq BOOLEAN
             /\ edits' \in 0..MaxEdits /\ crashes' \in 0..MaxCrashes /\ clock' = clock
  BY <1>0, <1>1 DEF timeVars, Edit
<1>2. CASE Machine
  <2>1. online' \in BOOLEAN /\ UNCHANGED <<clock, up, upSince, crashes>>
    BY <1>2 DEF Machine
  <2>2. edits' \in 0..MaxEdits
    BY <1>0, <1>2 DEF Machine, Edit
  <2>3. QED
    BY <1>0, <2>1, <2>2
<1>3. CASE Pass
  <2>1. clock' \in 0..MaxTime /\ UNCHANGED <<up, upSince, online, crashes, edits>>
    BY <1>0, <1>3 DEF Pass
  <2>2. QED
    BY <1>0, <1>3, <2>1
<1>4. CASE Crash \/ Restart
  <2>1. /\ up' \in BOOLEAN /\ UNCHANGED <<clock, online, edits>>
        /\ upSince' \in {upSince, clock}
    BY <1>4 DEF Crash, Restart
  <2>2. crashes' \in 0..MaxCrashes
    BY <1>0, <1>4 DEF Crash, Restart
  <2>3. QED
    BY <1>0, <2>1, <2>2
<1>5. CASE Users
  BY <1>1, <1>5
  DEF Users, SetEnabled, IntakeEnable, IntakeEnabled, DeleteSchedule, Create, Update, CancelGoal,
      ApproveGoal, Reopen, DeleteGoal, userRest, Edit
<1>6. QED
  BY <1>1, <1>2, <1>3, <1>4, <1>5
  DEF Next, Tick, HandleRow, SkipMissed, FireSchedule, FireNothing, FireFails, Advance,
      Sweep, ExpireStale, ExpireCancel, ExpireDrop, ExpireStamp, Claim, Completed, Failed,
      CloseDigest, closeRest, WriteBatch, SkipBatch, WriteIndex, FinishDigest, ApproveDigest, ApproveFails,
      Seed, SeedHeal, SeedCreate, SeedMark, FireNow, seedRest, Edit, vars

LEMMA SetsStep ==
    ASSUME TypeInv, [Next]_vars
    PROVE  tried' \subseteq Schedules /\ enabling' \subseteq Schedules
<1>0. tried \subseteq Schedules /\ enabling \subseteq Schedules
  BY DEF TypeInv, TypeOK
<1>1. ASSUME tried' \subseteq tried, enabling' \subseteq enabling
      PROVE  tried' \subseteq Schedules /\ enabling' \subseteq Schedules
  BY <1>0, <1>1
<1>2. CASE HandleRow
  <2>1. PICK r \in Due : \/ SkipMissed(r) \/ FireSchedule(r) \/ FireNothing(r)
                         \/ FireFails(r) \/ Advance(r)
    BY <1>2, HandledRow
  <2>2. QED
    BY <1>0, <2>1, DueFields
    DEF SkipMissed, FireSchedule, FireNothing, FireFails, Advance, RowDone
<1>3. CASE Users
  BY <1>0, <1>3
  DEF Users, SetEnabled, IntakeEnable, IntakeEnabled, DeleteSchedule, Create, Update, CancelGoal,
      ApproveGoal, Reopen, DeleteGoal, userRest
<1>4. QED
  BY <1>1, <1>2, <1>3
  DEF Next, Tick, Sweep, ExpireStale, ExpireCancel, ExpireDrop, ExpireStamp, Claim, Completed,
      Failed, CloseDigest, closeRest, WriteBatch, SkipBatch, WriteIndex, FinishDigest,
      ApproveDigest, ApproveFails, Seed, SeedHeal, SeedCreate, SeedMark, FireNow, seedRest, Pass, Machine,
      Crash, Restart, vars

(* The index: newest first, without the oldest when there are too many.    *)
LEMMA PrependedIndex ==
    ASSUME TypeInv, NEW g \in Goals
    PROVE  /\ Prepended(g) \in Seq(Goals) /\ Len(Prepended(g)) \in 1..(Len(index) + 1)
           /\ Prepended(g)[1] = g
           /\ \A i \in 2..Len(Prepended(g)) : i - 1 \in 1..Len(index) /\ Prepended(g)[i] = index[i - 1]
<1> DEFINE all == <<g>> \o index
           n == IF Len(all) > MaxBatches THEN MaxBatches ELSE Len(all)
<1>1. index \in Seq(Goals) /\ <<g>> \in Seq(Goals) /\ Len(index) \in Nat /\ Len(<<g>>) = 1
      /\ <<g>>[1] = g
  BY DEF TypeInv, TypeOK
<1>2. /\ all \in Seq(Goals) /\ Len(all) = 1 + Len(index)
      /\ \A i \in 1..(1 + Len(index)) : all[i] = IF i <= 1 THEN <<g>>[i] ELSE index[i - 1]
  BY <1>1, ConcatProperties
<1> HIDE DEF all
<1>3. n \in 1..Len(all)
  BY <1>1, <1>2, ScheduleAssumption
<1> HIDE DEF n
<1>4. \A i \in 1..n : all[i] \in Goals
  BY <1>1, <1>2, <1>3
<1>5. /\ SubSeq(all, 1, n) \in Seq(Goals) /\ Len(SubSeq(all, 1, n)) = n
      /\ \A i \in 1..n : SubSeq(all, 1, n)[i] = all[i]
  <2>1. 1 \in Int /\ n \in Int /\ 1 <= n
    BY <1>1, <1>2, <1>3
  <2>2. /\ SubSeq(all, 1, n) \in Seq(Goals)
        /\ Len(SubSeq(all, 1, n)) = IF 1 <= n THEN n - 1 + 1 ELSE 0
        /\ \A i \in 1..(n - 1 + 1) : SubSeq(all, 1, n)[i] = all[1 + i - 1]
    BY <1>4, <2>1, SubSeqProperties
  <2>3. \A i \in 1..n : i \in 1..(n - 1 + 1) /\ 1 + i - 1 = i
    BY <2>1
  <2>4. QED
    BY <2>1, <2>2, <2>3
<1>6. Prepended(g) = SubSeq(all, 1, n)
  BY DEF Prepended, all, n
<1>7. QED
  BY <1>1, <1>2, <1>3, <1>5, <1>6

LEMMA DigestStep ==
    ASSUME TypeInv, [Next]_vars
    PROVE  closing' \in [Goals -> Closing] /\ index' \in Seq(Goals) /\ batches' \subseteq Goals
<1>0. closing \in [Goals -> Closing] /\ index \in Seq(Goals) /\ batches \subseteq Goals
  BY DEF TypeInv, TypeOK
<1>1. CASE UNCHANGED digestVars
  BY <1>0, <1>1 DEF digestVars
<1>2. ASSUME NEW g \in Goals, CloseDigest(g)
      PROVE  closing' \in [Goals -> Closing] /\ index' \in Seq(Goals) /\ batches' \subseteq Goals
  <2>1. closing' \in [Goals -> Closing]
    BY <1>0, <1>2
    DEF CloseDigest, WriteBatch, SkipBatch, WriteIndex, FinishDigest, ApproveDigest, ApproveFails, Close, Closing
  <2>2. index' \in Seq(Goals)
    BY <1>0, <1>2, PrependedIndex
    DEF CloseDigest, WriteBatch, SkipBatch, WriteIndex, FinishDigest, ApproveDigest, ApproveFails
  <2>3. batches' \subseteq Goals
    BY <1>0, <1>2
    DEF CloseDigest, WriteBatch, SkipBatch, WriteIndex, FinishDigest, ApproveDigest, ApproveFails
  <2>4. QED
    BY <2>1, <2>2, <2>3
<1>3. CASE Crash
  BY <1>0, <1>3 DEF Crash, Closing
<1>4. CASE Restart
  BY <1>0, <1>4 DEF Restart, SweepStuck, Closing
<1>5. QED
  BY <1>1, <1>2, <1>3, <1>4
  DEF Next, Tick, HandleRow, SkipMissed, FireSchedule, FireNothing, FireFails, Advance,
      Sweep, ExpireStale, ExpireCancel, ExpireDrop, ExpireStamp, Claim, Completed, Failed,
      Users, SetEnabled, IntakeEnable, IntakeEnabled, DeleteSchedule, Create, Update, userRest,
      CancelGoal, ApproveGoal, Reopen, DeleteGoal, Seed, SeedHeal, SeedCreate, SeedMark, FireNow,
      seedRest, Pass, Machine, digestVars, vars

LEMMA TypeStep == TypeInv /\ [Next]_vars => TypeInv'
<1> SUFFICES ASSUME TypeInv, [Next]_vars PROVE TypeInv'
  OBVIOUS
<1>1. goal' \in [Goals -> Goal]
  <2>1. ASSUME NEW r \in Due, NEW g \in Goals, Fired(r, g) PROVE goal' \in [Goals -> Goal]
    BY <2>1, FiredGoalType DEF Fired, TypeInv, TypeOK
  <2>2. QED
    BY <2>1, GoalsStep DEF GoalsKept
<1>2. schedule' \in [Schedules -> Row]
  BY RowsStep DEF RowsMove
<1>3. /\ loop'.pc \in {"idle", "rows", "advance", "stale", "drop", "stamp"}
      /\ loop'.todo \subseteq Due \cup Goals /\ loop'.now \subseteq loop'.todo
  BY LoopStep DEF LoopOK, LoopType
<1>4. TypeOK'
  BY <1>1, <1>2, <1>3, SeederStep, TimeStep, SetsStep, DigestStep DEF TypeOK
<1>5. QED
  BY <1>4, LoopStep, SeederStep DEF TypeInv

LEMMA InitType == Init => TypeInv
<1> SUFFICES ASSUME Init PROVE TypeInv
  OBVIOUS
<1> USE ScheduleAssumption DEF Init
<1>1. schedule \in [Schedules -> Row]
  <2>1. PICK a, e \in BOOLEAN : schedule =
           [s \in Schedules |-> [alive |-> a /\ s \notin BuiltIn, enabled |-> e,
                                 every |-> UserCron, next |-> [at |-> UserCron, now |-> FALSE]]]
    OBVIOUS
  <2>2. \A s \in Schedules : (a /\ s \notin BuiltIn) \in BOOLEAN
    OBVIOUS
  <2>3. [at |-> UserCron, now |-> FALSE] \in Instant /\ UserCron \in Periods
    BY DEF Instant
  <2>4. QED
    BY <2>1, <2>2, <2>3 DEF Row
<1>2. goal \in [Goals -> Goal]
  <2>1. (CHOOSE s \in Schedules : TRUE) \in Schedules /\ Born0 \in Instant
    BY DEF Born0, Instant
  <2>2. QED
    BY <2>1 DEF Goal
<1>3. loop = [pc |-> "idle", todo |-> {}, now |-> {}]
  BY DEF Idle
<1>4. LoopOK
  BY <1>3 DEF LoopOK, LoopType
<1>5. SeedOK
  BY DEF SeedOK
<1>6. /\ seeder \in [Seeders -> [pc : {"idle", "create", "mark", "now"},
                                 id : BuiltIn \cup {NoSchedule}]]
      /\ closing \in [Goals -> Closing] /\ index \in Seq(Goals) /\ batches \subseteq Goals
  BY DEF Closing
<1>7. /\ clock \in 0..MaxTime /\ upSince \in 0..MaxTime /\ {up, online} \subseteq BOOLEAN
      /\ edits \in 0..MaxEdits /\ crashes \in 0..MaxCrashes
      /\ marker \in BuiltIn \cup {NoSchedule} /\ tried \subseteq Schedules
      /\ enabling \subseteq Schedules
  OBVIOUS
<1>8. QED
  BY <1>1, <1>2, <1>3, <1>4, <1>5, <1>6, <1>7 DEF TypeInv, TypeOK

(* Every variable has its type: a fired goal has a schedule and an         *)
(* instant, what the goroutine has in hand are rows or goals, and the      *)
(* bounds hold.                                                            *)
THEOREM TypeCorrect == Spec => []TypeOK
<1>1. TypeInv => TypeOK
  BY DEF TypeInv
<1>2. QED
  BY <1>1, InitType, TypeStep, PTL DEF Spec

----------------------------------------------------------------------------
(* An occurrence fires one goal.                                           *)

(* An occurrence has at most one goal that stands: a goal keeps its        *)
(* schedule and its occurrence for life, only a deleted one gives them     *)
(* up, and the transaction that fires finds no such goal, whatever rows    *)
(* the tick has read and whatever crash came before next_run_at was        *)
(* advanced.                                                               *)
THEOREM OccurrenceFiresOnce == Spec => []FiredOnce
<1>1. Init => FiredOnce
  <2>1. Init => \A g \in Goals : goal[g].status = "none"
    BY DEF Init
  <2>2. QED
    BY <2>1 DEF FiredOnce
<1>2. TypeInv /\ FiredOnce /\ [Next]_vars => FiredOnce'
  <2> SUFFICES ASSUME TypeInv, FiredOnce, [Next]_vars PROVE FiredOnce'
    OBVIOUS
  <2>1. CASE GoalsKept
    BY <2>1 DEF GoalsKept, Kept, FiredOnce
  <2>2. ASSUME NEW r \in Due, NEW g \in Goals, Fired(r, g) PROVE FiredOnce'
    <3>1. ~ AlreadyFired(r)
      BY <2>2 DEF Fired, FireSchedule, MayInsert
    <3>2. goal'[g] = FiredGoal(r) /\ \A h \in Goals \ {g} : goal'[h] = goal[h]
      BY <2>2 DEF Fired, TypeInv, TypeOK
    <3>3. goal'[g].schedule = r.id /\ goal'[g].planned = r.next
      BY <3>2 DEF FiredGoal
    <3>4. ASSUME NEW h \in Goals \ {g}, goal'[h].status \notin {"none", "deleted"},
                 goal'[h].schedule = goal'[g].schedule
          PROVE  goal'[h].planned # goal'[g].planned
      BY <3>1, <3>2, <3>3, <3>4 DEF AlreadyFired
    <3>5. ASSUME NEW a \in Goals \ {g}, NEW b \in Goals \ {g}, a # b,
                 {goal'[a].status, goal'[b].status} \cap {"none", "deleted"} = {},
                 goal'[a].schedule = goal'[b].schedule
          PROVE  goal'[a].planned # goal'[b].planned
      BY <3>2, <3>5 DEF FiredOnce
    <3>6. QED
      BY <3>4, <3>5 DEF FiredOnce
  <2>3. QED
    BY <2>1, <2>2, GoalsStep
<1>3. QED
  BY <1>1, <1>2, InitType, TypeStep, PTL DEF Spec

----------------------------------------------------------------------------
(* A miss is over.                                                         *)

(* While the sweep is in hand no run of its goals starts, since a claim is *)
(* the work of the same goroutine, and a goal it is past cancelling has    *)
(* ended.                                                                  *)
SweepInv ==
    /\ loop.pc \in {"stale", "drop", "stamp"} =>
         \A g \in Goals : g \in loop.todo => goal[g].run # "running"
    /\ loop.pc \in {"drop", "stamp"} =>
         \A g \in Goals : g \in loop.now => goal[g].status \notin GoalOpen \/ goal[g].reopened
    /\ MissedIsOver

LEMMA SweepLoop ==
    ASSUME TypeInv, [Next]_vars
    PROVE  \/ UNCHANGED loop
           \/ loop'.pc \in {"idle", "rows", "advance"}
           \/ Sweep
           \/ \E g \in Goals : /\ g \in loop.todo /\ (loop.now # {} => g \in loop.now)
                               /\ ExpireCancel(g) \/ ExpireDrop(g) \/ ExpireStamp(g)
<1>1. CASE HandleRow
  <2>1. PICK r \in Due : /\ r \in loop.todo
                         /\ \/ SkipMissed(r) \/ FireSchedule(r) \/ FireNothing(r)
                            \/ FireFails(r) \/ Advance(r)
    BY <1>1, HandledRow
  <2>2. CASE Work("advance", r)
    BY <2>1, <2>2, WorkLoop
  <2>3. CASE Handled("rows", r)
    BY <2>1, <2>3, HandledLoop
  <2>4. QED
    BY <2>1, <2>2, <2>3
    DEF SkipMissed, FireSchedule, FireNothing, FireFails, Advance, RowDone
<1>2. CASE Tick
  BY <1>2, TickLoop
<1>3. CASE Crash
  BY <1>3 DEF Crash, Idle
<1>4. CASE ExpireStale
  BY <1>4, ExpiredGoal
<1>5. QED
  BY <1>1, <1>2, <1>3, <1>4
  DEF Next, Claim, Completed, Failed, CloseDigest, closeRest, WriteBatch, SkipBatch, WriteIndex,
      FinishDigest, ApproveDigest, ApproveFails, Users, SetEnabled, IntakeEnable, IntakeEnabled, DeleteSchedule,
      Create, Update, userRest, CancelGoal, ApproveGoal, Reopen, DeleteGoal, Seed, SeedHeal, SeedCreate,
      SeedMark, FireNow, seedRest, Pass, Machine, Restart, vars

LEMMA SweepStep == TypeInv /\ SweepInv /\ [Next]_vars => SweepInv'
<1> SUFFICES ASSUME TypeInv, SweepInv, [Next]_vars PROVE SweepInv'
  OBVIOUS
<1> DEFINE Sweeping == loop.pc \in {"stale", "drop", "stamp"}
           Over(g) == goal[g].status \notin GoalOpen \/ goal[g].reopened
(* What cancelling a goal as a miss does to it.                            *)
<1>0. ASSUME NEW g \in Goals, ExpireCancel(g)
      PROVE  /\ goal'[g].status \notin GoalOpen /\ goal'[g].run = goal[g].run
             /\ loop.pc = "stale" /\ loop'.pc # loop.pc
  <2> DEFINE v == [goal[g] EXCEPT !.status = Cancels(g), !.reopened = FALSE]
  <2>1. goal'[g] = v /\ goal[g] \in Goal
    BY <1>0, GoalFields DEF ExpireCancel, TypeInv, TypeOK
  <2>2. v.status = Cancels(g) /\ v.run = goal[g].run
    BY <2>1 DEF Goal
  <2>3. loop.pc = "stale" /\ loop'.pc \in {"drop", "stamp"}
    BY <1>0 DEF ExpireCancel, Work, TypeInv, LoopOK, LoopType
  <2>4. QED
    BY <2>1, <2>2, <2>3 DEF Cancels, GoalOpen
(* The runs and the goals of a sweep that is in hand.                      *)
<1>1. ASSUME NEW g \in Goals, g \in loop.todo, Sweeping
      PROVE  goal'[g].run # "running"
  <2>1. goal[g].run # "running" /\ ~ Claim(g) /\ ~ \E r \in Due : FireSchedule(r)
    BY <1>1 DEF SweepInv, Claim, FireSchedule, Fires
  <2>2. QED
    BY <2>1, GoalsStep DEF GoalsKept, Kept, Fired
<1>2. ASSUME NEW g \in Goals, Sweeping, Over(g)
      PROVE  Over(g)'
  <2>1. ~ \E r \in Due : FireSchedule(r)
    BY <1>2 DEF FireSchedule, Fires
  <2>2. QED
    BY <1>0, <1>2, <2>1, GoalsStep DEF GoalsKept, Kept, Fired
<1>3. MissedIsOver'
  <2>1. ASSUME NEW g \in Goals, Kept(g), goal'[g].missed, ~ goal'[g].reopened
        PROVE  goal'[g].status \notin GoalOpen /\ goal'[g].run # "running"
    <3>1. CASE ExpireCancel(g) /\ g \in loop.todo
      BY <1>0, <1>1, <3>1
    <3>2. CASE ~ (ExpireCancel(g) /\ g \in loop.todo)
      <4>1. ~ goal[g].reopened
        BY <2>1, <3>2 DEF Kept
      <4>2. goal[g].status \notin GoalOpen /\ goal[g].run # "running"
        <5>1. CASE goal[g].missed
          BY <4>1, <5>1 DEF SweepInv, MissedIsOver
        <5>2. CASE ExpireStamp(g) /\ g \in loop.now
          <6>1. loop.pc = "stamp" /\ g \in loop.todo
            BY <5>2 DEF ExpireStamp, TypeInv, LoopOK
          <6>2. QED
            BY <4>1, <5>2, <6>1 DEF SweepInv
        <5>3. QED
          BY <2>1, <5>1, <5>2 DEF Kept
      <4>3. ~ Claim(g)
        BY <4>2 DEF Claim
      <4>4. QED
        BY <2>1, <4>2, <4>3 DEF Kept
    <3>3. QED
      BY <3>1, <3>2
  <2>2. ASSUME NEW r \in Due, NEW g \in Goals, Fired(r, g) PROVE MissedIsOver'
    <3>1. goal'[g] = FiredGoal(r) /\ \A h \in Goals \ {g} : goal'[h] = goal[h]
      BY <2>2 DEF Fired, TypeInv, TypeOK
    <3>2. goal'[g].missed = FALSE
      BY <3>1 DEF FiredGoal
    <3>3. QED
      BY <3>1, <3>2 DEF SweepInv, MissedIsOver
  <2>3. QED
    BY <2>1, <2>2, GoalsStep DEF GoalsKept, MissedIsOver
<1>4. CASE UNCHANGED loop
  BY <1>1, <1>2, <1>3, <1>4 DEF SweepInv
<1>5. CASE loop'.pc \in {"idle", "rows", "advance"}
  BY <1>3, <1>5 DEF SweepInv
<1>6. CASE Sweep
  <2>1. loop'.pc = "stale" /\ loop'.todo = Stale /\ goal' = goal
    BY <1>6 DEF Sweep
  <2>2. QED
    BY <1>3, <2>1 DEF SweepInv, Stale
<1>7. ASSUME NEW g \in Goals, g \in loop.todo, loop.now # {} => g \in loop.now,
             ExpireCancel(g) \/ ExpireDrop(g) \/ ExpireStamp(g)
      PROVE  SweepInv'
  <2>1. Sweeping
    BY <1>7 DEF ExpireCancel, ExpireDrop, ExpireStamp
  <2>2. loop'.todo \subseteq loop.todo /\ (loop'.pc \in {"drop", "stamp"} => loop'.now = {g})
    <3>1. ASSUME NEW pc \in {"drop", "stamp"}, Work(pc, g)
          PROVE  loop'.todo \subseteq loop.todo /\ loop'.now = {g}
      BY <1>7, <3>1, WorkLoop
    <3>2. ASSUME Handled("stale", g)
          PROVE  loop'.todo \subseteq loop.todo /\ loop'.pc \notin {"drop", "stamp"}
      BY <1>7, <3>2, HandledLoop
    <3>3. QED
      BY <1>7, <3>1, <3>2 DEF ExpireCancel, ExpireDrop, ExpireStamp
  <2>3. loop'.pc \in {"drop", "stamp"} => Over(g)'
    <3>1. CASE ExpireCancel(g)
      BY <1>0, <3>1
    <3>2. CASE ExpireDrop(g)
      <4>1. Over(g)
        BY <1>7, <3>2 DEF ExpireDrop, SweepInv, TypeInv, LoopOK
      <4>2. QED
        BY <1>2, <2>1, <4>1
    <3>3. CASE ExpireStamp(g)
      BY <1>7, <3>3, HandledLoop DEF ExpireStamp
    <3>4. QED
      BY <1>7, <3>1, <3>2, <3>3
  <2>4. QED
    BY <1>1, <1>3, <2>1, <2>2, <2>3 DEF SweepInv
<1>8. QED
  BY <1>4, <1>5, <1>6, <1>7, SweepLoop

(* A fire that was called a miss is over unless a person reopens its goal: *)
(* the sweep stamps a goal only after it has cancelled it or found it      *)
(* ended, nothing claims its run between the read of the stale fires and   *)
(* the stamp, and no later step of the program brings it back, not even    *)
(* the recovery of a crash in mid-sweep.                                   *)
THEOREM MissIsOver == Spec => []MissedIsOver
<1>1. Init => SweepInv
  <2>1. Init => loop.pc = "idle" /\ \A g \in Goals : goal[g].missed = FALSE
    BY DEF Init, Idle
  <2>2. QED
    BY <2>1 DEF SweepInv, MissedIsOver
<1>2. SweepInv => MissedIsOver
  BY DEF SweepInv
<1>3. QED
  BY <1>1, <1>2, InitType, TypeStep, SweepStep, PTL DEF Spec

----------------------------------------------------------------------------
(* No catching up.                                                         *)

(* A row of the tick's list, and the table's row as it is now: nobody has  *)
(* written it since it was read, or its occurrence is not behind.          *)
Fresh(r) ==
    schedule[r.id].alive =>
        \/ schedule[r.id].every = r.every /\ schedule[r.id].next = r.next
        \/ schedule[r.id].next.at >= clock

(* The clock does not leave a unit while a tick is in hand.                *)
TickInv ==
    /\ ~up => loop.pc = "idle"
    /\ loop.pc \in {"rows", "advance"} =>
         \A r \in Due : r \in loop.todo => r.next.at <= clock /\ Fresh(r)
    /\ loop.pc = "advance" => \A r \in Due : r \in loop.now => r.next.at = clock
    /\ \A g \in Goals : goal[g].status # "none" => goal[g].planned.at = goal[g].born
    /\ Resumes

LEMMA Beyond ==
    ASSUME TypeInv, NEW s \in Schedules, schedule[s].next.at >= clock
    PROVE  After(schedule[s].every, schedule[s].next.at) > clock
<1>1. /\ After(schedule[s].every, schedule[s].next.at) \in Nat
      /\ After(schedule[s].every, schedule[s].next.at) > schedule[s].next.at
  BY RowFields, AfterIsLater
<1>2. QED
  BY <1>1, RowFields, Clock

(* Every write of a row leaves its occurrence as it is or not behind.      *)
RowGoes(s) ==
    \/ RowKept(s)
    \/ schedule'[s].next.at >= clock

LEMMA RowsGo ==
    ASSUME TypeInv, TickInv, [Next]_vars, NEW s \in Schedules
    PROVE  RowGoes(s)
<1>0. clock \in Nat
  BY Clock
<1>1. ASSUME NEW o \in Schedules, NEW next \in Instant, schedule' = SetNext(o, next),
             next = schedule[o].next \/ next.at >= clock
      PROVE  RowGoes(s)
  <2>1. CASE s # o
    BY <1>1, <2>1, NextSet DEF RowGoes, RowKept
  <2>2. CASE s = o /\ ~ schedule[o].alive
    BY <1>1, <2>2, NextSet DEF RowGoes, RowKept
  <2>3. CASE s = o /\ schedule[o].alive
    BY <1>1, <2>3, NextSet DEF RowGoes, RowKept
  <2>4. QED
    BY <2>1, <2>2, <2>3
<1>2. ASSUME NEW r \in Due, r \in loop.todo, SkipMissed(r) PROVE RowGoes(s)
  <2>1. /\ SkippedTo(r) \in Instant
        /\ SkippedTo(r) = schedule[r.id].next \/ SkippedTo(r).at >= clock
    <3>1. Cron(r.every, clock) \in Instant /\ Cron(r.every, clock).at > clock
      BY <1>0, DueFields, CronIsLater
    <3>2. Cron(r.every, clock).at \in Nat
      BY <3>1 DEF Instant
    <3>3. QED
      BY <1>0, <3>1, <3>2, DueFields, RowFields DEF SkippedTo
  <2>2. QED
    BY <1>1, <1>2, <2>1, DueFields DEF SkipMissed
<1>3. ASSUME NEW r \in Due, r \in loop.todo, loop.now # {} => r \in loop.now, Advance(r)
      PROVE  RowGoes(s)
  <2>1. r.next.at = clock
    BY <1>3 DEF Advance, TickInv, TypeInv, LoopOK
  <2>2. Cron(r.every, clock) \in Instant /\ Cron(r.every, clock).at > clock
    BY <1>0, DueFields, CronIsLater
  <2>3. Cron(r.every, clock).at \in Nat
    BY <2>2 DEF Instant
  <2>4. QED
    BY <1>0, <1>1, <1>3, <2>1, <2>2, <2>3, DueFields DEF Advance
<1>4. ASSUME NEW p \in Seeders, FireNow(p) PROVE RowGoes(s)
  <2>1. [at |-> clock, now |-> TRUE] \in Instant /\ seeder[p].id \in Schedules
    BY <1>0, <1>4, ScheduleAssumption DEF Instant, FireNow, SeedStep, TypeInv, SeedOK
  <2>2. QED
    BY <1>0, <1>1, <1>4, <2>1 DEF FireNow
<1>5. ASSUME RowLater(s) PROVE RowGoes(s)
  <2>1. schedule'[s].next.at \in Nat
    BY RowsStep DEF RowsMove, Row, Instant
  <2>2. QED
    BY <1>0, <1>5, <2>1 DEF RowLater, RowGoes
<1>6. QED
  BY <1>2, <1>3, <1>4, <1>5, RowsStep DEF RowsMove, RowGoes

(* The rows the ticks are done with.                                       *)
LEMMA TriedStep ==
    ASSUME TypeInv, [Next]_vars
    PROVE  \/ tried' \subseteq tried
           \/ \E r \in Due : /\ r \in loop.todo /\ (loop.now # {} => r \in loop.now)
                             /\ SkipMissed(r) \/ FireFails(r) \/ Advance(r)
                             /\ tried' = tried \cup {r.id}
<1>1. CASE HandleRow
  BY <1>1, HandledRow DEF SkipMissed, FireSchedule, FireNothing, FireFails, Advance, RowDone
<1>2. QED
  BY <1>1
  DEF Next, Tick, Sweep, ExpireStale, ExpireCancel, ExpireDrop, ExpireStamp, Claim, Completed,
      Failed, CloseDigest, closeRest, WriteBatch, SkipBatch, WriteIndex, FinishDigest,
      ApproveDigest, ApproveFails, Users, SetEnabled, IntakeEnable, IntakeEnabled, DeleteSchedule, Create,
      Update, CancelGoal, ApproveGoal, Reopen, DeleteGoal, userRest, Seed, SeedHeal, SeedCreate, SeedMark,
      FireNow, seedRest, Pass, Machine, Crash, Restart, vars

(* The tick's list: read now, or what is left of it.                       *)
LEMMA TickStep ==
    ASSUME TypeInv, [Next]_vars, loop'.pc \in {"rows", "advance"}
    PROVE  \/ Tick
           \/ /\ loop.pc \in {"rows", "advance"} /\ loop'.todo \subseteq loop.todo
              /\ \/ UNCHANGED loop
                 \/ loop'.now = {}
                 \/ \E r \in Due : /\ r \in loop.todo /\ loop'.now = {r}
                                   /\ FireSchedule(r) \/ FireNothing(r)
<1>1. CASE HandleRow
  <2>1. PICK r \in Due : /\ r \in loop.todo
                         /\ \/ SkipMissed(r) \/ FireSchedule(r) \/ FireNothing(r)
                            \/ FireFails(r) \/ Advance(r)
    BY <1>1, HandledRow
  <2>2. loop.pc \in {"rows", "advance"}
    BY <2>1 DEF SkipMissed, FireSchedule, FireNothing, Fires, FireFails, Advance
  <2>3. CASE Work("advance", r)
    BY <2>1, <2>2, <2>3, WorkLoop
    DEF SkipMissed, FireFails, Advance, RowDone, Handled, Idle
  <2>4. CASE Handled("rows", r)
    BY <2>1, <2>2, <2>4, HandledLoop
  <2>5. QED
    BY <2>1, <2>3, <2>4
    DEF SkipMissed, FireSchedule, FireNothing, FireFails, Advance, RowDone
<1>2. CASE ExpireStale
  <2>1. PICK g \in Goals : /\ g \in loop.todo
                           /\ ExpireCancel(g) \/ ExpireDrop(g) \/ ExpireStamp(g)
    BY <1>2, ExpiredGoal
  <2>2. ASSUME NEW pc \in {"drop", "stamp"}, Work(pc, g) PROVE FALSE
    BY <2>1, <2>2, WorkLoop
  <2>3. CASE Handled("stale", g)
    BY <2>1, <2>3, HandledLoop
  <2>4. QED
    BY <2>1, <2>2, <2>3 DEF ExpireCancel, ExpireDrop, ExpireStamp
<1>3. CASE Sweep \/ Crash
  BY <1>3 DEF Sweep, Crash, Idle
<1>4. QED
  BY <1>1, <1>2, <1>3
  DEF Next, Claim, Completed, Failed, CloseDigest, closeRest, WriteBatch, SkipBatch, WriteIndex,
      FinishDigest, ApproveDigest, ApproveFails, Users, SetEnabled, IntakeEnable, IntakeEnabled, DeleteSchedule,
      Create, Update, userRest, CancelGoal, ApproveGoal, Reopen, DeleteGoal, Seed, SeedHeal, SeedCreate,
      SeedMark, FireNow, seedRest, Pass, Machine, Restart, vars

LEMMA ClockStays ==
    ASSUME TypeInv, TickInv, [Next]_vars, loop.pc # "idle"
    PROVE  clock' = clock
<1>1. ~ Pass
  BY DEF Pass, Calm, TickInv
<1>2. QED
  BY <1>1, TimeStep

LEMMA FreshStays ==
    ASSUME TypeInv, TickInv, [Next]_vars, clock' = clock, NEW r \in Due, Fresh(r)
    PROVE  Fresh(r)'
<1>1. RowGoes(r.id)
  BY RowsGo, DueFields
<1>2. CASE RowKept(r.id)
  BY <1>2 DEF RowKept, Fresh
<1>3. CASE schedule'[r.id].next.at >= clock
  BY <1>3 DEF Fresh
<1>4. QED
  BY <1>1, <1>2, <1>3 DEF RowGoes

LEMMA ListStep ==
    ASSUME TypeInv, TickInv, [Next]_vars, loop'.pc \in {"rows", "advance"}
    PROVE  /\ \A r \in Due : r \in loop'.todo => r.next.at <= clock' /\ Fresh(r)'
           /\ loop'.pc = "advance" => \A r \in Due : r \in loop'.now => r.next.at = clock'
<1>0. clock \in Nat
  BY Clock
<1>1. CASE Tick
  <2>1. UNCHANGED <<clock, schedule>>
    BY <1>1 DEF Tick, timeVars
  <2>2. ASSUME NEW r \in Due, r \in loop'.todo
        PROVE  /\ r.next.at <= clock /\ schedule[r.id].every = r.every
               /\ schedule[r.id].next = r.next
    <3>1. PICK s \in Schedules :
             IsDue(s) /\ r = [id |-> s, every |-> schedule[s].every, next |-> schedule[s].next]
      BY <1>1, <2>2, TickLoop
    <3>2. QED
      BY <3>1 DEF IsDue
  <2>3. loop'.pc = "rows"
    BY <1>1, TickLoop
  <2>4. QED
    BY <2>1, <2>2, <2>3 DEF Fresh
<1>2. CASE ~ Tick
  <2>1. /\ loop.pc \in {"rows", "advance"} /\ loop'.todo \subseteq loop.todo
        /\ \/ UNCHANGED loop
           \/ loop'.now = {}
           \/ \E r \in Due : /\ r \in loop.todo /\ loop'.now = {r}
                             /\ FireSchedule(r) \/ FireNothing(r)
    BY <1>2, TickStep
  <2>2. clock' = clock
    BY <2>1, ClockStays
  <2>3. \A r \in Due : r \in loop'.todo => r.next.at <= clock' /\ Fresh(r)'
    BY <2>1, <2>2, FreshStays DEF TickInv
  <2>4. ASSUME NEW r \in Due, r \in loop.todo, FireSchedule(r) \/ FireNothing(r)
        PROVE  r.next.at = clock
    BY <1>0, <2>1, <2>4, DueFields DEF FireSchedule, FireNothing, Fires, Missed, TickInv
  <2>5. loop'.pc = "advance" => \A r \in Due : r \in loop'.now => r.next.at = clock'
    <3>1. CASE UNCHANGED loop
      BY <2>1, <2>2, <3>1 DEF TickInv
    <3>2. QED
      BY <2>1, <2>2, <2>4, <3>1
  <2>6. QED
    BY <2>3, <2>5
<1>3. QED
  BY <1>1, <1>2

LEMMA BornStep ==
    ASSUME TypeInv, TickInv, [Next]_vars, NEW g \in Goals, goal'[g].status # "none"
    PROVE  goal'[g].planned.at = goal'[g].born
<1>1. CASE GoalsKept
  BY <1>1 DEF GoalsKept, Kept, TickInv
<1>2. ASSUME NEW r \in Due, NEW h \in Goals, r \in loop.todo, Fired(r, h)
      PROVE  goal'[g].planned.at = goal'[g].born
  <2>1. goal'[h] = FiredGoal(r) /\ \A o \in Goals \ {h} : goal'[o] = goal[o]
    BY <1>2 DEF Fired, TypeInv, TypeOK
  <2>2. goal'[h].planned = r.next /\ goal'[h].born = clock
    BY <2>1 DEF FiredGoal
  <2>3. r.next.at = clock
    BY <1>2, DueFields, Clock DEF Fired, FireSchedule, Fires, Missed, TickInv
  <2>4. QED
    BY <2>1, <2>2, <2>3 DEF TickInv
<1>3. QED
  BY <1>1, <1>2, GoalsStep

(* What the ticks are done with, in the state they leave.                  *)
LEMMA ResumesStep ==
    ASSUME TypeInv, TypeInv', TickInv, [Next]_vars, NEW s \in tried', schedule'[s].alive
    PROVE  After(schedule'[s].every, schedule'[s].next.at) > clock'
<1> DEFINE Ahead == schedule'[s].next.at >= clock
           Unmoved == /\ schedule[s].alive /\ schedule'[s].every = schedule[s].every
                      /\ schedule'[s].next = schedule[s].next
<1>0. clock \in Nat /\ s \in Schedules /\ clock' = clock
  <2>1. ~ Pass
    BY DEF Pass
  <2>2. s \in Schedules
    BY SetsStep
  <2>3. QED
    BY <2>1, <2>2, TimeStep, Clock
<1>1. ASSUME Ahead PROVE After(schedule'[s].every, schedule'[s].next.at) > clock
  <2>1. schedule'[s].every \in Periods /\ schedule'[s].next.at \in Nat
    BY <1>0, RowsStep DEF RowsMove, Row, Instant
  <2>2. QED
    BY <1>0, <1>1, <2>1, AfterIsLater
<1>2. Unmoved \/ Ahead
  BY <1>0, RowsGo DEF RowGoes, RowKept
<1>3. ASSUME Unmoved, After(schedule[s].every, schedule[s].next.at) > clock
      PROVE  After(schedule'[s].every, schedule'[s].next.at) > clock
  BY <1>3
<1>4. ASSUME Unmoved, schedule[s].next.at >= clock
      PROVE  After(schedule'[s].every, schedule'[s].next.at) > clock
  BY <1>0, <1>3, <1>4, Beyond
<1>5. CASE s \in tried
  BY <1>0, <1>1, <1>2, <1>3, <1>5 DEF TickInv, Resumes
<1>6. CASE s \notin tried
  <2>1. PICK r \in Due : /\ r \in loop.todo /\ (loop.now # {} => r \in loop.now)
                         /\ SkipMissed(r) \/ FireFails(r) \/ Advance(r)
                         /\ s = r.id
    BY <1>6, TriedStep
  <2>2. loop.pc \in {"rows", "advance"} /\ r.next.at <= clock /\ Fresh(r)
    BY <2>1 DEF SkipMissed, FireFails, Fires, Advance, TickInv
  <2>3. CASE SkipMissed(r)
    <3>1. schedule[s].alive
      BY <1>0, <1>2, <2>1, <2>3, NextSet, RowFields DEF SkipMissed, SetNext
    <3>2. CASE After(r.every, r.next.at) > clock
      BY <1>0, <1>1, <1>2, <1>3, <1>4, <2>1, <2>2, <3>1, <3>2 DEF Fresh
    <3>3. CASE ~ (After(r.every, r.next.at) > clock)
      <4>1. /\ Cron(r.every, clock) \in Instant /\ Cron(r.every, clock).at > clock
            /\ SkippedTo(r) = Cron(r.every, clock)
        BY <1>0, <3>3, DueFields, CronIsLater DEF SkippedTo
      <4>2. schedule'[s].next = Cron(r.every, clock)
        BY <1>0, <2>1, <2>3, <3>1, <4>1, NextSet DEF SkipMissed
      <4>3. Cron(r.every, clock).at \in Nat
        BY <4>1 DEF Instant
      <4>4. QED
        BY <1>0, <1>1, <4>1, <4>2, <4>3
    <3>4. QED
      BY <1>0, <3>2, <3>3
  <2>4. CASE FireFails(r)
    <3>1. schedule' = schedule /\ r.next.at = clock
      BY <1>0, <2>2, <2>4, DueFields DEF FireFails, Fires, Missed
    <3>2. schedule[s].next.at >= clock
      BY <1>0, <2>1, <2>2, <3>1 DEF Fresh
    <3>3. QED
      BY <1>0, <1>1, <3>1, <3>2
  <2>5. CASE Advance(r)
    <3>1. r.next.at = clock
      BY <2>1, <2>5 DEF Advance, TickInv, TypeInv, LoopOK
    <3>2. /\ Cron(r.every, clock) \in Instant /\ Cron(r.every, clock).at > clock
          /\ Cron(r.every, clock).at \in Nat
      BY <1>0, DueFields, CronIsLater DEF Instant
    <3>3. schedule[s].alive
      BY <1>0, <2>1, <2>5, RowFields DEF Advance, SetNext
    <3>4. schedule'[s].next = Cron(r.every, clock)
      BY <1>0, <2>1, <2>5, <3>1, <3>2, <3>3, NextSet DEF Advance
    <3>5. QED
      BY <1>0, <1>1, <3>2, <3>4
  <2>6. QED
    BY <2>1, <2>3, <2>4, <2>5
<1>7. QED
  BY <1>0, <1>5, <1>6

(* What a daemon that is down does.                                        *)
LEMMA UpStays ==
    ASSUME [Next]_vars, ~ Crash, ~ up'
    PROVE  up' = up
<1>1. ~ Restart
  BY DEF Restart
<1>2. QED
  BY <1>1
  DEF Next, Tick, HandleRow, SkipMissed, FireSchedule, FireNothing, FireFails, Advance, timeVars,
      Sweep, ExpireStale, ExpireCancel, ExpireDrop, ExpireStamp, Claim, Completed, Failed,
      CloseDigest, closeRest, WriteBatch, SkipBatch, WriteIndex, FinishDigest, ApproveDigest, ApproveFails,
      Users, SetEnabled, IntakeEnable, IntakeEnabled, DeleteSchedule, Create, Update, userRest,
      CancelGoal, ApproveGoal, Reopen, DeleteGoal, Seed, SeedHeal, SeedCreate, SeedMark, FireNow,
      seedRest, Pass, Machine, vars

LEMMA IdleStays ==
    ASSUME [Next]_vars, ~ up, loop.pc = "idle"
    PROVE  loop' = loop
BY DEF Next, Tick, HandleRow, Sweep, ExpireStale, Claim, Completed, Failed, CloseDigest, closeRest,
       Users, SetEnabled, IntakeEnable, IntakeEnabled, DeleteSchedule, Create, Update, userRest,
       CancelGoal, ApproveGoal, Reopen, DeleteGoal, Seed, SeedHeal, SeedCreate, SeedMark, FireNow,
       seedRest, Pass, Machine, Crash, Restart, vars, Edit

LEMMA TickInvStep == TypeInv /\ TickInv /\ [Next]_vars => TickInv'
<1> SUFFICES ASSUME TypeInv, TickInv, [Next]_vars PROVE TickInv'
  OBVIOUS
<1>1. ~up' => loop'.pc = "idle"
  <2>1. CASE up' \/ Crash
    BY <2>1 DEF Crash, Idle
  <2>2. CASE ~ (up' \/ Crash)
    <3>1. ~ up /\ loop.pc = "idle"
      <4>1. up' = up
        BY <2>2, UpStays
      <4>2. QED
        BY <2>2, <4>1 DEF TickInv
    <3>2. loop' = loop
      BY <3>1, IdleStays
    <3>3. QED
      BY <3>1, <3>2
  <2>3. QED
    BY <2>1, <2>2
<1>2. Resumes'
  BY TypeStep, ResumesStep DEF Resumes
<1>3. QED
  BY <1>1, <1>2, ListStep, BornStep DEF TickInv

LEMMA TickInit == Init => TickInv
<1>1. Init => up /\ loop.pc = "idle" /\ tried = {} /\ \A g \in Goals : goal[g].status = "none"
  BY DEF Init, Idle
<1>2. QED
  BY <1>1 DEF TickInv, Resumes

(* After a downtime nothing is caught up with.  Two goals a schedule's     *)
(* occurrences fired are born in different units, since each was born in   *)
(* the unit it was due in; and when the tick is done with a row, the row   *)
(* resumes in the present, even if it was edited, deleted or enabled       *)
(* between the read of the due rows and the write of next_run_at.          *)
THEOREM NothingCaughtUp == Spec => []NoCatchUp
<1>1. TypeInv /\ TickInv /\ FiredOnce => NoCatchUp
  <2> SUFFICES ASSUME TypeInv, TickInv, FiredOnce PROVE NoCatchUp
    OBVIOUS
  <2>1. ASSUME NEW g \in Goals, NEW h \in Goals, g # h,
               {goal[g].status, goal[h].status} \cap {"none", "deleted"} = {},
               goal[g].schedule = goal[h].schedule,
               ~goal[g].planned.now, ~goal[h].planned.now
        PROVE  goal[g].born # goal[h].born
    <3>1. goal[g].planned # goal[h].planned
      BY <2>1 DEF FiredOnce
    <3>2. goal[g].planned \in Instant /\ goal[h].planned \in Instant
      BY GoalFields
    <3>3. goal[g].planned.at # goal[h].planned.at
      BY <2>1, <3>1, <3>2 DEF Instant
    <3>4. QED
      BY <2>1, <3>3 DEF TickInv
  <2>2. NoFlood
    BY <2>1 DEF NoFlood
  <2>3. QED
    BY <2>2 DEF NoCatchUp, TickInv
<1>2. QED
  BY <1>1, InitType, TypeStep, TickInit, TickInvStep, OccurrenceFiresOnce, PTL DEF Spec

----------------------------------------------------------------------------
(* The index of the digest.                                                *)

(* One report at a time is between its files and the index (digestMu); its *)
(* batch is on disk and the index does not list it.                        *)
IndexInv ==
    /\ IndexIsBacked
    /\ \A g, h \in Goals : closing[g] = "index" /\ closing[h] = "index" => g = h
    /\ \A g \in Goals : closing[g] = "index" => g \in batches /\ ~Collected(g)

LEMMA DigestMoves ==
    ASSUME [Next]_vars
    PROVE  UNCHANGED digestVars \/ Crash \/ Restart \/ \E g \in Goals : CloseDigest(g)
BY DEF Next, Tick, HandleRow, SkipMissed, FireSchedule, FireNothing, FireFails, Advance,
      Sweep, ExpireStale, ExpireCancel, ExpireDrop, ExpireStamp, Claim, Completed, Failed,
      Users, SetEnabled, IntakeEnable, IntakeEnabled, DeleteSchedule, Create, Update, userRest,
      CancelGoal, ApproveGoal, Reopen, DeleteGoal, Seed, SeedHeal, SeedCreate, SeedMark, FireNow,
      seedRest, Pass, Machine, digestVars, vars

LEMMA CloseSet ==
    ASSUME TypeInv, NEW g \in Goals, NEW from, NEW to, Close(g, from, to)
    PROVE  /\ closing[g] \in from /\ closing'[g] = to
           /\ \A h \in Goals \ {g} : closing'[h] = closing[h]
  BY DEF Close, TypeInv, TypeOK

LEMMA IndexStep == TypeInv /\ IndexInv /\ [Next]_vars => IndexInv'
<1> SUFFICES ASSUME TypeInv, IndexInv, [Next]_vars PROVE IndexInv'
  OBVIOUS
<1>1. ASSUME UNCHANGED <<index, batches>>,
             \A g \in Goals : closing'[g] = "index" => closing[g] = "index"
      PROVE  IndexInv'
  BY <1>1 DEF IndexInv, IndexIsBacked, Collected
<1>2. CASE UNCHANGED digestVars \/ Crash \/ Restart
  <2>1. UNCHANGED <<index, batches>>
    BY <1>2 DEF digestVars, Crash, Restart
  <2>2. \A g \in Goals : closing'[g] = "index" => closing[g] = "index"
    BY <1>2 DEF digestVars, Crash, Restart, SweepStuck
  <2>3. QED
    BY <1>1, <2>1, <2>2
<1>3. ASSUME NEW g \in Goals, CloseDigest(g) PROVE IndexInv'
  <2>1. CASE WriteBatch(g)
    <3>1. /\ closing'[g] = "index" /\ \A h \in Goals \ {g} : closing'[h] = closing[h]
          /\ \A h \in Goals : closing[h] # "index"
      BY <2>1, CloseSet DEF WriteBatch, Reported
    <3>2. index' = index /\ batches' = batches \cup {g} /\ ~ Collected(g)
      BY <2>1 DEF WriteBatch
    <3>3. QED
      BY <3>1, <3>2 DEF IndexInv, IndexIsBacked, Collected
  <2>2. CASE WriteIndex(g)
    <3> DEFINE new == Prepended(g)
    <3>1. /\ closing[g] = "index" /\ closing'[g] = "finish"
          /\ \A h \in Goals \ {g} : closing'[h] = closing[h]
      BY <2>2, CloseSet DEF WriteIndex
    <3>2. \A h \in Goals : closing'[h] # "index"
      BY <3>1 DEF IndexInv
    <3>3. index' = new /\ batches' = batches \cap Range(new)
      BY <2>2 DEF WriteIndex, Live
    <3>4. /\ new \in Seq(Goals) /\ Len(new) \in Nat /\ DOMAIN new = 1..Len(new)
          /\ new[1] = g /\ index \in Seq(Goals) /\ DOMAIN index = 1..Len(index)
          /\ \A i \in 2..Len(new) : i - 1 \in 1..Len(index) /\ new[i] = index[i - 1]
      <4>1. index \in Seq(Goals)
        BY DEF TypeInv, TypeOK
      <4>2. new \in Seq(Goals) /\ Len(new) \in 1..(Len(index) + 1)
        BY PrependedIndex
      <4>3. /\ new[1] = g
            /\ \A i \in 2..Len(new) : i - 1 \in 1..Len(index) /\ new[i] = index[i - 1]
        BY PrependedIndex
      <4> HIDE DEF new
      <4>4. QED
        BY <4>1, <4>2, <4>3
    <3> HIDE DEF new
    <3>5. g \in batches /\ \A i \in 1..Len(index) : index[i] # g /\ index[i] \in batches
      BY <3>1, <3>4 DEF IndexInv, IndexIsBacked, Collected, Range
    <3>6. \A i \in 1..Len(new) : new[i] \in batches
      <4>1. \A i \in 1..Len(new) : i = 1 \/ i \in 2..Len(new)
        BY <3>4
      <4>2. QED
        BY <3>4, <3>5, <4>1
    <3>7. Range(new) \subseteq batches \cap Range(new)
      BY <3>4, <3>6 DEF Range
    <3>8. \A i, j \in 1..Len(new) : new[i] = new[j] => i = j
      <4>1. ASSUME NEW i \in 2..Len(new), NEW j \in 2..Len(new), new[i] = new[j] PROVE i = j
        <5>1. i - 1 = j - 1
          BY <3>4, <4>1 DEF IndexInv, IndexIsBacked
        <5>2. QED
          BY <3>4, <5>1
      <4>2. \A i \in 2..Len(new) : new[i] # new[1]
        BY <3>4, <3>5
      <4>3. \A i \in 1..Len(new) : i = 1 \/ i \in 2..Len(new)
        BY <3>4
      <4>4. QED
        BY <4>1, <4>2, <4>3
    <3>9. QED
      BY <3>2, <3>3, <3>7, <3>8 DEF IndexInv, IndexIsBacked
  <2>3. CASE SkipBatch(g) \/ FinishDigest(g) \/ ApproveDigest(g) \/ ApproveFails(g)
    <3>1. UNCHANGED <<index, batches>>
      BY <2>3 DEF SkipBatch, FinishDigest, ApproveDigest, ApproveFails
    <3>2. \A h \in Goals : closing'[h] = "index" => closing[h] = "index"
      BY <2>3, CloseSet DEF SkipBatch, FinishDigest, ApproveDigest, ApproveFails
    <3>3. QED
      BY <1>1, <3>1, <3>2
  <2>4. QED
    BY <1>3, <2>1, <2>2, <2>3 DEF CloseDigest
<1>4. QED
  BY <1>2, <1>3, DigestMoves

(* articles.json lists every batch once and only batches that are on disk, *)
(* at every step of every report, of the pruning and of a crash between    *)
(* them, and for every cap on the articles.                                *)
THEOREM IndexIsTrue == Spec => []IndexIsBacked
<1>1. Init => IndexInv
  <2>1. Init => index = <<>> /\ \A g \in Goals : closing[g] = "no"
    BY DEF Init
  <2>2. Len(<<>>) = 0 /\ Range(<<>>) = {}
    BY DEF Range
  <2>3. QED
    BY <2>1, <2>2 DEF IndexInv, IndexIsBacked
<1>2. IndexInv => IndexIsBacked
  BY DEF IndexInv
<1>3. QED
  BY <1>1, <1>2, InitType, TypeStep, IndexStep, PTL DEF Spec

----------------------------------------------------------------------------
(* The marker of the built-in schedule.                                    *)

Alone    == \A p, q \in Seeders : p = q
NoDelete == "delete" \notin Ops
Marked   == marker \in Seeded
AtMark(p, s) == seeder[p].pc = "mark" /\ seeder[p].id = s
Ticking  == loop.pc \in {"rows", "advance"}

(* A built-in row that has fired or is about to.                           *)
Used(s) ==
    \/ \E g \in Goals : goal[g].status # "none" /\ goal[g].schedule = s
    \/ Ticking /\ \E r \in Due : r \in loop.todo /\ r.id = s

SeedersDown == ~up => \A p \in Seeders : seeder[p].pc = "idle"
RowsLive ==
    NoDelete =>
      /\ \A p \in Seeders : seeder[p].pc = "mark" => schedule[seeder[p].id].alive
      /\ Ticking => \A r \in Due : r \in loop.todo /\ r.id \in BuiltIn => schedule[r.id].alive
OneSeeder ==
    Alone =>
      /\ \A p \in Seeders : seeder[p].pc = "create" => Seeded = {}
      /\ \A p \in Seeders : seeder[p].pc = "mark" => Seeded \subseteq {seeder[p].id}
OwnRows ==
    \A p, q \in Seeders :
      p # q /\ seeder[p].pc \in {"mark", "now"} /\ seeder[q].pc \in {"mark", "now"} =>
      seeder[p].id # seeder[q].id
AllMarked == up => \A s \in Seeded : Marked \/ \E p \in Seeders : AtMark(p, s)
NotDueYet == \A p \in Seeders : seeder[p].pc = "mark" => schedule[seeder[p].id].next.at > clock
UsedMarked == \A s \in BuiltIn : Used(s) => Marked /\ \A p \in Seeders : ~ AtMark(p, s)

(* Between the creation of a row and its marker nothing fires it, so a row *)
(* that has fired is under a marker that names a live row, which no seeder *)
(* replaces by a row that has fired.                                       *)
MarkInv ==
    /\ SeedersDown /\ RowsLive /\ OneSeeder /\ OwnRows
    /\ AllMarked /\ NotDueYet /\ UsedMarked

LEMMA SeedersMove ==
    ASSUME [Next]_vars
    PROVE  \/ UNCHANGED <<marker, seeder, up>>
           \/ Crash \/ Restart
           \/ \E p \in Seeders : SeedHeal(p) \/ SeedCreate(p) \/ SeedMark(p) \/ FireNow(p)
BY DEF Next, Tick, HandleRow, SkipMissed, FireSchedule, FireNothing, FireFails, Advance, timeVars,
      seedVars, Sweep, ExpireStale, ExpireCancel, ExpireDrop, ExpireStamp, Claim, Completed,
      Failed, CloseDigest, closeRest, WriteBatch, SkipBatch, WriteIndex, FinishDigest,
      ApproveDigest, ApproveFails, Users, SetEnabled, IntakeEnable, IntakeEnabled, DeleteSchedule, Create,
      Update, userRest, CancelGoal, ApproveGoal, Reopen, DeleteGoal, Seed, Pass, Machine, vars

LEMMA SeedSet ==
    ASSUME TypeInv, NEW p \in Seeders, NEW from, NEW to, NEW id, SeedStep(p, from, to, id)
    PROVE  /\ up /\ seeder[p].pc = from /\ seeder'[p].pc = to /\ seeder'[p].id = id
           /\ \A q \in Seeders \ {p} : seeder'[q] = seeder[q]
  BY DEF SeedStep, TypeInv, TypeOK

LEMMA CreatedRow ==
    ASSUME TypeInv, NEW p \in Seeders, SeedCreate(p)
    PROVE  \E s \in BuiltIn :
             /\ ~schedule[s].alive /\ Unused(s) /\ SeedStep(p, "create", "mark", s)
             /\ schedule'[s].alive /\ schedule'[s].next.at > clock
             /\ \A o \in Schedules \ {s} : schedule'[o] = schedule[o]
<1>1. PICK s \in BuiltIn :
         /\ ~schedule[s].alive /\ Unused(s) /\ SeedStep(p, "create", "mark", s)
         /\ schedule' = [schedule EXCEPT ![s] = NewRow(DigestCron)]
  BY DEF SeedCreate
<1>2. s \in Schedules /\ DigestCron \in Periods
  BY ScheduleAssumption
<1>3. /\ NewRow(DigestCron) \in Row /\ NewRow(DigestCron).alive
      /\ NewRow(DigestCron).next.at > clock
  BY <1>2, NewRowType
<1>4. schedule'[s] = NewRow(DigestCron) /\ \A o \in Schedules \ {s} : schedule'[o] = schedule[o]
  BY <1>1, <1>2, <1>3, RowSet
<1>5. QED
  BY <1>1, <1>3, <1>4

(* A built-in row comes to life when a seeder creates it, and dies when a  *)
(* user deletes it.                                                        *)
AliveKept(s) == schedule'[s].alive <=> schedule[s].alive

LEMMA AliveStep ==
    ASSUME TypeInv, [Next]_vars, NEW s \in BuiltIn
    PROVE  \/ AliveKept(s)
           \/ DeleteSchedule(s) /\ ~ schedule'[s].alive
           \/ \E p \in Seeders : SeedCreate(p)
<1>0. s \in Schedules
  BY ScheduleAssumption
<1>1. ASSUME NEW o \in Schedules, NEW next \in Instant, schedule' = SetNext(o, next)
      PROVE  AliveKept(s)
  <2>1. CASE o = s
    BY <1>1, <2>1, NextSet, RowFields DEF AliveKept
  <2>2. CASE o # s
    BY <1>0, <1>1, <2>2, NextSet DEF AliveKept
  <2>3. QED
    BY <2>1, <2>2
<1>2. ASSUME NEW o \in Schedules, NEW v \in Row, schedule' = [schedule EXCEPT ![o] = v],
             o = s => (v.alive <=> schedule[s].alive)
      PROVE  AliveKept(s)
  BY <1>0, <1>2, RowSet DEF AliveKept
<1>3. ASSUME NEW r \in Due, SkipMissed(r) PROVE AliveKept(s)
  <2>1. SkippedTo(r) \in Instant
    BY DueFields, RowFields, CronIsLater, Clock DEF SkippedTo
  <2>2. QED
    BY <1>1, <1>3, <2>1, DueFields DEF SkipMissed
<1>4. ASSUME NEW r \in Due, Advance(r) PROVE AliveKept(s)
  <2>1. Cron(r.every, r.next.at) \in Instant
    BY DueFields, CronIsLater
  <2>2. QED
    BY <1>1, <1>4, <2>1, DueFields DEF Advance
<1>5. ASSUME NEW o \in Schedules, NEW every \in Periods, Create(o, every) PROVE AliveKept(s)
  BY <1>2, <1>5, NewRowType DEF Create
<1>6. ASSUME NEW o \in Schedules, NEW every \in Periods, Update(o, every) PROVE AliveKept(s)
  <2> DEFINE next == Cron(every, clock)
             v == [schedule[o] EXCEPT !.every = every, !.next = next]
  <2>1. next \in Instant /\ schedule[o] \in Row
    BY CronIsLater, Clock, RowFields
  <2>2. schedule' = [schedule EXCEPT ![o] = v]
    BY <1>6 DEF Update
  <2> HIDE DEF next
  <2>3. v \in Row /\ v.alive = schedule[o].alive
    BY <2>1 DEF Row
  <2> HIDE DEF v
  <2>4. QED
    BY <1>2, <2>2, <2>3
<1>7. ASSUME NEW o \in Schedules, NEW b \in BOOLEAN, schedule' = [schedule EXCEPT ![o].enabled = b]
      PROVE  AliveKept(s)
  <2> DEFINE v == [schedule[o] EXCEPT !.enabled = b]
  <2>1. schedule' = [schedule EXCEPT ![o] = v] /\ schedule[o] \in Row
    BY <1>7, RowFields
  <2>2. v \in Row /\ v.alive = schedule[o].alive
    BY <2>1 DEF Row
  <2> HIDE DEF v
  <2>3. QED
    BY <1>2, <2>1, <2>2
<1>8. ASSUME NEW o \in Schedules, DeleteSchedule(o)
      PROVE  AliveKept(s) \/ (DeleteSchedule(s) /\ ~ schedule'[s].alive)
  <2> DEFINE v == [schedule[o] EXCEPT !.alive = FALSE]
  <2>1. schedule' = [schedule EXCEPT ![o] = v] /\ schedule[o] \in Row
    BY <1>8, RowFields DEF DeleteSchedule
  <2>2. v \in Row /\ ~ v.alive
    BY <2>1 DEF Row
  <2> HIDE DEF v
  <2>3. schedule'[o] = v /\ \A u \in Schedules \ {o} : schedule'[u] = schedule[u]
    BY <2>1, <2>2, RowSet
  <2>4. CASE o = s
    BY <1>8, <2>2, <2>3, <2>4
  <2>5. CASE o # s
    BY <1>0, <2>3, <2>5 DEF AliveKept
  <2>6. QED
    BY <2>4, <2>5
<1>9. ASSUME NEW o \in Schedules, IntakeEnabled(o) PROVE AliveKept(s)
  <2>1. Cron(schedule[o].every, clock) \in Instant
    BY RowFields, CronIsLater, Clock
  <2>2. QED
    BY <1>1, <1>9, <2>1 DEF IntakeEnabled
<1>10. ASSUME NEW p \in Seeders, FireNow(p) PROVE AliveKept(s)
  <2>1. [at |-> clock, now |-> TRUE] \in Instant /\ seeder[p].id \in Schedules
    BY <1>10, Clock, ScheduleAssumption DEF Instant, FireNow, SeedStep, TypeInv, SeedOK
  <2>2. QED
    BY <1>1, <1>10, <2>1 DEF FireNow
<1>11. ASSUME UNCHANGED schedule PROVE AliveKept(s)
  BY <1>11 DEF AliveKept
<1>12. CASE HandleRow
  BY <1>3, <1>4, <1>11, <1>12, HandledRow DEF FireSchedule, FireNothing, FireFails
<1>13. CASE Users
  BY <1>5, <1>6, <1>7, <1>8, <1>9, <1>11, <1>13
  DEF Users, SetEnabled, IntakeEnable, CancelGoal, ApproveGoal, Reopen, DeleteGoal
<1>14. CASE Seed
  BY <1>10, <1>11, <1>14 DEF Seed, SeedHeal, SeedMark
<1>15. QED
  BY <1>11, <1>12, <1>13, <1>14
  DEF Next, Tick, Sweep, ExpireStale, ExpireCancel, ExpireDrop, ExpireStamp, Claim, Completed,
      Failed, CloseDigest, closeRest, WriteBatch, SkipBatch, WriteIndex, FinishDigest,
      ApproveDigest, ApproveFails, Pass, Machine, Crash, Restart, vars

(* What is used was used, or is a live row a running daemon finds due.     *)
LEMMA UsedStep ==
    ASSUME TypeInv, [Next]_vars, NEW s \in BuiltIn, Used(s)'
    PROVE  Used(s) \/ (Tick /\ IsDue(s))
<1>1. CASE \E g \in Goals : goal'[g].status # "none" /\ goal'[g].schedule = s
  <2>1. PICK g \in Goals : goal'[g].status # "none" /\ goal'[g].schedule = s
    BY <1>1
  <2>2. CASE GoalsKept
    BY <2>1, <2>2 DEF GoalsKept, Kept, Used
  <2>3. ASSUME NEW r \in Due, NEW h \in Goals, r \in loop.todo, Fired(r, h) PROVE Used(s)
    <3>1. goal'[h] = FiredGoal(r) /\ \A o \in Goals \ {h} : goal'[o] = goal[o]
      BY <2>3 DEF Fired, TypeInv, TypeOK
    <3>2. goal'[h].schedule = r.id
      BY <3>1 DEF FiredGoal
    <3>3. Ticking
      BY <2>3 DEF Fired, FireSchedule, Fires, Ticking
    <3>4. QED
      BY <2>1, <2>3, <3>1, <3>2, <3>3 DEF Used
  <2>4. QED
    BY <2>2, <2>3, GoalsStep
<1>2. CASE loop'.pc \in {"rows", "advance"} /\ \E r \in Due : r \in loop'.todo /\ r.id = s
  <2>1. CASE Tick
    <3>1. PICK r \in Due : r \in loop'.todo /\ r.id = s
      BY <1>2
    <3>2. PICK o \in Schedules :
             IsDue(o) /\ r = [id |-> o, every |-> schedule[o].every, next |-> schedule[o].next]
      BY <2>1, <3>1, TickLoop
    <3>3. QED
      BY <2>1, <3>1, <3>2
  <2>2. CASE ~ Tick
    BY <1>2, <2>2, TickStep DEF Used, Ticking
  <2>3. QED
    BY <2>1, <2>2
<1>3. QED
  BY <1>1, <1>2 DEF Used, Ticking

(* The steps of everybody but the seeders leave the marker alone.          *)
LEMMA OthersMark ==
    ASSUME TypeInv, TickInv, MarkInv, [Next]_vars, UNCHANGED <<marker, seeder, up>>
    PROVE  MarkInv'
<1>0. ASSUME NEW p \in Seeders
      PROVE  SeedHeal(p) \/ SeedCreate(p) \/ FireNow(p) => UNCHANGED schedule
  <2>1. CASE SeedHeal(p)
    BY <2>1 DEF SeedHeal
  <2>2. CASE SeedCreate(p)
    <3>1. PICK s \in BuiltIn : SeedStep(p, "create", "mark", s)
      BY <2>2, CreatedRow
    <3>2. QED
      BY <3>1, SeedSet
  <2>3. CASE FireNow(p)
    BY <2>3, SeedSet DEF FireNow
  <2>4. QED
    BY <2>1, <2>2, <2>3
<1>1. ASSUME NEW s \in BuiltIn
      PROVE  AliveKept(s) \/ (DeleteSchedule(s) /\ ~ schedule'[s].alive)
  <2>1. CASE \E p \in Seeders : SeedCreate(p)
    BY <1>0, <2>1 DEF AliveKept
  <2>2. QED
    BY <2>1, AliveStep
<1>2. Seeded' \subseteq Seeded
  BY <1>1 DEF Seeded, AliveKept
<1>3. Marked => Marked'
  BY <1>1 DEF Marked, Seeded, AliveKept, DeleteSchedule
<1>4. SeedersDown' /\ OneSeeder' /\ OwnRows' /\ AllMarked'
  <2>1. SeedersDown' /\ OwnRows'
    BY DEF MarkInv, SeedersDown, OwnRows
  <2>2. OneSeeder'
    BY <1>2 DEF MarkInv, OneSeeder
  <2>3. AllMarked'
    BY <1>2, <1>3 DEF MarkInv, AllMarked, AtMark
  <2>4. QED
    BY <2>1, <2>2, <2>3
<1>5. RowsLive'
  <2>1. SUFFICES ASSUME NoDelete PROVE RowsLive'
    BY DEF RowsLive
  <2>2. \A s \in BuiltIn : schedule[s].alive => schedule'[s].alive
    BY <1>1, <2>1 DEF AliveKept, DeleteSchedule, Edit, NoDelete
  <2>3. \A p \in Seeders : seeder'[p].pc = "mark" => schedule'[seeder'[p].id].alive
    BY <2>1, <2>2 DEF MarkInv, RowsLive, TypeInv, SeedOK
  <2>4. ASSUME loop'.pc \in {"rows", "advance"}, NEW r \in Due, r \in loop'.todo, r.id \in BuiltIn
        PROVE  schedule'[r.id].alive
    <3>1. CASE Tick
      <4>1. PICK o \in Schedules :
               IsDue(o) /\ r = [id |-> o, every |-> schedule[o].every, next |-> schedule[o].next]
        BY <2>4, <3>1, TickLoop
      <4>2. QED
        BY <2>2, <2>4, <4>1 DEF IsDue
    <3>2. CASE ~ Tick
      <4>1. Ticking /\ r \in loop.todo
        BY <2>4, <3>2, TickStep DEF Ticking
      <4>2. QED
        BY <2>1, <2>2, <2>4, <4>1 DEF MarkInv, RowsLive
    <3>3. QED
      BY <3>1, <3>2
  <2>5. QED
    BY <2>3, <2>4 DEF RowsLive, Ticking
<1>6. NotDueYet'
  <2>1. SUFFICES ASSUME NEW p \in Seeders, seeder[p].pc = "mark"
                 PROVE  schedule'[seeder[p].id].next.at > clock'
    BY DEF NotDueYet
  <2> DEFINE s == seeder[p].id
  <2>2. s \in BuiltIn /\ s \in Schedules /\ AtMark(p, s) /\ ~ Used(s)
        /\ schedule[s].next.at > clock
    BY <2>1, ScheduleAssumption DEF TypeInv, SeedOK, AtMark, MarkInv, UsedMarked, NotDueYet
  <2>3. clock' = clock
    <3>1. up
      BY <2>1 DEF MarkInv, SeedersDown
    <3>2. ~ Pass
      BY <2>1, <3>1 DEF Pass, Calm
    <3>3. QED
      BY <3>2, TimeStep
  <2> HIDE DEF s
  <2>4. ASSUME NEW r \in Due, r \in loop.todo, SkipMissed(r) \/ Advance(r)
        PROVE  schedule'[s] = schedule[s]
    <3>1. Ticking
      BY <2>4 DEF SkipMissed, Advance, Ticking
    <3>2. r.id # s
      BY <2>2, <2>4, <3>1 DEF Used
    <3>3. /\ SkippedTo(r) \in Instant /\ Cron(r.every, r.next.at) \in Instant
      BY DueFields, RowFields, CronIsLater, Clock DEF SkippedTo
    <3>4. QED
      BY <2>2, <2>4, <3>2, <3>3, DueFields, NextSet DEF SkipMissed, Advance
  <2>5. schedule'[s].next.at > clock
    BY <1>0, <2>2, <2>4, RowsStep DEF RowsMove, RowKept, RowLater
  <2>6. QED
    BY <2>3, <2>5 DEF s
<1>7. UsedMarked'
  <2>1. SUFFICES ASSUME NEW s \in BuiltIn, Used(s)'
                 PROVE  Marked' /\ \A p \in Seeders : ~ AtMark(p, s)'
    BY DEF UsedMarked
  <2>2. CASE Used(s)
    BY <1>3, <2>2 DEF MarkInv, UsedMarked, AtMark
  <2>3. CASE Tick /\ IsDue(s)
    <3>1. \A p \in Seeders : ~ AtMark(p, s)
      <4>1. schedule[s].next.at <= clock /\ schedule[s].next.at \in Nat /\ clock \in Nat
        BY <2>3, RowFields, Clock, ScheduleAssumption DEF IsDue
      <4>2. QED
        BY <4>1 DEF MarkInv, NotDueYet, AtMark
    <3>2. s \in Seeded /\ up
      BY <2>3 DEF IsDue, Seeded, Tick
    <3>3. QED
      BY <1>3, <3>1, <3>2 DEF MarkInv, AllMarked, AtMark
  <2>4. QED
    BY <2>1, <2>2, <2>3, UsedStep
<1>8. QED
  BY <1>4, <1>5, <1>6, <1>7 DEF MarkInv

(* A crash, and the start of main.                                         *)
LEMMA StartMark ==
    ASSUME TypeInv, TickInv, MarkInv, [Next]_vars, Crash \/ Restart
    PROVE  MarkInv'
<1>1. UNCHANGED schedule /\ \A p \in Seeders : seeder'[p].pc = "idle"
  BY DEF Crash, Restart, MarkInv, SeedersDown
<1>2. loop'.pc = "idle"
  BY DEF Crash, Restart, Idle, TickInv
<1>3. Marked => Marked'
  BY <1>1 DEF Crash, Restart, Marked, Seeded
<1>4. SeedersDown' /\ OneSeeder' /\ OwnRows' /\ NotDueYet' /\ RowsLive'
  BY <1>1, <1>2 DEF SeedersDown, OneSeeder, OwnRows, NotDueYet, RowsLive, Ticking
<1>5. AllMarked'
  BY <1>1 DEF AllMarked, Crash, Restart, Marked, Seeded
<1>6. UsedMarked'
  <2>1. SUFFICES ASSUME NEW s \in BuiltIn, Used(s)' PROVE Marked'
    BY <1>1 DEF UsedMarked, AtMark
  <2>2. ~ Tick
    BY DEF Tick, Crash, Restart, timeVars
  <2>3. Used(s)
    BY <2>1, <2>2, UsedStep
  <2>4. QED
    BY <1>3, <2>3 DEF MarkInv, UsedMarked
<1>7. QED
  BY <1>4, <1>5, <1>6 DEF MarkInv

(* What no step of a seeder touches.                                       *)
LEMMA SeedRest ==
    ASSUME TypeInv, TickInv, [Next]_vars, NEW p \in Seeders,
           SeedHeal(p) \/ SeedCreate(p) \/ SeedMark(p) \/ FireNow(p)
    PROVE  /\ UNCHANGED <<clock, up, goal, loop>> /\ up
           /\ \A s \in BuiltIn : Used(s)' => Used(s)
<1>1. UNCHANGED <<clock, up, goal, loop>> /\ up
  BY DEF SeedHeal, SeedCreate, SeedMark, FireNow, seedRest, timeVars, SeedStep
<1>2. QED
  BY <1>1 DEF Used, Ticking

LEMMA HealMark ==
    ASSUME TypeInv, TickInv, MarkInv, [Next]_vars, NEW p \in Seeders, SeedHeal(p)
    PROVE  MarkInv'
<1>1. UNCHANGED <<schedule, clock, loop>> /\ ~ Marked
  BY SeedRest DEF SeedHeal, Marked
<1>2. PICK to \in {"idle", "create"} :
         /\ SeedStep(p, "idle", to, NoSchedule)
         /\ to = "idle" => marker' \in Seeded
         /\ to = "create" => Seeded = {}
  BY DEF SeedHeal
<1>3. /\ up /\ seeder'[p].pc = to /\ seeder[p].pc = "idle"
      /\ \A q \in Seeders \ {p} : seeder'[q] = seeder[q]
  BY <1>2, SeedSet
<1>4. \A q \in Seeders : seeder'[q].pc \in {"mark", "now"} => seeder'[q] = seeder[q] /\ q # p
  BY <1>3
<1>5. SeedersDown' /\ RowsLive'
  <2>1. SeedersDown'
    BY SeedRest DEF SeedersDown
  <2>2. RowsLive'
    BY <1>1, <1>4 DEF MarkInv, RowsLive, Ticking
  <2>3. QED
    BY <2>1, <2>2
<1>6. OneSeeder'
  BY <1>1, <1>2, <1>3 DEF MarkInv, OneSeeder, Seeded
<1>7. OwnRows' /\ NotDueYet'
  BY <1>1, <1>4 DEF MarkInv, OwnRows, NotDueYet
<1>8. AllMarked'
  BY <1>1, <1>2 DEF AllMarked, Marked, Seeded
<1>9. UsedMarked'
  BY <1>1, SeedRest DEF MarkInv, UsedMarked
<1>10. QED
  BY <1>5, <1>6, <1>7, <1>8, <1>9 DEF MarkInv

LEMMA CreateMark ==
    ASSUME NoDelete \/ Alone, TypeInv, TickInv, MarkInv, [Next]_vars,
           NEW p \in Seeders, SeedCreate(p)
    PROVE  MarkInv'
<1>1. PICK s \in BuiltIn :
         /\ ~schedule[s].alive /\ Unused(s) /\ SeedStep(p, "create", "mark", s)
         /\ schedule'[s].alive /\ schedule'[s].next.at > clock
         /\ \A o \in Schedules \ {s} : schedule'[o] = schedule[o]
  BY CreatedRow
<1>2. /\ up /\ seeder[p].pc = "create" /\ seeder'[p].pc = "mark" /\ seeder'[p].id = s
      /\ \A q \in Seeders \ {p} : seeder'[q] = seeder[q]
  BY <1>1, SeedSet
<1>3. UNCHANGED <<clock, loop, marker>> /\ BuiltIn \subseteq Schedules
  BY SeedRest, ScheduleAssumption DEF SeedCreate
<1>4. \A q \in Seeders : seeder[q].id # s
  BY <1>1 DEF Unused
<1>5. Seeded' = Seeded \cup {s}
  BY <1>1, <1>3 DEF Seeded
<1>6. \A q \in Seeders \ {p} : seeder[q].pc \in {"mark", "now"} =>
         seeder[q].id \in BuiltIn \ {s} /\ schedule'[seeder[q].id] = schedule[seeder[q].id]
  BY <1>1, <1>3, <1>4 DEF TypeInv, SeedOK
<1>7. SeedersDown'
  BY <1>2, SeedRest DEF SeedersDown
<1>8. RowsLive'
  <2>1. SUFFICES ASSUME NoDelete PROVE RowsLive'
    BY DEF RowsLive
  <2>2. \A q \in Seeders : seeder'[q].pc = "mark" => schedule'[seeder'[q].id].alive
    BY <1>1, <1>2, <1>6, <2>1 DEF MarkInv, RowsLive
  <2>3. ASSUME Ticking, NEW r \in Due, r \in loop.todo, r.id \in BuiltIn
        PROVE  schedule'[r.id].alive
    BY <1>1, <1>3, <2>1, <2>3 DEF MarkInv, RowsLive
  <2>4. QED
    BY <1>3, <2>2, <2>3 DEF RowsLive, Ticking
<1>9. OneSeeder'
  <2>1. SUFFICES ASSUME Alone PROVE OneSeeder'
    BY DEF OneSeeder
  <2>2. Seeded = {} /\ \A q \in Seeders : q = p
    BY <1>2, <2>1 DEF MarkInv, OneSeeder, Alone
  <2>3. QED
    BY <1>2, <1>5, <2>2 DEF OneSeeder
<1>10. OwnRows'
  <2>1. ASSUME NEW q \in Seeders \ {p}, seeder'[q].pc \in {"mark", "now"}
        PROVE  seeder'[q].id # s /\ seeder'[q] = seeder[q]
    BY <1>2, <1>6, <2>1
  <2>2. QED
    BY <1>2, <2>1 DEF MarkInv, OwnRows
<1>11. AllMarked'
  <2>1. Marked => Marked'
    BY <1>3, <1>5 DEF Marked
  <2>2. AtMark(p, s)'
    BY <1>2 DEF AtMark
  <2>3. ASSUME NEW o \in BuiltIn, NEW q \in Seeders, AtMark(q, o) PROVE AtMark(q, o)'
    BY <1>2, <2>3 DEF AtMark
  <2>4. ASSUME NEW o \in Seeded' PROVE Marked' \/ \E q \in Seeders : AtMark(q, o)'
    <3>1. CASE o = s
      BY <2>2, <3>1
    <3>2. CASE o \in Seeded
      <4>1. Marked \/ \E q \in Seeders : AtMark(q, o)
        BY <1>2, <3>2 DEF MarkInv, AllMarked
      <4>2. QED
        BY <2>1, <2>3, <3>2, <4>1 DEF Seeded
    <3>3. QED
      BY <1>5, <3>1, <3>2
  <2>5. QED
    BY <2>4 DEF AllMarked
<1>12. NotDueYet'
  BY <1>1, <1>2, <1>3, <1>6 DEF MarkInv, NotDueYet
<1>13. UsedMarked'
  <2>1. SUFFICES ASSUME NEW o \in BuiltIn, Used(o)'
                 PROVE  Marked' /\ \A q \in Seeders : ~ AtMark(q, o)'
    BY DEF UsedMarked
  <2>2. Used(o) /\ Marked
    BY <2>1, SeedRest DEF MarkInv, UsedMarked
  <2>3. Marked'
    BY <1>3, <1>5, <2>2 DEF Marked
  <2>4. o # s
    <3>1. ASSUME o = s PROVE FALSE
      <4>1. \A g \in Goals : ~ (goal[g].status # "none" /\ goal[g].schedule = s)
        BY <1>1 DEF Unused
      <4>2. Ticking /\ \E r \in Due : r \in loop.todo /\ r.id = s
        BY <2>2, <3>1, <4>1 DEF Used
      <4>3. ~ NoDelete
        BY <1>1, <4>2 DEF MarkInv, RowsLive
      <4>4. ~ Alone
        BY <1>2, <2>2 DEF MarkInv, OneSeeder, Marked
      <4>5. QED
        BY <4>3, <4>4
    <3>2. QED
      BY <3>1
  <2>5. \A q \in Seeders : ~ AtMark(q, o)'
    BY <1>2, <2>2, <2>4 DEF MarkInv, UsedMarked, AtMark
  <2>6. QED
    BY <2>3, <2>5
<1>14. QED
  BY <1>7, <1>8, <1>9, <1>10, <1>11, <1>12, <1>13 DEF MarkInv

LEMMA MarkMark ==
    ASSUME NoDelete \/ Alone, TypeInv, TickInv, MarkInv, [Next]_vars,
           NEW p \in Seeders, SeedMark(p)
    PROVE  MarkInv'
<1> DEFINE s == seeder[p].id
<1>1. SeedStep(p, "mark", "now", s) /\ marker' = s /\ UNCHANGED <<schedule, clock, loop>>
  BY SeedRest DEF SeedMark
<1> HIDE DEF s
<1>2. /\ up /\ seeder[p].pc = "mark" /\ seeder'[p].pc = "now" /\ seeder'[p].id = s
      /\ \A q \in Seeders \ {p} : seeder'[q] = seeder[q]
  BY <1>1, SeedSet
<1>3. s \in BuiltIn /\ s = seeder[p].id
  BY <1>2 DEF s, TypeInv, SeedOK
<1>4. s \in Seeded \/ Seeded = {}
  <2>1. CASE NoDelete
    BY <1>2, <1>3, <2>1 DEF MarkInv, RowsLive, Seeded
  <2>2. CASE Alone
    BY <1>2, <1>3, <2>2 DEF MarkInv, OneSeeder
  <2>3. QED
    BY <2>1, <2>2
<1>5. SeedersDown' /\ RowsLive' /\ OneSeeder'
  <2>1. SeedersDown'
    BY <1>2, SeedRest DEF SeedersDown
  <2>2. \A q \in Seeders : seeder'[q].pc \in {"mark", "create"} => q # p /\ seeder'[q] = seeder[q]
    BY <1>2
  <2>3. RowsLive'
    BY <1>1, <2>2 DEF MarkInv, RowsLive, Ticking
  <2>4. OneSeeder'
    BY <1>1, <2>2 DEF MarkInv, OneSeeder, Seeded
  <2>5. QED
    BY <2>1, <2>3, <2>4
<1>6. OwnRows'
  <2>1. \A q \in Seeders : seeder'[q].pc \in {"mark", "now"} =>
           seeder[q].pc \in {"mark", "now"} /\ seeder'[q].id = seeder[q].id
    BY <1>2, <1>3
  <2>2. QED
    BY <2>1 DEF MarkInv, OwnRows
<1>7. AllMarked'
  <2>1. Seeded' = Seeded
    BY <1>1 DEF Seeded
  <2>2. QED
    BY <1>1, <1>4, <2>1 DEF AllMarked, Marked
<1>8. NotDueYet'
  BY <1>1, <1>2 DEF MarkInv, NotDueYet
<1>9. UsedMarked'
  <2>1. SUFFICES ASSUME NEW o \in BuiltIn, Used(o)'
                 PROVE  Marked' /\ \A q \in Seeders : ~ AtMark(q, o)'
    BY DEF UsedMarked
  <2>2. Marked /\ \A q \in Seeders : ~ AtMark(q, o)
    BY <2>1, SeedRest DEF MarkInv, UsedMarked
  <2>3. Marked'
    BY <1>1, <1>4, <2>2 DEF Marked, Seeded
  <2>4. QED
    BY <1>2, <2>2, <2>3 DEF AtMark
<1>10. QED
  BY <1>5, <1>6, <1>7, <1>8, <1>9 DEF MarkInv

LEMMA NowMark ==
    ASSUME TypeInv, TickInv, MarkInv, [Next]_vars, NEW p \in Seeders, FireNow(p)
    PROVE  MarkInv'
<1> DEFINE s == seeder[p].id
<1>1. /\ SeedStep(p, "now", "idle", NoSchedule) /\ UNCHANGED <<marker, clock, loop>>
      /\ schedule' = SetNext(s, [at |-> clock, now |-> TRUE])
  BY SeedRest DEF FireNow
<1>2. /\ up /\ seeder[p].pc = "now" /\ seeder'[p].pc = "idle"
      /\ \A q \in Seeders \ {p} : seeder'[q] = seeder[q]
  BY <1>1, SeedSet
<1>3. s \in BuiltIn /\ s \in Schedules /\ [at |-> clock, now |-> TRUE] \in Instant
  BY <1>2, Clock, ScheduleAssumption DEF TypeInv, SeedOK, Instant
<1>4. \A o \in Schedules \ {s} : schedule'[o] = schedule[o]
  BY <1>1, <1>3, NextSet
<1>5. schedule'[s].alive <=> schedule[s].alive
  BY <1>1, <1>3, NextSet, RowFields
<1>6. \A o \in BuiltIn : schedule'[o].alive <=> schedule[o].alive
  BY <1>4, <1>5, ScheduleAssumption
<1>7. Seeded' = Seeded
  BY <1>6 DEF Seeded
<1>8. \A q \in Seeders : seeder'[q].pc \in {"create", "mark", "now"} =>
         q # p /\ seeder'[q] = seeder[q]
  BY <1>2
<1>9. ASSUME NEW q \in Seeders, seeder'[q].pc = "mark"
      PROVE  /\ seeder[q].pc = "mark" /\ seeder'[q].id = seeder[q].id /\ seeder[q].id \in BuiltIn
             /\ schedule'[seeder[q].id] = schedule[seeder[q].id]
  <2>1. q # p /\ seeder'[q] = seeder[q] /\ seeder[q].pc = "mark"
    BY <1>8, <1>9
  <2>2. seeder[q].id # s /\ seeder[q].id \in BuiltIn
    BY <1>2, <2>1 DEF MarkInv, OwnRows, TypeInv, SeedOK
  <2>3. QED
    BY <1>4, <2>1, <2>2, ScheduleAssumption
<1> HIDE DEF s
<1>10. SeedersDown' /\ OwnRows' /\ NotDueYet'
  <2>1. SeedersDown'
    BY <1>2, SeedRest DEF SeedersDown
  <2>2. OwnRows'
    BY <1>8 DEF MarkInv, OwnRows
  <2>3. NotDueYet'
    BY <1>1, <1>9 DEF MarkInv, NotDueYet
  <2>4. QED
    BY <2>1, <2>2, <2>3
<1>11. RowsLive'
  BY <1>1, <1>6, <1>9 DEF MarkInv, RowsLive, Ticking
<1>12. OneSeeder'
  BY <1>7, <1>8 DEF MarkInv, OneSeeder
<1>13. AllMarked'
  <2>1. ASSUME NEW o \in Seeded, NEW q \in Seeders, AtMark(q, o) PROVE AtMark(q, o)'
    BY <1>2, <2>1 DEF AtMark
  <2>2. QED
    BY <1>1, <1>2, <1>7, <2>1 DEF MarkInv, AllMarked, Marked
<1>14. UsedMarked'
  <2>1. \A o \in BuiltIn, q \in Seeders : AtMark(q, o)' => AtMark(q, o)
    BY <1>8 DEF AtMark
  <2>2. QED
    BY <1>1, <1>7, <2>1, SeedRest DEF MarkInv, UsedMarked, Marked
<1>15. QED
  BY <1>10, <1>11, <1>12, <1>13, <1>14 DEF MarkInv

LEMMA MarkStep ==
    ASSUME NoDelete \/ Alone, TypeInv, TickInv, MarkInv, [Next]_vars
    PROVE  MarkInv'
  BY SeedersMove, OthersMark, StartMark, HealMark, CreateMark, MarkMark, NowMark

LEMMA InitMark == Init => MarkInv
<1> SUFFICES ASSUME Init PROVE MarkInv
  OBVIOUS
<1>1. /\ \A p \in Seeders : seeder[p].pc = "idle"
      /\ loop.pc = "idle" /\ \A g \in Goals : goal[g].status = "none"
  BY DEF Init, Idle
<1>2. Seeded = {}
  <2>1. \A s \in BuiltIn : ~ schedule[s].alive
    <3>1. PICK a, e \in BOOLEAN : schedule =
             [s \in Schedules |-> [alive |-> a /\ s \notin BuiltIn, enabled |-> e,
                                   every |-> UserCron, next |-> [at |-> UserCron, now |-> FALSE]]]
      BY DEF Init
    <3>2. QED
      BY <3>1, ScheduleAssumption
  <2>2. QED
    BY <2>1 DEF Seeded
<1>3. \A s \in BuiltIn : ~ Used(s)
  BY <1>1 DEF Used, Ticking
<1>4. QED
  BY <1>1, <1>2, <1>3
  DEF MarkInv, SeedersDown, RowsLive, OneSeeder, OwnRows, AllMarked, NotDueYet, UsedMarked, Ticking

----------------------------------------------------------------------------
(* A digest closes.                                                        *)

(* The run of a goal that waits for its approval has ended.                *)
ReviewEnded == \A g \in Goals : goal[g].status = "review" => goal[g].run \notin RunOpen
CloseInv == DigestCloses /\ ReviewEnded

LEMMA ReviewStep ==
    ASSUME TypeInv, ReviewEnded, [Next]_vars
    PROVE  ReviewEnded'
<1> USE DEF RunOpen
<1>1. CASE GoalsKept
  BY <1>1 DEF GoalsKept, Kept, ReviewEnded
<1>2. ASSUME NEW r \in Due, NEW g \in Goals, Fired(r, g) PROVE ReviewEnded'
  <2>1. goal'[g] = FiredGoal(r) /\ \A h \in Goals \ {g} : goal'[h] = goal[h]
    BY <1>2 DEF Fired, TypeInv, TypeOK
  <2>2. goal'[g].status = "active"
    BY <2>1 DEF FiredGoal
  <2>3. QED
    BY <2>1, <2>2 DEF ReviewEnded
<1>3. QED
  BY <1>1, <1>2, GoalsStep

LEMMA ClosingKept ==
    ASSUME TypeInv, [Next]_vars, ~ Crash, ~ Restart, NEW g \in Goals,
           closing[g] \in {"approve", "stuck"}, goal[g].run # "running"
    PROVE  closing'[g] \in {"approve", "stuck"} \/ ApproveDigest(g)
<1>1. CASE UNCHANGED digestVars
  BY <1>1 DEF digestVars
<1>2. ASSUME NEW h \in Goals, CloseDigest(h)
      PROVE  closing'[g] \in {"approve", "stuck"} \/ ApproveDigest(g)
  <2>1. ASSUME NEW from, NEW to, Close(h, from, to), closing[g] \notin from \/ to = "stuck"
        PROVE  closing'[g] \in {"approve", "stuck"}
    BY <2>1, CloseSet
  <2>2. CASE WriteBatch(h) \/ SkipBatch(h)
    <3>1. h # g
      BY <2>2 DEF WriteBatch, SkipBatch, Reported
    <3>2. QED
      BY <2>2, <3>1, CloseSet DEF WriteBatch, SkipBatch
  <2>3. CASE WriteIndex(h) \/ FinishDigest(h)
    BY <2>1, <2>3, CloseSet DEF WriteIndex, FinishDigest
  <2>4. CASE ApproveDigest(h)
    BY <2>4, CloseSet DEF ApproveDigest
  <2>5. CASE ApproveFails(h)
    BY <2>1, <2>5 DEF ApproveFails
  <2>6. QED
    BY <1>2, <2>2, <2>3, <2>4, <2>5 DEF CloseDigest
<1>3. QED
  BY <1>1, <1>2, DigestMoves

(* A goal is a digest only by its own firing: a marker never moves to a    *)
(* schedule that has fired, except at the start of main, before the sweep. *)
LEMMA DigestKept ==
    ASSUME TypeInv, MarkInv, [Next]_vars, ~ Restart, NEW g \in Goals,
           goal[g].status # "none", goal'[g].schedule = goal[g].schedule, IsDigest(g)'
    PROVE  IsDigest(g)
<1>1. marker' # NoSchedule /\ goal[g].schedule = marker'
  BY DEF IsDigest
<1>2. CASE marker' = marker
  BY <1>1, <1>2 DEF IsDigest
<1>3. CASE marker' # marker
  <2>1. PICK p \in Seeders : SeedHeal(p) \/ SeedCreate(p) \/ SeedMark(p) \/ FireNow(p)
    BY <1>3, SeedersMove DEF Crash
  <2>2. marker' \in BuiltIn
    BY <1>1, SeederStep
  <2>3. Used(marker')
    BY <1>1 DEF Used
  <2>4. Marked /\ \A q \in Seeders : ~ AtMark(q, marker')
    BY <2>2, <2>3 DEF MarkInv, UsedMarked
  <2>5. CASE SeedHeal(p)
    BY <2>4, <2>5 DEF SeedHeal, Marked
  <2>6. CASE SeedMark(p)
    <3>1. seeder[p].pc = "mark" /\ marker' = seeder[p].id
      BY <2>6 DEF SeedMark, SeedStep
    <3>2. QED
      BY <2>4, <3>1 DEF AtMark
  <2>7. QED
    BY <1>3, <2>1, <2>5, <2>6 DEF SeedCreate, FireNow
<1>4. QED
  BY <1>2, <1>3

LEMMA ClosesStep ==
    ASSUME TypeInv, MarkInv, DigestCloses, ReviewEnded, [Next]_vars
    PROVE  DigestCloses'
<1> SUFFICES ASSUME NEW g \in Goals, up', goal'[g].status = "review", IsDigest(g)'
             PROVE  closing'[g] \in {"approve", "stuck"}
  BY DEF DigestCloses
<1>1. CASE Restart
  <2>1. goal'[g].schedule = goal[g].schedule /\ goal'[g].status = goal[g].status
    <3>1. goal'[g] = Recovered(g) /\ goal[g] \in Goal
      BY <1>1, GoalFields DEF Restart
    <3>2. QED
      BY <3>1 DEF Recovered, Goal
  <2>2. goal[g].schedule = marker' /\ goal[g].status = "review"
    BY <2>1 DEF IsDigest
  <2>3. closing' = SweepStuck
    BY <1>1 DEF Restart
  <2>4. QED
    BY <2>2, <2>3 DEF SweepStuck
<1>2. CASE ~ Restart /\ GoalsKept
  <2>1. Kept(g) /\ goal[g].status # "none" /\ goal'[g].schedule = goal[g].schedule
    BY <1>2 DEF GoalsKept, Kept
  <2>2. IsDigest(g)
    BY <1>2, <2>1, DigestKept
  <2>3. CASE goal[g].status = "review"
    <3>1. ~ Crash /\ up
      <4>1. ~ Crash
        BY DEF Crash
      <4>2. QED
        BY <1>2, <4>1, SeedersMove, SeedRest
        DEF SeedHeal, SeedCreate, SeedMark, FireNow, SeedStep
    <3>2. closing[g] \in {"approve", "stuck"} /\ goal[g].run # "running"
      BY <2>2, <2>3, <3>1 DEF DigestCloses, ReviewEnded, RunOpen
    <3>3. ~ ApproveDigest(g)
      <4>1. ASSUME ApproveDigest(g) PROVE goal'[g].status = "done"
        <5>1. goal' = [goal EXCEPT ![g] = [goal[g] EXCEPT !.status = "done"]] /\ goal[g] \in Goal
          BY <2>3, <4>1, GoalFields DEF ApproveDigest
        <5>2. QED
          BY <5>1 DEF TypeInv, TypeOK, Goal
      <4>2. QED
        BY <4>1
    <3>4. QED
      BY <1>2, <3>1, <3>2, <3>3, ClosingKept
  <2>4. CASE Completed(g)
    BY <2>2, <2>4 DEF Completed
  <2>5. CASE FinishDigest(g)
    BY <2>5, CloseSet DEF FinishDigest
  <2>6. QED
    BY <2>1, <2>3, <2>4, <2>5 DEF Kept
<1>3. ASSUME NEW r \in Due, NEW h \in Goals, Fired(r, h), ~ Restart
      PROVE  closing'[g] \in {"approve", "stuck"}
  <2>1. goal'[h] = FiredGoal(r) /\ \A o \in Goals \ {h} : goal'[o] = goal[o]
    BY <1>3 DEF Fired, TypeInv, TypeOK
  <2>2. goal'[h].status = "active"
    BY <2>1 DEF FiredGoal
  <2>3. g # h /\ goal'[g] = goal[g]
    BY <2>1, <2>2
  <2>4. UNCHANGED <<closing, up, marker>>
    BY <1>3 DEF Fired, FireSchedule, digestVars, timeVars, seedVars
  <2>5. QED
    BY <2>3, <2>4 DEF DigestCloses, IsDigest
<1>4. QED
  BY <1>1, <1>2, <1>3, GoalsStep

(* A digest ends by itself, or its approval has failed, and leaves an      *)
(* index that is true, when no user may delete a schedule or only one      *)
(* caller seeds at a time.  Two seeders                                    *)
(* and a delete between the creation of a row and its marker can leave a   *)
(* live row that fires under a dangling marker, whose finished goals the   *)
(* next seeding turns into digests that nobody is about to approve.        *)
THEOREM DigestEnds ==
    ASSUME "delete" \notin Ops \/ \A p, q \in Seeders : p = q
    PROVE  Spec => []DigestIsWhole
<1>1. NoDelete \/ Alone
  BY DEF NoDelete, Alone
<1>2. Init => CloseInv
  <2>1. Init => \A g \in Goals : goal[g].status = "none"
    BY DEF Init
  <2>2. QED
    BY <2>1 DEF CloseInv, DigestCloses, ReviewEnded
<1>3. Init => TickInv
  BY TickInit
<1>4. TypeInv /\ TickInv /\ MarkInv /\ [Next]_vars => MarkInv'
  BY <1>1, MarkStep
<1>5. TypeInv /\ MarkInv /\ CloseInv /\ [Next]_vars => CloseInv'
  BY ClosesStep, ReviewStep DEF CloseInv
<1>6. CloseInv /\ IndexIsBacked => DigestIsWhole
  BY DEF CloseInv, DigestIsWhole
<1>7. QED
  BY <1>2, <1>3, <1>4, <1>5, <1>6, InitType, TypeStep, TickInvStep, InitMark, IndexIsTrue, PTL
  DEF Spec
============================================================================
