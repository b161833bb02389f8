------------------------------ MODULE Schedule ------------------------------
(***************************************************************************)
(* Cron schedules, the goals they fire, the sweep that calls a fire a      *)
(* miss, and the built-in digest schedule: its seeding, the collection of  *)
(* its articles and the automatic approval (internal/service/schedule.go,  *)
(* cron.go, digest_seed.go, run.go; internal/daemon/daemon.go, digest.go). *)
(*                                                                         *)
(* One unit of the clock is longer than scheduleMissGrace and a cron       *)
(* expression is a period: an occurrence is due in its own unit and missed *)
(* in every later one.  A running daemon ticks (every five seconds) before *)
(* its clock leaves a unit.  A goal keeps the latest row of its retry      *)
(* chain as its run; the articles of one firing are one batch.             *)
(***************************************************************************)
EXTENDS Naturals, FiniteSets, Sequences, Functions

CONSTANTS
    Schedules,    \* schedule rows: bounds how many are created
    BuiltIn,      \* the rows a seeder creates: digestScheduleName
    Periods,      \* the cron expressions
    DigestCron,   \* the one of the built-in schedule
    UserCron,     \* the one the users' schedules start with
    NoSchedule,   \* the marker, or a lookup, that names no row
    Goals,        \* fired goals: bounds how many are fired
    Seeders,      \* concurrent callers of SeedDigestSchedule
    MaxTime,      \* bound on the clock
    TTL,          \* scheduleFireTTL
    MaxBatches,   \* DigestMaxArticles
    MaxEdits,     \* bound on what users do
    MaxCrashes,   \* bound on the crashes of the daemon
    Ops           \* what users do in an instance

ASSUME ScheduleAssumption ==
    /\ Schedules # {} /\ BuiltIn \subseteq Schedules /\ NoSchedule \notin Schedules
    /\ Periods \subseteq Nat \ {0} /\ {DigestCron, UserCron} \subseteq Periods
    /\ {MaxTime, TTL, MaxEdits, MaxCrashes} \subseteq Nat
    /\ MaxBatches \in Nat \ {0}

VARIABLES
    clock, up,
    upSince,   \* the clock at the latest start of the daemon
    online,    \* the machine of the agents is connected
    schedule,  \* [Schedules -> Row]: the schedule table
    marker,    \* app_settings builtin.digest.schedule_id
    goal,      \* [Goals -> Goal]: fired goals, their schedule_run and run
    loop,      \* the daemon's goroutine: the tick or the sweep it is in
    tried,     \* rows this unit's ticks are done with
    seeder,    \* [Seeders -> what the call does next]
    enabling,  \* rows intakeScheduleEnable enabled, next_run_at not set yet
    closing,   \* [Goals -> Closing]: finishMachineRun of a digest run
    index,     \* articles.json, newest batch first
    batches,   \* the batch directories
    edits, crashes

digestVars == <<closing, index, batches>>
seedVars   == <<marker, seeder>>
timeVars   == <<clock, up, upSince, online, crashes>>
vars == <<timeVars, schedule, seedVars, goal, loop, tried, enabling, digestVars, edits>>

(* next_run_at: a cron occurrence, or the instant FireNow stamped.         *)
Instant == [at : Nat, now : BOOLEAN]
Row     == [alive : BOOLEAN, enabled : BOOLEAN, every : Periods, next : Instant]
Due     == [id : Schedules, every : Periods, next : Instant]  \* scheduleDueRow
RunOpen == {"queued", "running"}
GoalOpen == {"active", "review"}
Goal == [status : {"none", "done", "failed", "cancelled", "deleted"} \cup GoalOpen,
         schedule : Schedules, planned : Instant, born : Nat, missed : BOOLEAN,
         reopened : BOOLEAN,   \* by a person, since the sweep last cancelled it
         run : {"none", "completed", "failed", "cancelled"} \cup RunOpen,
         queued_at : Nat]
Closing == {"no", "index", "finish", "approve", "stuck"}

TypeOK ==
    /\ clock \in 0..MaxTime /\ upSince \in 0..MaxTime /\ {up, online} \subseteq BOOLEAN
    /\ schedule \in [Schedules -> Row]
    /\ marker \in BuiltIn \cup {NoSchedule}
    /\ goal \in [Goals -> Goal]
    /\ loop.pc \in {"idle", "rows", "advance", "stale", "drop", "stamp"}
    /\ loop.todo \subseteq Due \cup Goals /\ loop.now \subseteq loop.todo
    /\ tried \subseteq Schedules /\ enabling \subseteq Schedules
    /\ seeder \in [Seeders -> [pc : {"idle", "create", "mark", "now"},
                               id : BuiltIn \cup {NoSchedule}]]
    /\ closing \in [Goals -> Closing]
    /\ index \in Seq(Goals) /\ batches \subseteq Goals
    /\ edits \in 0..MaxEdits /\ crashes \in 0..MaxCrashes

Idle == [pc |-> "idle", todo |-> {}, now |-> {}]
Born0 == [at |-> 0, now |-> FALSE]

(* A database of a running daemon: the user's schedules wait for their     *)
(* first occurrence, the built-in one is not seeded.                       *)
Init ==
    /\ clock = 0 /\ up = TRUE /\ upSince = 0 /\ online = TRUE
    /\ \E a, e \in BOOLEAN : (a \/ e) /\ schedule =
         [s \in Schedules |-> [alive |-> a /\ s \notin BuiltIn, enabled |-> e,
                               every |-> UserCron, next |-> [at |-> UserCron, now |-> FALSE]]]
    /\ marker = NoSchedule
    /\ goal = [g \in Goals |-> [status |-> "none", planned |-> Born0, born |-> 0,
                 schedule |-> CHOOSE s \in Schedules : TRUE, missed |-> FALSE,
                 reopened |-> FALSE, run |-> "none", queued_at |-> 0]]
    /\ loop = Idle /\ tried = {} /\ enabling = {}
    /\ seeder = [p \in Seeders |-> [pc |-> "idle", id |-> NoSchedule]]
    /\ closing = [g \in Goals |-> "no"] /\ index = <<>> /\ batches = {}
    /\ edits = 0 /\ crashes = 0

--------------------------------------------------------------------------------
(* Occurrences.                                                            *)

(* ComputeNextRun: the first occurrence strictly after an instant.         *)
After(every, t) == (t \div every + 1) * every
Cron(every, t) == [at |-> After(every, t), now |-> FALSE]

IsDue(s) == schedule[s].alive /\ schedule[s].enabled /\ schedule[s].next.at <= clock
Missed(next) == next.at < clock
SetNext(s, next) == IF schedule[s].alive THEN [schedule EXCEPT ![s].next = next]
                    ELSE schedule

(* A schedule_run row of this schedule and planned_at exists.              *)
AlreadyFired(r) ==
    \E g \in Goals : /\ goal[g].status \notin {"none", "deleted"}
                     /\ goal[g].schedule = r.id /\ goal[g].planned = r.next

(* What users and the environment do, bounded by MaxEdits.                 *)
Edit(op) == up /\ op \in Ops /\ edits < MaxEdits /\ edits' = edits + 1

--------------------------------------------------------------------------------
(* The schedule tick (dispatchSchedules): the due rows are read at once,   *)
(* then handled one by one; what users write meanwhile is not seen.  A row *)
(* that is still due is read again by the next tick.                       *)

Work(pc, item) == loop' = [loop EXCEPT !.pc = pc, !.now = {item}]
Handled(pc, item) ==
    loop' = IF loop.todo = {item} THEN Idle
            ELSE [pc |-> pc, todo |-> loop.todo \ {item}, now |-> {}]
RowDone(r) == Handled("rows", r) /\ tried' = tried \cup {r.id}

Tick ==
    LET due == {s \in Schedules : IsDue(s)}
    IN  /\ up /\ loop.pc = "idle" /\ due # {}
        /\ loop' = [Idle EXCEPT !.pc = "rows",
                      !.todo = {[id |-> s, every |-> schedule[s].every,
                                 next |-> schedule[s].next] : s \in due}]
        /\ UNCHANGED <<timeVars, schedule, seedVars, goal, tried, enabling,
                       digestVars, edits>>

(* Where skipMissedOccurrences leaves next_run_at: past the clock, unless  *)
(* the planned occurrence is the only overdue one (skipped = 0).           *)
SkippedTo(r) ==
    IF After(r.every, r.next.at) > clock THEN schedule[r.id].next
    ELSE Cron(r.every, clock)

SkipMissed(r) ==
    /\ loop.pc = "rows" /\ Missed(r.next)
    /\ schedule' = SetNext(r.id, SkippedTo(r))
    /\ RowDone(r)
    /\ UNCHANGED <<timeVars, seedVars, goal, enabling, digestVars, edits>>

(* Mutant of Fires: every due row fires, however late.                     *)
FiresLate(r) == loop.pc = "rows"

Fires(r) == loop.pc = "rows" /\ ~Missed(r.next)

(* maybePickDigestExecutor finds no agent for the built-in schedule.       *)
NoExecutor(r) == r.id = marker /\ ~online

(* Mutant of MayInsert: schedule_run has no unique index.                  *)
InsertAnyway(r) == schedule[r.id].alive

MayInsert(r) == schedule[r.id].alive /\ ~AlreadyFired(r)

(* insertFiredGoal, schedule_run and the first run, in one transaction.    *)
FireSchedule(r) ==
    /\ Fires(r) /\ ~NoExecutor(r) /\ MayInsert(r)
    /\ \E g \in Goals :
         /\ goal[g].status = "none"
         /\ g = CHOOSE h \in Goals : goal[h].status = "none"
         /\ goal' = [goal EXCEPT ![g] =
              [status |-> "active", schedule |-> r.id, planned |-> r.next,
               born |-> clock, missed |-> FALSE, reopened |-> FALSE,
               run |-> "queued", queued_at |-> clock]]
    /\ Work("advance", r)
    /\ UNCHANGED <<timeVars, schedule, seedVars, tried, enabling, digestVars, edits>>

(* Nobody can run the digest, or this occurrence has fired: only advance.  *)
FireNothing(r) ==
    /\ Fires(r) /\ (NoExecutor(r) \/ AlreadyFired(r))
    /\ Work("advance", r)
    /\ UNCHANGED <<timeVars, schedule, seedVars, goal, tried, enabling, digestVars, edits>>

(* The transaction fails (the schedule or its assignee is gone, a busy     *)
(* database) and rolls back: the row is not advanced, the next tick        *)
(* retries it.                                                             *)
FireFails(r) ==
    /\ Fires(r) /\ ~NoExecutor(r) /\ Edit("fail")
    /\ RowDone(r)
    /\ UNCHANGED <<timeVars, schedule, seedVars, goal, enabling, digestVars>>

(* advanceScheduleNextRun: anchored at the planned instant.                *)
Advance(r) ==
    /\ loop.pc = "advance"
    /\ schedule' = SetNext(r.id, Cron(r.every, r.next.at))
    /\ RowDone(r)
    /\ UNCHANGED <<timeVars, seedVars, goal, enabling, digestVars, edits>>

(* The item in hand, or the next one in the order of the query.            *)
Item == {CHOOSE i \in IF loop.now # {} THEN loop.now ELSE loop.todo : TRUE}

HandleRow ==
    \E r \in IF loop.pc \in {"rows", "advance"} THEN Item ELSE {} :
        \/ SkipMissed(r) \/ FireSchedule(r) \/ FireNothing(r)
        \/ FireFails(r) \/ Advance(r)

--------------------------------------------------------------------------------
(* The sweep of fires that stayed queued (ExpireStaleScheduledRuns).       *)

Stale == {g \in Goals : /\ goal[g].status # "deleted"
                        /\ goal[g].run = "queued" /\ goal[g].queued_at + TTL < clock}

Sweep ==
    /\ up /\ loop.pc = "idle" /\ \E g \in Stale : ~goal[g].missed
    /\ loop' = [pc |-> "stale", todo |-> Stale, now |-> {}]
    /\ UNCHANGED <<timeVars, schedule, seedVars, goal, tried, enabling, digestVars, edits>>

(* Mutant of Cancels: the goal of a miss is left as it is.                 *)
CancelsNothing(g) == goal[g].status

(* GoalService.Cancel leaves a goal that has ended alone (ErrNotFound); it *)
(* ends one that was reopened like any other.                              *)
Cancels(g) == IF goal[g].status \in GoalOpen THEN "cancelled" ELSE goal[g].status

ExpireCancel(g) ==
    /\ loop.pc = "stale"
    /\ goal' = [goal EXCEPT ![g].status = Cancels(g), ![g].reopened = FALSE]
    /\ Work(IF goal[g].status \in GoalOpen THEN "drop" ELSE "stamp", g)
    /\ UNCHANGED <<timeVars, schedule, seedVars, tried, enabling, digestVars, edits>>

Dropped(g) == [goal EXCEPT ![g].run = IF @ = "queued" THEN "cancelled" ELSE @]

ExpireDrop(g) ==
    /\ loop.pc = "drop" /\ goal' = Dropped(g) /\ Work("stamp", g)
    /\ UNCHANGED <<timeVars, schedule, seedVars, tried, enabling, digestVars, edits>>

ExpireStamp(g) ==
    /\ loop.pc = "stamp"
    /\ goal' = [goal EXCEPT ![g].missed = goal[g].status # "deleted"]
    /\ Handled("stale", g)
    /\ UNCHANGED <<timeVars, schedule, seedVars, tried, enabling, digestVars, edits>>

ExpireStale ==
    \E g \in IF loop.pc \in {"stale", "drop", "stamp"} THEN Item ELSE {} :
        ExpireCancel(g) \/ ExpireDrop(g) \/ ExpireStamp(g)

--------------------------------------------------------------------------------
(* The run of a fired goal.                                                *)

Free == {"no", "stuck"}   \* no report of the goal's run is at work
IsDigest(g) == marker # NoSchedule /\ goal[g].schedule = marker
GoalStep(g, status, run) ==
    goal' = [goal EXCEPT ![g].status = status, ![g].run = run]

(* RunService.Claim, in the daemon's goroutine.                            *)
Claim(g) ==
    /\ up /\ online /\ loop.pc = "idle"
    /\ goal[g].status \in GoalOpen /\ goal[g].run = "queued"
    /\ GoalStep(g, goal[g].status, "running")
    /\ UNCHANGED <<timeVars, schedule, seedVars, loop, tried, enabling,
                   digestVars, edits>>

(* A completed run of a user's goal: Finish parks the goal for its human.  *)
Completed(g) ==
    /\ up /\ goal[g].run = "running" /\ closing[g] \in Free /\ ~IsDigest(g)
    /\ GoalStep(g, IF goal[g].status = "active" THEN "review" ELSE goal[g].status,
                "completed")
    /\ UNCHANGED <<timeVars, schedule, seedVars, loop, tried, enabling,
                   digestVars, edits>>

(* A failed run: the retry chain queues another row, or the goal fails.    *)
Failed(g) ==
    /\ up /\ goal[g].run = "running" /\ closing[g] \in Free
    /\ \/ /\ goal[g].status = "active"
          /\ goal' = [goal EXCEPT ![g].run = "queued", ![g].queued_at = clock]
       \/ GoalStep(g, IF goal[g].status = "active" THEN "failed"
                      ELSE goal[g].status, "failed")
    /\ UNCHANGED <<timeVars, schedule, seedVars, loop, tried, enabling,
                   digestVars, edits>>

--------------------------------------------------------------------------------
(* Digest collection (under digestMu), Finish, and the approval.           *)

Close(g, from, to) == closing[g] \in from /\ closing' = [closing EXCEPT ![g] = to]
closeRest == <<timeVars, schedule, seedVars, loop, tried, enabling>>

Collected(g) == g \in Range(index)

(* A completed run of a digest goal: before Finish the files of its batch  *)
(* are written; a batch that was collected, or a report without artifacts, *)
(* leaves nothing to do.                                                   *)
Reported(g) == goal[g].run = "running" /\ IsDigest(g) /\ \A h \in Goals : closing[h] # "index"

WriteBatch(g) ==
    /\ Reported(g) /\ ~Collected(g) /\ Close(g, Free, "index")
    /\ batches' = batches \cup {g}
    /\ UNCHANGED <<closeRest, edits, goal, index>>

SkipBatch(g) ==
    /\ Reported(g) /\ Close(g, Free, "finish")
    /\ UNCHANGED <<closeRest, edits, goal, index, batches>>

(* writeDigestArticles: newest first, capped.                              *)
Prepended(g) ==
    LET all == <<g>> \o index
    IN  SubSeq(all, 1, IF Len(all) > MaxBatches THEN MaxBatches ELSE Len(all))

(* digestPruneOrphanBatches keeps what the new index refers to.            *)
Live(g) == Range(Prepended(g))

(* articles.json is replaced at once; a crash before the pruning leaves    *)
(* directories that nothing refers to, for the next one to remove.         *)
WriteIndex(g) ==
    /\ Close(g, {"index"}, "finish")
    /\ index' = Prepended(g) /\ batches' = batches \cap Live(g)
    /\ UNCHANGED <<closeRest, edits, goal>>

(* RunService.Finish is conditional on the run; the approval follows it    *)
(* either way.                                                             *)
FinishDigest(g) ==
    /\ Close(g, {"finish"}, "approve")
    /\ IF goal[g].run = "running"
         THEN GoalStep(g, IF goal[g].status = "active" THEN "review"
                          ELSE goal[g].status, "completed")
         ELSE UNCHANGED goal
    /\ UNCHANGED <<closeRest, edits, index, batches>>

(* approveDigestGoal: a goal that is not in review is waited for, then     *)
(* given up on; on any other error nobody tries again before the next      *)
(* start.                                                                  *)
ApproveDigest(g) ==
    /\ Close(g, {"approve"}, "no")
    /\ goal' = [goal EXCEPT ![g].status = IF @ = "review" THEN "done" ELSE @]
    /\ UNCHANGED <<closeRest, edits, index, batches>>

ApproveFails(g) ==
    /\ Close(g, {"approve"}, "stuck") /\ Edit("fail")
    /\ UNCHANGED <<closeRest, goal, index, batches>>

CloseDigest(g) ==
    /\ up
    /\ \/ WriteBatch(g) \/ SkipBatch(g) \/ WriteIndex(g)
       \/ FinishDigest(g) \/ ApproveDigest(g) \/ ApproveFails(g)

--------------------------------------------------------------------------------
(* Users, and the built-in schedule's seeding.                             *)

userRest == <<timeVars, goal, loop, tried, digestVars>>
Mine(s) == schedule[s].alive

(* Ids are never used again.                                               *)
Unused(s) ==
    /\ \A g \in Goals : goal[g].schedule = s => goal[g].status = "none"
    /\ \A p \in Seeders : seeder[p].id # s
NewRow(every) == [alive |-> TRUE, enabled |-> TRUE, every |-> every,
                  next |-> Cron(every, clock)]

Create(s, every) ==
    /\ Edit("create") /\ ~Mine(s) /\ s \notin BuiltIn /\ Unused(s)
    /\ schedule' = [schedule EXCEPT ![s] = NewRow(every)]
    /\ UNCHANGED <<userRest, seedVars, enabling>>

(* Update recomputes next_run_at and leaves enabled alone.                 *)
Update(s, every) ==
    /\ Edit("update") /\ Mine(s)
    /\ schedule' = [schedule EXCEPT ![s].every = every, ![s].next = Cron(every, clock)]
    /\ UNCHANGED <<userRest, seedVars, enabling>>

SetEnabled(s, b) ==
    /\ Edit("toggle") /\ Mine(s) /\ schedule[s].enabled # b
    /\ schedule' = [schedule EXCEPT ![s].enabled = b]
    /\ UNCHANGED <<userRest, seedVars, enabling>>

(* intakeScheduleEnable: enabled first, next_run_at in a second statement. *)
IntakeEnable(s) ==
    /\ Edit("intake") /\ Mine(s) /\ ~schedule[s].enabled
    /\ schedule' = [schedule EXCEPT ![s].enabled = TRUE]
    /\ enabling' = enabling \cup {s}
    /\ UNCHANGED <<userRest, seedVars>>

IntakeEnabled(s) ==
    /\ up /\ s \in enabling /\ enabling' = enabling \ {s}
    /\ schedule' = SetNext(s, Cron(schedule[s].every, clock))
    /\ UNCHANGED <<userRest, seedVars, edits>>

(* Delete refuses the row the marker names, and takes the firing history.  *)
DeleteSchedule(s) ==
    /\ Edit("delete") /\ Mine(s) /\ s # marker
    /\ schedule' = [schedule EXCEPT ![s].alive = FALSE]
    /\ UNCHANGED <<userRest, seedVars, enabling>>

CancelGoal(g) ==
    /\ Edit("cancel") /\ goal[g].status \in GoalOpen
    /\ goal' = [Dropped(g) EXCEPT ![g].status = "cancelled"]
    /\ UNCHANGED <<timeVars, schedule, seedVars, loop, tried, enabling, digestVars>>

ApproveGoal(g) ==
    /\ Edit("approve") /\ goal[g].status = "review"
    /\ goal' = [goal EXCEPT ![g].status = "done"]
    /\ UNCHANGED <<timeVars, schedule, seedVars, loop, tried, enabling, digestVars>>

(* GoalService.Reopen, also of a goal whose fire was called a miss; the    *)
(* spawn is merged with a run that is pending.  schedule_run stays as it   *)
(* is.                                                                     *)
Reopen(g) ==
    /\ Edit("reopen") /\ goal[g].status \in {"done", "failed", "cancelled"}
    /\ goal' = [goal EXCEPT ![g].status = "active", ![g].reopened = TRUE,
         ![g].run = IF @ = "running" THEN @ ELSE "queued",
         ![g].queued_at = IF goal[g].run = "running" THEN @ ELSE clock]
    /\ UNCHANGED <<timeVars, schedule, seedVars, loop, tried, enabling, digestVars>>

(* The goal goes with its runs and its schedule_run row.                   *)
DeleteGoal(g) ==
    /\ Edit("drop") /\ goal[g].status \notin {"none", "deleted"}
    /\ goal' = [goal EXCEPT ![g].status = "deleted", ![g].run = "none",
                            ![g].missed = FALSE]
    /\ UNCHANGED <<timeVars, schedule, seedVars, loop, tried, enabling, digestVars>>

Users ==
    \/ \E s \in Schedules : \/ SetEnabled(s, TRUE) \/ SetEnabled(s, FALSE)
                            \/ IntakeEnable(s) \/ IntakeEnabled(s) \/ DeleteSchedule(s)
                            \/ \E p \in Periods : Create(s, p) \/ Update(s, p)
    \/ \E g \in Goals : CancelGoal(g) \/ ApproveGoal(g) \/ Reopen(g) \/ DeleteGoal(g)

seedRest == <<timeVars, goal, loop, tried, enabling, digestVars, edits>>
SeedStep(p, from, to, id) ==
    /\ up /\ seeder[p].pc = from
    /\ seeder' = [seeder EXCEPT ![p] = [pc |-> to, id |-> id]]
Seeded == {s \in BuiltIn : schedule[s].alive}   \* findScheduleByName

(* SeedDigestSchedule: a live marker is enough; a dangling one is cleared; *)
(* a row without a marker is adopted; else the row is created.             *)
SeedHeal(p) ==
    /\ marker \notin Seeded
    /\ \/ Seeded # {} /\ marker' \in Seeded /\ SeedStep(p, "idle", "idle", NoSchedule)
       \/ /\ Seeded = {} /\ marker' = NoSchedule
          /\ SeedStep(p, "idle", "create", NoSchedule)
    /\ UNCHANGED <<seedRest, schedule>>

SeedCreate(p) ==
    /\ \E s \in BuiltIn :
         /\ ~schedule[s].alive /\ Unused(s)
         /\ schedule' = [schedule EXCEPT ![s] = NewRow(DigestCron)]
         /\ SeedStep(p, "create", "mark", s)
    /\ UNCHANGED <<seedRest, marker>>

SeedMark(p) ==
    /\ SeedStep(p, "mark", "now", seeder[p].id) /\ marker' = seeder[p].id
    /\ UNCHANGED <<seedRest, schedule>>

(* FireNow: the new schedule runs once, at the next tick.                  *)
FireNow(p) ==
    /\ SeedStep(p, "now", "idle", NoSchedule)
    /\ schedule' = SetNext(seeder[p].id, [at |-> clock, now |-> TRUE])
    /\ UNCHANGED <<seedRest, marker>>

Seed == \E p \in Seeders : SeedHeal(p) \/ SeedCreate(p) \/ SeedMark(p) \/ FireNow(p)

--------------------------------------------------------------------------------
(* Time, the machine, crashes.                                             *)

Calm == ~up \/ /\ loop.pc = "idle" /\ \A p \in Seeders : seeder[p].pc = "idle"
               /\ {s \in Schedules : IsDue(s)} \subseteq tried /\ enabling = {}

Pass ==
    /\ Calm /\ clock < MaxTime /\ clock' = clock + 1 /\ tried' = {}
    /\ UNCHANGED <<up, upSince, online, crashes, schedule, seedVars, goal, loop,
                   enabling, digestVars, edits>>

Machine ==
    /\ Edit("machine") /\ online' = ~online
    /\ UNCHANGED <<clock, up, upSince, crashes, schedule, seedVars, goal, loop, tried,
                   enabling, digestVars>>

Crash ==
    /\ up /\ crashes < MaxCrashes /\ crashes' = crashes + 1 /\ up' = FALSE
    /\ loop' = Idle /\ tried' = {} /\ enabling' = {}
    /\ seeder' = [p \in Seeders |-> [pc |-> "idle", id |-> NoSchedule]]
    /\ closing' = [g \in Goals |-> "no"]
    /\ UNCHANGED <<clock, upSince, online, schedule, marker, goal, index, batches, edits>>

(* RecoverStuckRunning: runs go back to the queue with their queued_at.    *)
Recovered(g) ==
    IF goal[g].run # "running" THEN goal[g]
    ELSE [goal[g] EXCEPT !.run = IF goal[g].status \in GoalOpen THEN "queued"
                                 ELSE "cancelled"]

(* Mutant of SweepStuck: no sweep at startup.                              *)
SweepNothing == closing

(* sweepStuckDigestGoals: digest goals in review that nobody approved.     *)
SweepStuck ==
    [g \in Goals |-> IF goal[g].schedule = marker' /\ goal[g].status = "review"
                     THEN "approve" ELSE closing[g]]

(* main seeds before the daemon starts: a row without a marker is adopted. *)
Restart ==
    /\ ~up /\ up' = TRUE /\ upSince' = clock
    /\ goal' = [g \in Goals |-> Recovered(g)]
    /\ IF marker \notin Seeded /\ Seeded # {} THEN marker' \in Seeded ELSE UNCHANGED marker
    /\ closing' = SweepStuck
    /\ UNCHANGED <<clock, online, crashes, schedule, seeder, loop, tried,
                   enabling, index, batches, edits>>

Next ==
    \/ Tick \/ HandleRow \/ Sweep \/ ExpireStale
    \/ \E g \in Goals : Claim(g) \/ Completed(g) \/ Failed(g) \/ CloseDigest(g)
    \/ Users \/ Seed \/ Pass \/ Machine \/ Crash \/ Restart

Spec == Init /\ [][Next]_vars

--------------------------------------------------------------------------------
(* Properties.                                                             *)

(* An occurrence has at most one standing goal, whatever crash comes       *)
(* between the firing and the advance of next_run_at.                      *)
FiredOnce ==
    \A g, h \in Goals :
        /\ g # h /\ {goal[g].status, goal[h].status} \cap {"none", "deleted"} = {}
        /\ goal[g].schedule = goal[h].schedule
        => goal[g].planned # goal[h].planned

(* After a downtime the overdue occurrences are not replayed: a schedule   *)
(* never has two goals of different occurrences born in one unit.          *)
NoFlood ==
    \A g, h \in Goals :
        /\ g # h /\ {goal[g].status, goal[h].status} \cap {"none", "deleted"} = {}
        /\ goal[g].schedule = goal[h].schedule
        /\ ~goal[g].planned.now /\ ~goal[h].planned.now
        => goal[g].born # goal[h].born

(* Once the tick is done with a row, at most one occurrence of it lies     *)
(* behind the clock: it resumes, it does not work through the past.        *)
Resumes ==
    \A s \in tried : schedule[s].alive =>
        After(schedule[s].every, schedule[s].next.at) > clock

(* After a downtime a schedule goes on from the present: no burst of goals, *)
(* and no row that lags by more than one occurrence and would start one.   *)
NoCatchUp == NoFlood /\ Resumes

(* A fire called a miss is over: its goal has ended and nothing of it runs *)
(* or will be claimed, unless a person has reopened the goal since it was  *)
(* cancelled as a miss.                                                    *)
MissedIsOver ==
    \A g \in Goals : goal[g].missed /\ ~goal[g].reopened =>
        goal[g].status \notin GoalOpen /\ goal[g].run # "running"

(* articles.json lists no batch twice, and every batch it lists is on disk *)
(* whatever was pruned and wherever the daemon crashed.                    *)
IndexIsBacked ==
    /\ Range(index) \subseteq batches
    /\ \A i, j \in 1..Len(index) : index[i] = index[j] => i = j

(* A digest goal does not wait in review for a human unless its approval   *)
(* has failed: while the daemon runs an approval is on its way, also after *)
(* a crash between Finish and the approval, or before the marker of a new  *)
(* schedule was written, or when the goal is reopened.                     *)
DigestCloses ==
    \A g \in Goals : up /\ goal[g].status = "review" /\ IsDigest(g) =>
                     closing[g] \in {"approve", "stuck"}

(* A digest ends by itself and leaves an index that is true.               *)
DigestIsWhole == DigestCloses /\ IndexIsBacked

(* dispatchSchedules: only what came due while the daemon was down is      *)
(* skipped.  A schedule nobody edits is never advanced past an occurrence  *)
(* of the daemon's uptime that it has not fired.                           *)
OnlyDowntimeIsMissed ==
    [][\A s \in Schedules :
         schedule'[s].next.at > After(schedule[s].every, schedule[s].next.at) =>
         After(schedule[s].every, upSince) > clock]_vars
==============================================================================
