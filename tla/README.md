# agentwork in TLA+

This directory is a verification project for agentwork, the platform in
`src/`: a daemon that hands goals to coding agents, lets several agents work on
them in turn, gates the result behind a human review and merges it. It holds
TLA+ modules of the parts whose correctness depends on interleavings, crashes
and stale reads, TLC configurations that check them on small instances, and
theorems that TLAPS proves for every instance. `PROJECT.json` lists, for each
definition, the lines of the source it models.

All paths below are under `src/`.

1. [The system](#1-the-system) · 2. [Modules](#2-modules) ·
3. [What is checked](#3-what-is-checked) · 4. [What is proved](#4-what-is-proved) ·
5. [Known behaviours](#5-known-behaviours) · 6. [Not modelled](#6-not-modelled) ·
7. [Plan](#7-plan)

## 1. The system

| Part | State | Operations | Interacts with | What is hard, what must hold | Module |
|---|---|---|---|---|---|
| **Run table** (`internal/service/run.go`) | rows of `run`: status, role, agent, attempt, `queued_at`, `reconciled_at`, token | `enqueueTx` (coalescing), `Claim`, `Finish`, `RecoverStuckRunning`, `ReconcilePendingTerminal` | every service inserts through it; the daemon claims | One owner run per goal at a time; one pending run per agent and role; an ended run stays ended; every end is judged once | RunTable, GoalRun |
| **Goal lifecycle** (`internal/service/goal.go`) | `goal.status`, assignee, `review_request`, `handoff_event`, `gate_decision` | `Activate`, `Assign`, `Cancel`, `ReconcileOnRunEnd`, `ResolveReview`, `Reopen`, `Relaunch`, `EnqueueOwnerRun`, `MarkDelivered`, `ReconcileGoal` | run table, event bus, delivery | Handlers read before their transaction and act on what they read; several are more than one statement; an active goal must not stall silently | GoalRun, GoalLifecycle |
| **Comments, consults** (`comment.go`) | comments, `consult_request` | mention an agent, reply, ask the human | run table, goal | The requester is resumed when the consult returns, unless it lost the goal meanwhile | GoalRun |
| **Daemon** (`internal/daemon/daemon.go`, `cmd/agentwork-daemon/main.go`) | worker queues, goroutines | startup recovery, `dispatchOnce`, `onGoalAssigned`, `StopRun`, `reapRunawayRuns` | all services | Crash between any two transactions; events handled late, in any order, or never | GoalRun |
| **Machine dispatch** (`machine_dispatch.go`, `cmd/agentwork-cli/{connect,exec}.go`, `internal/link`) | pending dispatches and cancels per machine; executions and a stash of reports on the machine | dispatch, dequeue, claimed/finished reports, watchdog, reconnect | run table | At-least-once delivery of dispatches, lost acknowledgements, late reports, tokens | MachineDispatch |
| **Machines and links** (`internal/server/server.go`, `internal/link/peer.go`, `machine.go`, `agent.go`) | `machine` and `runtime` rows, the peer table, the steward's runtime | register, probe, heartbeat, loss of a link, stale sweep | dispatch | Goroutines of dead links act late | Presence |
| **Sub-goals, changes, verification** (`subgoal.go`, `stale_conflict.go`) | `sub_goal`, `change`, their runs | create, end of a run, verdict, integrate, cancel, retry, the Coordinator's attention | goal, run table | The owner sees every result; the goal finishes only when all its parts are integrated; the verifier judges what it looked at | SubGoal |
| **Delivery** (`deliver.go`, `cmd/agentwork-cli/gitwork.go`) | worktrees, clones, transfer refs, the domain's repository | commit, push, adopt, merge, push, clean up | goal, git | Merge only what was reviewed, although executions whose row was stamped go on pushing; lose nothing; survive a crash between any two git steps | GoalRun, Delivery |
| **Schedules** (`schedule.go`, `cron.go`, `digest_seed.go`) | `schedule`, `schedule_run`, the built-in's marker | tick, fire, skip, expire, edits, seeding | goal, run table | Fire an occurrence once; no burst after downtime; a miss is over unless a person reopens it | Schedule |
| **Digest** (`digest.go`) | batches and `articles.json` on disk | collect, prune, approve | goal | Files and index agree; a digest never waits for a human | Schedule |
| **Team import, templates** (`team_import.go`, `template_apply.go`, `squad.go`, `skill.go`, `import_dispatch.go`) | `team_import`, agents, squads, members, skills | import, ingest, apply, upsert | goal, run table | Many writes without a transaction; three places that record one end | TeamImport |
| **IM intake** (`internal/daemon/intake.go`, `internal/notify/intake.go`) | processor runs, one draft | message, parse, ask, create, stamp | run table, IM | A draft shared by all lanes; an action done and its run failed by a timeout | Intake |
| **Issue integration** (`internal/issue`) | goals with a `source_ref` | poll, webhook, refresh, wake, close | goal | Duplicate, lost and late deliveries | IssueSync |
| **Event bus** (`internal/events/bus.go`) | none | publish: one goroutine per handler | everything | No order, no persistence | in each module |
| **Review window** (`squad_review.go`) | a window per review in memory | open, fire once, recover | goal, IM card | Fire once, after the reviewer or the timeout | - |
| **Gates, verification command** (`gate.go`, `verify.go`) | none | match changed paths, run a command | goal, delivery | Pure | - |
| **Cards, ACP, HTTP, WebSocket, CRUD, chat, logging, store, web** | - | - | - | Presentation, foreign protocols, I/O | - |

`PROJECT.json` gives the status of each part and the hazards of the code at the
line where each one bites.

## 2. Modules

```
 RunTable ----------------- rows, enqueueTx, requeue, replay scan (operators)
    |
 GoalRun -- GoalRunProofs
    |  (INSTANCE GoalLifecycle: the promise)
 MCGoalRun

 MachineDispatch -- MachineDispatchProofs     Presence
    (INSTANCE RunContract: the promise)
 MCSubGoal ----- SubGoal ---- SubGoalProofs
 MCDelivery ---- Delivery --- DeliveryProofs
 MCSchedule ---- Schedule --- ScheduleProofs
 MCIssueSync --- IssueSync -- IssueSyncProofs
 MCTeamImport -- TeamImport -- TeamImportProofs
 MCIntake ------ Intake ----- IntakeProofs
```

The modules share one discipline. *One step per transaction:* SQLite serialises
writers, so a transaction is atomic and a statement outside one is a step of its
own; a step of git or of the file system is one, too. *Stale reads:* what a
handler read before its transaction is carried in its own state. *Crash:* all
that is not in the database, in a repository or in a file is lost, at any step.
`Ops` names what the environment does in an instance (humans, agents, networks),
so that a run can concentrate on the interleavings its question is about, and
`MaxEdits`, where there is one, how often.

**RunTable** models the rows of one goal and the statements the services share.
It keeps the columns that guards read. `queued_at` becomes `due` (its time has
come), `started_at` and `reconciled_at` become booleans; `consult_request`
becomes the set of agents that asked. A row with status "none" is not inserted
yet, so `RunIds` bounds how many runs a goal gets.

**GoalRun** is the core: one goal, its runs, every handler that changes either,
and the process that may crash. `Cancel` is `CancelGoal` then `SweepQueued`;
`ResolveReview` is `BeginDecision` (the reads and the duplicate guard),
`RecordDecision` (the insert), then one of `ApproveLoop`, `ApproveDelivery`,
`RejectLoop` + `SweepQueued`, `RejectReview`; `Finish` is the stamp, then
`ReconcileOnRunEnd`, one action per outcome of that transaction. Whether a gate
fires is a free choice between `ParkInReview` and `PromoteDone`. What a handler
read earlier is in its session `sess[s]`. A published `goal:assigned` is a
member of `cuts` and handled by `CutOldOwner` at any later time; `goal:approved`
starts a delivery job. `Crash`, `Boot`, `Recover` (requeue, then the scan for
unjudged ends), the replay (`Reconcile` while `daemon = "replay"`) and
`StartDispatch` (which restarts approved deliveries) follow `Daemon.Run`; HTTP
handlers run from `Boot` on. The run `Claim` takes is handed to its agent's
worker by `Route`, or goes back by `ReturnToQueue` when the worker's queue is
full; these two are separate steps only where "overflow" is in `Ops`.
What GoalRun says of runs it says of their rows, which is what the daemon's
decisions are made from: an execution on a machine that outlives its row is in
MachineDispatch and in Delivery.
Abstractions: sub-goal, verification, processor and scheduled runs are in other
modules; squad mentions and the mention-cycle guard, wake notes, squad leader
changes and the order of claimable runs are left out; "redirect" takes the path
of "reject"; the reads of `ResolveReview` are one step, as are the scan and the
stamps of `onGoalAssigned`.

**GoalLifecycle** is what the goal layer promises (DESIGN.md, the state machine
and invariant 6): the edges of the status, work that begins only on an active
goal nobody works on. `GoalRun` implements it with `writing` mapped to the
running owner runs. **MCGoalRun** instantiates GoalRun: two agents, a squad led
by the first and reviewed by the second.

**RunContract** is what the daemon promises the goal layer about a run, however it
is executed: it is worked on once per claim, it ends once, with a report of its
latest claim or with none, and only a restart takes claims back, all of them at
once. `MachineDispatch` implements it with what the goal layer sees of a row; a row
that ended with the report of an earlier claim is in no state of the contract.

**MachineDispatch** models the link between the daemon and one machine, with its
own, smaller view of a run row: status, token (how often it was claimed) and
`end`, the token of the report that ended it. `Stamp` stands for every write of
GoalRun that ends a run from outside the dispatch. `assigned`, `pending`
(`machinePending`), `cancels`, `expired`, `watch` (watchdogs) and `finishing`
are lost in a `Crash`. One poll response (`reply`) and the `run.claimed` calls
(`acks`) can be in flight, late or lost; `run.finished` is handled and answered,
or fails with or without having been handled. `exec[e]` is one goroutine of
`execute`: `Receive` checks the executor's map and `Enter` writes it. After a
link failure an execution is `old`: the next link has another executor. Left
out: event batches, sessions, artifacts, reports without a token, the order of
the queue. Time is abstract: a timer may fire at any moment.

**Presence** models who is there: the connections of a machine with the
goroutines of their requests (`proc[l]`, which outlive the link), the peer
table, the machine's and its runtime's rows, the steward. The client and the
server learn of a lost link in any order (`LosesLink`, `NoticesLoss`,
`SeesClose`). `Ages` then `MarkStale` are the 90 s without a heartbeat.

**SubGoal** models an active goal that is split: the rows of its runs, the
sub-goals, their latest change, and the Coordinator. The time stamps that
`computeAttention` compares become the results of those comparisons (`worked`,
`revised`, `ahead`); `unseen` is a history variable, the sub-goals settled since
an owner run was claimed. A row is used again once its end is judged. A cancel
does not stop a running run of the sub-goal: nothing tells its machine.

**Delivery** models what GoalRun abstracts: a ref is the set of commits in its
history, what they add and what they undo; `tree`, `clone`, `origin`, `bare` and
`room` are the five places a goal's work passes through, `Write`,
`CommitAndPush`, `Judge` (adoption and diff) and the steps of `deliverGoal` the
way between them. `run` is the owner run whose row is running. A handoff, a
human's stop, the reaper and a restart stamp that row, and nothing tells the
machine in time: the execution becomes a member of `strays`, goes on writing in
its worktree, commits and pushes, beside its successor, and only its report is
dropped. A cancel stamps nothing at all. A row that is stamped while its report
is judged is adopted all the same (`JudgeStray`). `shown` is the branch the
latest review was opened on. Conflicts appear as a merge that fails.

**Schedule** models time in units of the shortest period; `next.at` is
`next_run_at`, `Missed` the one-minute grace. The digest's collection runs under
its lock step by step (`closing[g]`), its approval may fail for good ("stuck"),
and `Seed` is the creation of the built-in schedule, by the daemon or by a
registering machine. A firing that fails leaves its row due, for any number of
ticks in the same unit. `Reopen` (and a restart, which does the same here) makes
the goal of any fire active again, that of a miss included; `reopened` remembers
it, because `schedule_run` keeps its "missed".

**IssueSync** models what the platform holds (`item`), the deliveries it sent
(`mail`, never removed: a delivery may be handled any number of times, late, or
not at all), and the steps of one call (`call[p]`) for each webhook request and
the poller. A comment that cannot be written to the feed is only logged: the
owner is woken all the same. `saw` is the head in the prompt of the latest
claimed run. A run ends with the goal in review, or fails and is retried, or
leaves the goal active: it was stopped or reaped, or waits for an answer or a
consult (status "left"). A goal handed to a human has `NoAgent` as its owner.

**TeamImport** models the writes of one import and of template applications one
row at a time; every source describes the same team, so what the writers do to
each other shows in `squad.members`. Failures of single writes are in `Ops`, as are a
human's stop of the run and the sweep of dispatches no machine fetched
("expire"), which fails run and goal and leaves the row of the import pending.
An upsert of a skill is its SELECT and then its INSERT, with others in between.

**Intake** models a message as a run, its outcome as any action (a create with
a set of known fields, another command, or nothing that parses), and the
handlers that execute it, as goroutines of reports that may get through twice.
A run is claimed only while the steward's machine is `online`; while it waits,
the messages of its lane are folded into it. A write of the settings may fail
without notice: a draft that was to be cleared is then `kept`.

## 3. What is checked

Twelve runs, one per question. Type invariants are not repeated in them: each
module's `TypeOK` was checked on these instances while it was written, and is a
theorem of every module with proofs (section 4).

| Run | Question | Properties | States |
|---|---|---|---|
| `goal_all` | Nearly every operation of the goal layer interleaved: handoff, squad with reviewer, crash. Does the table stay consistent, is one owner run running at most, is every step an edge of the life cycle? | `OneWriter`, `OnePending`, `RetryChain`, `TerminalRunStands`, `ImplementsLifecycle` | 918 k |
| `goal_handoff` | A handoff against running work, consults and late handlers: do the rows of the former owner end, is only the new owner's run claimed, and is it claimed at last? Is an active goal ever left to nobody? | `HandoffCut`, `NoStall`, `ClaimIsOwners`, `IntentIsClaimed` | 172 k |
| `goal_crash` | Run, review and delivery with a crash at any step, timeouts, runaways, a full worker queue: what is merged, and is every end judged? | `MergeExclusive`, `MergeApproved`, `EveryEndIsJudged`, `ApprovalIsDelivered` | 100 k |
| `dispatch` | One run between daemon and machine over lossy calls, crashes of both: whose outcome is recorded, and is anyone left in charge? | `Supervised`, `OutcomeIsOfClaim`, `KnownIsInFlight`, `ImplementsContract`, `EveryClaimEnds` | 437 k |
| `sub_goals` | Two sub-goals, one with a verifier, one whose conflicts the owner may resolve by hand, with failing runs, rejects and a crash: does anything wait for a run that does not exist, is anything left outside of the review? | `StatusHasRuns`, `JudgedStable`, `ReviewIsWhole`, `ReadyIsSeen` | 1554 k |
| `sub_goal_one` | One sub-goal with cancels, wakes and creations by a human: does a ready revision get an owner run? | `RevisionIsHandled` | 124 k |
| `delivery` | Work from two agents' worktrees to the default branch, with executions that outlive their row, guests, a handoff and back, another goal's delivery, failing pushes and a crash: is anything reviewed lost, or merged that nobody reviewed? | `WorkIsKept`, `MergedIsReviewed`, `ApprovalEnds` | 1757 k |
| `schedule` | A user's and the built-in schedule through ticks, downtime, edits, reopened goals and the expiry sweep: one goal per occurrence, no burst, and nothing of a miss at work? | `FiredOnce`, `NoCatchUp`, `MissedIsOver`, `DigestIsWhole` | 1804 k |
| `issue_sync` | A webhook beside the poller, a crash, runs that leave their goal, and people who edit, hand over and delete: one goal per item, is no goal forgotten, and is every item found? | `DeliveredOnce`, `ActiveHasRun`, `EveryIssueIsTracked` | 442 k |
| `team_import` | An import beside a template of the same team, with failing writes, a stop, an expiry and a crash: is the team written before the goal is done? | `TeamIsWhole`, `ImportEnds` | 537 k |
| `presence` | A machine that connects, dies and returns, with handlers of old links still running: is it reached, and is it seen to be gone? | `LinkHeals`, `OfflineIsSeen` | 66 k |
| `intake` | Two messages on three lanes, reports handled twice, handlers that share one draft, timeouts that race with an action, a machine that comes and goes: does a request inherit what another one used, is what was done reported as done, and does every message end? | `DraftIsOpen`, `DoneIsCompleted`, `EveryMessageEnds` | 924 k |

What the properties say:

* *The table.* `OneWriter`: at most one owner run of a goal is running.
  `OnePending`: one pending run per agent and role. `RetryChain`: an attempt
  above the first continues a failed one. `TerminalRunStands`: an ended run
  stays ended.
* *The rows of the branch's writers.* `HandoffCut`: once every `goal:assigned`
  handler ran, no owner run of a former owner is running in the table, so the
  claim gate is free for the new one. `ClaimIsOwners`: nobody else is claimed.
  `MergeExclusive`, `MergeApproved`: no owner run is running while the branch is
  merged, and what is merged was approved in this review. None of them says that
  no execution writes: a stamp does not reach the machine, and what becomes of
  the commits of such an execution is the matter of `delivery`.
  `ImplementsLifecycle`: the refinement.
* *Progress of the goal.* `NoStall`: an active goal owned by an agent has a
  pending run of its owner or a pending consult the owner waits for, the end of
  one that will still be judged, an open question, an answer whose wake-up is
  under way, or a run of those that was stopped or killed, after which the
  documentation leaves the decision to a human; the disjunct
  `TwoRequesters` excepts a consult two agents wait for (a finding, section 5).
  `EveryEndIsJudged`, `ApprovalIsDelivered`, `IntentIsClaimed`: liveness.
* *The machine.* `Supervised`: a running run is with a worker, queued for the
  machine, being failed, watched or being finished; `EveryClaimEnds` follows
  under fairness of the daemon alone. `OutcomeIsOfClaim`: a report stashed under
  an earlier claim never ends a later one. `ImplementsContract`: the refinement
  of RunContract, and with it that the first end stands.
  `KnownIsInFlight`: the executor's map has no entry without an execution, so no
  dispatch is refused for ever. `LinkHeals`: a machine that stays is reached
  again and again over the link it has. `OfflineIsSeen`: one that is gone is
  seen to be gone.
* *Sub-goals.* `StatusHasRuns`: what waits has a run on its way, what is settled
  has none. `JudgedStable`: no assignee's run is under way beside its verifier.
  `ReviewIsWhole`: what the human judges, or what is done, has no open sub-goal
  and no change outside of the branch. `ReadyIsSeen`: when all is quiet, an
  owner run was claimed after every ready revision, failure and machine
  verification. `RevisionIsHandled`: the same as liveness.
* *Delivery.* `WorkIsKept`: what a review showed is, while the goal is open, in
  the daemon's repository or in the default branch, and after a delivery in the
  default branch, whatever strays and guests push. `MergedIsReviewed`: what
  enters the default branch is the branch the review showed, or comes after all
  that it showed; the second is a delivery repeated after it had deleted the
  branch (a finding), and once a run was stamped while it was judged nothing is
  promised. `ApprovalEnds`: an approval is delivered or its failure is there to
  see.
* *Schedules.* `FiredOnce`: an occurrence has one goal. `NoCatchUp`: no burst
  after downtime, and no row that a tick is done with lags by more than one
  occurrence. `MissedIsOver`: nothing of a miss runs, unless a person reopened
  its goal after it was cancelled. `DigestIsWhole`: while the daemon is up a
  digest in review has its approval on its way, unless the approval failed, and
  the index lists only batches that are on disk.
* *Issues.* `DeliveredOnce`: one goal per reference, no update announced twice in
  a row. `ActiveHasRun`: an active goal of an agent has a queued or running run of
  that agent, or the agent's last run left it to a human, a consult or an
  answer; no relaunch, handoff, wake of another agent, refused enqueue or crash
  forgets it. `EveryIssueIsTracked`: the poll finds every open item
  whatever deliveries are lost.
* *Imports.* `TeamIsWhole`: with nothing under way the squad has the team's
  roster, and a goal is in review or done only with its team written.
  `ImportEnds`: the row and the review of an import are decided.
* *Intake.* `DraftIsOpen`: the stored draft is never one that was merged into a
  create already tried, unless the write that cleared it failed.
  `DoneIsCompleted`: an action that was executed is never reported as failed.
  `EveryMessageEnds`: a message is over in the end, or waits for a machine that
  is offline.

**Bounds.** *Goal:* 2 or 3 runs, enough for an owner run, its successor and a
guest (a mention that coalesces needs none of its own); `MaxAttempts` 2 for 3
(one retry and one exhaustion); `HandoffCycle` 1 or 2 for 8; one handoff, at most one crash, one session at a time, whose steps
still interleave with everything else. `goal_all` has no "overflow", `goal_crash`
no handoff: section 5 says what happens with both. *Dispatch:* one run and one
execution at a time with three claims, two crashes and two link failures: runs
interact only through the queue, of which any entry may be served, and the file
of reports (section 5). *Presence:* one machine with three links, so that two
dead ones can have handlers left beside the live one. *Sub-goals:* two, three
rows, two tries and two attempts; `CONSTRAINT Open` stops at goals that ended and
where an owner's retry would meet a sub-goal on its second try.
`sub_goal_one` trades the second sub-goal for the environment's operations.
*Delivery:* two agents with a worktree each on one machine, two owner runs, a
guest, another goal's commit, one crash: enough for a stray beside its successor
and for both to push; `CONSTRAINT Followed` follows a cancelled goal only when no
execution of it is left, to the deletion of its branch. The safety properties
were checked on two machines with handoffs to and fro and cancels, too (3.70
million states; no run, for its time). *Schedule:* three units of time with
periods of one and two, two goals, two batches: a downtime over several
occurrences, a pruned batch; `CONSTRAINT Followed` stops a behaviour with both a
user's change and a crash at the last unit. *Issues:* an issue and a pull request with
three heads, one webhook request beside the poller, three goals, two edits, one
crash; two webhooks at once were checked, too (1.40 million states; no run).
*Import:* one import beside one template, one edit, one crash. *Intake:* two
messages, one kind with one required field, two handlers, two reports of one run;
`CONSTRAINT InOrder` leaves out behaviours that only exchange the names of the
messages. Two kinds with one report each were checked, too (no run).

**Fairness.** Weak fairness of the process's own steps: startup, goroutines of
events and of ends, handlers and deliveries under way, the dispatch loop, ticks,
timers. The Go scheduler and the daemon's loops justify it: none of these steps
waits for anything but its guard. Humans, agents, crashes and networks are not
fair, except where a property says what happens if they are: in `sub_goal_one`
runs end and are claimed under strong fairness, because a claim of a sub-goal's
run may be disabled now and again by another run (`Claim`), and a restart undoes
a step of the agent; in `team_import` the machine reports the end of the run it
has; in `issue_sync` the platform answers the poll in the end (strong fairness:
a listing can fail any number of times, not for ever); in `presence` the process
on a machine that is up keeps connecting and beating. In `dispatch` and
in `intake` only the daemon is fair: the machine may do nothing at all, or be
away. In `EveryEndIsJudged` and
`ApprovalIsDelivered` the disjunct `Unused(run) = {}` excepts behaviours in which
the model, not the code, has no row left. Deadlock is not checked: a goal, a run
or an import that is over stops, and the bounds stop the rest.

Each property has a mutant in `PROJECT.json`: a plausible bug in one definition
(a dropped guard, a swapped order, a missing sweep) with which TLC finds the
property violated on the same instance.

## 4. What is proved

`GoalRunProofs`, for all sets of agents, squads, sessions,
deliveries, runs and operations, and all bounds, from the two assumptions on
constants (`RunTableAssumption`, `GoalRunAssumption`: there is an agent, the
assignees are distinct, leaders and reviewers are agents, bounds are numbers):

| Theorem | Statement |
|---|---|
| `TypeCorrect` | `Spec => []TypeOK` |
| `WriterExclusion` | `Spec => []OneWriter` |
| `PendingUnique` | `Spec => []OnePending`, if worker queues never fill |
| `EndsStand` | `Spec => TerminalRunStands`, if worker queues never fill |
| `RetriesContinue` | `Spec => []RetryChain`, if worker queues never fill |
| `LifecycleImplemented` | `Spec => ImplementsLifecycle` |
| `FormerOwnerIsCut` | `Spec /\ [][FreshHandlers]_vars => []HandoffCut`, if worker queues never fill and the process does not crash |
| `OwnerClaims` | `Spec /\ [][FreshHandlers]_vars => ClaimIsOwners`, under the same premises |
| `MergeHasBranch` | `Spec /\ [][CalmRestart]_vars => []MergeExclusive`, if `OneDecider` |
| `MergeWasApproved` | `Spec /\ [][CalmRestart]_vars => []MergeApproved`, if `OneDecider` |
| `GoalGoesOn` | `Spec /\ [][PromptSteps]_vars /\ []NotLeader => []NoStall`, with fewer handoffs than park the goal as a loop |

`FreshHandlers`: a reject, restart or wake carries out its last step for the
assignee it read, who still is the assignee. `CalmRestart`: no goal is restarted
while it is being delivered. `OneDecider`: one handler at a time, decisions on
the web page or on cards and not on both, no delivery that fails, fewer handoffs
than park the goal as a loop. Crashes, full worker queues, retries, guests and
any number of deliveries are in these two. `PromptSteps`: `FreshHandlers`, and a
handoff event handled for the owner it names, no queued run swept by a cancel, a
reject or a delivery once the goal is active again, and no crash between an answer
and its wake-up. `NotLeader`: the goal's agent leads no squad. Crashes, overflows
and any operation are in `GoalGoesOn`. Every premise is necessary (section 5).

`MachineDispatchProofs`, for all sets of runs and executions, all bounds and
operations, from `MachineDispatchAssumption` (there is a run, `NoExec` is no
execution, bounds are numbers):

| Theorem | Statement |
|---|---|
| `TypeCorrect` | `Spec => []TypeOK` |
| `FirstEndStands` | `Spec => EndStands`: an ended row is not written again |
| `EveryRunSupervised` | `Spec => []Supervised` |
| `KnownInFlight` | `Spec => []KnownIsInFlight` |
| `AcknowledgedRetired` | `Spec => []AckRetires`: an acknowledged run has left the queue |
| `OutcomeCurrent` | `Spec => []OutcomeIsOfClaim`, if recovery is over before the machine is back |
| `ContractKept` | `Spec => ImplementsContract`, under the same premise |

`SubGoalProofs`, for all sets of sub-goals, rows and operations and all bounds:

| Theorem | Statement |
|---|---|
| `TypeCorrect` | `Spec => []TypeOK` |
| `VerdictOnStableState` | `Spec => []JudgedStable` |
| `SettledAreIdle` | `Spec => []SettledIsIdle`: what is verified or has failed has no run of its assignee |
| `NoGhosts` | `Spec => []StatusHasRuns`, if no verify run ends without a word ("silent") |
| `WholeWork` | `Spec => []ReviewIsWhole`, without "die_merging" and "slow_reconcile" |
| `WakeUpNotLost` | `Spec => []ReadyIsSeen`, without "slow_reconcile" |

`DeliveryProofs`, for all sets of agents, machines, runs, guests, other commits
and jobs, and every number of crashes:

| Theorem | Statement |
|---|---|
| `TypeCorrect` | `Spec => []TypeOK` |
| `OwnersBuildOnEachOther` | `Spec /\ [][~ FormerOwnerCommits]_vars => []NothingUndone`, without "return" |
| `MergesWhatWasReviewed` | `Spec => MergedIsReviewed`, without "reopen" |
| `ReviewedWorkIsKept` | `Spec => []WorkIsKept`, without "reopen" |

`FormerOwnerCommits`: an execution of an agent that has lost the goal commits.
Without "reopen" a cancelled goal stays cancelled. Any number of machines,
strays, guests, handoffs and crashes is in the last two.

`ScheduleProofs`, for all sets of schedules, goals, users and seeders, all
periods and caps:

| Theorem | Statement |
|---|---|
| `TypeCorrect` | `Spec => []TypeOK` |
| `OccurrenceFiresOnce` | `Spec => []FiredOnce` |
| `NothingCaughtUp` | `Spec => []NoCatchUp` |
| `MissIsOver` | `Spec => []MissedIsOver` |
| `IndexIsTrue` | `Spec => []IndexIsBacked`: the index lists each batch once, and only batches on disk |
| `DigestEnds` | `Spec => []DigestIsWhole`, if nobody deletes schedules or there is one seeder |

`IssueSyncProofs`, for all sets of items, agents, goals, requests and deliveries:
`TypeCorrect`, `ActiveIsWorked` (`Spec => []ActiveHasRun`) and `TrackedOnce`
(`Spec => []DeliveredOnce`). `IntakeProofs`, for all sets of lanes, messages,
fields and handlers: `TypeCorrect`, `DraftStaysOpen` (`Spec => []DraftIsOpen`)
and `DoneEndsCompleted` (`Spec => []DoneIsCompleted`). None has a premise.

`TeamImportProofs`, for all sets of imports and templates, every team, every
number of squads, crashes and edits, and all operations:

| Theorem | Statement |
|---|---|
| `TypeCorrect` | `Spec => []TypeOK` |
| `RosterStands` | `Spec => []TeamIsWhole`, if the team names no agent twice |

Each of these modules has its assumptions on constants (kinds of names differ,
sets that must have a member do, bounds are numbers), which TLC evaluates on
every run.

*The argument for GoalRun.* `Orderly(run, run')` says how a step may change the
table: each row keeps its status, role, agent, attempt and reason, or is pending
and goes back to the queue or ends, or is born in an unused row beside no pending
run of its agent and role, with an attempt it is entitled to. Section "Rows"
of the proofs shows that `enqueueTx`, cancelling updates and the restart requeue
are orderly and that orderliness composes as the transactions compose them.
Section "Tables" shows that every action is orderly but `Claim` and `ReturnToQueue`; the
invariants follow from orderliness, and `Claim` is treated by hand: it is where
a writer begins, and its guard says there is none.

*Strengthenings.* `TypeOK` needs `SessionOK`: what a handler carries to a later
step is what it read (an agent, an existing row). The refinement needs
`BacklogIdle`: `FailGoal` does not look at where the goal is, so that it never
fails a goal in the backlog holds only because nothing ever ran on one. The
three theorems with "worker queues never fill" need `NothingHeld`; the premise
is necessary, see section 5.

`HandoffCut` is not inductive: `Claim` makes a queued row a running one, and the
handler of an old handoff stamps a row without regard to the owner. `CutInv` says
that only the owner's agent has owner runs in the queue, and that a running one
that is not the owner's has the handler of the *latest* handoff before it; that handler
stops everybody but the owner, so a late one of an earlier handoff can only stop
somebody too many. `Assign` keeps it because it cancels the queued intents and
enqueues the successor in one transaction, and a retry or a resumed consult
because each reads the owner in the transaction that enqueues.

`MergeExclusive` rests on the status alone: a delivery waits until no owner run
is running, and `Claim` gives none to a goal that is not active (`MergeAlone`).
What must be shown is that a goal stays out of "active" while it is delivered.
`ReviewInv` does: an approve that is on record is of the present review and of
the channel in use, hence the duplicate guard refuses a second decision; who is
deciding began before any approve; what is delivered was approved
(`DecisionInv`, `DeciderInv`, `JobInv`).

`NoStall` is the safety side of progress, and no two parts of it can be
considered apart. `CarriedOn` says it in terms of one row: a row is `Live` if its
owner waits for it, or an open question stands at it. A step keeps what is live
(`Carries`), or leaves a pending run of the owner behind (`HasRun`), or takes the
goal out of "active". What may go wrong is that a run is judged while it is
live, so `JudgedOK` says that a pending run, and the one the dispatch loop holds,
was not judged and no finisher or replay has it in hand. `RecordedRow` and `RowsOK`
keep a requester from being written to a row that does not exist, and
`NoLoopPark` keeps a release from activating a goal that has no run. Each of the
premises of `GoalGoesOn` was dropped alone: TLC then finds `NoStall` violated in
4 to 12 steps (section 5). With them TLC checked the invariant on instances with
two handoffs, a crash, two handlers, a squad and all operations before it was proved.

*The argument for MachineDispatch.* `Supervised` and `KnownIsInFlight` are
inductive as they stand. `AckRetires` is not: a dispatch must not be queued, and
a claim not begin, while an old acknowledgement or watchdog of the run is
around. `Traces` says why: the daemon starts without a trace of any run, a
queued run leaves none, and a run still with a worker has one dispatch the
machine has not seen. `OutcomeIsOfClaim` needs `Timely`: a report being
processed is of the present claim and its row is not queued; recovery preserves
this because nothing was accepted before it, hence the premise. `ContractKept`
rests on the same invariant: an end that is recorded maps to a report of the claim
under way, and every step that writes no row to a stutter. `TypeOK` needs
that an execution carries the token of a claim. TLC checked these
strengthenings before they were proved.

*The argument for SubGoal.* A row is used again, so everything rests on what the
rows of one sub-goal can be together. `RunDistinct` says that the running rows
of a sub-goal are one: only a claim starts a run, and the claim gate holds runs of
a sub-goal apart whatever their role; hence `JudgedStable`. `TableInv` (a
sub-goal has at most one row of its assignee, and only while it runs or once it
is cancelled) gives `SettledIsIdle`, and with `HasRuns`, the converse,
`StatusHasRuns`. `MergeInv` and `OwnerInv` say that an integration half done is
the running owner's, so that the end of the owner's run finds none. `ReadyIsSeen`
becomes inductive as `SignalInv` (what the owner has not seen is a signal newer
than its latest run, or a run is queued) with `CalmInv` (whatever raises a signal
ends with a hint to the Coordinator). Each premise names a behaviour that breaks
the property: a verify run without a verdict, a CLI that dies between `git merge`
and the mark, an owner run claimed between the end of a run and its judgement.

*The argument for Delivery.* `TypeInv` adds that a run under way is the owner's,
of a goal that is active or was cancelled since, that every execution has a
worktree and a branch under it, and that a delivery holds the lock from its fetch
to its end. `NothingUndone` follows from `UndoneInv`: the owner's worktree has all
of its branch's work (`TreeHasBranch`), because it was made from the branch and a
guest's commit undoes nothing; it stands only if no former owner commits its older
files on the same branch, hence the premise. `MergedIsReviewed` rests on
`ShownInv`: only the judgement of a run, the lock in hand, changes the daemon's
copy of the branch, while what strays, guests and others push stays on the host;
so from the judgement that opens a review to the end of the delivery that copy is
the branch that was shown, or what was shown is in the default branch (`Past`),
which is when a delivery may delete it. Once a run was stamped while it was
judged, its adoption may come in a review, and the state remembers it
(`StampStays`). For `WorkIsKept`, `KeptInv` says where the commits that were shown
are: on the host in the transfer ref or in the default branch (`Hosted`), in the
daemon's copy or in the default branch, and in the default branch alone
(`Merged`) from the push to the closing. No push loses them, since the host
refuses what is no fast-forward, and only the end of a delivery deletes the ref.
The premise on "reopen" is necessary (section 5).

*The argument for Schedule.* `FiredOnce` is inductive: a goal keeps its schedule
and its occurrence, and the transaction that fires looks for one that stands. The
others are about the goroutine in mid-loop. `SweepInv`: no run of a goal the sweep
has in hand starts, since a claim is the work of the same goroutine, and what it
is past cancelling has ended or was reopened by a person since. `TickInv`: the
clock does not leave a unit while a
tick is in hand, and a row the tick has read is as it was read or resumes in the
present. `IndexInv`: one report at a time is between its files and the index.
`MarkInv`: a built-in row that fired is under a marker that names a live row,
which no seeder replaces by a row that has fired. `CloseInv`: the run of a goal
in review has ended, so that reopening it is the only way back. The premise of `DigestEnds` is
needed: see the two seeders in section 5.

*The argument for IssueSync and Intake.* `ActiveHasRun` is inductive:
a goal becomes active, or changes hands, in the transaction that queues a run of
its agent, and no run of an active goal goes back to "none" but in the step that
takes the goal out of it.
`DeliveredOnce` needs that a reference has one goal and that the last head its
feed announced is the one stored with it (`DeliveredInv`). `DraftIsOpen` needs
that a create about to run does not hold the stored draft's id, unless the
draft was to be cleared and is `kept` (`DraftInv`).
`DoneIsCompleted` needs, for every state of a message's run (resting, not
reported, reported, failing, across a restart), who may still stamp it
(`DoneInv`).

*The argument for TeamImport.* `TypeOK` needs `IdInv`: ids of squads are given
out in order and one is left for whoever finds no squad. `TeamIsWhole` speaks of
the moment at which nothing is under way, so the invariant has to say what the
jobs under way still owe. `RosterInv`: while the squad is the team's, whoever adds
members adds them all, and each member that is missing is supplied by a job
(`Supplies`): one that has not come to it yet and that nothing can stop before
it does. An upsert is stopped by a member that another job wrote
(`UNIQUE(squad_id, member_type, member_id)`), so it supplies a member only while
all members from its own position up to that one are missing; a "create" passes
over members that are there. A job that clears the members supplies all of them.
A job that is stopped supplied nothing. A job that writes a member in front of an
upsert takes from it what comes after; but it goes on itself, and supplies just
that. `LeaderInv` says that the squad that is being written has the
team's leader, and `AgentsInv` that an import past its agents has written them.
The premise is necessary (section 5).

*Only model-checked:* liveness, which the prover cannot do. Every invariant a run
checks is proved.

## 5. Known behaviours

The models also reach the following, with other values of `Ops` and the bounds
than those of the runs. Each was found with TLC and read back in the source.
Those marked *(finding)* contradict a comment of the code, quoted in
`PROJECT.json`, or are plain bugs; the property that is violated is in the
module. No run asserts them.

### The goal and its runs (GoalRun)

To repeat them, start from `GoalHandoff.cfg` with `Spec`.

* *Rejected during a second delivery (finding).* After a failed delivery,
  approving again leaves the "deliver:" note, so a reject is accepted while the
  second delivery runs (`DeliverKeepsReview`; activate, web, deliver_fails).
* *Two decisions (finding).* An approve and a reject that both passed the guard
  before either wrote its row are both carried out (`DeliverKeepsReview`; two
  sessions, activate, web).
* *Handoff to the leader itself (finding).* From a squad to the agent that leads
  it: the new intent coalesces into the leader's running run, whose end has no
  authority any more (`NoStall`; a squad, activate, assign).
* *Two requesters (finding).* The old owner and the new one wait for one consult
  run; its end reads one row of `consult_request`, that of the agent that lost
  the goal, and nobody is resumed (`NoStall` without `TwoRequesters`; activate,
  assign, consult).
* *Released to nobody (finding).* A handoff that parks a loop, back to an agent
  that is still running, coalesces into that run, which ends while the goal is in
  review; approving releases a goal without a run (`NoStall`; activate, assign,
  web, `HandoffCycle` 1).
* *Loop, then gate (finding).* Releasing a handoff loop on the web page makes the
  next park undecidable there (`FreshParkDecidable`; activate, assign, web,
  `HandoffCycle` 1).
* *Reopening a human's goal (finding).* It always fails (`ReopenReopens`;
  activate, cancel, reopen).
* *Overflow.* `dispatchOnce` requeues unconditionally: a run stopped between its
  claim and a full worker queue comes back to life (`TerminalRunStands`;
  activate, stop, overflow), and may then stand beside its successor.
* *Dropped work.* `MarkDelivered` and the second statement of a cancel or of a loop
  reject cancel queued runs although the goal left review, or was relaunched,
  meanwhile (`DropsOnlyOnEnd`): the goal is active and its only run is gone
  (`NoStall`; activate, web, relaunch; or two sessions with cancel, relaunch).
* *Stale handoff event.* After A to B to A, the handler of the first handoff may
  run last and cut A's run; its stamp is followed by no judgement (`NoStall`
  with two handoffs).
* *Crash after an answer.* `CommentService.create` stores the answer, then wakes the
  owner in another transaction. After a crash in between the question is answered
  and nothing wakes the owner; the restart does not look for it (`NoStall`;
  activate, ask, reply, a crash).
* *Stale handler after a handoff (finding).* A reject, a restart or a wake that read the
  assignee before a handoff enqueues its run afterwards: the previous owner is
  queued beside the present one and may be claimed (`ClaimIsOwners`; relaunch,
  reopen, web or reply with assign).
* *Restarted while delivered.* A goal cancelled or closed during its delivery can
  be reopened or relaunched before `deliverGoal` ends: a run is claimed under the
  merge (`MergeExclusive`; cancel, reopen or relaunch).
* *Crash after a handoff.* `goal:assigned` is lost, the old owner's run is
  requeued by the restart and claimed again (`ClaimIsOwners` with a crash).
* *Second approval and a crash.* The "deliver:" note excludes the goal from
  `recoverPendingDelivers`: a crash during the second delivery leaves the goal
  approved and undelivered.
* *Stopped consult.* A guest run that is stopped is never judged, so its
  requester is not resumed.
* *Failed in review.* The last failed attempt of a goal in review publishes
  `goal:finished` (failed) though the goal stays in review.
* *No worker.* A run claimed for an agent without a worker stays running.

### Dispatch (MachineDispatch)

* *Served again (finding).* An execution that ends before its acknowledgement
  leaves its dispatch queued: it is served and executed again after its outcome
  was recorded, up to 60 s (`NotExecutedAgain`; one run, no faults at all).
* *Lost report (finding).* Executions cut off by the same link failure rewrite
  the file of unsent reports without a lock (`ReportNotLost`; two runs, two
  executions, one drop).
* *Early report.* The port opens while recovery has yet to run. A machine that
  is back by then flushes a stashed report of a running row; the report is
  accepted, recovery requeues the row, it is claimed again, and the old report
  ends the new claim (`OutcomeIsOfClaim` with "early").
* *Double start.* A dispatch served twice before the first execution entered the
  map runs twice, in the same worktree; the report of either ends the run.
* *Stop in flight.* A run stopped while it waits in the queue is still started:
  nothing takes it off `machinePending` but its acknowledgement or the 60 s.
* *Sweep without cancel.* The sweep of expired entries in `tryDequeue` queues no
  cancel, the pickup timer does.

### Machines (Presence)

* *A dead peer stays (finding)*, if the register handler of a dead link binds
  after the deferred unregister (`DropIsSeen`).
* *The steward stays behind (finding)* on a machine that is gone, when the
  machine that could take it comes back by a heartbeat and not by a register
  (`StewardFollows`; two machines, three links, operations freeze and stop).
* Handlers are registered after the peer began to read: a first call that is
  quick enough gets "method not found". The client's register has no timeout.

### Sub-goals (SubGoal)

With one sub-goal, three rows, no crash, `Verified` = {s1}, `ByHand` = {}:

* *A verdict nobody sees (finding):* wake (`SettledIsSeen`).
* *Work for a cancelled sub-goal (finding):* cancel (`CancelledIsLeft`): a retry
  is queued after the cancel, and a running run is not told of it.
* *New work in review (finding):* human_create (`NewWorkWhenActive`).
* *Reviewed without a change (finding):* die_merging (`ReviewIsWhole`).
* *No verdict (finding):* silent (`StatusHasRuns`).
* A failed goal's restart cancels the runs of sub-goals and leaves their status,
  which a reopened goal then waits for. `sub_goal.cancelled` does not wake the
  Coordinator. `RetrySubGoal` does not look at the goal. A conflict whose rework
  ends with base = head stays a conflict.

### Delivery (Delivery)

* *A stamp does not stop the execution (finding).* `runCancels` has no writer, so
  a handoff, the cancel of a goal or of a sub-goal and the reaper reach no machine:
  the execution goes on and pushes. The runs have it in every behaviour (`strays`).
* *A review without its run (finding).* A run that pushed nothing is judged on the
  daemon's branch, although a stray pushed what it was built on (`ReviewShowsRun`;
  three runs, handoff).
* *Merged and never shown (finding).* A delivery repeated after it had deleted the
  branch adopts what was pushed since (`MergesOnlyShown`; guest, one crash).
* *Replay fails (finding)* after a crash between the deletion of the transfer ref
  and the end of the delivery (`ReplayIsSafe`; one run, one job, one crash).
* *Work undone (finding)* when a goal returns to an agent whose worktree is older
  (`NothingUndone`; three runs, operations handoff and return), and when a former
  owner's execution commits after its successor (handoff alone).
* *Guests write (finding)*: what a consult or a review wrote is committed and
  pushed like an owner's work.
* *Stamped while judged.* The goroutine that judges a report does not look at the
  row again before it adopts: a handoff or a stop in between changes the daemon's
  branch, in a later review as well (`MergedIsReviewed` without
  `StampedWhileJudged`; two runs, guest).
* *Late deletion.* The branch of a cancelled goal may be deleted after the goal was
  reopened and reviewed (`WorkIsKept`, `MergedIsReviewed`; cancel, reopen).
* Two approvals after a failure give `deliver_failed` on a goal that is done. A
  handoff to another machine after an unpublished commit leaves pushes that are
  refused for ever. A fetch does not prune: a machine keeps the tracking ref of a
  branch that was deleted, and may take a tip for pushed that the host no longer
  has. A git failure before the adoption lets a run pass without a look at its
  work (not modelled). A frozen, strong domain without gates ends goals without a
  delivery. `ensureRunWorktreeFor` and `commitRunChanges` are not called.

### Schedules (Schedule)

* *One more miss (finding):* a downtime over exactly one occurrence
  (`OnlyDowntimeIsMissed`; one schedule of period 2, a crash, four units).
* A missed fire can be reopened or restarted and is then at work, while its
  `schedule_run` stays "missed"; if that run waits past the TTL as well, the sweep
  cancels the goal again. A goal reopened between two statements of the sweep
  loses the run that was queued for it and is active without one.
* A digest whose approval fails five times waits for a human.
* A recovered run keeps its `queued_at`, so that the sweep calls a fire that was
  already at work a miss. A schedule disabled after the tick read it fires once
  more. Enabling over HTTP does not recompute `next_run_at`. An update between
  the read and the advance is overwritten. Two seeders at once make two built-in
  schedules; if a user deletes the one that is marked, the goals of the other end
  without an approval until the next seeding makes them digests that wait for a
  human (`DigestIsWhole`; two seeders and delete). A crash within the
  expiry leaves "dispatched" on a cancelled goal.

### Issues (IssueSync)

* *A push nobody works on (finding):* it coalesces into the running run
  (`PushIsWorked`; one pull request, FairSpec).
* *The wrong one is woken (finding):* after a handoff the domain's handler
  (`WokenIsOwner`; push and assign, two agents).
* *Nobody at work.* An active goal whose run was stopped or reaped waits for a
  human; a push to a pull request wakes the handler of its domain only.
* A reopened issue is not worked on. One domain with a bad token ends the poll of
  those after it. A lost or late synchronize is not healed by the poll. A crash
  loses `goal:delivered` and with it the closing of the issue. A deleted goal is
  created anew. Only the first page of items is read.

### Imports and templates (TeamImport)

* *A completed import fails (finding)* when its run is requeued after a crash and
  its second report is bad (`VerdictStands`; bad_artifact, one crash).
* *A member named twice.* `team.json` may name an agent twice: the second row of
  the member is refused and the roster stays as far as it got (`TeamIsWhole`,
  `Members` with a repetition).
* *A template panics (finding)* when its team cannot be listed.
* *An expired dispatch (finding).* The sweep in `tryDequeue` fails a run without
  the id of its goal: run and goal fail, the row of the import stays pending
  (`LaunchFailureIsTold`; expire).
* A stopped run, and a crash during the launch, leave the row pending, too.
  The clean-up of the next import deletes ended rows only. A failed
  row may belong to a goal that is done. A member may dangle. Two writers that
  both find no squad create two. A template's agent of the steward's name
  overwrites the steward. A project cannot be applied twice.

### Intake (Intake)

* *The handler of the web assistant panics (finding)* when there is no steward.
* *No answer (finding)* to a message whose machine is offline or does not pick up.
* *A lane that waits.* While the steward's machine is offline the run of a lane
  stays queued, no timer covers it, and later messages of the lane are folded into
  it.
* *A draft that stays.* The errors of the writes to the settings are ignored: a
  draft that was not cleared lends its fields to the next create of its kind
  (`DraftIsOpen` without `kept`).
* A report that gets through twice, or a crash between an action and its stamp,
  executes the action twice. A message that arrives while another is parsed is
  folded into that run and its text dropped. The draft crosses lanes: one lane's
  answer completes another's request; a second request overwrites the first.
  `DropExpired` may delete a draft that is fresh by then.

## 6. Not modelled

*Pure or foreign:* gate globs, verification commands, cards, notifications, the
ACP protocol, HTTP and WebSocket encoding, logging, the store, the web pages.
Time stamps compared as text (`RFC3339Nano` drops trailing zeros, so two times
within one second can compare the wrong way round) are outside of the models,
which compare times as such.

*Left for later:* the review window's card; squad mentions and the mention-cycle
guard; the life of workers; event batches and sessions; the agent template and
the patch of issue assignees; chat sessions.

*Out of reach of the prover:* liveness, and what recursive definitions compute.

## 7. Plan

1. Done: RunTable, GoalRun, GoalLifecycle, MachineDispatch, RunContract and their
   theorems.
2. Done, model-checked: SubGoal, Delivery, Schedule, IssueSync, TeamImport,
   Presence, Intake.
3. Done: theorems of SubGoal, Delivery, Schedule, IssueSync, Intake and
   TeamImport, and of GoalRun's safety, `NoStall` included.
4. The review window; consults with the mention-cycle guard.
