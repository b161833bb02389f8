------------------------------ MODULE IssueSync ------------------------------
(***************************************************************************)
(* Issues and pull requests of a hosting platform as goals: the poller,    *)
(* the webhook, the refresh of a goal whose pull request was pushed to and *)
(* the wake that follows, and what is written back to the platform when a  *)
(* goal is delivered, fails or asks (internal/issue; the subscriptions and *)
(* the poll tick in internal/daemon/daemon.go).                            *)
(*                                                                         *)
(* The title, the body and the branches of a pull request are its head:    *)
(* whatever an update changes gives it a new one.  A run is an owner run;  *)
(* a squad stands for the agent that leads it.                             *)
(***************************************************************************)
EXTENDS Naturals, Sequences, FiniteSets

CONSTANTS
    Items,       \* issues and pull requests of the platform
    Pulls,       \* the pull requests among them
    Domains,
    Order,       \* the rows of Domains in the order a query returns them
    RepoOf,      \* [Items -> Domains]: the domain that tracks the item's repository
    Goals,       \* goal ids: bounds how many goals are created
    Agents,
    NoAgent,     \* '' in a domain's assignee column; the owner of a human's goal
    NoItem,      \* '' in source_ref
    NoGoal,
    Hooks,       \* webhook requests handled at the same time
    MaxHead,     \* bound on the versions of a pull request
    MaxEdits,    \* bound on what authors and users do
    MaxCrashes,
    Ops          \* what they do in an instance

Poller == "poller"
Procs == Hooks \cup {Poller}

ASSUME IssueAssumption ==
    /\ Items # {} /\ Pulls \subseteq Items /\ NoItem \notin Items /\ NoGoal \notin Goals
    /\ Agents # {} /\ NoAgent \notin Agents /\ Poller \notin Hooks
    /\ Order \in Seq(Domains) /\ RepoOf \in [Items -> Domains]
    /\ MaxHead \in Nat \ {0} /\ {MaxEdits, MaxCrashes} \subseteq Nat

VARIABLES
    item,      \* [Items -> Item]: what the platform holds
    mail,      \* webhook deliveries the platform has sent
    domain,    \* [Domains -> Domain]: the tracking columns
    agents,    \* agents that exist
    goal,      \* [Goals -> Goal]
    run,       \* [Goals -> [Agents -> run status]]: an agent's owner run
    saw,       \* [Goals -> the head in the prompt of the latest claimed run]
    call,      \* [Procs -> Call]: CreateGoalForIssue, UpdateGoalForPull, ...
    poll,      \* the poll under way: the domains and the items still to do
    event,     \* goals whose goal:delivered is published and not handled yet
    up, edits, crashes

hostVars == <<item, mail>>
goalVars == <<goal, run, saw>>
confVars == <<domain, agents>>
lifeVars == <<up, crashes>>
vars == <<hostVars, confVars, goalVars, call, poll, event, lifeVars, edits>>

Heads == 0..MaxHead         \* 0: an issue has none
Item == [state : {"absent", "open", "closed"}, head : Heads]
Mail == [item : Items, action : {"opened", "reopened", "synchronize"}, head : Heads]
Domain == [handler : Agents \cup {NoAgent}, puller : Agents \cup {NoAgent},
           token : {"", "good", "bad"}]
Live == {"active", "review", "ended"}
RunStatus == {"none", "queued", "running", "left"}   \* left: it ended, the goal goes on
Goal == [status : {"none"} \cup Live, ref : Items \cup {NoItem}, owner : Agents \cup {NoAgent},
         head : Heads, feed : Seq(Heads)]
Call == [pc : {"idle", "check", "insert", "find", "refresh", "wake"}, item : Items,
         head : Heads, agent : Agents \cup {NoAgent}, goal : Goals \cup {NoGoal},
         status : {"none"} \cup Live]
Job == [domain : Domains, handler : Agents \cup {NoAgent}, puller : Agents \cup {NoAgent}]
Poll == [todo : Seq(Job), part : {"issues", "pulls"}, listed : BOOLEAN,
         items : SUBSET [item : Items, head : Heads]]

TypeOK ==
    /\ item \in [Items -> Item] /\ mail \subseteq Mail
    /\ domain \in [Domains -> Domain] /\ agents \subseteq Agents
    /\ goal \in [Goals -> Goal] /\ saw \in [Goals -> Heads]
    /\ run \in [Goals -> [Agents -> RunStatus]]
    /\ call \in [Procs -> Call]
    /\ poll \in Poll
    /\ event \subseteq Goals /\ up \in BOOLEAN
    /\ edits \in 0..MaxEdits /\ crashes \in 0..MaxCrashes

NoCall == [pc |-> "idle", item |-> CHOOSE i \in Items : TRUE, head |-> 0,
           agent |-> NoAgent, goal |-> NoGoal, status |-> "none"]
NoPoll == [todo |-> <<>>, part |-> "issues", listed |-> FALSE, items |-> {}]
NoRuns == [a \in Agents |-> "none"]

(* A database without goals, repositories with open pull requests, and     *)
(* domains that leave issues and pull requests to one agent.               *)
Init ==
    /\ item = [i \in Items |-> IF i \in Pulls THEN [state |-> "open", head |-> 1]
                                             ELSE [state |-> "absent", head |-> 0]]
    /\ mail = {} /\ agents = Agents
    /\ LET a == CHOOSE a \in Agents : TRUE IN domain = [d \in Domains |-> [handler |-> a, puller |-> a, token |-> "good"]]
    /\ goal = [g \in Goals |-> [status |-> "none", ref |-> NoItem, owner |-> NoAgent,
                                head |-> 0, feed |-> <<>>]]
    /\ run = [g \in Goals |-> NoRuns] /\ saw = [g \in Goals |-> 0]
    /\ call = [p \in Procs |-> NoCall] /\ poll = NoPoll
    /\ event = {} /\ up = TRUE /\ edits = 0 /\ crashes = 0

Edit(op) == op \in Ops /\ edits < MaxEdits /\ edits' = edits + 1

--------------------------------------------------------------------------------
(* The platform: authors open, push, close and reopen.  A delivery stays   *)
(* where it is: it may be handled never, late, or more than once.          *)

Posts(i, action) == mail' = mail \cup {[item |-> i, action |-> action, head |-> item'[i].head]}

AuthorOpens(i) ==
    /\ Edit("open") /\ item[i].state = "absent"
    /\ item' = [item EXCEPT ![i].state = "open"]
    /\ Posts(i, "opened")
    /\ UNCHANGED <<confVars, goalVars, call, poll, event, lifeVars>>

AuthorPushes(i) ==
    /\ Edit("push") /\ i \in Pulls /\ item[i].state = "open" /\ item[i].head < MaxHead
    /\ item' = [item EXCEPT ![i].head = @ + 1]
    /\ Posts(i, "synchronize")
    /\ UNCHANGED <<confVars, goalVars, call, poll, event, lifeVars>>

AuthorCloses(i) ==
    /\ Edit("close") /\ item[i].state = "open"
    /\ item' = [item EXCEPT ![i].state = "closed"]
    /\ UNCHANGED <<mail, confVars, goalVars, call, poll, event, lifeVars>>

AuthorReopens(i) ==
    /\ Edit("reopen_item") /\ item[i].state = "closed"
    /\ item' = [item EXCEPT ![i].state = "open"]
    /\ Posts(i, "reopened")
    /\ UNCHANGED <<confVars, goalVars, call, poll, event, lifeVars>>

--------------------------------------------------------------------------------
(* Goals and their owner runs, as far as this part uses them.              *)

Tracks(i) == {g \in Goals : goal[g].status # "none" /\ goal[g].ref = i}

(* uq_goal_source_ref.                                                     *)
RefTaken(i) == Tracks(i) # {}

(* enqueueTx: a pending run of the agent answers the ask.                  *)
Pending == {"queued", "running"}
Enqueued(g, a) == IF run[g][a] \in Pending THEN run ELSE [run EXCEPT ![g][a] = "queued"]

(* A goal that ends, or changes hands, drops the queued owner runs.        *)
Unqueued(g) == [a \in Agents |-> IF run[g][a] = "queued" THEN "none" ELSE run[g][a]]

(* GoalService.Create of an active goal with its first run.                *)
Fresh == {g \in Goals : goal[g].ref = NoItem}
CreateGoal(g, i, head, a) ==
    /\ goal' = [goal EXCEPT ![g] = [status |-> "active", ref |-> i, owner |-> a,
                                    head |-> head, feed |-> <<>>]]
    /\ run' = Enqueued(g, a)
    /\ UNCHANGED saw

(* Mutant: relaunched without a run.                                       *)
RelaunchIdle(g) ==
    /\ UNCHANGED <<run, saw>>
    /\ goal' = IF goal[g].status \in Live THEN [goal EXCEPT ![g].status = "active"] ELSE goal

(* GoalService.Relaunch: from any other state back to active, with a run   *)
(* of the goal's own agent, if it has one; an active goal stays as it is.  *)
RelaunchGoal(g) ==
    /\ UNCHANGED saw
    /\ IF goal[g].status \in Live \ {"active"}
       THEN /\ goal' = [goal EXCEPT ![g].status = "active"]
            /\ run' = IF goal[g].owner \in Agents THEN Enqueued(g, goal[g].owner) ELSE run
       ELSE UNCHANGED <<goal, run>>

Claim(g, a) ==
    /\ up /\ run[g][a] = "queued" /\ goal[g].status = "active"
    /\ \A b \in Agents : run[g][b] # "running"
    /\ run' = [run EXCEPT ![g][a] = "running"]
    /\ saw' = [saw EXCEPT ![g] = goal[g].head]
    /\ UNCHANGED <<hostVars, confVars, goal, call, poll, event, lifeVars, edits>>

(* A run ends and its goal with it, for review or for good: only an end of *)
(* the present owner's run moves the goal.                                 *)
RunEnds(g, a, status) ==
    /\ up /\ run[g][a] = "running" /\ UNCHANGED saw
    /\ IF goal[g].status = "active" /\ goal[g].owner = a
       THEN /\ goal' = [goal EXCEPT ![g].status = status]
            /\ LET left == IF status = "ended" THEN Unqueued(g) ELSE run[g]
               IN  run' = [run EXCEPT ![g] = [left EXCEPT ![a] = "none"]]
       ELSE run' = [run EXCEPT ![g][a] = "none"] /\ UNCHANGED goal
    /\ UNCHANGED <<hostVars, confVars, call, poll, event, lifeVars, edits>>

(* A run fails with attempts left.                                         *)
RunRetries(g, a) ==
    /\ up /\ run[g][a] = "running" /\ goal[g].status = "active" /\ goal[g].owner = a
    /\ run' = [run EXCEPT ![g][a] = "queued"]
    /\ UNCHANGED <<hostVars, confVars, goal, saw, call, poll, event, lifeVars, edits>>

(* A run ends and moves nothing: it was stopped, timed out or ran away, or *)
(* it asks a human or waits for a consult.  A human may stop a queued run. *)
RunLeaves(g, a) ==
    /\ up /\ run[g][a] \in Pending
    /\ run' = [run EXCEPT ![g][a] = "left"]
    /\ UNCHANGED <<hostVars, confVars, goal, saw, call, poll, event, lifeVars, edits>>

(* A human's comment, or the consult's return, wakes the owner.            *)
Resume(g) ==
    /\ up /\ goal[g].status = "active" /\ goal[g].owner \in Agents
    /\ run' = Enqueued(g, goal[g].owner)
    /\ UNCHANGED <<hostVars, confVars, goal, saw, call, poll, event, lifeVars, edits>>

(* An approved goal is merged; its queued runs are dropped.                *)
Delivered(g) ==
    /\ up /\ goal[g].status = "review"
    /\ goal' = [goal EXCEPT ![g].status = "ended"]
    /\ run' = [run EXCEPT ![g] = Unqueued(g)]
    /\ event' = event \cup {g}
    /\ UNCHANGED <<hostVars, confVars, saw, call, poll, lifeVars, edits>>

(* Users hand a goal over, reopen, reject or delete it (while there are    *)
(* ids left for the goals that the poll creates after it).  A handoff to   *)
(* an agent gives it a run unless the goal has ended; one to a human gives *)
(* nobody one.  The running runs of others are cut.                        *)
Assign(g, a) ==
    /\ up /\ Edit("assign") /\ goal[g].status \in Live
    /\ a \in (agents \cup {NoAgent}) \ {goal[g].owner}
    /\ goal' = [goal EXCEPT ![g].owner = a]
    /\ run' = [run EXCEPT ![g] = [b \in Agents |->
                  IF b # a THEN "none"
                  ELSE IF @[b] = "running" THEN "running"
                  ELSE IF goal[g].status = "ended" THEN "none" ELSE "queued"]]
    /\ UNCHANGED <<hostVars, confVars, saw, call, poll, event, lifeVars>>

Reopen(g) ==
    /\ up /\ Edit("reopen") /\ goal[g].status \in {"review", "ended"}
    /\ RelaunchGoal(g)
    /\ UNCHANGED <<hostVars, confVars, call, poll, event, lifeVars>>

DeleteGoal(g) ==
    /\ up /\ Edit("delete") /\ goal[g].status \in Live
    /\ Cardinality(Fresh) > Cardinality({i \in Items : ~RefTaken(i)})
    /\ goal' = [goal EXCEPT ![g].status = "none"]
    /\ run' = [run EXCEPT ![g] = NoRuns] /\ UNCHANGED saw
    /\ UNCHANGED <<hostVars, confVars, call, poll, event, lifeVars>>

--------------------------------------------------------------------------------
(* DomainService.Update, one column at a time, and the agents it names.    *)

HandlerOf(d, i) == IF i \in Pulls THEN domain[d].puller ELSE domain[d].handler

ConfigureDomain(d) ==
    /\ up /\ Edit("configure")
    /\ \E a \in agents \cup {NoAgent}, t \in {"good", "bad"} :
         domain' \in {[domain EXCEPT ![d].handler = a], [domain EXCEPT ![d].puller = a],
                     [domain EXCEPT ![d].token = t]}
    /\ UNCHANGED <<hostVars, agents, goalVars, call, poll, event, lifeVars>>

(* AgentService.Delete counts the goals and issue_assignee, not            *)
(* pull_assignee.                                                          *)
DeleteAgent(a) ==
    /\ up /\ Edit("delete_agent") /\ a \in agents
    /\ \A g \in Goals : goal[g].status # "none" => goal[g].owner # a
    /\ \A d \in Domains : domain[d].handler # a
    /\ \A g \in Goals : run[g][a] # "running"
    /\ agents' = agents \ {a}
    /\ run' = [g \in Goals |-> [run[g] EXCEPT ![a] = "none"]]
    /\ UNCHANGED <<hostVars, domain, goal, saw, call, poll, event, lifeVars>>

--------------------------------------------------------------------------------
(* CreateGoalForIssue and CreateGoalForPull: look for the reference, then  *)
(* create the goal.  The poller and the webhook requests share them.       *)

Return(p) == call' = [call EXCEPT ![p] = NoCall]
Step(p, pc) == call' = [call EXCEPT ![p].pc = pc]
Asks(pc, i, head, a) == [NoCall EXCEPT !.pc = pc, !.item = i, !.head = head, !.agent = a]

(* An error ends the poll: the items and the domains left are not seen.    *)
Fails(p) == IF p = Poller THEN poll' = NoPoll ELSE UNCHANGED poll

CheckRef(p) ==
    /\ call[p].pc = "check"
    /\ IF RefTaken(call[p].item) THEN Return(p) ELSE Step(p, "insert")
    /\ UNCHANGED <<hostVars, confVars, goalVars, poll, event, lifeVars, edits>>

(* Mutant: no unique index on source_ref.                                  *)
InsertAnyway(p) ==
    /\ call[p].pc = "insert" /\ call[p].agent \in agents
    /\ Fresh # {} /\ CreateGoal(CHOOSE g \in Fresh : TRUE, call[p].item, call[p].head, call[p].agent)
    /\ Return(p)
    /\ UNCHANGED <<hostVars, confVars, poll, event, lifeVars, edits>>

InsertGoal(p) ==
    /\ call[p].pc = "insert" /\ call[p].agent \in agents /\ ~RefTaken(call[p].item)
    /\ Fresh # {} /\ CreateGoal(CHOOSE g \in Fresh : TRUE, call[p].item, call[p].head, call[p].agent)
    /\ Return(p)
    /\ UNCHANGED <<hostVars, confVars, poll, event, lifeVars, edits>>

(* The other side won the race: that is no error.                          *)
InsertConflicts(p) ==
    /\ call[p].pc = "insert" /\ call[p].agent \in agents /\ RefTaken(call[p].item)
    /\ Return(p)
    /\ UNCHANGED <<hostVars, confVars, goalVars, poll, event, lifeVars, edits>>

InsertFails(p) ==
    /\ call[p].pc = "insert" /\ call[p].agent \notin agents
    /\ Return(p) /\ Fails(p)
    /\ UNCHANGED <<hostVars, confVars, goalVars, event, lifeVars, edits>>

--------------------------------------------------------------------------------
(* UpdateGoalForPull: find the goal, refresh it under its lock, wake its   *)
(* owner after the lock is released.                                       *)

FindGoal(p) ==
    /\ call[p].pc = "find"
    /\ IF RefTaken(call[p].item)
       THEN \E g \in Tracks(call[p].item) :
              call' = [call EXCEPT ![p].pc = "refresh", ![p].goal = g]
       ELSE Step(p, "check")
    /\ UNCHANGED <<hostVars, confVars, goalVars, poll, event, lifeVars, edits>>

(* The description stored is the one this delivery would write.            *)
SameState(g, head) == goal[g].head = head

(* A comment that cannot be written to the feed is logged, and the owner   *)
(* woken all the same; 0 stands for it in the feed.                        *)
RefreshGoal(p) ==
    LET g == call[p].goal
        h == call[p].head
    IN  /\ call[p].pc = "refresh" /\ goal[g].status # "none" /\ ~SameState(g, h)
        /\ \E entry \in {h} \cup (IF "comment_fails" \in Ops THEN {0} ELSE {}) :
             goal' = [goal EXCEPT ![g].head = h, ![g].feed = Append(@, entry)]
        /\ call' = [call EXCEPT ![p].pc = "wake", ![p].status = goal[g].status]
        /\ UNCHANGED <<hostVars, confVars, run, saw, poll, event, lifeVars, edits>>

RefreshNothing(p) ==
    LET g == call[p].goal
    IN  /\ call[p].pc = "refresh" /\ (goal[g].status = "none" \/ SameState(g, call[p].head))
        /\ Return(p)
        /\ UNCHANGED <<hostVars, confVars, goalVars, poll, event, lifeVars, edits>>

(* wakeGoalOwner of a goal that was active under the lock: the agent the   *)
(* domain names is woken.  A deleted goal or agent fails the insert.       *)
WakeHandler(p) ==
    LET g == call[p].goal
    IN  /\ call[p].pc = "wake" /\ call[p].status = "active"
        /\ run' = IF goal[g].status # "none" /\ call[p].agent \in agents
                  THEN Enqueued(g, call[p].agent) ELSE run
        /\ Return(p)
        /\ UNCHANGED <<hostVars, confVars, goal, saw, poll, event, lifeVars, edits>>

Relaunch(p) ==
    /\ call[p].pc = "wake" /\ call[p].status # "active"
    /\ RelaunchGoal(call[p].goal)
    /\ Return(p)
    /\ UNCHANGED <<hostVars, confVars, poll, event, lifeVars, edits>>

--------------------------------------------------------------------------------
(* WebhookHandler.Handle: a delivery for a tracked repository; the agent   *)
(* is the one the domain names when the delivery is routed.                *)

Handle(p, m) ==
    LET a == HandlerOf(RepoOf[m.item], m.item)
    IN  /\ up /\ p \in Hooks /\ call[p].pc = "idle" /\ m \in mail
        /\ call' = IF a = NoAgent THEN call
                   ELSE [call EXCEPT ![p] = Asks(IF m.action = "synchronize" THEN "find" ELSE "check",
                                                 m.item, m.head, a)]
        /\ UNCHANGED <<hostVars, confVars, goalVars, poll, event, lifeVars, edits>>

--------------------------------------------------------------------------------
(* Poller.Poll: one query for the tracking domains, then for each of them  *)
(* its open issues and its open pull requests.  The first error ends it.   *)

(* A domain the query leaves out takes no part: the poll passes over it.   *)
Tracked(d, agent) == IF domain[d].token = "" THEN NoAgent ELSE agent
Jobs == [k \in 1..Len(Order) |->
           [domain |-> Order[k], handler |-> Tracked(Order[k], domain[Order[k]].handler),
            puller |-> Tracked(Order[k], domain[Order[k]].puller)]]
Job1 == poll.todo[1]
InPart(i) == RepoOf[i] = Job1.domain /\ (i \in Pulls <=> poll.part = "pulls")
PartAgent == IF poll.part = "pulls" THEN Job1.puller ELSE Job1.handler

PollStart ==
    /\ up /\ poll = NoPoll /\ Order # <<>>
    /\ poll' = [NoPoll EXCEPT !.todo = Jobs]
    /\ UNCHANGED <<hostVars, confVars, goalVars, call, event, lifeVars, edits>>

PollList(d, part) ==
    /\ poll.todo # <<>> /\ Job1.domain = d /\ poll.part = part /\ ~poll.listed /\ PartAgent # NoAgent
    /\ domain[d].token = "good"
    /\ poll' = [poll EXCEPT !.listed = TRUE,
                  !.items = {[item |-> i, head |-> item[i].head] :
                              i \in {j \in Items : InPart(j) /\ item[j].state = "open"}}]
    /\ UNCHANGED <<hostVars, confVars, goalVars, call, event, lifeVars, edits>>

PollListFails ==
    /\ poll.todo # <<>> /\ ~poll.listed /\ PartAgent # NoAgent
    /\ poll' = NoPoll
    /\ UNCHANGED <<hostVars, confVars, goalVars, call, event, lifeVars, edits>>

PollItem(x) ==
    /\ poll.todo # <<>> /\ x \in poll.items /\ call[Poller].pc = "idle"
    /\ poll' = [poll EXCEPT !.items = @ \ {x}]
    /\ call' = [call EXCEPT ![Poller] = Asks("check", x.item, x.head, PartAgent)]
    /\ UNCHANGED <<hostVars, confVars, goalVars, event, lifeVars, edits>>

(* Mutant: a domain is done when its issues are.                           *)
PollNextDomain ==
    /\ poll.todo # <<>> /\ call[Poller].pc = "idle"
    /\ (poll.listed /\ poll.items = {}) \/ PartAgent = NoAgent
    /\ poll' = [NoPoll EXCEPT !.todo = Tail(poll.todo)]
    /\ UNCHANGED <<hostVars, confVars, goalVars, call, event, lifeVars, edits>>

(* The part is done, or the domain does not take it.                       *)
PollNext ==
    /\ poll.todo # <<>> /\ call[Poller].pc = "idle"
    /\ (poll.listed /\ poll.items = {}) \/ PartAgent = NoAgent
    /\ poll' = IF poll.part = "issues" THEN [NoPoll EXCEPT !.todo = poll.todo, !.part = "pulls"]
               ELSE [NoPoll EXCEPT !.todo = Tail(poll.todo)]
    /\ UNCHANGED <<hostVars, confVars, goalVars, call, event, lifeVars, edits>>

--------------------------------------------------------------------------------
(* Closer.OnDelivered: the issue of a delivered goal is closed; a pull     *)
(* request is left to the humans.  A failing call is not repeated.         *)

CloseIssue(g) ==
    /\ up /\ g \in event /\ event' = event \ {g}
    /\ item' = IF goal[g].status # "none" /\ goal[g].ref \notin Pulls
                  /\ domain[RepoOf[goal[g].ref]].token = "good"
               THEN [item EXCEPT ![goal[g].ref].state = "closed"] ELSE item
    /\ UNCHANGED <<mail, confVars, goalVars, call, poll, lifeVars, edits>>

CloseFails(g) ==
    /\ up /\ "close_fails" \in Ops /\ g \in event /\ event' = event \ {g}
    /\ UNCHANGED <<hostVars, confVars, goalVars, call, poll, lifeVars, edits>>

--------------------------------------------------------------------------------
(* The daemon stops at any step: requests, the poll and the events that    *)
(* were published die with it.  A restart requeues what was running.       *)

Crash ==
    /\ up /\ crashes < MaxCrashes /\ crashes' = crashes + 1 /\ up' = FALSE
    /\ call' = [p \in Procs |-> NoCall] /\ poll' = NoPoll /\ event' = {}
    /\ UNCHANGED <<hostVars, confVars, goalVars, edits>>

Restart ==
    /\ ~up /\ up' = TRUE
    /\ run' = [g \in Goals |-> [a \in Agents |-> IF run[g][a] = "running" THEN "queued"
                                                 ELSE run[g][a]]]
    /\ UNCHANGED <<hostVars, confVars, goal, saw, call, poll, event, crashes, edits>>

--------------------------------------------------------------------------------
CallStep(p) ==
    \/ CheckRef(p) \/ InsertGoal(p) \/ InsertConflicts(p) \/ InsertFails(p)
    \/ FindGoal(p) \/ RefreshGoal(p) \/ RefreshNothing(p) \/ WakeHandler(p) \/ Relaunch(p)

PollStep == \/ PollStart \/ PollListFails \/ PollNext
            \/ \E d \in Domains, part \in {"issues", "pulls"} : PollList(d, part)
            \/ \E i \in Items, h \in Heads : PollItem([item |-> i, head |-> h])

AuthorStep == \E i \in Items : \/ AuthorOpens(i) \/ AuthorPushes(i)
                               \/ AuthorCloses(i) \/ AuthorReopens(i)

UserStep == \/ \E g \in Goals : \/ Reopen(g) \/ DeleteGoal(g)
                                \/ \E a \in Agents \cup {NoAgent} : Assign(g, a)
            \/ \E d \in Domains : ConfigureDomain(d)
            \/ \E a \in Agents : DeleteAgent(a)

GoalStep == \E g \in Goals : \/ Delivered(g) \/ CloseIssue(g) \/ CloseFails(g) \/ Resume(g)
                \/ \E a \in Agents : \/ Claim(g, a) \/ RunRetries(g, a) \/ RunLeaves(g, a)
                     \/ \E s \in {"review", "ended"} : RunEnds(g, a, s)

Next ==
    \/ \E p \in Procs : CallStep(p)
    \/ \E m \in mail, p \in Hooks : Handle(p, m)
    \/ PollStep \/ AuthorStep \/ UserStep \/ GoalStep \/ Crash \/ Restart

Spec == Init /\ [][Next]_vars

(* The daemon is started again after a crash and polls again and again; a  *)
(* call to the platform with a good token is answered in the end.          *)
PollSpec ==
    /\ Spec /\ WF_vars(Restart) /\ WF_vars(CallStep(Poller))
    /\ WF_vars(PollStart \/ PollNext \/ \E i \in Items, h \in Heads : PollItem([item |-> i, head |-> h]))
    /\ \A d \in Domains, part \in {"issues", "pulls"} : SF_vars(PollList(d, part))

(* Webhook requests run to their end, too, runs are claimed and end.       *)
FairSpec ==
    /\ PollSpec /\ \A p \in Hooks : WF_vars(CallStep(p))
    /\ \A g \in Goals, a \in Agents : /\ WF_vars(Claim(g, a))
         /\ WF_vars(\E s \in {"review", "ended"} : RunEnds(g, a, s))

--------------------------------------------------------------------------------
(* However the webhook requests, their repetitions and the poll race, an   *)
(* issue or a pull request never has two goals.                            *)
OneGoalPerRef == \A i \in Items : Cardinality(Tracks(i)) <= 1

(* Deliveries of the same state of a pull request, handled at the same     *)
(* time or one after the other, announce it once: no two neighbouring      *)
(* entries of a goal's feed announce the same.                             *)
FeedHasNoRepeats ==
    \A g \in Goals : \A k \in 1..Len(goal[g].feed) - 1 :
        goal[g].feed[k] = goal[g].feed[k + 1] => goal[g].feed[k] = 0

(* What is delivered twice, by a hook that is redelivered, by two hooks at *)
(* once or by a hook and the poll, is tracked and announced once.          *)
DeliveredOnce == OneGoalPerRef /\ FeedHasNoRepeats

(* A goal at work that belongs to an agent is never forgotten: that agent  *)
(* has a run that is queued or running, or its last run was stopped or     *)
(* waits for an answer, whatever created the goal, relaunched it, handed   *)
(* it over, woke another agent for it or crashed meanwhile.                *)
ActiveHasRun ==
    \A g \in Goals : goal[g].status = "active" /\ goal[g].owner # NoAgent =>
                        run[g][goal[g].owner] # "none"

(* The poll is the safety net: an open issue of a domain that tracks its   *)
(* repository gets its goal although every delivery is lost, requests      *)
(* crash and calls fail, unless it is closed or the domain stops tracking. *)
Wanted(i) == /\ item[i].state = "open" /\ domain[RepoOf[i]].token = "good"
             /\ HandlerOf(RepoOf[i], i) \in agents
EveryIssueIsTracked == \A i \in Items : Wanted(i) ~> (RefTaken(i) \/ ~Wanted(i))

(* issue.go: a fresh push always re-launches the work, no state exempt.    *)
PushIsWorked ==
    \A g \in Goals, h \in Heads :
        (goal[g].status = "active" /\ goal[g].head = h) ~>
            (saw[g] = h \/ goal[g].head # h \/ goal[g].status = "none")

(* issue.go: the goal's owner is woken, its agent or its squad's leader.   *)
WokenIsOwner ==
    [][\A p \in Procs : WakeHandler(p) =>
         \A a \in Agents : run[call[p].goal][a] # run'[call[p].goal][a]
                              => a = goal[call[p].goal].owner]_vars
================================================================================
