-------------------------- MODULE IssueSyncProofs --------------------------
(***************************************************************************)
(* Theorems about IssueSync, for every set of items, domains, goals,       *)
(* agents and webhook requests and every bound on what happens.            *)
(***************************************************************************)
EXTENDS IssueSync, FiniteSetTheorems, TLAPS

(* A request that refreshes or wakes has a goal.                           *)
CallOK == \A p \in Procs : call[p].pc \in {"refresh", "wake"} => call[p].goal \in Goals

TypeInv == TypeOK /\ CallOK

----------------------------------------------------------------------------
(* Types: the values an action stores.                                     *)
LEMMA Constants ==
    /\ 0 \in Heads /\ 1 \in Heads /\ 0 \in 0..MaxEdits /\ 0 \in 0..MaxCrashes
    /\ (CHOOSE i \in Items : TRUE) \in Items /\ (CHOOSE a \in Agents : TRUE) \in Agents
  BY IssueAssumption DEF Heads

LEMMA NoCallType ==
    /\ NoCall \in Call /\ NoCall.pc = "idle" /\ NoPoll \in Poll
    /\ NoRuns \in [Agents -> RunStatus]
<1>1. <<>> \in Seq(Job)
  OBVIOUS
<1>2. QED
  BY <1>1, Constants DEF NoCall, Call, NoPoll, Poll, NoRuns, RunStatus

LEMMA AsksType ==
    ASSUME NEW pc \in {"check", "find"}, NEW i \in Items, NEW h \in Heads,
           NEW a \in Agents \cup {NoAgent}
    PROVE  Asks(pc, i, h, a) \in Call /\ Asks(pc, i, h, a).pc = pc
  BY NoCallType DEF Asks, Call

LEMMA GoalFields ==
    ASSUME TypeOK, NEW g \in Goals
    PROVE  /\ goal[g] \in Goal /\ goal[g].status \in {"none"} \cup Live
           /\ goal[g].ref \in Items \cup {NoItem} /\ goal[g].owner \in Agents \cup {NoAgent}
           /\ goal[g].head \in Heads /\ goal[g].feed \in Seq(Heads)
  BY DEF TypeOK, Goal

LEMMA CallFields ==
    ASSUME TypeOK, NEW p \in Procs
    PROVE  /\ call[p] \in Call /\ call[p].item \in Items /\ call[p].head \in Heads
           /\ call[p].agent \in Agents \cup {NoAgent} /\ call[p].goal \in Goals \cup {NoGoal}
           /\ call[p].status \in {"none"} \cup Live
  BY DEF TypeOK, Call

LEMMA PollFields ==
    ASSUME TypeOK
    PROVE  /\ poll \in Poll /\ poll.todo \in Seq(Job) /\ poll.part \in {"issues", "pulls"}
           /\ poll.items \subseteq [item : Items, head : Heads]
           /\ poll.todo # <<>> => Job1 \in Job /\ Tail(poll.todo) \in Seq(Job)
                                  /\ PartAgent \in Agents \cup {NoAgent}
<1>1. poll \in Poll /\ poll.todo \in Seq(Job) /\ poll.part \in {"issues", "pulls"}
      /\ poll.items \subseteq [item : Items, head : Heads]
  BY DEF TypeOK, Poll
<1>2. ASSUME poll.todo # <<>>
      PROVE  Job1 \in Job /\ Tail(poll.todo) \in Seq(Job)
  BY <1>1, <1>2 DEF Job1
<1>3. QED
  BY <1>1, <1>2 DEF PartAgent, Job

LEMMA SetCall ==
    ASSUME TypeInv, NEW p \in Procs, NEW v \in Call,
           v.pc \in {"refresh", "wake"} => v.goal \in Goals,
           call' = [call EXCEPT ![p] = v]
    PROVE  call' \in [Procs -> Call] /\ CallOK'
<1>1. call' \in [Procs -> Call] /\ \A q \in Procs : call'[q] = IF q = p THEN v ELSE call[q]
  BY DEF TypeInv, TypeOK
<1>2. QED
  BY <1>1 DEF TypeInv, CallOK

LEMMA ReturnType ==
    ASSUME TypeInv, NEW p \in Procs, Return(p)
    PROVE  call' \in [Procs -> Call] /\ CallOK'
  BY NoCallType, SetCall DEF Return

LEMMA StepType ==
    ASSUME TypeInv, NEW p \in Procs, NEW pc \in {"insert", "check"}, Step(p, pc)
    PROVE  call' \in [Procs -> Call] /\ CallOK'
<1> DEFINE v == [call[p] EXCEPT !.pc = pc]
<1>1. v \in Call /\ v.pc = pc /\ call' = [call EXCEPT ![p] = v]
  BY CallFields DEF Step, Call, TypeInv
<1> HIDE DEF v
<1>2. QED
  BY <1>1, SetCall

LEMMA EnqueuedType ==
    ASSUME TypeInv, NEW g \in Goals, NEW a \in Agents
    PROVE  Enqueued(g, a) \in [Goals -> [Agents -> RunStatus]]
  BY DEF Enqueued, TypeInv, TypeOK, RunStatus

LEMMA UnqueuedType ==
    ASSUME TypeInv, NEW g \in Goals
    PROVE  Unqueued(g) \in [Agents -> RunStatus]
  BY DEF Unqueued, TypeInv, TypeOK, RunStatus

(* One goal takes a new value, or another status.                          *)
LEMMA SetGoal ==
    ASSUME TypeInv, NEW g \in Goals, NEW v \in Goal,
           goal' = [goal EXCEPT ![g] = v]
    PROVE  goal' \in [Goals -> Goal]
<1>1. goal' \in [Goals -> Goal] /\ \A f \in Goals : goal'[f] = IF f = g THEN v ELSE goal[f]
  BY DEF TypeInv, TypeOK
<1>2. QED
  BY <1>1 DEF TypeInv

LEMMA SetStatus ==
    ASSUME TypeInv, NEW g \in Goals, NEW s \in {"none"} \cup Live,
           goal' = [goal EXCEPT ![g].status = s]
    PROVE  goal' \in [Goals -> Goal]
<1> DEFINE v == [goal[g] EXCEPT !.status = s]
<1>1. v \in Goal /\ v.owner = goal[g].owner /\ goal' = [goal EXCEPT ![g] = v]
  BY GoalFields DEF Goal, TypeInv
<1> HIDE DEF v
<1>2. QED
  BY <1>1, SetGoal DEF TypeInv

LEMMA RelaunchType ==
    ASSUME TypeInv, NEW g \in Goals, RelaunchGoal(g)
    PROVE  /\ goal' \in [Goals -> Goal] /\ saw' = saw
           /\ run' \in [Goals -> [Agents -> RunStatus]]
<1>1. CASE goal[g].status \in Live \ {"active"}
  <2>1. goal' \in [Goals -> Goal]
    BY <1>1, SetStatus DEF RelaunchGoal, Live
  <2>2. QED
    BY <1>1, <2>1, EnqueuedType DEF RelaunchGoal, TypeInv, TypeOK
<1>2. CASE ~ (goal[g].status \in Live \ {"active"})
  BY <1>2 DEF RelaunchGoal, TypeInv, TypeOK
<1>3. QED
  BY <1>1, <1>2

LEMMA InitType == Init => TypeInv
<1> SUFFICES ASSUME Init PROVE TypeInv
  OBVIOUS
<1>1. /\ item \in [Items -> Item] /\ domain \in [Domains -> Domain]
  BY Constants DEF Init, Item, Domain
<1>2. goal \in [Goals -> Goal]
  <2>1. <<>> \in Seq(Heads)
    OBVIOUS
  <2>2. QED
    BY <2>1, Constants DEF Init, Goal
<1>3. QED
  BY <1>1, <1>2, NoCallType, Constants
  DEF Init, TypeInv, TypeOK, CallOK, RunStatus

(* The steps of a request.                                                 *)
LEMMA CallStepType ==
    ASSUME TypeInv, NEW p \in Procs, CallStep(p)
    PROVE  TypeInv'
<1> USE DEF hostVars, confVars, goalVars, lifeVars
<1>1. CASE CheckRef(p)
  <2>1. call' \in [Procs -> Call] /\ CallOK'
    BY <1>1, ReturnType, StepType DEF CheckRef
  <2>2. QED
    BY <1>1, <2>1 DEF CheckRef, TypeInv, TypeOK
<1>2. CASE InsertGoal(p)
  <2> DEFINE g == CHOOSE g \in Fresh : TRUE
             v == [status |-> "active", ref |-> call[p].item, owner |-> call[p].agent,
                   head |-> call[p].head, feed |-> <<>>]
  <2>1. g \in Goals /\ call[p].agent \in Agents
    BY <1>2 DEF InsertGoal, Fresh, TypeInv, TypeOK
  <2>2. <<>> \in Seq(Heads)
    OBVIOUS
  <2>3. v \in Goal /\ v.owner = call[p].agent
    BY <2>1, <2>2, CallFields DEF Goal, Live, TypeInv
  <2>4. /\ goal' = [goal EXCEPT ![g] = v] /\ run' = Enqueued(g, call[p].agent) /\ saw' = saw
    BY <1>2 DEF InsertGoal, CreateGoal
  <2> HIDE DEF g, v
  <2>5. goal' \in [Goals -> Goal]
    BY <2>1, <2>3, <2>4, SetGoal
  <2>6. call' \in [Procs -> Call] /\ CallOK'
    BY <1>2, ReturnType DEF InsertGoal
  <2>7. run' \in [Goals -> [Agents -> RunStatus]]
    BY <2>1, <2>4, EnqueuedType
  <2>8. QED
    BY <1>2, <2>4, <2>5, <2>6, <2>7 DEF InsertGoal, TypeInv, TypeOK
<1>3. CASE InsertConflicts(p)
  <2>1. call' \in [Procs -> Call] /\ CallOK'
    BY <1>3, ReturnType DEF InsertConflicts
  <2>2. QED
    BY <1>3, <2>1 DEF InsertConflicts, TypeInv, TypeOK
<1>4. CASE InsertFails(p)
  <2>1. call' \in [Procs -> Call] /\ CallOK'
    BY <1>4, ReturnType DEF InsertFails
  <2>2. poll' \in Poll
    BY <1>4, NoCallType, PollFields DEF InsertFails, Fails, TypeInv
  <2>3. QED
    BY <1>4, <2>1, <2>2 DEF InsertFails, TypeInv, TypeOK
<1>5. CASE FindGoal(p)
  <2>1. ASSUME NEW g \in Tracks(call[p].item),
               call' = [call EXCEPT ![p].pc = "refresh", ![p].goal = g]
        PROVE  call' \in [Procs -> Call] /\ CallOK'
    <3> DEFINE v == [call[p] EXCEPT !.pc = "refresh", !.goal = g]
    <3>1. g \in Goals
      BY DEF Tracks
    <3>2. v \in Call /\ v.goal = g /\ call' = [call EXCEPT ![p] = v]
      BY <2>1, <3>1, CallFields DEF Call, TypeInv, TypeOK
    <3> HIDE DEF v
    <3>3. QED
      BY <3>1, <3>2, SetCall
  <2>2. call' \in [Procs -> Call] /\ CallOK'
    BY <1>5, <2>1, StepType DEF FindGoal
  <2>3. QED
    BY <1>5, <2>2 DEF FindGoal, TypeInv, TypeOK
<1>6. CASE RefreshGoal(p)
  <2> DEFINE g == call[p].goal
             h == call[p].head
  <2>1. g \in Goals /\ h \in Heads /\ goal[g].status # "none"
    BY <1>6, CallFields DEF RefreshGoal, TypeInv, CallOK
  <2>2. PICK entry \in {h, 0} :
          goal' = [goal EXCEPT ![g].head = h, ![g].feed = Append(@, entry)]
    BY <1>6 DEF RefreshGoal
  <2>3. call' = [call EXCEPT ![p].pc = "wake", ![p].status = goal[g].status]
    BY <1>6 DEF RefreshGoal
  <2> DEFINE v == [goal[g] EXCEPT !.head = h, !.feed = Append(@, entry)]
             c == [call[p] EXCEPT !.pc = "wake", !.status = goal[g].status]
  <2>4. v \in Goal /\ v.owner = goal[g].owner
    <3>1. Append(goal[g].feed, entry) \in Seq(Heads)
      BY <2>1, GoalFields, Constants DEF TypeInv
    <3>2. QED
      BY <2>1, <3>1, GoalFields DEF Goal, TypeInv
  <2>5. c \in Call /\ c.goal \in Goals
    BY <2>1, CallFields, GoalFields DEF Call, TypeInv
  <2>6. goal' = [goal EXCEPT ![g] = v] /\ call' = [call EXCEPT ![p] = c]
    BY <2>2, <2>3
  <2> HIDE DEF g, h, v, c
  <2>7. goal' \in [Goals -> Goal]
    BY <2>1, <2>4, <2>6, SetGoal
  <2>8. call' \in [Procs -> Call] /\ CallOK'
    BY <2>5, <2>6, SetCall
  <2>9. QED
    BY <1>6, <2>7, <2>8 DEF RefreshGoal, TypeInv, TypeOK
<1>7. CASE RefreshNothing(p)
  <2>1. call' \in [Procs -> Call] /\ CallOK'
    BY <1>7, ReturnType DEF RefreshNothing
  <2>2. QED
    BY <1>7, <2>1 DEF RefreshNothing, TypeInv, TypeOK
<1>8. CASE WakeHandler(p)
  <2>1. call' \in [Procs -> Call] /\ CallOK'
    BY <1>8, ReturnType DEF WakeHandler
  <2>2. call[p].goal \in Goals
    BY <1>8 DEF WakeHandler, TypeInv, CallOK
  <2>3. run' \in [Goals -> [Agents -> RunStatus]]
    BY <1>8, <2>2, EnqueuedType DEF WakeHandler, TypeInv, TypeOK
  <2>4. QED
    BY <1>8, <2>1, <2>3 DEF WakeHandler, TypeInv, TypeOK
<1>9. CASE Relaunch(p)
  <2>1. call' \in [Procs -> Call] /\ CallOK'
    BY <1>9, ReturnType DEF Relaunch
  <2>2. call[p].goal \in Goals
    BY <1>9 DEF Relaunch, TypeInv, CallOK
  <2>3. QED
    BY <1>9, <2>1, <2>2, RelaunchType DEF Relaunch, TypeInv, TypeOK
<1>10. QED
  BY <1>1, <1>2, <1>3, <1>4, <1>5, <1>6, <1>7, <1>8, <1>9 DEF CallStep

LEMMA HandleType ==
    ASSUME TypeInv, NEW m \in mail, NEW p \in Hooks, Handle(p, m)
    PROVE  TypeInv'
<1>1. m.item \in Items /\ m.head \in Heads /\ p \in Procs
  BY DEF TypeInv, TypeOK, Mail, Procs
<1> DEFINE a == HandlerOf(RepoOf[m.item], m.item)
           pc == IF m.action = "synchronize" THEN "find" ELSE "check"
<1>2. a \in Agents \cup {NoAgent}
  BY <1>1, IssueAssumption DEF HandlerOf, TypeInv, TypeOK, Domain
<1>3. call' = call \/ call' = [call EXCEPT ![p] = Asks(pc, m.item, m.head, a)]
  BY DEF Handle
<1> HIDE DEF a
<1>4. call' \in [Procs -> Call] /\ CallOK'
  <2>1. Asks(pc, m.item, m.head, a) \in Call /\ Asks(pc, m.item, m.head, a).pc = pc
    BY <1>1, <1>2, AsksType
  <2>2. QED
    BY <1>1, <1>3, <2>1, SetCall DEF TypeInv, TypeOK, CallOK
<1>5. QED
  BY <1>4 DEF Handle, TypeInv, TypeOK, hostVars, confVars, goalVars, lifeVars

LEMMA PollStepType ==
    ASSUME TypeInv, PollStep
    PROVE  TypeInv'
<1> USE DEF hostVars, confVars, goalVars, lifeVars
<1>1. ASSUME poll' \in Poll, call' \in [Procs -> Call], CallOK',
             UNCHANGED <<hostVars, confVars, goalVars, event, lifeVars, edits>>
      PROVE  TypeInv'
  BY <1>1 DEF TypeInv, TypeOK
<1>2. ASSUME UNCHANGED call
      PROVE  call' \in [Procs -> Call] /\ CallOK'
  BY <1>2 DEF TypeInv, TypeOK, CallOK
<1>3. CASE PollStart
  <2>1. Jobs \in Seq(Job)
    <3>1. Len(Order) \in Nat /\ \A k \in 1..Len(Order) : Order[k] \in Domains
      BY IssueAssumption
    <3>2. \A d \in Domains : /\ Tracked(d, domain[d].handler) \in Agents \cup {NoAgent}
                             /\ Tracked(d, domain[d].puller) \in Agents \cup {NoAgent}
      BY DEF Tracked, TypeInv, TypeOK, Domain
    <3>3. Jobs \in [1..Len(Order) -> Job]
      BY <3>1, <3>2 DEF Jobs, Job
    <3>4. QED
      BY <3>1, <3>3
  <2>2. poll' \in Poll
    BY <1>3, <2>1, NoCallType DEF PollStart, Poll
  <2>3. QED
    BY <1>1, <1>2, <1>3, <2>2 DEF PollStart
<1>4. CASE PollListFails
  BY <1>1, <1>2, <1>4, NoCallType DEF PollListFails
<1>5. CASE PollNext
  <2>1. poll.todo \in Seq(Job) /\ Tail(poll.todo) \in Seq(Job)
    BY <1>5, PollFields DEF PollNext, TypeInv
  <2>2. poll' \in Poll
    BY <1>5, <2>1, NoCallType DEF PollNext, Poll
  <2>3. QED
    BY <1>1, <1>2, <1>5, <2>2 DEF PollNext
<1>6. ASSUME NEW d \in Domains, NEW part \in {"issues", "pulls"}, PollList(d, part)
      PROVE  TypeInv'
  <2> DEFINE found == {[item |-> i, head |-> item[i].head] :
                         i \in {j \in Items : InPart(j) /\ item[j].state = "open"}}
  <2>1. found \in SUBSET [item : Items, head : Heads]
    BY DEF TypeInv, TypeOK, Item
  <2>2. poll' = [poll EXCEPT !.listed = TRUE, !.items = found]
    BY <1>6 DEF PollList
  <2> HIDE DEF found
  <2>3. poll' \in Poll
    BY <2>1, <2>2, PollFields DEF Poll, TypeInv
  <2>4. QED
    BY <1>1, <1>2, <1>6, <2>3 DEF PollList
<1>7. ASSUME NEW x \in [item : Items, head : Heads], PollItem(x)
      PROVE  TypeInv'
  <2>1. poll' \in Poll
    BY <1>7, PollFields DEF PollItem, Poll, TypeInv
  <2>2. PartAgent \in Agents \cup {NoAgent}
    BY <1>7, PollFields DEF PollItem, TypeInv
  <2>3. call' = [call EXCEPT ![Poller] = Asks("check", x.item, x.head, PartAgent)]
    BY <1>7 DEF PollItem
  <2>4. call' \in [Procs -> Call] /\ CallOK'
    BY <2>2, <2>3, AsksType, SetCall DEF Procs
  <2>5. QED
    BY <1>1, <1>7, <2>1, <2>4 DEF PollItem
<1>8. QED
  BY <1>3, <1>4, <1>5, <1>6, <1>7 DEF PollStep

LEMMA AuthorStepType ==
    ASSUME TypeInv, AuthorStep
    PROVE  TypeInv'
<1>1. PICK i \in Items : \/ AuthorOpens(i) \/ AuthorPushes(i)
                        \/ AuthorCloses(i) \/ AuthorReopens(i)
  BY DEF AuthorStep
<1>2. edits' \in 0..MaxEdits
  BY <1>1, IssueAssumption DEF AuthorOpens, AuthorPushes, AuthorCloses, AuthorReopens, Edit,
                               TypeInv, TypeOK
<1>3. item' \in [Items -> Item]
  <2>1. item[i] \in Item
    BY DEF TypeInv, TypeOK
  <2>2. AuthorPushes(i) => item[i].head + 1 \in Heads
    BY <2>1, IssueAssumption DEF AuthorPushes, Item, Heads
  <2>3. QED
    BY <1>1, <2>1, <2>2 DEF AuthorOpens, AuthorPushes, AuthorCloses, AuthorReopens, TypeInv,
                            TypeOK, Item
<1>4. mail' \subseteq Mail
  <2>1. item'[i].head \in Heads
    BY <1>3 DEF Item
  <2>2. QED
    BY <1>1, <2>1 DEF AuthorOpens, AuthorPushes, AuthorCloses, AuthorReopens, Posts, TypeInv,
                      TypeOK, Mail
<1>5. UNCHANGED <<confVars, goalVars, call, poll, event, lifeVars>>
  BY <1>1 DEF AuthorOpens, AuthorPushes, AuthorCloses, AuthorReopens
<1>6. QED
  BY <1>2, <1>3, <1>4, <1>5
  DEF TypeInv, TypeOK, CallOK, confVars, goalVars, lifeVars

LEMMA UserStepType ==
    ASSUME TypeInv, UserStep
    PROVE  TypeInv'
<1> USE DEF hostVars, confVars, goalVars, lifeVars
<1>1. edits' \in 0..MaxEdits /\ UNCHANGED <<hostVars, call, poll, event, lifeVars>>
  <2>1. edits \in 0..MaxEdits /\ MaxEdits \in Nat
    BY IssueAssumption DEF TypeInv, TypeOK
  <2>2. (\E op \in Ops : Edit(op)) /\ UNCHANGED <<hostVars, call, poll, event, lifeVars>>
    <3>1. ASSUME NEW g \in Goals, Reopen(g) \/ DeleteGoal(g) \/ \E a \in Agents \cup {NoAgent} : Assign(g, a)
          PROVE  (\E op \in Ops : Edit(op)) /\ UNCHANGED <<hostVars, call, poll, event, lifeVars>>
      BY <3>1 DEF Reopen, DeleteGoal, Assign, Edit
    <3>2. ASSUME (\E d \in Domains : ConfigureDomain(d)) \/ (\E a \in Agents : DeleteAgent(a))
          PROVE  (\E op \in Ops : Edit(op)) /\ UNCHANGED <<hostVars, call, poll, event, lifeVars>>
      BY <3>2 DEF ConfigureDomain, DeleteAgent, Edit
    <3>3. QED
      BY <3>1, <3>2 DEF UserStep
  <2>3. QED
    BY <2>1, <2>2 DEF Edit
<1>2. ASSUME NEW g \in Goals, Reopen(g) PROVE TypeInv'
  BY <1>1, <1>2, RelaunchType DEF Reopen, TypeInv, TypeOK, CallOK
<1>3. ASSUME NEW g \in Goals, DeleteGoal(g) PROVE TypeInv'
  <2>1. goal' \in [Goals -> Goal]
    BY <1>3, SetStatus DEF DeleteGoal, Live
  <2>2. run' \in [Goals -> [Agents -> RunStatus]]
    BY <1>3, NoCallType DEF DeleteGoal, TypeInv, TypeOK, RunStatus
  <2>3. QED
    BY <1>1, <1>3, <2>1, <2>2 DEF DeleteGoal, TypeInv, TypeOK, CallOK
<1>4. ASSUME NEW g \in Goals, NEW a \in Agents \cup {NoAgent}, Assign(g, a) PROVE TypeInv'
  <2> DEFINE v == [goal[g] EXCEPT !.owner = a]
  <2>1. v \in Goal /\ v.owner = a /\ goal' = [goal EXCEPT ![g] = v]
    BY <1>4, GoalFields DEF Assign, Goal, TypeInv
  <2> HIDE DEF v
  <2>2. goal' \in [Goals -> Goal]
    BY <2>1, SetGoal
  <2>3. run' \in [Goals -> [Agents -> RunStatus]]
    BY <1>4 DEF Assign, TypeInv, TypeOK, RunStatus
  <2>4. QED
    BY <1>1, <1>4, <2>2, <2>3 DEF Assign, TypeInv, TypeOK, CallOK
<1>5. ASSUME NEW d \in Domains, ConfigureDomain(d) PROVE TypeInv'
  <2>1. PICK a \in agents \cup {NoAgent}, t \in {"good", "bad"} :
          domain' \in {[domain EXCEPT ![d].handler = a], [domain EXCEPT ![d].puller = a],
                       [domain EXCEPT ![d].token = t]}
    BY <1>5 DEF ConfigureDomain
  <2>2. a \in Agents \cup {NoAgent} /\ domain[d] \in Domain
    BY DEF TypeInv, TypeOK
  <2>3. /\ [domain[d] EXCEPT !.handler = a] \in Domain
        /\ [domain[d] EXCEPT !.puller = a] \in Domain
        /\ [domain[d] EXCEPT !.token = t] \in Domain
    BY <2>2 DEF Domain
  <2>4. domain' \in [Domains -> Domain]
    BY <2>1, <2>3 DEF TypeInv, TypeOK
  <2>5. QED
    BY <1>1, <1>5, <2>4 DEF ConfigureDomain, TypeInv, TypeOK, CallOK
<1>6. ASSUME NEW a \in Agents, DeleteAgent(a) PROVE TypeInv'
  <2>1. run' \in [Goals -> [Agents -> RunStatus]]
    BY <1>6 DEF DeleteAgent, TypeInv, TypeOK, RunStatus
  <2>2. QED
    BY <1>1, <1>6, <2>1 DEF DeleteAgent, TypeInv, TypeOK, CallOK
<1>7. QED
  BY <1>2, <1>3, <1>4, <1>5, <1>6 DEF UserStep

LEMMA GoalStepType ==
    ASSUME TypeInv, GoalStep
    PROVE  TypeInv'
<1> USE DEF hostVars, confVars, goalVars, lifeVars
<1>1. ASSUME NEW g \in Goals, Delivered(g) PROVE TypeInv'
  <2>1. goal' \in [Goals -> Goal]
    BY <1>1, SetStatus DEF Delivered, Live
  <2>2. run' \in [Goals -> [Agents -> RunStatus]]
    BY <1>1, UnqueuedType DEF Delivered, TypeInv, TypeOK
  <2>3. QED
    BY <1>1, <2>1, <2>2 DEF Delivered, TypeInv, TypeOK, CallOK
<1>2. ASSUME NEW g \in Goals, CloseIssue(g) \/ CloseFails(g) PROVE TypeInv'
  <2>1. item' \in [Items -> Item]
    BY <1>2 DEF CloseIssue, CloseFails, TypeInv, TypeOK, Item
  <2>2. QED
    BY <1>2, <2>1 DEF CloseIssue, CloseFails, TypeInv, TypeOK, CallOK
<1>3. ASSUME NEW g \in Goals, NEW a \in Agents, Claim(g, a) PROVE TypeInv'
  <2>1. saw' \in [Goals -> Heads]
    BY <1>3, GoalFields DEF Claim, TypeInv, TypeOK
  <2>2. run' \in [Goals -> [Agents -> RunStatus]]
    BY <1>3 DEF Claim, TypeInv, TypeOK, RunStatus
  <2>3. QED
    BY <1>3, <2>1, <2>2 DEF Claim, TypeInv, TypeOK, CallOK
<1>4. ASSUME NEW g \in Goals, NEW a \in Agents, NEW s \in {"review", "ended"}, RunEnds(g, a, s)
      PROVE  TypeInv'
  <2>1. goal' \in [Goals -> Goal]
    <3>1. s \in Live
      BY DEF Live
    <3>2. CASE goal[g].status = "active" /\ goal[g].owner = a
      BY <1>4, <3>1, <3>2, SetStatus DEF RunEnds
    <3>3. CASE ~ (goal[g].status = "active" /\ goal[g].owner = a)
      BY <1>4, <3>3 DEF RunEnds, TypeInv, TypeOK
    <3>4. QED
      BY <3>2, <3>3
  <2>2. run' \in [Goals -> [Agents -> RunStatus]]
    <3>1. \A r \in [Agents -> RunStatus] : [r EXCEPT ![a] = "none"] \in [Agents -> RunStatus]
      BY DEF RunStatus
    <3>2. Unqueued(g) \in [Agents -> RunStatus] /\ run[g] \in [Agents -> RunStatus]
      BY UnqueuedType DEF TypeInv, TypeOK
    <3>3. PICK r \in [Agents -> RunStatus] : run' = [run EXCEPT ![g] = r]
      <4>1. CASE goal[g].status = "active" /\ goal[g].owner = a
        BY <1>4, <3>1, <3>2, <4>1 DEF RunEnds
      <4>2. CASE ~ (goal[g].status = "active" /\ goal[g].owner = a)
        BY <1>4, <3>1, <3>2, <4>2 DEF RunEnds
      <4>3. QED
        BY <4>1, <4>2
    <3>4. QED
      BY <3>3 DEF TypeInv, TypeOK
  <2>3. QED
    BY <1>4, <2>1, <2>2 DEF RunEnds, TypeInv, TypeOK, CallOK
<1>5. ASSUME NEW g \in Goals, NEW a \in Agents, RunRetries(g, a) \/ RunLeaves(g, a)
      PROVE  TypeInv'
  <2>1. run' \in [Goals -> [Agents -> RunStatus]]
    <3>1. PICK s \in {"queued", "left"} : run' = [run EXCEPT ![g][a] = s]
      BY <1>5 DEF RunRetries, RunLeaves
    <3>2. s \in RunStatus
      BY DEF RunStatus
    <3>3. QED
      BY <3>1, <3>2 DEF TypeInv, TypeOK
  <2>2. QED
    BY <1>5, <2>1 DEF RunRetries, RunLeaves, TypeInv, TypeOK, CallOK
<1>6. ASSUME NEW g \in Goals, Resume(g) PROVE TypeInv'
  <2>1. run' \in [Goals -> [Agents -> RunStatus]]
    BY <1>6, EnqueuedType DEF Resume
  <2>2. QED
    BY <1>6, <2>1 DEF Resume, TypeInv, TypeOK, CallOK
<1>7. QED
  BY <1>1, <1>2, <1>3, <1>4, <1>5, <1>6 DEF GoalStep

LEMMA LifeStepType ==
    ASSUME TypeInv, Crash \/ Restart
    PROVE  TypeInv'
<1> USE DEF hostVars, confVars, goalVars, lifeVars
<1>1. CASE Crash
  <2>1. crashes' \in 0..MaxCrashes
    BY <1>1, IssueAssumption DEF Crash, TypeInv, TypeOK
  <2>2. call' \in [Procs -> Call] /\ CallOK' /\ poll' \in Poll
    BY <1>1, NoCallType DEF Crash, CallOK
  <2>3. QED
    BY <1>1, <2>1, <2>2 DEF Crash, TypeInv, TypeOK
<1>2. CASE Restart
  <2>1. run' \in [Goals -> [Agents -> RunStatus]]
    BY <1>2 DEF Restart, TypeInv, TypeOK, RunStatus
  <2>2. QED
    BY <1>2, <2>1 DEF Restart, TypeInv, TypeOK, CallOK
<1>3. QED
  BY <1>1, <1>2

LEMMA NextType == TypeInv /\ [Next]_vars => TypeInv'
<1> SUFFICES ASSUME TypeInv, [Next]_vars PROVE TypeInv'
  OBVIOUS
<1>1. CASE UNCHANGED vars
  BY <1>1 DEF vars, hostVars, confVars, goalVars, lifeVars, TypeInv, TypeOK, CallOK
<1>2. CASE Next
  BY <1>2, CallStepType, HandleType, PollStepType, AuthorStepType, UserStepType, GoalStepType,
     LifeStepType DEF Next
<1>3. QED
  BY <1>1, <1>2

(* No race of webhook requests, the poll, users, runs and crashes leaves   *)
(* the types: a request that refreshes or wakes has found its goal.        *)
THEOREM TypeCorrect == Spec => []TypeOK
<1>1. TypeInv => TypeOK
  BY DEF TypeInv
<1>2. QED
  BY <1>1, InitType, NextType, PTL DEF Spec

----------------------------------------------------------------------------
(* ActiveHasRun is inductive: a goal becomes active, or changes hands, in  *)
(* the step that gives its agent a run, and what an active goal's agent    *)
(* has is taken away by an end of the goal only.                           *)

(* What enqueueTx leaves: a pending run of the agent, and all the others.  *)
LEMMA EnqueuedRuns ==
    ASSUME TypeInv, NEW g \in Goals, NEW a \in Agents
    PROVE  /\ Enqueued(g, a)[g][a] # "none"
           /\ \A f \in Goals, b \in Agents : run[f][b] # "none" => Enqueued(g, a)[f][b] # "none"
  BY DEF Enqueued, Pending, TypeInv, TypeOK

LEMMA OwnerIsAgent ==
    ASSUME TypeInv, NEW g \in Goals, goal[g].owner # NoAgent
    PROVE  goal[g].owner \in Agents
  BY GoalFields DEF TypeInv

LEMMA RelaunchActive ==
    ASSUME TypeInv, ActiveHasRun, NEW g \in Goals, RelaunchGoal(g)
    PROVE  ActiveHasRun'
<1>1. CASE goal[g].status \in Live \ {"active"}
  <2>1. goal[g].owner # NoAgent => run'[g][goal[g].owner] # "none"
    BY <1>1, OwnerIsAgent, EnqueuedRuns DEF RelaunchGoal
  <2>2. /\ \A f \in Goals, b \in Agents : run[f][b] # "none" => run'[f][b] # "none"
        /\ \A f \in Goals : /\ goal'[f].owner = goal[f].owner
                            /\ f # g => goal'[f].status = goal[f].status
    BY <1>1, GoalFields, EnqueuedRuns DEF RelaunchGoal, TypeInv, TypeOK, Goal
  <2>3. QED
    BY <2>1, <2>2, OwnerIsAgent DEF ActiveHasRun
<1>2. CASE ~ (goal[g].status \in Live \ {"active"})
  BY <1>2 DEF RelaunchGoal, ActiveHasRun
<1>3. QED
  BY <1>1, <1>2

LEMMA ActiveStep == TypeInv /\ ActiveHasRun /\ [Next]_vars => ActiveHasRun'
<1> SUFFICES ASSUME TypeInv, ActiveHasRun, [Next]_vars PROVE ActiveHasRun'
  OBVIOUS
<1> USE DEF hostVars, confVars, goalVars, lifeVars
<1>1. CASE UNCHANGED <<goal, run>>
  BY <1>1 DEF ActiveHasRun
<1>2. ASSUME NEW p \in Procs, CallStep(p)
      PROVE  ActiveHasRun'
  <2>1. CASE InsertGoal(p)
    <3> DEFINE g == CHOOSE g \in Fresh : TRUE
    <3>1. g \in Goals /\ call[p].agent \in Agents
      BY <2>1 DEF InsertGoal, Fresh, TypeInv, TypeOK
    <3>2. /\ goal' = [goal EXCEPT ![g] = [status |-> "active", ref |-> call[p].item,
                          owner |-> call[p].agent, head |-> call[p].head, feed |-> <<>>]]
          /\ run' = Enqueued(g, call[p].agent)
      BY <2>1 DEF InsertGoal, CreateGoal
    <3> HIDE DEF g
    <3>3. /\ goal'[g].owner = call[p].agent
          /\ \A f \in Goals : f # g => goal'[f] = goal[f]
      BY <3>1, <3>2 DEF TypeInv, TypeOK
    <3>4. QED
      BY <3>1, <3>2, <3>3, EnqueuedRuns, OwnerIsAgent DEF ActiveHasRun
  <2>2. CASE RefreshGoal(p)
    <3>1. \A f \in Goals : goal'[f].status = goal[f].status /\ goal'[f].owner = goal[f].owner
      BY <2>2, GoalFields DEF RefreshGoal, TypeInv, TypeOK, Goal
    <3>2. run' = run
      BY <2>2 DEF RefreshGoal
    <3>3. QED
      BY <3>1, <3>2 DEF ActiveHasRun
  <2>3. CASE WakeHandler(p)
    <3>1. /\ call[p].goal \in Goals /\ goal' = goal
          /\ run' = run \/ (call[p].agent \in Agents /\ run' = Enqueued(call[p].goal, call[p].agent))
      BY <2>3 DEF WakeHandler, TypeInv, CallOK, TypeOK
    <3>2. QED
      BY <3>1, EnqueuedRuns, OwnerIsAgent DEF ActiveHasRun
  <2>4. CASE Relaunch(p)
    <3>1. call[p].goal \in Goals /\ RelaunchGoal(call[p].goal)
      BY <2>4 DEF Relaunch, TypeInv, CallOK
    <3>2. QED
      BY <3>1, RelaunchActive
  <2>5. CASE CheckRef(p) \/ InsertConflicts(p) \/ InsertFails(p) \/ FindGoal(p) \/ RefreshNothing(p)
    BY <1>1, <2>5 DEF CheckRef, InsertConflicts, InsertFails, FindGoal, RefreshNothing
  <2>6. QED
    BY <1>2, <2>1, <2>2, <2>3, <2>4, <2>5 DEF CallStep
<1>3. CASE UserStep
  <2>1. ASSUME NEW g \in Goals, Reopen(g) PROVE ActiveHasRun'
    BY <2>1, RelaunchActive DEF Reopen
  <2>2. ASSUME NEW g \in Goals, DeleteGoal(g) PROVE ActiveHasRun'
    <3>1. /\ goal'[g].status = "none"
          /\ \A f \in Goals : f # g => goal'[f] = goal[f] /\ run'[f] = run[f]
      BY <2>2, GoalFields DEF DeleteGoal, TypeInv, TypeOK, Goal
    <3>2. QED
      BY <3>1 DEF ActiveHasRun
  <2>3. ASSUME NEW g \in Goals, NEW a \in Agents \cup {NoAgent}, Assign(g, a) PROVE ActiveHasRun'
    <3>1. /\ goal'[g].owner = a /\ goal'[g].status = goal[g].status
          /\ \A f \in Goals : f # g => goal'[f] = goal[f] /\ run'[f] = run[f]
      BY <2>3, GoalFields DEF Assign, TypeInv, TypeOK, Goal
    <3>2. a # NoAgent /\ goal[g].status = "active" => run'[g][a] # "none"
      BY <2>3 DEF Assign, TypeInv, TypeOK
    <3>3. QED
      BY <3>1, <3>2 DEF ActiveHasRun
  <2>4. ASSUME NEW d \in Domains, ConfigureDomain(d) PROVE ActiveHasRun'
    BY <1>1, <2>4 DEF ConfigureDomain
  <2>5. ASSUME NEW a \in Agents, DeleteAgent(a) PROVE ActiveHasRun'
    <3>1. /\ goal' = goal /\ \A g \in Goals : goal[g].status # "none" => goal[g].owner # a
          /\ \A f \in Goals, b \in Agents : b # a => run'[f][b] = run[f][b]
      BY <2>5 DEF DeleteAgent, TypeInv, TypeOK
    <3>2. QED
      BY <3>1, OwnerIsAgent DEF ActiveHasRun
  <2>6. QED
    BY <1>3, <2>1, <2>2, <2>3, <2>4, <2>5 DEF UserStep
<1>4. CASE GoalStep
  <2>1. ASSUME NEW g \in Goals, Delivered(g) PROVE ActiveHasRun'
    <3>1. /\ goal'[g].status = "ended"
          /\ \A f \in Goals : f # g => goal'[f] = goal[f] /\ run'[f] = run[f]
      BY <2>1, GoalFields DEF Delivered, TypeInv, TypeOK, Goal
    <3>2. QED
      BY <3>1 DEF ActiveHasRun
  <2>2. ASSUME NEW g \in Goals, CloseIssue(g) \/ CloseFails(g) PROVE ActiveHasRun'
    BY <1>1, <2>2 DEF CloseIssue, CloseFails
  <2>3. ASSUME NEW g \in Goals, NEW a \in Agents, Claim(g, a) PROVE ActiveHasRun'
    <3>1. goal' = goal /\ \A f \in Goals, b \in Agents : run[f][b] # "none" => run'[f][b] # "none"
      BY <2>3 DEF Claim, TypeInv, TypeOK
    <3>2. QED
      BY <3>1, OwnerIsAgent DEF ActiveHasRun
  <2>4. ASSUME NEW g \in Goals, NEW a \in Agents, NEW s \in {"review", "ended"}, RunEnds(g, a, s)
        PROVE  ActiveHasRun'
    <3>1. \A f \in Goals, b \in Agents : f # g => run'[f][b] = run[f][b]
      BY <2>4 DEF RunEnds, TypeInv, TypeOK
    <3>2. CASE goal[g].status = "active" /\ goal[g].owner = a
      <4>1. /\ goal'[g].status # "active" /\ \A f \in Goals : f # g => goal'[f] = goal[f]
        BY <2>4, <3>2, GoalFields DEF RunEnds, TypeInv, TypeOK, Goal
      <4>2. QED
        BY <3>1, <4>1, OwnerIsAgent DEF ActiveHasRun
    <3>3. CASE ~ (goal[g].status = "active" /\ goal[g].owner = a)
      <4>1. goal' = goal /\ \A b \in Agents : b # a => run'[g][b] = run[g][b]
        BY <2>4, <3>3 DEF RunEnds, TypeInv, TypeOK
      <4>2. QED
        BY <3>1, <3>3, <4>1, OwnerIsAgent DEF ActiveHasRun
    <3>4. QED
      BY <3>2, <3>3
  <2>5. ASSUME NEW g \in Goals, Resume(g) \/ \E a \in Agents : RunRetries(g, a) \/ RunLeaves(g, a)
        PROVE  ActiveHasRun'
    <3>1. goal' = goal /\ \A f \in Goals, b \in Agents : run[f][b] # "none" => run'[f][b] # "none"
      <4>1. CASE Resume(g)
        BY <4>1, EnqueuedRuns DEF Resume
      <4>2. CASE \E a \in Agents : RunRetries(g, a) \/ RunLeaves(g, a)
        <5>1. PICK a \in Agents, s \in {"queued", "left"} : run' = [run EXCEPT ![g][a] = s]
          BY <4>2 DEF RunRetries, RunLeaves
        <5>2. \A f \in Goals, b \in Agents :
                run'[f][b] = IF f = g /\ b = a THEN s ELSE run[f][b]
          BY <5>1 DEF TypeInv, TypeOK
        <5>3. QED
          BY <4>2, <5>2 DEF RunRetries, RunLeaves
      <4>3. QED
        BY <2>5, <4>1, <4>2
    <3>2. QED
      BY <3>1, OwnerIsAgent DEF ActiveHasRun
  <2>6. QED
    BY <1>4, <2>1, <2>2, <2>3, <2>4, <2>5 DEF GoalStep
<1>5. CASE Restart
  <2>1. goal' = goal /\ \A f \in Goals, b \in Agents : run[f][b] # "none" => run'[f][b] # "none"
    BY <1>5 DEF Restart
  <2>2. QED
    BY <2>1, OwnerIsAgent DEF ActiveHasRun
<1>6. CASE PollStep \/ AuthorStep \/ Crash \/ (\E m \in mail, p \in Hooks : Handle(p, m)) \/ UNCHANGED vars
  BY <1>1, <1>6
  DEF PollStep, PollStart, PollListFails, PollNext, PollList, PollItem, AuthorStep, AuthorOpens,
      AuthorPushes, AuthorCloses, AuthorReopens, Crash, Handle, vars
<1>7. QED
  BY <1>2, <1>3, <1>4, <1>5, <1>6 DEF Next

(* A goal at work that belongs to an agent has a run of that agent queued  *)
(* or running, or its last run was stopped or waits for an answer: no      *)
(* crash, handoff, deleted agent, wake or relaunch forgets it.             *)
THEOREM ActiveIsWorked == Spec => []ActiveHasRun
<1>1. Init => ActiveHasRun
  BY DEF Init, ActiveHasRun
<1>2. QED
  BY <1>1, InitType, NextType, ActiveStep, PTL DEF Spec

----------------------------------------------------------------------------
(* DeliveredOnce: what the unique index keeps apart stays apart, and the   *)
(* last entry of a feed is of the version that is stored, or was lost; an  *)
(* entry is added only for another version.                                *)
RefUnique ==
    \A f, g \in Goals :
      goal[f].status # "none" /\ goal[g].status # "none" /\ goal[f].ref = goal[g].ref => f = g
LastOK(g) == goal[g].feed = <<>> \/ goal[g].feed[Len(goal[g].feed)] \in {0, goal[g].head}

DeliveredInv == RefUnique /\ FeedHasNoRepeats /\ \A g \in Goals : LastOK(g)

(* What an entry of another version does to a feed that has no repeats.    *)
LEMMA AppendEntry ==
    ASSUME NEW s \in Seq(Heads), NEW last \in Heads, NEW h \in Heads, NEW entry \in {h, 0},
           s = <<>> \/ s[Len(s)] \in {0, last}, h # last,
           \A k \in 1..Len(s) - 1 : s[k] = s[k + 1] => s[k] = 0
    PROVE  /\ Append(s, entry)[Len(Append(s, entry))] = entry /\ Append(s, entry) # <<>>
           /\ \A k \in 1..Len(Append(s, entry)) - 1 :
                Append(s, entry)[k] = Append(s, entry)[k + 1] => Append(s, entry)[k] = 0
<1>1. /\ Len(s) \in Nat /\ Len(Append(s, entry)) = Len(s) + 1
      /\ Append(s, entry)[Len(s) + 1] = entry
      /\ \A k \in 1..Len(s) : Append(s, entry)[k] = s[k]
  BY Constants
<1>2. ASSUME NEW k \in 1..Len(s), Append(s, entry)[k] = Append(s, entry)[k + 1]
      PROVE  Append(s, entry)[k] = 0
  <2>1. CASE k = Len(s)
    <3>1. s # <<>>
      BY <2>1
    <3>2. QED
      BY <1>1, <1>2, <2>1, <3>1
  <2>2. CASE k # Len(s)
    <3>1. k \in 1..Len(s) - 1 /\ k + 1 \in 1..Len(s)
      BY <1>1, <2>2
    <3>2. QED
      BY <1>1, <1>2, <3>1
  <2>3. QED
    BY <2>1, <2>2
<1>3. QED
  BY <1>1, <1>2

(* A step that only moves goals about, or deletes them.                    *)
LEMMA RowsKept ==
    ASSUME DeliveredInv,
           \A g \in Goals : /\ goal'[g].ref = goal[g].ref /\ goal'[g].head = goal[g].head
                            /\ goal'[g].feed = goal[g].feed
                            /\ goal[g].status = "none" => goal'[g].status = "none"
    PROVE  DeliveredInv'
<1>1. RefUnique'
  BY DEF DeliveredInv, RefUnique
<1>2. FeedHasNoRepeats' /\ \A g \in Goals : LastOK(g)'
  BY DEF DeliveredInv, FeedHasNoRepeats, LastOK
<1>3. QED
  BY <1>1, <1>2 DEF DeliveredInv

LEMMA InsertOnce ==
    ASSUME TypeInv, DeliveredInv, NEW p \in Procs, InsertGoal(p)
    PROVE  DeliveredInv'
<1> DEFINE g == CHOOSE g \in Fresh : TRUE
           i == call[p].item
<1>1. g \in Goals /\ \A f \in Goals : goal[f].status # "none" => goal[f].ref # i
  BY DEF InsertGoal, Fresh, RefTaken, Tracks
<1>2. goal' = [goal EXCEPT ![g] = [status |-> "active", ref |-> i, owner |-> call[p].agent,
                                   head |-> call[p].head, feed |-> <<>>]]
  BY DEF InsertGoal, CreateGoal
<1> HIDE DEF g, i
<1>3. /\ goal'[g].ref = i /\ goal'[g].feed = <<>>
      /\ \A f \in Goals : f # g => goal'[f] = goal[f]
  BY <1>1, <1>2 DEF TypeInv, TypeOK
<1>4. RefUnique'
  BY <1>1, <1>3 DEF DeliveredInv, RefUnique
<1>5. FeedHasNoRepeats' /\ \A f \in Goals : LastOK(f)'
  <2>1. ASSUME NEW f \in Goals
        PROVE  /\ \A k \in 1..Len(goal'[f].feed) - 1 :
                    goal'[f].feed[k] = goal'[f].feed[k + 1] => goal'[f].feed[k] = 0
               /\ LastOK(f)'
    <3>1. CASE f = g
      BY <1>3, <3>1, Len(<<>>) = 0, 1..(0 - 1) = {} DEF LastOK
    <3>2. CASE f # g
      BY <1>3, <3>2 DEF DeliveredInv, FeedHasNoRepeats, LastOK
    <3>3. QED
      BY <3>1, <3>2
  <2>2. QED
    BY <2>1 DEF FeedHasNoRepeats
<1>6. QED
  BY <1>4, <1>5 DEF DeliveredInv

LEMMA RefreshOnce ==
    ASSUME TypeInv, DeliveredInv, NEW p \in Procs, RefreshGoal(p)
    PROVE  DeliveredInv'
<1> DEFINE g == call[p].goal
           h == call[p].head
<1>1. /\ g \in Goals /\ goal[g].head \in Heads /\ h \in Heads /\ h # goal[g].head
      /\ goal[g].feed \in Seq(Heads)
  BY GoalFields, CallFields DEF RefreshGoal, SameState, TypeInv, CallOK
<1>2. PICK entry \in {h, 0} :
        goal' = [goal EXCEPT ![g].head = h, ![g].feed = Append(@, entry)]
  BY DEF RefreshGoal
<1> HIDE DEF g, h
<1>3. /\ goal'[g].ref = goal[g].ref /\ goal'[g].status = goal[g].status /\ goal'[g].head = h
      /\ goal'[g].feed = Append(goal[g].feed, entry)
      /\ \A f \in Goals : f # g => goal'[f] = goal[f]
  BY <1>1, <1>2, GoalFields DEF TypeInv, TypeOK, Goal
<1>4. RefUnique'
  BY <1>3 DEF DeliveredInv, RefUnique
<1>5. /\ Append(goal[g].feed, entry)[Len(Append(goal[g].feed, entry))] = entry
      /\ \A k \in 1..Len(Append(goal[g].feed, entry)) - 1 :
           Append(goal[g].feed, entry)[k] = Append(goal[g].feed, entry)[k + 1]
             => Append(goal[g].feed, entry)[k] = 0
  <2>1. goal[g].feed = <<>> \/ goal[g].feed[Len(goal[g].feed)] \in {0, goal[g].head}
    BY <1>1 DEF DeliveredInv, LastOK
  <2>2. \A k \in 1..Len(goal[g].feed) - 1 :
          goal[g].feed[k] = goal[g].feed[k + 1] => goal[g].feed[k] = 0
    BY <1>1 DEF DeliveredInv, FeedHasNoRepeats
  <2> DEFINE s == goal[g].feed
             last == goal[g].head
  <2>3. s \in Seq(Heads) /\ last \in Heads /\ h \in Heads /\ entry \in {h, 0}
    BY <1>1
  <2>4. /\ s = <<>> \/ s[Len(s)] \in {0, last}
        /\ h # last
        /\ \A k \in 1..Len(s) - 1 : s[k] = s[k + 1] => s[k] = 0
    BY <1>1, <2>1, <2>2
  <2> HIDE DEF s, last
  <2>5. /\ Append(s, entry)[Len(Append(s, entry))] = entry
        /\ \A k \in 1..Len(Append(s, entry)) - 1 :
             Append(s, entry)[k] = Append(s, entry)[k + 1] => Append(s, entry)[k] = 0
    BY <2>3, <2>4, AppendEntry
  <2>6. QED
    BY <2>5 DEF s
<1>6. ASSUME NEW f \in Goals
      PROVE  /\ \A k \in 1..Len(goal'[f].feed) - 1 :
                  goal'[f].feed[k] = goal'[f].feed[k + 1] => goal'[f].feed[k] = 0
             /\ LastOK(f)'
  <2>1. CASE f = g
    <3> DEFINE longer == Append(goal[g].feed, entry)
    <3>1. /\ longer[Len(longer)] = entry
          /\ \A k \in 1..Len(longer) - 1 : longer[k] = longer[k + 1] => longer[k] = 0
      BY <1>5
    <3>2. goal'[f].feed = longer /\ goal'[f].head = h
      BY <1>3, <2>1
    <3> HIDE DEF longer
    <3>3. LastOK(f)'
      BY <3>1, <3>2 DEF LastOK
    <3>4. QED
      BY <3>1, <3>2, <3>3
  <2>2. CASE f # g
    BY <1>3, <2>2 DEF DeliveredInv, FeedHasNoRepeats, LastOK
  <2>3. QED
    BY <2>1, <2>2
<1>7. QED
  BY <1>4, <1>6 DEF DeliveredInv, FeedHasNoRepeats

LEMMA DeliveredStep == TypeInv /\ DeliveredInv /\ [Next]_vars => DeliveredInv'
<1> SUFFICES ASSUME TypeInv, DeliveredInv, [Next]_vars PROVE DeliveredInv'
  OBVIOUS
<1> USE DEF hostVars, confVars, goalVars, lifeVars
<1>1. CASE UNCHANGED goal
  BY <1>1, RowsKept
<1>2. ASSUME NEW g \in Goals, NEW s, goal[g].status # "none",
             goal' = [goal EXCEPT ![g].status = s]
      PROVE  DeliveredInv'
  <2>1. \A f \in Goals : /\ goal'[f].ref = goal[f].ref /\ goal'[f].head = goal[f].head
                         /\ goal'[f].feed = goal[f].feed
                         /\ f # g => goal'[f].status = goal[f].status
    BY <1>2, GoalFields DEF TypeInv, TypeOK, Goal
  <2>2. QED
    BY <1>2, <2>1, RowsKept
<1>3. ASSUME NEW g \in Goals, RelaunchGoal(g)
      PROVE  DeliveredInv'
  BY <1>1, <1>2, <1>3 DEF RelaunchGoal, Live
<1>4. ASSUME NEW p \in Procs, CallStep(p)
      PROVE  DeliveredInv'
  <2>1. CASE Relaunch(p)
    BY <1>3, <2>1 DEF Relaunch, TypeInv, CallOK
  <2>2. CASE \/ CheckRef(p) \/ InsertConflicts(p) \/ InsertFails(p) \/ FindGoal(p)
             \/ RefreshNothing(p) \/ WakeHandler(p)
    BY <1>1, <2>2 DEF CheckRef, InsertConflicts, InsertFails, FindGoal, RefreshNothing, WakeHandler
  <2>3. QED
    BY <1>4, <2>1, <2>2, InsertOnce, RefreshOnce DEF CallStep
<1>5. CASE UserStep
  <2>1. ASSUME NEW g \in Goals, NEW a \in Agents \cup {NoAgent}, Assign(g, a) PROVE DeliveredInv'
    <3>1. \A f \in Goals : /\ goal'[f].ref = goal[f].ref /\ goal'[f].head = goal[f].head
                           /\ goal'[f].feed = goal[f].feed /\ goal'[f].status = goal[f].status
      BY <2>1, GoalFields DEF Assign, TypeInv, TypeOK, Goal
    <3>2. QED
      BY <3>1, RowsKept
  <2>2. ASSUME NEW g \in Goals, Reopen(g) \/ DeleteGoal(g) PROVE DeliveredInv'
    BY <1>2, <1>3, <2>2 DEF Reopen, DeleteGoal, Live
  <2>3. CASE (\E d \in Domains : ConfigureDomain(d)) \/ (\E a \in Agents : DeleteAgent(a))
    BY <1>1, <2>3 DEF ConfigureDomain, DeleteAgent
  <2>4. QED
    BY <1>5, <2>1, <2>2, <2>3 DEF UserStep
<1>6. CASE GoalStep
  <2>1. ASSUME NEW g \in Goals, Delivered(g) PROVE DeliveredInv'
    BY <1>2, <2>1 DEF Delivered
  <2>2. ASSUME NEW g \in Goals, \/ CloseIssue(g) \/ CloseFails(g) \/ Resume(g)
                                 \/ \E a \in Agents : Claim(g, a) \/ RunRetries(g, a) \/ RunLeaves(g, a)
        PROVE  DeliveredInv'
    BY <1>1, <2>2 DEF CloseIssue, CloseFails, Resume, Claim, RunRetries, RunLeaves
  <2>3. ASSUME NEW g \in Goals, NEW a \in Agents, NEW s \in {"review", "ended"}, RunEnds(g, a, s)
        PROVE  DeliveredInv'
    BY <1>1, <1>2, <2>3 DEF RunEnds
  <2>4. QED
    BY <1>6, <2>1, <2>2, <2>3 DEF GoalStep
<1>7. CASE \/ PollStep \/ AuthorStep \/ Crash \/ Restart \/ UNCHANGED vars
           \/ (\E m \in mail, p \in Hooks : Handle(p, m))
  BY <1>1, <1>7
  DEF PollStep, PollStart, PollListFails, PollNext, PollList, PollItem, AuthorStep, AuthorOpens,
      AuthorPushes, AuthorCloses, AuthorReopens, Crash, Restart, Handle, vars
<1>8. QED
  BY <1>4, <1>5, <1>6, <1>7 DEF Next

(* However requests, redeliveries and the poll race, an issue or a pull    *)
(* request has one goal at most, and a goal's feed announces a version     *)
(* once before it announces another.                                       *)
THEOREM TrackedOnce == Spec => []DeliveredOnce
<1>1. Init => DeliveredInv
  <2>1. Len(<<>>) = 0 /\ 1..(0 - 1) = {}
    OBVIOUS
  <2>2. QED
    BY <2>1 DEF Init, DeliveredInv, RefUnique, FeedHasNoRepeats, LastOK
<1>2. DeliveredInv => DeliveredOnce
  <2> SUFFICES ASSUME DeliveredInv, NEW i \in Items PROVE Cardinality(Tracks(i)) <= 1
    BY DEF DeliveredOnce, DeliveredInv, OneGoalPerRef
  <2>1. \A f, g \in Tracks(i) : f = g
    BY DEF Tracks, DeliveredInv, RefUnique
  <2>2. CASE Tracks(i) = {}
    BY <2>2, FS_EmptySet
  <2>3. CASE Tracks(i) # {}
    <3>1. PICK g \in Tracks(i) : Tracks(i) = {g}
      BY <2>1, <2>3
    <3>2. Cardinality({g}) = 1
      BY FS_Singleton
    <3>3. QED
      BY <3>1, <3>2
  <2>4. QED
    BY <2>2, <2>3
<1>3. QED
  BY <1>1, <1>2, InitType, NextType, DeliveredStep, PTL DEF Spec
============================================================================
