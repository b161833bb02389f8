--------------------------- MODULE DeliveryProofs ---------------------------
(***************************************************************************)
(* Theorems about Delivery, for all sets of agents, machines, runs, guests *)
(* and jobs and every number of crashes.                                   *)
(*                                                                         *)
(* Three inductive invariants, each on top of the types: UndoneInv, of the *)
(* worktree of the owner and the branch under it; ShownInv, of the branch  *)
(* the human was shown and the daemon's copy of it; KeptInv, of where the  *)
(* commits that were shown are while the branch is pushed, adopted, merged *)
(* and deleted.                                                            *)
(***************************************************************************)
EXTENDS Delivery, TLAPS

Held == {"fetch", "resolve", "merge", "push", "clean_remote", "clean_local", "done"}
Cleans == {"clean_remote", "clean_local"}

(* An execution has a worktree, on a machine that has the branch.          *)
Placed(e) ==
    /\ e.id \in Runs \ unborn /\ e.by \in Agents
    /\ tree[e.by] # NoTree /\ clone[MachineOf[e.by]].feat # NoRef

(* A run is the owner's, of a goal that is active or was cancelled since.  *)
RunOK ==
    /\ run.pc = "none" => run = Idle
    /\ run.pc # "none" => /\ goal \in {"active", "cancelled"} /\ run.by = owner
                          /\ Placed(run)
    /\ \A s \in strays : s.pc # "none" /\ (s.pc # "judged" => Placed(s))

(* A delivery holds the lock from its fetch to its end, and has a branch   *)
(* from the time it resolved one until it deletes it.                      *)
JobsOK ==
    \A j \in Jobs :
        /\ job[j].pc # "none" => goal \in {"review", "done"} /\ daemon = "up"
        /\ job[j].pc \in Held <=> lock = j
        /\ job[j].pc \in Cleans => job[j].ok
        /\ job[j].ok => job[j].pc \in Cleans \cup {"done"}
        /\ job[j].pc \in {"merge", "push", "clean_remote"} => bare.feat # NoRef

TypeInv == TypeOK /\ RunOK /\ JobsOK

----------------------------------------------------------------------------
(* What git does with histories and repositories.                          *)

LEMMA TipFields ==
    ASSUME NEW t \in Tip
    PROVE  /\ t # NoRef /\ t.hist \subseteq Commit /\ t.added \subseteq Commit
           /\ t.undone \subseteq Commit /\ Files(t) \subseteq Commit
  BY NothingAssumption DEF Tip, Files

LEMMA RootIsTip == Root \in Tip /\ Files(Root) = {}
  BY DEF Root, Tip, Files

(* A commit: its files are the worktree's, its history that of the branch  *)
(* and itself.                                                             *)
LEMMA CommittedIs ==
    ASSUME NEW c \in Commit, NEW t \in Tip, NEW files \in SUBSET Commit
    PROVE  /\ Committed(c, t, files) \in Tip
           /\ Files(Committed(c, t, files)) = files
           /\ \/ Committed(c, t, files) = t
              \/ Committed(c, t, files).hist = t.hist \cup {c}
           /\ Committed(c, t, files).undone \subseteq t.undone \cup (Files(t) \ files)
<1>1. CASE files = Files(t)
  <2>1. Committed(c, t, files) = t
    BY <1>1 DEF Committed
  <2>2. QED
    BY <1>1, <2>1
<1>2. CASE files # Files(t)
  <2> DEFINE new == [hist |-> t.hist \cup {c}, added |-> t.added \cup files,
                     undone |-> (t.undone \cup Files(t)) \ files]
  <2>1. Committed(c, t, files) = new
    BY <1>2 DEF Committed
  <2>2. /\ t.hist \subseteq Commit /\ t.added \subseteq Commit
        /\ t.undone \subseteq Commit /\ Files(t) \subseteq Commit
    BY TipFields
  <2>3. new \in Tip
    BY <2>2 DEF Tip
  <2>4. Files(new) = files
    BY DEF Files
  <2>5. new.hist = t.hist \cup {c} /\ new.undone \subseteq t.undone \cup (Files(t) \ files)
    OBVIOUS
  <2> HIDE DEF new
  <2>6. QED
    BY <2>1, <2>3, <2>4, <2>5
<1>3. QED
  BY <1>1, <1>2

LEMMA MergeIs ==
    ASSUME NEW a \in Tip, NEW b \in Tip
    PROVE  /\ MergeOf(a, b) \in Tip
           /\ MergeOf(a, b).hist = a.hist \cup b.hist
           /\ MergeOf(a, b).added = a.added \cup b.added
           /\ MergeOf(a, b).undone = a.undone \cup b.undone
  BY DEF MergeOf, Tip

LEMMA RepoFields ==
    ASSUME NEW repo \in Repo
    PROVE  /\ repo.main \in Tip /\ repo.seen \in Ref /\ repo.feat \in Ref
           /\ repo.seen # NoRef => repo.seen \in Tip
           /\ repo.feat # NoRef => repo.feat \in Tip
  BY DEF Repo, Ref

LEMMA OriginFields ==
    ASSUME TypeOK
    PROVE  /\ origin.main \in Tip /\ origin.feat \in Ref
           /\ origin.feat # NoRef => origin.feat \in Tip
  BY DEF TypeOK, Ref

LEMMA FeatSet ==
    ASSUME NEW repo \in Repo, NEW t \in Ref
    PROVE  /\ [repo EXCEPT !.feat = t] \in Repo
           /\ [repo EXCEPT !.feat = t].main = repo.main
           /\ [repo EXCEPT !.feat = t].seen = repo.seen
           /\ [repo EXCEPT !.feat = t].feat = t
  BY DEF Repo

LEMMA SeenSet ==
    ASSUME NEW repo \in Repo, NEW t \in Ref
    PROVE  /\ [repo EXCEPT !.seen = t] \in Repo
           /\ [repo EXCEPT !.seen = t].main = repo.main
           /\ [repo EXCEPT !.seen = t].seen = t
           /\ [repo EXCEPT !.seen = t].feat = repo.feat
  BY DEF Repo

LEMMA MainSet ==
    ASSUME NEW repo \in Repo, NEW t \in Tip
    PROVE  /\ [repo EXCEPT !.main = t] \in Repo
           /\ [repo EXCEPT !.main = t].main = t
           /\ [repo EXCEPT !.main = t].seen = repo.seen
           /\ [repo EXCEPT !.main = t].feat = repo.feat
  BY DEF Repo

LEMMA FetchedIs ==
    ASSUME TypeOK, NEW repo \in Repo
    PROVE  /\ Fetched(repo) \in Repo
           /\ Fetched(repo).main = origin.main
           /\ Fetched(repo).seen = IF origin.feat = NoRef THEN repo.seen ELSE origin.feat
           /\ Fetched(repo).feat = repo.feat
  BY OriginFields DEF Fetched, Repo, Ref

LEMMA OriginFeatSet ==
    ASSUME TypeOK, NEW t \in Ref
    PROVE  /\ [origin EXCEPT !.feat = t] \in [main : Tip, feat : Ref]
           /\ [origin EXCEPT !.feat = t].main = origin.main
           /\ [origin EXCEPT !.feat = t].feat = t
  BY DEF TypeOK

LEMMA OriginMainSet ==
    ASSUME TypeOK, NEW t \in Tip
    PROVE  /\ [origin EXCEPT !.main = t] \in [main : Tip, feat : Ref]
           /\ [origin EXCEPT !.main = t].main = t
           /\ [origin EXCEPT !.main = t].feat = origin.feat
  BY DEF TypeOK

(* One repository, one worktree, one job of many is written.               *)
LEMMA CloneSet ==
    ASSUME TypeOK, NEW m \in Machines, NEW repo \in Repo
    PROVE  /\ [clone EXCEPT ![m] = repo] \in [Machines -> Repo]
           /\ [clone EXCEPT ![m] = repo][m] = repo
           /\ \A n \in Machines \ {m} : [clone EXCEPT ![m] = repo][n] = clone[n]
  BY DEF TypeOK

LEMMA TreeFields ==
    ASSUME TypeOK, NEW a \in Agents
    PROVE  /\ tree[a] \in (SUBSET Commit) \cup {NoTree}
           /\ tree[a] # NoTree => tree[a] \subseteq Commit
  BY DEF TypeOK

LEMMA TreeSet ==
    ASSUME TypeOK, NEW a \in Agents, NEW files \in SUBSET Commit
    PROVE  /\ [tree EXCEPT ![a] = files] \in [Agents -> (SUBSET Commit) \cup {NoTree}]
           /\ [tree EXCEPT ![a] = files][a] = files /\ files # NoTree
           /\ \A b \in Agents \ {a} : [tree EXCEPT ![a] = files][b] = tree[b]
<1>1. files # NoTree
  BY NothingAssumption
<1>2. QED
  BY <1>1 DEF TypeOK

LEMMA JobFields ==
    ASSUME TypeOK, NEW j \in Jobs
    PROVE  job[j] \in Job /\ job[j].pc \in Steps /\ job[j].ok \in BOOLEAN
  BY DEF TypeOK, Job

LEMMA JobReplaced ==
    ASSUME TypeOK, NEW j \in Jobs, NEW pc \in Steps, NEW ok \in BOOLEAN
    PROVE  /\ [job EXCEPT ![j] = [pc |-> pc, ok |-> ok]] \in [Jobs -> Job]
           /\ [job EXCEPT ![j] = [pc |-> pc, ok |-> ok]][j].pc = pc
           /\ [job EXCEPT ![j] = [pc |-> pc, ok |-> ok]][j].ok = ok
           /\ \A k \in Jobs \ {j} : [job EXCEPT ![j] = [pc |-> pc, ok |-> ok]][k] = job[k]
  BY DEF TypeOK, Job

LEMMA JobMoved ==
    ASSUME TypeOK, NEW j \in Jobs, NEW pc \in Steps
    PROVE  /\ [job EXCEPT ![j].pc = pc] \in [Jobs -> Job]
           /\ [job EXCEPT ![j].pc = pc][j].pc = pc
           /\ [job EXCEPT ![j].pc = pc][j].ok = job[j].ok
           /\ \A k \in Jobs \ {j} : [job EXCEPT ![j].pc = pc][k] = job[k]
  BY DEF TypeOK, Job

----------------------------------------------------------------------------
(* What the actions of the machines do to the repositories.                *)

LEMMA OwnerFields ==
    ASSUME TypeInv
    PROVE  /\ owner \in Agents /\ MachineOf[owner] \in Machines
           /\ clone[MachineOf[owner]] \in Repo /\ \A m \in Machines : clone[m] \in Repo
           /\ \A a \in Agents : MachineOf[a] \in Machines
  BY DeliveryAssumption DEF TypeInv, TypeOK

(* The branch a run or a guest finds on its machine, what an owner's run   *)
(* would commit on it, and what a guest would.                             *)
BranchOf(m) == IF clone[m].feat = NoRef THEN origin.main ELSE clone[m].feat
TipOf(e) == Committed(e.id, clone[MachineOf[e.by]].feat, tree[e.by])
GuestTip(g, a) ==
    Committed(g, BranchOf(MachineOf[a]), Files(BranchOf(MachineOf[a])) \cup {g})

LEMMA StartEffect ==
    ASSUME TypeInv, NEW r \in Runs, StartRun(r)
    PROVE  LET m == MachineOf[owner]
               tip == BranchOf(m)
           IN
           /\ tip \in Tip
           /\ clone' \in [Machines -> Repo]
           /\ clone'[m].main = origin.main /\ clone'[m].feat = tip
           /\ clone'[m].seen = IF origin.feat = NoRef THEN clone[m].seen ELSE origin.feat
           /\ \A n \in Machines \ {m} : clone'[n] = clone[n]
           /\ tree' \in [Agents -> (SUBSET Commit) \cup {NoTree}]
           /\ tree'[owner] = IF tree[owner] = NoTree THEN Files(tip) ELSE tree[owner]
           /\ tree'[owner] # NoTree
           /\ \A a \in Agents \ {owner} : tree'[a] = tree[a]
           /\ run' \in RunState /\ run'.pc = "working" /\ run'.id = r /\ run'.by = owner
           /\ run.pc = "none" /\ goal = "active"
<1> DEFINE m == MachineOf[owner]
           tip == BranchOf(m)
<1>0. /\ m = MachineOf[owner]
      /\ tip = IF clone[m].feat = NoRef THEN origin.main ELSE clone[m].feat
  BY DEF BranchOf
<1> HIDE DEF m, tip
<1>1. /\ owner \in Agents /\ m \in Machines /\ clone[m] \in Repo
      /\ tree[owner] # NoTree => tree[owner] \in SUBSET Commit
  BY <1>0, OwnerFields, TreeFields DEF TypeInv
<1> DEFINE repo == Fetched(clone[m])
<1>2. /\ repo \in Repo /\ repo.main = origin.main /\ repo.feat = clone[m].feat
      /\ repo.seen = IF origin.feat = NoRef THEN clone[m].seen ELSE origin.feat
  BY <1>1, FetchedIs DEF TypeInv
<1>3. tip \in Tip
  BY <1>0, <1>1, <1>2, OriginFields, RepoFields DEF TypeInv
<1>4. tip = IF repo.feat = NoRef THEN BaseOf(repo) ELSE repo.feat
  BY <1>0, <1>2 DEF BaseOf
<1>5. /\ clone' = [clone EXCEPT ![m] = [repo EXCEPT !.feat = tip]]
      /\ tree' = [tree EXCEPT ![owner] = IF @ = NoTree THEN Files(tip) ELSE @]
      /\ run' = [Idle EXCEPT !.by = owner, !.id = r, !.pc = "working"]
      /\ run = Idle /\ goal = "active"
  BY <1>0, <1>4 DEF StartRun
<1> HIDE DEF repo
<1> DEFINE new == [repo EXCEPT !.feat = tip]
<1>6. new \in Repo /\ new.main = origin.main /\ new.seen = repo.seen /\ new.feat = tip
  BY <1>2, <1>3, FeatSet DEF Ref
<1> HIDE DEF new
<1>7. /\ clone' \in [Machines -> Repo] /\ clone'[m] = new
      /\ \A n \in Machines \ {m} : clone'[n] = clone[n]
  <2>1. clone' = [clone EXCEPT ![m] = new]
    BY <1>5 DEF new
  <2>2. QED
    BY <1>1, <1>6, <2>1, CloneSet DEF TypeInv
<1> DEFINE files == IF tree[owner] = NoTree THEN Files(tip) ELSE tree[owner]
<1>8. files \in SUBSET Commit
  BY <1>1, <1>3, TipFields
<1>9. tree' = [tree EXCEPT ![owner] = files]
  BY <1>5
<1> HIDE DEF files
<1>10. /\ tree' \in [Agents -> (SUBSET Commit) \cup {NoTree}] /\ tree'[owner] = files
       /\ files # NoTree /\ \A a \in Agents \ {owner} : tree'[a] = tree[a]
  BY <1>1, <1>8, <1>9, TreeSet DEF TypeInv
<1>11. run' \in RunState /\ run'.pc = "working" /\ run'.id = r /\ run'.by = owner
  BY <1>1, <1>5 DEF Idle, RunState, Ref
<1>12. QED
  BY <1>2, <1>3, <1>5, <1>6, <1>7, <1>10, <1>11 DEF m, tip, files, Idle

LEMMA CommitEffect ==
    ASSUME TypeInv, NEW e \in Working, CommitAndPush(e)
    PROVE  LET m == MachineOf[e.by]
               tip == TipOf(e)
           IN
           /\ e.pc = "working" /\ e \in RunState /\ Placed(e)
           /\ m \in Machines /\ clone[m].feat \in Tip /\ tree[e.by] \in SUBSET Commit
           /\ tip \in Tip /\ Files(tip) = tree[e.by]
           /\ tip = clone[m].feat \/ tip.hist = clone[m].feat.hist \cup {e.id}
           /\ tip.undone \subseteq clone[m].feat.undone \cup (Files(clone[m].feat) \ tree[e.by])
           /\ clone' \in [Machines -> Repo] /\ origin' \in [main : Tip, feat : Ref]
           /\ \A n \in Machines \ {m} : clone'[n] = clone[n]
           /\ clone'[m].main = clone[m].main /\ origin'.main = origin.main
           /\ strays' = strays \ {e}
           /\ \/ e # run /\ run' = run
              \/ /\ e = run /\ run' \in RunState /\ run'.pc = "reported"
                 /\ run'.by = run.by /\ run'.id = run.id
           /\ \/ tip = clone[m].seen /\ origin' = origin /\ clone' = clone
              \/ /\ tip # clone[m].seen /\ MayPush(tip)
                 /\ origin'.feat = tip /\ clone'[m].feat = tip /\ clone'[m].seen = tip
              \/ /\ tip # clone[m].seen /\ origin' = origin
                 /\ clone'[m].feat = tip /\ clone'[m].seen = clone[m].seen
<1> DEFINE m == MachineOf[e.by]
           tip == TipOf(e)
<1>0. m = MachineOf[e.by] /\ tip = Committed(e.id, clone[m].feat, tree[e.by])
  BY DEF TipOf
<1> HIDE DEF m, tip
<1>1. /\ e.pc = "working" /\ e \in RunState /\ Placed(e)
  BY DEF Working, TypeInv, TypeOK, RunOK
<1>2. /\ e.id \in Commit /\ e.by \in Agents /\ m \in Machines /\ clone[m] \in Repo
      /\ tree[e.by] # NoTree /\ clone[m].feat # NoRef
  BY <1>0, <1>1, OwnerFields DEF Placed, Commit
<1>3. clone[m].feat \in Tip /\ tree[e.by] \in SUBSET Commit
  BY <1>2, RepoFields, TreeFields DEF TypeInv
<1>4. /\ tip \in Tip /\ Files(tip) = tree[e.by]
      /\ tip = clone[m].feat \/ tip.hist = clone[m].feat.hist \cup {e.id}
      /\ tip.undone \subseteq clone[m].feat.undone \cup (Files(clone[m].feat) \ tree[e.by])
  BY <1>0, <1>2, <1>3, CommittedIs
<1>5. PICK sha \in {tip, NoRef}, ok \in BOOLEAN :
         /\ Publish(m, tip, sha, ok)
         /\ run' = IF e = run THEN [run EXCEPT !.pc = "reported", !.tip = tip,
                                              !.sha = sha, !.ok = ok]
                   ELSE run
  BY <1>0 DEF CommitAndPush
<1>6. tip \in Ref /\ NoRef \in Ref /\ sha \in Ref
  BY <1>4 DEF Ref
<1>7. \/ e # run /\ run' = run
      \/ /\ e = run /\ run' \in RunState /\ run'.pc = "reported"
         /\ run'.by = run.by /\ run'.id = run.id
  BY <1>1, <1>5, <1>6 DEF RunState
<1>8. strays' = strays \ {e}
  BY DEF CommitAndPush
<1>9. CASE tip = clone[m].seen /\ origin' = origin /\ clone' = clone
  <2>1. clone \in [Machines -> Repo] /\ origin \in [main : Tip, feat : Ref]
    BY DEF TypeInv, TypeOK
  <2>2. QED
    BY <1>1, <1>2, <1>3, <1>4, <1>7, <1>8, <1>9, <2>1 DEF m, tip
<1>10. CASE /\ tip # clone[m].seen /\ MayPush(tip)
            /\ origin' = [origin EXCEPT !.feat = tip]
            /\ clone' = [clone EXCEPT ![m].feat = tip, ![m].seen = tip]
  <2> DEFINE new == [clone[m] EXCEPT !.feat = tip, !.seen = tip]
  <2>1. new \in Repo /\ new.main = clone[m].main /\ new.feat = tip /\ new.seen = tip
    BY <1>2, <1>6 DEF Repo
  <2>2. clone' = [clone EXCEPT ![m] = new]
    BY <1>10, <1>2 DEF TypeInv, TypeOK
  <2> HIDE DEF new
  <2>3. /\ clone' \in [Machines -> Repo] /\ clone'[m] = new
        /\ \A n \in Machines \ {m} : clone'[n] = clone[n]
    BY <1>2, <2>1, <2>2, CloneSet DEF TypeInv
  <2>4. /\ origin' \in [main : Tip, feat : Ref] /\ origin'.main = origin.main
        /\ origin'.feat = tip
    BY <1>6, <1>10, OriginFeatSet DEF TypeInv
  <2>5. QED
    BY <1>1, <1>2, <1>3, <1>4, <1>7, <1>8, <1>10, <2>1, <2>3, <2>4 DEF m, tip
<1>11. CASE /\ tip # clone[m].seen
            /\ clone' = [clone EXCEPT ![m].feat = tip] /\ origin' = origin
  <2> DEFINE new == [clone[m] EXCEPT !.feat = tip]
  <2>1. new \in Repo /\ new.main = clone[m].main /\ new.feat = tip /\ new.seen = clone[m].seen
    BY <1>2, <1>6, FeatSet
  <2>2. clone' = [clone EXCEPT ![m] = new]
    BY <1>11, <1>2 DEF TypeInv, TypeOK
  <2> HIDE DEF new
  <2>3. /\ clone' \in [Machines -> Repo] /\ clone'[m] = new
        /\ \A n \in Machines \ {m} : clone'[n] = clone[n]
    BY <1>2, <2>1, <2>2, CloneSet DEF TypeInv
  <2>4. origin \in [main : Tip, feat : Ref]
    BY DEF TypeInv, TypeOK
  <2>5. QED
    BY <1>1, <1>2, <1>3, <1>4, <1>7, <1>8, <1>11, <2>1, <2>3, <2>4 DEF m, tip
<1>12. QED
  BY <1>5, <1>9, <1>10, <1>11 DEF Publish

LEMMA GuestEffect ==
    ASSUME TypeInv, NEW g \in Guests, NEW a \in Agents, GuestWrites(g, a)
    PROVE  LET m == MachineOf[a]
               old == BranchOf(m)
               tip == GuestTip(g, a)
           IN
           /\ m \in Machines /\ old \in Tip /\ tip \in Tip
           /\ Files(tip) = Files(old) \cup {g}
           /\ tip = old \/ tip.hist = old.hist \cup {g}
           /\ tip.undone \subseteq old.undone
           /\ clone' \in [Machines -> Repo] /\ origin' \in [main : Tip, feat : Ref]
           /\ \A n \in Machines \ {m} : clone'[n] = clone[n]
           /\ clone'[m].main = origin.main /\ clone'[m].feat = tip
           /\ origin'.main = origin.main
           /\ \/ MayPush(tip) /\ origin'.feat = tip /\ clone'[m].seen = tip
              \/ /\ ~ MayPush(tip) /\ origin' = origin
                 /\ clone'[m].seen = IF origin.feat = NoRef THEN clone[m].seen ELSE origin.feat
<1> DEFINE m == MachineOf[a]
           old == BranchOf(m)
           tip == GuestTip(g, a)
<1>0. /\ m = MachineOf[a]
      /\ old = IF clone[m].feat = NoRef THEN origin.main ELSE clone[m].feat
      /\ tip = Committed(g, old, Files(old) \cup {g})
  BY DEF BranchOf, GuestTip
<1> HIDE DEF m, old, tip
<1>1. m \in Machines /\ clone[m] \in Repo
  BY <1>0, OwnerFields DEF TypeInv
<1> DEFINE repo == Fetched(clone[m])
<1>2. /\ repo \in Repo /\ repo.main = origin.main /\ repo.feat = clone[m].feat
      /\ repo.seen = IF origin.feat = NoRef THEN clone[m].seen ELSE origin.feat
  BY <1>1, FetchedIs DEF TypeInv
<1>3. old \in Tip /\ g \in Commit
  BY <1>0, <1>1, RepoFields, OriginFields DEF TypeInv, Commit
<1>4. Files(old) \cup {g} \in SUBSET Commit
  BY <1>3, TipFields
<1>5. /\ tip \in Tip /\ Files(tip) = Files(old) \cup {g}
      /\ tip = old \/ tip.hist = old.hist \cup {g}
      /\ tip.undone \subseteq old.undone
  <2> DEFINE files == Files(old) \cup {g}
  <2>1. Files(old) \ files = {} /\ files \in SUBSET Commit
    BY <1>4
  <2> HIDE DEF files
  <2>2. tip = Committed(g, old, files)
    BY <1>0 DEF files
  <2>3. /\ Committed(g, old, files) \in Tip /\ Files(Committed(g, old, files)) = files
        /\ \/ Committed(g, old, files) = old
           \/ Committed(g, old, files).hist = old.hist \cup {g}
        /\ Committed(g, old, files).undone \subseteq old.undone \cup (Files(old) \ files)
    BY <1>3, <2>1, CommittedIs
  <2>4. QED
    BY <2>1, <2>2, <2>3 DEF files
<1>6. old = IF repo.feat = NoRef THEN BaseOf(repo) ELSE repo.feat
  BY <1>0, <1>2 DEF BaseOf
<1>7. \/ /\ MayPush(tip) /\ origin' = [origin EXCEPT !.feat = tip]
         /\ clone' = [clone EXCEPT ![m] = [repo EXCEPT !.feat = tip, !.seen = tip]]
      \/ /\ ~ MayPush(tip) /\ origin' = origin
         /\ clone' = [clone EXCEPT ![m] = [repo EXCEPT !.feat = tip]]
  BY <1>0, <1>6 DEF GuestWrites
<1> HIDE DEF repo
<1>8. tip \in Ref /\ origin \in [main : Tip, feat : Ref]
  BY <1>5 DEF Ref, TypeInv, TypeOK
<1>9. CASE /\ MayPush(tip) /\ origin' = [origin EXCEPT !.feat = tip]
           /\ clone' = [clone EXCEPT ![m] = [repo EXCEPT !.feat = tip, !.seen = tip]]
  <2> DEFINE new == [repo EXCEPT !.feat = tip, !.seen = tip]
  <2>1. new \in Repo /\ new.main = repo.main /\ new.feat = tip /\ new.seen = tip
    BY <1>2, <1>8 DEF Repo
  <2>2. clone' = [clone EXCEPT ![m] = new]
    BY <1>9
  <2> HIDE DEF new
  <2>3. /\ clone' \in [Machines -> Repo] /\ clone'[m] = new
        /\ \A n \in Machines \ {m} : clone'[n] = clone[n]
    BY <1>1, <2>1, <2>2, CloneSet DEF TypeInv
  <2>4. /\ origin' \in [main : Tip, feat : Ref] /\ origin'.main = origin.main
        /\ origin'.feat = tip
    BY <1>8, <1>9, OriginFeatSet DEF TypeInv
  <2>5. QED
    BY <1>1, <1>2, <1>3, <1>5, <1>9, <2>1, <2>3, <2>4 DEF m, old, tip
<1>10. CASE /\ ~ MayPush(tip) /\ origin' = origin
            /\ clone' = [clone EXCEPT ![m] = [repo EXCEPT !.feat = tip]]
  <2> DEFINE new == [repo EXCEPT !.feat = tip]
  <2>1. new \in Repo /\ new.main = repo.main /\ new.feat = tip /\ new.seen = repo.seen
    BY <1>2, <1>8, FeatSet
  <2>2. clone' = [clone EXCEPT ![m] = new]
    BY <1>10
  <2> HIDE DEF new
  <2>3. /\ clone' \in [Machines -> Repo] /\ clone'[m] = new
        /\ \A n \in Machines \ {m} : clone'[n] = clone[n]
    BY <1>1, <2>1, <2>2, CloneSet DEF TypeInv
  <2>4. QED
    BY <1>1, <1>2, <1>3, <1>5, <1>8, <1>10, <2>1, <2>3 DEF m, old, tip
<1>11. QED
  BY <1>7, <1>9, <1>10 DEF m, old, tip

(* What the daemon's repository holds after an adoption.                   *)
LEMMA AdoptedIs ==
    ASSUME TypeInv, NEW sha
    PROVE  /\ Adopted(sha) \in Repo
           /\ \/ sha = NoRef /\ bare.feat # NoRef /\ Adopted(sha) = bare
              \/ /\ sha # NoRef \/ bare.feat = NoRef
                 /\ Adopted(sha).main = origin.main
                 /\ Adopted(sha).seen = IF origin.feat = NoRef THEN bare.seen ELSE origin.feat
                 /\ Adopted(sha).feat = IF Adopted(sha).seen = NoRef THEN bare.feat
                                        ELSE Adopted(sha).seen
<1>1. bare \in Repo
  BY DEF TypeInv, TypeOK
<1>2. CASE sha = NoRef /\ bare.feat # NoRef
  BY <1>1, <1>2 DEF Adopted
<1>3. CASE ~ (sha = NoRef /\ bare.feat # NoRef)
  <2> DEFINE repo == Fetched(bare)
             new == IF repo.seen = NoRef THEN repo ELSE [repo EXCEPT !.feat = repo.seen]
  <2>1. /\ repo \in Repo /\ repo.main = origin.main /\ repo.feat = bare.feat
        /\ repo.seen = IF origin.feat = NoRef THEN bare.seen ELSE origin.feat
    BY <1>1, FetchedIs DEF TypeInv
  <2>2. Adopted(sha) = new
    BY <1>3 DEF Adopted
  <2> HIDE DEF repo
  <2>3. /\ new \in Repo /\ new.main = repo.main /\ new.seen = repo.seen
        /\ new.feat = IF repo.seen = NoRef THEN repo.feat ELSE repo.seen
    BY <2>1, FeatSet, RepoFields
  <2> HIDE DEF new
  <2>4. QED
    BY <1>3, <2>1, <2>2, <2>3
<1>4. QED
  BY <1>2, <1>3

(* The steps of a delivery that write a repository.                        *)
LEMMA ResolveEffect ==
    ASSUME TypeInv, NEW j \in Jobs, Resolve(j)
    PROVE  /\ bare' \in Repo /\ bare'.main = bare.main /\ bare'.seen = bare.seen
           /\ bare'.feat = Deliverable
           /\ Deliverable = IF bare.feat # NoRef THEN bare.feat ELSE bare.seen
           /\ Deliverable \in Ref
<1>1. bare \in Repo /\ bare' = [bare EXCEPT !.feat = Deliverable]
  BY DEF TypeInv, TypeOK, Resolve
<1>2. Deliverable \in Ref
  BY <1>1, RepoFields DEF Deliverable
<1>3. QED
  BY <1>1, <1>2, FeatSet DEF Deliverable

LEMMA PushEffect ==
    ASSUME TypeInv, NEW j \in Jobs, Push(j), NEW merged, merged = MergeOf(bare.main, bare.feat)
    PROVE  /\ bare.feat \in Tip /\ bare.main \in Tip /\ merged \in Tip
           /\ merged.hist = bare.main.hist \cup bare.feat.hist
           /\ merged.added = bare.main.added \cup bare.feat.added
           /\ merged.undone = bare.main.undone \cup bare.feat.undone
           /\ bare' \in Repo /\ bare'.seen = bare.seen /\ bare'.feat = bare.feat
           /\ origin' \in [main : Tip, feat : Ref] /\ origin'.feat = origin.feat
           /\ \/ /\ origin.main = bare.main /\ origin'.main = merged
                 /\ \/ bare'.main = merged /\ Succeed(j, "clean_remote")
                    \/ bare' = bare /\ Goto(j, "done")
              \/ origin' = origin /\ bare' = bare /\ Goto(j, "done")
<1>1. /\ job[j].pc = "push" /\ bare \in Repo /\ bare.feat # NoRef
      /\ origin \in [main : Tip, feat : Ref]
  BY DEF TypeInv, TypeOK, JobsOK, Push, At
<1>2. bare.feat \in Tip /\ bare.main \in Tip
  BY <1>1, RepoFields
<1>3. /\ merged \in Tip
      /\ merged.hist = bare.main.hist \cup bare.feat.hist
      /\ merged.added = bare.main.added \cup bare.feat.added
      /\ merged.undone = bare.main.undone \cup bare.feat.undone
  BY <1>2, MergeIs
<1>4. \/ /\ origin.main = bare.main /\ origin' = [origin EXCEPT !.main = merged]
         /\ \/ bare' = [bare EXCEPT !.main = merged] /\ Succeed(j, "clean_remote")
            \/ bare' = bare /\ Goto(j, "done")
      \/ origin' = origin /\ bare' = bare /\ Goto(j, "done")
  BY DEF Push
<1>5. /\ [bare EXCEPT !.main = merged] \in Repo /\ [bare EXCEPT !.main = merged].main = merged
      /\ [bare EXCEPT !.main = merged].seen = bare.seen
      /\ [bare EXCEPT !.main = merged].feat = bare.feat
  BY <1>1, <1>3, MainSet
<1>6. /\ [origin EXCEPT !.main = merged] \in [main : Tip, feat : Ref]
      /\ [origin EXCEPT !.main = merged].main = merged
      /\ [origin EXCEPT !.main = merged].feat = origin.feat
  BY <1>3, OriginMainSet DEF TypeInv
<1>7. QED
  BY <1>1, <1>2, <1>3, <1>4, <1>5, <1>6

LEMMA CleanRemoteEffect ==
    ASSUME TypeInv, NEW j \in Jobs, CleanRemote(j)
    PROVE  /\ bare' \in Repo /\ bare'.main = bare.main /\ bare'.seen = NoRef
           /\ bare'.feat = bare.feat
           /\ origin' \in [main : Tip, feat : Ref] /\ origin'.main = origin.main
           /\ origin'.feat = NoRef
  BY SeenSet, OriginFeatSet DEF TypeInv, TypeOK, CleanRemote, Ref

LEMMA CleanLocalEffect ==
    ASSUME TypeInv, NEW j \in Jobs, CleanLocal(j)
    PROVE  /\ bare' \in Repo /\ bare'.main = bare.main /\ bare'.seen = bare.seen
           /\ bare'.feat = NoRef
  BY FeatSet DEF TypeInv, TypeOK, CleanLocal, Ref

LEMMA CleanCancelledEffect ==
    ASSUME TypeInv, CleanCancelled
    PROVE  /\ bare' \in Repo /\ bare'.main = bare.main /\ bare'.seen = NoRef
           /\ bare'.feat = NoRef
           /\ origin' \in [main : Tip, feat : Ref] /\ origin'.main = origin.main
           /\ origin'.feat = NoRef
<1>1. bare' = [bare EXCEPT !.seen = NoRef, !.feat = NoRef] /\ bare \in Repo /\ NoRef \in Ref
  BY DEF TypeInv, TypeOK, CleanCancelled, Ref
<1>2. /\ bare' \in Repo /\ bare'.main = bare.main /\ bare'.seen = NoRef
      /\ bare'.feat = NoRef
  BY <1>1 DEF Repo
<1>3. QED
  BY <1>1, <1>2, OriginFeatSet DEF TypeInv, CleanCancelled

LEMMA OtherEffect ==
    ASSUME TypeInv, NEW o \in Others, OtherDelivers(o)
    PROVE  /\ origin' \in [main : Tip, feat : Ref] /\ origin'.feat = origin.feat
           /\ origin'.main.hist = origin.main.hist \cup {o}
           /\ origin'.main.added = origin.main.added \cup {o}
           /\ origin'.main.undone = origin.main.undone
           /\ UNCHANGED <<goalVars, workVars, bare, jobVars, cleaning, procVars, ghosts>>
<1> DEFINE t == origin.main
           new == [hist |-> t.hist \cup {o}, added |-> t.added \cup {o}, undone |-> t.undone]
<1>1. t \in Tip /\ origin \in [main : Tip, feat : Ref] /\ o \in Commit
  BY OriginFields DEF TypeInv, TypeOK, Commit
<1>2. new \in Tip
  BY <1>1 DEF Tip
<1>3. origin' = [origin EXCEPT !.main = new]
  <2>1. origin' = [main |-> [hist |-> t.hist \cup {o}, added |-> t.added \cup {o},
                             undone |-> t.undone],
                   feat |-> origin.feat]
    BY <1>1 DEF OtherDelivers, Tip
  <2>2. QED
    BY <1>1, <2>1
<1> HIDE DEF new
<1>4. /\ origin' \in [main : Tip, feat : Ref] /\ origin'.main = new
      /\ origin'.feat = origin.feat
  BY <1>2, <1>3, OriginMainSet DEF TypeInv
<1>5. UNCHANGED <<goalVars, workVars, bare, jobVars, cleaning, procVars, ghosts>>
  BY DEF OtherDelivers
<1>6. QED
  BY <1>4, <1>5 DEF new

----------------------------------------------------------------------------
(* Types: what is typed stays typed, and runs and jobs keep their shape.   *)

LEMMA InitType == Init => TypeInv
<1> SUFFICES ASSUME Init PROVE TypeInv
  OBVIOUS
<1>1. Root \in Tip /\ NoRef \in Ref /\ Fresh \in Repo
  BY RootIsTip DEF Fresh, Repo, Ref
<1>2. Idle \in RunState /\ Idle.pc = "none"
  BY <1>1 DEF Idle, RunState
<1>3. [main |-> Root, feat |-> NoRef] \in [main : Tip, feat : Ref]
  BY <1>1
<1>4. [j \in Jobs |-> [pc |-> "none", ok |-> FALSE]] \in [Jobs -> Job]
  BY DEF Job, Steps
<1>5. crashes \in 0..MaxCrashes
  BY DeliveryAssumption DEF Init
<1>6. TypeOK
  BY <1>1, <1>2, <1>3, <1>4, <1>5 DEF Init, TypeOK
<1>7. RunOK /\ JobsOK
  BY <1>2, DeliveryAssumption DEF Init, RunOK, JobsOK, Held, Cleans
<1>8. QED
  BY <1>6, <1>7 DEF TypeInv

(* The holder of the lock is alone with the daemon's repository.           *)
LEMMA HolderStep ==
    ASSUME TypeInv, NEW j \in Jobs, job[j].pc \in Held,
           job' \in [Jobs -> Job], \A k \in Jobs \ {j} : job'[k] = job[k],
           daemon' = daemon, goal' \in {"review", "done"}, lock' \in {j, NoJob},
           job'[j].pc \in Held => lock' = j,
           job'[j].pc \in {"none", "wait"} => lock' = NoJob,
           job'[j].pc \in Cleans => job'[j].ok,
           job'[j].ok => job'[j].pc \in Cleans \cup {"done"},
           job'[j].pc \in {"merge", "push", "clean_remote"} => bare'.feat # NoRef
    PROVE  JobsOK'
<1>1. lock = j /\ daemon = "up"
  BY DEF TypeInv, JobsOK, Held
<1>2. ASSUME NEW k \in Jobs, k # j
      PROVE  job'[k].pc \notin Held /\ lock' # k /\ ~ job'[k].ok
             /\ (job'[k].pc # "none" => daemon = "up")
  BY <1>1, <1>2, DeliveryAssumption DEF TypeInv, JobsOK, Held, Cleans
<1>3. job'[j].pc \in Held \cup {"none", "wait"} /\ job'[j].ok \in BOOLEAN
  BY DEF Job, Steps, Held
<1>4. ASSUME NEW k \in Jobs
      PROVE  /\ job'[k].pc # "none" => goal' \in {"review", "done"} /\ daemon' = "up"
             /\ job'[k].pc \in Held <=> lock' = k
             /\ job'[k].pc \in Cleans => job'[k].ok
             /\ job'[k].ok => job'[k].pc \in Cleans \cup {"done"}
             /\ job'[k].pc \in {"merge", "push", "clean_remote"} => bare'.feat # NoRef
  <2>1. CASE k = j
    <3>1. job'[j].pc \in Held <=> lock' = j
      BY <1>3, DeliveryAssumption DEF Held
    <3>2. QED
      BY <1>1, <2>1, <3>1
  <2>2. CASE k # j
    BY <1>1, <1>2, <2>2 DEF Held, Cleans
  <2>3. QED
    BY <2>1, <2>2
<1>5. QED
  BY <1>4 DEF JobsOK

(* Without deliveries under way, or with all of them as they were.         *)
LEMMA JobsKept ==
    ASSUME JobsOK, UNCHANGED <<job, lock, daemon>>,
           goal \in {"review", "done"} => goal' \in {"review", "done"},
           bare.feat # NoRef /\ lock # NoJob => bare'.feat # NoRef
    PROVE  JobsOK'
<1>1. \A j \in Jobs : lock = j => lock # NoJob
  BY DeliveryAssumption
<1>2. QED
  BY <1>1 DEF JobsOK, Held

LEMMA NoJobsKept ==
    ASSUME JobsOK, UNCHANGED <<job, lock>>, \A j \in Jobs : job[j].pc = "none"
    PROVE  JobsOK'
  BY DEF JobsOK, Held, Cleans

LEMMA RunKept ==
    ASSUME RunOK, UNCHANGED <<owner, workVars>>,
           run.pc # "none" => goal' \in {goal, "active", "cancelled"}
    PROVE  RunOK'
  BY DEF RunOK, Placed, workVars

LEMMA IdleType ==
    /\ Idle \in RunState /\ Idle.pc = "none"
    /\ Judged \in RunState /\ Judged.pc = "judged"
  BY DEF Idle, Judged, RunState, Ref

(* The row ends, and the execution goes on as a stray or is over.          *)
LEMMA RunEnds ==
    ASSUME TypeInv, run' = Idle, UNCHANGED <<unborn, tree, clone>>,
           strays' \subseteq strays \cup ({run} \ {Idle})
    PROVE  RunOK' /\ run' \in RunState /\ strays' \subseteq RunState
<1>1. \A s \in strays' : s \in RunState /\ s.pc # "none" /\ (s.pc # "judged" => Placed(s))
  BY DEF TypeInv, TypeOK, RunOK
<1>2. QED
  BY <1>1, IdleType DEF RunOK, Placed

LEMMA WorkingIs ==
    ASSUME TypeInv, NEW e \in Working
    PROVE  /\ e.pc = "working" /\ e \in RunState /\ Placed(e) /\ e # Idle
           /\ e.id \in Runs /\ e.id \in Commit /\ e.by \in Agents
           /\ MachineOf[e.by] \in Machines
  BY IdleType, OwnerFields DEF Working, TypeInv, TypeOK, RunOK, Placed, Commit

LEMMA CutRunIs ==
    ASSUME TypeInv, CutRun
    PROVE  run' = Idle /\ strays' \subseteq strays \cup ({run} \ {Idle})
  BY DEF CutRun

LEMMA MachineType ==
    ASSUME TypeInv,
           \/ \E r \in Runs : StartRun(r)
           \/ \E e \in Working : Write(e) \/ CommitAndPush(e) \/ ExecutionFails(e)
           \/ StampRun
           \/ \E g \in Guests, a \in Agents : GuestWrites(g, a)
    PROVE  TypeInv'
<1>1. ASSUME NEW r \in Runs, StartRun(r) PROVE TypeInv'
  <2> DEFINE m == MachineOf[owner]
             tip == BranchOf(m)
  <2>1. /\ tip \in Tip
        /\ clone' \in [Machines -> Repo] /\ clone'[m].feat = tip
        /\ \A n \in Machines \ {m} : clone'[n] = clone[n]
        /\ tree' \in [Agents -> (SUBSET Commit) \cup {NoTree}] /\ tree'[owner] # NoTree
        /\ \A a \in Agents \ {owner} : tree'[a] = tree[a]
        /\ run' \in RunState /\ run'.pc = "working" /\ run'.id = r /\ run'.by = owner
        /\ goal = "active"
    BY <1>1, StartEffect
  <2> HIDE DEF tip
  <2>2. UNCHANGED <<goalVars, strays, origin, bare, jobVars, cleaning, procVars, ghosts>>
        /\ unborn' = unborn \ {r} /\ r \in unborn
    BY <1>1 DEF StartRun
  <2>3. TypeOK'
    BY <2>1, <2>2 DEF TypeInv, TypeOK, goalVars, jobVars, procVars, ghosts
  <2>4. ASSUME NEW s \in strays PROVE s.pc # "none" /\ (s.pc # "judged" => Placed(s)')
    BY <2>1, <2>2, TipFields, OwnerFields DEF TypeInv, RunOK, Placed
  <2>5. Placed(run)'
    BY <2>1, <2>2, TipFields, OwnerFields DEF Placed
  <2>6. RunOK'
    BY <2>1, <2>2, <2>4, <2>5 DEF RunOK, goalVars
  <2>7. JobsOK'
    BY <2>2, JobsKept DEF TypeInv, goalVars, jobVars, procVars
  <2>8. QED
    BY <2>3, <2>6, <2>7 DEF TypeInv
<1>2. ASSUME NEW e \in Working, Write(e) PROVE TypeInv'
  <2>1. e.by \in Agents /\ e.id \in Commit /\ tree[e.by] # NoTree
    BY WorkingIs DEF Placed
  <2> DEFINE files == tree[e.by] \cup {e.id}
  <2>2. files \in SUBSET Commit /\ tree' = [tree EXCEPT ![e.by] = files]
    BY <1>2, <2>1, TreeFields DEF Write, TypeInv
  <2> HIDE DEF files
  <2>3. /\ tree' \in [Agents -> (SUBSET Commit) \cup {NoTree}]
        /\ tree'[e.by] = files /\ files # NoTree
        /\ \A a \in Agents \ {e.by} : tree'[a] = tree[a]
    BY <2>1, <2>2, TreeSet DEF TypeInv
  <2>4. /\ UNCHANGED <<goalVars, run, strays, unborn, clone, origin, bare, jobVars>>
        /\ UNCHANGED <<cleaning, procVars, ghosts>>
    BY <1>2 DEF Write
  <2>5. TypeOK'
    BY <2>3, <2>4 DEF TypeInv, TypeOK, goalVars, jobVars, procVars, ghosts
  <2>6. ASSUME NEW x, Placed(x) PROVE Placed(x)'
    BY <2>3, <2>4, <2>6 DEF Placed
  <2>7. RunOK'
    BY <2>4, <2>6 DEF TypeInv, RunOK, goalVars
  <2>8. JobsOK'
    BY <2>4, JobsKept DEF TypeInv, goalVars, jobVars, procVars
  <2>9. QED
    BY <2>5, <2>7, <2>8 DEF TypeInv
<1>3. ASSUME NEW e \in Working, CommitAndPush(e) PROVE TypeInv'
  <2> DEFINE m == MachineOf[e.by]
             tip == TipOf(e)
  <2>1. /\ tip \in Tip /\ m \in Machines
        /\ clone' \in [Machines -> Repo] /\ origin' \in [main : Tip, feat : Ref]
        /\ \A n \in Machines \ {m} : clone'[n] = clone[n]
        /\ clone' = clone \/ clone'[m].feat = tip
        /\ strays' = strays \ {e}
        /\ \/ e # run /\ run' = run
           \/ /\ e = run /\ run' \in RunState /\ run'.pc = "reported"
              /\ run'.by = run.by /\ run'.id = run.id
        /\ e.pc = "working"
    BY <1>3, CommitEffect
  <2> HIDE DEF m, tip
  <2>2. /\ UNCHANGED <<goalVars, unborn, tree, bare, jobVars, cleaning, procVars, ghosts>>
    BY <1>3 DEF CommitAndPush
  <2>3. TypeOK'
    BY <2>1, <2>2 DEF TypeInv, TypeOK, goalVars, jobVars, procVars, ghosts
  <2>4. ASSUME NEW x, Placed(x) PROVE Placed(x)'
    <3>1. MachineOf[x.by] \in Machines
      BY <2>4, OwnerFields DEF Placed
    <3>2. clone'[MachineOf[x.by]].feat # NoRef
      BY <2>1, <2>4, <3>1, TipFields DEF Placed
    <3>3. QED
      BY <2>2, <2>4, <3>2 DEF Placed
  <2>5. run'.pc # "none" => run.pc # "none" /\ run'.by = run.by /\ run'.id = run.id
    BY <2>1
  <2>6. run'.pc # "none" => Placed(run)'
    <3>1. CASE run' = run
      BY <2>4, <3>1 DEF TypeInv, RunOK
    <3>2. CASE run' # run
      <4>1. Placed(run)
        BY <2>1, <3>2 DEF TypeInv, RunOK
      <4>2. run'.by = run.by /\ run'.id = run.id
        BY <2>1, <3>2
      <4>3. /\ run.id \in Runs \ unborn' /\ run.by \in Agents
            /\ tree'[run.by] # NoTree /\ clone'[MachineOf[run.by]].feat # NoRef
        BY <2>4, <4>1 DEF Placed
      <4>4. QED
        BY <4>2, <4>3 DEF Placed
    <3>3. QED
      BY <3>1, <3>2
  <2>7. run'.pc = "none" => run' = Idle
    BY <2>1 DEF TypeInv, RunOK
  <2>8. RunOK'
    <3>1. \A s \in strays' : s.pc # "none" /\ (s.pc # "judged" => Placed(s)')
      BY <2>1, <2>4 DEF TypeInv, RunOK
    <3>2. run'.pc # "none" => goal' \in {"active", "cancelled"} /\ run'.by = owner'
      BY <2>2, <2>5 DEF TypeInv, RunOK, goalVars
    <3>3. QED
      BY <2>6, <2>7, <3>1, <3>2 DEF RunOK
  <2>9. JobsOK'
    BY <2>2, JobsKept DEF TypeInv, goalVars, jobVars, procVars
  <2>10. QED
    BY <2>3, <2>8, <2>9 DEF TypeInv
<1>4. ASSUME (\E e \in Working : ExecutionFails(e)) \/ StampRun PROVE TypeInv'
  <2>1. /\ UNCHANGED <<goalVars, unborn, tree, clone, origin, bare, jobVars>>
        /\ UNCHANGED <<cleaning, procVars, ghosts>>
    BY <1>4 DEF ExecutionFails, StampRun
  <2>2. run' \in {run, Idle} /\ strays' \subseteq strays \cup ({run} \ {Idle})
    BY <1>4, CutRunIs DEF ExecutionFails, StampRun
  <2>3. run' = run => strays' \subseteq strays
    BY <1>4 DEF ExecutionFails, StampRun, CutRun
  <2>4. RunOK' /\ run' \in RunState /\ strays' \subseteq RunState
    <3>1. CASE run' = Idle
      BY <2>1, <2>2, <3>1, RunEnds
    <3>2. CASE run' = run
      BY <2>1, <2>3, <3>2 DEF TypeInv, TypeOK, RunOK, Placed, goalVars
    <3>3. QED
      BY <2>2, <3>1, <3>2
  <2>5. TypeOK'
    BY <2>1, <2>4 DEF TypeInv, TypeOK, goalVars, jobVars, procVars, ghosts
  <2>6. JobsOK'
    BY <2>1, JobsKept DEF TypeInv, goalVars, jobVars, procVars
  <2>7. QED
    BY <2>4, <2>5, <2>6 DEF TypeInv
<1>5. ASSUME NEW g \in Guests, NEW a \in Agents, GuestWrites(g, a) PROVE TypeInv'
  <2> DEFINE m == MachineOf[a]
             old == BranchOf(m)
             tip == GuestTip(g, a)
  <2>1. /\ m \in Machines /\ tip \in Tip
        /\ clone' \in [Machines -> Repo] /\ origin' \in [main : Tip, feat : Ref]
        /\ \A n \in Machines \ {m} : clone'[n] = clone[n]
        /\ clone'[m].feat = tip
    BY <1>5, GuestEffect
  <2> HIDE DEF old, tip
  <2>2. UNCHANGED <<goalVars, run, strays, tree, bare, jobVars, cleaning, procVars, ghosts>>
        /\ unborn' = unborn \ {g} /\ g \notin Runs
    BY <1>5, DeliveryAssumption DEF GuestWrites
  <2>3. TypeOK'
    BY <2>1, <2>2 DEF TypeInv, TypeOK, goalVars, jobVars, procVars, ghosts
  <2>4. \A n \in Machines : clone[n].feat # NoRef => clone'[n].feat # NoRef
    BY <2>1, TipFields
  <2>5. RunOK'
    <3>1. ASSUME NEW x, Placed(x) PROVE Placed(x)'
      BY <2>2, <2>4, <3>1, OwnerFields DEF Placed
    <3>2. QED
      BY <2>2, <3>1 DEF TypeInv, RunOK, goalVars
  <2>6. JobsOK'
    BY <2>2, JobsKept DEF TypeInv, goalVars, jobVars, procVars
  <2>7. QED
    BY <2>3, <2>5, <2>6 DEF TypeInv
<1>6. QED
  BY <1>1, <1>2, <1>3, <1>4, <1>5

LEMMA HumanType ==
    ASSUME TypeInv,
           \/ Judge \/ Reject \/ Cancel \/ Reopen \/ CleanCancelled
           \/ \E s \in strays : JudgeStray(s)
           \/ \E j \in Jobs : Approve(j)
           \/ \E a \in Agents : Handoff(a)
           \/ \E o \in Others : OtherDelivers(o)
    PROVE  TypeInv'
<1>1. ASSUME Judge PROVE TypeInv'
  <2>1. /\ run.pc = "reported" /\ goal \in {"active", "cancelled"} /\ run' = Idle
        /\ UNCHANGED <<strays, unborn, tree, clone, origin, jobVars, cleaning, procVars>>
        /\ bare' = bare \/ (lock = NoJob /\ bare' = Adopted(run.sha))
        /\ goal' \in {goal, "review"} /\ {note', approved'} \subseteq BOOLEAN
        /\ owner' = owner /\ closed' = closed
        /\ shown' \in {shown, bare'.feat}
    BY <1>1 DEF Judge, Unlocked, Park, TypeInv, TypeOK, RunOK, goalVars, ghosts
  <2>2. bare' \in Repo /\ run.tip \in Ref
    BY <2>1, AdoptedIs DEF TypeInv, TypeOK, RunState
  <2>3. shown' \in Ref /\ goal' \in {"active", "review", "cancelled"}
    BY <2>1, <2>2, RepoFields DEF TypeInv, TypeOK
  <2>4. RunOK' /\ run' \in RunState /\ strays' \subseteq RunState
    BY <2>1, RunEnds
  <2>5. TypeOK'
    BY <2>1, <2>2, <2>3, <2>4 DEF TypeInv, TypeOK, jobVars, procVars
  <2>6. JobsOK'
    BY <2>1, JobsKept DEF TypeInv, jobVars, procVars
  <2>7. QED
    BY <2>4, <2>5, <2>6 DEF TypeInv
<1>2. ASSUME Reject PROVE TypeInv'
  <2>1. /\ UNCHANGED <<owner, workVars, origin, bare, jobVars, cleaning, procVars, ghosts>>
        /\ goal = "review" /\ goal' = "active" /\ note' = FALSE /\ approved' = FALSE
        /\ \A j \in Jobs : job[j].pc = "none"
    BY <1>2 DEF Reject
  <2>2. TypeOK'
    BY <2>1 DEF TypeInv, TypeOK, workVars, jobVars, procVars, ghosts
  <2>3. RunOK'
    BY <2>1, RunKept DEF TypeInv, RunOK
  <2>4. JobsOK'
    BY <2>1, NoJobsKept DEF TypeInv, jobVars
  <2>5. QED
    BY <2>2, <2>3, <2>4 DEF TypeInv
<1>3. ASSUME Cancel PROVE TypeInv'
  <2>1. /\ UNCHANGED <<note, approved, owner, workVars, origin, bare>>
        /\ UNCHANGED <<jobVars, procVars, ghosts>>
        /\ goal' = "cancelled" /\ cleaning' = TRUE
        /\ \A j \in Jobs : job[j].pc = "none"
    BY <1>3 DEF Cancel
  <2>2. TypeOK'
    BY <2>1 DEF TypeInv, TypeOK, workVars, jobVars, procVars, ghosts
  <2>3. RunOK'
    BY <2>1, RunKept DEF TypeInv
  <2>4. JobsOK'
    BY <2>1, NoJobsKept DEF TypeInv, jobVars
  <2>5. QED
    BY <2>2, <2>3, <2>4 DEF TypeInv
<1>4. ASSUME Reopen PROVE TypeInv'
  <2>1. /\ UNCHANGED <<owner, workVars, origin, bare, jobVars, cleaning, procVars, shown>>
        /\ goal \in {"done", "cancelled"}
        /\ goal = "done" => \A j \in Jobs : job[j].pc = "none"
        /\ goal' = "active" /\ note' = FALSE /\ approved' = FALSE /\ closed' = FALSE
    BY <1>4 DEF Reopen
  <2>2. TypeOK'
    BY <2>1 DEF TypeInv, TypeOK, workVars, jobVars, procVars
  <2>3. RunOK'
    BY <2>1, RunKept DEF TypeInv, RunOK
  <2>4. \A j \in Jobs : job[j].pc = "none"
    BY <2>1 DEF TypeInv, JobsOK
  <2>5. JobsOK'
    BY <2>1, <2>4, NoJobsKept DEF TypeInv, jobVars
  <2>6. QED
    BY <2>2, <2>3, <2>5 DEF TypeInv
<1>5. ASSUME CleanCancelled PROVE TypeInv'
  <2>1. /\ UNCHANGED <<goalVars, workVars, jobVars, procVars, ghosts>>
        /\ cleaning' = FALSE /\ lock = NoJob
    BY <1>5 DEF CleanCancelled, Unlocked
  <2>2. bare' \in Repo /\ origin' \in [main : Tip, feat : Ref]
    BY <1>5, CleanCancelledEffect
  <2>3. TypeOK'
    BY <2>1, <2>2 DEF TypeInv, TypeOK, goalVars, workVars, jobVars, procVars, ghosts
  <2>4. RunOK' /\ JobsOK'
    BY <2>1, RunKept, JobsKept DEF TypeInv, goalVars, jobVars, procVars
  <2>5. QED
    BY <2>3, <2>4 DEF TypeInv
<1>6. ASSUME NEW j \in Jobs, Approve(j) PROVE TypeInv'
  <2>1. /\ UNCHANGED <<goal, note, owner, workVars, origin, bare, room, lock>>
        /\ UNCHANGED <<cleaning, procVars, ghosts>>
        /\ approved' = TRUE /\ goal = "review" /\ daemon = "up" /\ job[j].pc = "none"
        /\ job' = [job EXCEPT ![j] = [pc |-> "wait", ok |-> FALSE]]
    BY <1>6 DEF Approve
  <2>2. /\ job' \in [Jobs -> Job] /\ job'[j].pc = "wait" /\ job'[j].ok = FALSE
        /\ \A k \in Jobs \ {j} : job'[k] = job[k]
    BY <2>1 DEF TypeInv, TypeOK, Job, Steps
  <2>3. TypeOK'
    BY <2>1, <2>2 DEF TypeInv, TypeOK, workVars, procVars, ghosts
  <2>4. JobsOK'
    BY <2>1, <2>2 DEF TypeInv, JobsOK, Held, Cleans, procVars
  <2>5. RunOK'
    BY <2>1, RunKept DEF TypeInv
  <2>6. QED
    BY <2>3, <2>4, <2>5 DEF TypeInv
<1>7. ASSUME NEW a \in Agents, Handoff(a) PROVE TypeInv'
  <2>1. /\ UNCHANGED <<goal, note, approved, unborn, tree, clone, origin, bare, jobVars>>
        /\ UNCHANGED <<cleaning, procVars, ghosts>> /\ owner' = a /\ CutRun
    BY <1>7 DEF Handoff
  <2>2. RunOK' /\ run' \in RunState /\ strays' \subseteq RunState
    BY <2>1, CutRunIs, RunEnds
  <2>3. TypeOK'
    BY <2>1, <2>2 DEF TypeInv, TypeOK, jobVars, procVars, ghosts
  <2>4. JobsOK'
    BY <2>1, JobsKept DEF TypeInv, jobVars, procVars
  <2>5. QED
    BY <2>2, <2>3, <2>4 DEF TypeInv
<1>8. ASSUME NEW o \in Others, OtherDelivers(o) PROVE TypeInv'
  <2>1. /\ UNCHANGED <<goalVars, workVars, bare, jobVars, cleaning, procVars, ghosts>>
        /\ origin' \in [main : Tip, feat : Ref]
    BY <1>8, OtherEffect DEF OtherDelivers
  <2>2. TypeOK'
    BY <2>1 DEF TypeInv, TypeOK, goalVars, workVars, jobVars, procVars, ghosts
  <2>3. RunOK' /\ JobsOK'
    BY <2>1, RunKept, JobsKept DEF TypeInv, goalVars, jobVars, procVars
  <2>4. QED
    BY <2>2, <2>3 DEF TypeInv
<1>9. ASSUME NEW s \in strays, JudgeStray(s) PROVE TypeInv'
  <2>1. /\ UNCHANGED <<goalVars, run, unborn, tree, clone, origin, jobVars>>
        /\ UNCHANGED <<cleaning, procVars, ghosts>>
        /\ strays' \subseteq strays \cup {Judged}
        /\ bare' = bare \/ (lock = NoJob /\ bare' = Adopted(s.sha))
    BY <1>9 DEF JudgeStray, Unlocked
  <2>2. bare' \in Repo
    BY <2>1, AdoptedIs DEF TypeInv, TypeOK
  <2>3. TypeOK'
    BY <2>1, <2>2, IdleType DEF TypeInv, TypeOK, goalVars, jobVars, procVars, ghosts
  <2>4. RunOK'
    BY <2>1, IdleType DEF TypeInv, RunOK, Placed, goalVars
  <2>5. JobsOK'
    BY <2>1, JobsKept DEF TypeInv, goalVars, jobVars, procVars
  <2>6. QED
    BY <2>3, <2>4, <2>5 DEF TypeInv
<1>10. QED
  BY <1>1, <1>2, <1>3, <1>4, <1>5, <1>6, <1>7, <1>8, <1>9

(* What a step of a delivery does to the jobs.                             *)
LEMMA GotoIs ==
    ASSUME TypeInv, NEW j \in Jobs, NEW pc \in Steps, Goto(j, pc)
    PROVE  /\ job' \in [Jobs -> Job] /\ job'[j].pc = pc /\ job'[j].ok = job[j].ok
           /\ \A k \in Jobs \ {j} : job'[k] = job[k]
  BY DEF TypeInv, TypeOK, Job, Goto

LEMMA SucceedIs ==
    ASSUME TypeInv, NEW j \in Jobs, NEW pc \in Steps, Succeed(j, pc)
    PROVE  /\ job' \in [Jobs -> Job] /\ job'[j].pc = pc /\ job'[j].ok = TRUE
           /\ \A k \in Jobs \ {j} : job'[k] = job[k]
  BY DEF TypeInv, TypeOK, Job, Succeed

(* Where a delivery goes from where it is, and what it leaves alone.       *)
LEMMA DeliverSteps ==
    ASSUME TypeInv, NEW j \in Jobs, Deliver(j)
    PROVE  /\ daemon = "up" /\ goal \in {"review", "done"}
           /\ job' \in [Jobs -> Job] /\ \A k \in Jobs \ {j} : job'[k] = job[k]
           /\ UNCHANGED <<approved, owner, workVars, cleaning, procVars, shown>>
           /\ \/ /\ TakeLock(j) /\ job[j].pc = "wait" /\ job'[j].pc = "fetch" /\ ~ job'[j].ok
                 /\ lock = NoJob /\ lock' = j /\ origin' = origin /\ bare' = bare
              \/ /\ Fetch(j) /\ job[j].pc = "fetch" /\ job'[j].pc \in {"resolve", "done"}
                 /\ ~ job'[j].ok /\ lock' = lock /\ origin' = origin
                 /\ \/ bare' = Fetched(bare)
                    \/ bare' = bare /\ job'[j].pc = "done"
              \/ /\ Resolve(j) /\ job[j].pc = "resolve" /\ lock' = lock /\ origin' = origin
                 /\ \/ Deliverable = NoRef /\ job'[j].pc = "done" /\ ~ job'[j].ok
                    \/ /\ Deliverable # NoRef /\ IsAncestor(Deliverable, bare.main)
                       /\ job'[j].pc = "clean_remote" /\ job'[j].ok
                    \/ /\ Deliverable # NoRef /\ job'[j].pc = "merge" /\ ~ job'[j].ok
              \/ /\ Merge(j) /\ job[j].pc = "merge" /\ job'[j].pc \in {"push", "done"}
                 /\ ~ job'[j].ok /\ lock' = lock /\ origin' = origin /\ bare' = bare
              \/ /\ Push(j) /\ job[j].pc = "push" /\ lock' = lock
                 /\ \/ job'[j].pc = "clean_remote" /\ job'[j].ok
                    \/ job'[j].pc = "done" /\ ~ job'[j].ok
              \/ /\ CleanRemote(j) /\ job[j].pc = "clean_remote" /\ lock' = lock
                 /\ job'[j].pc = "clean_local" /\ job'[j].ok
              \/ /\ CleanLocal(j) /\ job[j].pc = "clean_local" /\ lock' = lock
                 /\ job'[j].pc = "done" /\ job'[j].ok /\ origin' = origin
              \/ /\ FinishDeliver(j) /\ job[j].pc = "done" /\ job'[j].pc = "none"
                 /\ ~ job'[j].ok /\ lock' = NoJob /\ origin' = origin /\ bare' = bare
           /\ goal' # goal => FinishDeliver(j)
           /\ room' \in {"none", "dir"}
<1>1. /\ job[j] \in Job /\ job[j].ok \in BOOLEAN /\ room \in {"none", "dir"}
      /\ job[j].ok => job[j].pc \in Cleans \cup {"done"}
      /\ job[j].pc \in Cleans => job[j].ok
      /\ job[j].pc # "none" => goal \in {"review", "done"} /\ daemon = "up"
  BY JobFields DEF TypeInv, JobsOK, TypeOK
<1>2. {"fetch", "resolve", "merge", "push", "clean_remote", "clean_local", "done", "none"}
        \subseteq Steps
  BY DEF Steps
<1>3. CASE TakeLock(j)
  BY <1>1, <1>2, <1>3, GotoIs DEF TakeLock, At, outside, goalVars, ghosts, Cleans
<1>4. CASE Fetch(j)
  BY <1>1, <1>2, <1>4, GotoIs DEF Fetch, At, outside, goalVars, ghosts, Cleans
<1>5. CASE Resolve(j)
  BY <1>1, <1>2, <1>5, GotoIs, SucceedIs DEF Resolve, At, outside, goalVars, ghosts, Cleans
<1>6. CASE Merge(j)
  BY <1>1, <1>2, <1>6, GotoIs DEF Merge, At, outside, goalVars, ghosts, Cleans
<1>7. CASE Push(j)
  BY <1>1, <1>2, <1>7, GotoIs, SucceedIs DEF Push, At, outside, goalVars, ghosts, Cleans
<1>8. CASE CleanRemote(j)
  BY <1>1, <1>2, <1>8, GotoIs DEF CleanRemote, At, outside, goalVars, ghosts, Cleans
<1>9. CASE CleanLocal(j)
  BY <1>1, <1>2, <1>9, GotoIs DEF CleanLocal, At, outside, goalVars, ghosts, Cleans
<1>10. CASE FinishDeliver(j)
  <2>1. /\ job' \in [Jobs -> Job] /\ job'[j].pc = "none" /\ job'[j].ok = FALSE
        /\ \A k \in Jobs \ {j} : job'[k] = job[k]
    BY <1>10 DEF FinishDeliver, TypeInv, TypeOK, Job, Steps
  <2>2. QED
    BY <1>1, <1>10, <2>1 DEF FinishDeliver, At
<1>11. QED
  BY <1>3, <1>4, <1>5, <1>6, <1>7, <1>8, <1>9, <1>10 DEF Deliver

LEMMA DeliverType ==
    ASSUME TypeInv, NEW j \in Jobs, Deliver(j)
    PROVE  TypeInv'
<1>1. /\ daemon = "up" /\ goal \in {"review", "done"}
      /\ job' \in [Jobs -> Job] /\ \A k \in Jobs \ {j} : job'[k] = job[k]
      /\ UNCHANGED <<approved, owner, workVars, cleaning, procVars, shown>>
      /\ room' \in {"none", "dir"}
  BY DeliverSteps
<1>2. /\ goal' \in {"review", "done"} /\ note' \in BOOLEAN /\ closed' \in BOOLEAN
  <2>1. CASE FinishDeliver(j)
    BY <1>1, <2>1 DEF FinishDeliver, TypeInv, TypeOK
  <2>2. CASE ~ FinishDeliver(j)
    <3>1. UNCHANGED <<goal, note, closed>>
      BY <2>2 DEF Deliver, TakeLock, Fetch, Resolve, Merge, Push, CleanRemote, CleanLocal,
                  outside, goalVars, ghosts
    <3>2. QED
      BY <1>1, <3>1 DEF TypeInv, TypeOK
  <2>3. QED
    BY <2>1, <2>2
<1>3. bare' \in Repo /\ origin' \in [main : Tip, feat : Ref]
  <2>1. bare \in Repo /\ origin \in [main : Tip, feat : Ref] /\ Fetched(bare) \in Repo
    BY FetchedIs DEF TypeInv, TypeOK
  <2>2. ASSUME Resolve(j) PROVE bare' \in Repo
    BY <2>2, ResolveEffect
  <2>3. ASSUME Push(j) PROVE bare' \in Repo /\ origin' \in [main : Tip, feat : Ref]
    BY <2>3, PushEffect
  <2>4. ASSUME CleanRemote(j) PROVE bare' \in Repo /\ origin' \in [main : Tip, feat : Ref]
    BY <2>4, CleanRemoteEffect
  <2>5. ASSUME CleanLocal(j) PROVE bare' \in Repo
    BY <2>5, CleanLocalEffect
  <2>6. QED
    BY <2>1, <2>2, <2>3, <2>4, <2>5, DeliverSteps
<1>4. lock' \in Jobs \cup {NoJob}
  BY DeliverSteps DEF TypeInv, TypeOK
<1>5. TypeOK'
  <2>1. {note', approved', cleaning', closed'} \subseteq BOOLEAN
    BY <1>1, <1>2 DEF TypeInv, TypeOK
  <2>2. /\ owner' \in Agents /\ run' \in RunState /\ strays' \subseteq RunState
        /\ unborn' \subseteq Runs \cup Guests
        /\ tree' \in [Agents -> (SUBSET Commit) \cup {NoTree}]
        /\ clone' \in [Machines -> Repo] /\ shown' \in Ref
        /\ daemon' \in {"up", "down"} /\ crashes' \in 0..MaxCrashes
    BY <1>1 DEF TypeInv, TypeOK, workVars, procVars
  <2>3. QED
    BY <1>1, <1>2, <1>3, <1>4, <2>1, <2>2 DEF TypeOK
<1>6. RunOK'
  <2>1. run.pc = "none"
    BY <1>1 DEF TypeInv, RunOK
  <2>2. QED
    BY <1>1, <2>1, RunKept DEF TypeInv
<1>7. JobsOK'
  <2>1. CASE TakeLock(j)
    <3>1. /\ job'[j].pc = "fetch" /\ ~ job'[j].ok /\ lock = NoJob /\ lock' = j
          /\ bare' = bare /\ goal' = goal
      BY <2>1 DEF TakeLock, outside, goalVars, Goto, TypeInv, TypeOK, JobsOK, Job, Cleans, At
    <3>2. \A k \in Jobs : job[k].pc \notin Held
      BY <3>1, DeliveryAssumption DEF TypeInv, JobsOK
    <3>3. QED
      BY <1>1, <3>1, <3>2 DEF TypeInv, JobsOK, Held, Cleans, procVars
  <2>2. CASE ~ TakeLock(j)
    <3>1. /\ job[j].pc \in Held
          /\ job'[j].pc \in Held \cup {"none"}
          /\ lock' = IF job'[j].pc = "none" THEN NoJob ELSE lock
          /\ job'[j].pc \in Cleans => job'[j].ok
          /\ job'[j].ok => job'[j].pc \in Cleans \cup {"done"}
      BY <2>2, DeliverSteps DEF Held, Cleans
    <3>2. job'[j].pc \in {"merge", "push", "clean_remote"} => bare'.feat # NoRef
      <4>1. ASSUME Resolve(j) PROVE bare'.feat = Deliverable
        BY <4>1, ResolveEffect
      <4>2. ASSUME Push(j) PROVE bare'.feat = bare.feat
        BY <4>2, PushEffect
      <4>3. job[j].pc \in {"merge", "push"} => bare.feat # NoRef
        BY DEF TypeInv, JobsOK
      <4>4. QED
        BY <2>2, <4>1, <4>2, <4>3, DeliverSteps
    <3>3. lock = j
      BY <3>1 DEF TypeInv, JobsOK
    <3>4. /\ daemon' = daemon /\ lock' \in {j, NoJob}
          /\ job'[j].pc \in Held => lock' = j
          /\ job'[j].pc \in {"none", "wait"} => lock' = NoJob
      BY <1>1, <3>1, <3>3 DEF Held, procVars
    <3>5. QED
      BY <1>1, <1>2, <3>1, <3>2, <3>4, HolderStep
  <2>3. QED
    BY <2>1, <2>2
<1>8. QED
  BY <1>5, <1>6, <1>7 DEF TypeInv

LEMMA ProcessType ==
    ASSUME TypeInv, Crash \/ Restart
    PROVE  TypeInv'
<1>1. ASSUME Crash PROVE TypeInv'
  <2>1. /\ daemon' = "down" /\ crashes' = crashes + 1 /\ crashes < MaxCrashes
        /\ job' = [j \in Jobs |-> [pc |-> "none", ok |-> FALSE]]
        /\ lock' = NoJob /\ cleaning' = FALSE
        /\ UNCHANGED <<goalVars, unborn, tree, clone, origin, bare, room, ghosts>>
    BY <1>1 DEF Crash
  <2>2. RunOK' /\ run' \in RunState /\ strays' \subseteq RunState
    <3>1. run' = Idle /\ strays' \subseteq strays \cup ({run} \ {Idle})
      BY <1>1, IdleType DEF Crash
    <3>2. QED
      BY <2>1, <3>1, RunEnds
  <2>3. crashes' \in 0..MaxCrashes
    BY <2>1, DeliveryAssumption DEF TypeInv, TypeOK
  <2>4. job' \in [Jobs -> Job] /\ \A j \in Jobs : job'[j].pc = "none" /\ ~ job'[j].ok
    BY <2>1 DEF Job, Steps
  <2>5. TypeOK'
    BY <2>1, <2>2, <2>3, <2>4 DEF TypeInv, TypeOK, goalVars, ghosts
  <2>6. JobsOK'
    BY <2>1, <2>4, DeliveryAssumption DEF JobsOK, Held, Cleans
  <2>7. QED
    BY <2>2, <2>5, <2>6 DEF TypeInv
<1>2. ASSUME Restart PROVE TypeInv'
  <2>1. /\ daemon = "down" /\ daemon' = "up" /\ room' = "none"
        /\ UNCHANGED <<goalVars, workVars, origin, bare, lock, cleaning, crashes, ghosts>>
    BY <1>2 DEF Restart, Sweep
  <2>2. PICK j \in Jobs :
          job' = [job EXCEPT ![j].pc = IF RecoverPendingDelivers(j) THEN "wait" ELSE "none"]
    BY <1>2 DEF Restart
  <2> DEFINE pc == IF RecoverPendingDelivers(j) THEN "wait" ELSE "none"
  <2>3. pc \in {"wait", "none"} /\ (pc = "wait" => goal = "review")
    BY DEF RecoverPendingDelivers
  <2>4. job' = [job EXCEPT ![j].pc = pc]
    BY <2>2
  <2> HIDE DEF pc
  <2>5. /\ job' \in [Jobs -> Job] /\ job'[j].pc = pc /\ job'[j].ok = job[j].ok
        /\ \A k \in Jobs \ {j} : job'[k] = job[k]
    BY <2>3, <2>4 DEF TypeInv, TypeOK, Job, Steps
  <2>6. /\ \A k \in Jobs : job[k].pc = "none" /\ ~ job[k].ok /\ lock # k
    BY <2>1 DEF TypeInv, JobsOK, Held, Cleans
  <2>7. JobsOK'
    BY <2>1, <2>3, <2>5, <2>6 DEF JobsOK, Held, Cleans, goalVars
  <2>8. TypeOK'
    BY <2>1, <2>5 DEF TypeInv, TypeOK, goalVars, workVars, ghosts
  <2>9. RunOK'
    BY <2>1, RunKept DEF TypeInv, goalVars
  <2>10. QED
    BY <2>7, <2>8, <2>9 DEF TypeInv
<1>3. QED
  BY <1>1, <1>2

LEMMA NextType == TypeInv /\ [Next]_vars => TypeInv'
<1> SUFFICES ASSUME TypeInv, [Next]_vars PROVE TypeInv'
  OBVIOUS
<1>1. CASE UNCHANGED vars
  <2>1. TypeOK' /\ RunOK'
    BY <1>1 DEF TypeInv, TypeOK, RunOK, Placed, vars, goalVars, workVars, jobVars, procVars, ghosts
  <2>2. JobsOK'
    BY <1>1 DEF TypeInv, JobsOK, vars, goalVars, jobVars, procVars
  <2>3. QED
    BY <2>1, <2>2 DEF TypeInv
<1>2. CASE Next
  BY <1>2, MachineType, HumanType, DeliverType, ProcessType DEF Next
<1>3. QED
  BY <1>1, <1>2

(* Types: whatever machines, humans, deliveries and crashes do, every ref  *)
(* is a tip or nothing; in particular a push always has a branch to merge  *)
(* and a run a worktree to commit.                                         *)
THEOREM TypeCorrect == Spec => []TypeOK
<1>1. TypeInv => TypeOK
  BY DEF TypeInv
<1>2. QED
  BY <1>1, InitType, NextType, PTL DEF Spec

----------------------------------------------------------------------------
(* NothingUndone: the owner's worktree holds all of its branch's work,     *)
(* because an agent who takes the goal over gets a worktree made from the  *)
(* branch, one who had it before does not get it back, and nobody else     *)
(* commits to the branch what is not in that worktree.                     *)

(* An agent that has lost the goal commits what its execution left.        *)
FormerOwnerCommits == \E e \in strays : e.by # owner /\ CommitAndPush(e)

Clean(t) == t # NoRef => t.undone \cap Runs = {}
CleanRepo(repo) == Clean(repo.main) /\ Clean(repo.seen) /\ Clean(repo.feat)

TreeHasBranch ==
    tree[owner] # NoTree =>
        /\ clone[MachineOf[owner]].feat # NoRef
        /\ Work(clone[MachineOf[owner]].feat) \subseteq tree[owner]

UndoneInv ==
    /\ Clean(origin.main) /\ Clean(origin.feat)
    /\ CleanRepo(bare)
    /\ \A m \in Machines : CleanRepo(clone[m])
    /\ TreeHasBranch

LEMMA UndoneInit == Init => UndoneInv
<1>1. Clean(Root) /\ Clean(NoRef)
  BY DEF Clean, Root
<1>2. QED
  BY <1>1 DEF Init, UndoneInv, TreeHasBranch, CleanRepo, Fresh

LEMMA UndoneMachine ==
    ASSUME TypeInv, UndoneInv,
           \/ \E r \in Runs : StartRun(r)
           \/ \E e \in Working : Write(e) \/ CommitAndPush(e) \/ ExecutionFails(e)
           \/ StampRun
           \/ \E g \in Guests, a \in Agents : GuestWrites(g, a),
           ~ FormerOwnerCommits
    PROVE  UndoneInv'
<1>0. /\ Clean(origin.main) /\ Clean(origin.feat) /\ CleanRepo(bare) /\ TreeHasBranch
      /\ \A m \in Machines : CleanRepo(clone[m])
      /\ owner \in Agents /\ MachineOf[owner] \in Machines
  BY OwnerFields DEF UndoneInv
<1>1. ASSUME NEW r \in Runs, StartRun(r) PROVE UndoneInv'
  <2> DEFINE m == MachineOf[owner]
             tip == BranchOf(m)
  <2>1. /\ tip \in Tip
        /\ clone'[m].main = origin.main /\ clone'[m].feat = tip
        /\ clone'[m].seen = IF origin.feat = NoRef THEN clone[m].seen ELSE origin.feat
        /\ \A n \in Machines \ {m} : clone'[n] = clone[n]
        /\ tree'[owner] = IF tree[owner] = NoTree THEN Files(tip) ELSE tree[owner]
    BY <1>1, StartEffect
  <2>2. Clean(tip)
    BY <1>0 DEF CleanRepo, BranchOf
  <2>3. tree[owner] # NoTree => tip = clone[m].feat
    BY <1>0 DEF TreeHasBranch, BranchOf
  <2> HIDE DEF tip
  <2>4. UNCHANGED <<owner, origin, bare>>
    BY <1>1 DEF StartRun, goalVars
  <2>5. CleanRepo(clone'[m])
    BY <1>0, <2>1, <2>2 DEF CleanRepo
  <2>6. tip # NoRef
    BY <2>1, TipFields
  <2>7. TreeHasBranch'
    BY <1>0, <2>1, <2>3, <2>4, <2>6 DEF TreeHasBranch, Work
  <2>8. \A n \in Machines : CleanRepo(clone'[n])
    BY <1>0, <2>1, <2>5
  <2>9. QED
    BY <1>0, <2>4, <2>7, <2>8 DEF UndoneInv
<1>2. ASSUME NEW e \in Working, Write(e) PROVE UndoneInv'
  <2>1. UNCHANGED <<owner, clone, origin, bare>>
    BY <1>2 DEF Write, goalVars
  <2>2. tree' = [tree EXCEPT ![e.by] = @ \cup {e.id}] /\ e.by \in Agents /\ tree[e.by] # NoTree
    BY <1>2, WorkingIs DEF Write, Placed
  <2>3. tree'[owner] # NoTree => tree[owner] # NoTree /\ tree[owner] \subseteq tree'[owner]
    BY <1>0, <2>2 DEF TypeInv, TypeOK
  <2>4. TreeHasBranch'
    BY <1>0, <2>1, <2>3 DEF TreeHasBranch
  <2>5. QED
    BY <1>0, <2>1, <2>4 DEF UndoneInv
<1>3. ASSUME NEW e \in Working, CommitAndPush(e) PROVE UndoneInv'
  <2> DEFINE m == MachineOf[e.by]
             tip == TipOf(e)
  <2>0. e.by = owner
    BY <1>3, WorkingIs DEF FormerOwnerCommits, Working, TypeInv, RunOK
  <2>1. /\ tip \in Tip /\ Files(tip) = tree[owner] /\ clone[m].feat \in Tip
        /\ tip.undone \subseteq clone[m].feat.undone \cup (Files(clone[m].feat) \ tree[owner])
        /\ \A n \in Machines \ {m} : clone'[n] = clone[n]
        /\ clone'[m].main = clone[m].main /\ origin'.main = origin.main
        /\ origin' = origin \/ origin'.feat = tip
        /\ clone' = clone \/ (clone'[m].feat = tip /\ clone'[m].seen \in {clone[m].seen, tip})
        /\ tree[owner] # NoTree /\ m = MachineOf[owner] /\ m \in Machines
    BY <1>3, <2>0, CommitEffect DEF Placed
  <2> HIDE DEF m, tip
  <2>2. UNCHANGED <<owner, tree, bare>>
    BY <1>3 DEF CommitAndPush, goalVars
  <2>3. Work(clone[m].feat) \subseteq tree[owner]
    BY <1>0, <2>1 DEF TreeHasBranch
  <2>4. Clean(tip)
    BY <1>0, <2>1, <2>3, TipFields DEF CleanRepo, Clean, Work
  <2>5. CleanRepo(clone'[m])
    BY <1>0, <2>1, <2>4 DEF CleanRepo
  <2>6. TreeHasBranch'
    BY <1>0, <2>1, <2>2, TipFields DEF TreeHasBranch, Work
  <2>7. \A n \in Machines : CleanRepo(clone'[n])
    BY <1>0, <2>1, <2>5
  <2>8. Clean(origin'.main) /\ Clean(origin'.feat)
    BY <1>0, <2>1, <2>4
  <2>9. QED
    BY <1>0, <2>2, <2>6, <2>7, <2>8 DEF UndoneInv
<1>4. ASSUME (\E e \in Working : ExecutionFails(e)) \/ StampRun PROVE UndoneInv'
  <2>1. UNCHANGED <<owner, tree, clone, origin, bare>>
    BY <1>4 DEF ExecutionFails, StampRun, goalVars
  <2>2. QED
    BY <1>0, <2>1 DEF UndoneInv, TreeHasBranch
<1>5. ASSUME NEW g \in Guests, NEW a \in Agents, GuestWrites(g, a) PROVE UndoneInv'
  <2> DEFINE m == MachineOf[a]
             old == BranchOf(m)
             tip == GuestTip(g, a)
  <2>1. /\ m \in Machines /\ old \in Tip /\ tip \in Tip
        /\ Files(tip) = Files(old) \cup {g} /\ tip.undone \subseteq old.undone
        /\ \A n \in Machines \ {m} : clone'[n] = clone[n]
        /\ clone'[m].main = origin.main /\ clone'[m].feat = tip
        /\ origin'.main = origin.main
        /\ \/ origin'.feat = tip /\ clone'[m].seen = tip
           \/ /\ origin' = origin
              /\ clone'[m].seen = IF origin.feat = NoRef THEN clone[m].seen ELSE origin.feat
    BY <1>5, GuestEffect
  <2>2. Clean(old) /\ old # NoRef
    BY <1>0, <2>1, TipFields DEF CleanRepo, BranchOf
  <2>3. g \notin Runs /\ UNCHANGED <<owner, tree, bare>>
    BY <1>5, DeliveryAssumption DEF GuestWrites, goalVars
  <2>4. clone[m].feat # NoRef => old = clone[m].feat
    BY DEF BranchOf
  <2> HIDE DEF old, tip
  <2>5. Clean(tip) /\ tip # NoRef /\ Work(tip) = Work(old)
    BY <2>1, <2>2, <2>3, TipFields DEF Clean, Work
  <2>6. CleanRepo(clone'[m])
    BY <1>0, <2>1, <2>5 DEF CleanRepo
  <2>7. \A n \in Machines : CleanRepo(clone'[n])
    BY <1>0, <2>1, <2>6
  <2>8. TreeHasBranch'
    <3>1. CASE MachineOf[owner] = m
      BY <1>0, <2>1, <2>3, <2>4, <2>5, <3>1 DEF TreeHasBranch
    <3>2. CASE MachineOf[owner] # m
      BY <1>0, <2>1, <2>3, <3>2 DEF TreeHasBranch
    <3>3. QED
      BY <3>1, <3>2
  <2>9. QED
    BY <1>0, <2>1, <2>3, <2>5, <2>7, <2>8 DEF UndoneInv
<1>6. QED
  BY <1>1, <1>2, <1>3, <1>4, <1>5

LEMMA UndoneDaemon ==
    ASSUME TypeInv, UndoneInv, "return" \notin Ops,
           \/ Judge \/ Reject \/ Cancel \/ Reopen \/ CleanCancelled
           \/ \E s \in strays : JudgeStray(s)
           \/ \E j \in Jobs : Approve(j) \/ Deliver(j)
           \/ \E a \in Agents : Handoff(a)
           \/ \E o \in Others : OtherDelivers(o)
           \/ Crash \/ Restart
    PROVE  UndoneInv'
<1>0. /\ Clean(origin.main) /\ Clean(origin.feat) /\ CleanRepo(bare) /\ TreeHasBranch
      /\ Clean(NoRef)
      /\ \A m \in Machines : CleanRepo(clone[m])
  BY DEF UndoneInv, Clean
<1>1. ASSUME TreeHasBranch', clone' = clone, CleanRepo(bare'),
             Clean(origin'.main), Clean(origin'.feat)
      PROVE  UndoneInv'
  BY <1>0, <1>1 DEF UndoneInv
<1>2. ASSUME UNCHANGED <<owner, tree, clone>> PROVE TreeHasBranch'
  BY <1>0, <1>2 DEF TreeHasBranch
<1>3. ASSUME Judge \/ \E s \in strays : JudgeStray(s) PROVE UndoneInv'
  <2>1. /\ UNCHANGED <<owner, tree, clone, origin>>
        /\ bare' = bare \/ \E sha : bare' = Adopted(sha)
    BY <1>3 DEF Judge, JudgeStray, Park, goalVars
  <2>2. CleanRepo(bare')
    BY <1>0, <2>1, AdoptedIs DEF CleanRepo
  <2>3. QED
    BY <1>0, <1>1, <1>2, <2>1, <2>2
<1>4. ASSUME Reject \/ Cancel \/ Reopen \/ (\E j \in Jobs : Approve(j)) \/ Crash \/ Restart
      PROVE  UndoneInv'
  <2>1. UNCHANGED <<owner, tree, clone, origin, bare>>
    BY <1>4 DEF Reject, Cancel, Reopen, Approve, Crash, Restart, goalVars, workVars
  <2>2. QED
    BY <1>0, <1>1, <1>2, <2>1
<1>5. ASSUME CleanCancelled PROVE UndoneInv'
  <2>1. UNCHANGED <<owner, tree, clone>>
    BY <1>5 DEF CleanCancelled, goalVars, workVars
  <2>2. CleanRepo(bare') /\ Clean(origin'.main) /\ Clean(origin'.feat)
    BY <1>0, <1>5, CleanCancelledEffect DEF CleanRepo
  <2>3. QED
    BY <1>1, <1>2, <2>1, <2>2
<1>6. ASSUME NEW a \in Agents, Handoff(a) PROVE UndoneInv'
  <2>1. owner' = a /\ tree[a] = NoTree /\ UNCHANGED <<tree, clone, origin, bare>>
    BY <1>6 DEF Handoff
  <2>2. QED
    BY <1>0, <1>1, <2>1 DEF TreeHasBranch
<1>7. ASSUME NEW o \in Others, OtherDelivers(o) PROVE UndoneInv'
  <2>1. UNCHANGED <<owner, tree, clone, bare>>
    BY <1>7 DEF OtherDelivers, goalVars, workVars
  <2>2. origin'.feat = origin.feat /\ origin'.main.undone = origin.main.undone
    BY <1>7, OtherEffect
  <2>3. Clean(origin'.main)
    BY <1>0, <2>2, OriginFields, TipFields DEF Clean, TypeInv
  <2>4. QED
    BY <1>0, <1>1, <1>2, <2>1, <2>2, <2>3
<1>8. ASSUME NEW j \in Jobs, Deliver(j) PROVE UndoneInv'
  <2>1. UNCHANGED <<owner, tree, clone>>
    BY <1>8, DeliverSteps DEF workVars
  <2>2. CleanRepo(bare') /\ Clean(origin'.main) /\ Clean(origin'.feat)
    <3>1. ASSUME Resolve(j) PROVE CleanRepo(bare')
      BY <1>0, <3>1, ResolveEffect DEF CleanRepo
    <3>2. ASSUME Push(j)
          PROVE  CleanRepo(bare') /\ Clean(origin'.main) /\ Clean(origin'.feat)
      <4> DEFINE merged == MergeOf(bare.main, bare.feat)
      <4>1. /\ bare.feat \in Tip /\ bare.main \in Tip
            /\ merged.undone = bare.main.undone \cup bare.feat.undone
            /\ bare'.seen = bare.seen /\ bare'.feat = bare.feat
            /\ origin'.feat = origin.feat
            /\ bare' = bare \/ bare'.main = merged
            /\ origin' = origin \/ origin'.main = merged
        BY <3>2, PushEffect
      <4> HIDE DEF merged
      <4>2. Clean(merged)
        BY <1>0, <4>1, TipFields DEF CleanRepo, Clean
      <4>3. QED
        BY <1>0, <4>1, <4>2 DEF CleanRepo
    <3>3. ASSUME CleanRemote(j)
          PROVE  CleanRepo(bare') /\ Clean(origin'.main) /\ Clean(origin'.feat)
      BY <1>0, <3>3, CleanRemoteEffect DEF CleanRepo
    <3>4. ASSUME CleanLocal(j) PROVE CleanRepo(bare')
      BY <1>0, <3>4, CleanLocalEffect DEF CleanRepo
    <3>5. CleanRepo(Fetched(bare))
      <4>1. bare \in Repo
        BY DEF TypeInv, TypeOK
      <4>2. QED
        BY <1>0, <4>1, FetchedIs DEF CleanRepo, TypeInv
    <3>6. QED
      BY <1>0, <1>8, <3>1, <3>2, <3>3, <3>4, <3>5, DeliverSteps
  <2>3. QED
    BY <1>1, <1>2, <2>1, <2>2
<1>9. QED
  BY <1>3, <1>4, <1>5, <1>6, <1>7, <1>8

LEMMA UndoneNext ==
    TypeInv /\ UndoneInv /\ "return" \notin Ops /\ [Next /\ ~ FormerOwnerCommits]_vars
      => UndoneInv'
<1> SUFFICES ASSUME TypeInv, UndoneInv, "return" \notin Ops,
                    [Next /\ ~ FormerOwnerCommits]_vars
             PROVE  UndoneInv'
  OBVIOUS
<1>1. CASE UNCHANGED vars
  BY <1>1 DEF UndoneInv, TreeHasBranch, vars, goalVars, workVars
<1>2. CASE Next /\ ~ FormerOwnerCommits
  BY <1>2, UndoneMachine, UndoneDaemon DEF Next
<1>3. QED
  BY <1>1, <1>2

(* No owner run's work is undone on any machine's branch by what another   *)
(* run commits, however often the goal changes hands: as long as it does   *)
(* not come back to an agent whose worktree is older than the branch, and  *)
(* no execution of a former owner, which nothing stops, commits.           *)
THEOREM OwnersBuildOnEachOther ==
    ASSUME "return" \notin Ops
    PROVE  Spec /\ [][~ FormerOwnerCommits]_vars => []NothingUndone
<1>1. Init => TypeInv /\ UndoneInv
  BY InitType, UndoneInit
<1>2. TypeInv /\ UndoneInv /\ [Next]_vars /\ [~ FormerOwnerCommits]_vars
        => (TypeInv /\ UndoneInv)'
  BY NextType, UndoneNext
<1>3. UndoneInv => NothingUndone
  BY DEF UndoneInv, NothingUndone, CleanRepo, Clean
<1>4. QED
  BY <1>1, <1>2, <1>3, PTL DEF Spec

----------------------------------------------------------------------------
(* MergedIsReviewed: while a cancelled goal stays cancelled, only the      *)
(* judgement of a run changes the daemon's copy of the branch, and what    *)
(* strays and guests push stays on the host until the next judgement.  The *)
(* invariant holds until a run is stamped while it is judged, which is     *)
(* remembered for good.                                                    *)

(* What the review showed is in the daemon's copy of the default branch.   *)
Past == Has(shown) \subseteq Has(bare.main)

ShownInv ==
    /\ cleaning => goal = "cancelled"
    /\ goal \in {"review", "done"} => bare.feat = shown \/ Past
    /\ \A j \in Jobs : job[j].pc \in Cleans => Past
    /\ Has(bare.main) \subseteq Has(origin.main)

LEMMA HasIs == Has(NoRef) = {} /\ \A ref \in Tip : Has(ref) = ref.hist
  BY TipFields DEF Has

LEMMA ShownInit == Init => ShownInv
  BY HasIs DEF Init, ShownInv, Past, Cleans, Fresh

(* The branch and the review as they were, and the default branch at       *)
(* least.                                                                  *)
LEMMA ShownFrame ==
    ASSUME TypeInv, ShownInv, UNCHANGED <<shown, bare>>,
           cleaning' => cleaning \/ goal' = "cancelled",
           goal' = "cancelled" \/ goal' = goal
             \/ (goal' = "active" /\ ~ cleaning')
             \/ (goal' = "done" /\ goal = "review"),
           \A j \in Jobs : job'[j].pc \in Cleans => job[j].pc \in Cleans,
           Has(origin.main) \subseteq Has(origin'.main)
    PROVE  ShownInv'
  BY DEF ShownInv, Past

(* No step forgets that a run was stamped while it was judged.             *)
LEMMA StampStays ==
    ASSUME TypeInv, StampedWhileJudged, [Next]_vars
    PROVE  StampedWhileJudged'
<1>1. PICK s \in strays : s.pc = "judged"
  BY DEF StampedWhileJudged
<1> SUFFICES s \in strays'
  BY <1>1 DEF StampedWhileJudged
<1>2. ASSUME NEW e \in Working, Write(e) \/ CommitAndPush(e) \/ ExecutionFails(e)
      PROVE  s \in strays'
  BY <1>1, <1>2, WorkingIs DEF Write, CommitAndPush, ExecutionFails
<1>3. ASSUME NEW t \in strays, JudgeStray(t) PROVE s \in strays'
  BY <1>1, <1>3 DEF JudgeStray
<1>4. ASSUME \/ StampRun \/ Crash
             \/ \E a \in Agents : Handoff(a)
      PROVE  s \in strays'
  BY <1>1, <1>4 DEF StampRun, Handoff, CutRun, Crash
<1>5. ASSUME \/ \E r \in Runs : StartRun(r)
             \/ \E g \in Guests, a \in Agents : GuestWrites(g, a)
             \/ Judge
      PROVE  s \in strays'
  BY <1>1, <1>5 DEF StartRun, GuestWrites, Judge
<1>6. ASSUME \/ \E j \in Jobs : Approve(j)
             \/ Reject \/ Cancel \/ Reopen \/ CleanCancelled
             \/ \E o \in Others : OtherDelivers(o)
             \/ Restart
      PROVE  s \in strays'
  BY <1>1, <1>6 DEF Approve, Reject, Cancel, Reopen, CleanCancelled, OtherDelivers, Restart,
                    workVars
<1>7. ASSUME NEW j \in Jobs, Deliver(j) PROVE s \in strays'
  BY <1>1, <1>7, DeliverSteps DEF workVars
<1>8. CASE UNCHANGED vars
  BY <1>1, <1>8 DEF vars, workVars
<1>9. QED
  BY <1>2, <1>3, <1>4, <1>5, <1>6, <1>7, <1>8 DEF Next

LEMMA ShownMachine ==
    ASSUME TypeInv, ShownInv,
           \/ \E r \in Runs : StartRun(r)
           \/ \E e \in Working : Write(e) \/ CommitAndPush(e) \/ ExecutionFails(e)
           \/ StampRun
           \/ \E g \in Guests, a \in Agents : GuestWrites(g, a)
           \/ \E a \in Agents : Handoff(a)
           \/ \E o \in Others : OtherDelivers(o)
    PROVE  ShownInv'
<1>1. UNCHANGED <<goal, shown, bare, job, cleaning>>
  BY DEF StartRun, Write, CommitAndPush, ExecutionFails, StampRun, GuestWrites, Handoff,
         OtherDelivers, goalVars, jobVars, ghosts
<1>2. Has(origin.main) \subseteq Has(origin'.main)
  <2>1. ASSUME NEW e \in Working, CommitAndPush(e) PROVE origin'.main = origin.main
    BY <2>1, CommitEffect
  <2>2. ASSUME NEW g \in Guests, NEW a \in Agents, GuestWrites(g, a)
        PROVE  origin'.main = origin.main
    BY <2>2, GuestEffect
  <2>3. ASSUME NEW o \in Others, OtherDelivers(o)
        PROVE  Has(origin.main) \subseteq Has(origin'.main)
    <3>1. /\ origin' \in [main : Tip, feat : Ref] /\ origin.main \in Tip
          /\ origin'.main.hist = origin.main.hist \cup {o}
      BY <2>3, OtherEffect, OriginFields DEF TypeInv
    <3>2. QED
      BY <3>1, HasIs
  <2>4. ASSUME \/ \E r \in Runs : StartRun(r)
               \/ \E e \in Working : Write(e) \/ ExecutionFails(e)
               \/ StampRun \/ \E a \in Agents : Handoff(a)
        PROVE  origin' = origin
    BY <2>4 DEF StartRun, Write, ExecutionFails, StampRun, Handoff
  <2>5. QED
    BY <2>1, <2>2, <2>3, <2>4
<1>3. QED
  BY <1>1, <1>2, ShownFrame

LEMMA ShownDaemon ==
    ASSUME TypeInv, ShownInv, "reopen" \notin Ops,
           \/ Judge \/ Reject \/ Cancel \/ Reopen \/ CleanCancelled
           \/ \E j \in Jobs : Approve(j)
           \/ Crash \/ Restart
    PROVE  ShownInv'
<1>0. \A j \in Jobs : job[j].pc # "none" => goal \in {"review", "done"}
  BY DEF TypeInv, JobsOK
<1>1. ASSUME Judge PROVE ShownInv'
  <2>1. /\ run.pc = "reported" /\ goal \in {"active", "cancelled"}
        /\ UNCHANGED <<origin, job, cleaning>>
        /\ bare' = bare \/ bare' = Adopted(run.sha)
        /\ \/ goal = "active" /\ goal' = "review" /\ shown' = bare'.feat
           \/ goal' = goal
    BY <1>1 DEF Judge, Park, TypeInv, RunOK, goalVars, jobVars
  <2>2. \A j \in Jobs : job[j].pc \notin Cleans
    BY <1>0, <2>1 DEF Cleans
  <2>3. Has(bare'.main) \subseteq Has(origin.main)
    BY <2>1, AdoptedIs DEF ShownInv
  <2>4. QED
    BY <2>1, <2>2, <2>3 DEF ShownInv
<1>2. ASSUME Reject \/ Cancel \/ Reopen PROVE ShownInv'
  <2>1. /\ UNCHANGED <<origin, bare, job, shown>>
        /\ \/ Reject /\ goal' = "active" /\ goal = "review" /\ cleaning' = cleaning
           \/ Cancel /\ goal' = "cancelled"
           \/ Reopen /\ goal' = "active" /\ goal = "done" /\ cleaning' = cleaning
    BY <1>2 DEF Reject, Cancel, Reopen, jobVars, ghosts
  <2>2. goal' = "active" => ~ cleaning'
    BY <2>1 DEF ShownInv
  <2>3. QED
    BY <2>1, <2>2, ShownFrame DEF ShownInv
<1>3. ASSUME CleanCancelled PROVE ShownInv'
  <2>1. /\ UNCHANGED <<goal, shown, job>> /\ cleaning /\ ~ cleaning'
        /\ bare'.main = bare.main /\ origin'.main = origin.main
    BY <1>3, CleanCancelledEffect DEF CleanCancelled, goalVars, jobVars, ghosts
  <2>2. QED
    BY <2>1 DEF ShownInv, Past
<1>4. ASSUME (\E j \in Jobs : Approve(j)) \/ Crash \/ Restart PROVE ShownInv'
  <2>1. UNCHANGED <<origin, bare, shown, goal>> /\ (cleaning' => cleaning)
    BY <1>4 DEF Approve, Crash, Restart, goalVars, ghosts
  <2>2. \A j \in Jobs : job'[j].pc \in Cleans => job[j].pc \in Cleans
    BY <1>4 DEF Approve, Crash, Restart, Cleans, TypeInv, TypeOK, Job
  <2>3. QED
    BY <2>1, <2>2, ShownFrame
<1>5. QED
  BY <1>1, <1>2, <1>3, <1>4

LEMMA ShownDeliver ==
    ASSUME TypeInv, ShownInv, NEW j \in Jobs, Deliver(j)
    PROVE  ShownInv'
<1>1. /\ goal \in {"review", "done"}
      /\ \A k \in Jobs \ {j} : job'[k] = job[k]
      /\ UNCHANGED <<workVars, cleaning, shown>>
  BY DeliverSteps
<1>2. bare.feat = shown \/ Past
  BY <1>1 DEF ShownInv
<1>3. ~ cleaning
  BY <1>1 DEF ShownInv
<1>4. ASSUME job[j].pc # "wait" PROVE \A k \in Jobs \ {j} : job[k].pc \notin Cleans
  <2>1. job[j].pc \in Held
    BY <1>4, DeliverSteps DEF Held
  <2>2. QED
    BY <2>1 DEF TypeInv, JobsOK, Held, Cleans
<1>5. bare \in Repo /\ origin.main \in Tip /\ bare.main \in Tip
  BY OriginFields, RepoFields DEF TypeInv, TypeOK
<1>6. CASE TakeLock(j) \/ Merge(j) \/ FinishDeliver(j)
  <2>1. /\ UNCHANGED <<bare, origin>> /\ job'[j].pc \notin Cleans
        /\ goal' = goal \/ goal' = "done"
    BY <1>6, DeliverSteps DEF Cleans, TakeLock, Merge, FinishDeliver, At
  <2>2. QED
    BY <1>1, <1>3, <2>1, ShownFrame DEF ShownInv
<1>7. CASE Fetch(j)
  <2>1. /\ origin' = origin /\ job'[j].pc \notin Cleans /\ job[j].pc # "wait" /\ goal' = goal
        /\ bare' = bare \/ bare' = Fetched(bare)
    BY <1>7, DeliverSteps DEF Cleans, Fetch, At, outside, goalVars
  <2>2. /\ bare'.feat = bare.feat /\ bare'.main \in {bare.main, origin.main}
    BY <1>5, <2>1, FetchedIs DEF TypeInv
  <2>3. QED
    BY <1>1, <1>2, <1>3, <1>4, <2>1, <2>2 DEF ShownInv, Past
<1>8. CASE Resolve(j)
  <2>1. /\ origin' = origin /\ job[j].pc # "wait" /\ goal' = goal
        /\ bare'.main = bare.main /\ bare'.feat = Deliverable
        /\ bare.feat # NoRef => Deliverable = bare.feat
        /\ Deliverable \in Ref
        /\ job'[j].pc \in Cleans => Deliverable # NoRef /\ IsAncestor(Deliverable, bare.main)
    BY <1>8, DeliverSteps, ResolveEffect DEF Cleans, Resolve, At, outside, goalVars
  <2>2. bare.feat = NoRef => Past
    BY <1>2, HasIs DEF Past
  <2>3. bare'.feat = shown \/ Past
    BY <1>2, <2>1, <2>2
  <2>4. job'[j].pc \in Cleans => Past
    <3>1. CASE Past
      BY <3>1
    <3>2. CASE bare'.feat = shown
      <4>1. Deliverable # NoRef => Deliverable \in Tip
        BY <2>1 DEF Ref
      <4>2. QED
        BY <1>5, <2>1, <3>2, <4>1, HasIs DEF Past, IsAncestor
    <3>3. QED
      BY <2>3, <3>1, <3>2
  <2>5. QED
    BY <1>1, <1>3, <1>4, <2>1, <2>3, <2>4 DEF ShownInv, Past
<1>9. CASE Push(j)
  <2> DEFINE merged == MergeOf(bare.main, bare.feat)
  <2>1. /\ bare.feat \in Tip /\ merged \in Tip
        /\ merged.hist = bare.main.hist \cup bare.feat.hist
        /\ bare'.feat = bare.feat
        /\ \/ /\ origin.main = bare.main /\ origin'.main = merged
              /\ \/ bare'.main = merged /\ Succeed(j, "clean_remote")
                 \/ bare' = bare /\ Goto(j, "done")
           \/ origin' = origin /\ bare' = bare /\ Goto(j, "done")
    BY <1>9, PushEffect
  <2> HIDE DEF merged
  <2>2. job[j].pc # "wait" /\ goal' = goal
    BY <1>9 DEF Push, At, outside, goalVars
  <2>3. Goto(j, "done") => job'[j].pc \notin Cleans
    BY GotoIs DEF Steps, Cleans
  <2>4. /\ Has(bare.main) \subseteq Has(merged) /\ Has(bare.feat) \subseteq Has(merged)
    BY <1>5, <2>1, HasIs
  <2>5. CASE bare' = bare /\ Goto(j, "done")
    <3>1. Has(origin.main) \subseteq Has(origin'.main)
      BY <2>1, <2>4
    <3>2. QED
      BY <1>1, <1>3, <2>2, <2>3, <2>5, <3>1, ShownFrame DEF ShownInv
  <2>6. CASE bare'.main = merged /\ origin'.main = merged
    <3>1. Has(shown) \subseteq Has(merged)
      BY <1>2, <2>4 DEF Past
    <3>2. Past' /\ Has(bare'.main) \subseteq Has(origin'.main)
      BY <1>1, <2>6, <3>1 DEF Past
    <3>3. QED
      BY <1>1, <1>3, <3>2 DEF ShownInv
  <2>7. QED
    BY <2>1, <2>5, <2>6
<1>10. CASE CleanRemote(j) \/ CleanLocal(j)
  <2>1. /\ bare'.main = bare.main /\ origin'.main = origin.main
    BY <1>10, CleanRemoteEffect, CleanLocalEffect DEF CleanLocal
  <2>2. job[j].pc \in Cleans
    BY <1>10 DEF CleanRemote, CleanLocal, At, Cleans
  <2>3. Past' /\ Has(bare'.main) \subseteq Has(origin'.main)
    BY <1>1, <2>1, <2>2 DEF ShownInv, Past
  <2>4. QED
    BY <1>1, <1>3, <2>3 DEF ShownInv
<1>11. QED
  BY <1>6, <1>7, <1>8, <1>9, <1>10 DEF Deliver

LEMMA ShownNext ==
    ASSUME TypeInv, "reopen" \notin Ops, ShownInv \/ StampedWhileJudged, [Next]_vars
    PROVE  ShownInv' \/ StampedWhileJudged'
<1>1. CASE StampedWhileJudged
  BY <1>1, StampStays
<1>2. CASE UNCHANGED vars
  BY <1>2 DEF ShownInv, Past, StampedWhileJudged, vars, goalVars, workVars, jobVars, ghosts
<1>3. ASSUME \E s \in strays : JudgeStray(s) PROVE StampedWhileJudged'
  BY <1>3, IdleType DEF JudgeStray, StampedWhileJudged
<1>4. CASE ShownInv /\ Next
  BY <1>3, <1>4, ShownMachine, ShownDaemon, ShownDeliver DEF Next
<1>5. QED
  BY <1>1, <1>2, <1>4

(* What a delivery brings into the default branch is the branch that was   *)
(* reviewed, or a branch of a goal whose reviewed commits are already      *)
(* there: whatever executions that lost their row, guests and others push  *)
(* to the transfer ref at any time; until a run is stamped between its     *)
(* report and its adoption.  The premise is necessary: the late deletion   *)
(* of a cancelled goal's branch takes it away from under a review.         *)
THEOREM MergesWhatWasReviewed ==
    ASSUME "reopen" \notin Ops PROVE Spec => MergedIsReviewed
<1> DEFINE Inv == ShownInv \/ StampedWhileJudged
<1>1. Init => TypeInv /\ Inv
  BY InitType, ShownInit
<1>2. TypeInv /\ Inv /\ [Next]_vars => TypeInv' /\ Inv'
  BY NextType, ShownNext
<1>3. TypeInv /\ Inv =>
        [\A j \in Jobs : Merges(j) => \/ bare.feat = shown
                                      \/ Has(shown) \subseteq Has(bare.main)
                                      \/ StampedWhileJudged]_vars
  <2> SUFFICES ASSUME TypeInv, ShownInv, NEW j \in Jobs, job[j].pc = "push"
               PROVE  bare.feat = shown \/ Has(shown) \subseteq Has(bare.main)
    BY DEF Merges, At
  <2>1. goal \in {"review", "done"}
    BY DEF TypeInv, JobsOK
  <2>2. QED
    BY <2>1 DEF ShownInv, Past
<1> HIDE DEF Inv
<1>4. QED
  BY <1>1, <1>2, <1>3, PTL DEF Spec, MergedIsReviewed

----------------------------------------------------------------------------
(* WorkIsKept: the commits a review showed are on the host, in the branch  *)
(* or in the default branch, and in the daemon's copy of the branch or in  *)
(* the default branch; the branch is deleted when the latter has them.     *)

Hosted(commits) == commits \subseteq Has(origin.main) \cup Has(origin.feat)
Merged(commits) == commits \subseteq Has(origin.main)

KeptInv ==
    /\ Merged(Has(bare.main))
    /\ Hosted(Has(bare.feat)) /\ Hosted(Has(bare.seen))
    /\ goal # "cancelled" => /\ Hosted(Has(shown))
                             /\ Has(shown) \subseteq Has(origin.main) \cup Has(bare.feat)
    /\ goal = "done" => Merged(Has(shown))
    /\ cleaning => goal = "cancelled"
    /\ \A j \in Jobs : /\ job[j].pc \in Cleans => Has(bare.feat) \subseteq Has(bare.main)
                       /\ job[j].ok => Merged(Has(shown))

LEMMA KeptInit == Init => KeptInv
<1>1. Root \in Tip /\ Root.hist = {}
  BY RootIsTip DEF Root
<1>2. QED
  BY <1>1, HasIs DEF Init, KeptInv, Hosted, Merged, Cleans, Fresh

(* Nothing leaves the host, the daemon's repository and the review are as  *)
(* they were, and the goal is not taken back from where it was closed.     *)
LEMMA KeptFrame ==
    ASSUME TypeInv, KeptInv, UNCHANGED <<shown, bare>>,
           Has(origin.main) \subseteq Has(origin'.main),
           Has(origin.feat) \subseteq Has(origin'.feat),
           cleaning' => cleaning \/ goal' = "cancelled",
           goal' = "cancelled" \/ goal' = goal
             \/ (goal # "cancelled" /\ goal' = "active")
             \/ (goal # "cancelled" /\ goal' = "done" /\ \E j \in Jobs : job[j].ok),
           \A j \in Jobs : /\ job'[j].pc \in Cleans => job[j].pc \in Cleans
                           /\ job'[j].ok => job[j].ok
    PROVE  KeptInv'
<1>1. ASSUME NEW commits, Hosted(commits)
      PROVE  commits \subseteq Has(origin'.main) \cup Has(origin'.feat)
  BY <1>1 DEF Hosted
<1>2. ASSUME NEW commits, Merged(commits) PROVE commits \subseteq Has(origin'.main)
  BY <1>2 DEF Merged
<1>3. ASSUME NEW j \in Jobs
      PROVE  /\ job'[j].pc \in Cleans => Has(bare'.feat) \subseteq Has(bare'.main)
             /\ job'[j].ok => Has(shown') \subseteq Has(origin'.main)
  BY <1>2 DEF KeptInv
<1>4. goal' = "done" => Has(shown') \subseteq Has(origin'.main)
  BY <1>2 DEF KeptInv
<1>5. goal' # "cancelled" =>
          /\ Has(shown') \subseteq Has(origin'.main) \cup Has(origin'.feat)
          /\ Has(shown') \subseteq Has(origin'.main) \cup Has(bare'.feat)
  BY <1>1 DEF KeptInv
<1>6. /\ Has(bare'.main) \subseteq Has(origin'.main)
      /\ Has(bare'.feat) \subseteq Has(origin'.main) \cup Has(origin'.feat)
      /\ Has(bare'.seen) \subseteq Has(origin'.main) \cup Has(origin'.feat)
  BY <1>1, <1>2 DEF KeptInv
<1>7. cleaning' => goal' = "cancelled"
  BY DEF KeptInv
<1>8. QED
  BY <1>3, <1>4, <1>5, <1>6, <1>7 DEF KeptInv, Hosted, Merged

LEMMA KeptMachine ==
    ASSUME TypeInv, KeptInv,
           \/ \E r \in Runs : StartRun(r)
           \/ \E e \in Working : Write(e) \/ CommitAndPush(e) \/ ExecutionFails(e)
           \/ StampRun
           \/ \E g \in Guests, a \in Agents : GuestWrites(g, a)
           \/ \E a \in Agents : Handoff(a)
           \/ \E o \in Others : OtherDelivers(o)
    PROVE  KeptInv'
<1>1. UNCHANGED <<goal, shown, bare, job, cleaning>>
  BY DEF StartRun, Write, CommitAndPush, ExecutionFails, StampRun, GuestWrites, Handoff,
         OtherDelivers, goalVars, jobVars, ghosts
<1>2. /\ Has(origin.main) \subseteq Has(origin'.main)
      /\ Has(origin.feat) \subseteq Has(origin'.feat)
  <2>1. ASSUME NEW t \in Tip, MayPush(t) PROVE Has(origin.feat) \subseteq Has(t)
    BY <2>1, HasIs, OriginFields DEF MayPush, IsAncestor, TypeInv
  <2>2. ASSUME NEW e \in Working, CommitAndPush(e)
        PROVE  /\ origin'.main = origin.main
               /\ Has(origin.feat) \subseteq Has(origin'.feat)
    BY <2>1, <2>2, CommitEffect
  <2>3. ASSUME NEW g \in Guests, NEW a \in Agents, GuestWrites(g, a)
        PROVE  /\ origin'.main = origin.main
               /\ Has(origin.feat) \subseteq Has(origin'.feat)
    BY <2>1, <2>3, GuestEffect
  <2>4. ASSUME NEW o \in Others, OtherDelivers(o)
        PROVE  /\ Has(origin.main) \subseteq Has(origin'.main)
               /\ Has(origin.feat) \subseteq Has(origin'.feat)
    <3>1. /\ origin' \in [main : Tip, feat : Ref] /\ origin.main \in Tip
          /\ origin'.main.hist = origin.main.hist \cup {o} /\ origin'.feat = origin.feat
      BY <2>4, OtherEffect, OriginFields DEF TypeInv
    <3>2. QED
      BY <3>1, HasIs
  <2>5. ASSUME \/ \E r \in Runs : StartRun(r)
               \/ \E e \in Working : Write(e) \/ ExecutionFails(e)
               \/ StampRun \/ \E a \in Agents : Handoff(a)
        PROVE  origin' = origin
    BY <2>5 DEF StartRun, Write, ExecutionFails, StampRun, Handoff
  <2>6. QED
    BY <2>2, <2>3, <2>4, <2>5
<1>3. QED
  BY <1>1, <1>2, KeptFrame DEF KeptInv

(* An adopted branch is on the host, and has what the review showed.       *)
LEMMA KeptAdopted ==
    ASSUME TypeInv, KeptInv, NEW sha
    PROVE  /\ Merged(Has(Adopted(sha).main))
           /\ Hosted(Has(Adopted(sha).feat)) /\ Hosted(Has(Adopted(sha).seen))
           /\ goal # "cancelled" =>
                 Has(shown) \subseteq Has(origin.main) \cup Has(Adopted(sha).feat)
<1>1. CASE Adopted(sha) = bare
  BY <1>1 DEF KeptInv
<1>2. CASE /\ Adopted(sha).main = origin.main
           /\ Adopted(sha).seen = IF origin.feat = NoRef THEN bare.seen ELSE origin.feat
           /\ Adopted(sha).feat = IF Adopted(sha).seen = NoRef THEN bare.feat
                                  ELSE Adopted(sha).seen
  <2>1. CASE origin.feat = NoRef
    <3>1. goal # "cancelled" => Merged(Has(shown))
      BY <2>1, HasIs DEF KeptInv, Hosted, Merged
    <3>2. QED
      BY <1>2, <2>1, <3>1 DEF KeptInv, Merged
  <2>2. CASE origin.feat # NoRef
    <3>1. /\ Adopted(sha).main = origin.main /\ Adopted(sha).seen = origin.feat
          /\ Adopted(sha).feat = origin.feat
      BY <1>2, <2>2
    <3>2. QED
      BY <3>1 DEF KeptInv, Hosted, Merged
  <2>3. QED
    BY <2>1, <2>2
<1>3. QED
  BY <1>1, <1>2, AdoptedIs

LEMMA KeptJudge ==
    ASSUME TypeInv, KeptInv, Judge \/ \E s \in strays : JudgeStray(s)
    PROVE  KeptInv'
<1>1. /\ UNCHANGED <<origin, job, cleaning, lock>>
      /\ bare' = bare \/ (lock = NoJob /\ \E sha : bare' = Adopted(sha))
      /\ \/ goal = "active" /\ goal' = "review" /\ shown' = bare'.feat
         \/ goal' = goal /\ shown' = shown
  BY DEF Judge, JudgeStray, Unlocked, Park, goalVars, jobVars, ghosts
<1>2. /\ Merged(Has(bare'.main)) /\ Hosted(Has(bare'.feat)) /\ Hosted(Has(bare'.seen))
      /\ goal # "cancelled" => Has(shown) \subseteq Has(origin.main) \cup Has(bare'.feat)
  BY <1>1, KeptAdopted DEF KeptInv
<1>3. goal = "active" => \A j \in Jobs : job[j].pc = "none" /\ ~ job[j].ok
  BY DEF TypeInv, JobsOK, Cleans
<1>4. \A j \in Jobs : /\ job'[j].pc \in Cleans => Has(bare'.feat) \subseteq Has(bare'.main)
                      /\ job'[j].ok => Has(shown') \subseteq Has(origin'.main)
  <2>1. ASSUME NEW j \in Jobs
        PROVE  /\ job[j].pc \in Cleans => Has(bare'.feat) \subseteq Has(bare'.main)
               /\ job[j].ok => Has(shown') \subseteq Has(origin.main)
    <3>1. job[j].pc \in Cleans => bare' = bare
      BY <1>1, DeliveryAssumption DEF TypeInv, JobsOK, Cleans, Held
    <3>2. job[j].ok => shown' = shown
      BY <1>1, <1>3
    <3>3. QED
      BY <3>1, <3>2 DEF KeptInv, Merged
  <2>2. QED
    BY <1>1, <2>1
<1>5. goal' # "cancelled" =>
          /\ Has(shown') \subseteq Has(origin.main) \cup Has(origin.feat)
          /\ Has(shown') \subseteq Has(origin.main) \cup Has(bare'.feat)
  BY <1>1, <1>2 DEF KeptInv, Hosted
<1>6. /\ goal' = "done" => Has(shown') \subseteq Has(origin'.main)
      /\ cleaning' => goal' = "cancelled"
  BY <1>1 DEF KeptInv, Merged
<1>7. QED
  BY <1>1, <1>2, <1>4, <1>5, <1>6 DEF KeptInv, Hosted, Merged

LEMMA KeptDaemon ==
    ASSUME TypeInv, KeptInv, "reopen" \notin Ops,
           \/ Reject \/ Cancel \/ Reopen \/ CleanCancelled
           \/ \E j \in Jobs : Approve(j)
           \/ Crash \/ Restart
    PROVE  KeptInv'
<1>1. ASSUME Reject \/ Cancel \/ Reopen PROVE KeptInv'
  <2>1. /\ UNCHANGED <<origin, bare, job, shown>>
        /\ \/ goal' = "active" /\ goal # "cancelled" /\ cleaning' = cleaning
           \/ goal' = "cancelled"
    BY <1>1 DEF Reject, Cancel, Reopen, workVars, jobVars, ghosts
  <2>2. QED
    BY <2>1, KeptFrame DEF KeptInv
<1>2. ASSUME CleanCancelled PROVE KeptInv'
  <2>1. /\ UNCHANGED <<goal, shown, job, lock>> /\ cleaning /\ ~ cleaning' /\ lock = NoJob
        /\ bare'.main = bare.main /\ origin'.main = origin.main
        /\ bare'.feat = NoRef /\ bare'.seen = NoRef
    BY <1>2, CleanCancelledEffect DEF CleanCancelled, Unlocked, goalVars, jobVars, ghosts
  <2>2. goal = "cancelled"
    BY <2>1 DEF KeptInv
  <2>3. \A j \in Jobs : job[j].pc \notin Cleans
    BY <2>1, DeliveryAssumption DEF TypeInv, JobsOK, Cleans, Held
  <2>4. QED
    BY <2>1, <2>2, <2>3, HasIs DEF KeptInv, Hosted, Merged
<1>3. ASSUME (\E j \in Jobs : Approve(j)) \/ Crash \/ Restart PROVE KeptInv'
  <2>1. UNCHANGED <<origin, bare, shown, goal>> /\ (cleaning' => cleaning)
    BY <1>3 DEF Approve, Crash, Restart, goalVars, ghosts
  <2>2. \A j \in Jobs : /\ job'[j].pc \in Cleans => job[j].pc \in Cleans
                        /\ job'[j].ok => job[j].ok
    BY <1>3 DEF Approve, Crash, Restart, Cleans, TypeInv, TypeOK, Job
  <2>3. QED
    BY <2>1, <2>2, KeptFrame DEF KeptInv
<1>4. QED
  BY <1>1, <1>2, <1>3

LEMMA KeptDeliver ==
    ASSUME TypeInv, KeptInv, NEW j \in Jobs, Deliver(j)
    PROVE  KeptInv'
<1>1. /\ goal \in {"review", "done"}
      /\ \A k \in Jobs \ {j} : job'[k] = job[k]
      /\ UNCHANGED <<cleaning, shown>>
  BY DeliverSteps
<1>2. ~ cleaning
  BY <1>1 DEF KeptInv
<1>3. ASSUME job[j].pc # "wait"
      PROVE  \A k \in Jobs \ {j} : job[k].pc \notin Cleans /\ ~ job[k].ok
  <2>1. job[j].pc \in Held
    BY <1>3, DeliverSteps DEF Held
  <2>2. QED
    BY <2>1 DEF TypeInv, JobsOK, Held, Cleans
<1>4. bare \in Repo /\ origin.main \in Tip /\ bare.main \in Tip
  BY OriginFields, RepoFields DEF TypeInv, TypeOK
<1>5. CASE TakeLock(j) \/ Merge(j) \/ FinishDeliver(j)
  <2>1. /\ UNCHANGED <<bare, origin>> /\ job'[j].pc \notin Cleans /\ ~ job'[j].ok
        /\ goal' = goal \/ (goal' = "done" /\ job[j].ok)
    BY <1>5, DeliverSteps DEF Cleans, TakeLock, Merge, FinishDeliver, At
  <2>2. QED
    BY <1>1, <1>2, <2>1, KeptFrame
<1>6. CASE Fetch(j)
  <2>1. /\ origin' = origin /\ job'[j].pc \notin Cleans /\ ~ job'[j].ok
        /\ job[j].pc # "wait" /\ goal' = goal
        /\ bare' = bare \/ bare' = Fetched(bare)
    BY <1>6, DeliverSteps DEF Cleans, Fetch, At, outside, goalVars
  <2>2. /\ bare'.feat = bare.feat /\ bare'.main \in {bare.main, origin.main}
        /\ bare'.seen \in {bare.seen, origin.feat}
    BY <1>4, <2>1, FetchedIs DEF TypeInv
  <2>3. Merged(Has(bare'.main)) /\ Hosted(Has(bare'.seen))
    BY <2>2 DEF KeptInv, Merged, Hosted
  <2>4. QED
    BY <1>1, <1>2, <1>3, <2>1, <2>2, <2>3 DEF KeptInv, Merged, Hosted
<1>7. CASE Resolve(j)
  <2>1. /\ origin' = origin /\ job[j].pc # "wait" /\ goal' = goal
        /\ bare'.main = bare.main /\ bare'.seen = bare.seen /\ bare'.feat = Deliverable
        /\ bare.feat # NoRef => Deliverable = bare.feat
        /\ bare.feat = NoRef => Deliverable = bare.seen
        /\ Deliverable \in Ref
        /\ \/ job'[j].pc \notin Cleans /\ ~ job'[j].ok
           \/ Deliverable # NoRef /\ IsAncestor(Deliverable, bare.main)
    BY <1>7, DeliverSteps, ResolveEffect DEF Cleans, Resolve, At, outside, goalVars
  <2>2. Hosted(Has(bare'.feat)) /\ Has(bare.feat) \subseteq Has(bare'.feat)
    BY <2>1, HasIs DEF KeptInv
  <2>3. Has(shown) \subseteq Has(origin.main) \cup Has(bare'.feat)
    BY <1>1, <2>2 DEF KeptInv
  <2>4. CASE job'[j].pc \notin Cleans /\ ~ job'[j].ok
    BY <1>1, <1>2, <1>3, <2>1, <2>2, <2>3, <2>4 DEF KeptInv, Merged, Hosted
  <2>5. CASE Deliverable # NoRef /\ IsAncestor(Deliverable, bare.main)
    <3>1. Deliverable \in Tip
      BY <2>1, <2>5 DEF Ref
    <3>2. Has(bare'.feat) \subseteq Has(bare.main)
      BY <1>4, <2>1, <2>5, <3>1, HasIs DEF IsAncestor
    <3>3. Merged(Has(shown))
      BY <2>3, <3>2 DEF KeptInv, Merged
    <3>4. QED
      BY <1>1, <1>2, <1>3, <2>1, <2>2, <2>3, <3>2, <3>3 DEF KeptInv, Merged, Hosted
  <2>6. QED
    BY <2>1, <2>4, <2>5
<1>8. CASE Push(j)
  <2> DEFINE merged == MergeOf(bare.main, bare.feat)
  <2>1. /\ bare.feat \in Tip /\ merged \in Tip
        /\ merged.hist = bare.main.hist \cup bare.feat.hist
        /\ bare'.feat = bare.feat /\ bare'.seen = bare.seen /\ origin'.feat = origin.feat
        /\ \/ /\ origin.main = bare.main /\ origin'.main = merged
              /\ \/ bare'.main = merged /\ Succeed(j, "clean_remote")
                 \/ bare' = bare /\ Goto(j, "done")
           \/ origin' = origin /\ bare' = bare /\ Goto(j, "done")
    BY <1>8, PushEffect
  <2> HIDE DEF merged
  <2>2. job[j].pc = "push" /\ goal' = goal
    BY <1>8 DEF Push, At, outside, goalVars
  <2>3. Goto(j, "done") => job'[j].pc \notin Cleans /\ ~ job'[j].ok
    BY <2>2, GotoIs DEF Steps, Cleans, TypeInv, JobsOK
  <2>4. /\ Has(bare.main) \subseteq Has(merged) /\ Has(bare.feat) \subseteq Has(merged)
    BY <1>4, <2>1, HasIs
  <2>5. CASE bare' = bare /\ Goto(j, "done")
    <3>1. Has(origin.main) \subseteq Has(origin'.main)
      BY <2>1, <2>4
    <3>2. QED
      BY <1>1, <1>2, <2>1, <2>2, <2>3, <2>5, <3>1, KeptFrame
  <2>6. CASE origin.main = bare.main /\ bare'.main = merged /\ origin'.main = merged
    <3>1. Has(origin.main) \subseteq Has(origin'.main)
      BY <2>4, <2>6
    <3>2. /\ Merged(Has(bare.main))' /\ Has(bare'.feat) \subseteq Has(bare'.main)
      BY <2>1, <2>4, <2>6 DEF Merged
    <3>3. /\ Hosted(Has(bare.feat))' /\ Hosted(Has(bare.seen))' /\ Hosted(Has(shown))'
      BY <1>1, <2>1, <3>1 DEF KeptInv, Hosted
    <3>4. Merged(Has(shown))'
      <4>1. Has(shown) \subseteq Has(origin.main) \cup Has(bare.feat)
        BY <1>1 DEF KeptInv
      <4>2. QED
        BY <1>1, <2>4, <2>6, <3>1, <4>1 DEF Merged
    <3>5. \A k \in Jobs \ {j} : job'[k].pc \notin Cleans /\ ~ job'[k].ok
      BY <1>1, <1>3, <2>2
    <3>6. QED
      BY <1>1, <1>2, <2>2, <3>2, <3>3, <3>4, <3>5 DEF KeptInv, Merged, Hosted
  <2>7. QED
    BY <2>1, <2>5, <2>6
<1>9. CASE CleanRemote(j) \/ CleanLocal(j)
  <2>1. /\ bare'.main = bare.main /\ origin'.main = origin.main
        /\ \/ /\ bare'.feat = bare.feat /\ bare'.seen = NoRef /\ origin'.feat = NoRef
           \/ /\ bare'.feat = NoRef /\ bare'.seen = bare.seen /\ origin' = origin
    BY <1>9, CleanRemoteEffect, CleanLocalEffect DEF CleanLocal
  <2>2. job[j].pc \in Cleans /\ job[j].ok /\ goal' = goal
    BY <1>9 DEF CleanRemote, CleanLocal, At, Cleans, outside, goalVars, TypeInv, JobsOK
  <2>3. /\ Has(bare.feat) \subseteq Has(origin.main) /\ Has(shown) \subseteq Has(origin.main)
        /\ Has(bare.feat) \subseteq Has(bare.main) /\ Has(bare.main) \subseteq Has(origin.main)
    BY <2>2 DEF KeptInv, Merged
  <2>4. \A k \in Jobs \ {j} : job'[k].pc \notin Cleans /\ ~ job'[k].ok
    BY <1>1, <1>3, <2>2 DEF Cleans
  <2>5. Hosted(Has(bare.seen))' /\ Hosted(Has(bare.feat))' /\ Has(bare'.feat) \subseteq Has(bare'.main)
    BY <2>1, <2>3, HasIs DEF KeptInv, Hosted
  <2>6. /\ Merged(Has(bare.main))' /\ Merged(Has(shown))' /\ Hosted(Has(shown))'
        /\ Has(shown') \subseteq Has(origin'.main) \cup Has(bare'.feat)
    BY <1>1, <2>1, <2>3 DEF Merged, Hosted
  <2>7. QED
    BY <1>1, <1>2, <2>2, <2>4, <2>5, <2>6 DEF KeptInv
<1>10. QED
  BY <1>5, <1>6, <1>7, <1>8, <1>9 DEF Deliver

LEMMA KeptNext == TypeInv /\ "reopen" \notin Ops /\ KeptInv /\ [Next]_vars => KeptInv'
<1> SUFFICES ASSUME TypeInv, "reopen" \notin Ops, KeptInv, [Next]_vars PROVE KeptInv'
  OBVIOUS
<1>1. CASE UNCHANGED vars
  BY <1>1 DEF KeptInv, Hosted, Merged, vars, goalVars, workVars, jobVars, ghosts
<1>2. CASE Next
  BY <1>2, KeptMachine, KeptJudge, KeptDaemon, KeptDeliver DEF Next
<1>3. QED
  BY <1>1, <1>2

(* A commit that a review showed is never lost, whatever deliveries fail,  *)
(* the goal is rejected or handed off, executions that lost their row push *)
(* and whenever the daemon crashes, as long as a cancelled goal is not     *)
(* reopened while its branch is being deleted.                             *)
THEOREM ReviewedWorkIsKept == ASSUME "reopen" \notin Ops PROVE Spec => []WorkIsKept
<1>1. Init => TypeInv /\ KeptInv
  BY InitType, KeptInit
<1>2. TypeInv /\ KeptInv /\ [Next]_vars => (TypeInv /\ KeptInv)'
  BY NextType, KeptNext
<1>3. KeptInv => WorkIsKept
  BY DEF KeptInv, Merged, WorkIsKept, DoneIsWhole
<1>4. QED
  BY <1>1, <1>2, <1>3, PTL DEF Spec
==============================================================================
