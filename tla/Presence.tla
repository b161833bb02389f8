------------------------------ MODULE Presence ------------------------------
(***************************************************************************)
(* Which machines are there: the /connect links and the peer the daemon    *)
(* dispatches over, the status and the runtimes of a machine in the        *)
(* database, and the runtime the steward lives on (internal/server/        *)
(* server.go, internal/link/peer.go, internal/service/machine.go, agent.go,*)
(* internal/daemon/machine_dispatch.go and cmd/agentwork-cli/connect.go).  *)
(*                                                                         *)
(* A machine's process is a client that keeps one link at a time; the      *)
(* server learns of a lost link later than the client, or earlier.  Every  *)
(* request of a link is handled in a goroutine of its own, which may       *)
(* outlive the link.  A machine has one agent CLI, which may be installed  *)
(* or not; it is the one the steward needs.                                *)
(***************************************************************************)
EXTENDS Naturals, FiniteSets

CONSTANTS
    Machines,
    Links,        \* connections: an id is used again once nothing knows it
    None,
    Boot,         \* the goroutine that starts the daemon
    MaxEdits,     \* bound on what people and networks do
    MaxCrashes,
    Ops           \* what they do in an instance

Procs == Links \cup Machines \cup {Boot}

ASSUME PresenceAssumption ==
    /\ None \notin Procs /\ Boot \notin Links \cup Machines /\ Links \cap Machines = {}
    /\ {MaxEdits, MaxCrashes} \subseteq Nat

VARIABLES
    machine,   \* [Machines -> [status, fresh]]: the row; fresh: it was seen within 90 s
    runtime,   \* [Machines -> status of the runtime row of the machine's CLI]
    steward,   \* the machine whose runtime the steward has, None: no steward
    link,      \* [Links -> Link]: the server's side of a connection
    peer,      \* [Machines -> Links \cup {None}]: machinePeers
    proc,      \* [Procs -> Proc]: handlers, machine:offline events, the start
    offline,   \* machines whose machine:offline event is published, not handled
    bye,       \* machines whose machine.offline notification is on its way
    client,    \* [Machines -> Client]: the process on the machine
    cli,       \* [Machines -> BOOLEAN]: the CLI is installed
    up, crashes, edits

rowVars == <<machine, runtime>>
linkVars == <<link, peer, proc>>
mailVars == <<offline, bye>>
hostVars == <<client, cli>>
lifeVars == <<up, crashes>>
vars == <<rowVars, steward, linkVars, mailVars, hostVars, lifeVars, edits>>

Link == [of : Machines \cup {None}, state : {"free", "open", "dead", "gone"},
         stored : BOOLEAN,          \* registeredMachineID
         cli : BOOLEAN]             \* the latest report of the machine's CLIs
Proc == [pc : {"idle", "register", "probe", "check", "insert", "ensure", "pick", "move", "bind", "store", "reply"},
         to : Machines \cup {None}] \* the runtime an insert or a move goes to
Client == [phase : {"down", "off", "calling", "on"}, cur : Links \cup {None}, told : BOOLEAN]

TypeOK ==
    /\ machine \in [Machines -> [status : {"none", "connected", "offline"}, fresh : BOOLEAN]]
    /\ runtime \in [Machines -> {"none", "active", "absent"}]
    /\ steward \in Machines \cup {None} /\ link \in [Links -> Link]
    /\ peer \in [Machines -> Links \cup {None}] /\ proc \in [Procs -> Proc]
    /\ offline \subseteq Machines /\ bye \subseteq Machines
    /\ client \in [Machines -> Client] /\ cli \in [Machines -> BOOLEAN]
    /\ up \in BOOLEAN /\ crashes \in 0..MaxCrashes /\ edits \in 0..MaxEdits

Free == [of |-> None, state |-> "free", stored |-> FALSE, cli |-> FALSE]
Idle == [pc |-> "idle", to |-> None]

Init ==
    /\ machine = [m \in Machines |-> [status |-> "none", fresh |-> FALSE]]
    /\ runtime = [m \in Machines |-> "none"] /\ steward = None
    /\ link = [l \in Links |-> Free] /\ peer = [m \in Machines |-> None]
    /\ proc = [p \in Procs |-> Idle] /\ offline = {} /\ bye = {}
    /\ client = [m \in Machines |-> [phase |-> "off", cur |-> None, told |-> FALSE]]
    /\ cli = [m \in Machines |-> TRUE] /\ up = TRUE /\ crashes = 0 /\ edits = 0

Edit(op) == op \in Ops /\ edits < MaxEdits /\ edits' = edits + 1
Open(l) == link[l].state = "open"
Alive(m) == client[m].phase = "on" /\ Open(client[m].cur)

--------------------------------------------------------------------------------
(* The machine's process: connect, register, then a heartbeat every five   *)
(* seconds and a probe every minute until the link is gone, then again.    *)

Usable(l) ==
    \/ link[l].state = "free"
    \/ link[l].state = "gone" /\ proc[l] = Idle /\ \A m \in Machines : peer[m] # l

Connect(m) ==
    /\ up /\ client[m].phase = "off"
    /\ \E l \in Links : Usable(l)
    /\ LET l == CHOOSE l \in Links : Usable(l)
       IN /\ link' = [link EXCEPT ![l] = [of |-> m, state |-> "open", stored |-> FALSE, cli |-> cli[m]]]
          /\ proc' = [proc EXCEPT ![l] = [Idle EXCEPT !.pc = "register"]]
          /\ client' = [client EXCEPT ![m] = [phase |-> "calling", cur |-> l, told |-> cli[m]]]
    /\ UNCHANGED <<rowVars, steward, peer, mailVars, cli, lifeVars, edits>>

Heartbeat(m) ==
    /\ up /\ Alive(m)
    /\ machine' = [machine EXCEPT ![m] = [status |-> "connected", fresh |-> TRUE]]
    /\ UNCHANGED <<runtime, steward, linkVars, mailVars, hostVars, lifeVars, edits>>

(* Only a report that differs from the previous one is sent. *)
ProbeTick(m) ==
    LET l == client[m].cur
    IN /\ up /\ Alive(m) /\ proc[l] = Idle /\ cli[m] # client[m].told
       /\ client' = [client EXCEPT ![m].told = cli[m]]
       /\ link' = [link EXCEPT ![l].cli = cli[m]]
       /\ proc' = [proc EXCEPT ![l] = [Idle EXCEPT !.pc = "probe"]]
       /\ UNCHANGED <<rowVars, steward, peer, mailVars, cli, lifeVars, edits>>

Leaves(m, phase) == client' = [client EXCEPT ![m].phase = phase, ![m].cur = None]

(* The client loses its link; the server may see it at once, or later. *)
LosesLink(m) ==
    /\ Edit("drop") /\ client[m].phase \in {"calling", "on"}
    /\ Leaves(m, "off")
    /\ UNCHANGED <<rowVars, steward, linkVars, mailVars, cli, lifeVars>>

SeesClose(m) ==
    /\ client[m].cur # None /\ ~Open(client[m].cur)
    /\ Leaves(m, "off")
    /\ UNCHANGED <<rowVars, steward, linkVars, mailVars, cli, lifeVars, edits>>

(* SIGTERM: a notification goes out before the link is closed. *)
Stops(m) ==
    /\ Edit("stop") /\ Alive(m)
    /\ bye' = bye \cup {m}
    /\ Leaves(m, "down")
    /\ UNCHANGED <<rowVars, steward, linkVars, offline, cli, lifeVars>>

Dies(m) ==
    /\ Edit("die") /\ client[m].phase # "down"
    /\ Leaves(m, "down")
    /\ UNCHANGED <<rowVars, steward, linkVars, mailVars, cli, lifeVars>>

Starts(m) ==
    /\ client[m].phase = "down"
    /\ Leaves(m, "off")
    /\ UNCHANGED <<rowVars, steward, linkVars, mailVars, cli, lifeVars, edits>>

Installs(m) ==
    /\ Edit("install")
    /\ cli' = [cli EXCEPT ![m] = ~@]
    /\ UNCHANGED <<rowVars, steward, linkVars, mailVars, client, lifeVars>>

--------------------------------------------------------------------------------
(* The server's end of a link.  The handlers of a link that is gone find   *)
(* their context cancelled: a statement fails, and what is not a statement *)
(* goes on.                                                                *)

At(p, pc) == up /\ proc[p].pc = pc
Goes(p, pc) == proc' = [proc EXCEPT ![p] = [pc |-> pc, to |-> None]]

NoticesLoss(l) ==
    /\ up /\ Open(l) /\ \A m \in Machines : client[m].cur # l
    /\ link' = [link EXCEPT ![l].state = "dead"]
    /\ UNCHANGED <<rowVars, steward, peer, proc, mailVars, hostVars, lifeVars, edits>>

(* machine.register: the row, the runtimes, the steward, the peer, the id. *)
Register(l) ==
    /\ At(l, "register")
    /\ IF Open(l)
         THEN /\ machine' = [machine EXCEPT ![link[l].of] = [status |-> "connected", fresh |-> TRUE]]
              /\ Goes(l, "probe")
         ELSE Goes(l, "idle") /\ UNCHANGED machine
    /\ UNCHANGED <<runtime, steward, link, peer, mailVars, hostVars, lifeVars, edits>>

AfterSeed(p) == IF p \in Links THEN IF link[p].stored THEN "idle" ELSE "bind" ELSE "idle"

(* Also the whole of machine.probe_update, whose link is bound already. *)
ReconcileProbeRuntimes(l) ==
    LET m == link[l].of
    IN /\ At(l, "probe")
       /\ IF Open(l)
            THEN /\ runtime' = [runtime EXCEPT ![m] = IF link[l].cli THEN "active"
                                                      ELSE IF @ = "active" THEN "absent" ELSE @]
                 /\ Goes(l, IF link[l].cli THEN "check" ELSE AfterSeed(l))
            ELSE Goes(l, "idle") /\ UNCHANGED runtime
       /\ UNCHANGED <<machine, steward, link, peer, mailVars, hostVars, lifeVars, edits>>

(* Mutant for LinkHeals: the displaced link stays open. *)
KeepOldLink(l) ==
    /\ At(l, "bind")
    /\ peer' = [peer EXCEPT ![link[l].of] = l]
    /\ Goes(l, "store")
    /\ UNCHANGED <<rowVars, steward, link, mailVars, hostVars, lifeVars, edits>>

RegisterMachinePeer(l) ==
    LET m == link[l].of
        old == peer[m]
    IN /\ At(l, "bind")
       /\ peer' = [peer EXCEPT ![m] = l]
       /\ link' = [k \in Links |-> IF k = old /\ k # l /\ Open(k) THEN [link[k] EXCEPT !.state = "dead"]
                                                                  ELSE link[k]]
       /\ Goes(l, "store")
       /\ UNCHANGED <<rowVars, steward, mailVars, hostVars, lifeVars, edits>>

StoreMachineID(l) ==
    /\ At(l, "store")
    /\ link' = [link EXCEPT ![l].stored = TRUE]
    /\ Goes(l, "reply")
    /\ UNCHANGED <<rowVars, steward, peer, mailVars, hostVars, lifeVars, edits>>

Reply(l) ==
    /\ At(l, "reply")
    /\ client' = [m \in Machines |-> IF Open(l) /\ client[m].cur = l THEN [client[m] EXCEPT !.phase = "on"]
                                                                     ELSE client[m]]
    /\ Goes(l, "idle")
    /\ UNCHANGED <<rowVars, steward, link, peer, mailVars, cli, lifeVars, edits>>

(* The deferred unregister of a dead link, if it knows its machine by then *)
(* and if it is still the one the machine is reached by.                   *)
UnregisterMachinePeer(l) ==
    LET m == link[l].of
    IN /\ up /\ link[l].state = "dead"
       /\ link' = [link EXCEPT ![l].state = "gone"]
       /\ peer' = IF link[l].stored /\ peer[m] = l THEN [peer EXCEPT ![m] = None] ELSE peer
       /\ UNCHANGED <<rowVars, steward, proc, mailVars, hostVars, lifeVars, edits>>

(* machine.offline: late is possible, its context is detached. *)
MarkOffline(m) ==
    /\ up /\ m \in bye
    /\ bye' = bye \ {m}
    /\ machine' = [machine EXCEPT ![m].status = IF @ = "connected" THEN "offline" ELSE @]
    /\ offline' = IF machine[m].status = "connected" THEN offline \cup {m} ELSE offline
    /\ UNCHANGED <<runtime, steward, linkVars, hostVars, lifeVars, edits>>

(* Ninety seconds without a heartbeat, and the sweep that looks for them. *)
Ages(m) ==
    /\ machine[m].fresh
    /\ \/ client[m].phase \in {"down", "off"}
       \/ "freeze" \in Ops
    /\ machine' = [machine EXCEPT ![m].fresh = FALSE]
    /\ UNCHANGED <<runtime, steward, linkVars, mailVars, hostVars, lifeVars, edits>>

(* Mutant for OfflineIsSeen: the cutoff is compared the wrong way round. *)
MarkFresh(m) ==
    /\ up /\ machine[m] = [status |-> "connected", fresh |-> TRUE] /\ client[m].phase = "down"
    /\ machine' = [machine EXCEPT ![m].status = "offline"]
    /\ offline' = offline \cup {m}
    /\ UNCHANGED <<runtime, steward, linkVars, bye, hostVars, lifeVars, edits>>

MarkStale(m) ==
    /\ up /\ machine[m] = [status |-> "connected", fresh |-> FALSE]
    /\ machine' = [machine EXCEPT ![m].status = "offline"]
    /\ offline' = offline \cup {m}
    /\ UNCHANGED <<runtime, steward, linkVars, bye, hostVars, lifeVars, edits>>

--------------------------------------------------------------------------------
(* The steward: seeded by the first machine that has the CLI, moved when   *)
(* its runtime cannot be used.                                             *)

Runs(m) == runtime[m] = "active" /\ machine[m].status = "connected"
Cancelled(p) == p \in Links /\ ~Open(p)

SeedStewardForRuntime(l) ==
    /\ At(l, "check")
    /\ IF Cancelled(l) THEN Goes(l, AfterSeed(l))
       ELSE IF steward # None THEN Goes(l, "ensure")
       ELSE IF runtime[link[l].of] = "active"
         THEN proc' = [proc EXCEPT ![l] = [pc |-> "insert", to |-> link[l].of]]
         ELSE Goes(l, AfterSeed(l))
    /\ UNCHANGED <<rowVars, steward, link, peer, mailVars, hostVars, lifeVars, edits>>

(* The name of the steward is unique: the second insert fails. *)
InsertSteward(p) ==
    /\ At(p, "insert")
    /\ steward' = IF steward = None /\ ~Cancelled(p) THEN proc[p].to ELSE steward
    /\ Goes(p, AfterSeed(p))
    /\ UNCHANGED <<rowVars, link, peer, mailVars, hostVars, lifeVars, edits>>

EnsureStewardRuntime(p) ==
    /\ At(p, "ensure")
    /\ Goes(p, IF Cancelled(p) \/ steward = None \/ Runs(steward) THEN AfterSeed(p) ELSE "pick")
    /\ UNCHANGED <<rowVars, steward, link, peer, mailVars, hostVars, lifeVars, edits>>

(* firstHwcloudRuntimeID: any usable one; its order is left out. *)
PickRuntime(p) ==
    /\ At(p, "pick")
    /\ IF Cancelled(p) \/ \A m \in Machines : ~Runs(m)
         THEN Goes(p, AfterSeed(p))
         ELSE \E m \in Machines : Runs(m) /\ proc' = [proc EXCEPT ![p] = [pc |-> "move", to |-> m]]
    /\ UNCHANGED <<rowVars, steward, link, peer, mailVars, hostVars, lifeVars, edits>>

MoveSteward(p) ==
    /\ At(p, "move")
    /\ steward' = IF Cancelled(p) THEN steward ELSE proc[p].to
    /\ Goes(p, AfterSeed(p))
    /\ UNCHANGED <<rowVars, link, peer, mailVars, hostVars, lifeVars, edits>>

OnMachineOffline(m) ==
    /\ At(m, "idle") /\ m \in offline
    /\ offline' = offline \ {m}
    /\ Goes(m, "ensure")
    /\ UNCHANGED <<rowVars, steward, link, peer, bye, hostVars, lifeVars, edits>>

--------------------------------------------------------------------------------
(* The daemon's process dies with its links, handlers and events. *)

Crash ==
    /\ up /\ crashes < MaxCrashes
    /\ up' = FALSE /\ crashes' = crashes + 1
    /\ link' = [l \in Links |-> IF \E m \in Machines : client[m].cur = l
                                  THEN [link[l] EXCEPT !.state = "gone"] ELSE Free]
    /\ peer' = [m \in Machines |-> None]
    /\ proc' = [p \in Procs |-> Idle]
    /\ offline' = {} /\ bye' = {}
    /\ UNCHANGED <<rowVars, steward, hostVars, edits>>

Restart ==
    /\ ~up /\ up' = TRUE
    /\ IF steward # None
         THEN Goes(Boot, "ensure")
         ELSE \/ \E m \in Machines : Runs(m) /\ proc' = [proc EXCEPT ![Boot] = [pc |-> "insert", to |-> m]]
              \/ (\A m \in Machines : ~Runs(m)) /\ UNCHANGED proc
    /\ UNCHANGED <<rowVars, steward, link, peer, mailVars, hostVars, crashes, edits>>

--------------------------------------------------------------------------------
Handles(l) ==
    \/ Register(l) \/ ReconcileProbeRuntimes(l) \/ RegisterMachinePeer(l)
    \/ StoreMachineID(l) \/ Reply(l) \/ SeedStewardForRuntime(l)

Seeds(p) == InsertSteward(p) \/ EnsureStewardRuntime(p) \/ PickRuntime(p) \/ MoveSteward(p)

Host(m) == Connect(m) \/ Heartbeat(m) \/ ProbeTick(m) \/ SeesClose(m)

Next ==
    \/ \E m \in Machines :
         \/ Host(m) \/ LosesLink(m) \/ Stops(m) \/ Dies(m) \/ Starts(m) \/ Installs(m)
         \/ MarkOffline(m) \/ Ages(m) \/ MarkStale(m) \/ OnMachineOffline(m)
    \/ \E l \in Links : NoticesLoss(l) \/ Handles(l) \/ UnregisterMachinePeer(l)
    \/ \E p \in Procs : Seeds(p)
    \/ Crash \/ Restart

(* A machine's process keeps connecting and beating, the goroutines of the *)
(* server run to their end, a lost link is noticed, time passes and the    *)
(* sweep runs, and the daemon is started again.                            *)
Fairness ==
    /\ \A m \in Machines : /\ WF_vars(Connect(m)) /\ WF_vars(Heartbeat(m)) /\ WF_vars(ProbeTick(m))
                           /\ WF_vars(SeesClose(m)) /\ WF_vars(MarkOffline(m)) /\ WF_vars(Ages(m))
                           /\ WF_vars(MarkStale(m)) /\ WF_vars(OnMachineOffline(m))
    /\ \A l \in Links : WF_vars(NoticesLoss(l)) /\ WF_vars(Handles(l)) /\ WF_vars(UnregisterMachinePeer(l))
    /\ \A p \in Procs : WF_vars(Seeds(p))
    /\ WF_vars(Restart)

Spec == Init /\ [][Next]_vars /\ Fairness

--------------------------------------------------------------------------------
Served(m) ==
    /\ Alive(m) /\ peer[m] = client[m].cur
    /\ machine[m].status = "connected"

(* A machine whose process stays is reached again and again: the daemon's  *)
(* peer is the link the machine has, and its row says connected, whatever  *)
(* old links still do: a register handler that outlives its link, an       *)
(* unregister that comes after the replacement, a late notification.       *)
LinkHeals == \A m \in Machines : []<>(client[m].phase = "down" \/ Served(m))

(* A machine that is gone is seen to be gone, so nothing is claimed for it.*)
OfflineIsSeen ==
    \A m \in Machines :
        client[m].phase = "down" ~> (client[m].phase # "down" \/ machine[m].status # "connected")

(* What server.go says of a link's death: the daemon drops its peer.  A    *)
(* register handler that binds after the deferred unregister leaves one.   *)
DropIsSeen ==
    \A m \in Machines : client[m].phase = "down" ~> (client[m].phase # "down" \/ peer[m] = None)

(* What EnsureStewardRuntime says: the steward is unavailable until a      *)
(* usable runtime reappears.  A heartbeat brings one back and moves nobody.*)
StewardFollows ==
    \A m \in Machines : <>[]Runs(m) => []<>(steward # None /\ Runs(steward))
=============================================================================
