----------------------------- MODULE RunContract -----------------------------
(***************************************************************************)
(* What the daemon promises the goal layer about runs, whatever machines,  *)
(* links and crashes do: a run is worked on once per claim, it ends once,  *)
(* and what it ends with is the outcome of its latest claim or none.  Only *)
(* a restart takes claims back, and it takes back all of them.             *)
(* MachineDispatch implements this.                                        *)
(***************************************************************************)
EXTENDS Naturals

CONSTANT Runs

VARIABLES
    state,       \* [Runs -> State]
    claims       \* [Runs -> Nat]: how often each run was claimed

vars == <<state, claims>>

(* An ended run has a report of its latest claim, or was dropped: stopped, *)
(* cancelled, or given up by the daemon.                                   *)
State == {"queued", "claimed", "reported", "dropped"}

Init ==
    /\ state = [r \in Runs |-> "queued"]
    /\ claims = [r \in Runs |-> 0]

Claim(r) ==
    /\ state[r] = "queued"
    /\ state' = [state EXCEPT ![r] = "claimed"]
    /\ claims' = [claims EXCEPT ![r] = @ + 1]

Report(r) ==
    /\ state[r] = "claimed"
    /\ state' = [state EXCEPT ![r] = "reported"]
    /\ UNCHANGED claims

Drop(r) ==
    /\ state[r] \in {"queued", "claimed"}
    /\ state' = [state EXCEPT ![r] = "dropped"]
    /\ UNCHANGED claims

Claimed == {r \in Runs : state[r] = "claimed"}

Restart ==
    /\ \E S \in SUBSET Claimed :
         state' = [r \in Runs |-> IF r \in S THEN "dropped"
                                  ELSE IF r \in Claimed THEN "queued" ELSE state[r]]
    /\ UNCHANGED claims

Next ==
    \/ \E r \in Runs : Claim(r) \/ Report(r) \/ Drop(r)
    \/ Restart

Spec == Init /\ [][Next]_vars
=============================================================================
