----------------------------- MODULE MCDelivery -----------------------------
(* Instances of Delivery.                                                   *)
EXTENDS Delivery, TLC

CONSTANTS a1, r1, r2

(* Every agent works on the same machine.                                   *)
OneMachine == [a \in Agents |-> CHOOSE m \in Machines : TRUE]

(* The first agent works on one machine and the others on another one.      *)
TwoMachines ==
    LET one == CHOOSE m \in Machines : TRUE
        two == CHOOSE m \in Machines : m # one
        first == CHOOSE a \in Agents : TRUE
    IN  [a \in Agents |-> IF a = first THEN one ELSE two]

(* A cancelled goal is not reopened here, so nothing follows but the        *)
(* deletion of its branch.                                                  *)
Followed == goal = "cancelled" => cleaning /\ run = Idle /\ strays = {}

(* Runs are alike, and so are the agents of one machine: the first run      *)
(* comes first, and is the first agent's.  Any other behaviour is one of    *)
(* these with names exchanged, but for handoffs before the first run.       *)
InOrder ==
    /\ r2 \notin unborn => r1 \notin unborn
    /\ Runs \subseteq unborn => owner = a1
==============================================================================
