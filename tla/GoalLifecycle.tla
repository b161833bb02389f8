--------------------------- MODULE GoalLifecycle ---------------------------
(***************************************************************************)
(* What the goal layer promises about one goal (DESIGN.md, the goal state  *)
(* machine and invariant 6): the edges its status may take, and who writes *)
(* its branch.  Work begins only on an active goal that nobody works on,   *)
(* and a change of status never hands the branch from one writer to        *)
(* another.  GoalRun implements this.                                      *)
(***************************************************************************)
CONSTANT Writers     \* what is given the goal's branch: its owner runs

VARIABLES
    status,          \* goal.status
    writing          \* the writers at work

vars == <<status, writing>>

Terminal == {"done", "failed", "cancelled"}

Init ==
    /\ status = "backlog"
    /\ writing = {}

Edge(from, to) == status \in from /\ status' = to /\ UNCHANGED writing

Start    == Edge({"backlog"}, "active")
Park     == Edge({"active"}, "review")
Release  == Edge({"review"}, "active")
Complete == Edge({"active", "review"}, "done")
Fail     == Edge({"active", "review"}, "failed")
Cancel   == Edge({"backlog", "active", "review"}, "cancelled")
Reopen   == Edge(Terminal, "active")

Begin(w) ==
    /\ status = "active"
    /\ writing = {} /\ writing' = {w}
    /\ UNCHANGED status

(* One writer or, when the platform restarts, all of them stop.            *)
Stop ==
    /\ writing' \subseteq writing
    /\ UNCHANGED status

Next ==
    \/ Start \/ Park \/ Release \/ Complete \/ Fail \/ Cancel \/ Reopen
    \/ \E w \in Writers : Begin(w)
    \/ Stop

Spec == Init /\ [][Next]_vars
=============================================================================
