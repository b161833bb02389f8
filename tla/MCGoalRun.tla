----------------------------- MODULE MCGoalRun -----------------------------
(* Instances of GoalRun for TLC: two agents, one squad led by the first of *)
(* them and reviewed by the second.                                        *)
EXTENDS GoalRun, TLC

CONSTANTS a1, a2, q1

MCLeader == [q \in Squads |-> a1]
MCReviewer == [q \in Squads |-> a2]

SessionSymmetry == Permutations(Sessions) \cup Permutations(Jobs)
=============================================================================
