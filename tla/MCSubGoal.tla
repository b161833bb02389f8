------------------------------ MODULE MCSubGoal ------------------------------
(* Symmetry and bound of the runs of SubGoal.                               *)
EXTENDS SubGoal, TLC

(* Row ids are random and nothing compares them.                            *)
RowSymmetry == Permutations(Rows)

(* What the rest of the runs does once the goal ended is not followed, nor  *)
(* what follows when an owner's retry meets a sub-goal on its second try.   *)
Open ==
    /\ goal \in {"active", "review"}
    /\ (\E r \in Rows : row[r].attempt > 1) => \A s \in SubGoals : sub[s].tries = 0
==============================================================================
