------------------------------ MODULE MCIntake ------------------------------
(***************************************************************************)
(* Messages are alike, so only behaviours in which the first one comes     *)
(* first are followed: every other one is such a behaviour with the names  *)
(* exchanged.  So are goroutines, which remember nothing: the second one   *)
(* is used while the first one is at work.  A report handled twice is      *)
(* followed for the first message.                                         *)
(***************************************************************************)
EXTENDS Intake

CONSTANTS m1, m2, h1, h2

InOrder == run[m2].status # "none" => run[m1].status # "none"

FirstIdle == handler[h1].pc = "idle" => handler'[h2].pc = "idle" \/ handler[h2].pc # "idle"

FirstRepeated == run[m2].reports < MaxReports
=============================================================================
