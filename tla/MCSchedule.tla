----------------------------- MODULE MCSchedule -----------------------------
(* Bound of the run of Schedule.                                            *)
EXTENDS Schedule

(* A user's change and a crash in one behaviour are followed to the unit    *)
(* before the last one.                                                     *)
Followed == clock = MaxTime => edits + crashes < 2
=============================================================================
