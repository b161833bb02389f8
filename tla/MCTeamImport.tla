---------------------------- MODULE MCTeamImport ----------------------------
(* Instances of TeamImport: a team of a leader and two members.            *)
EXTENDS TeamImport

CONSTANTS m1, m2

MCMembers == <<m1, m2>>
=============================================================================
