---------------------------- MODULE MCIssueSync ----------------------------
(* Instances of IssueSync: an issue and a pull request of one domain.      *)
EXTENDS IssueSync

CONSTANT d1

MCOneOrder == <<d1>>
MCOneRepo == [i \in Items |-> d1]
============================================================================
