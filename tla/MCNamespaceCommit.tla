------------------------- MODULE MCNamespaceCommit -------------------------
(* Instances of NamespaceCommit for TLC.                                   *)
EXTENDS NamespaceCommit

\* A clock that advances between commits.
Advancing == [v \in Jobs |-> v]
=============================================================================
