-------------------------- MODULE MCRollingCycle --------------------------
(* Small instances of RollingCycle: a content root with one folder below it. *)
EXTENDS RollingCycle

CONSTANTS root, sub, none

MCFolders == {root, sub}
\* A content root alone, for runs with two cycles at once.
MCRootFolders == {root}
MCRootParent == [f \in {root} |-> none]

MCParent == [f \in {root, sub} |-> IF f = sub THEN root ELSE none]
=============================================================================
