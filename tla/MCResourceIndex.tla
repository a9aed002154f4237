-------------------------- MODULE MCResourceIndex --------------------------
(* Small instances of ResourceIndex: one folder of two files and one of one. *)
EXTENDS ResourceIndex, TLC

CONSTANTS A, B, a1, a2, b1

MCScopes == {A, B}
MCPaths == {a1, a2, b1}
MCScopeOf == [p \in MCPaths |-> IF p = b1 THEN B ELSE A]
Symmetry == Permutations(Ids) \cup Permutations(Contents) \cup Permutations({a1, a2})
=============================================================================
