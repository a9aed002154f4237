--------------------------- MODULE MCFirstIndex ---------------------------
(* A small instance of FirstIndex: a root of two files and a root of one. *)
EXTENDS FirstIndex

CONSTANTS A, B, a1, a2, b1

MCRoots == <<A, B>>
MCPaths == {a1, a2, b1}
MCRootOf == [p \in MCPaths |-> IF p = b1 THEN B ELSE A]
=============================================================================
