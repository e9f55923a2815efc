--------------------------- MODULE MCProblemCache ---------------------------
(* An instance of ProblemCache for TLC. *)
EXTENDS ProblemCache, TLC

CONSTANTS p1, p2, s1, s2

(* Which lock is called s1 does not matter.                                *)
SharedOrNot == {(p1 :> s1) @@ (p2 :> s1), (p1 :> s1) @@ (p2 :> s2)}
=============================================================================
