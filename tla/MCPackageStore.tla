--------------------------- MODULE MCPackageStore ---------------------------
(* Instances of PackageStore for TLC. *)
EXTENDS PackageStore, TLC

CONSTANTS case, in, out

OneCase == case :> {in, out}

Data == {{in, out}}

(* The pair, or its input alone.                                           *)
PairOrHalf == {in :> 1, (in :> 1) @@ (out :> 1)}

Symmetric == Permutations(Edits) \cup Permutations(Collectors)
=============================================================================
