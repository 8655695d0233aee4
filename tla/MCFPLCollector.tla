--------------------------- MODULE MCFPLCollector ---------------------------
(***************************************************************************)
(* FPLCollector with three sources that may list more than their limits.     *)
(***************************************************************************)
EXTENDS FPLCollector

CONSTANTS p, q, r, bad, long

MCProxies == {p, q, r}
MCLists == {<<bad, q, p, q>>, <<q, p, r>>, <<r, long>>}
=============================================================================
