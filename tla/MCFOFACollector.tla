--------------------------- MODULE MCFOFACollector --------------------------
(***************************************************************************)
(* FOFACollector with three queries on a budget that two can use up.       *)
(***************************************************************************)
EXTENDS FOFACollector

CONSTANTS p, q, r, bad

MCProxies == {p, q, r}
MCAnswers == SeqOf({p, q, r, bad}, 2) \cup {<<p, q, r>>, <<p, bad, p, q>>}
=============================================================================
