---------------------------- MODULE MCFreeProxyDB ---------------------------
(***************************************************************************)
(* FreeProxyDB against servers that list up to five records.               *)
(***************************************************************************)
EXTENDS FreeProxyDB

CONSTANTS p, q, bad

MCProxies == {p, q}
MCRetryDelays == <<2, 3>>
MCCatalogues == BoundedSeq({p, q, bad}, 5)
MCHeaders == [kind : {"none"}, value : {0}] \cup
             [kind : {"seconds"}, value : {1, 6}] \cup
             [kind : {"date"}, value : {40}]
=============================================================================
