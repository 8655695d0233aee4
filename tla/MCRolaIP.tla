------------------------------ MODULE MCRolaIP ------------------------------
(***************************************************************************)
(* RolaIP against servers of up to three pages, whatever they say of them. *)
(***************************************************************************)
EXTENDS RolaIP

CONSTANTS p, q, r, bad

MCProxies == {p, q, r}
MCRetryDelays == <<2, 3>>

(* Lists that end before, at and after each limit: 2 candidates, 2 pages   *)
(* and 6 counted candidates.  After four, a record of two makes 6 and      *)
(* another record one too many, and after five it makes 7.                 *)
FirstPages == {<<<<p>>>>, <<<<bad>>, <<>>>>, <<<<p>>, <<r>>>>, <<<<p, q>>, <<p, q>>>>}
SecondPages == {<<>>, <<<<q>>>>, <<<<p, q>>>>, <<<<p, q>>, <<q, r>>>>, <<<<p>>, <<p, q>>>>}
MCCatalogues ==
  {<<>>} \cup {<<f>> : f \in FirstPages} \cup
  {<<f, g>> : f \in FirstPages, g \in SecondPages \ {<<>>}} \cup
  {<<f, g, <<<<r>>>>>> : f \in FirstPages, g \in SecondPages}

(* No list, one said to be empty but for its pages, one to three pages,    *)
(* and what no server should say.                                          *)
MCClaims ==
  [size : {2}, total : {0}, pages : {0, 2}] \cup
  [size : {2}, total : {4}, pages : 1 .. 3] \cup
  {[size |-> 0, total |-> 4, pages |-> 2], [size |-> 2, total |-> -1, pages |-> 2],
   [size |-> 2, total |-> 4, pages |-> 0], [size |-> 2, total |-> 0, pages |-> -1]}

MCHeaders == [kind : {"none"}, value : {0}] \cup
             [kind : {"seconds"}, value : {-1, 1, 6, 40, 65}] \cup
             [kind : {"date"}, value : {2, 40}]
=============================================================================
