------------------------------ MODULE MCConfig ------------------------------
(***************************************************************************)
(* Config on the boundary values of every option, one collector at a time. *)
(***************************************************************************)
EXTENDS Config

FPLUnset == [interval |-> 0, bytes |-> 0, total |-> 0, fetch |-> 0, sources |-> <<>>]
FOFAUnset == [interval |-> 0, valid |-> TRUE, size |-> 0, total |-> 0, queries |-> <<>>]
PagesUnset == [interval |-> 0, valid |-> TRUE, page |-> 0, delay |-> 0, max |-> 0]

Unset == [present |-> {}, valid |-> TRUE, enabled |-> "unset", alive |-> 0, fpl |-> FPLUnset,
          fofa |-> FOFAUnset, freeproxydb |-> PagesUnset, rolaip |-> PagesUnset]

PlainList == [name : {1, 2, 3}, valid : {TRUE}, bytes : {0}, max : {0, 50000}]
OddList == [name : {1}, valid : BOOLEAN, bytes : {0, 64, 65}, max : {-1, 1, 50001}]

FPLInputs ==
  [interval : {0}, bytes : {0}, total : {0, 1, 25000, 50000}, fetch : {0},
   sources : SeqOf(PlainList, 3) \cup SeqOf(OddList \cup PlainList, 1)] \cup
  [interval : {-1, 0, 1}, bytes : {-1, 0, 64, 65}, total : {-1, 0, 999, 50000, 50001},
   fetch : {-1, 0, 16, 17}, sources : {<<>>}]

FOFAInputs ==
  [interval : {0, 1}, valid : BOOLEAN, size : {-1, 0, 10000, 10001}, total : {-1, 0, 1, 10000, 10001},
   queries : SeqOf([name : {1, 2}, valid : BOOLEAN], 2)]

PagesInputs ==
  [interval : {-1, 0, 1}, valid : BOOLEAN, page : {-1, 0, 100, 101, 500, 501}, delay : {-1, 0},
   max : {-1, 0, 1, 10000, 10001}]

MCInputs ==
  {[Unset EXCEPT !.valid = ok, !.alive = n, !.present = s, !.enabled = e] :
     ok \in BOOLEAN, n \in {-1, 0, 1, 1024, 1025}, s \in SUBSET {"fpl", "fofa", "freeproxydb"},
     e \in {"unset", "true", "false"}} \cup
  {[Unset EXCEPT !.present = {"fpl"}, !.fpl = f] : f \in FPLInputs} \cup
  {[Unset EXCEPT !.present = {"fofa"}, !.fofa = f] : f \in FOFAInputs} \cup
  {[Unset EXCEPT !.present = {"freeproxydb"}, !.freeproxydb = f] : f \in PagesInputs} \cup
  {[Unset EXCEPT !.rolaip = f] : f \in PagesInputs}
=============================================================================
