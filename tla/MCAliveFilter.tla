--------------------------- MODULE MCAliveFilter ----------------------------
(***************************************************************************)
(* AliveFilter on lists of up to three URLs and pools of zero to two.      *)
(***************************************************************************)
EXTENDS AliveFilter

MCConcurrencies == 0 .. 2
=============================================================================
