--------------------------- MODULE MCStoreHistory ---------------------------
(***************************************************************************)
(* StoreHistory on two sources and two proxies.                            *)
(***************************************************************************)
EXTENDS StoreHistory

CONSTANTS a, b, p, q

MCSources == {a, b}
MCProxies == {p, q}
MCLegacyLists == {{}, {p}}
MCDamageKinds == {"absent", "garbled"}

(* Source b comes and goes, and may be all the state knows when it goes;   *)
(* validation is switched on and off.                                      *)
MCConfigs ==
  {[expected |-> {a}, alive |-> FALSE]} \cup [expected : {{a, b}}, alive : BOOLEAN]

(* The same sources at every start. *)
FixedConfig == [expected : {{a, b}}, alive : {FALSE}]
=============================================================================
