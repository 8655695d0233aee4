----------------------------- MODULE MCRecovery -----------------------------
(***************************************************************************)
(* Recovery with two sources, one proxy and a list from before.            *)
(***************************************************************************)
EXTENDS Recovery

CONSTANTS a, b, p

MCSources == {a, b}
MCProxies == {p}
MCLegacyLists == {{p}}
MCDamageKinds == {"absent", "garbled"}
MCConfigs == [expected : {{a}, {a, b}}, alive : BOOLEAN]
=============================================================================
