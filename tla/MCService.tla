----------------------------- MODULE MCService ------------------------------
(***************************************************************************)
(* Service with a collector of two sources and one of a single source.     *)
(***************************************************************************)
EXTENDS Service

CONSTANTS a1, a2, b, p, x, y

MCSources == {a1, a2, b}
MCProxies == {p}
MCCollectors == {x, y}
MCKeys == [c \in MCCollectors |-> IF c = x THEN <<a1, a2>> ELSE <<b>>]
MCConfigs == [expected : {{a1, a2, b}}, alive : {FALSE}]
MCLegacyLists == {{p}}
=============================================================================
