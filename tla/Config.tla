------------------------------- MODULE Config -------------------------------
(***************************************************************************)
(* From the configuration file to the store: the defaults Load fills in    *)
(* for options left out (0), the limits Check enforces (internal/config),  *)
(* and the source keys runServe then opens the store with                  *)
(* (internal/app).  The checks of the form of URLs, names, paths and keys, *)
(* and of the timeouts, the jitter and the logging options, leave a Boolean*)
(* here, `valid'.  A collector that is not configured has its options, too,*)
(* but nobody reads them.                                                  *)
(***************************************************************************)
EXTENDS Integers, SequencesExt

CONSTANTS
  Inputs,     \* configurations Load may decode
  StoreLimit  \* store.go maxProxies

VARIABLES
  options,   \* the configuration
  stage  \* "decoded", "loaded", "accepted", "rejected", "open" or "refused"

configVars == <<options, stage>>

(* Intervals are in minutes, sizes in MB. *)
DefaultRefreshInterval == 360
MinRefreshInterval == 1
DefaultFPLMaxResponse == 16
MaxFPLMaxResponse == 64
DefaultFPLSourceCandidates == 1000
DefaultFPLTotalCandidates == 10000
MaxFPLTotalCandidates == 50000
DefaultFPLFetchConcurrency == 4
MaxFPLFetchConcurrency == 16
MaxFPLSources == 64
MaxFOFASize == 10000
DefaultFOFATotalCandidates == 10000
MaxFOFAQueries == 32
MaxFreeProxyDBPageSize == 100
MaxFreeProxyDBCandidates == 10000
MaxRolaIPPageSize == 500
MaxRolaIPCandidates == 10000
MaxAliveConcurrency == 1024

(* What the theorem needs of the configurations: the collectors are those  *)
(* there are, and the FPL options have the types of config.go.             *)
FPLSource == [name : Nat, valid : BOOLEAN, bytes : Int, max : Int]

WellFormed(c) ==
  /\ c.present \subseteq {"fpl", "fofa", "freeproxydb"}
  /\ c.fpl.bytes \in Int /\ c.fpl.sources \in Seq(FPLSource)

ASSUME ConfigAssumption ==
  /\ StoreLimit \in Nat /\ StoreLimit >= 2 * MaxFPLTotalCandidates
  /\ \A c \in Inputs : WellFormed(c)

(* Definitions named X_Y are faulty variants of X: each breaks a property. *)

Or(value, default) == IF value = 0 THEN default ELSE value

DefaultFPLSources ==
  LET max == <<1000, 600, 400, 600, 1000, 600, 600, 600, 400, 600, 400, 400, 1000, 600, 400, 400>>
  IN  [i \in DOMAIN max |-> [name |-> i, valid |-> TRUE, bytes |-> 0, max |-> max[i]]]

FPLSourceDefaults(source, bytes) ==
  [source EXCEPT !.bytes = Or(@, bytes), !.max = Or(@, DefaultFPLSourceCandidates)]

FPLDefaults(c) ==
  LET bytes == Or(c.bytes, DefaultFPLMaxResponse)
      sources == IF c.sources = <<>> THEN DefaultFPLSources ELSE c.sources
  IN  [interval |-> Or(c.interval, DefaultRefreshInterval),
       bytes |-> bytes,
       total |-> Or(c.total, DefaultFPLTotalCandidates),
       fetch |-> Or(c.fetch, DefaultFPLFetchConcurrency),
       sources |-> [i \in DOMAIN sources |-> FPLSourceDefaults(sources[i], bytes)]]

FOFADefaults(c) ==
  [c EXCEPT !.interval = Or(@, DefaultRefreshInterval), !.size = Or(@, 100),
            !.total = Or(@, DefaultFOFATotalCandidates),
            !.queries = IF @ = <<>> THEN <<[name |-> 1, valid |-> TRUE], [name |-> 2, valid |-> TRUE]>>
                        ELSE @]

(* FreeProxyDB and RolaIP have the same options. *)
PagesDefaults(c, size) ==
  [c EXCEPT !.interval = Or(@, DefaultRefreshInterval), !.page = Or(@, size),
            !.delay = Or(@, 1), !.max = Or(@, 10000)]

ApplyDefaults(c) ==
  [present |-> c.present,
   valid |-> c.valid,
   enabled |-> IF c.enabled = "unset" THEN "true" ELSE c.enabled,
   alive |-> Or(c.alive, 64),
   fpl |-> FPLDefaults(c.fpl),
   fofa |-> FOFADefaults(c.fofa),
   freeproxydb |-> PagesDefaults(c.freeproxydb, 100),
   rolaip |-> PagesDefaults(c.rolaip, 500)]

-----------------------------------------------------------------------------
(* Check *)

(* checkSourceName and the form of the other fields, one by one. *)
NamesOK(sources) ==
  /\ \A i \in DOMAIN sources : sources[i].valid
  /\ \A i, j \in DOMAIN sources : i # j => sources[i].name # sources[j].name

Budget(c) == FoldLeft(LAMBDA sum, s : sum + s.max, 0, c.sources)

CheckFPL_NoBudget(c) ==
  /\ c.interval >= MinRefreshInterval
  /\ c.bytes \in 1 .. MaxFPLMaxResponse
  /\ c.total \in 1 .. MaxFPLTotalCandidates
  /\ c.fetch \in 1 .. MaxFPLFetchConcurrency
  /\ Len(c.sources) \in 1 .. MaxFPLSources
  /\ NamesOK(c.sources)
  /\ \A i \in DOMAIN c.sources : /\ c.sources[i].bytes \in 1 .. MaxFPLMaxResponse
                                 /\ c.sources[i].max \in 1 .. c.total

CheckFPL(c) ==
  /\ c.interval >= MinRefreshInterval
  /\ c.bytes \in 1 .. MaxFPLMaxResponse
  /\ c.total \in 1 .. MaxFPLTotalCandidates
  /\ c.fetch \in 1 .. MaxFPLFetchConcurrency
  /\ Len(c.sources) \in 1 .. MaxFPLSources
  /\ NamesOK(c.sources)
  /\ \A i \in DOMAIN c.sources : /\ c.sources[i].bytes \in 1 .. MaxFPLMaxResponse
                                 /\ c.sources[i].max \in 1 .. c.total
  /\ Budget(c) <= c.total * 2

CheckFOFA(c) ==
  /\ c.interval >= MinRefreshInterval
  /\ c.valid
  /\ c.size \in 1 .. MaxFOFASize
  /\ c.total \in 1 .. DefaultFOFATotalCandidates
  /\ Len(c.queries) \in 1 .. MaxFOFAQueries
  /\ NamesOK(c.queries)

CheckPages(c, size, candidates) ==
  /\ c.interval >= MinRefreshInterval
  /\ c.valid
  /\ c.page \in 1 .. size
  /\ c.delay >= 0
  /\ c.max \in 1 .. candidates

(* Three collectors are on if they are configured, RolaIP unless disabled. *)
Active(c) == c.present \cup (IF c.enabled = "false" THEN {} ELSE {"rolaip"})

(* The form of the shared options, the checks of every active collector;   *)
(* at least one has to be active.                                          *)
Allows(c) ==
  /\ c.valid
  /\ c.alive \in 1 .. MaxAliveConcurrency
  /\ "fpl" \in Active(c) => CheckFPL(c.fpl)
  /\ "fofa" \in Active(c) => CheckFOFA(c.fofa)
  /\ "freeproxydb" \in Active(c) =>
       CheckPages(c.freeproxydb, MaxFreeProxyDBPageSize, MaxFreeProxyDBCandidates)
  /\ "rolaip" \in Active(c) => CheckPages(c.rolaip, MaxRolaIPPageSize, MaxRolaIPCandidates)
  /\ Active(c) # {}

-----------------------------------------------------------------------------
(* Starting *)

(* sourceKeys: one key per list or query, one per paging collector. *)
SourceNames(c, k) ==
  CASE k = "fpl"  -> [i \in DOMAIN c.fpl.sources |-> c.fpl.sources[i].name]
    [] k = "fofa" -> [i \in DOMAIN c.fofa.queries |-> c.fofa.queries[i].name]
    [] OTHER      -> <<1>>

(* Open refuses a key given twice. *)
Opens(c) == \A k \in Active(c) : IsInjective(SourceNames(c, k))

ConfigInit == options \in Inputs /\ stage = "decoded"

Load == stage = "decoded" /\ options' = ApplyDefaults(options) /\ stage' = "loaded"

Check ==
  /\ stage = "loaded"
  /\ options' = ApplyDefaults(options)
  /\ stage' = IF Allows(options') THEN "accepted" ELSE "rejected"

OpenStore ==
  /\ stage = "accepted"
  /\ stage' = IF Opens(options) THEN "open" ELSE "refused"
  /\ UNCHANGED options

ConfigNext == Load \/ Check \/ OpenStore

ConfigSpec == ConfigInit /\ [][ConfigNext]_configVars

-----------------------------------------------------------------------------
(* Property *)

(* The most proxies a collector hands over for each of its sources.        *)
LargestResults(c, k) ==
  CASE k = "fpl"         -> {c.fpl.sources[i].max : i \in DOMAIN c.fpl.sources}
    [] k = "fofa"        -> {IF c.fofa.size < c.fofa.total THEN c.fofa.size ELSE c.fofa.total}
    [] k = "freeproxydb" -> {c.freeproxydb.max}
    [] k = "rolaip"      -> {c.rolaip.max}

(* A configuration that Check accepts fits the limits of the store as far  *)
(* as the checks look: Open never refuses its keys, no result is larger    *)
(* than Update takes (store.go:258), what the FPL lists can have in the    *)
(* state at one time is within what load takes back (store.go:293, the     *)
(* budget rule of config.go:505), and the options the other modules take   *)
(* for positive are.  The lists of all collectors together may still be    *)
(* more than load takes back: no check adds them up.                       *)
AcceptedFitsStore ==
  /\ stage # "refused"
  /\ stage \in {"accepted", "open"} =>
       /\ \A k \in Active(options) : LargestResults(options, k) \subseteq 1 .. StoreLimit
       /\ "fpl" \in Active(options) => Budget(options.fpl) <= StoreLimit
       /\ options.alive > 0 /\ ("fpl" \in Active(options) => options.fpl.fetch > 0)

(* The inductive invariant behind it: nothing changes a configuration      *)
(* between the checks and the store (config.go:402, app.go:128).           *)
FitInv ==
  /\ WellFormed(options)
  /\ stage \in {"decoded", "loaded", "accepted", "rejected", "open"}
  /\ stage \in {"accepted", "open"} => Allows(options)
=============================================================================
