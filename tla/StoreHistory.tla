---------------------------- MODULE StoreHistory ----------------------------
(***************************************************************************)
(* ProxyStore with a memory: which sources came back complete since the    *)
(* recovery began, and which have been configured at every start since.    *)
(***************************************************************************)
EXTENDS ProxyStore

VARIABLES
  completed,  \* sources with a complete result since all of them were awaited
  steady      \* sources every start since then was configured with

historyVars == <<vars, completed, steady>>

HistoryInit == Init /\ completed = {} /\ steady = {}

(* The state file comes to record that every configured source is awaited. *)
AllAwaited ==
  /\ file' # file
  /\ file'.status = "present" /\ file'.state.pending = config'.expected

Remember(back) ==
  IF AllAwaited
  THEN completed' = {} /\ steady' = config'.expected
  ELSE completed' = completed \cup back /\ steady' = steady \cap config'.expected

HistoryNext ==
  \/ \E s \in Sources, us \in SUBSET Proxies, complete \in BOOLEAN :
       Update(s, us, complete) /\ Remember(IF complete THEN {s} ELSE {})
  \/ /\ \/ \E cfg \in Configs : Open(cfg)
        \/ \E s \in Sources : IgnoreZero(s)
        \/ Step \/ Fault
     /\ Remember({})

HistorySpec == HistoryInit /\ [][HistoryNext]_historyVars

-----------------------------------------------------------------------------
RecoveryEnded == FileInRecovery /\ file'.status = "present" /\ file'.state.pending = {}

(* The old list is given up only after every source that was configured    *)
(* when the recovery began, and at every start since, has come back        *)
(* complete: no partial result, failed save, crash, restart or change of   *)
(* configuration stands in for one (store.go Update, pruneUnknownLocked).  *)
(* A source first configured while the recovery is under way is not waited *)
(* for, though docs/architecture.md:32-33 names all that are configured.   *)
RecoveryWaitsForAll == [][RecoveryEnded => steady \subseteq completed]_historyVars

-----------------------------------------------------------------------------
(* The inductive invariant behind RecoveryWaitsForAll: whoever is not      *)
(* awaited any more, in the state file or in memory, has come back.        *)
AwaitedOrBack ==
  /\ FileInRecovery => steady \subseteq file.state.pending \cup completed
  /\ phase \in {"save", "publish", "ready"} /\ (FileInRecovery \/ mem.pending # {}) =>
       steady \subseteq mem.pending \cup completed
=============================================================================
