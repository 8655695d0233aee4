------------------------------ MODULE Recovery ------------------------------
(***************************************************************************)
(* Whether a recovery of ProxyStore ends.  The sources are assumed to come *)
(* back complete again and again, but not to have anything to offer: a     *)
(* complete zero result outside recovery changes nothing in the store, so  *)
(* a variable of this module turns with it, for the fairness to see it.    *)
(***************************************************************************)
EXTENDS ProxyStore

VARIABLES
  turn,  \* turns, for each source, with each of its complete results
  calm   \* history: faults have ceased for good

recoveryVars == <<vars, turn, calm>>

RecoveryInit ==
  /\ Init
  /\ turn = [s \in Sources |-> FALSE]
  /\ calm = FALSE

(* Source s comes back complete, with or without proxies. *)
Complete(s, us) ==
  /\ (us = {} /\ IgnoreZero(s)) \/ Update(s, us, TRUE)
  /\ turn' = [turn EXCEPT ![s] = ~@]
  /\ UNCHANGED calm

Partial(s, us) ==
  /\ (us = {} /\ IgnoreZero(s)) \/ Update(s, us, FALSE)
  /\ UNCHANGED <<turn, calm>>

CeaseFaults == ~calm /\ calm' = TRUE /\ UNCHANGED <<vars, turn>>

RecoveryNext ==
  \/ \E s \in Sources, us \in SUBSET Proxies : Complete(s, us) \/ Partial(s, us)
  \/ (\E cfg \in Configs : Open(cfg)) /\ UNCHANGED <<turn, calm>>
  \/ Step /\ UNCHANGED <<turn, calm>>
  \/ ~calm /\ Fault /\ UNCHANGED <<turn, calm>>
  \/ CeaseFaults

(* A service manager starts the process again, a call that holds the mutex *)
(* runs on, and every collector's loop goes on delivering: the loops never *)
(* end while the process runs, and Go's mutex lets each of them in.  That  *)
(* a source completes again and again is the assumption about the outside; *)
(* nothing is assumed about what it then delivers.                         *)
RecoveryFairness ==
  /\ WF_recoveryVars(\E cfg \in Configs : Open(cfg) /\ UNCHANGED <<turn, calm>>)
  /\ WF_recoveryVars(Step /\ UNCHANGED <<turn, calm>>)
  /\ \A s \in Sources : SF_recoveryVars(\E us \in SUBSET Proxies : Complete(s, us))

RecoverySpec == RecoveryInit /\ [][RecoveryNext]_recoveryVars /\ RecoveryFairness

-----------------------------------------------------------------------------
(* The store is waiting: in memory, or on disk with the process down.      *)
Waiting == mem.pending # {} \/ (phase = "down" /\ FileInRecovery)

Recovered == phase = "ready" /\ settled /\ mem.pending = {} /\ ~FileInRecovery

(* Once faults have ceased, a recovery the store is waiting in ends, in    *)
(* memory and on disk, with all writes of the call that ends it, even if   *)
(* every source that completes has nothing to offer (store.go:184-189): no *)
(* failed write, crash or lost file before leaves the store waiting for    *)
(* what will not come again.                                               *)
RecoveryEnds == calm /\ Waiting ~> Recovered

(* A recovery that is over in memory but, because its last save failed,    *)
(* still recorded on disk ends there too as soon as any source delivers    *)
(* proxies, in a complete or a partial result: every non-zero result is    *)
(* saved and published (store.go:184-198).  Complete results alone, if they *)
(* are all empty, do not end it: outside recovery they are ignored.        *)
Delivery == \E s \in Sources, us \in SUBSET Proxies :
              us # {} /\ (Complete(s, us) \/ Partial(s, us))

DeliveryEndsRecovery ==
  []<><<Delivery>>_recoveryVars => (calm /\ FileInRecovery ~> Recovered)
=============================================================================
