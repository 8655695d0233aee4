------------------------------ MODULE Service -------------------------------
(***************************************************************************)
(* The running process (internal/app/app.go): runServe opens the store,    *)
(* starts the web server and one collection loop per collector, waits for  *)
(* a signal and stops in order.  The loops run concurrently and share the  *)
(* ProxyStore.  Its mutex is taken as given: it is free exactly when the   *)
(* store's phase is "ready", and a call begins only then.                  *)
(*                                                                         *)
(* Collect is the other modules' subject.  Here a round is any results,    *)
(* one for each of the collector's sources, and whether cancellation cut   *)
(* it short.                                                               *)
(***************************************************************************)
EXTENDS ProxyStore, Sequences

CONSTANTS
  Collectors,
  Keys  \* for each collector its sources, in the order of a round's results

ASSUME ServiceAssumption ==
  /\ Keys \in [Collectors -> Seq(Sources)]
  /\ \A c, d \in Collectors : \A i \in DOMAIN Keys[c], j \in DOMAIN Keys[d] :
       Keys[c][i] = Keys[d][j] => c = d /\ i = j  \* Open refuses duplicate keys
  /\ \A cfg \in Configs : cfg.expected = UNION {{Keys[c][i] : i \in DOMAIN Keys[c]} : c \in Collectors}

VARIABLES
  main,       \* runServe: "down", "opening", "serving" or "closing"
  cancelled,  \* ctx is done: SIGINT or SIGTERM has arrived
  loop,       \* collection loop: "off", "collect", "collected", "store", "sleep", "done"
  round,      \* collection loop: the results that are being handed over
  result,     \* collection loop: which of them is next for the store
  cut,        \* collection loop: the round was interrupted by the cancellation
  holder      \* the collector whose call the store is at, if any

procVars == <<main, cancelled, loop, round, result, cut, holder>>
serviceVars == <<vars, procVars>>

AllLoops(what) == [c \in Collectors |-> what]

(* collector.Result, as collectOnce reads it. *)
Result == [urls : SUBSET Proxies, complete : BOOLEAN]

(* Definitions named X_Y are faulty variants of X: each breaks a property. *)

ServiceInit ==
  /\ Init
  /\ main = "down"
  /\ cancelled = FALSE
  /\ loop = AllLoops("off")
  /\ round = AllLoops(<<>>)
  /\ result = AllLoops(1)
  /\ cut = AllLoops(FALSE)
  /\ holder = {}

-----------------------------------------------------------------------------
(* runServe *)

Start ==
  /\ main = "down"
  /\ \E cfg \in Configs : Open(cfg)
  /\ main' = IF phase' = "down" THEN "down" ELSE "opening"
  /\ UNCHANGED <<cancelled, loop, round, result, cut, holder>>

(* The web server listens; the loops start together. *)
Serve ==
  /\ main = "opening" /\ phase = "ready"
  /\ main' = "serving"
  /\ loop' = AllLoops("collect")
  /\ UNCHANGED <<vars, cancelled, round, result, cut, holder>>

Signal ==
  /\ main = "serving" /\ ~cancelled
  /\ cancelled' = TRUE
  /\ UNCHANGED <<vars, main, loop, round, result, cut, holder>>

StopWeb_NoWait ==
  /\ main = "serving" /\ cancelled
  /\ main' = "closing"
  /\ UNCHANGED <<vars, cancelled, loop, round, result, cut, holder>>

(* wait.Wait() has returned: only now does the web server shut down. *)
StopWeb ==
  /\ main = "serving" /\ cancelled
  /\ \A c \in Collectors : loop[c] = "done"
  /\ main' = "closing"
  /\ UNCHANGED <<vars, cancelled, loop, round, result, cut, holder>>

(* The process is gone, and with it every goroutine. *)
Gone ==
  /\ main' = "down"
  /\ cancelled' = FALSE
  /\ loop' = AllLoops("off")
  /\ round' = AllLoops(<<>>)
  /\ result' = AllLoops(1)
  /\ cut' = AllLoops(FALSE)
  /\ holder' = {}

(* runServe returns, after the shutdown or because the web server cannot   *)
(* listen.                                                                 *)
Exit ==
  /\ main = "closing" \/ (main = "opening" /\ phase = "ready")
  /\ Kill
  /\ Gone

Crash ==
  /\ main # "down"
  /\ Kill
  /\ Gone

Damage == LoseState /\ UNCHANGED procVars

-----------------------------------------------------------------------------
(* collectionLoop and collectOnce *)

(* Collect returns; a cancelled context has made it stop early. *)
Collect(c) ==
  /\ loop[c] = "collect"
  /\ loop' = [loop EXCEPT ![c] = "collected"]
  /\ cut' = [cut EXCEPT ![c] = cancelled]
  /\ UNCHANGED <<vars, main, cancelled, round, result, holder>>

UseRound_Unchecked(c) ==
  /\ loop[c] = "collected"
  /\ loop' = [loop EXCEPT ![c] = "store"]
  /\ result' = [result EXCEPT ![c] = 1]
  /\ \E results \in [DOMAIN Keys[c] -> Result] : round' = [round EXCEPT ![c] = results]
  /\ UNCHANGED <<vars, main, cancelled, cut, holder>>

(* ctx.Err() after Collect: a cancelled round is dropped as a whole. *)
UseRound(c) ==
  /\ loop[c] = "collected"
  /\ loop' = [loop EXCEPT ![c] = IF cancelled THEN "done" ELSE "store"]
  /\ result' = [result EXCEPT ![c] = 1]
  /\ IF cancelled
     THEN UNCHANGED round
     ELSE \E results \in [DOMAIN Keys[c] -> Result] : round' = [round EXCEPT ![c] = results]
  /\ UNCHANGED <<vars, main, cancelled, cut, holder>>

Pending(c) == loop[c] = "store" /\ result[c] <= Len(Keys[c])

(* The mutex is taken for the next result of the round. *)
Lock(c) ==
  /\ Pending(c)
  /\ LET s == Keys[c][result[c]]
         r == round[c][result[c]]
     IN \/ /\ r.urls = {} /\ IgnoreZero(s)
           /\ result' = [result EXCEPT ![c] = @ + 1]
           /\ UNCHANGED holder
        \/ /\ Update(s, r.urls, r.complete)
           /\ holder' = {c}
           /\ UNCHANGED result
  /\ UNCHANGED <<main, cancelled, loop, round, cut>>

Unlock_RetriesOnError ==
  IF phase' = "ready"
  THEN /\ holder' = {}
       /\ result' = [c \in Collectors |-> IF c \in holder /\ ~reply'.err
                                          THEN result[c] + 1 ELSE result[c]]
  ELSE UNCHANGED <<holder, result>>

Unlock_BreaksOnError ==
  IF phase' = "ready"
  THEN /\ holder' = {}
       /\ result' = [c \in Collectors |->
                       IF c \notin holder THEN result[c]
                       ELSE IF reply'.err THEN Len(Keys[c]) + 1 ELSE result[c] + 1]
  ELSE UNCHANGED <<holder, result>>

Unlock_AdvancesAll ==
  IF phase' = "ready"
  THEN /\ holder' = {}
       /\ result' = [c \in Collectors |-> result[c] + 1]
  ELSE UNCHANGED <<holder, result>>

(* Update returns: the mutex is free and the round goes on with its next   *)
(* result, error or not.                                                   *)
Unlock ==
  IF phase' = "ready"
  THEN /\ holder' = {}
       /\ result' = [c \in Collectors |-> IF c \in holder THEN result[c] + 1 ELSE result[c]]
  ELSE UNCHANGED <<holder, result>>

WriteFails == QuarantineFails \/ SaveFails \/ PublishFails

(* The store call in progress, of a loop or of the opening, moves on. *)
InStore ==
  /\ Step \/ WriteFails
  /\ phase' # "down"
  /\ Unlock
  /\ UNCHANGED <<main, cancelled, loop, round, cut>>

(* A write failed in Open: runServe returns 1. *)
OpenFails ==
  /\ WriteFails
  /\ phase' = "down"
  /\ Gone

(* The round is over: sleep, unless the context is done. *)
EndRound(c) ==
  /\ loop[c] = "store" /\ result[c] > Len(Keys[c])
  /\ loop' = [loop EXCEPT ![c] = IF cancelled THEN "done" ELSE "sleep"]
  /\ round' = [round EXCEPT ![c] = <<>>]
  /\ UNCHANGED <<vars, main, cancelled, result, cut, holder>>

Wake(c) ==
  /\ loop[c] = "sleep"
  /\ \/ loop' = [loop EXCEPT ![c] = "collect"]
     \/ cancelled /\ loop' = [loop EXCEPT ![c] = "done"]
  /\ UNCHANGED <<vars, main, cancelled, round, result, cut, holder>>

Loop(c) == Collect(c) \/ UseRound(c) \/ Lock(c) \/ EndRound(c) \/ Wake(c)

ServiceNext ==
  \/ Start \/ Serve \/ Signal \/ StopWeb \/ Exit \/ Crash \/ Damage
  \/ InStore \/ OpenFails
  \/ \E c \in Collectors : Loop(c)

ServiceSpec == ServiceInit /\ [][ServiceNext]_serviceVars

(* Goroutines that can run do run; Go's mutex lets every waiter in.  Wake  *)
(* is fair because the timer or the signal comes.                          *)
Fairness ==
  /\ WF_serviceVars(InStore \/ StopWeb \/ Exit)
  /\ \A c \in Collectors : /\ WF_serviceVars(Collect(c) \/ UseRound(c) \/ EndRound(c) \/ Wake(c))
                           /\ SF_serviceVars(Lock(c))

FairServiceSpec == ServiceSpec /\ Fairness

-----------------------------------------------------------------------------
(* Properties *)

ServiceTypeOK ==
  /\ main \in {"down", "opening", "serving", "closing"}
  /\ cancelled \in BOOLEAN
  /\ loop \in [Collectors -> {"off", "collect", "collected", "store", "sleep", "done"}]
  /\ round \in [Collectors -> Seq(Result)]
  /\ \A c \in Collectors : Len(round[c]) = IF loop[c] = "store" THEN Len(Keys[c]) ELSE 0
  /\ result \in [Collectors -> Nat]
  /\ \A c \in Collectors : result[c] \in 1 .. Len(Keys[c]) + 1
  /\ cut \in [Collectors -> BOOLEAN]
  /\ holder \in SUBSET Collectors

(* The store has result i of the round. *)
Has(c, i) ==
  /\ round[c][i].urls # {} => mem.urls[Keys[c][i]] = round[c][i].urls
  /\ round[c][i].complete => Keys[c][i] \notin mem.pending

(* When a loop is through with a round the store has all of it: every      *)
(* result that is not empty is what the store holds of its source, under   *)
(* its own name, and a complete one is awaited no more, whichever updates  *)
(* failed, whatever other loops handed over in between and whether or not  *)
(* a signal came (app.go:220-245).                                         *)
RoundStored ==
  [][\A c \in Collectors : loop[c] = "store" /\ loop'[c] \in {"sleep", "done"} =>
       \A i \in DOMAIN Keys[c] : Has(c, i)]_serviceVars

(* A round that the cancellation cut short never reaches the store, so no  *)
(* source is replaced by the part of a result collected before a stop      *)
(* (docs/config.md:58).                                                    *)
CutRoundNotStored == \A c \in Collectors : loop[c] = "store" => ~cut[c]

(* An orderly stop interrupts nothing: when the web server closes no loop  *)
(* is at work and no call is between the state file and the list.          *)
OrderlyStop ==
  main = "closing" => /\ phase = "ready"
                      /\ \A c \in Collectors : loop[c] = "done"

(* Once the signal has come the process ends: no loop sleeps on, waits for *)
(* the mutex for ever or starts round after round.                         *)
StopsAfterSignal == cancelled ~> main = "down"

(* Every round comes to its end: a loop that is handing over results never *)
(* waits for the mutex for ever, and an update that fails is not tried     *)
(* again and again.                                                        *)
RoundEnds ==
  \A c \in Collectors : loop[c] = "store" ~> loop[c] \in {"sleep", "done", "off"}

-----------------------------------------------------------------------------
(* The inductive invariant behind the safety properties above.             *)

(* A store call under way is Open's, before any loop runs, or that of the  *)
(* one loop that is at a result.                                           *)
CallOwned ==
  /\ phase \in {"quarantine", "save", "publish"} =>
       \/ booting /\ main = "opening" /\ holder = {} /\ loop = AllLoops("off")
       \/ ~booting /\ main = "serving" /\ \E c \in Collectors : holder = {c} /\ Pending(c)
  /\ phase = "ready" => holder = {}

(* The store has what was handed over so far, the result it is at included.*)
HandedOver ==
  \A c \in Collectors : loop[c] = "store" =>
    \A i \in DOMAIN Keys[c] : i < result[c] \/ (i = result[c] /\ c \in holder) => Has(c, i)

(* The store is down exactly when the process is, loops and mutex are idle *)
(* before the service is up, and a round that was cut waits for the check  *)
(* that drops it.                                                          *)
ProcessInv ==
  /\ ServiceTypeOK
  /\ CallOwned
  /\ CutRoundNotStored
  /\ OrderlyStop
  /\ phase = "down" <=> main = "down"
  /\ main \in {"down", "opening"} => loop = AllLoops("off") /\ holder = {}
  /\ \A c \in Collectors : loop[c] = "collected" /\ cut[c] => cancelled

ServiceInv == ProcessInv /\ HandedOver
=============================================================================
