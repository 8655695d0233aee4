---------------------------- MODULE FPLCollector ----------------------------
(***************************************************************************)
(* The FPL collector (internal/collectors/fpl) round after round: Collect  *)
(* offers the indices of its sources to a pool of workers over an          *)
(* unbuffered channel, each worker fetches and parses one list, asking the *)
(* server whether it changed since the cached one, and Collect cuts the    *)
(* lists to a shared budget.  The context may be done at any time.         *)
(*                                                                         *)
(* A list is a sequence of lines: a proxy, Invalid (refused by parseLine)  *)
(* or LongLine (beyond the scanner's buffer).  A server may have any list  *)
(* when it answers; its validators, where it sends any, are truthful.      *)
(***************************************************************************)
EXTENDS Integers, SequencesExt

CONSTANTS
  NumSources,        \* len(cfg.Sources)
  FetchConcurrency,  \* fetch_concurrency
  Proxies, Invalid, LongLine,
  Lists,             \* lists a server may have
  MaxCandidates,     \* max_candidates of each source
  TotalCandidates    \* total_max_candidates

ASSUME FPLAssumption ==
  /\ NumSources \in Nat \ {0}
  /\ FetchConcurrency \in Nat \ {0}
  /\ Invalid \notin Proxies /\ LongLine \notin Proxies
  /\ Lists \subseteq Seq(Proxies \cup {Invalid, LongLine})
  /\ MaxCandidates \in Nat \ {0}
  /\ TotalCandidates \in Nat \ {0}

VARIABLES
  cache,      \* Collector.cache: a result and the list its validator stands for
  cancelled,  \* ctx is done
  pc,         \* Collect: "idle", "offer", "wait", "merge", "returned" or "stopped"
  next,       \* index offered to the workers, or merged
  worker,     \* "receive", "check", "request" or "exited"
  job,        \* the index a worker holds
  results,    \* the slots the workers fill
  remaining,  \* what is left of the shared budget
  answered,   \* history: the list each source's result is made from
  taken       \* history: collectOnce has taken the results for the store

collectVars == <<pc, next, remaining, taken>>
poolVars == <<worker, job>>
vars == <<cache, cancelled, collectVars, poolVars, results, answered>>

Sources == 1 .. NumSources
Workers == 1 .. (IF FetchConcurrency < NumSources THEN FetchConcurrency ELSE NumSources)

(* collector.Result{}: the slot of a source nobody finished. *)
Unfilled == [source |-> 0, proxies |-> <<>>, partial |-> FALSE, error |-> FALSE]
Failed(s) == [Unfilled EXCEPT !.source = s, !.error = TRUE]

(* No entry, or one without a validator: a server says 304 only if asked. *)
NoCache == [tagged |-> FALSE, list |-> <<>>, result |-> Unfilled]

Blank == [s \in Sources |-> Unfilled]

(* Definitions named X_Y are faulty variants of X: each breaks a property. *)

Init ==
  /\ cache = [s \in Sources |-> NoCache]
  /\ cancelled = FALSE
  /\ pc = "idle" /\ next = 1 /\ remaining = TotalCandidates /\ taken = FALSE
  /\ worker = [w \in Workers |-> "exited"] /\ job = [w \in Workers |-> 0]
  /\ results = Blank
  /\ answered = [s \in Sources |-> <<>>]

-----------------------------------------------------------------------------
(* A worker *)

(* One line of parseSource; a scan error or a full result ends the scan. *)
Line(scan, line) ==
  IF scan.over \/ line = Invalid \/ Contains(scan.proxies, line) THEN scan
  ELSE IF line = LongLine THEN [scan EXCEPT !.over = TRUE, !.error = TRUE]
  ELSE IF Len(scan.proxies) >= MaxCandidates THEN [scan EXCEPT !.over = TRUE, !.partial = TRUE]
  ELSE [scan EXCEPT !.proxies = Append(@, line)]

ParseSource(s, lines) ==
  LET scan == FoldLeft(Line, [proxies |-> <<>>, partial |-> FALSE, error |-> FALSE, over |-> FALSE], lines)
  IN  [source |-> s, proxies |-> scan.proxies, partial |-> scan.partial, error |-> scan.error]

(* The result made from `list' goes to its slot, the worker to its next job. *)
Fill(w, list, result) ==
  /\ worker[w] = "request"
  /\ results' = [results EXCEPT ![job[w]] = result]
  /\ answered' = [answered EXCEPT ![job[w]] = list]
  /\ worker' = [worker EXCEPT ![w] = "receive"] /\ job' = [job EXCEPT ![w] = 0]
  /\ UNCHANGED <<cancelled, collectVars>>

Check(w) ==
  /\ worker[w] = "check"
  /\ worker' = [worker EXCEPT ![w] = IF cancelled THEN "exited" ELSE "request"]
  /\ job' = [job EXCEPT ![w] = IF cancelled THEN 0 ELSE @]
  /\ UNCHANGED <<cache, cancelled, collectVars, results, answered>>

(* The server sends its list, with or without a validator, and the context *)
(* is not done after the parse; only a list without errors is cached.      *)
Fetched(w) ==
  /\ ~cancelled
  /\ \E list \in Lists, tagged \in BOOLEAN :
       LET result == ParseSource(job[w], list)
           entry == IF tagged THEN [tagged |-> TRUE, list |-> list, result |-> result] ELSE NoCache
       IN  /\ Fill(w, list, result)
           /\ cache' = IF result.error THEN cache ELSE [cache EXCEPT ![job[w]] = entry]

NotModified_ForgetsPartial(w) ==
  /\ worker[w] = "request" /\ cache[job[w]].tagged
  /\ Fill(w, cache[job[w]].list, [cache[job[w]].result EXCEPT !.partial = FALSE])
  /\ UNCHANGED cache

(* 304: the list is still the cached one, so its result is used again. *)
NotModified(w) ==
  /\ worker[w] = "request" /\ cache[job[w]].tagged
  /\ Fill(w, cache[job[w]].list, cache[job[w]].result)
  /\ UNCHANGED cache

(* No answer, another status, a 304 without a cache, too long a body. *)
FetchFails(w) == Fill(w, <<>>, Failed(job[w])) /\ UNCHANGED cache

(* The context was done by the end of the parse: an empty Result. *)
Interrupted(w) == cancelled /\ Fill(w, <<>>, Unfilled) /\ UNCHANGED cache

(* The jobs channel is closed, and its range loop ends. *)
Exit(w) ==
  /\ worker[w] = "receive" /\ pc = "wait"
  /\ worker' = [worker EXCEPT ![w] = "exited"]
  /\ UNCHANGED <<cache, cancelled, collectVars, job, results, answered>>

-----------------------------------------------------------------------------
(* Collect *)

Return(filled) == pc' = "returned" /\ results' = filled

(* A round begins; with the context done it returns its empty slots. *)
Begin ==
  /\ pc = "idle"
  /\ next' = 1 /\ remaining' = TotalCandidates
  /\ taken' = FALSE /\ answered' = [s \in Sources |-> <<>>]
  /\ IF cancelled
     THEN Return(Blank) /\ UNCHANGED poolVars
     ELSE /\ pc' = "offer" /\ results' = Blank
          /\ worker' = [w \in Workers |-> "receive"] /\ UNCHANGED job
  /\ UNCHANGED <<cache, cancelled>>

(* jobs <- index meets a worker's receive; after the last the channel is   *)
(* closed.                                                                 *)
Offer(w) ==
  /\ pc = "offer" /\ worker[w] = "receive"
  /\ worker' = [worker EXCEPT ![w] = "check"]
  /\ job' = [job EXCEPT ![w] = next]
  /\ next' = next + 1
  /\ pc' = IF next = NumSources THEN "wait" ELSE "offer"
  /\ UNCHANGED <<cache, cancelled, remaining, taken, results, answered>>

Abandon_Missing == FALSE

(* The select takes ctx.Done(). *)
Abandon ==
  /\ pc = "offer" /\ cancelled
  /\ pc' = "wait"
  /\ UNCHANGED <<cache, cancelled, next, remaining, taken, poolVars, results, answered>>

(* wg.Wait() returns; a round whose context is done returns nil. *)
Waited ==
  /\ pc = "wait"
  /\ \A w \in Workers : worker[w] = "exited"
  /\ IF cancelled
     THEN Return(<<>>) /\ UNCHANGED next
     ELSE pc' = "merge" /\ next' = 1 /\ UNCHANGED results
  /\ UNCHANGED <<cache, cancelled, remaining, taken, poolVars, answered>>

Cut(result, room) ==
  IF Len(result.proxies) > room
  THEN [result EXCEPT !.proxies = SubSeq(@, 1, room), !.partial = TRUE]
  ELSE result

Merge_EachTheWhole ==
  /\ pc = "merge"
  /\ results' = [results EXCEPT ![next] = Cut(@, remaining)]
  /\ next' = next + 1
  /\ pc' = IF next = NumSources THEN "returned" ELSE "merge"
  /\ UNCHANGED <<cache, cancelled, remaining, taken, poolVars, answered>>

(* The next source takes its share of the budget. *)
Merge ==
  /\ pc = "merge"
  /\ results' = [results EXCEPT ![next] = Cut(@, remaining)]
  /\ remaining' = remaining - Len(results'[next].proxies)
  /\ next' = next + 1
  /\ pc' = IF next = NumSources THEN "returned" ELSE "merge"
  /\ UNCHANGED <<cache, cancelled, taken, poolVars, answered>>

UseRound_Unchecked ==
  /\ pc = "returned"
  /\ pc' = "idle"
  /\ taken' = TRUE
  /\ UNCHANGED <<cache, cancelled, next, remaining, poolVars, results, answered>>

(* collectOnce looks at the context again before it uses the results; the  *)
(* loop ends with it.                                                      *)
UseRound ==
  /\ pc = "returned"
  /\ pc' = IF cancelled THEN "stopped" ELSE "idle"
  /\ taken' = ~cancelled
  /\ UNCHANGED <<cache, cancelled, next, remaining, poolVars, results, answered>>

-----------------------------------------------------------------------------
(* The environment *)

Cancel ==
  /\ ~cancelled
  /\ cancelled' = TRUE
  /\ UNCHANGED <<cache, collectVars, poolVars, results, answered>>

Work(w) ==
  Check(w) \/ Fetched(w) \/ NotModified(w) \/ FetchFails(w) \/ Interrupted(w) \/ Exit(w)

Collect == Begin \/ (\E w \in Workers : Offer(w)) \/ Abandon \/ Waited \/ Merge \/ UseRound

Next == Collect \/ (\E w \in Workers : Work(w)) \/ Cancel

(* Goroutines that can run do run, and requests end within fetch.timeout.  *)
Fairness == WF_vars(Collect) /\ \A w \in Workers : WF_vars(Work(w))

Spec == Init /\ [][Next]_vars /\ Fairness

-----------------------------------------------------------------------------
(* Properties *)

(* What collectOnce takes for a complete result (app.go:223). *)
Complete(s) == taken /\ ~results[s].error /\ ~results[s].partial

(* A result that passes for complete holds every proxy of the list its     *)
(* server had when it answered, whether it was fetched now or repeated     *)
(* from the cache because of a 304, and whichever limits applied to it     *)
(* then or now.                                                            *)
CompleteIsWhole ==
  \A s \in Sources : Complete(s) => ToSet(results[s].proxies) = ToSet(answered[s]) \ {Invalid}

Imported(s) == Len(results[s].proxies)

(* The results handed to the store share one budget: it is never passed,   *)
(* and no source loses proxies to it while some of it is unspent.          *)
BudgetHolds ==
  taken =>
    LET used == FoldLeft(LAMBDA n, s : n + Imported(s), 0, [s \in Sources |-> s])
    IN  /\ used <= TotalCandidates
        /\ used < TotalCandidates =>
             \A s \in Sources : results[s].partial => Imported(s) = MaxCandidates

(* The store is never given a slot nobody filled, though Collect may       *)
(* return one: each result is its own source's and workers that left on a  *)
(* done context leave nothing behind.                                      *)
SlotsFilled == taken => DOMAIN results = Sources /\ \A s \in Sources : results[s].source = s

(* A round returns whenever the context is done: neither does Collect      *)
(* offer an index to workers that have left, nor do they wait for it.      *)
RoundReturns == pc = "offer" ~> pc = "returned"

-----------------------------------------------------------------------------
(* The inductive invariant behind SlotsFilled.                             *)

Busy(w) == worker[w] \in {"check", "request"}

Own(result, s) == "source" \in DOMAIN result /\ result.source = s

AllFilled == DOMAIN results = Sources /\ \A s \in Sources : Own(results[s], s)

(* Who holds which index, and what a 304 may bring back. *)
Handing ==
  /\ cancelled \in BOOLEAN /\ taken \in BOOLEAN
  /\ next \in 1 .. NumSources + 1
  /\ worker \in [Workers -> {"receive", "check", "request", "exited"}]
  /\ job \in [Workers -> 0 .. NumSources]
  /\ \A w \in Workers : Busy(w) => job[w] \in 1 .. next - 1
  /\ DOMAIN cache = Sources
  /\ \A s \in Sources : cache[s].tagged => Own(cache[s].result, s)

(* A source that has been offered is filled or in a worker's hands, unless *)
(* the context is done, and no slot is missing from there on.              *)
Filling ==
  /\ pc \in {"idle", "offer", "wait", "merge", "returned", "stopped"}
  /\ pc \in {"offer", "wait"} => DOMAIN results = Sources
  /\ pc \notin {"offer", "wait"} => \A w \in Workers : worker[w] = "exited"
  /\ pc \in {"offer", "merge"} => next \in Sources
  /\ pc = "wait" => cancelled \/ next = NumSources + 1
  /\ pc \in {"offer", "wait"} /\ ~cancelled =>
       \A s \in 1 .. next - 1 : Own(results[s], s) \/ \E w \in Workers : Busy(w) /\ job[w] = s
  /\ pc = "merge" \/ (pc = "returned" /\ ~cancelled) \/ taken => AllFilled
  /\ taken => pc = "idle"

SlotsInv == Handing /\ Filling

-----------------------------------------------------------------------------
(* The inductive invariant behind CompleteIsWhole and BudgetHolds.         *)

Results == [source : 0 .. NumSources, proxies : Seq(Proxies), partial : BOOLEAN, error : BOOLEAN]

(* A result made from `list' that is not marked has all of it. *)
MadeFrom(result, list) ==
  /\ result \in Results
  /\ ~result.error /\ ~result.partial => ToSet(result.proxies) = ToSet(list) \ {Invalid}

AtLimit(result) == result.partial => Len(result.proxies) = MaxCandidates

(* The first n slots together. *)
Spent(slots, n) == FoldLeft(LAMBDA m, s : m + Len(slots[s].proxies), 0, [s \in 1 .. n |-> s])

(* What a 304 may bring back and what the slots hold. *)
Kept ==
  /\ DOMAIN answered = Sources
  /\ \A s \in Sources : cache[s].tagged =>
       MadeFrom(cache[s].result, cache[s].list) /\ AtLimit(cache[s].result)
  /\ \A s \in Sources \cap DOMAIN results : MadeFrom(results[s], answered[s])

(* What is gone from the budget is in the slots merged so far, and only    *)
(* one used up has cut any of them.                                        *)
Shared ==
  /\ remaining \in 0 .. TotalCandidates
  /\ \A s \in Sources \cap DOMAIN results : AtLimit(results[s]) \/ remaining = 0
  /\ pc \in {"offer", "wait"} => remaining = TotalCandidates
  /\ pc = "merge" => Spent(results, next - 1) = TotalCandidates - remaining
  /\ (pc = "returned" /\ ~cancelled) \/ taken =>
       Spent(results, NumSources) = TotalCandidates - remaining

ListsInv == Kept /\ Shared
=============================================================================
