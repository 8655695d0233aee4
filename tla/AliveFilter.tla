---------------------------- MODULE AliveFilter -----------------------------
(***************************************************************************)
(* One call of Checker.Filter (internal/alive/alive.go): a dispatcher hands*)
(* the indices of the list to a pool of workers over an unbuffered channel,*)
(* each worker dials and reports over a buffered one, and the caller       *)
(* collects.  The context may be cancelled at any time.                    *)
(***************************************************************************)
EXTENDS Integers, Sequences, FiniteSets

CONSTANTS
  MaxUrls,       \* longest list given to the filter
  Concurrencies  \* values of alive.concurrency

ASSUME FilterAssumption ==
  /\ MaxUrls \in Nat
  /\ Concurrencies \subseteq Nat

Calls == {c \in [urls : 0 .. MaxUrls, concurrency : Concurrencies,
                 reachable : SUBSET (1 .. MaxUrls)] :
            c.reachable \subseteq 1 .. c.urls}

VARIABLES
  call,        \* length of the list, pool size asked for, endpoints that answer
  cancelled,   \* ctx is done
  next,        \* dispatcher: the index it offers
  jobsClosed,  \* close(jobs) has happened
  pc,          \* worker: "receive", "check", "send" or "exited"
  job,         \* worker: the index it holds
  up,          \* worker: what its dial said
  results,     \* the buffered channel of outcomes
  resultsClosed,
  alive,       \* the indices marked alive so far
  returned     \* Filter has returned

vars == <<call, cancelled, next, jobsClosed, pc, job, up, results,
          resultsClosed, alive, returned>>

pool == <<pc, job, up>>

(* Definitions named X_Y are faulty variants of X: each breaks a property. *)

NumWorkers_Unclamped(c) == IF c.concurrency > c.urls THEN c.urls ELSE c.concurrency

(* At least one worker, at most one per URL. *)
NumWorkers(c) ==
  LET asked == IF c.concurrency < 1 THEN 1 ELSE c.concurrency
  IN  IF asked > c.urls THEN c.urls ELSE asked

Workers == 1 .. NumWorkers(call)

Init ==
  /\ call \in Calls
  /\ cancelled = FALSE
  /\ next = 1
  /\ jobsClosed = FALSE
  /\ pc = [w \in Workers |-> "receive"]
  /\ job = [w \in Workers |-> 0]
  /\ up = [w \in Workers |-> FALSE]
  /\ results = <<>>
  /\ resultsClosed = FALSE
  /\ alive = {}
  /\ returned = (call.urls = 0)

Cancel ==
  /\ ~cancelled
  /\ cancelled' = TRUE
  /\ UNCHANGED <<call, next, jobsClosed, pool, results, resultsClosed, alive, returned>>

(* jobs <- index meets a worker's receive. *)
Dispatch(w) ==
  /\ ~returned /\ next <= call.urls
  /\ pc[w] = "receive"
  /\ pc' = [pc EXCEPT ![w] = "check"]
  /\ job' = [job EXCEPT ![w] = next]
  /\ next' = next + 1
  /\ UNCHANGED <<call, cancelled, jobsClosed, up, results, resultsClosed, alive, returned>>

Skip_WhenNoneIdle ==
  /\ ~returned /\ next <= call.urls
  /\ \A w \in Workers : pc[w] # "receive"
  /\ next' = next + 1
  /\ UNCHANGED <<call, cancelled, jobsClosed, pool, results, resultsClosed, alive, returned>>

(* The select takes ctx.Done(): the index is passed over.  A select picks  *)
(* freely among the cases that are ready.                                  *)
Skip ==
  /\ cancelled
  /\ ~returned /\ next <= call.urls
  /\ next' = next + 1
  /\ UNCHANGED <<call, cancelled, jobsClosed, pool, results, resultsClosed, alive, returned>>

CloseJobs ==
  /\ ~returned /\ next > call.urls /\ ~jobsClosed
  /\ jobsClosed' = TRUE
  /\ UNCHANGED <<call, cancelled, next, pool, results, resultsClosed, alive, returned>>

(* The dial ends: an endpoint that does not answer in time is down, one    *)
(* that does is up unless the cancelled context ended the dial first.      *)
Check(w) ==
  /\ pc[w] = "check"
  /\ \E answer \in BOOLEAN :
       /\ answer => job[w] \in call.reachable
       /\ job[w] \in call.reachable => answer \/ cancelled
       /\ up' = [up EXCEPT ![w] = answer]
  /\ pc' = [pc EXCEPT ![w] = "send"]
  /\ UNCHANGED <<call, cancelled, next, jobsClosed, job, results, resultsClosed, alive, returned>>

(* results <- outcome; the channel has room for one outcome of each URL. *)
Send(w) ==
  /\ pc[w] = "send"
  /\ Len(results) < call.urls
  /\ results' = Append(results, [index |-> job[w], alive |-> up[w]])
  /\ pc' = [pc EXCEPT ![w] = "receive"]
  /\ UNCHANGED <<call, cancelled, next, jobsClosed, job, up, resultsClosed, alive, returned>>

(* range jobs ends, wg.Done. *)
Exit(w) ==
  /\ pc[w] = "receive" /\ jobsClosed
  /\ pc' = [pc EXCEPT ![w] = "exited"]
  /\ UNCHANGED <<call, cancelled, next, jobsClosed, job, up, results, resultsClosed, alive, returned>>

CloseResults_NoWait ==
  /\ jobsClosed /\ ~resultsClosed
  /\ resultsClosed' = TRUE
  /\ UNCHANGED <<call, cancelled, next, jobsClosed, pool, results, alive, returned>>

(* wg.Wait(); close(results) *)
CloseResults ==
  /\ jobsClosed /\ ~resultsClosed
  /\ \A w \in Workers : pc[w] = "exited"
  /\ resultsClosed' = TRUE
  /\ UNCHANGED <<call, cancelled, next, jobsClosed, pool, results, alive, returned>>

(* The caller takes one outcome. *)
Collect ==
  /\ ~returned /\ results # <<>>
  /\ alive' = IF Head(results).alive THEN alive \cup {Head(results).index}
                                     ELSE alive \ {Head(results).index}
  /\ results' = Tail(results)
  /\ UNCHANGED <<call, cancelled, next, jobsClosed, pool, resultsClosed, returned>>

Return ==
  /\ ~returned /\ results = <<>> /\ resultsClosed
  /\ returned' = TRUE
  /\ UNCHANGED <<call, cancelled, next, jobsClosed, pool, results, resultsClosed, alive>>

Dispatcher == (\E w \in Workers : Dispatch(w)) \/ Skip \/ CloseJobs \/ CloseResults
Worker(w) == Check(w) \/ Send(w) \/ Exit(w)
Caller == Collect \/ Return

Next == Dispatcher \/ (\E w \in Workers : Worker(w)) \/ Caller \/ Cancel

(* Goroutines that can run do run, and a dial returns within its timeout. *)
Fairness ==
  /\ WF_vars(Dispatcher)
  /\ \A w \in 1 .. MaxUrls : WF_vars(w \in Workers /\ Worker(w))
  /\ WF_vars(Caller)

Spec == Init /\ [][Next]_vars /\ Fairness

-----------------------------------------------------------------------------
(* Properties *)

Outcomes == [index : 1 .. call.urls, alive : BOOLEAN]

TypeOK ==
  /\ call \in Calls
  /\ cancelled \in BOOLEAN
  /\ next \in 1 .. call.urls + 1
  /\ jobsClosed \in BOOLEAN
  /\ pc \in [Workers -> {"receive", "check", "send", "exited"}]
  /\ job \in [Workers -> 0 .. call.urls]
  /\ up \in [Workers -> BOOLEAN]
  /\ results \in Seq(Outcomes)
  /\ resultsClosed \in BOOLEAN
  /\ alive \subseteq 1 .. call.urls
  /\ returned \in BOOLEAN

(* Nobody sends on the closed results channel, which would panic, and no   *)
(* worker outlives the call: the channel closes after the last has left.   *)
ClosedAfterWorkers ==
  resultsClosed \/ (returned /\ call.urls > 0) => \A w \in Workers : pc[w] = "exited"

(* No index is handed out twice, whoever holds its outcome at the moment.  *)
NoIndexTwice ==
  /\ \A v, w \in Workers :
       v # w /\ pc[v] \in {"check", "send"} /\ pc[w] \in {"check", "send"} => job[v] # job[w]
  /\ \A i, j \in 1 .. Len(results) : i # j => results[i].index # results[j].index
  /\ \A w \in Workers, i \in 1 .. Len(results) :
       pc[w] \in {"check", "send"} => job[w] # results[i].index

(* Whatever is interrupted, the filter lets nothing through that does not  *)
(* answer, and if it was not cancelled it drops nothing that does.         *)
ReturnsReachable ==
  returned => /\ alive \subseteq call.reachable
              /\ ~cancelled => alive = call.reachable

(* The call always comes back: no pool size, list or cancellation leaves   *)
(* dispatcher, workers and caller waiting for one another, or a worker for *)
(* room in the results channel (make(chan outcome, len(proxyURLs))).       *)
Returns == <>returned

-----------------------------------------------------------------------------
(* The inductive invariant behind the safety properties.                   *)

Busy(w) == pc[w] \in {"check", "send"}

(* Only indices already offered are about, and only once. *)
HandedOut ==
  /\ \A w \in Workers : Busy(w) => job[w] \in 1 .. next - 1
  /\ \A i \in 1 .. Len(results) : results[i].index \in 1 .. next - 1
  /\ NoIndexTwice

(* The channels close in order, and the caller returns after the second.   *)
Closing ==
  /\ jobsClosed => next > call.urls
  /\ resultsClosed => jobsClosed /\ \A w \in Workers : pc[w] = "exited"
  /\ returned /\ call.urls > 0 => resultsClosed /\ results = <<>>

(* Nothing that does not answer is said to; what does is only lost to a    *)
(* cancellation.                                                           *)
Truthful ==
  /\ alive \subseteq call.reachable
  /\ \A w \in Workers : pc[w] = "send" /\ up[w] => job[w] \in call.reachable
  /\ \A i \in 1 .. Len(results) : results[i].alive => results[i].index \in call.reachable

Accounted(i) ==
  \/ i \in alive
  \/ \E w \in Workers : job[w] = i /\ (pc[w] = "check" \/ (pc[w] = "send" /\ up[w]))
  \/ \E k \in 1 .. Len(results) : results[k].index = i /\ results[k].alive

Lossless ==
  /\ \A w \in Workers : pc[w] = "send" /\ job[w] \in call.reachable => up[w]
  /\ \A i \in 1 .. Len(results) : results[i].index \in call.reachable => results[i].alive
  /\ \A i \in call.reachable : i < next => Accounted(i)

FilterInv == TypeOK /\ HandedOut /\ Closing /\ Truthful /\ (~cancelled => Lossless)
=============================================================================
