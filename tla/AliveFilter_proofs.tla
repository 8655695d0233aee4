------------------------- MODULE AliveFilter_proofs -------------------------
(***************************************************************************)
(* Theorems about AliveFilter, for lists and pools of any size: workers,   *)
(* channels and cancellation lose, repeat and invent nothing.              *)
(***************************************************************************)
EXTENDS AliveFilter, SequenceTheorems, TLAPS

LEMMA OutcomeType ==
  ASSUME TypeOK, NEW i \in 1 .. Len(results)
  PROVE  /\ results[i] \in Outcomes
         /\ results[i].index \in 1 .. call.urls /\ results[i].alive \in BOOLEAN
<1>1. results \in Seq(Outcomes)
  BY DEF TypeOK
<1>2. results[i] \in Outcomes
  BY <1>1, ElementOfSeq
<1> QED
  BY <1>2 DEF Outcomes

LEMMA CallType ==
  ASSUME TypeOK
  PROVE  call.urls \in Nat /\ call.reachable \subseteq 1 .. call.urls /\ next \in 1 .. call.urls + 1
  BY FilterAssumption DEF TypeOK, Calls, FilterAssumption

LEMMA InitFilter == Init => FilterInv
<1> SUFFICES ASSUME Init PROVE FilterInv
  OBVIOUS
<1>0. call.urls \in Nat /\ call \in Calls /\ call.urls >= 0
  BY FilterAssumption DEF Init, Calls, FilterAssumption
<1>a. returned = (call.urls = 0)
  BY DEF Init
<1>b. returned \in BOOLEAN /\ (returned => call.urls = 0)
  BY ONLY <1>a, Zenon
<1>1. TypeOK
  <2>1. /\ pc \in [Workers -> {"receive", "check", "send", "exited"}]
        /\ job \in [Workers -> 0 .. call.urls] /\ up \in [Workers -> BOOLEAN]
    BY <1>0 DEF Init
  <2>2. results \in Seq(Outcomes)
    BY DEF Init
  <2>3. /\ cancelled = FALSE /\ next = 1 /\ jobsClosed = FALSE
        /\ resultsClosed = FALSE /\ alive = {}
    BY DEF Init
  <2>4. next \in 1 .. call.urls + 1
    BY <1>0, <2>3
  <2> QED
    BY <1>0, <1>b, <2>1, <2>2, <2>3, <2>4, Zenon DEF TypeOK
<1>2. HandedOut /\ Truthful
  BY DEF Init, HandedOut, NoIndexTwice, Truthful, Busy
<1>3. Closing
  <2>1. returned => ~(call.urls > 0)
    BY <1>0, <1>b
  <2> QED
    BY <2>1 DEF Init, Closing
<1>4. Lossless
  BY <1>1, CallType DEF Init, Lossless
<1> QED
  BY <1>1, <1>2, <1>3, <1>4 DEF FilterInv

-----------------------------------------------------------------------------
LEMMA DispatchStep ==
  ASSUME FilterInv, NEW w \in Workers, Dispatch(w)
  PROVE  FilterInv'
<1>0. /\ TypeOK /\ call.urls \in Nat /\ next \in 1 .. call.urls /\ pc[w] = "receive"
      /\ pc' = [pc EXCEPT ![w] = "check"] /\ job' = [job EXCEPT ![w] = next] /\ next' = next + 1
      /\ pc \in [Workers -> {"receive", "check", "send", "exited"}]
      /\ job \in [Workers -> 0 .. call.urls] /\ Workers' = Workers
      /\ UNCHANGED <<call, cancelled, jobsClosed, up, results, resultsClosed, alive, returned>>
  BY CallType DEF FilterInv, TypeOK, Dispatch, Workers
<1>1. TypeOK'
  BY <1>0 DEF TypeOK, Outcomes
<1>2. HandedOut'
  BY <1>0, OutcomeType DEF FilterInv, HandedOut, NoIndexTwice, Busy
<1>3. Closing'
  BY <1>0 DEF FilterInv, Closing
<1>4. Truthful'
  BY <1>0 DEF FilterInv, Truthful
<1>5. ASSUME ~cancelled PROVE Lossless'
  <2>1. \A i \in call.reachable : i < next + 1 => i < next \/ i = next
    BY <1>0, CallType
  <2> QED
    BY <1>0, <1>5, <2>1 DEF FilterInv, Lossless, Accounted
<1> QED
  BY <1>0, <1>1, <1>2, <1>3, <1>4, <1>5 DEF FilterInv

LEMMA CheckStep ==
  ASSUME FilterInv, NEW w \in Workers, Check(w)
  PROVE  FilterInv'
<1>0. /\ TypeOK /\ pc[w] = "check" /\ pc' = [pc EXCEPT ![w] = "send"]
      /\ up \in [Workers -> BOOLEAN] /\ up' \in [Workers -> BOOLEAN]
      /\ \A v \in Workers : v # w => up'[v] = up[v]
      /\ up'[w] => job[w] \in call.reachable
      /\ job[w] \in call.reachable => up'[w] \/ cancelled
      /\ pc \in [Workers -> {"receive", "check", "send", "exited"}] /\ Workers' = Workers
      /\ UNCHANGED <<call, cancelled, next, jobsClosed, job, results, resultsClosed, alive, returned>>
  <2>1. PICK answer \in BOOLEAN : /\ answer => job[w] \in call.reachable
                                  /\ job[w] \in call.reachable => answer \/ cancelled
                                  /\ up' = [up EXCEPT ![w] = answer]
    BY DEF Check
  <2>3. /\ TypeOK /\ pc[w] = "check" /\ pc' = [pc EXCEPT ![w] = "send"] /\ Workers' = Workers
        /\ UNCHANGED <<call, cancelled, next, jobsClosed, job, results, resultsClosed, alive, returned>>
    BY DEF FilterInv, Check, Workers
  <2>4. /\ up \in [Workers -> BOOLEAN]
        /\ pc \in [Workers -> {"receive", "check", "send", "exited"}]
    BY <2>3 DEF TypeOK
  <2>5. up'[w] = answer
    BY <2>1, <2>4, Zenon
  <2>6. \A v \in Workers : v # w => up'[v] = up[v]
    BY <2>1, <2>4, Zenon
  <2>7. up' \in [Workers -> BOOLEAN]
    BY <2>1, <2>4
  <2>8. /\ up'[w] => job[w] \in call.reachable
        /\ job[w] \in call.reachable => up'[w] \/ cancelled
    BY <2>1, <2>5, Zenon
  <2> QED
    BY <2>3, <2>4, <2>6, <2>7, <2>8
<1>1. TypeOK'
  BY <1>0 DEF TypeOK, Outcomes
<1>2. HandedOut'
  BY <1>0 DEF FilterInv, HandedOut, NoIndexTwice, Busy
<1>3. Closing'
  BY <1>0 DEF FilterInv, Closing
<1>4. Truthful'
  BY <1>0 DEF FilterInv, Truthful
<1>5. ASSUME ~cancelled PROVE Lossless'
  BY <1>0, <1>5 DEF FilterInv, Lossless, Accounted
<1> QED
  BY <1>0, <1>1, <1>2, <1>3, <1>4, <1>5 DEF FilterInv

LEMMA SendStep ==
  ASSUME FilterInv, NEW w \in Workers, Send(w)
  PROVE  FilterInv'
<1> DEFINE out == [index |-> job[w], alive |-> up[w]]
<1>0. /\ TypeOK /\ pc[w] = "send" /\ pc' = [pc EXCEPT ![w] = "receive"]
      /\ results \in Seq(Outcomes) /\ results' = Append(results, out)
      /\ job[w] \in 1 .. next - 1 /\ up[w] \in BOOLEAN
      /\ pc \in [Workers -> {"receive", "check", "send", "exited"}] /\ Workers' = Workers
      /\ UNCHANGED <<call, cancelled, next, jobsClosed, job, up, resultsClosed, alive, returned>>
  BY DEF FilterInv, TypeOK, Send, Workers, HandedOut, Busy
<1>1. out \in Outcomes /\ out.index = job[w] /\ out.alive = up[w]
  BY <1>0, CallType DEF Outcomes
<1> HIDE DEF out
<1>2. /\ results' \in Seq(Outcomes) /\ Len(results') = Len(results) + 1
      /\ \A i \in 1 .. Len(results) : results'[i] = results[i]
      /\ results'[Len(results) + 1] = out /\ Len(results) \in Nat
  BY <1>0, <1>1, AppendProperties, LenProperties
<1>3. TypeOK'
  BY <1>0, <1>2 DEF TypeOK, Outcomes
<1>4. \A i \in 1 .. Len(results') : i \in 1 .. Len(results) \/ i = Len(results) + 1
  BY <1>2
<1>5. HandedOut'
  BY <1>0, <1>1, <1>2, <1>4 DEF FilterInv, HandedOut, NoIndexTwice, Busy
<1>6. Closing'
  BY <1>0 DEF FilterInv, Closing
<1>7. Truthful'
  BY <1>0, <1>1, <1>2, <1>4 DEF FilterInv, Truthful
<1>8. ASSUME ~cancelled PROVE Lossless'
  BY <1>0, <1>1, <1>2, <1>4, <1>8 DEF FilterInv, Lossless, Accounted
<1> QED
  BY <1>0, <1>3, <1>5, <1>6, <1>7, <1>8 DEF FilterInv

LEMMA CollectStep ==
  ASSUME FilterInv, Collect
  PROVE  FilterInv'
<1>0. /\ TypeOK /\ results \in Seq(Outcomes) /\ results # <<>> /\ results' = Tail(results)
      /\ alive' = IF results[1].alive THEN alive \cup {results[1].index}
                                      ELSE alive \ {results[1].index}
      /\ ~returned /\ Workers' = Workers
      /\ UNCHANGED <<call, cancelled, next, jobsClosed, pc, job, up, resultsClosed, returned>>
  <2>1. TypeOK /\ results \in Seq(Outcomes) /\ results # <<>>
    BY DEF FilterInv, TypeOK, Collect
  <2>2. Head(results) = results[1]
    BY <2>1
  <2> QED
    BY <2>1, <2>2 DEF Collect, pool, Workers
<1>1. /\ results' \in Seq(Outcomes) /\ Len(results') = Len(results) - 1 /\ Len(results) \in Nat \ {0}
      /\ \A i \in 1 .. Len(results') : i + 1 \in 1 .. Len(results) /\ results'[i] = results[i + 1]
  BY <1>0, HeadTailProperties, EmptySeq, LenProperties
<1>2. 1 \in 1 .. Len(results) /\ results[1].index \in 1 .. call.urls /\ results[1].alive \in BOOLEAN
  BY <1>1, <1>0, OutcomeType
<1>3. TypeOK'
  BY <1>0, <1>1, <1>2 DEF TypeOK, Outcomes
<1>4. HandedOut'
  BY <1>0, <1>1 DEF FilterInv, HandedOut, NoIndexTwice, Busy
<1>5. Closing'
  BY <1>0 DEF FilterInv, Closing
<1>6. Truthful'
  BY <1>0, <1>1, <1>2 DEF FilterInv, Truthful
<1>7. ASSUME ~cancelled PROVE Lossless'
  BY <1>0, <1>1, <1>2, <1>7 DEF FilterInv, Lossless, Accounted
<1> QED
  BY <1>0, <1>3, <1>4, <1>5, <1>6, <1>7 DEF FilterInv

(* The steps that only move on. *)
LEMMA SkipStep ==
  ASSUME FilterInv, Skip PROVE FilterInv'
<1>0. /\ TypeOK /\ call.urls \in Nat /\ next \in 1 .. call.urls /\ cancelled /\ cancelled'
      /\ next' = next + 1 /\ Workers' = Workers
      /\ UNCHANGED <<call, cancelled, jobsClosed, pc, job, up, results, resultsClosed, alive, returned>>
  BY CallType DEF FilterInv, TypeOK, Skip, pool, Workers
<1>1. TypeOK'
  BY <1>0 DEF TypeOK, Outcomes
<1>2. HandedOut'
  <2>1. NoIndexTwice'
    BY <1>0 DEF FilterInv, HandedOut, NoIndexTwice
  <2>2. \A i \in 1 .. next - 1 : i \in 1 .. next' - 1
    BY <1>0
  <2> QED
    BY <1>0, <2>1, <2>2, OutcomeType DEF FilterInv, HandedOut, Busy
<1>3. Closing'
  BY <1>0 DEF FilterInv, Closing
<1>4. Truthful'
  BY <1>0 DEF FilterInv, Truthful
<1> QED
  BY <1>0, <1>1, <1>2, <1>3, <1>4 DEF FilterInv

LEMMA CloseStep ==
  ASSUME FilterInv, CloseJobs \/ Cancel \/ UNCHANGED vars PROVE FilterInv'
<1>0. /\ TypeOK /\ Workers' = Workers /\ jobsClosed' \in BOOLEAN /\ cancelled' \in BOOLEAN
      /\ cancelled => cancelled'
      /\ jobsClosed => jobsClosed'
      /\ jobsClosed' => jobsClosed \/ next > call.urls
      /\ UNCHANGED <<call, next, pc, job, up, results, resultsClosed, alive, returned>>
  <2>1. TypeOK /\ cancelled \in BOOLEAN /\ jobsClosed \in BOOLEAN
    BY DEF FilterInv, TypeOK
  <2>2. CASE CloseJobs
    BY <2>1, <2>2, Zenon DEF CloseJobs, pool, Workers
  <2>3. CASE Cancel
    BY <2>1, <2>3, Zenon DEF Cancel, pool, Workers
  <2>4. CASE UNCHANGED vars
    BY <2>1, <2>4, Zenon DEF vars, Workers
  <2> QED
    BY <2>2, <2>3, <2>4
<1>1. TypeOK'
  BY <1>0 DEF TypeOK, Outcomes
<1>2. HandedOut'
  BY <1>0 DEF FilterInv, HandedOut, NoIndexTwice, Busy
<1>3. Closing'
  BY <1>0 DEF FilterInv, Closing
<1>4. Truthful'
  BY <1>0 DEF FilterInv, Truthful
<1>5. ASSUME ~cancelled' PROVE Lossless'
  BY <1>0, <1>5 DEF FilterInv, Lossless, Accounted
<1> QED
  BY <1>0, <1>1, <1>2, <1>3, <1>4, <1>5 DEF FilterInv

(* The steps that end the pool and the call. *)
LEMMA EndStep ==
  ASSUME FilterInv, (\E w \in Workers : Exit(w)) \/ CloseResults \/ Return
  PROVE  FilterInv'
<1>0. /\ TypeOK /\ Workers' = Workers
      /\ pc' \in [Workers -> {"receive", "check", "send", "exited"}]
      /\ \A w \in Workers : pc'[w] = pc[w] \/ (pc[w] = "receive" /\ pc'[w] = "exited")
      /\ \/ resultsClosed' = resultsClosed
         \/ resultsClosed' = TRUE /\ jobsClosed /\ \A w \in Workers : pc[w] = "exited"
      /\ returned' = returned \/ (returned' = TRUE /\ resultsClosed /\ results = <<>>)
      /\ resultsClosed => resultsClosed'
      /\ UNCHANGED <<call, cancelled, next, jobsClosed, job, up, results, alive>>
  BY DEF FilterInv, TypeOK, Exit, CloseResults, Return, pool, Workers
<1>1. TypeOK'
  BY <1>0 DEF TypeOK, Outcomes
<1>2. HandedOut'
  BY <1>0 DEF FilterInv, HandedOut, NoIndexTwice, Busy
<1>3. Closing'
  BY <1>0 DEF FilterInv, Closing
<1>4. Truthful'
  BY <1>0 DEF FilterInv, Truthful
<1>5. ASSUME ~cancelled PROVE Lossless'
  BY <1>0, <1>5 DEF FilterInv, Lossless, Accounted
<1> QED
  BY <1>0, <1>1, <1>2, <1>3, <1>4, <1>5 DEF FilterInv

LEMMA NextFilter == FilterInv /\ [Next]_vars => FilterInv'
<1> SUFFICES ASSUME FilterInv, [Next]_vars PROVE FilterInv'
  OBVIOUS
<1>1. ASSUME NEW w \in Workers, Dispatch(w) PROVE FilterInv'
  BY <1>1, DispatchStep
<1>2. ASSUME NEW w \in Workers, Check(w) PROVE FilterInv'
  BY <1>2, CheckStep
<1>3. ASSUME NEW w \in Workers, Send(w) PROVE FilterInv'
  BY <1>3, SendStep
<1>4. CASE Collect
  BY <1>4, CollectStep
<1>5. CASE Skip
  BY <1>5, SkipStep
<1>7. CASE CloseJobs \/ Cancel \/ UNCHANGED vars
  BY <1>7, CloseStep
<1>6. CASE (\E w \in Workers : Exit(w)) \/ CloseResults \/ Return
  BY <1>6, EndStep
<1> QED
  BY <1>1, <1>2, <1>3, <1>4, <1>5, <1>6, <1>7 DEF Next, Dispatcher, Worker, Caller

(* When the call is over everything that answers has been accounted for.   *)
LEMMA ReturnedAll == FilterInv => ReturnsReachable
<1> SUFFICES ASSUME FilterInv, returned, ~cancelled PROVE call.reachable \subseteq alive
  BY DEF FilterInv, Truthful, ReturnsReachable
<1>1. TypeOK /\ Closing /\ Lossless /\ call.urls \in Nat /\ next \in 1 .. call.urls + 1
      /\ call.reachable \subseteq 1 .. call.urls
  BY CallType DEF FilterInv
<1>2. CASE call.urls = 0
  BY <1>1, <1>2
<1>3. CASE call.urls > 0
  <2>1. resultsClosed /\ results = <<>> /\ next > call.urls /\ \A w \in Workers : pc[w] = "exited"
    BY <1>1, <1>3 DEF Closing
  <2>2. \A i \in call.reachable : Accounted(i)
    BY <1>1, <2>1 DEF Lossless
  <2> QED
    BY <2>1, <2>2 DEF Accounted
<1> QED
  BY <1>1, <1>2, <1>3

(* Nobody sends on the closed channel, and no worker outlives the call.    *)
THEOREM ChannelClosesLast == Spec => []ClosedAfterWorkers
<1>1. FilterInv => ClosedAfterWorkers
  BY DEF FilterInv, Closing, ClosedAfterWorkers
<1> QED
  BY <1>1, InitFilter, NextFilter, PTL DEF Spec

(* Every index is handed out at most once. *)
THEOREM HandedOutOnce == Spec => []NoIndexTwice
<1>1. FilterInv => NoIndexTwice
  BY DEF FilterInv, HandedOut
<1> QED
  BY <1>1, InitFilter, NextFilter, PTL DEF Spec

(* What Filter returns answers; what answers is returned, unless the call  *)
(* was cancelled.                                                          *)
THEOREM ExactlyTheReachable == Spec => []ReturnsReachable
  BY ReturnedAll, InitFilter, NextFilter, PTL DEF Spec
=============================================================================
