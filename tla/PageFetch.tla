----------------------------- MODULE PageFetch ------------------------------
(***************************************************************************)
(* fetchPage, retryDelay and sleepContext, which the RolaIP and FreeProxyDB*)
(* collectors have in the same form: one page is requested until the server*)
(* neither limits the rate nor fails, with a bounded number of retries.    *)
(***************************************************************************)
EXTENDS Integers, Sequences

CONSTANTS
  MaxRetries,     \* maxRateLimitRetries
  RetryDelays,    \* retryDelays: waits used when the server names none
  MaxRetryAfter,  \* maxRetryAfter
  Second,         \* time.Second, in the unit of durations
  DurationLimit,  \* 2^63: a time.Duration is below it
  Headers         \* Retry-After headers the server may send

(* A header is absent, a number of seconds or a date `value' units ahead.  *)
ASSUME PageFetchAssumption ==
  /\ MaxRetries \in Nat
  /\ RetryDelays \in Seq(Nat \ {0}) /\ RetryDelays # <<>>
  /\ MaxRetryAfter \in Nat \ {0}
  /\ Second \in Nat \ {0}
  /\ DurationLimit \in Nat \ {0}
  /\ Headers \subseteq [kind : {"none", "seconds", "date"}, value : Int]

VARIABLES
  cancelled,  \* ctx is done
  fetch,      \* "idle", "request", "backoff", "got" or "failed"
  attempt,    \* 429 answers to this page that were waited for
  header,     \* Retry-After of the last of them
  wait        \* the delay computed from it

fetchVars == <<cancelled, fetch, attempt, header, wait>>

Smaller(m, n) == IF m < n THEN m ELSE n

(* The value an integer product has in a duration, which wraps around. *)
Wrap(n) == ((n + DurationLimit) % (2 * DurationLimit)) - DurationLimit

NoHeader == [kind |-> "none", value |-> 0]

(* Definitions named X_Y are faulty variants of X: each breaks a property. *)

RetryDelay_Uncapped(h, n) ==
  IF h.value > 0 /\ h.kind = "seconds" THEN Wrap(h.value * Second)
  ELSE IF h.value > 0 /\ h.kind = "date" THEN h.value
  ELSE RetryDelays[Smaller(n + 1, Len(RetryDelays))]

(* What the server asks for, up to the cap; its own schedule otherwise. *)
RetryDelay(h, n) ==
  IF h.value > 0 /\ h.kind = "seconds" THEN Smaller(Wrap(h.value * Second), MaxRetryAfter)
  ELSE IF h.value > 0 /\ h.kind = "date" THEN Smaller(h.value, MaxRetryAfter)
  ELSE RetryDelays[Smaller(n + 1, Len(RetryDelays))]

FetchInit ==
  /\ cancelled = FALSE
  /\ fetch = "idle"
  /\ attempt = 0
  /\ header = NoHeader
  /\ wait = 0

Cancel ==
  /\ ~cancelled
  /\ cancelled' = TRUE
  /\ UNCHANGED <<fetch, attempt, header, wait>>

Request ==
  /\ fetch' = "request"
  /\ attempt' = 0
  /\ UNCHANGED <<cancelled, header, wait>>

(* 429: wait and ask again, unless that was the last attempt. *)
RateLimited ==
  /\ fetch = "request"
  /\ \E h \in Headers :
       IF attempt >= MaxRetries
       THEN fetch' = "failed" /\ UNCHANGED <<header, wait>>
       ELSE fetch' = "backoff" /\ header' = h /\ wait' = RetryDelay(h, attempt)
  /\ UNCHANGED <<cancelled, attempt>>

Backoff_Uncounted ==
  /\ fetch = "backoff"
  /\ \/ fetch' = "request"
     \/ cancelled /\ wait > 0 /\ fetch' = "failed"
  /\ UNCHANGED <<cancelled, attempt, header, wait>>

(* sleepContext: no wait for a delay that is not positive; otherwise the   *)
(* timer or the context ends it.                                           *)
Backoff ==
  /\ fetch = "backoff"
  /\ \/ fetch' = "request" /\ attempt' = attempt + 1
     \/ cancelled /\ wait > 0 /\ fetch' = "failed" /\ UNCHANGED attempt
  /\ UNCHANGED <<cancelled, header, wait>>

(* Transport error, any other status, an oversized or undecodable body; a  *)
(* request under a cancelled context ends here too.                        *)
RequestFails ==
  /\ fetch = "request"
  /\ fetch' = "failed"
  /\ UNCHANGED <<cancelled, attempt, header, wait>>

(* A page arrives; it may have been under way when the context was done.   *)
Answered ==
  /\ fetch = "request"
  /\ fetch' = "got"
  /\ UNCHANGED <<cancelled, attempt, header, wait>>

FetchStep == RateLimited \/ Backoff \/ RequestFails \/ Answered

-----------------------------------------------------------------------------
Asked(h) ==
  IF h.value <= 0 THEN 0 ELSE IF h.kind = "seconds" THEN h.value * Second
  ELSE IF h.kind = "date" THEN h.value ELSE 0

(* A page is asked for again at most maxRateLimitRetries times, and the    *)
(* wait before is at least what the server asked for, as far as the cap    *)
(* allows, and never longer than the cap or the built-in delays            *)
(* (docs/config.md:76).  Seconds whose product with time.Second overflows  *)
(* are exempt: the code waits for whatever is left of them, or not at all. *)
HonoursRetryAfter ==
  fetch = "backoff" =>
    /\ attempt < MaxRetries
    /\ Asked(header) < DurationLimit => wait >= Smaller(Asked(header), MaxRetryAfter)
    /\ wait <= MaxRetryAfter \/ \E i \in DOMAIN RetryDelays : wait = RetryDelays[i]

(* The inductive invariant behind it. *)
BackoffInv ==
  /\ attempt \in Nat
  /\ fetch = "backoff" =>
       attempt < MaxRetries /\ header \in Headers /\ wait = RetryDelay(header, attempt)
=============================================================================
