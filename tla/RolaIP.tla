------------------------------- MODULE RolaIP -------------------------------
(***************************************************************************)
(* One refresh of the RolaIP collector (internal/collectors/rolaip): pages *)
(* are requested in turn until the server's last page or a limit, and the  *)
(* result says whether it is everything the server lists.                  *)
(*                                                                         *)
(* The server's pages stand still during a refresh, but what it says of    *)
(* them need not be true, and it may withhold one.  A record is the        *)
(* sequence of candidates it yields, one for each supported protocol, of   *)
(* which there are two; Invalid is a candidate model.New refuses.          *)
(***************************************************************************)
EXTENDS PageFetch, SequencesExt

CONSTANTS
  Proxies, Invalid,
  Catalogues,     \* lists the server may have, as sequences of pages
  Claims,         \* what it may say of its list, in any answer
  PageSize,       \* page_size asked for; the server may use smaller pages
  MaxCandidates,  \* max_candidates
  InputFactor,    \* maxInputFactor
  MaxPages        \* maxPagesPerRefresh

ASSUME RolaIPAssumption ==
  /\ Invalid \notin Proxies
  /\ Catalogues \subseteq Seq(Seq(BoundedSeq(Proxies \cup {Invalid}, 2)))
  /\ Claims \subseteq [size : Int, total : Int, pages : Int]
  /\ PageSize \in Nat \ {0}
  /\ MaxCandidates \in Nat \ {0}
  /\ InputFactor \in Nat \ {0}
  /\ MaxPages \in Nat \ {0}

VARIABLES
  catalogue,  \* what the server lists
  pc,         \* "fetch", "pause" (between pages), "done" or "delivered"
  page,       \* the page asked for
  claim,      \* first.Pagination: what the first answer said
  result,     \* collector.Result with the fields of its report
  delivered   \* what Collect returned: "nothing" or "result"

roundVars == <<catalogue, pc, page, claim, result, delivered>>
vars == <<fetchVars, roundVars>>

RecordLimit == MaxCandidates * InputFactor

(* ceil(total / size) *)
Pages(total, size) == (total + size - 1) \div size

PageLimit == Smaller(Pages(RecordLimit, PageSize), MaxPages)

NoClaim == [size |-> 1, total |-> 0, pages |-> 0]

(* Where a refresh told `first' stops; whether that is short of the end.   *)
LastPage(first) == Smaller(first.pages, PageLimit)
Capped(first) == first.pages > PageLimit

NoResult == [total |-> 0, found |-> {}, partial |-> FALSE, error |-> "none", full |-> FALSE]

(* Definitions named X_Y are faulty variants of X: each breaks a property. *)

(* appendRecords, the inner loop: one candidate of a record. *)
Candidate(res, candidate) ==
  IF res.full THEN res
  ELSE LET counted == [res EXCEPT !.total = @ + 1]
       IN  IF candidate = Invalid \/ candidate \in res.found THEN counted
           ELSE IF Cardinality(res.found) >= MaxCandidates
                THEN [counted EXCEPT !.partial = TRUE, !.full = TRUE]
           ELSE [counted EXCEPT !.found = @ \cup {candidate}]

Record_NoInputLimit(res, record) ==
  IF res.full THEN res
  ELSE IF record = <<>> THEN [res EXCEPT !.total = @ + 1]
  ELSE FoldLeft(Candidate, res, record)

(* appendRecords, the outer loop: `full' is its early return. *)
Record(res, record) ==
  IF res.full THEN res
  ELSE IF res.total >= RecordLimit THEN [res EXCEPT !.partial = TRUE, !.full = TRUE]
  ELSE IF record = <<>> THEN [res EXCEPT !.total = @ + 1]
  ELSE FoldLeft(Candidate, res, record)

AppendRecords(records, res) == FoldLeft(Record, res, records)

PageAt(m) == IF m \in DOMAIN catalogue THEN catalogue[m] ELSE <<>>

(* An answer names a page and comes with the records of that page or none. *)
Answers == [page : {page} \cup DOMAIN catalogue, claim : Claims, empty : BOOLEAN]

Data(answer) == IF answer.empty THEN <<>> ELSE PageAt(answer.page)

(* validatePagination; totalPages is not held against total or pageSize.   *)
Valid(answer) ==
  /\ answer.page = page
  /\ answer.claim.size >= 1 /\ answer.claim.total >= 0 /\ answer.claim.pages >= 0
  /\ answer.claim.total > 0 => answer.claim.pages >= 1

Accepted_Empty(answer) == Valid(answer)

(* ... and the pages have records, except the first of a list of none.     *)
Accepted(answer) ==
  /\ Valid(answer)
  /\ Data(answer) # <<>> \/ (page = 1 /\ answer.claim.total = 0)

Init ==
  /\ FetchInit
  /\ catalogue \in Catalogues
  /\ pc = "fetch"
  /\ page = 1
  /\ claim = NoClaim
  /\ result = NoResult
  /\ delivered = "nothing"

(* The first request, or the next one after the pause. *)
Ask ==
  /\ pc = "fetch" /\ fetch = "idle"
  /\ Request
  /\ UNCHANGED roundVars

Fetching ==
  /\ pc = "fetch"
  /\ FetchStep
  /\ UNCHANGED roundVars

(* collect's deferred function: an error after proxies makes it partial. *)
Stop(res, error) ==
  /\ pc' = "done"
  /\ result' = [res EXCEPT !.error = error,
                           !.partial = @ \/ (error # "none" /\ res.found # {})]

PageFailed ==
  /\ pc = "fetch" /\ fetch = "failed"
  /\ Stop(result, IF cancelled THEN "cancelled" ELSE "server")
  /\ fetch' = "idle"
  /\ UNCHANGED <<cancelled, attempt, header, wait, catalogue, page, claim, delivered>>

(* The answer is no page of the list as the collector understands it.      *)
RefusePage ==
  /\ pc = "fetch" /\ fetch = "got"
  /\ \E answer \in Answers : ~Accepted(answer)
  /\ Stop(result, "server")
  /\ fetch' = "idle"
  /\ UNCHANGED <<cancelled, attempt, header, wait, catalogue, page, claim, delivered>>

(* After a page, from a server that said `first': a limit met in it or the *)
(* last page ends the round.                                               *)
GoOn(res, first) ==
  IF res.full THEN Stop(res, "none")
  ELSE IF page >= LastPage(first) THEN Stop([res EXCEPT !.partial = Capped(first)], "none")
  ELSE pc' = "pause" /\ result' = res

(* The first answer says how many pages follow.                            *)
FirstPage ==
  /\ pc = "fetch" /\ fetch = "got" /\ page = 1
  /\ \E answer \in Answers :
       /\ Accepted(answer)
       /\ claim' = answer.claim
       /\ GoOn(AppendRecords(Data(answer), result), answer.claim)
  /\ fetch' = "idle"
  /\ UNCHANGED <<cancelled, attempt, header, wait, catalogue, page, delivered>>

LaterPage ==
  /\ pc = "fetch" /\ fetch = "got" /\ page > 1
  /\ \E answer \in Answers :
       Accepted(answer) /\ GoOn(AppendRecords(Data(answer), result), claim)
  /\ fetch' = "idle"
  /\ UNCHANGED <<cancelled, attempt, header, wait, catalogue, page, claim, delivered>>

(* request_interval passes, or the context ends it. *)
Pause ==
  /\ pc = "pause"
  /\ \/ pc' = "fetch" /\ page' = page + 1 /\ UNCHANGED result
     \/ cancelled /\ Stop(result, "cancelled") /\ UNCHANGED page
  /\ UNCHANGED <<fetchVars, catalogue, claim, delivered>>

Collect_Unchecked ==
  /\ pc = "done"
  /\ pc' = "delivered"
  /\ delivered' = "result"
  /\ UNCHANGED <<fetchVars, catalogue, page, claim, result>>

(* Collect hands nothing over once the context is done. *)
Collect ==
  /\ pc = "done"
  /\ pc' = "delivered"
  /\ delivered' = IF cancelled THEN "nothing" ELSE "result"
  /\ UNCHANGED <<fetchVars, catalogue, page, claim, result>>

Round == Ask \/ Fetching \/ PageFailed \/ RefusePage \/ FirstPage \/ LaterPage \/ Pause \/ Collect

Next == Round \/ (Cancel /\ UNCHANGED roundVars)

(* Requests time out (fetch.timeout) and timers fire. *)
Spec == Init /\ [][Next]_vars /\ WF_vars(Round)

-----------------------------------------------------------------------------
(* Properties *)

(* The valid proxies of a page. *)
OnPage(records) == (UNION {ToSet(records[j]) : j \in DOMAIN records}) \ {Invalid}

(* The first n pages are in the result, but for the first of a list that   *)
(* is said to be empty.                                                    *)
HasPages(n) ==
  \A i \in 1 .. n : OnPage(PageAt(i)) \subseteq result.found \/ (i = 1 /\ claim.total = 0)

(* What collectOnce takes for complete (app.go:223). *)
Complete == delivered = "result" /\ result.error = "none" /\ ~result.partial

(* A result that passes for complete holds every valid proxy of every page *)
(* the server said there are: neither a limit nor an empty or misnumbered  *)
(* page nor a failure ends a round early without leaving a trace.  That    *)
(* number is the server's word: if it understates its pages, the round     *)
(* passes for complete without the rest (rolaip.go:114, :268-276).         *)
CompleteIsWhole == Complete => HasPages(claim.pages)

(* max_candidates, the page limit and the input limit hold; a record of    *)
(* two protocols may pass the last by one.                                 *)
LimitsHold ==
  /\ Cardinality(result.found) <= MaxCandidates
  /\ result.total <= RecordLimit + 1
  /\ page <= MaxPages

(* A round the cancellation ended is not handed over as a result, and one  *)
(* that failed after some proxies keeps them, marked partial               *)
(* (docs/config.md:76-77).                                                 *)
InterruptedIsMarked ==
  delivered = "result" => /\ result.error # "cancelled"
                          /\ result.error # "none" /\ result.found # {} => result.partial

(* A refresh ends whatever the server answers: rate limits, failures and   *)
(* page counts are all bounded.                                            *)
RoundEnds == <>(pc = "delivered")

-----------------------------------------------------------------------------
(* The inductive invariant behind them.                                    *)

Tallied(res) ==
  /\ res \in [total : Nat, found : SUBSET Proxies, partial : BOOLEAN,
              error : {"none", "server", "cancelled"}, full : BOOLEAN]
  /\ IsFiniteSet(res.found) /\ Cardinality(res.found) <= MaxCandidates

(* A refresh under way has all of the pages behind it, and knows from the  *)
(* first how many there are.                                               *)
Reading ==
  /\ catalogue \in Catalogues
  /\ claim \in [size : Int, total : Nat, pages : Nat]
  /\ Tallied(result) /\ result.total <= RecordLimit + 1
  /\ page \in Nat \ {0}
  /\ page > 1 => page <= LastPage(claim)
  /\ pc = "pause" => page < LastPage(claim)
  /\ pc \in {"fetch", "pause"} =>
       /\ delivered = "nothing" /\ result.error = "none" /\ ~result.full /\ ~result.partial
       /\ HasPages(IF pc = "fetch" THEN page - 1 ELSE page)

(* One that is over has all there is, or says why not. *)
Ending ==
  /\ pc \in {"done", "delivered"} =>
       /\ result.error = "none" /\ ~result.partial => HasPages(claim.pages)
       /\ result.error # "none" /\ result.found # {} => result.partial
  /\ result.error = "cancelled" => cancelled
  /\ delivered = "result" => pc = "delivered" /\ result.error # "cancelled"

RoundInv == BackoffInv /\ Reading /\ Ending
=============================================================================
