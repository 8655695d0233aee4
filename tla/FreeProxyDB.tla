---------------------------- MODULE FreeProxyDB -----------------------------
(***************************************************************************)
(* One refresh of the FreeProxyDB collector (internal/collectors/          *)
(* freeproxydb).  Unlike RolaIP it computes the number of pages itself,    *)
(* from the total_count of the first, and trusts the server to keep to the *)
(* page size asked for.                                                    *)
(*                                                                         *)
(* The server's list stands still during a refresh.  A record is a proxy,  *)
(* or Invalid: a protocol not supported or a proxy model.New refuses.      *)
(***************************************************************************)
EXTENDS PageFetch, SequencesExt

CONSTANTS
  Proxies, Invalid,
  Catalogues,     \* lists of records the server may have
  PageSize,       \* page_size
  MaxCandidates,  \* max_candidates
  InputFactor,    \* maxInputFactor
  EmptyPages      \* pages the server may send without their records

ASSUME FreeProxyDBAssumption ==
  /\ Invalid \notin Proxies
  /\ Catalogues \subseteq Seq(Proxies \cup {Invalid})
  /\ PageSize \in Nat \ {0}
  /\ MaxCandidates \in Nat \ {0}
  /\ InputFactor \in Nat \ {0}
  /\ EmptyPages \subseteq Nat \ {0}

VARIABLES
  catalogue,  \* what the server lists
  pc,         \* "fetch", "pause" (between pages), "done" or "delivered"
  page,       \* the page asked for
  result,     \* collector.Result with the fields of its report
  delivered   \* what Collect returned: "nothing" or "result"

roundVars == <<catalogue, pc, page, result, delivered>>
vars == <<fetchVars, roundVars>>

RecordLimit ==
  IF MaxCandidates * InputFactor < PageSize THEN PageSize ELSE MaxCandidates * InputFactor

(* Definitions named X_Y are faulty variants of X: each breaks a property. *)

(* pages(total_count, page_size), rounded up. *)
Pages(total) == IF total <= 0 THEN 0 ELSE 1 + (total - 1) \div PageSize

NoResult == [total |-> 0, found |-> {}, partial |-> FALSE, error |-> "none", full |-> FALSE]

Record_NoCandidateLimit(res, record) ==
  IF res.full THEN res
  ELSE IF res.total >= RecordLimit THEN [res EXCEPT !.partial = TRUE, !.full = TRUE]
  ELSE LET counted == [res EXCEPT !.total = @ + 1]
       IN  IF record = Invalid \/ record \in res.found THEN counted
           ELSE [counted EXCEPT !.found = @ \cup {record}]

Record_MarksAtLimit(res, record) ==
  IF res.full THEN res
  ELSE LET counted == [res EXCEPT !.total = @ + 1, !.partial = @ \/ res.total + 1 >= RecordLimit,
                                  !.full = res.total + 1 >= RecordLimit]
       IN  IF record = Invalid \/ record \in res.found THEN counted
           ELSE IF Cardinality(res.found) >= MaxCandidates
                THEN [counted EXCEPT !.partial = TRUE, !.full = TRUE]
           ELSE [counted EXCEPT !.found = @ \cup {record}]

(* appendRecords, one record; `full' is its early return. *)
Record(res, record) ==
  IF res.full THEN res
  ELSE IF res.total >= RecordLimit THEN [res EXCEPT !.partial = TRUE, !.full = TRUE]
  ELSE LET counted == [res EXCEPT !.total = @ + 1]
       IN  IF record = Invalid \/ record \in res.found THEN counted
           ELSE IF Cardinality(res.found) >= MaxCandidates
                THEN [counted EXCEPT !.partial = TRUE, !.full = TRUE]
           ELSE [counted EXCEPT !.found = @ \cup {record}]

AppendRecords(records, res) == FoldLeft(Record, res, records)

(* The records of page n as the server sends them. *)
PageOf(n) ==
  LET last == Smaller(n * PageSize, Len(catalogue))
  IN  {SubSeq(catalogue, (n - 1) * PageSize + 1, last)}
        \cup (IF n \in EmptyPages THEN {<<>>} ELSE {})

Init ==
  /\ FetchInit
  /\ catalogue \in Catalogues
  /\ pc = "fetch"
  /\ page = 1
  /\ result = NoResult
  /\ delivered = "nothing"

Ask ==
  /\ pc = "fetch" /\ fetch = "idle"
  /\ Request
  /\ UNCHANGED roundVars

Fetching ==
  /\ pc = "fetch"
  /\ FetchStep
  /\ UNCHANGED roundVars

Stop(res, error) == pc' = "done" /\ result' = [res EXCEPT !.error = error]

(* The next page is due, or the round is over. *)
Continue(res) ==
  IF res.full \/ page >= Pages(Len(catalogue))
  THEN Stop(res, "none")
  ELSE pc' = "pause" /\ result' = res

(* The fetch failed, or the first page claims a negative total_count. *)
PageFailed ==
  /\ pc = "fetch"
  /\ fetch = "failed" \/ (fetch = "got" /\ page = 1)
  /\ Stop(result, IF fetch = "failed" /\ cancelled THEN "cancelled" ELSE "server")
  /\ fetch' = "idle"
  /\ UNCHANGED <<cancelled, attempt, header, wait, catalogue, page, delivered>>

FirstPage ==
  /\ pc = "fetch" /\ fetch = "got" /\ page = 1
  /\ \E records \in PageOf(page) : Continue(AppendRecords(records, result))
  /\ fetch' = "idle"
  /\ UNCHANGED <<cancelled, attempt, header, wait, catalogue, page, delivered>>

LaterPage_TakesEmpty ==
  /\ pc = "fetch" /\ fetch = "got" /\ page > 1
  /\ \E records \in PageOf(page) : Continue(AppendRecords(records, result))
  /\ fetch' = "idle"
  /\ UNCHANGED <<cancelled, attempt, header, wait, catalogue, page, delivered>>

(* A later page must not be empty before total_count is exhausted. *)
LaterPage ==
  /\ pc = "fetch" /\ fetch = "got" /\ page > 1
  /\ \E records \in PageOf(page) :
       IF records = <<>> THEN Stop(result, "server")
       ELSE Continue(AppendRecords(records, result))
  /\ fetch' = "idle"
  /\ UNCHANGED <<cancelled, attempt, header, wait, catalogue, page, delivered>>

(* request_interval passes, or the context ends it. *)
Pause ==
  /\ pc = "pause"
  /\ \/ pc' = "fetch" /\ page' = page + 1 /\ UNCHANGED result
     \/ cancelled /\ Stop(result, "cancelled") /\ UNCHANGED page
  /\ UNCHANGED <<fetchVars, catalogue, delivered>>

(* Collect hands nothing over once the context is done. *)
Collect ==
  /\ pc = "done"
  /\ pc' = "delivered"
  /\ delivered' = IF cancelled THEN "nothing" ELSE "result"
  /\ UNCHANGED <<fetchVars, catalogue, page, result>>

Round == Ask \/ Fetching \/ PageFailed \/ FirstPage \/ LaterPage \/ Pause \/ Collect

Next == Round \/ (Cancel /\ UNCHANGED roundVars)

(* Requests time out (fetch.timeout) and timers fire. *)
Spec == Init /\ [][Next]_vars /\ WF_vars(Round)

-----------------------------------------------------------------------------
(* Properties *)

(* What collectOnce takes for complete (app.go:223). *)
Complete == delivered = "result" /\ result.error = "none" /\ ~result.partial

(* A result that passes for complete holds every valid proxy the server    *)
(* lists: pages are neither skipped nor cut off silently at a limit, and   *)
(* one that comes without its records is an error (freeproxydb.go:117).    *)
(* The first page is taken as it comes: the property needs a server that   *)
(* sends its records (freeproxydb.go:102 has no such check).               *)
CompleteIsWhole == Complete => result.found = ToSet(catalogue) \ {Invalid}

(* max_candidates and the input limit hold exactly. *)
LimitsHold ==
  /\ Cardinality(result.found) <= MaxCandidates
  /\ result.total <= RecordLimit

(* A list within both limits is never marked partial, one that meets them  *)
(* exactly at its end included: the mark would let a recovery wait for a   *)
(* source that has come back (freeproxydb.go:129, :153; store.go:187).     *)
TooMuch ==
  \/ Len(catalogue) > RecordLimit
  \/ Cardinality(ToSet(catalogue) \ {Invalid}) > MaxCandidates

MarkedWithReason == result.partial => TooMuch

(* A refresh ends whatever the server answers.                             *)
RoundEnds == <>(pc = "delivered")

-----------------------------------------------------------------------------
(* The inductive invariant behind them.                                    *)

Tallied(res) ==
  /\ res \in [total : Nat, found : SUBSET Proxies, partial : BOOLEAN,
              error : {"none", "server", "cancelled"}, full : BOOLEAN]
  /\ IsFiniteSet(res.found) /\ Cardinality(res.found) <= MaxCandidates

(* The valid proxies of the first n pages. *)
ListedTo(n) == {catalogue[i] : i \in 1 .. Smaller(n * PageSize, Len(catalogue))} \ {Invalid}

(* A refresh under way has all of the pages behind it. *)
Reading ==
  /\ catalogue \in Catalogues
  /\ Tallied(result) /\ result.total <= RecordLimit
  /\ page \in Nat \ {0}
  /\ pc \in {"fetch", "pause"} =>
       /\ delivered = "nothing" /\ result.error = "none" /\ ~result.full /\ ~result.partial
       /\ 1 \notin EmptyPages => result.found = ListedTo(IF pc = "fetch" THEN page - 1 ELSE page)

(* One that is over has all there is, or says why not. *)
Ending ==
  /\ pc \in {"done", "delivered"} /\ 1 \notin EmptyPages =>
       (result.error = "none" /\ ~result.partial => result.found = ToSet(catalogue) \ {Invalid})
  /\ delivered = "result" => pc = "delivered"

(* No record is counted twice, so a limit is only met by a list beyond it. *)
Counting ==
  /\ MarkedWithReason
  /\ result.found \subseteq ToSet(catalogue)
  /\ pc \in {"fetch", "pause"} =>
       result.total <= Smaller((IF pc = "fetch" THEN page - 1 ELSE page) * PageSize, Len(catalogue))

RoundInv == Reading /\ Ending /\ Counting
=============================================================================
