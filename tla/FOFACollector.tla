--------------------------- MODULE FOFACollector ----------------------------
(***************************************************************************)
(* One refresh of the FOFA collector (internal/collectors/fofa): queries   *)
(* are sent in turn, each for as many rows as the budget they share still  *)
(* allows.  The context may be done at any time.                           *)
(*                                                                         *)
(* An answer is a sequence of rows, each a proxy or Invalid (refused by    *)
(* model.New).  The server need not keep to the size it is asked for.      *)
(***************************************************************************)
EXTENDS Integers, SequencesExt

CONSTANTS
  NumQueries,       \* len(cfg.Queries)
  Size,             \* size: rows asked for
  TotalCandidates,  \* total_max_candidates
  Proxies, Invalid,
  Answers           \* answers the server may give

ASSUME FOFAAssumption ==
  /\ NumQueries \in Nat \ {0}
  /\ Size \in Nat \ {0}
  /\ TotalCandidates \in Nat \ {0}
  /\ Invalid \notin Proxies
  /\ Answers \subseteq Seq(Proxies \cup {Invalid})

VARIABLES
  cancelled,  \* ctx is done
  pc,         \* "query", "request", "returned", "taken" or "dropped"
  remaining,  \* what is left of the budget
  results,    \* the results so far
  answers     \* history: what each query was answered with

vars == <<cancelled, pc, remaining, results, answers>>

(* Definitions named X_Y are faulty variants of X: each breaks a property. *)

Init ==
  /\ cancelled = FALSE
  /\ pc = "query"
  /\ remaining = TotalCandidates
  /\ results = <<>>
  /\ answers = <<>>

Query == Len(results) + 1

Limit == IF Size < remaining THEN Size ELSE remaining

NoResult == [source |-> Query, proxies |-> <<>>, partial |-> FALSE, error |-> FALSE]

NoAnswer == [got |-> FALSE, rows |-> <<>>]

(* The result of a query, and what is left for those after it. *)
Done(result, answer) ==
  /\ results' = Append(results, result)
  /\ answers' = Append(answers, answer)
  /\ remaining' = remaining - Len(result.proxies)
  /\ pc' = IF Query = NumQueries THEN "returned" ELSE "query"
  /\ UNCHANGED cancelled

(* With the context done Collect returns nil. *)
Stop ==
  /\ pc = "query" /\ cancelled
  /\ pc' = "returned"
  /\ results' = <<>>
  /\ UNCHANGED <<cancelled, remaining, answers>>

PassOver_Unmarked ==
  /\ pc = "query" /\ ~cancelled
  /\ Limit <= 0
  /\ Done(NoResult, NoAnswer)

(* The budget is used up: no request, an empty result marked partial. *)
PassOver ==
  /\ pc = "query" /\ ~cancelled
  /\ Limit <= 0
  /\ Done([NoResult EXCEPT !.partial = TRUE], NoAnswer)

Request ==
  /\ pc = "query" /\ ~cancelled
  /\ Limit > 0
  /\ pc' = "request"
  /\ UNCHANGED <<cancelled, remaining, results, answers>>

(* No answer, another status, an error in the answer, too long a body. *)
RequestFails == pc = "request" /\ Done([NoResult EXCEPT !.error = TRUE], NoAnswer)

Row_SizeOnly(result, row) ==
  IF result.partial \/ row = Invalid \/ Contains(result.proxies, row) THEN result
  ELSE IF Len(result.proxies) >= Size THEN [result EXCEPT !.partial = TRUE]
  ELSE [result EXCEPT !.proxies = Append(@, row)]

(* A row beyond the limit ends the loop. *)
Row(result, row) ==
  IF result.partial \/ row = Invalid \/ Contains(result.proxies, row) THEN result
  ELSE IF Len(result.proxies) >= Limit THEN [result EXCEPT !.partial = TRUE]
  ELSE [result EXCEPT !.proxies = Append(@, row)]

(* The loop over the rows saw no cancellation. *)
Answered ==
  /\ pc = "request" /\ ~cancelled
  /\ \E answer \in Answers : Done(FoldLeft(Row, NoResult, answer), [got |-> TRUE, rows |-> answer])

(* It saw one, or there was no row to look at the context for. *)
Interrupted ==
  /\ pc = "request" /\ cancelled
  /\ \/ Done([NoResult EXCEPT !.source = 0], NoAnswer)
     \/ Done(NoResult, NoAnswer)

(* collectOnce looks at the context before it uses the results. *)
UseRound ==
  /\ pc = "returned"
  /\ pc' = IF cancelled THEN "dropped" ELSE "taken"
  /\ UNCHANGED <<cancelled, remaining, results, answers>>

Cancel ==
  /\ ~cancelled
  /\ cancelled' = TRUE
  /\ UNCHANGED <<pc, remaining, results, answers>>

Round == Stop \/ PassOver \/ Request \/ RequestFails \/ Answered \/ Interrupted \/ UseRound

Next == Round \/ Cancel

Spec == Init /\ [][Next]_vars

-----------------------------------------------------------------------------
(* Properties *)

Imported(i) == Len(results[i].proxies)

UsedBy(seq) == FoldLeft(LAMBDA n, result : n + Len(result.proxies), 0, seq)

Used == UsedBy(results)

(* The queries share one budget that is never passed, and one that is      *)
(* passed over, or loses rows, without having reached its own size has     *)
(* lost them to a budget that is spent.                                    *)
BudgetHolds ==
  /\ Used <= TotalCandidates
  /\ \A i \in DOMAIN results :
       Imported(i) <= Size /\ (results[i].partial /\ Imported(i) < Size => Used = TotalCandidates)

(* What a result holds if it passes for complete, and under which name.    *)
Kept(i) ==
  /\ results[i].source = i
  /\ ~results[i].error /\ ~results[i].partial =>
       /\ answers[i].got
       /\ ToSet(results[i].proxies) = ToSet(answers[i].rows) \ {Invalid}

(* What the store is given is one result for each query under its own      *)
(* name, and one that passes for complete holds every proxy the server     *)
(* sent: neither a budget used up by earlier queries nor a cancellation    *)
(* that Collect does not notice hands an empty result over as complete.    *)
AnswerKept ==
  pc = "taken" => Len(results) = NumQueries /\ \A i \in 1 .. NumQueries : Kept(i)

-----------------------------------------------------------------------------
(* The inductive invariant behind them.                                    *)

Results == [source : 0 .. NumQueries, proxies : Seq(Proxies), partial : BOOLEAN, error : BOOLEAN]

(* What is taken from the budget is in the results, unless Collect dropped *)
(* them; a result cut short by the budget has left nothing.                *)
Spending ==
  /\ results \in Seq(Results)
  /\ remaining \in Nat
  /\ results # <<>> \/ pc \in {"query", "request"} => Used + remaining = TotalCandidates
  /\ \A i \in DOMAIN results :
       Imported(i) <= Size /\ (results[i].partial /\ Imported(i) < Size => remaining = 0)

(* As long as the context lives, every query so far has kept its answer.   *)
Keeping ==
  /\ answers \in Seq([got : BOOLEAN, rows : Seq(Proxies \cup {Invalid})])
  /\ pc \in {"query", "request"} => Len(results) < NumQueries /\ Len(answers) = Len(results)
  /\ pc \in {"query", "request"} /\ ~cancelled => \A i \in 1 .. Len(results) : Kept(i)
  /\ (pc = "returned" /\ ~cancelled) \/ pc = "taken" =>
       Len(results) = NumQueries /\ \A i \in 1 .. NumQueries : Kept(i)

BudgetInv == Spending /\ Keeping
=============================================================================
