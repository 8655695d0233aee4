------------------------- MODULE FOFACollector_proofs ------------------------
(***************************************************************************)
(* Theorems about a refresh of FOFA, for any number of queries, any size   *)
(* and budget, and any answers.                                            *)
(***************************************************************************)
EXTENDS FOFACollector, FoldLemmas

Rows == Proxies \cup {Invalid}
AnswersKept == [got : BOOLEAN, rows : Seq(Rows)]

LEMMA LimitType ==
  ASSUME remaining \in Nat
  PROVE  Limit \in Nat /\ Limit <= Size /\ Limit <= remaining /\ (Limit < Size => Limit = remaining)
  BY FOFAAssumption DEF Limit, FOFAAssumption

-----------------------------------------------------------------------------
(* What the rows of an answer make of a result.                            *)
LEMMA RowType ==
  ASSUME NEW result \in Results, NEW row \in Rows
  PROVE  Row(result, row) \in Results
<1>1. CASE row \in Proxies
  <2>1. Append(result.proxies, row) \in Seq(Proxies)
    BY <1>1 DEF Results
  <2> QED
    BY <2>1 DEF Row, Results
<1>2. CASE row = Invalid
  BY <1>2 DEF Row
<1> QED
  BY <1>1, <1>2 DEF Rows

(* The loop goes through an answer row by row.                             *)
LEMMA RowTrace ==
  ASSUME NEW base \in Results, NEW rows \in Seq(Rows)
  PROVE  \E t \in [0 .. Len(rows) -> Results] :
           /\ t[0] = base
           /\ \A i \in 1 .. Len(rows) : t[i] = Row(t[i - 1], rows[i])
           /\ t[Len(rows)] = FoldLeft(Row, base, rows)
<1> DEFINE n == Len(rows)
           step == [p \in (1 .. n) \X Results |-> Row(p[2], rows[p[1]])]
           table == CHOOSE g : g = [s \in SUBSET (1 .. n) |->
                      IF s = {} THEN base ELSE Row(g[s \ {Max(s)}], rows[Max(s)])]
<1>1. n \in Nat /\ DOMAIN rows = 1 .. n /\ step \in Steps(n, Results)
  <2>1. n \in Nat /\ DOMAIN rows = 1 .. n
    OBVIOUS
  <2>2. \A i \in 1 .. n, r \in Results : Row(r, rows[i]) \in Results
    BY RowType
  <2> QED
    BY <2>1, <2>2 DEF Steps
<1>2. \A i \in 1 .. n, r \in Results : step[<<i, r>>] = Row(r, rows[i])
  OBVIOUS
<1>3. FoldLeft(Row, base, rows) = table[1 .. n]
  BY <1>1 DEF FoldLeft, MapThenFoldSet
<1> HIDE DEF step, n, table
<1>4. PICK g \in [SUBSET (1 .. n) -> Results] : IsTable(g, n, Results, base, step)
  BY <1>1, FoldTable
<1>5. \A s \in SUBSET (1 .. n) : s # {} => Max(s) \in 1 .. n /\ s \ {Max(s)} \in SUBSET (1 .. n)
  BY <1>1, LargestExists
<1>6. g = [s \in SUBSET (1 .. n) |-> IF s = {} THEN base ELSE Row(g[s \ {Max(s)}], rows[Max(s)])]
  BY <1>2, <1>4, <1>5 DEF IsTable
<1>7. table = [s \in SUBSET (1 .. n) |-> IF s = {} THEN base ELSE Row(table[s \ {Max(s)}], rows[Max(s)])]
  BY <1>6 DEF table
<1>8. IsTable(table, n, Results, base, step)
  BY <1>2, <1>5, <1>7 DEF IsTable
<1>9. PICK t \in [0 .. n -> Results] : IsTrace(t, n, base, step) /\ t[n] = table[1 .. n]
  BY <1>1, <1>8, TableTrace
<1>10. \A i \in 1 .. n : t[i] = Row(t[i - 1], rows[i])
  <2> TAKE i \in 1 .. n
  <2>1. i - 1 \in 0 .. n
    BY <1>1
  <2> QED
    BY <1>2, <1>9, <2>1 DEF IsTrace
<1> QED
  BY <1>3, <1>9, <1>10 DEF n, IsTrace

(* A result without a mark has every valid row, and one with a mark is as  *)
(* long as the limit.                                                      *)
LEMMA AnswerRead ==
  ASSUME remaining \in Nat, NoResult \in Results, NEW rows \in Seq(Rows)
  PROVE  LET result == FoldLeft(Row, NoResult, rows)
         IN  /\ result \in Results /\ result.source = Query /\ ~result.error
             /\ Len(result.proxies) <= Limit
             /\ result.partial => Len(result.proxies) = Limit
             /\ ~result.partial => ToSet(result.proxies) = ToSet(rows) \ {Invalid}
<1> DEFINE n == Len(rows)
<1>1. PICK t \in [0 .. n -> Results] : /\ t[0] = NoResult
                                       /\ \A i \in 1 .. n : t[i] = Row(t[i - 1], rows[i])
                                       /\ t[n] = FoldLeft(Row, NoResult, rows)
  BY RowTrace
<1> DEFINE Read(m) == /\ t[m].source = Query /\ ~t[m].error
                      /\ Len(t[m].proxies) <= Limit
                      /\ t[m].partial => Len(t[m].proxies) = Limit
                      /\ ~t[m].partial => ToSet(t[m].proxies) = FirstOf(rows, m) \ {Invalid}
           P == {m \in 0 .. n : Read(m)}
<1>2. n \in Nat /\ Limit \in Nat /\ Invalid \notin Proxies
  BY LimitType, FOFAAssumption DEF FOFAAssumption
<1>3. 0 \in P
  <2>1. /\ NoResult.proxies = <<>> /\ NoResult.source = Query /\ ~NoResult.partial /\ ~NoResult.error
        /\ ToSet(<<>>) = {} /\ Len(<<>>) = 0
    BY DEF NoResult, ToSet
  <2>2. Read(0)
    BY <1>1, <1>2, <2>1, FirstOfAll
  <2> HIDE DEF Read
  <2> QED
    BY <1>2, <2>2
<1>4. ASSUME NEW m \in 1 .. n, m - 1 \in P PROVE m \in P
  <2> DEFINE result == t[m - 1]
             row == rows[m]
  <2>1. /\ result \in Results /\ row \in Rows /\ t[m] = Row(result, row)
        /\ FirstOf(rows, m) = FirstOf(rows, m - 1) \cup {row}
        /\ Read(m - 1) /\ Len(result.proxies) \in Nat /\ result.proxies \in Seq(Proxies)
    BY <1>1, <1>4, FirstOfNext DEF Results
  <2>2. CASE result.partial \/ row = Invalid \/ Contains(result.proxies, row)
    <3>1. t[m] = result
      BY <2>1, <2>2 DEF Row
    <3>2. Contains(result.proxies, row) => row \in ToSet(result.proxies)
      BY <2>1 DEF Contains, ToSet
    <3>3. Read(m)
      BY <2>1, <2>2, <3>1, <3>2
    <3> QED
      BY <3>3
  <2>3. CASE ~(result.partial \/ row = Invalid \/ Contains(result.proxies, row))
    <3>1. CASE Len(result.proxies) >= Limit
      <4>1. Read(m)
        BY <1>2, <2>1, <2>3, <3>1 DEF Row, Results
      <4> QED
        BY <4>1
    <3>2. CASE ~(Len(result.proxies) >= Limit)
      <4>1. t[m] = [result EXCEPT !.proxies = Append(@, row)] /\ row \in Proxies
        BY <2>1, <2>3, <3>2 DEF Row, Rows
      <4>2. /\ Len(Append(result.proxies, row)) = Len(result.proxies) + 1
            /\ ToSet(Append(result.proxies, row)) = ToSet(result.proxies) \cup {row}
        BY <2>1, <4>1, AppendSet
      <4>3. /\ t[m].proxies = Append(result.proxies, row) /\ t[m].source = result.source
            /\ t[m].partial = result.partial /\ t[m].error = result.error
        BY <2>1, <4>1 DEF Results
      <4>4. Read(m)
        BY <1>2, <2>1, <2>3, <3>2, <4>2, <4>3
      <4> QED
        BY <4>4
    <3> QED
      BY <3>1, <3>2
  <2> QED
    BY <2>2, <2>3
<1>5. \A m \in 0 .. n : m \in P
  <2> HIDE DEF P, n
  <2> QED
    BY <1>2, <1>3, <1>4, InductionUpTo
<1>6. t[n] \in Results /\ Read(n) /\ FirstOf(rows, n) = ToSet(rows)
  BY <1>1, <1>2, <1>5, FirstOfAll
<1> QED
  BY <1>1, <1>6

-----------------------------------------------------------------------------
(* The sum over the results, as a loop over them computes it.              *)
Adds(seq) == [p \in (1 .. Len(seq)) \X Nat |-> p[2] + Len(seq[p[1]].proxies)]

LEMMA AddsAt ==
  ASSUME NEW seq, NEW i \in 1 .. Len(seq), NEW m \in Nat
  PROVE  Adds(seq)[<<i, m>>] = m + Len(seq[i].proxies)
<1>1. <<i, m>> \in (1 .. Len(seq)) \X Nat
  OBVIOUS
<1> QED
  BY <1>1 DEF Adds

LEMMA UsedTrace ==
  ASSUME NEW seq \in Seq(Results)
  PROVE  \E t \in [0 .. Len(seq) -> Nat] :
           /\ t[0] = 0
           /\ \A i \in 1 .. Len(seq) : t[i] = t[i - 1] + Len(seq[i].proxies)
           /\ t[Len(seq)] = UsedBy(seq)
<1> DEFINE n == Len(seq)
           step == Adds(seq)
           add(m, result) == m + Len(result.proxies)
           table == CHOOSE g : g = [s \in SUBSET (1 .. n) |->
                      IF s = {} THEN 0 ELSE add(g[s \ {Max(s)}], seq[Max(s)])]
<1>1. n \in Nat /\ DOMAIN seq = 1 .. n /\ \A i \in 1 .. n : Len(seq[i].proxies) \in Nat
  BY DEF Results
<1>2. step \in Steps(n, Nat) /\ \A i \in 1 .. n, m \in Nat : step[<<i, m>>] = add(m, seq[i])
  BY <1>1 DEF Adds, Steps
<1>3. UsedBy(seq) = table[1 .. n]
  BY <1>1 DEF UsedBy, FoldLeft, MapThenFoldSet
<1> HIDE DEF step, table, n, add
<1>4. PICK g \in [SUBSET (1 .. n) -> Nat] : IsTable(g, n, Nat, 0, step)
  BY <1>1, <1>2, FoldTable
<1>5. \A s \in SUBSET (1 .. n) : s # {} => Max(s) \in 1 .. n /\ s \ {Max(s)} \in SUBSET (1 .. n)
  BY <1>1, LargestExists
<1>6. g = [s \in SUBSET (1 .. n) |-> IF s = {} THEN 0 ELSE add(g[s \ {Max(s)}], seq[Max(s)])]
  BY <1>2, <1>4, <1>5 DEF IsTable
<1>7. table = [s \in SUBSET (1 .. n) |-> IF s = {} THEN 0 ELSE add(table[s \ {Max(s)}], seq[Max(s)])]
  BY <1>6 DEF table
<1>8. IsTable(table, n, Nat, 0, step)
  BY <1>2, <1>5, <1>7 DEF IsTable
<1>9. PICK t \in [0 .. n -> Nat] : IsTrace(t, n, 0, step) /\ t[n] = table[1 .. n]
  <2> DEFINE A == Nat
             zero == 0
  <2>1. zero \in A /\ step \in Steps(n, A) /\ IsTable(table, n, A, zero, step)
    BY <1>2, <1>8
  <2> HIDE DEF A, zero
  <2>2. PICK t \in [0 .. n -> A] : IsTrace(t, n, zero, step) /\ t[n] = table[1 .. n]
    BY <1>1, <2>1, TableTrace
  <2> QED
    BY <2>2 DEF A, zero
<1>10. \A i \in 1 .. n : t[i] = t[i - 1] + Len(seq[i].proxies)
  <2> TAKE i \in 1 .. n
  <2>1. i - 1 \in 0 .. n
    BY <1>1
  <2> QED
    BY <1>2, <1>9, <2>1 DEF IsTrace, add
<1> QED
  BY <1>3, <1>9, <1>10 DEF n, IsTrace

LEMMA UsedNext ==
  ASSUME NEW seq \in Seq(Results), NEW result \in Results
  PROVE  /\ UsedBy(<<>>) = 0 /\ UsedBy(seq) \in Nat
         /\ UsedBy(Append(seq, result)) = UsedBy(seq) + Len(result.proxies)
<1> DEFINE n == Len(seq)
           longer == Append(seq, result)
<1>1. /\ n \in Nat /\ longer \in Seq(Results) /\ Len(longer) = n + 1
      /\ \A i \in 1 .. n : longer[i] = seq[i] /\ longer[n + 1] = result
  OBVIOUS
<1>2. PICK t \in [0 .. n -> Nat] : /\ t[0] = 0 /\ t[n] = UsedBy(seq)
                                   /\ \A i \in 1 .. n : t[i] = t[i - 1] + Len(seq[i].proxies)
  BY UsedTrace
<1> HIDE DEF longer
<1>3. PICK u \in [0 .. n + 1 -> Nat] :
        /\ u[0] = 0 /\ u[n + 1] = UsedBy(longer)
        /\ \A i \in 1 .. n + 1 : u[i] = u[i - 1] + Len(longer[i].proxies)
  <2>1. PICK u \in [0 .. Len(longer) -> Nat] :
          /\ u[0] = 0 /\ u[Len(longer)] = UsedBy(longer)
          /\ \A i \in 1 .. Len(longer) : u[i] = u[i - 1] + Len(longer[i].proxies)
    BY <1>1, UsedTrace
  <2> QED
    BY <1>1, <2>1
<1>4. t[n] = u[n]
  <2> DEFINE P == {i \in 0 .. n : t[i] = u[i]}
  <2>1. 0 \in P
    BY <1>1, <1>2, <1>3
  <2>2. ASSUME NEW i \in 1 .. n, i - 1 \in P PROVE i \in P
    <3>1. i \in 1 .. n + 1 /\ longer[i] = seq[i]
      BY <1>1
    <3> QED
      BY <1>1, <1>2, <1>3, <2>2, <3>1
  <2> HIDE DEF P, n
  <2>3. \A i \in 0 .. n : i \in P
    BY <1>1, <2>1, <2>2, InductionUpTo
  <2> QED
    BY <1>1, <2>3 DEF P
<1>5. longer[n + 1] = result
  BY DEF longer
<1>6. UsedBy(longer) = UsedBy(seq) + Len(result.proxies)
  <2>1. n + 1 \in 1 .. n + 1 /\ (n + 1) - 1 = n
    BY <1>1
  <2> QED
    BY <1>2, <1>3, <1>4, <1>5, <2>1
<1>7. UsedBy(<<>>) = 0
  <2>1. <<>> \in Seq(Results) /\ Len(<<>>) = 0
    OBVIOUS
  <2> QED
    BY <2>1, UsedTrace
<1> QED
  BY <1>1, <1>2, <1>6, <1>7 DEF longer

-----------------------------------------------------------------------------
LEMMA NoResultType ==
  ASSUME results \in Seq(Results), Len(results) < NumQueries
  PROVE  /\ NoResult \in Results /\ NoResult.source = Query /\ Query \in 1 .. NumQueries
         /\ NoResult.proxies = <<>> /\ ~NoResult.partial /\ ~NoResult.error
         /\ NoAnswer \in AnswersKept
<1>1. Query \in 1 .. NumQueries /\ 0 \in 0 .. NumQueries
  BY FOFAAssumption DEF Query, FOFAAssumption
<1> HIDE DEF Query
<1> QED
  BY <1>1 DEF NoResult, NoAnswer, AnswersKept, Results

LEMMA SameResults ==
  ASSUME UNCHANGED <<results, answers>>
  PROVE  /\ Used' = Used
         /\ \A i : Imported(i)' = Imported(i) /\ (Kept(i)' <=> Kept(i))
<1>1. Used' = Used
  BY DEF Used
<1> QED
  BY <1>1 DEF Imported, Kept

LEMMA InitBudget == Init => BudgetInv
<1> SUFFICES ASSUME Init PROVE BudgetInv
  OBVIOUS
<1>1. Used = 0
  <2>1. results \in Seq(Results)
    BY DEF Init
  <2>2. UsedBy(<<>>) = 0
    <3>1. PICK t \in [0 .. 0 -> Nat] : t[0] = 0 /\ t[0] = UsedBy(<<>>)
      <4>1. <<>> \in Seq(Results) /\ Len(<<>>) = 0
        OBVIOUS
      <4> QED
        BY <4>1, UsedTrace
    <3> QED
      BY <3>1
  <2> QED
    BY <2>2 DEF Init, Used
<1>2. Spending
  BY <1>1, FOFAAssumption DEF Init, Spending, FOFAAssumption
<1>3. Keeping
  BY FOFAAssumption DEF Init, Keeping, FOFAAssumption
<1> QED
  BY <1>2, <1>3 DEF BudgetInv

(* A query's result is taken from the budget and kept with its answer.     *)
LEMMA DoneStep ==
  ASSUME BudgetInv, pc \in {"query", "request"}, NEW result \in Results, NEW answer \in AnswersKept,
         Done(result, answer),
         Len(result.proxies) <= Size, Len(result.proxies) <= remaining,
         result.partial /\ Len(result.proxies) < Size => Len(result.proxies) = remaining,
         ~cancelled => /\ result.source = Query
                       /\ ~result.error /\ ~result.partial =>
                            answer.got /\ ToSet(result.proxies) = ToSet(answer.rows) \ {Invalid}
  PROVE  BudgetInv'
<1> DEFINE n == Len(results)
           k == Len(result.proxies)
<1>1. /\ results \in Seq(Results) /\ answers \in Seq(AnswersKept) /\ n \in Nat
      /\ n < NumQueries /\ Len(answers) = n /\ remaining \in Nat /\ k \in Nat
      /\ Used + remaining = TotalCandidates
      /\ Size \in Nat /\ NumQueries \in Nat
  BY FOFAAssumption DEF BudgetInv, Spending, Keeping, AnswersKept, Rows, Results, FOFAAssumption
<1>2. /\ results' = Append(results, result) /\ answers' = Append(answers, answer)
      /\ remaining' = remaining - k /\ cancelled' = cancelled
      /\ pc' = IF n + 1 = NumQueries THEN "returned" ELSE "query"
  BY DEF Done, Query
<1>3. /\ results' \in Seq(Results) /\ Len(results') = n + 1 /\ DOMAIN results' = 1 .. n + 1
      /\ \A i \in 1 .. n : results'[i] = results[i]
      /\ results'[n + 1] = result
  BY <1>1, <1>2
<1>4. /\ answers' \in Seq(AnswersKept) /\ Len(answers') = n + 1
      /\ \A i \in 1 .. n : answers'[i] = answers[i]
      /\ answers'[n + 1] = answer
  BY <1>1, <1>2
<1>5. Used' + remaining' = TotalCandidates
  <2>1. Used' = Used + k /\ Used \in Nat
    <3>1. Used = UsedBy(results) /\ Used' = UsedBy(results')
      BY DEF Used
    <3> QED
      BY <1>1, <1>2, <3>1, UsedNext
  <2> HIDE DEF k
  <2> QED
    BY <1>1, <1>2, <2>1
<1>6. \A i \in 1 .. n + 1 : i \in 1 .. n \/ i = n + 1
  BY <1>1
<1>7. Spending'
  <2>1. remaining' \in Nat /\ (remaining = 0 => remaining' = 0)
    BY <1>1, <1>2
  <2>2. ASSUME NEW i \in 1 .. n + 1
        PROVE  Imported(i)' <= Size /\ (results'[i].partial /\ Imported(i)' < Size => remaining' = 0)
    <3>1. CASE i \in 1 .. n
      <4>1. Imported(i)' = Imported(i) /\ results'[i] = results[i] /\ i \in DOMAIN results
        BY <1>1, <1>3, <3>1 DEF Imported
      <4> QED
        BY <2>1, <4>1 DEF BudgetInv, Spending
    <3>2. CASE i = n + 1
      <4>1. Imported(i)' = k /\ results'[i] = result
        BY <1>3, <3>2 DEF Imported
      <4> QED
        BY <1>1, <1>2, <4>1
    <3> QED
      BY <1>6, <3>1, <3>2
  <2> QED
    BY <1>3, <1>5, <2>1, <2>2 DEF Spending
<1>8. ~cancelled => \A i \in 1 .. n + 1 : Kept(i)'
  <2> SUFFICES ASSUME ~cancelled, NEW i \in 1 .. n + 1 PROVE Kept(i)'
    OBVIOUS
  <2>1. CASE i \in 1 .. n
    <3>1. Kept(i)
      BY <2>1 DEF BudgetInv, Keeping
    <3> QED
      BY <1>3, <1>4, <2>1, <3>1 DEF Kept
  <2>2. CASE i = n + 1
    BY <1>3, <1>4, <2>2 DEF Kept, Query
  <2> QED
    BY <1>6, <2>1, <2>2
<1>9. Keeping'
  <2>1. CASE n + 1 = NumQueries
    BY <1>2, <1>3, <1>4, <1>8, <2>1 DEF Keeping, AnswersKept, Rows
  <2>2. CASE n + 1 # NumQueries
    <3>1. n + 1 < NumQueries
      BY <1>1, <2>2
    <3> QED
      BY <1>2, <1>3, <1>4, <1>8, <2>2, <3>1 DEF Keeping, AnswersKept, Rows
  <2> QED
    BY <2>1, <2>2
<1> QED
  BY <1>7, <1>9 DEF BudgetInv

LEMMA NextBudget == BudgetInv /\ [Next]_vars => BudgetInv'
<1> SUFFICES ASSUME BudgetInv, [Next]_vars PROVE BudgetInv'
  OBVIOUS
<1>0. /\ results \in Seq(Results) /\ remaining \in Nat /\ Size \in Nat \ {0} /\ Len(<<>>) = 0
      /\ pc \in {"query", "request"} => Len(results) < NumQueries
  BY FOFAAssumption DEF BudgetInv, Spending, Keeping, FOFAAssumption
<1>1. pc \in {"query", "request"} =>
        /\ NoResult \in Results /\ NoResult.source = Query
        /\ NoResult.proxies = <<>> /\ ~NoResult.partial /\ ~NoResult.error
        /\ NoAnswer \in AnswersKept
  BY <1>0, NoResultType
<1>2. CASE Stop
  <2>1. /\ pc' = "returned" /\ results' = <<>> /\ cancelled' /\ remaining' = remaining /\ answers' = answers
    BY <1>2 DEF Stop
  <2>2. <<>> \in Seq(Results) /\ DOMAIN <<>> = {}
    OBVIOUS
  <2>3. Spending'
    BY <1>0, <2>1, <2>2 DEF Spending
  <2>4. Keeping'
    BY <2>1 DEF BudgetInv, Keeping
  <2> QED
    BY <2>3, <2>4 DEF BudgetInv
<1>3. CASE PassOver
  <2> DEFINE result == [NoResult EXCEPT !.partial = TRUE]
  <2>1. pc = "query" /\ Done(result, NoAnswer) /\ remaining = 0
    BY <1>0, <1>3 DEF PassOver, Limit
  <2>2. /\ result \in Results /\ result.source = Query /\ result.proxies = <<>> /\ result.partial
    BY <1>1, <2>1 DEF Results
  <2> HIDE DEF result
  <2> QED
    BY <1>0, <1>1, <2>1, <2>2, DoneStep
<1>4. CASE Request
  <2>1. pc = "query" /\ pc' = "request" /\ UNCHANGED <<cancelled, remaining, results, answers>>
    BY <1>4 DEF Request
  <2> QED
    BY <2>1, SameResults DEF BudgetInv, Spending, Keeping
<1>5. CASE RequestFails
  <2> DEFINE result == [NoResult EXCEPT !.error = TRUE]
  <2>1. pc = "request" /\ Done(result, NoAnswer)
    BY <1>5 DEF RequestFails
  <2>2. /\ result \in Results /\ result.source = Query /\ result.proxies = <<>> /\ ~result.partial /\ result.error
    BY <1>1, <2>1 DEF Results
  <2> HIDE DEF result
  <2> QED
    BY <1>0, <1>1, <2>1, <2>2, DoneStep
<1>6. CASE Answered
  <2>1. PICK rows \in Answers : Done(FoldLeft(Row, NoResult, rows), [got |-> TRUE, rows |-> rows])
    BY <1>6 DEF Answered
  <2> DEFINE result == FoldLeft(Row, NoResult, rows)
             answer == [got |-> TRUE, rows |-> rows]
  <2>2. rows \in Seq(Rows) /\ answer \in AnswersKept /\ answer.got /\ answer.rows = rows
    BY FOFAAssumption DEF FOFAAssumption, Rows, AnswersKept
  <2>3. /\ result \in Results /\ result.source = Query /\ ~result.error
        /\ Len(result.proxies) <= Limit
        /\ result.partial => Len(result.proxies) = Limit
        /\ ~result.partial => ToSet(result.proxies) = ToSet(rows) \ {Invalid}
    BY <1>0, <1>1, <1>6, <2>2, AnswerRead DEF Answered
  <2>4. Limit \in Nat /\ Limit <= Size /\ Limit <= remaining /\ (Limit < Size => Limit = remaining)
    BY <1>0, LimitType
  <2> HIDE DEF result, answer
  <2>5. Len(result.proxies) \in Nat
    BY <2>3 DEF Results
  <2>6. /\ Len(result.proxies) <= Size /\ Len(result.proxies) <= remaining
        /\ result.partial /\ Len(result.proxies) < Size => Len(result.proxies) = remaining
    BY <1>0, <2>3, <2>4, <2>5
  <2>7. Done(result, answer) /\ pc = "request"
    BY <1>6, <2>1 DEF result, answer, Answered
  <2> QED
    BY <2>2, <2>3, <2>6, <2>7, DoneStep
<1>7. CASE Interrupted
  <2>1. pc = "request" /\ cancelled
    BY <1>7 DEF Interrupted
  <2>2. PICK result \in {[NoResult EXCEPT !.source = 0], NoResult} : Done(result, NoAnswer)
    BY <1>7 DEF Interrupted
  <2>3. result \in Results /\ result.proxies = <<>> /\ ~result.partial
    <3>1. 0 \in 0 .. NumQueries
      BY FOFAAssumption DEF FOFAAssumption
    <3> QED
      BY <1>1, <2>1, <3>1 DEF Results
  <2> QED
    BY <1>0, <1>1, <2>1, <2>2, <2>3, DoneStep
<1>8. CASE UseRound
  <2>1. /\ pc = "returned" /\ pc' = (IF cancelled THEN "dropped" ELSE "taken")
        /\ UNCHANGED <<cancelled, remaining, results, answers>>
    BY <1>8 DEF UseRound
  <2> QED
    BY <2>1, SameResults DEF BudgetInv, Spending, Keeping
<1>9. CASE Cancel
  <2>1. cancelled' /\ UNCHANGED <<pc, remaining, results, answers>>
    BY <1>9 DEF Cancel
  <2> QED
    BY <2>1, SameResults DEF BudgetInv, Spending, Keeping
<1>10. CASE UNCHANGED vars
  BY <1>10, SameResults DEF vars, BudgetInv, Spending, Keeping
<1> QED
  BY <1>2, <1>3, <1>4, <1>5, <1>6, <1>7, <1>8, <1>9, <1>10 DEF Next, Round

LEMMA BudgetInvariant == Spec => []BudgetInv
  BY InitBudget, NextBudget, PTL DEF Spec

(* The queries never take more than the budget they share, and what one is *)
(* cut off from the budget has been spent.                                 *)
THEOREM BudgetShared == Spec => []BudgetHolds
<1>1. ASSUME BudgetInv PROVE BudgetHolds
  <2>1. results \in Seq(Results) /\ remaining \in Nat /\ TotalCandidates \in Nat
    BY <1>1, FOFAAssumption DEF BudgetInv, Spending, FOFAAssumption
  <2>2. CASE results # <<>>
    <3>1. Used \in Nat
      <4>1. PICK t \in [0 .. Len(results) -> Nat] : t[Len(results)] = UsedBy(results)
        BY <2>1, UsedTrace
      <4> QED
        BY <2>1, <4>1 DEF Used
    <3> QED
      BY <1>1, <2>1, <2>2, <3>1 DEF BudgetInv, Spending, BudgetHolds
  <2>3. CASE results = <<>>
    <3>1. Used = 0
      <4>1. <<>> \in Seq(Results) /\ Len(<<>>) = 0
        OBVIOUS
      <4>2. UsedBy(<<>>) = 0
        BY <4>1, UsedTrace
      <4> QED
        BY <2>3, <4>2 DEF Used
    <3> QED
      BY <1>1, <2>1, <2>3, <3>1 DEF BudgetHolds
  <2> QED
    BY <2>2, <2>3
<1> QED
  BY <1>1, BudgetInvariant, PTL

(* What the store is given is one result for each query, and one that      *)
(* passes for complete has all its answer had.                             *)
THEOREM CompleteAnswers == Spec => []AnswerKept
<1>1. BudgetInv => AnswerKept
  BY DEF BudgetInv, Keeping, AnswerKept
<1> QED
  BY <1>1, BudgetInvariant, PTL
=============================================================================
