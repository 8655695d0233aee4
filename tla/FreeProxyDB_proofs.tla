-------------------------- MODULE FreeProxyDB_proofs -------------------------
(***************************************************************************)
(* Theorems about a refresh of FreeProxyDB, for any list the server may    *)
(* have, any page size and any limits.                                     *)
(***************************************************************************)
EXTENDS FreeProxyDB, FoldLemmas

Records == Proxies \cup {Invalid}

Tallies ==
  {res \in [total : Nat, found : SUBSET Proxies, partial : BOOLEAN,
            error : {"none", "server", "cancelled"}, full : BOOLEAN] :
     IsFiniteSet(res.found) /\ Cardinality(res.found) <= MaxCandidates}

(* What the loop makes of `from': it ends early only with a mark, and has  *)
(* otherwise found all there was.                                          *)
Extends(res, from, seen) ==
  /\ res.total <= RecordLimit
  /\ res.error = from.error
  /\ res.full => res.partial
  /\ ~res.full => res.partial = from.partial /\ res.found = from.found \cup (seen \ {Invalid})

LEMMA TallyType ==
  ASSUME NEW res
  PROVE  Tallied(res) <=> res \in Tallies
  BY DEF Tallied, Tallies

LEMMA RecordLimitType == RecordLimit \in Nat
  BY FreeProxyDBAssumption DEF RecordLimit, FreeProxyDBAssumption

LEMMA RecordStep ==
  ASSUME NEW res \in Tallies, NEW record \in Records
  PROVE  /\ Record(res, record) \in Tallies
         /\ \A from, seen : Extends(res, from, seen) => Extends(Record(res, record), from, seen \cup {record})
<1> DEFINE new == Record(res, record)
           counted == [res EXCEPT !.total = @ + 1]
<1>0. /\ counted \in Tallies /\ counted.total = res.total + 1 /\ counted.found = res.found
      /\ counted.error = res.error /\ counted.partial = res.partial /\ counted.full = res.full
      /\ RecordLimit \in Nat /\ res.total \in Nat /\ Cardinality(res.found) \in Nat
      /\ MaxCandidates \in Nat /\ IsFiniteSet(res.found)
  BY RecordLimitType, FS_CardinalityType, FreeProxyDBAssumption DEF Tallies, FreeProxyDBAssumption
<1>1. CASE res.full
  BY <1>1 DEF Record, Extends
<1>2. CASE ~res.full /\ res.total >= RecordLimit
  <2>1. new = [res EXCEPT !.partial = TRUE, !.full = TRUE]
    BY <1>2 DEF Record
  <2> QED
    BY <2>1 DEF Extends, Tallies
<1>3. CASE ~res.full /\ ~(res.total >= RecordLimit) /\ (record = Invalid \/ record \in res.found)
  <2>1. new = counted
    BY <1>3 DEF Record
  <2> QED
    BY <1>0, <1>3, <2>1 DEF Extends
<1>4. CASE /\ ~res.full /\ ~(res.total >= RecordLimit) /\ ~(record = Invalid \/ record \in res.found)
           /\ Cardinality(res.found) >= MaxCandidates
  <2>1. new = [counted EXCEPT !.partial = TRUE, !.full = TRUE]
    BY <1>4 DEF Record
  <2>2. /\ new \in Tallies /\ new.total = res.total + 1 /\ new.error = res.error /\ new.partial /\ new.full
    BY <1>0, <2>1 DEF Tallies
  <2>3. new.total <= RecordLimit
    BY <1>0, <1>4, <2>2
  <2> QED
    BY <2>2, <2>3 DEF Extends
<1>5. CASE /\ ~res.full /\ ~(res.total >= RecordLimit) /\ ~(record = Invalid \/ record \in res.found)
           /\ ~(Cardinality(res.found) >= MaxCandidates)
  <2>1. new = [counted EXCEPT !.found = @ \cup {record}]
    BY <1>5 DEF Record
  <2>2. IsFiniteSet(res.found \cup {record}) /\ Cardinality(res.found \cup {record}) <= MaxCandidates
    <3>1. /\ IsFiniteSet(res.found \cup {record})
          /\ Cardinality(res.found \cup {record}) = Cardinality(res.found) + 1
      BY <1>0, <1>5, FS_AddElement
    <3> QED
      BY <1>0, <1>5, <3>1
  <2>3. /\ new.total = res.total + 1 /\ new.found = res.found \cup {record}
        /\ new.error = res.error /\ new.partial = res.partial /\ ~new.full
        /\ new \in [total : Nat, found : SUBSET Proxies, partial : BOOLEAN,
                    error : {"none", "server", "cancelled"}, full : BOOLEAN]
    <3> HIDE DEF new, counted
    <3>1. res.found \cup {record} \in SUBSET Proxies
      BY <1>5 DEF Tallies, Records
    <3> QED
      BY <1>0, <1>5, <2>1, <3>1 DEF Tallies
  <2>4. new \in Tallies /\ new.total <= RecordLimit
    BY <1>0, <1>5, <2>2, <2>3 DEF Tallies
  <2> QED
    BY <1>5, <2>3, <2>4 DEF Extends
<1> QED
  BY <1>1, <1>2, <1>3, <1>4, <1>5

(* The loop goes through a page record by record.                          *)
LEMMA RecordTrace ==
  ASSUME NEW res \in Tallies, NEW records \in Seq(Records)
  PROVE  \E t \in [0 .. Len(records) -> Tallies] :
           /\ t[0] = res
           /\ \A i \in 1 .. Len(records) : t[i] = Record(t[i - 1], records[i])
           /\ t[Len(records)] = AppendRecords(records, res)
<1> DEFINE n == Len(records)
           step == [p \in (1 .. n) \X Tallies |-> Record(p[2], records[p[1]])]
           table == CHOOSE g : g = [s \in SUBSET (1 .. n) |->
                      IF s = {} THEN res ELSE Record(g[s \ {Max(s)}], records[Max(s)])]
<1>1. n \in Nat /\ DOMAIN records = 1 .. n /\ step \in Steps(n, Tallies)
  <2>1. n \in Nat /\ DOMAIN records = 1 .. n
    OBVIOUS
  <2>2. \A i \in 1 .. n, r \in Tallies : Record(r, records[i]) \in Tallies
    BY RecordStep
  <2> QED
    BY <2>1, <2>2 DEF Steps
<1>2. \A i \in 1 .. n, r \in Tallies : step[<<i, r>>] = Record(r, records[i])
  OBVIOUS
<1>3. AppendRecords(records, res) = table[1 .. n]
  BY <1>1 DEF AppendRecords, FoldLeft, MapThenFoldSet
<1> HIDE DEF step, n, table
<1>4. PICK g \in [SUBSET (1 .. n) -> Tallies] : IsTable(g, n, Tallies, res, step)
  BY <1>1, FoldTable
<1>5. \A s \in SUBSET (1 .. n) : s # {} => Max(s) \in 1 .. n /\ s \ {Max(s)} \in SUBSET (1 .. n)
  BY <1>1, LargestExists
<1>6. g = [s \in SUBSET (1 .. n) |-> IF s = {} THEN res ELSE Record(g[s \ {Max(s)}], records[Max(s)])]
  BY <1>2, <1>4, <1>5 DEF IsTable
<1>7. table = [s \in SUBSET (1 .. n) |->
                IF s = {} THEN res ELSE Record(table[s \ {Max(s)}], records[Max(s)])]
  BY <1>6 DEF table
<1>8. IsTable(table, n, Tallies, res, step)
  BY <1>2, <1>5, <1>7 DEF IsTable
<1>9. PICK t \in [0 .. n -> Tallies] : IsTrace(t, n, res, step) /\ t[n] = table[1 .. n]
  BY <1>1, <1>8, TableTrace
<1>10. \A i \in 1 .. n : t[i] = Record(t[i - 1], records[i])
  <2> TAKE i \in 1 .. n
  <2>1. i - 1 \in 0 .. n
    BY <1>1
  <2> QED
    BY <1>2, <1>9, <2>1 DEF IsTrace
<1> QED
  BY <1>3, <1>9, <1>10 DEF n, IsTrace

(* A page read to its end adds all it has; one that was not is marked.     *)
LEMMA PageRead ==
  ASSUME NEW res \in Tallies, ~res.full, res.total <= RecordLimit, NEW records \in Seq(Records)
  PROVE  AppendRecords(records, res) \in Tallies /\ Extends(AppendRecords(records, res), res, ToSet(records))
<1> DEFINE n == Len(records)
<1>1. PICK t \in [0 .. n -> Tallies] : /\ t[0] = res
                                       /\ \A i \in 1 .. n : t[i] = Record(t[i - 1], records[i])
                                       /\ t[n] = AppendRecords(records, res)
  BY RecordTrace
<1> DEFINE P == {m \in 0 .. n : Extends(t[m], res, FirstOf(records, m))}
<1>2. n \in Nat
  OBVIOUS
<1>3. 0 \in P
  BY <1>1, <1>2, FirstOfAll DEF Extends
<1>4. ASSUME NEW m \in 1 .. n, m - 1 \in P PROVE m \in P
  <2>1. /\ t[m - 1] \in Tallies /\ t[m] = Record(t[m - 1], records[m])
        /\ FirstOf(records, m) = FirstOf(records, m - 1) \cup {records[m]} /\ records[m] \in Records
        /\ Extends(t[m - 1], res, FirstOf(records, m - 1))
    BY <1>1, <1>4, FirstOfNext
  <2> QED
    BY <2>1, RecordStep
<1>5. \A m \in 0 .. n : m \in P
  <2> HIDE DEF P, n
  <2> QED
    BY <1>2, <1>3, <1>4, InductionUpTo
<1> QED
  BY <1>1, <1>2, <1>5, FirstOfAll

-----------------------------------------------------------------------------
(* Where the pages begin and end.                                          *)
LEMMA PagesCover ==
  ASSUME NEW total \in Nat, NEW n \in Nat, n >= Pages(total)
  PROVE  n * PageSize >= total
<1>1. PageSize \in Nat \ {0}
  BY FreeProxyDBAssumption DEF FreeProxyDBAssumption
<1>2. CASE total <= 0
  BY <1>1, <1>2
<1>3. CASE total > 0
  <2> DEFINE d == PageSize
             k == (total - 1) \div d
  <2>1. d \in Nat \ {0} /\ k \in Int /\ total - 1 < (k + 1) * d
    BY <1>1, <1>3
  <2>2. n >= k + 1
    <3>1. Pages(total) = 1 + k
      BY <1>3 DEF Pages
    <3> HIDE DEF k
    <3> QED
      BY <2>1, <3>1
  <2> HIDE DEF d, k
  <2>3. n * d >= (k + 1) * d
    BY <2>1, <2>2
  <2> QED
    BY <1>3, <2>1, <2>3 DEF d
<1> QED
  BY <1>2, <1>3

LEMMA PageAdds ==
  ASSUME NEW S, NEW seq \in Seq(S), NEW a \in Nat, NEW b \in Nat,
         b <= Len(seq), a <= b \/ b = Len(seq)
  PROVE  /\ SubSeq(seq, a + 1, b) \in Seq(S)
         /\ FirstOf(seq, Smaller(a, Len(seq))) \cup ToSet(SubSeq(seq, a + 1, b)) = FirstOf(seq, b)
<1> DEFINE part == SubSeq(seq, a + 1, b)
<1>1. CASE a <= b
  <2>1. /\ part \in Seq(S) /\ Len(part) = b - a /\ DOMAIN part = 1 .. b - a
        /\ \A i \in 1 .. b - a : part[i] = seq[i + a]
    BY <1>1
  <2>2. Smaller(a, Len(seq)) = a
    BY <1>1 DEF Smaller
  <2> HIDE DEF part
  <2>3. ToSet(part) = {seq[i] : i \in a + 1 .. b}
    <3>1. ASSUME NEW i \in a + 1 .. b PROVE seq[i] \in ToSet(part)
      <4>1. i - a \in 1 .. b - a /\ part[i - a] = seq[i]
        BY <2>1
      <4> QED
        BY <2>1, <4>1 DEF ToSet
    <3>2. ASSUME NEW i \in 1 .. b - a PROVE part[i] \in {seq[j] : j \in a + 1 .. b}
      <4>1. i + a \in a + 1 .. b /\ part[i] = seq[i + a]
        BY <2>1
      <4> QED
        BY <4>1
    <3> QED
      BY <2>1, <3>1, <3>2 DEF ToSet
  <2>4. 1 .. b = (1 .. a) \cup (a + 1 .. b)
    BY <1>1
  <2> QED
    BY <2>1, <2>2, <2>3, <2>4 DEF part, FirstOf
<1>2. CASE a > b /\ b = Len(seq)
  <2>1. part = <<>>
    BY <1>2
  <2>2. Smaller(a, Len(seq)) = b /\ <<>> \in Seq(S) /\ ToSet(<<>>) = {}
    BY <1>2 DEF Smaller, ToSet
  <2> HIDE DEF part
  <2>3. part \in Seq(S) /\ ToSet(part) = {}
    BY <2>1, <2>2
  <2> QED
    BY <2>2, <2>3 DEF part
<1> QED
  BY <1>1, <1>2

LEMMA NextPage ==
  ASSUME catalogue \in Catalogues, NEW n \in Nat \ {0}, NEW records \in PageOf(n)
  PROVE  /\ records \in Seq(Records)
         /\ n \notin EmptyPages \/ records # <<>> => ListedTo(n) = ListedTo(n - 1) \cup (ToSet(records) \ {Invalid})
<1> DEFINE a == (n - 1) * PageSize
           b == Smaller(n * PageSize, Len(catalogue))
<1>1. catalogue \in Seq(Records) /\ PageSize \in Nat \ {0} /\ Len(catalogue) \in Nat
  BY FreeProxyDBAssumption DEF FreeProxyDBAssumption, Records
<1>2. a \in Nat /\ n * PageSize = a + PageSize
  BY <1>1
<1>3. b \in Nat /\ b <= Len(catalogue) /\ (a <= b \/ b = Len(catalogue))
  <2> HIDE DEF a
  <2> QED
    BY <1>1, <1>2 DEF Smaller
<1>4. records = SubSeq(catalogue, a + 1, b) \/ (records = <<>> /\ n \in EmptyPages)
  BY DEF PageOf
<1>5. /\ ListedTo(n) = FirstOf(catalogue, b) \ {Invalid}
      /\ ListedTo(n - 1) = FirstOf(catalogue, Smaller(a, Len(catalogue))) \ {Invalid}
  BY DEF ListedTo, FirstOf
<1> HIDE DEF a, b
<1>6. /\ SubSeq(catalogue, a + 1, b) \in Seq(Records)
      /\ FirstOf(catalogue, Smaller(a, Len(catalogue))) \cup ToSet(SubSeq(catalogue, a + 1, b))
           = FirstOf(catalogue, b)
  BY <1>1, <1>2, <1>3, PageAdds
<1>7. CASE records = SubSeq(catalogue, a + 1, b)
  BY <1>5, <1>6, <1>7
<1>8. CASE records = <<>> /\ n \in EmptyPages
  BY <1>8
<1> QED
  BY <1>4, <1>7, <1>8

-----------------------------------------------------------------------------
(* A refresh from page to page.                                            *)
LEMMA InitRound == Init => Reading /\ Ending
<1> SUFFICES ASSUME Init PROVE Reading /\ Ending
  OBVIOUS
<1>1. Tallied(NoResult) /\ NoResult.total = 0
  BY FS_EmptySet, FreeProxyDBAssumption DEF NoResult, Tallied, FreeProxyDBAssumption
<1>2. ListedTo(1 - 1) = {}
  <2>1. Smaller((1 - 1) * PageSize, Len(catalogue)) = 0
    <3>1. catalogue \in Seq(Records) /\ PageSize \in Nat \ {0} /\ Len(catalogue) \in Nat
      BY FreeProxyDBAssumption DEF FreeProxyDBAssumption, Records, Init
    <3> QED
      BY <3>1 DEF Smaller
  <2> QED
    BY <2>1 DEF ListedTo
<1> QED
  BY <1>1, <1>2, RecordLimitType DEF Init, NoResult, Reading, Ending

LEMMA StopFacts ==
  ASSUME NEW res \in Tallies, NEW error \in {"none", "server", "cancelled"}, Stop(res, error)
  PROVE  /\ pc' = "done" /\ Tallied(result') /\ result'.error = error
         /\ result'.total = res.total /\ result'.found = res.found /\ result'.partial = res.partial
  BY DEF Stop, Tallies, Tallied

(* A round that ends with an error, whatever it had read.                  *)
LEMMA FailStep ==
  ASSUME Reading, Ending, NEW error \in {"server", "cancelled"}, Stop(result, error),
         pc \in {"fetch", "pause"}, UNCHANGED <<catalogue, page, delivered>>
  PROVE  Reading' /\ Ending'
<1>1. result \in Tallies
  BY TallyType DEF Reading
<1>2. /\ pc' = "done" /\ Tallied(result') /\ result'.error = error /\ result'.total = result.total
  BY <1>1, StopFacts
<1> QED
  BY <1>2 DEF Reading, Ending, RecordLimit

(* Having read a page, the refresh goes on with all so far, ends at a      *)
(* limit with a mark, or ends with the last page.                          *)
LEMMA PageStep ==
  ASSUME Reading, Ending, pc = "fetch", NEW records \in PageOf(page),
         page = 1 \/ records # <<>>,
         UNCHANGED <<catalogue, page, delivered>>,
         Continue(AppendRecords(records, result))
  PROVE  Reading' /\ Ending'
<1> DEFINE res == AppendRecords(records, result)
<1>0. /\ result \in Tallies /\ ~result.full /\ ~result.partial /\ result.error = "none"
      /\ result.total <= RecordLimit /\ delivered = "nothing"
      /\ 1 \notin EmptyPages => result.found = ListedTo(page - 1)
      /\ catalogue \in Catalogues /\ page \in Nat \ {0}
  BY TallyType DEF Reading
<1>1. /\ records \in Seq(Records)
      /\ 1 \notin EmptyPages => ListedTo(page) = ListedTo(page - 1) \cup (ToSet(records) \ {Invalid})
  BY <1>0, NextPage
<1>2. /\ res \in Tallies /\ res.total <= RecordLimit /\ res.error = "none"
      /\ res.full => res.partial
      /\ ~res.full => ~res.partial /\ (1 \notin EmptyPages => res.found = ListedTo(page))
  BY <1>0, <1>1, PageRead DEF Extends
<1>3. ListedTo(page)' = ListedTo(page)
  BY DEF ListedTo
<1> HIDE DEF res
<1>4. CASE res.full \/ page >= Pages(Len(catalogue))
  <2>1. Stop(res, "none")
    BY <1>4 DEF Continue, res
  <2>2. /\ pc' = "done" /\ Tallied(result') /\ result'.error = "none" /\ result'.total = res.total
        /\ result'.partial = res.partial /\ result'.found = res.found
    BY <1>2, <2>1, StopFacts
  <2>3. ~res.partial => ListedTo(page) = ToSet(catalogue) \ {Invalid}
    <3> SUFFICES ASSUME page >= Pages(Len(catalogue)) PROVE ListedTo(page) = ToSet(catalogue) \ {Invalid}
      BY <1>2, <1>4
    <3>1. catalogue \in Seq(Records) /\ Len(catalogue) \in Nat /\ PageSize \in Nat
      BY <1>0, FreeProxyDBAssumption DEF FreeProxyDBAssumption, Records
    <3>2. page * PageSize >= Len(catalogue)
      BY <1>0, <3>1, PagesCover
    <3>3. Smaller(page * PageSize, Len(catalogue)) = Len(catalogue)
      <4> DEFINE m == page * PageSize
      <4>1. m \in Int
        BY <1>0, <3>1
      <4> HIDE DEF m
      <4> QED
        BY <3>1, <3>2, <4>1 DEF Smaller, m
    <3> QED
      BY <3>1, <3>3 DEF ListedTo, ToSet
  <2>4. Reading'
    BY <1>0, <1>2, <2>2 DEF Reading, RecordLimit
  <2> QED
    BY <1>0, <1>2, <2>2, <2>3, <2>4 DEF Ending
<1>5. CASE ~(res.full \/ page >= Pages(Len(catalogue)))
  <2>1. pc' = "pause" /\ result' = res
    BY <1>5 DEF Continue, res
  <2> QED
    BY <1>0, <1>2, <1>3, <1>5, <2>1, TallyType DEF Reading, Ending, RecordLimit
<1> QED
  BY <1>4, <1>5

LEMMA NextRound == Reading /\ Ending /\ [Next]_vars => Reading' /\ Ending'
<1> SUFFICES ASSUME Reading, Ending, [Next]_vars PROVE Reading' /\ Ending'
  OBVIOUS
<1>0. page \in Nat \ {0}
  BY DEF Reading
<1>1. CASE PageFailed
  <2>1. PICK error \in {"server", "cancelled"} : Stop(result, error)
    BY <1>1 DEF PageFailed
  <2> QED
    BY <1>1, <2>1, FailStep DEF PageFailed
<1>2. CASE FirstPage
  <2>1. PICK records \in PageOf(page) : Continue(AppendRecords(records, result))
    BY <1>2 DEF FirstPage
  <2> QED
    BY <1>2, <2>1, PageStep DEF FirstPage
<1>3. CASE LaterPage
  <2>1. PICK records \in PageOf(page) :
          IF records = <<>> THEN Stop(result, "server") ELSE Continue(AppendRecords(records, result))
    BY <1>3 DEF LaterPage
  <2>2. CASE records = <<>>
    BY <1>3, <2>1, <2>2, FailStep DEF LaterPage
  <2>3. CASE records # <<>>
    BY <1>3, <2>1, <2>3, PageStep DEF LaterPage
  <2> QED
    BY <2>2, <2>3
<1>4. CASE Pause
  <2>1. CASE cancelled /\ Stop(result, "cancelled") /\ UNCHANGED page
    BY <1>4, <2>1, FailStep DEF Pause
  <2>2. CASE pc' = "fetch" /\ page' = page + 1 /\ UNCHANGED result
    <3>1. /\ pc = "pause" /\ page' \in Nat \ {0} /\ page' - 1 = page
          /\ UNCHANGED <<catalogue, delivered>>
      BY <1>0, <1>4, <2>2 DEF Pause
    <3>2. (ListedTo(page - 1))' = ListedTo(page)
      BY <3>1 DEF ListedTo
    <3> QED
      BY <2>2, <3>1, <3>2 DEF Reading, Ending, Tallied, RecordLimit
  <2> QED
    BY <1>4, <2>1, <2>2 DEF Pause
<1>5. CASE Collect
  <2>1. /\ pc = "done" /\ pc' = "delivered" /\ UNCHANGED <<catalogue, page, result>>
    BY <1>5 DEF Collect
  <2> QED
    BY <2>1 DEF Reading, Ending, Tallied, RecordLimit
<1>6. CASE Ask \/ Fetching \/ (Cancel /\ UNCHANGED roundVars) \/ UNCHANGED vars
  <2>1. UNCHANGED roundVars
    BY <1>6 DEF Ask, Fetching, vars
  <2>2. (ListedTo(page))' = ListedTo(page) /\ (ListedTo(page - 1))' = ListedTo(page - 1)
    BY <2>1 DEF roundVars, ListedTo
  <2>3. Reading'
    BY <2>1, <2>2 DEF roundVars, Reading, Tallied, RecordLimit
  <2> QED
    BY <2>1, <2>3 DEF roundVars, Ending
<1> QED
  BY <1>1, <1>2, <1>3, <1>4, <1>5, <1>6 DEF Next, Round

-----------------------------------------------------------------------------
(* How far the counting gets.                                              *)

(* What the loop makes of `from' and m records of a list with elements in  *)
(* L: it meets a limit only if there is more than the limit.               *)
Counts(res, from, L, m) ==
  /\ res.found \subseteq L
  /\ res.total <= from.total + m
  /\ res.full => from.total + m > RecordLimit \/ Cardinality(L \ {Invalid}) > MaxCandidates

LEMMA RecordCount ==
  ASSUME NEW res \in Tallies, NEW from \in Tallies, NEW L \in SUBSET Records, IsFiniteSet(L),
         NEW record \in L, NEW m \in Nat, Counts(res, from, L, m)
  PROVE  Counts(Record(res, record), from, L, m + 1)
<1> DEFINE new == Record(res, record)
           counted == [res EXCEPT !.total = @ + 1]
<1>0. /\ res.total \in Nat /\ from.total \in Nat /\ RecordLimit \in Nat /\ MaxCandidates \in Nat
      /\ res.found \subseteq L /\ res.total <= from.total + m
      /\ counted.total = res.total + 1 /\ counted.found = res.found /\ counted.full = res.full
  BY RecordLimitType, FreeProxyDBAssumption DEF Tallies, Counts, FreeProxyDBAssumption
<1>1. CASE res.full
  <2>1. new = res
    BY <1>1 DEF Record
  <2> HIDE DEF new
  <2> QED
    BY <1>0, <1>1, <2>1 DEF Counts, new
<1>2. CASE ~res.full /\ res.total >= RecordLimit
  <2>1. new = [res EXCEPT !.partial = TRUE, !.full = TRUE]
    BY <1>2 DEF Record
  <2>2. new.total = res.total /\ new.found = res.found
    BY <2>1 DEF Tallies
  <2> HIDE DEF new
  <2> QED
    BY <1>0, <1>2, <2>2 DEF Counts, new
<1>3. CASE ~res.full /\ ~(res.total >= RecordLimit) /\ (record = Invalid \/ record \in res.found)
  <2>1. new = counted
    BY <1>3 DEF Record
  <2> HIDE DEF new, counted
  <2> QED
    BY <1>0, <1>3, <2>1 DEF Counts, new
<1>4. CASE /\ ~res.full /\ ~(res.total >= RecordLimit) /\ ~(record = Invalid \/ record \in res.found)
           /\ Cardinality(res.found) >= MaxCandidates
  <2>1. new = [counted EXCEPT !.partial = TRUE, !.full = TRUE]
    BY <1>4 DEF Record
  <2>2. new.total = res.total + 1 /\ new.found = res.found
    BY <2>1 DEF Tallies
  <2>3. Cardinality(L \ {Invalid}) > MaxCandidates
    <3>1. IsFiniteSet(L \ {Invalid}) /\ res.found \cup {record} \subseteq L \ {Invalid}
      BY <1>0, <1>4, FS_Subset, FreeProxyDBAssumption DEF Tallies, FreeProxyDBAssumption
    <3>2. /\ Cardinality(res.found \cup {record}) <= Cardinality(L \ {Invalid})
          /\ Cardinality(L \ {Invalid}) \in Nat
      BY <3>1, FS_Subset, FS_CardinalityType
    <3>3. Cardinality(res.found \cup {record}) = Cardinality(res.found) + 1 /\ Cardinality(res.found) \in Nat
      BY <1>4, FS_AddElement, FS_CardinalityType DEF Tallies
    <3> QED
      BY <1>0, <1>4, <3>2, <3>3
  <2> HIDE DEF new
  <2> QED
    BY <1>0, <2>2, <2>3 DEF Counts, new
<1>5. CASE /\ ~res.full /\ ~(res.total >= RecordLimit) /\ ~(record = Invalid \/ record \in res.found)
           /\ ~(Cardinality(res.found) >= MaxCandidates)
  <2>1. new = [counted EXCEPT !.found = @ \cup {record}]
    BY <1>5 DEF Record
  <2>2. new.total = res.total + 1 /\ new.found = res.found \cup {record} /\ new.full = res.full
    BY <2>1 DEF Tallies
  <2> HIDE DEF new
  <2> QED
    BY <1>0, <1>5, <2>2 DEF Counts, new
<1> QED
  BY <1>1, <1>2, <1>3, <1>4, <1>5

LEMMA PageCount ==
  ASSUME NEW res \in Tallies, ~res.full, NEW records \in Seq(Records),
         NEW L \in SUBSET Records, IsFiniteSet(L), ToSet(records) \subseteq L, res.found \subseteq L
  PROVE  Counts(AppendRecords(records, res), res, L, Len(records))
<1> DEFINE n == Len(records)
<1>1. PICK t \in [0 .. n -> Tallies] : /\ t[0] = res
                                       /\ \A i \in 1 .. n : t[i] = Record(t[i - 1], records[i])
                                       /\ t[n] = AppendRecords(records, res)
  BY RecordTrace
<1> DEFINE P == {m \in 0 .. n : Counts(t[m], res, L, m)}
<1>2. n \in Nat /\ res.total \in Nat
  BY DEF Tallies
<1>3. 0 \in P
  BY <1>1, <1>2 DEF Counts
<1>4. ASSUME NEW m \in 1 .. n, m - 1 \in P PROVE m \in P
  <2>1. /\ t[m - 1] \in Tallies /\ t[m] = Record(t[m - 1], records[m]) /\ records[m] \in L
        /\ Counts(t[m - 1], res, L, m - 1) /\ m - 1 \in Nat /\ (m - 1) + 1 = m
    BY <1>1, <1>4 DEF ToSet
  <2>2. Counts(t[m], res, L, (m - 1) + 1)
    BY <2>1, RecordCount
  <2> QED
    BY <2>1, <2>2
<1>5. \A m \in 0 .. n : m \in P
  <2> HIDE DEF P, n
  <2> QED
    BY <1>2, <1>3, <1>4, InductionUpTo
<1> QED
  BY <1>1, <1>2, <1>5

(* A page has no more records than the list has between its bounds.        *)
LEMMA PageSpan ==
  ASSUME catalogue \in Catalogues, NEW n \in Nat \ {0}, NEW records \in PageOf(n), NEW total \in Nat,
         total <= Smaller((n - 1) * PageSize, Len(catalogue))
  PROVE  /\ total + Len(records) <= Smaller(n * PageSize, Len(catalogue))
         /\ ToSet(records) \subseteq ToSet(catalogue)
<1> DEFINE a == (n - 1) * PageSize
           b == Smaller(n * PageSize, Len(catalogue))
           size == Len(catalogue)
<1>1. catalogue \in Seq(Records) /\ PageSize \in Nat \ {0} /\ size \in Nat
  BY FreeProxyDBAssumption DEF FreeProxyDBAssumption, Records
<1>2. a \in Nat /\ n * PageSize = a + PageSize
  BY <1>1
<1>3. b \in Nat /\ b <= size /\ total <= b /\ total <= a /\ (a <= b \/ b = size)
  <2> HIDE DEF a, size
  <2> QED
    BY <1>1, <1>2 DEF Smaller, a, size
<1>4. records = SubSeq(catalogue, a + 1, b) \/ records = <<>>
  BY DEF PageOf
<1>5. CASE records = <<>>
  <2>1. Len(records) = 0 /\ ToSet(records) = {}
    BY <1>5 DEF ToSet
  <2> QED
    BY <1>3, <2>1
<1>6. CASE records = SubSeq(catalogue, a + 1, b) /\ a <= b
  <2> HIDE DEF a, b, size
  <2>1. Len(records) = b - a /\ \A i \in 1 .. b - a : records[i] = catalogue[i + a]
    BY <1>1, <1>2, <1>3, <1>6 DEF size
  <2>2. ASSUME NEW i \in 1 .. b - a PROVE records[i] \in ToSet(catalogue)
    <3>1. i + a \in 1 .. size /\ records[i] = catalogue[i + a]
      BY <1>1, <1>2, <1>3, <1>6, <2>1
    <3> QED
      BY <1>1, <3>1 DEF ToSet, size
  <2>3. DOMAIN records = 1 .. b - a
    BY <1>1, <1>2, <1>3, <1>6 DEF size
  <2>4. ToSet(records) \subseteq ToSet(catalogue)
    BY <2>2, <2>3 DEF ToSet
  <2>5. total + Len(records) <= b
    BY <1>2, <1>3, <1>6, <2>1
  <2> QED
    BY <2>4, <2>5 DEF b
<1>7. CASE records = SubSeq(catalogue, a + 1, b) /\ a > b
  <2>1. records = <<>>
    BY <1>1, <1>2, <1>3, <1>7
  <2> QED
    BY <1>5, <2>1
<1> QED
  BY <1>2, <1>3, <1>4, <1>5, <1>6, <1>7

LEMMA InitCounting == Init => Counting
<1> SUFFICES ASSUME Init PROVE Counting
  OBVIOUS
<1>1. catalogue \in Seq(Records) /\ PageSize \in Nat \ {0} /\ Len(catalogue) \in Nat
  BY FreeProxyDBAssumption DEF FreeProxyDBAssumption, Records, Init
<1>2. 0 <= Smaller((1 - 1) * PageSize, Len(catalogue))
  BY <1>1 DEF Smaller
<1> QED
  BY <1>2 DEF Init, NoResult, Counting, MarkedWithReason

LEMMA PageCounted ==
  ASSUME Reading, Counting, pc = "fetch", NEW records \in PageOf(page),
         UNCHANGED <<catalogue, page>>, Continue(AppendRecords(records, result))
  PROVE  Counting'
<1> DEFINE res == AppendRecords(records, result)
           L == ToSet(catalogue)
           b == Smaller(page * PageSize, Len(catalogue))
<1>0. /\ result \in Tallies /\ ~result.full /\ ~result.partial /\ result.total <= RecordLimit
      /\ catalogue \in Catalogues /\ page \in Nat \ {0} /\ result.total \in Nat
  BY TallyType DEF Reading, Tallied
<1>1. catalogue \in Seq(Records) /\ PageSize \in Nat \ {0} /\ Len(catalogue) \in Nat
  BY <1>0, FreeProxyDBAssumption DEF FreeProxyDBAssumption, Records
<1>2. records \in Seq(Records) /\ result.total + Len(records) <= b /\ ToSet(records) \subseteq L
  BY <1>0, NextPage, PageSpan DEF Counting
<1>3. L \in SUBSET Records /\ IsFiniteSet(L)
  <2>1. DOMAIN catalogue = 1 .. Len(catalogue)
    BY <1>1
  <2>2. IsFiniteSet(1 .. Len(catalogue))
    BY <1>1, FS_Interval
  <2>3. catalogue \in Surjection(1 .. Len(catalogue), L)
    BY <1>1, <2>1 DEF Surjection, ToSet
  <2>4. IsFiniteSet(L)
    BY <2>2, <2>3, FS_Surjection
  <2> QED
    BY <1>1, <2>1, <2>4 DEF ToSet
<1>4. res \in Tallies /\ Counts(res, result, L, Len(records)) /\ (~res.full => ~res.partial)
  BY <1>0, <1>2, <1>3, PageCount, PageRead DEF Counting, Extends
<1>5. Len(records) \in Nat /\ res.total \in Nat /\ RecordLimit \in Nat
      /\ b \in Int /\ b <= Len(catalogue)
  <2>1. page * PageSize \in Int
    BY <1>0, <1>1
  <2> QED
    BY <1>1, <1>2, <1>4, <2>1, RecordLimitType DEF Smaller, Tallies
<1> HIDE DEF res, b
<1>6. res.found \subseteq L /\ res.total <= b /\ (res.partial => TooMuch)
  BY <1>0, <1>1, <1>2, <1>4, <1>5 DEF Counts, TooMuch
<1>7. TooMuch' = TooMuch /\ L' = L
  BY DEF TooMuch, RecordLimit
<1>8. CASE Stop(res, "none")
  <2>1. pc' = "done" /\ result'.partial = res.partial /\ result'.found = res.found
    BY <1>4, <1>8, StopFacts
  <2> QED
    BY <1>6, <1>7, <2>1 DEF Counting, MarkedWithReason
<1>9. CASE pc' = "pause" /\ result' = res
  BY <1>6, <1>7, <1>9 DEF Counting, MarkedWithReason, b
<1> QED
  BY <1>8, <1>9 DEF Continue, res

LEMMA NextCounting == Reading /\ Counting /\ [Next]_vars => Counting'
<1> SUFFICES ASSUME Reading, Counting, [Next]_vars PROVE Counting'
  OBVIOUS
<1>0. page \in Nat \ {0} /\ result \in Tallies
  BY TallyType DEF Reading
<1>1. ASSUME NEW error \in {"server", "cancelled"}, Stop(result, error), UNCHANGED catalogue
      PROVE  Counting'
  <2>1. pc' = "done" /\ result'.partial = result.partial /\ result'.found = result.found
    BY <1>0, <1>1, StopFacts
  <2> QED
    BY <1>1, <2>1 DEF Counting, MarkedWithReason, TooMuch, RecordLimit
<1>2. CASE PageFailed
  BY <1>1, <1>2 DEF PageFailed
<1>3. CASE FirstPage
  BY <1>3, PageCounted DEF FirstPage
<1>4. CASE LaterPage
  <2>1. PICK records \in PageOf(page) :
          IF records = <<>> THEN Stop(result, "server") ELSE Continue(AppendRecords(records, result))
    BY <1>4 DEF LaterPage
  <2>2. CASE records = <<>>
    BY <1>1, <1>4, <2>1, <2>2 DEF LaterPage
  <2>3. CASE records # <<>>
    BY <1>4, <2>1, <2>3, PageCounted DEF LaterPage
  <2> QED
    BY <2>2, <2>3
<1>5. CASE Pause
  <2>1. CASE cancelled /\ Stop(result, "cancelled") /\ UNCHANGED page
    BY <1>1, <1>5, <2>1 DEF Pause
  <2>2. CASE pc' = "fetch" /\ page' = page + 1 /\ UNCHANGED result
    <3>1. pc = "pause" /\ page' - 1 = page /\ UNCHANGED catalogue
      BY <1>0, <1>5, <2>2 DEF Pause
    <3>2. Smaller((page - 1) * PageSize, Len(catalogue))' = Smaller(page * PageSize, Len(catalogue))
      BY <3>1
    <3> QED
      BY <2>2, <3>1, <3>2 DEF Counting, MarkedWithReason, TooMuch, RecordLimit
  <2> QED
    BY <1>5, <2>1, <2>2 DEF Pause
<1>6. CASE Collect
  BY <1>6 DEF Collect, Counting, MarkedWithReason, TooMuch, RecordLimit
<1>7. CASE Ask \/ Fetching \/ (Cancel /\ UNCHANGED roundVars) \/ UNCHANGED vars
  <2>1. UNCHANGED roundVars
    BY <1>7 DEF Ask, Fetching, vars
  <2>2. /\ Smaller((page - 1) * PageSize, Len(catalogue))' = Smaller((page - 1) * PageSize, Len(catalogue))
        /\ Smaller(page * PageSize, Len(catalogue))' = Smaller(page * PageSize, Len(catalogue))
    BY <2>1 DEF roundVars
  <2> QED
    BY <2>1, <2>2 DEF roundVars, Counting, MarkedWithReason, TooMuch, RecordLimit
<1> QED
  BY <1>2, <1>3, <1>4, <1>5, <1>6, <1>7 DEF Next, Round

LEMMA RoundInvariant == Spec => []RoundInv
<1>1. Init => RoundInv
  BY InitRound, InitCounting DEF RoundInv
<1>2. RoundInv /\ [Next]_vars => RoundInv'
  BY NextRound, NextCounting DEF RoundInv
<1> QED
  BY <1>1, <1>2, PTL DEF Spec

(* From a server that sends the records of its first page (the code does   *)
(* not check that page), a result that passes for complete holds every     *)
(* valid proxy listed: the pages join without a gap and a limit leaves a   *)
(* mark.                                                                   *)
THEOREM UnmarkedRoundIsWhole ==
  ASSUME 1 \notin EmptyPages
  PROVE  Spec => []CompleteIsWhole
<1>1. RoundInv => CompleteIsWhole
  BY DEF RoundInv, Ending, Complete, CompleteIsWhole
<1> QED
  BY <1>1, RoundInvariant, PTL

(* Neither the candidates nor the records read pass their limit, whatever  *)
(* the server sends.                                                       *)
THEOREM LimitsKept == Spec => []LimitsHold
<1>1. RoundInv => LimitsHold
  BY DEF RoundInv, Reading, Tallied, LimitsHold
<1> QED
  BY <1>1, RoundInvariant, PTL

(* A list within both limits is never marked partial, whatever the server  *)
(* leaves out and wherever the round ends.                                 *)
THEOREM MarksHaveReasons == Spec => []MarkedWithReason
<1>1. RoundInv => MarkedWithReason
  BY DEF RoundInv, Counting
<1> QED
  BY <1>1, RoundInvariant, PTL
=============================================================================
