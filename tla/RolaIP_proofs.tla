---------------------------- MODULE RolaIP_proofs ---------------------------
(***************************************************************************)
(* Theorems about a refresh of RolaIP, for any list the server may have,   *)
(* any page size, any limits and any Retry-After headers.                  *)
(***************************************************************************)
EXTENDS RolaIP, FoldLemmas

Candidates == Proxies \cup {Invalid}
Records == BoundedSeq(Candidates, 2)

Tallies ==
  {res \in [total : Nat, found : SUBSET Proxies, partial : BOOLEAN,
            error : {"none", "server", "cancelled"}, full : BOOLEAN] :
     IsFiniteSet(res.found) /\ Cardinality(res.found) <= MaxCandidates}

(* What a loop makes of `from': it ends early only with a mark, and has    *)
(* otherwise found all there was.                                          *)
Extends(res, from, seen) ==
  /\ res.error = from.error
  /\ res.full => res.partial
  /\ ~res.full => res.partial = from.partial /\ res.found = from.found \cup (seen \ {Invalid})

LEMMA RecordType ==
  ASSUME NEW record \in Records
  PROVE  record \in Seq(Candidates) /\ Len(record) \in 0 .. 2
<1>1. PICK m \in 0 .. 2 : record \in [1 .. m -> Candidates]
  BY DEF Records, BoundedSeq, SeqOf
<1> QED
  BY <1>1

LEMMA AddFound ==
  ASSUME NEW res \in Tallies, NEW candidate \in Proxies, candidate \notin res.found,
         Cardinality(res.found) < MaxCandidates
  PROVE  /\ IsFiniteSet(res.found \cup {candidate})
         /\ Cardinality(res.found \cup {candidate}) <= MaxCandidates
<1>1. IsFiniteSet(res.found) /\ Cardinality(res.found) \in Nat
  BY FS_CardinalityType DEF Tallies
<1>2. /\ IsFiniteSet(res.found \cup {candidate})
      /\ Cardinality(res.found \cup {candidate}) = Cardinality(res.found) + 1
  BY <1>1, FS_AddElement
<1> QED
  BY <1>1, <1>2, RolaIPAssumption DEF RolaIPAssumption

LEMMA CandidateStep ==
  ASSUME NEW res \in Tallies, NEW candidate \in Candidates, NEW from, NEW seen, Extends(res, from, seen)
  PROVE  /\ Candidate(res, candidate) \in Tallies
         /\ Extends(Candidate(res, candidate), from, seen \cup {candidate})
         /\ Candidate(res, candidate).total \in {res.total, res.total + 1}
<1> DEFINE new == Candidate(res, candidate)
           counted == [res EXCEPT !.total = @ + 1]
<1>0. /\ counted \in Tallies /\ counted.total = res.total + 1 /\ counted.found = res.found
      /\ counted.error = res.error /\ counted.partial = res.partial /\ counted.full = res.full
  BY DEF Tallies
<1>1. CASE res.full
  BY <1>1 DEF Candidate, Extends
<1>2. CASE ~res.full /\ (candidate = Invalid \/ candidate \in res.found)
  <2>1. new = counted
    BY <1>2 DEF Candidate
  <2> QED
    BY <1>0, <1>2, <2>1 DEF Extends
<1>3. CASE ~res.full /\ ~(candidate = Invalid \/ candidate \in res.found) /\ Cardinality(res.found) >= MaxCandidates
  <2>1. new = [counted EXCEPT !.partial = TRUE, !.full = TRUE]
    BY <1>3 DEF Candidate
  <2>2. /\ new \in Tallies /\ new.total = res.total + 1 /\ new.error = res.error /\ new.partial /\ new.full
    BY <1>0, <2>1 DEF Tallies
  <2> QED
    BY <2>2 DEF Extends
<1>4. CASE ~res.full /\ ~(candidate = Invalid \/ candidate \in res.found) /\ ~(Cardinality(res.found) >= MaxCandidates)
  <2>1. new = [counted EXCEPT !.found = @ \cup {candidate}]
    BY <1>4 DEF Candidate
  <2>2. /\ candidate \in Proxies /\ candidate \notin res.found
        /\ Cardinality(res.found) < MaxCandidates
    BY <1>4, FS_CardinalityType, RolaIPAssumption DEF Candidates, Tallies, RolaIPAssumption
  <2>3. IsFiniteSet(res.found \cup {candidate}) /\ Cardinality(res.found \cup {candidate}) <= MaxCandidates
    BY <2>2, AddFound
  <2>4. /\ new.total = res.total + 1 /\ new.found = res.found \cup {candidate}
        /\ new.error = res.error /\ new.partial = res.partial /\ ~new.full
        /\ new \in [total : Nat, found : SUBSET Proxies, partial : BOOLEAN,
                    error : {"none", "server", "cancelled"}, full : BOOLEAN]
    <3> HIDE DEF new, counted
    <3>1. res.found \cup {candidate} \in SUBSET Proxies
      BY <2>2 DEF Tallies
    <3> QED
      BY <1>0, <1>4, <2>1, <3>1 DEF Tallies
  <2>5. new \in Tallies
    BY <2>3, <2>4 DEF Tallies
  <2> QED
    BY <1>4, <2>2, <2>4, <2>5 DEF Extends
<1> QED
  BY <1>1, <1>2, <1>3, <1>4

(* The inner loop goes through a record candidate by candidate.            *)
LEMMA CandidateTrace ==
  ASSUME NEW res \in Tallies, NEW record \in Seq(Candidates)
  PROVE  \E t \in [0 .. Len(record) -> Tallies] :
           /\ t[0] = res
           /\ \A i \in 1 .. Len(record) : t[i] = Candidate(t[i - 1], record[i])
           /\ t[Len(record)] = FoldLeft(Candidate, res, record)
<1> DEFINE n == Len(record)
           step == [p \in (1 .. n) \X Tallies |-> Candidate(p[2], record[p[1]])]
           table == CHOOSE g : g = [s \in SUBSET (1 .. n) |->
                      IF s = {} THEN res ELSE Candidate(g[s \ {Max(s)}], record[Max(s)])]
<1>1. n \in Nat /\ DOMAIN record = 1 .. n /\ step \in Steps(n, Tallies)
  <2>1. n \in Nat /\ DOMAIN record = 1 .. n
    OBVIOUS
  <2>2. ASSUME NEW i \in 1 .. n, NEW r \in Tallies PROVE Candidate(r, record[i]) \in Tallies
    <3>1. record[i] \in Candidates /\ (Extends(r, r, {}) \/ r.full)
      BY DEF Extends
    <3> QED
      BY <3>1, CandidateStep DEF Candidate
  <2> QED
    BY <2>1, <2>2 DEF Steps
<1>2. \A i \in 1 .. n, r \in Tallies : step[<<i, r>>] = Candidate(r, record[i])
  OBVIOUS
<1>3. FoldLeft(Candidate, res, record) = table[1 .. n]
  BY <1>1 DEF FoldLeft, MapThenFoldSet
<1> HIDE DEF step, n, table
<1>4. PICK g \in [SUBSET (1 .. n) -> Tallies] : IsTable(g, n, Tallies, res, step)
  BY <1>1, FoldTable
<1>5. \A s \in SUBSET (1 .. n) : s # {} => Max(s) \in 1 .. n /\ s \ {Max(s)} \in SUBSET (1 .. n)
  BY <1>1, LargestExists
<1>6. g = [s \in SUBSET (1 .. n) |-> IF s = {} THEN res ELSE Candidate(g[s \ {Max(s)}], record[Max(s)])]
  BY <1>2, <1>4, <1>5 DEF IsTable
<1>7. table = [s \in SUBSET (1 .. n) |->
                IF s = {} THEN res ELSE Candidate(table[s \ {Max(s)}], record[Max(s)])]
  BY <1>6 DEF table
<1>8. IsTable(table, n, Tallies, res, step)
  BY <1>2, <1>5, <1>7 DEF IsTable
<1>9. PICK t \in [0 .. n -> Tallies] : IsTrace(t, n, res, step) /\ t[n] = table[1 .. n]
  BY <1>1, <1>8, TableTrace
<1>10. \A i \in 1 .. n : t[i] = Candidate(t[i - 1], record[i])
  <2> TAKE i \in 1 .. n
  <2>1. i - 1 \in 0 .. n
    BY <1>1
  <2> QED
    BY <1>2, <1>9, <2>1 DEF IsTrace
<1> QED
  BY <1>3, <1>9, <1>10 DEF n, IsTrace

LEMMA CandidatesRead ==
  ASSUME NEW res \in Tallies, ~res.full, NEW record \in Seq(Candidates)
  PROVE  LET new == FoldLeft(Candidate, res, record)
         IN  new \in Tallies /\ Extends(new, res, ToSet(record)) /\ new.total <= res.total + Len(record)
<1> DEFINE n == Len(record)
<1>1. PICK t \in [0 .. n -> Tallies] : /\ t[0] = res
                                       /\ \A i \in 1 .. n : t[i] = Candidate(t[i - 1], record[i])
                                       /\ t[n] = FoldLeft(Candidate, res, record)
  BY CandidateTrace
<1> DEFINE Read(m) == Extends(t[m], res, FirstOf(record, m)) /\ t[m].total <= res.total + m
           P == {m \in 0 .. n : Read(m)}
<1>2. n \in Nat /\ res.total \in Nat
  BY DEF Tallies
<1>3. 0 \in P
  <2>1. Read(0)
    BY <1>1, <1>2, FirstOfAll DEF Extends
  <2> HIDE DEF Read
  <2> QED
    BY <1>2, <2>1
<1>4. ASSUME NEW m \in 1 .. n, m - 1 \in P PROVE m \in P
  <2>1. /\ t[m - 1] \in Tallies /\ t[m] = Candidate(t[m - 1], record[m])
        /\ FirstOf(record, m) = FirstOf(record, m - 1) \cup {record[m]} /\ record[m] \in Candidates
        /\ Read(m - 1) /\ t[m - 1].total \in Nat
    BY <1>1, <1>4, FirstOfNext DEF Tallies
  <2>2. /\ Extends(t[m], res, FirstOf(record, m))
        /\ t[m].total \in {t[m - 1].total, t[m - 1].total + 1}
    BY <2>1, CandidateStep
  <2> QED
    BY <1>2, <2>1, <2>2
<1>5. \A m \in 0 .. n : m \in P
  <2> HIDE DEF P, n
  <2> QED
    BY <1>2, <1>3, <1>4, InductionUpTo
<1> QED
  BY <1>1, <1>2, <1>5, FirstOfAll

-----------------------------------------------------------------------------
LEMMA RecordLimitType == RecordLimit \in Nat
  BY RolaIPAssumption DEF RecordLimit, RolaIPAssumption

(* A record may pass the input limit by one candidate.                     *)
LEMMA RecordStep ==
  ASSUME NEW res \in Tallies, NEW record \in Records, NEW from, NEW seen, Extends(res, from, seen)
  PROVE  /\ Record(res, record) \in Tallies
         /\ Extends(Record(res, record), from, seen \cup ToSet(record))
         /\ res.total <= RecordLimit + 1 => Record(res, record).total <= RecordLimit + 1
<1> DEFINE new == Record(res, record)
<1>0. RecordLimit \in Nat /\ res.total \in Nat /\ record \in Seq(Candidates) /\ Len(record) \in 0 .. 2
  BY RecordLimitType, RecordType DEF Tallies
<1>1. CASE res.full
  BY <1>1 DEF Record, Extends
<1>2. CASE ~res.full /\ res.total >= RecordLimit
  <2>1. new = [res EXCEPT !.partial = TRUE, !.full = TRUE]
    BY <1>2 DEF Record
  <2> QED
    BY <2>1 DEF Extends, Tallies
<1>3. CASE ~res.full /\ ~(res.total >= RecordLimit) /\ record = <<>>
  <2>1. new = [res EXCEPT !.total = @ + 1] /\ ToSet(record) = {}
    BY <1>3 DEF Record, ToSet
  <2>2. /\ new \in Tallies /\ new.total = res.total + 1 /\ new.found = res.found
        /\ new.error = res.error /\ new.partial = res.partial /\ new.full = res.full
    BY <2>1 DEF Tallies
  <2> QED
    BY <1>0, <1>3, <2>1, <2>2 DEF Extends
<1>4. CASE ~res.full /\ ~(res.total >= RecordLimit) /\ record # <<>>
  <2>1. new = FoldLeft(Candidate, res, record)
    BY <1>4 DEF Record
  <2>2. new \in Tallies /\ Extends(new, res, ToSet(record)) /\ new.total <= res.total + Len(record)
    BY <1>0, <1>4, <2>1, CandidatesRead
  <2>3. new.total <= RecordLimit + 1
    <3> DEFINE read == Len(record)
    <3>1. new.total \in Nat /\ new.total <= res.total + read /\ read \in 0 .. 2 /\ res.total < RecordLimit
      BY <1>0, <1>4, <2>2 DEF Tallies
    <3> HIDE DEF new, read
    <3> QED
      BY <1>0, <3>1
  <2> QED
    BY <1>4, <2>2, <2>3 DEF Extends
<1> QED
  BY <1>1, <1>2, <1>3, <1>4

(* The outer loop goes through a page record by record.                    *)
LEMMA RecordTrace ==
  ASSUME NEW res \in Tallies, NEW records \in Seq(Records)
  PROVE  \E t \in [0 .. Len(records) -> Tallies] :
           /\ t[0] = res
           /\ \A i \in 1 .. Len(records) : t[i] = Record(t[i - 1], records[i])
           /\ t[Len(records)] = AppendRecords(records, res)
<1> DEFINE n == Len(records)
           step == [p \in (1 .. n) \X Tallies |-> Record(p[2], records[p[1]])]
           table == CHOOSE g : g = [s \in SUBSET (1 .. n) |->
                      IF s = {} THEN res ELSE Record(g[s \ {Max(s)}], records[Max(s)])]
<1>1. n \in Nat /\ DOMAIN records = 1 .. n /\ step \in Steps(n, Tallies)
  <2>1. n \in Nat /\ DOMAIN records = 1 .. n
    OBVIOUS
  <2>2. ASSUME NEW i \in 1 .. n, NEW r \in Tallies PROVE Record(r, records[i]) \in Tallies
    <3>1. records[i] \in Records /\ (Extends(r, r, {}) \/ r.full)
      BY DEF Extends
    <3> QED
      BY <3>1, RecordStep DEF Record
  <2> QED
    BY <2>1, <2>2 DEF Steps
<1>2. \A i \in 1 .. n, r \in Tallies : step[<<i, r>>] = Record(r, records[i])
  OBVIOUS
<1>3. AppendRecords(records, res) = table[1 .. n]
  BY <1>1 DEF AppendRecords, FoldLeft, MapThenFoldSet
<1> HIDE DEF step, n, table
<1>4. PICK g \in [SUBSET (1 .. n) -> Tallies] : IsTable(g, n, Tallies, res, step)
  BY <1>1, FoldTable
<1>5. \A s \in SUBSET (1 .. n) : s # {} => Max(s) \in 1 .. n /\ s \ {Max(s)} \in SUBSET (1 .. n)
  BY <1>1, LargestExists
<1>6. g = [s \in SUBSET (1 .. n) |-> IF s = {} THEN res ELSE Record(g[s \ {Max(s)}], records[Max(s)])]
  BY <1>2, <1>4, <1>5 DEF IsTable
<1>7. table = [s \in SUBSET (1 .. n) |->
                IF s = {} THEN res ELSE Record(table[s \ {Max(s)}], records[Max(s)])]
  BY <1>6 DEF table
<1>8. IsTable(table, n, Tallies, res, step)
  BY <1>2, <1>5, <1>7 DEF IsTable
<1>9. PICK t \in [0 .. n -> Tallies] : IsTrace(t, n, res, step) /\ t[n] = table[1 .. n]
  BY <1>1, <1>8, TableTrace
<1>10. \A i \in 1 .. n : t[i] = Record(t[i - 1], records[i])
  <2> TAKE i \in 1 .. n
  <2>1. i - 1 \in 0 .. n
    BY <1>1
  <2> QED
    BY <1>2, <1>9, <2>1 DEF IsTrace
<1> QED
  BY <1>3, <1>9, <1>10 DEF n, IsTrace

(* A page read to its end adds all it has; one that was not is marked.     *)
LEMMA PageRead ==
  ASSUME NEW res \in Tallies, ~res.full, res.total <= RecordLimit + 1, NEW records \in Seq(Records)
  PROVE  LET new == AppendRecords(records, res)
         IN  /\ new \in Tallies /\ new.total <= RecordLimit + 1 /\ new.error = res.error
             /\ new.full => new.partial
             /\ ~new.full => new.partial = res.partial /\ new.found = res.found \cup OnPage(records)
<1> DEFINE n == Len(records)
           Seen(m) == UNION {ToSet(records[j]) : j \in 1 .. m}
<1>1. PICK t \in [0 .. n -> Tallies] : /\ t[0] = res
                                       /\ \A i \in 1 .. n : t[i] = Record(t[i - 1], records[i])
                                       /\ t[n] = AppendRecords(records, res)
  BY RecordTrace
<1> DEFINE Read(m) == Extends(t[m], res, Seen(m)) /\ t[m].total <= RecordLimit + 1
           P == {m \in 0 .. n : Read(m)}
<1>2. n \in Nat /\ DOMAIN records = 1 .. n
  OBVIOUS
<1>3. 0 \in P
  <2>1. Read(0)
    <3>1. Seen(0) = {}
      OBVIOUS
    <3> HIDE DEF Seen
    <3> QED
      BY <1>1, <1>2, <3>1 DEF Extends
  <2> HIDE DEF Read
  <2> QED
    BY <1>2, <2>1
<1>4. ASSUME NEW m \in 1 .. n, m - 1 \in P PROVE m \in P
  <2>1. Seen(m) = Seen(m - 1) \cup ToSet(records[m])
    <3>1. 1 .. m = (1 .. m - 1) \cup {m}
      BY <1>2
    <3> QED
      BY <3>1
  <2> HIDE DEF Seen
  <2>2. /\ t[m - 1] \in Tallies /\ t[m] = Record(t[m - 1], records[m]) /\ records[m] \in Records
        /\ Read(m - 1)
    BY <1>1, <1>4
  <2>3. Extends(t[m], res, Seen(m)) /\ t[m].total <= RecordLimit + 1
    BY <2>1, <2>2, RecordStep
  <2> QED
    BY <2>3
<1>5. \A m \in 0 .. n : m \in P
  <2> HIDE DEF P, n
  <2> QED
    BY <1>2, <1>3, <1>4, InductionUpTo
<1>6. t[n] \in Tallies /\ Read(n)
  <2>1. n \in 0 .. n
    BY <1>2
  <2>2. n \in P
    BY <1>5, <2>1
  <2>3. t[n] \in Tallies
    BY <1>1, <2>1
  <2> QED
    BY <2>2, <2>3
<1>7. OnPage(records) = Seen(n) \ {Invalid}
  BY <1>2 DEF OnPage
<1> HIDE DEF Seen
<1> QED
  BY <1>1, <1>6, <1>7 DEF Extends

-----------------------------------------------------------------------------
(* Waiting for a server that limits the rate.                              *)
LEMMA Remainder ==
  ASSUME NEW m \in Nat, NEW d \in Nat \ {0}, m < d
  PROVE  m % d = m
  OBVIOUS

LEMMA WrapType ==
  ASSUME NEW n \in Int
  PROVE  Wrap(n) \in Int /\ (0 <= n /\ n < DurationLimit => Wrap(n) = n)
<1> DEFINE m == n + DurationLimit
           d == 2 * DurationLimit
<1>1. DurationLimit \in Nat \ {0} /\ m \in Int /\ d \in Nat \ {0}
  BY PageFetchAssumption DEF PageFetchAssumption
<1>2. m % d \in Int /\ (0 <= n /\ n < DurationLimit => m % d = m)
  <2>1. 0 <= n /\ n < DurationLimit => m \in Nat /\ m < d
    BY <1>1
  <2> HIDE DEF m, d
  <2> QED
    BY <1>1, <2>1, Remainder
<1> QED
  BY <1>1, <1>2 DEF Wrap

LEMMA DelayBounds ==
  ASSUME NEW h \in Headers, NEW n \in Nat
  PROVE  /\ Asked(h) < DurationLimit => RetryDelay(h, n) >= Smaller(Asked(h), MaxRetryAfter)
         /\ \/ RetryDelay(h, n) <= MaxRetryAfter
            \/ \E i \in DOMAIN RetryDelays : RetryDelay(h, n) = RetryDelays[i]
<1>1. h.value \in Int /\ MaxRetryAfter \in Nat \ {0} /\ Second \in Nat \ {0} /\ DurationLimit \in Nat
  BY PageFetchAssumption DEF PageFetchAssumption
<1>2. CASE h.value > 0 /\ h.kind = "seconds"
  <2> DEFINE asked == h.value * Second
  <2>1. asked \in Nat /\ Asked(h) = asked /\ RetryDelay(h, n) = Smaller(Wrap(asked), MaxRetryAfter)
    BY <1>1, <1>2 DEF Asked, RetryDelay
  <2> HIDE DEF asked
  <2>2. Wrap(asked) \in Int /\ (asked < DurationLimit => Wrap(asked) = asked)
    BY <1>1, <2>1, WrapType
  <2> QED
    BY <1>1, <2>1, <2>2 DEF Smaller
<1>3. CASE h.value > 0 /\ h.kind = "date"
  <2>1. Asked(h) = h.value /\ RetryDelay(h, n) = Smaller(h.value, MaxRetryAfter)
    BY <1>1, <1>3 DEF Asked, RetryDelay
  <2> QED
    BY <1>1, <2>1 DEF Smaller
<1>4. CASE ~(h.value > 0 /\ h.kind = "seconds") /\ ~(h.value > 0 /\ h.kind = "date")
  <2> DEFINE i == Smaller(n + 1, Len(RetryDelays))
  <2>1. i \in DOMAIN RetryDelays /\ RetryDelays[i] \in Nat \ {0}
    BY PageFetchAssumption DEF PageFetchAssumption, Smaller
  <2>2. Asked(h) = 0 /\ RetryDelay(h, n) = RetryDelays[i]
    BY <1>1, <1>4 DEF Asked, RetryDelay
  <2> HIDE DEF i
  <2> QED
    BY <1>1, <2>1, <2>2 DEF Smaller
<1> QED
  BY <1>2, <1>3, <1>4

LEMMA NextBackoff == BackoffInv /\ [Next]_vars => BackoffInv'
<1> SUFFICES ASSUME BackoffInv, [Next]_vars PROVE BackoffInv'
  OBVIOUS
<1>0. MaxRetries \in Nat
  BY PageFetchAssumption DEF PageFetchAssumption
<1>1. CASE Ask
  BY <1>1 DEF Ask, Request, BackoffInv
<1>2. CASE Fetching
  <2>1. CASE RateLimited
    BY <1>0, <2>1 DEF RateLimited, BackoffInv
  <2>2. CASE Backoff \/ RequestFails \/ Answered
    BY <2>2 DEF Backoff, RequestFails, Answered, BackoffInv
  <2> QED
    BY <1>2, <2>1, <2>2 DEF Fetching, FetchStep
<1>3. CASE PageFailed \/ RefusePage \/ FirstPage \/ LaterPage
  <2>1. fetch' = "idle" /\ attempt' = attempt
    BY <1>3 DEF PageFailed, RefusePage, FirstPage, LaterPage
  <2> QED
    BY <2>1 DEF BackoffInv
<1>4. CASE Pause \/ Collect \/ Cancel \/ UNCHANGED vars
  <2>1. UNCHANGED <<fetch, attempt, header, wait>>
    BY <1>4 DEF Pause, Collect, Cancel, vars, fetchVars
  <2> QED
    BY <2>1 DEF BackoffInv
<1> QED
  BY <1>1, <1>2, <1>3, <1>4 DEF Next, Round

(* A page is asked for again a bounded number of times, after a wait that  *)
(* the server's answer and the cap agree on.                               *)
THEOREM WaitsAsAsked == Spec => []HonoursRetryAfter
<1>1. Init => BackoffInv
  BY DEF Init, FetchInit, BackoffInv
<1>2. BackoffInv => HonoursRetryAfter
  BY DelayBounds DEF BackoffInv, HonoursRetryAfter
<1> QED
  BY <1>1, <1>2, NextBackoff, PTL DEF Spec

-----------------------------------------------------------------------------
(* A refresh from page to page.                                            *)
LEMMA TallyType ==
  ASSUME NEW res
  PROVE  Tallied(res) <=> res \in Tallies
  BY DEF Tallied, Tallies

LEMMA RefreshTypes ==
  ASSUME catalogue \in Catalogues
  PROVE  /\ PageLimit \in Int /\ PageLimit <= MaxPages /\ MaxPages \in Nat \ {0}
         /\ \A m \in Nat : PageAt(m) \in Seq(Records)
         /\ \A answer \in Answers : Data(answer) \in Seq(Records)
<1>1. catalogue \in Seq(Seq(Records))
  BY RolaIPAssumption DEF RolaIPAssumption, Records, Candidates
<1>2. PageLimit \in Int /\ PageLimit <= MaxPages /\ MaxPages \in Nat \ {0}
  <2>1. Pages(RecordLimit, PageSize) \in Int
    BY RecordLimitType, RolaIPAssumption DEF Pages, RolaIPAssumption
  <2> QED
    BY <2>1, RolaIPAssumption DEF PageLimit, Smaller, RolaIPAssumption
<1>3. \A m : PageAt(m) \in Seq(Records)
  BY <1>1 DEF PageAt
<1> QED
  BY <1>2, <1>3 DEF Data

(* An accepted answer has the records of the page asked for.               *)
LEMMA AcceptedFacts ==
  ASSUME NEW answer \in Answers, Accepted(answer)
  PROVE  /\ answer.claim \in [size : Int, total : Nat, pages : Nat]
         /\ Data(answer) = PageAt(page) \/ (page = 1 /\ answer.claim.total = 0)
<1>1. answer.claim \in [size : Int, total : Int, pages : Int]
  BY RolaIPAssumption DEF RolaIPAssumption, Answers
<1>2. answer.claim.total \in Nat /\ answer.claim.pages \in Nat
  BY <1>1 DEF Accepted, Valid
<1>3. answer.claim \in [size : Int, total : Nat, pages : Nat]
  BY <1>1, <1>2
<1> QED
  BY <1>3 DEF Accepted, Valid, Data

LEMMA StopFacts ==
  ASSUME NEW res \in Tallies, NEW error \in {"none", "server", "cancelled"}, Stop(res, error)
  PROVE  /\ pc' = "done" /\ Tallied(result') /\ result'.error = error
         /\ result'.total = res.total /\ result'.found = res.found
         /\ result'.partial = (res.partial \/ (error # "none" /\ res.found # {}))
  BY DEF Stop, Tallies, Tallied

LEMMA InitRound == Init => Reading /\ Ending
<1> SUFFICES ASSUME Init PROVE Reading /\ Ending
  OBVIOUS
<1>1. Tallied(NoResult) /\ NoResult.total = 0
  BY FS_EmptySet, RolaIPAssumption DEF NoResult, Tallied, RolaIPAssumption
<1>2. NoClaim \in [size : Int, total : Nat, pages : Nat] /\ HasPages(1 - 1)
  BY DEF NoClaim, HasPages
<1> QED
  BY <1>1, <1>2, RecordLimitType DEF Init, NoResult, Reading, Ending

(* A round that ends with an error, whatever it had read.                  *)
LEMMA FailStep ==
  ASSUME Reading, Ending, NEW error \in {"server", "cancelled"}, Stop(result, error),
         error = "cancelled" => cancelled, pc \in {"fetch", "pause"},
         UNCHANGED <<cancelled, catalogue, page, claim, delivered>>
  PROVE  Reading' /\ Ending'
<1>1. result \in Tallies /\ result.total <= RecordLimit + 1 /\ ~result.partial /\ delivered = "nothing"
  BY TallyType DEF Reading
<1>2. /\ pc' = "done" /\ Tallied(result') /\ result'.error = error
      /\ result'.total = result.total /\ result'.found = result.found
      /\ result'.partial = (result.partial \/ (error # "none" /\ result.found # {}))
  BY <1>1, StopFacts
<1>3. Reading'
  BY <1>1, <1>2 DEF Reading, RecordLimit, LastPage, PageLimit
<1>4. Ending'
  BY <1>1, <1>2 DEF Ending
<1> QED
  BY <1>3, <1>4

(* Having read a page, the refresh goes on with all so far, ends at a      *)
(* limit with a mark, or ends with the last page.                          *)
LEMMA PageStep ==
  ASSUME Reading, Ending, pc = "fetch", NEW answer \in Answers, Accepted(answer),
         IF page = 1 THEN claim' = answer.claim ELSE claim' = claim,
         GoOn(AppendRecords(Data(answer), result), claim'),
         UNCHANGED <<cancelled, catalogue, page, delivered>>
  PROVE  Reading' /\ Ending'
<1> DEFINE res == AppendRecords(Data(answer), result)
           Has(i) == OnPage(PageAt(i)) \subseteq res.found \/ (i = 1 /\ claim'.total = 0)
<1>0. /\ result \in Tallies /\ ~result.full /\ ~result.partial /\ result.error = "none"
      /\ result.total <= RecordLimit + 1 /\ HasPages(page - 1) /\ delivered = "nothing"
      /\ catalogue \in Catalogues /\ page \in Nat \ {0}
      /\ claim \in [size : Int, total : Nat, pages : Nat]
  BY TallyType DEF Reading
<1>1. /\ Data(answer) \in Seq(Records) /\ PageLimit \in Int
      /\ claim' \in [size : Int, total : Nat, pages : Nat]
      /\ Data(answer) = PageAt(page) \/ (page = 1 /\ claim'.total = 0)
  BY <1>0, RefreshTypes, AcceptedFacts
<1>2. /\ res \in Tallies /\ res.total <= RecordLimit + 1 /\ res.error = "none"
      /\ res.full => res.partial
      /\ ~res.full => ~res.partial /\ res.found = result.found \cup OnPage(Data(answer))
  BY <1>0, <1>1, PageRead
<1> HIDE DEF res
<1>3. ASSUME ~res.full, NEW i \in 1 .. page PROVE Has(i)
  <2>1. CASE i = page
    BY <1>1, <1>2, <1>3, <2>1
  <2>2. CASE i < page
    <3>1. claim' = claim /\ i \in 1 .. page - 1
      BY <1>0, <2>2
    <3>2. OnPage(PageAt(i)) \subseteq result.found \/ (i = 1 /\ claim.total = 0)
      BY <1>0, <3>1 DEF HasPages
    <3> QED
      BY <1>2, <1>3, <3>1, <3>2
  <2> QED
    BY <1>0, <2>1, <2>2
<1>4. LastPage(claim') \in Int /\ (~Capped(claim') => claim'.pages <= LastPage(claim'))
  BY <1>1 DEF LastPage, Capped, Smaller
<1>5. page > 1 => page <= LastPage(claim')
  BY <1>0 DEF Reading
<1>6. ASSUME NEW n \in Nat, n <= page, ~res.full, result'.found = res.found
      PROVE  \A i \in 1 .. n : (OnPage(PageAt(i)) \subseteq result.found \/ (i = 1 /\ claim.total = 0))'
  <2> TAKE i \in 1 .. n
  <2>1. Has(i)
    BY <1>0, <1>3, <1>6
  <2>2. PageAt(i)' = PageAt(i)
    BY DEF PageAt
  <2> QED
    BY <1>6, <2>1, <2>2
<1> HIDE DEF Has
<1>7. CASE res.full
  <2>1. Stop(res, "none")
    BY <1>7 DEF GoOn, res
  <2>2. /\ pc' = "done" /\ Tallied(result') /\ result'.error = "none"
        /\ result'.total = res.total /\ result'.partial
    BY <1>2, <1>7, <2>1, StopFacts
  <2>3. Reading'
    BY <1>0, <1>1, <1>2, <1>5, <2>2 DEF Reading, RecordLimit, LastPage, PageLimit
  <2> QED
    BY <1>0, <2>2, <2>3 DEF Ending
<1>8. CASE ~res.full /\ page >= LastPage(claim')
  <2> DEFINE capped == Capped(claim')
             last == [res EXCEPT !.partial = capped]
  <2>1. Stop(last, "none") /\ capped \in BOOLEAN
    BY <1>8 DEF GoOn, res, Capped
  <2> HIDE DEF capped
  <2>2. last \in Tallies /\ last.total = res.total /\ last.found = res.found /\ last.partial = capped
    BY <1>2, <2>1 DEF Tallies
  <2> HIDE DEF last
  <2>3. /\ pc' = "done" /\ Tallied(result') /\ result'.error = "none"
        /\ result'.total = res.total /\ result'.partial = capped /\ result'.found = res.found
    BY <2>1, <2>2, StopFacts
  <2>4. ~capped => HasPages(claim.pages)'
    <3> SUFFICES ASSUME ~capped PROVE HasPages(claim.pages)'
      OBVIOUS
    <3>1. claim'.pages \in Nat /\ claim'.pages <= page
      BY <1>0, <1>1, <1>4, <1>8 DEF capped
    <3> QED
      BY <1>6, <1>8, <2>3, <3>1 DEF HasPages
  <2>5. Reading'
    BY <1>0, <1>1, <1>2, <1>5, <2>3 DEF Reading, RecordLimit, LastPage, PageLimit
  <2> QED
    BY <1>0, <2>3, <2>4, <2>5 DEF Ending
<1>9. CASE ~res.full /\ ~(page >= LastPage(claim'))
  <2>1. pc' = "pause" /\ result' = res
    BY <1>9 DEF GoOn, res
  <2>2. page < LastPage(claim')
    BY <1>0, <1>4, <1>9
  <2>3. HasPages(page)'
    BY <1>0, <1>6, <1>9, <2>1 DEF HasPages
  <2>4. Tallied(result')
    BY <1>2, <2>1, TallyType
  <2>5. Reading'
    BY <1>0, <1>1, <1>2, <1>5, <1>9, <2>1, <2>2, <2>3, <2>4 DEF Reading, RecordLimit, LastPage, PageLimit
  <2> QED
    BY <1>0, <1>2, <2>1, <2>5 DEF Ending
<1> QED
  BY <1>7, <1>8, <1>9

LEMMA NextRound == Reading /\ Ending /\ [Next]_vars => Reading' /\ Ending'
<1> SUFFICES ASSUME Reading, Ending, [Next]_vars PROVE Reading' /\ Ending'
  OBVIOUS
<1>0. page \in Nat \ {0} /\ catalogue \in Catalogues
  BY DEF Reading
<1>1. CASE PageFailed \/ RefusePage
  <2>1. PICK error \in {"server", "cancelled"} : Stop(result, error) /\ (error = "cancelled" => cancelled)
    BY <1>1 DEF PageFailed, RefusePage
  <2> QED
    BY <1>1, <2>1, FailStep DEF PageFailed, RefusePage
<1>2. CASE FirstPage
  <2>1. PICK answer \in Answers : Accepted(answer) /\ claim' = answer.claim
                                  /\ GoOn(AppendRecords(Data(answer), result), answer.claim)
    BY <1>2 DEF FirstPage
  <2> QED
    BY <1>2, <2>1, PageStep DEF FirstPage
<1>3. CASE LaterPage
  <2>1. PICK answer \in Answers : Accepted(answer) /\ GoOn(AppendRecords(Data(answer), result), claim)
    BY <1>3 DEF LaterPage
  <2>2. page # 1 /\ claim' = claim
    BY <1>0, <1>3 DEF LaterPage
  <2> QED
    BY <1>3, <2>1, <2>2, PageStep DEF LaterPage
<1>4. CASE Pause
  <2>1. CASE cancelled /\ Stop(result, "cancelled") /\ UNCHANGED page
    BY <1>4, <2>1, FailStep DEF Pause, fetchVars
  <2>2. CASE pc' = "fetch" /\ page' = page + 1 /\ UNCHANGED result
    <3>1. /\ pc = "pause" /\ page < LastPage(claim) /\ HasPages(page)
          /\ LastPage(claim) \in Int /\ UNCHANGED <<catalogue, claim, delivered, cancelled>>
      BY <1>0, <1>4, RefreshTypes DEF Pause, fetchVars, Reading, LastPage, Smaller
    <3>2. page' \in Nat \ {0} /\ page' > 1 /\ page' - 1 = page /\ page' <= LastPage(claim)
      BY <1>0, <2>2, <3>1
    <3>3. HasPages(page - 1)'
      BY <2>2, <3>1, <3>2 DEF HasPages, PageAt
    <3>4. Reading'
      BY <2>2, <3>1, <3>2, <3>3 DEF Reading, Tallied, RecordLimit, LastPage, PageLimit
    <3> QED
      BY <2>2, <3>1, <3>4 DEF Reading, Ending
  <2> QED
    BY <1>4, <2>1, <2>2 DEF Pause
<1>5. CASE Collect
  <2>1. /\ pc = "done" /\ pc' = "delivered" /\ delivered' = IF cancelled THEN "nothing" ELSE "result"
        /\ UNCHANGED <<cancelled, catalogue, page, claim, result>>
    BY <1>5 DEF Collect, fetchVars
  <2>2. HasPages(claim.pages)' = HasPages(claim.pages)
    BY <2>1 DEF HasPages, PageAt
  <2>3. Reading'
    BY <2>1 DEF Reading, Tallied, RecordLimit, LastPage, PageLimit
  <2> QED
    BY <2>1, <2>2, <2>3 DEF Ending
<1>6. CASE Ask \/ Fetching \/ (Cancel /\ UNCHANGED roundVars) \/ UNCHANGED vars
  <2>1. UNCHANGED roundVars /\ (cancelled => cancelled')
    BY <1>6 DEF Ask, Request, Fetching, FetchStep, RateLimited, Backoff, RequestFails, Answered, Cancel, vars, fetchVars
  <2>2. /\ HasPages(claim.pages)' = HasPages(claim.pages)
        /\ HasPages(IF pc = "fetch" THEN page - 1 ELSE page)' = HasPages(IF pc = "fetch" THEN page - 1 ELSE page)
    BY <2>1 DEF roundVars, HasPages, PageAt
  <2>3. Reading'
    BY <2>1, <2>2 DEF roundVars, Reading, Tallied, RecordLimit, LastPage, PageLimit
  <2> QED
    BY <2>1, <2>2, <2>3 DEF roundVars, Ending
<1> QED
  BY <1>1, <1>2, <1>3, <1>4, <1>5, <1>6 DEF Next, Round

LEMMA RoundInvariant == Spec => [](Reading /\ Ending)
  BY InitRound, NextRound, PTL DEF Spec

(* A result that passes for complete holds every valid proxy of every page *)
(* the first answer said there are.                                        *)
THEOREM UnmarkedRoundIsWhole == Spec => []CompleteIsWhole
<1>1. Reading /\ Ending => CompleteIsWhole
  BY DEF Ending, Complete, CompleteIsWhole
<1> QED
  BY <1>1, RoundInvariant, PTL

(* Neither the candidates nor the input nor the pages pass their limit.    *)
THEOREM LimitsKept == Spec => []LimitsHold
<1>1. Reading => LimitsHold
  <2> SUFFICES ASSUME Reading PROVE LimitsHold
    OBVIOUS
  <2>1. page \in Nat \ {0} /\ (page > 1 => page <= LastPage(claim)) /\ claim.pages \in Nat
    BY DEF Reading
  <2>2. PageLimit \in Int /\ PageLimit <= MaxPages /\ MaxPages \in Nat \ {0}
    BY RefreshTypes DEF Reading
  <2>3. page <= MaxPages
    BY <2>1, <2>2 DEF LastPage, Smaller
  <2> QED
    BY <2>3 DEF Reading, Tallied, LimitsHold
<1> QED
  BY <1>1, RoundInvariant, PTL

(* A cancelled round is not handed over, and a failed one says so.         *)
THEOREM FailedRoundIsMarked == Spec => []InterruptedIsMarked
<1>1. Reading /\ Ending => InterruptedIsMarked
  BY DEF Ending, InterruptedIsMarked
<1> QED
  BY <1>1, RoundInvariant, PTL
=============================================================================
