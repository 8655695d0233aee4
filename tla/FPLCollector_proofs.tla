------------------------ MODULE FPLCollector_proofs -------------------------
(***************************************************************************)
(* Theorems about FPLCollector, for any number of sources and workers, any *)
(* lists and limits: the store is never given a slot that nobody filled,   *)
(* the budget holds, and a result that passes for complete is whole.       *)
(***************************************************************************)
EXTENDS FPLCollector, FoldLemmas

LEMMA ParsedIsOwn ==
  ASSUME NEW s, NEW lines
  PROVE  Own(ParseSource(s, lines), s)
  BY DEF ParseSource, Own

LEMMA CutIsOwn ==
  ASSUME NEW result, NEW room, NEW s, Own(result, s)
  PROVE  Own(Cut(result, room), s)
  BY DEF Cut, Own

LEMMA InitSlots == Init => SlotsInv
<1> SUFFICES ASSUME Init PROVE SlotsInv
  OBVIOUS
<1>1. 1 \in 1 .. NumSources + 1 /\ 0 \in 0 .. NumSources
  BY FPLAssumption DEF FPLAssumption
<1>2. ~NoCache.tagged
  BY DEF NoCache
<1>3. DOMAIN cache = Sources /\ \A s \in Sources : ~cache[s].tagged
  BY <1>2 DEF Init
<1>4. \A w \in Workers : ~Busy(w)
  BY DEF Init, Busy
<1>5. Handing
  BY <1>1, <1>3, <1>4 DEF Init, Handing
<1>6. Filling
  BY DEF Init, Filling
<1> QED
  BY <1>5, <1>6 DEF SlotsInv

-----------------------------------------------------------------------------
(* What a worker puts into its slot is its source's, unless the context is *)
(* done.                                                                   *)
LEMMA FillStep ==
  ASSUME SlotsInv, NEW w \in Workers, NEW list, NEW result, Fill(w, list, result),
         cancelled \/ Own(result, job[w]),
         DOMAIN cache' = Sources,
         \A s \in Sources : cache'[s].tagged => Own(cache'[s].result, s)
  PROVE  SlotsInv'
<1>0. /\ Handing /\ Filling /\ worker[w] = "request" /\ Busy(w)
      /\ results' = [results EXCEPT ![job[w]] = result]
      /\ worker' = [worker EXCEPT ![w] = "receive"] /\ job' = [job EXCEPT ![w] = 0]
      /\ UNCHANGED <<cancelled, pc, next, remaining, taken>>
      /\ Workers' = Workers /\ Sources' = Sources /\ 0 \in 0 .. NumSources
  BY FPLAssumption DEF SlotsInv, Fill, Busy, collectVars, Workers, Sources, FPLAssumption
<1>1. /\ pc \in {"offer", "wait"} /\ DOMAIN results = Sources
      /\ job[w] \in 1 .. next - 1 /\ job[w] \in Sources /\ next \in 1 .. NumSources + 1
      /\ ~taken
  BY <1>0, FPLAssumption DEF Handing, Filling, Busy, Sources, FPLAssumption
<1>2. Handing'
  BY <1>0, <1>1 DEF Handing, Busy
<1>3. /\ DOMAIN results' = Sources /\ results'[job[w]] = result
      /\ \A s \in Sources : s # job[w] => results'[s] = results[s]
  BY <1>0, <1>1
<1>4. \A s \in 1 .. next - 1 : ~cancelled =>
        Own(results'[s], s) \/ \E v \in Workers : worker'[v] \in {"check", "request"} /\ job'[v] = s
  <2> SUFFICES ASSUME NEW s \in 1 .. next - 1, ~cancelled, s # job[w]
               PROVE  Own(results'[s], s) \/ \E v \in Workers :
                        worker'[v] \in {"check", "request"} /\ job'[v] = s
    BY <1>3
  <2>1. s \in Sources
    BY <1>1, FPLAssumption DEF Sources, FPLAssumption
  <2>2. Own(results[s], s) \/ \E v \in Workers : Busy(v) /\ job[v] = s
    BY <1>0, <1>1 DEF Filling
  <2>3. CASE Own(results[s], s)
    BY <1>3, <2>1, <2>3
  <2>4. ASSUME NEW v \in Workers, Busy(v), job[v] = s
        PROVE  worker'[v] \in {"check", "request"} /\ job'[v] = s
    BY <1>0, <2>4 DEF Handing, Busy
  <2> QED
    BY <2>2, <2>3, <2>4
<1>5. Filling'
  BY <1>0, <1>1, <1>3, <1>4 DEF Filling, Busy, Sources
<1> QED
  BY <1>2, <1>5 DEF SlotsInv

LEMMA WorkStep ==
  ASSUME SlotsInv, NEW w \in Workers, Work(w)
  PROVE  SlotsInv'
<1>0. /\ Handing /\ Filling /\ Workers' = Workers /\ Sources' = Sources
      /\ worker[w] = "request" => job[w] \in Sources
      /\ DOMAIN cache = Sources
      /\ \A s \in Sources : cache[s].tagged => Own(cache[s].result, s)
  BY FPLAssumption DEF SlotsInv, Handing, Busy, Workers, Sources, FPLAssumption
<1>1. CASE Check(w)
  <2>1. Handing'
    <3>1. CASE cancelled
      BY <1>0, <1>1, <3>1, FPLAssumption DEF Check, Handing, Busy, collectVars, FPLAssumption
    <3>2. CASE ~cancelled
      BY <1>0, <1>1, <3>2 DEF Check, Handing, Busy, collectVars
    <3> QED
      BY <3>1, <3>2
  <2>2. Filling'
    BY <1>0, <1>1 DEF Check, Filling, Handing, Busy, collectVars, AllFilled
  <2> QED
    BY <2>1, <2>2 DEF SlotsInv
<1>2. CASE Fetched(w)
  <2>1. PICK list \in Lists, tagged \in BOOLEAN :
          LET result == ParseSource(job[w], list)
              entry == IF tagged THEN [tagged |-> TRUE, list |-> list, result |-> result] ELSE NoCache
          IN  /\ Fill(w, list, result)
              /\ cache' = IF result.error THEN cache ELSE [cache EXCEPT ![job[w]] = entry]
    BY <1>2 DEF Fetched
  <2> DEFINE result == ParseSource(job[w], list)
             entry == IF tagged THEN [tagged |-> TRUE, list |-> list, result |-> result] ELSE NoCache
  <2>2. Own(result, job[w]) /\ (entry.tagged => Own(entry.result, job[w]))
    BY ParsedIsOwn DEF NoCache
  <2>3. Fill(w, list, result) /\ job[w] \in Sources
    BY <1>0, <2>1 DEF Fill
  <2>4. cache' = cache \/ cache' = [cache EXCEPT ![job[w]] = entry]
    BY <2>1
  <2> HIDE DEF result, entry
  <2>5. DOMAIN cache' = Sources /\ \A s \in Sources : cache'[s].tagged => Own(cache'[s].result, s)
    BY <1>0, <2>2, <2>3, <2>4
  <2> QED
    BY <2>2, <2>3, <2>5, FillStep
<1>3. CASE NotModified(w)
  BY <1>0, <1>3, FillStep DEF NotModified
<1>4. CASE FetchFails(w)
  BY <1>0, <1>4, FillStep DEF FetchFails, Failed, Unfilled, Own
<1>5. CASE Interrupted(w)
  BY <1>0, <1>5, FillStep DEF Interrupted
<1>6. CASE Exit(w)
  <2>1. Handing'
    BY <1>0, <1>6 DEF Exit, Handing, Busy, collectVars
  <2>2. Filling'
    BY <1>0, <1>6 DEF Exit, Filling, Handing, Busy, collectVars, AllFilled
  <2> QED
    BY <2>1, <2>2 DEF SlotsInv
<1> QED
  BY <1>1, <1>2, <1>3, <1>4, <1>5, <1>6 DEF Work

-----------------------------------------------------------------------------
LEMMA OfferStep ==
  ASSUME SlotsInv, NEW w \in Workers, Offer(w)
  PROVE  SlotsInv'
<1>0. /\ Handing /\ Filling /\ Workers' = Workers /\ Sources' = Sources
      /\ next \in 1 .. NumSources /\ NumSources \in Nat /\ pc = "offer" /\ ~taken
  BY FPLAssumption DEF SlotsInv, Offer, Filling, Workers, Sources, FPLAssumption
<1>1. Handing'
  BY <1>0 DEF Offer, Handing, Busy
<1>2. \A s \in 1 .. next' - 1 : ~cancelled' =>
        Own(results'[s], s) \/ \E v \in Workers : worker'[v] \in {"check", "request"} /\ job'[v] = s
  <2> SUFFICES ASSUME NEW s \in 1 .. next, ~cancelled
               PROVE  Own(results[s], s) \/ \E v \in Workers :
                        worker'[v] \in {"check", "request"} /\ job'[v] = s
    BY <1>0 DEF Offer
  <2>1. CASE s = next
    BY <1>0, <2>1 DEF Offer, Handing
  <2>2. CASE s \in 1 .. next - 1
    BY <1>0, <2>2 DEF Offer, Handing, Filling, Busy
  <2> QED
    BY <1>0, <2>1, <2>2
<1>3. Filling'
  BY <1>0, <1>2 DEF Offer, Filling, Busy, Sources
<1> QED
  BY <1>1, <1>3 DEF SlotsInv

LEMMA CollectStep ==
  ASSUME SlotsInv, Begin \/ Abandon \/ Waited \/ Merge \/ UseRound \/ Cancel \/ UNCHANGED vars
  PROVE  SlotsInv'
<1>0. /\ Handing /\ Filling /\ Workers' = Workers /\ Sources' = Sources
      /\ NumSources \in Nat \ {0} /\ 1 \in Sources /\ 1 \in 1 .. NumSources + 1
      /\ DOMAIN Blank = Sources
  BY FPLAssumption DEF SlotsInv, Workers, Sources, Blank, FPLAssumption
<1>1. CASE Begin
  <2>1. Handing'
    BY <1>0, <1>1 DEF Begin, Return, poolVars, Handing, Filling, Busy
  <2>2. Filling'
    BY <1>0, <1>1 DEF Begin, Return, poolVars, Filling, Busy
  <2> QED
    BY <2>1, <2>2 DEF SlotsInv
<1>2. CASE Abandon
  BY <1>0, <1>2 DEF Abandon, poolVars, SlotsInv, Handing, Filling, Busy, AllFilled
<1>3. CASE Waited
  <2>1. Handing'
    BY <1>0, <1>3 DEF Waited, poolVars, Handing, Busy
  <2>2. ~cancelled => AllFilled
    BY <1>0, <1>3 DEF Waited, Filling, Handing, Busy, AllFilled, Sources
  <2>3. Filling'
    BY <1>0, <1>3, <2>2 DEF Waited, Return, poolVars, Filling, Busy, AllFilled
  <2> QED
    BY <2>1, <2>3 DEF SlotsInv
<1>4. CASE Merge
  <2>1. /\ pc = "merge" /\ next \in Sources /\ AllFilled /\ ~taken
        /\ results' = [results EXCEPT ![next] = Cut(results[next], remaining)]
        /\ next' = next + 1 /\ pc' = IF next = NumSources THEN "returned" ELSE "merge"
        /\ UNCHANGED <<cache, cancelled, taken, worker, job>>
    BY <1>0, <1>4 DEF Merge, Filling, poolVars
  <2>2. next' \in 1 .. NumSources + 1 /\ (pc' = "merge" => next' \in Sources)
    BY <1>0, <2>1 DEF Sources
  <2>3. AllFilled'
    <3>1. Own(Cut(results[next], remaining), next)
      BY <2>1, CutIsOwn DEF AllFilled
    <3> QED
      BY <1>0, <2>1, <3>1 DEF AllFilled
  <2>4. Handing'
    BY <1>0, <2>1, <2>2 DEF Handing, Filling, Busy
  <2>5. Filling'
    BY <1>0, <2>1, <2>2, <2>3 DEF Filling, Busy
  <2> QED
    BY <2>4, <2>5 DEF SlotsInv
<1>5. CASE UseRound
  <2>1. Handing'
    BY <1>0, <1>5 DEF UseRound, poolVars, Handing, Busy
  <2>2. Filling'
    BY <1>0, <1>5 DEF UseRound, poolVars, Filling, Handing, Busy, AllFilled
  <2> QED
    BY <2>1, <2>2 DEF SlotsInv
<1>6. CASE Cancel
  <2>1. Handing'
    BY <1>0, <1>6 DEF Cancel, collectVars, poolVars, Handing, Busy
  <2>2. Filling'
    BY <1>0, <1>6 DEF Cancel, collectVars, poolVars, Filling, Busy, AllFilled
  <2> QED
    BY <2>1, <2>2 DEF SlotsInv
<1>7. CASE UNCHANGED vars
  BY <1>0, <1>7 DEF vars, collectVars, poolVars, SlotsInv, Handing, Filling, Busy, AllFilled
<1> QED
  BY <1>1, <1>2, <1>3, <1>4, <1>5, <1>6, <1>7

LEMMA SlotsInvariant == Spec => []SlotsInv
<1>1. ASSUME SlotsInv, [Next]_vars PROVE SlotsInv'
  <2>1. ASSUME NEW w \in Workers, Offer(w) PROVE SlotsInv'
    BY <1>1, <2>1, OfferStep
  <2>2. ASSUME NEW w \in Workers, Work(w) PROVE SlotsInv'
    BY <1>1, <2>2, WorkStep
  <2>3. CASE Begin \/ Abandon \/ Waited \/ Merge \/ UseRound \/ Cancel \/ UNCHANGED vars
    BY <1>1, <2>3, CollectStep
  <2> QED
    BY <1>1, <2>1, <2>2, <2>3 DEF Next, Collect
<1> QED
  BY <1>1, InitSlots, PTL DEF Spec

(* Each result the store is given is one its own source's worker made;     *)
(* workers that leave on a done context leave no hole behind.              *)
THEOREM NoSlotMissing == Spec => []SlotsFilled
<1>1. SlotsInv => SlotsFilled
  BY DEF SlotsInv, Filling, AllFilled, Own, SlotsFilled
<1> QED
  BY <1>1, SlotsInvariant, PTL

-----------------------------------------------------------------------------
Lines == Proxies \cup {Invalid, LongLine}
Scans == [proxies : Seq(Proxies), partial : BOOLEAN, error : BOOLEAN, over : BOOLEAN]
Start == [proxies |-> <<>>, partial |-> FALSE, error |-> FALSE, over |-> FALSE]

LEMMA LineType ==
  ASSUME NEW scan \in Scans, NEW line \in Lines
  PROVE  Line(scan, line) \in Scans
<1>1. CASE line \in Proxies
  <2>1. Append(scan.proxies, line) \in Seq(Proxies)
    BY <1>1 DEF Scans
  <2> QED
    BY <2>1 DEF Line, Scans
<1>2. CASE line \notin Proxies
  BY <1>2 DEF Line, Scans, Lines
<1> QED
  BY <1>1, <1>2

(* parseSource goes through the list line by line. *)
LEMMA ParseTrace ==
  ASSUME NEW lines \in Seq(Lines)
  PROVE  \E t \in [0 .. Len(lines) -> Scans] :
           /\ t[0] = Start
           /\ \A i \in 1 .. Len(lines) : t[i] = Line(t[i - 1], lines[i])
           /\ t[Len(lines)] = FoldLeft(Line, Start, lines)
<1> DEFINE n == Len(lines)
           step == [p \in (1 .. n) \X Scans |-> Line(p[2], lines[p[1]])]
           table == CHOOSE g : g = [s \in SUBSET (1 .. n) |->
                      IF s = {} THEN Start ELSE Line(g[s \ {Max(s)}], lines[Max(s)])]
<1>1. n \in Nat /\ DOMAIN lines = 1 .. n /\ Start \in Scans /\ step \in Steps(n, Scans)
  <2>1. n \in Nat /\ DOMAIN lines = 1 .. n /\ Start \in Scans
    BY DEF Start, Scans
  <2>2. \A i \in 1 .. n, scan \in Scans : Line(scan, lines[i]) \in Scans
    BY LineType
  <2> QED
    BY <2>1, <2>2 DEF Steps
<1>2. \A i \in 1 .. n, scan \in Scans : step[<<i, scan>>] = Line(scan, lines[i])
  OBVIOUS
<1>3. FoldLeft(Line, Start, lines) = table[1 .. n]
  BY <1>1 DEF FoldLeft, MapThenFoldSet
<1> HIDE DEF step, n, table
<1>4. PICK g \in [SUBSET (1 .. n) -> Scans] : IsTable(g, n, Scans, Start, step)
  BY <1>1, FoldTable
<1>5. \A s \in SUBSET (1 .. n) : s # {} => Max(s) \in 1 .. n /\ s \ {Max(s)} \in SUBSET (1 .. n)
  BY <1>1, LargestExists
<1>6. g = [s \in SUBSET (1 .. n) |-> IF s = {} THEN Start ELSE Line(g[s \ {Max(s)}], lines[Max(s)])]
  BY <1>2, <1>4, <1>5 DEF IsTable
<1>7. table = [s \in SUBSET (1 .. n) |->
                IF s = {} THEN Start ELSE Line(table[s \ {Max(s)}], lines[Max(s)])]
  BY <1>6 DEF table
<1>8. IsTable(table, n, Scans, Start, step)
  BY <1>2, <1>5, <1>7 DEF IsTable
<1>9. PICK t \in [0 .. n -> Scans] : IsTrace(t, n, Start, step) /\ t[n] = table[1 .. n]
  BY <1>1, <1>8, TableTrace
<1>10. \A i \in 1 .. n : t[i] = Line(t[i - 1], lines[i])
  <2> TAKE i \in 1 .. n
  <2>1. i - 1 \in 0 .. n
    BY <1>1
  <2> QED
    BY <1>2, <1>9, <2>1 DEF IsTrace
<1> QED
  BY <1>3, <1>9, <1>10 DEF n, IsTrace

(* A list that goes to its end without a mark is in the result as a whole. *)
LEMMA ParseWhole ==
  ASSUME NEW s \in 0 .. NumSources, NEW list \in Seq(Lines)
  PROVE  MadeFrom(ParseSource(s, list), list) /\ AtLimit(ParseSource(s, list))
<1> DEFINE n == Len(list)
<1>1. PICK t \in [0 .. n -> Scans] : /\ t[0] = Start
                                     /\ \A i \in 1 .. n : t[i] = Line(t[i - 1], list[i])
                                     /\ t[n] = FoldLeft(Line, Start, list)
  BY ParseTrace
<1> DEFINE Scanned(m) == /\ t[m].over => t[m].error \/ t[m].partial
                         /\ ~t[m].over => ToSet(t[m].proxies) = FirstOf(list, m) \ {Invalid}
                         /\ Len(t[m].proxies) <= MaxCandidates
                         /\ t[m].partial => Len(t[m].proxies) = MaxCandidates
           P == {m \in 0 .. n : Scanned(m)}
<1>2. 0 \in P
  <2>1. Scanned(0)
    BY <1>1, FirstOfAll, FPLAssumption DEF Start, ToSet, FPLAssumption
  <2> HIDE DEF Scanned
  <2> QED
    BY <2>1
<1>3. ASSUME NEW m \in 1 .. n, m - 1 \in P PROVE m \in P
  <2> DEFINE scan == t[m - 1]
             line == list[m]
  <2>1. /\ scan \in Scans /\ line \in Lines /\ t[m] = Line(scan, line)
        /\ FirstOf(list, m) = FirstOf(list, m - 1) \cup {line}
        /\ Scanned(m - 1) /\ MaxCandidates \in Nat /\ Len(scan.proxies) \in Nat
        /\ LongLine \notin Proxies
    <3>1. scan \in Scans /\ line \in Lines /\ t[m] = Line(scan, line)
      BY <1>1
    <3>2. FirstOf(list, m) = FirstOf(list, m - 1) \cup {line}
      BY FirstOfNext
    <3>3. Scanned(m - 1)
      BY <1>3
    <3>4. MaxCandidates \in Nat /\ LongLine \notin Proxies
      BY FPLAssumption DEF FPLAssumption
    <3>5. Len(scan.proxies) \in Nat
      BY <3>1 DEF Scans
    <3> QED
      BY <3>1, <3>2, <3>3, <3>4, <3>5
  <2>2. CASE scan.over \/ line = Invalid \/ Contains(scan.proxies, line)
    <3>1. t[m] = scan
      BY <2>1, <2>2 DEF Line
    <3>2. Contains(scan.proxies, line) => line \in ToSet(scan.proxies)
      BY <2>1 DEF Scans, Contains, ToSet
    <3>3. Scanned(m)
      BY <2>1, <2>2, <3>1, <3>2
    <3> QED
      BY <3>3
  <2>3. CASE ~(scan.over \/ line = Invalid \/ Contains(scan.proxies, line))
    <3>1. CASE line = LongLine \/ Len(scan.proxies) >= MaxCandidates
      <4>1. Scanned(m)
        BY <2>1, <2>3, <3>1 DEF Line, Scans
      <4> QED
        BY <4>1
    <3>2. CASE ~(line = LongLine \/ Len(scan.proxies) >= MaxCandidates)
      <4>1. t[m] = [scan EXCEPT !.proxies = Append(@, line)] /\ line \in Proxies
        BY <2>1, <2>3, <3>2 DEF Line, Lines
      <4>2. /\ Len(Append(scan.proxies, line)) = Len(scan.proxies) + 1
            /\ ToSet(Append(scan.proxies, line)) = ToSet(scan.proxies) \cup {line}
        BY <2>1, <4>1, AppendSet DEF Scans
      <4>3. /\ t[m].proxies = Append(scan.proxies, line)
            /\ t[m].over = scan.over /\ t[m].partial = scan.partial /\ t[m].error = scan.error
        BY <2>1, <4>1 DEF Scans
      <4>4. Scanned(m)
        BY <2>1, <2>3, <3>2, <4>2, <4>3
      <4> QED
        BY <4>4
    <3> QED
      BY <3>1, <3>2
  <2> QED
    BY <2>2, <2>3
<1>4. \A m \in 0 .. n : m \in P
  <2>1. n \in Nat
    OBVIOUS
  <2> HIDE DEF P, n
  <2> QED
    BY <1>2, <1>3, <2>1, InductionUpTo
<1>5. t[n] \in Scans /\ Scanned(n) /\ FirstOf(list, n) = ToSet(list)
  BY <1>1, <1>4, FirstOfAll
<1>6. ParseSource(s, list) = [source |-> s, proxies |-> t[n].proxies, partial |-> t[n].partial, error |-> t[n].error]
  BY <1>1 DEF ParseSource, Start
<1> QED
  BY <1>5, <1>6 DEF MadeFrom, AtLimit, Results, Scans

-----------------------------------------------------------------------------
(* The sum over the slots, as a loop over them computes it.                *)
Adds(slots, n) == [p \in (1 .. n) \X Nat |-> p[2] + Len(slots[p[1]].proxies)]

LEMMA AddsAt ==
  ASSUME NEW n \in Nat, NEW slots, NEW i \in 1 .. n, NEW m \in Nat
  PROVE  Adds(slots, n)[<<i, m>>] = m + Len(slots[i].proxies)
<1>1. <<i, m>> \in (1 .. n) \X Nat
  OBVIOUS
<1> QED
  BY <1>1 DEF Adds

LEMMA SpentTrace ==
  ASSUME NEW n \in Nat, NEW slots, \A s \in 1 .. n : Len(slots[s].proxies) \in Nat
  PROVE  \E t \in [0 .. n -> Nat] : IsTrace(t, n, 0, Adds(slots, n)) /\ t[n] = Spent(slots, n)
<1> DEFINE step == Adds(slots, n)
           seq == [s \in 1 .. n |-> s]
           add(m, s) == m + Len(slots[s].proxies)
           table == CHOOSE g : g = [s \in SUBSET (1 .. n) |->
                      IF s = {} THEN 0 ELSE add(g[s \ {Max(s)}], seq[Max(s)])]
<1>1. step \in Steps(n, Nat) /\ DOMAIN seq = 1 .. n /\ 0 \in Nat
  BY DEF Adds, Steps
<1>2. \A i \in 1 .. n, m \in Nat : step[<<i, m>>] = add(m, seq[i])
  BY DEF Adds
<1>3. Spent(slots, n) = table[1 .. n]
  BY <1>1 DEF Spent, FoldLeft, MapThenFoldSet
<1> HIDE DEF step, table, seq, add
<1>4. PICK g \in [SUBSET (1 .. n) -> Nat] : IsTable(g, n, Nat, 0, step)
  BY <1>1, FoldTable
<1>5. \A s \in SUBSET (1 .. n) : s # {} => Max(s) \in 1 .. n /\ s \ {Max(s)} \in SUBSET (1 .. n)
  BY LargestExists
<1>6. g = [s \in SUBSET (1 .. n) |-> IF s = {} THEN 0 ELSE add(g[s \ {Max(s)}], seq[Max(s)])]
  BY <1>2, <1>4, <1>5 DEF IsTable
<1>7. table = [s \in SUBSET (1 .. n) |-> IF s = {} THEN 0 ELSE add(table[s \ {Max(s)}], seq[Max(s)])]
  BY <1>6 DEF table
<1>8. IsTable(table, n, Nat, 0, step)
  BY <1>2, <1>5, <1>7 DEF IsTable
<1>9. PICK t \in [0 .. n -> Nat] : IsTrace(t, n, 0, step) /\ t[n] = table[1 .. n]
  <2> DEFINE A == Nat
             zero == 0
  <2>1. zero \in A /\ step \in Steps(n, A) /\ IsTable(table, n, A, zero, step)
    BY <1>1, <1>8
  <2> HIDE DEF A, zero
  <2>2. PICK t \in [0 .. n -> A] : IsTrace(t, n, zero, step) /\ t[n] = table[1 .. n]
    BY <2>1, TableTrace
  <2> QED
    BY <2>2 DEF A, zero
<1>10. IsTrace(t, n, 0, Adds(slots, n)) /\ t[n] = Spent(slots, n)
  BY <1>3, <1>9 DEF step
<1> QED
  BY <1>10

(* Each slot adds its own proxies, whatever the slots after it hold.       *)
LEMMA SpentNext ==
  ASSUME NEW n \in Nat, NEW slots, NEW others,
         \A s \in 1 .. n : Len(slots[s].proxies) \in Nat,
         \A s \in 1 .. n - 1 : others[s] = slots[s]
  PROVE  /\ Spent(slots, 0) = 0 /\ Spent(slots, n) \in Nat
         /\ n > 0 => Spent(slots, n) = Spent(others, n - 1) + Len(slots[n].proxies)
<1>1. PICK t \in [0 .. 0 -> Nat] : IsTrace(t, 0, 0, Adds(slots, 0)) /\ t[0] = Spent(slots, 0)
  <2>1. 0 \in Nat /\ \A s \in 1 .. 0 : Len(slots[s].proxies) \in Nat
    OBVIOUS
  <2> QED
    BY <2>1, SpentTrace, Zenon
<1>2. PICK u \in [0 .. n -> Nat] : IsTrace(u, n, 0, Adds(slots, n)) /\ u[n] = Spent(slots, n)
  BY SpentTrace
<1>3. CASE n > 0
  <2>1. PICK m \in Nat : n = m + 1
    <3>1. n - 1 \in Nat /\ n = (n - 1) + 1
      BY <1>3
    <3> QED
      BY <3>1
  <2>2. PICK v \in [0 .. m -> Nat] : IsTrace(v, m, 0, Adds(others, m)) /\ v[m] = Spent(others, m)
    <3>1. \A s \in 1 .. m : Len(others[s].proxies) \in Nat
      BY <2>1
    <3> QED
      BY <3>1, SpentTrace
  <2>3. ASSUME NEW i \in 1 .. m
        PROVE  /\ i - 1 \in 0 .. m /\ u[i] = u[i - 1] + Len(slots[i].proxies)
               /\ v[i] = v[i - 1] + Len(slots[i].proxies)
    <3>1. i - 1 \in 0 .. m /\ i \in 1 .. n /\ i - 1 \in 0 .. n /\ others[i] = slots[i]
      BY <2>1
    <3>2. v[i] = Adds(others, m)[<<i, v[i - 1]>>] /\ u[i] = Adds(slots, n)[<<i, u[i - 1]>>]
      BY <1>2, <2>2, <3>1 DEF IsTrace
    <3>3. v[i - 1] \in Nat /\ u[i - 1] \in Nat
      BY <1>2, <2>2, <3>1
    <3> DEFINE a == v[i - 1]
               b == u[i - 1]
    <3>a. a \in Nat /\ b \in Nat
      BY <3>3
    <3> HIDE DEF a, b
    <3>b. Adds(others, m)[<<i, a>>] = a + Len(others[i].proxies)
      BY <2>1, <3>a, AddsAt
    <3>c. Adds(slots, n)[<<i, b>>] = b + Len(slots[i].proxies)
      BY <3>1, <3>a, AddsAt
    <3>4. Adds(others, m)[<<i, v[i - 1]>>] = v[i - 1] + Len(others[i].proxies)
      BY <3>b DEF a
    <3>5. Adds(slots, n)[<<i, u[i - 1]>>] = u[i - 1] + Len(slots[i].proxies)
      BY <3>c DEF b
    <3> QED
      BY <3>1, <3>2, <3>4, <3>5
  <2>4. v[m] = u[m]
    <3> DEFINE P == {i \in 0 .. m : v[i] = u[i]}
    <3>1. 0 \in P
      BY <1>2, <2>1, <2>2 DEF IsTrace
    <3>2. \A i \in 1 .. m : i - 1 \in P => i \in P
      BY <2>3
    <3> HIDE DEF P
    <3>3. \A i \in 0 .. m : i \in P
      BY <2>1, <3>1, <3>2, InductionUpTo
    <3> QED
      BY <2>1, <3>3 DEF P
  <2>5. u[n] = u[m] + Len(slots[n].proxies)
    <3>1. u[n] = Adds(slots, n)[<<n, u[m]>>] /\ u[m] \in Nat /\ n \in 1 .. n
      BY <1>2, <2>1 DEF IsTrace
    <3> QED
      BY <3>1, AddsAt
  <2>6. n - 1 = m
    BY <2>1
  <2>7. Spent(slots, n) = Spent(others, n - 1) + Len(slots[n].proxies)
    BY <1>2, <2>2, <2>4, <2>5, <2>6
  <2> QED
    BY <1>1, <1>2, <2>7 DEF IsTrace
<1> QED
  BY <1>1, <1>2, <1>3 DEF IsTrace

-----------------------------------------------------------------------------
LEMMA NothingMade ==
  /\ MadeFrom(Unfilled, <<>>) /\ AtLimit(Unfilled)
  /\ \A s \in Sources : MadeFrom(Failed(s), <<>>) /\ AtLimit(Failed(s))
<1>1. <<>> \in Seq(Proxies) /\ ToSet(<<>>) = {} /\ 0 \in 0 .. NumSources
  BY FPLAssumption DEF ToSet, FPLAssumption
<1>2. Unfilled \in Results
  BY <1>1 DEF Unfilled, Results
<1>3. ASSUME NEW s \in Sources PROVE Failed(s) \in Results
  <2>1. s \in 0 .. NumSources
    BY FPLAssumption DEF Sources, FPLAssumption
  <2> QED
    BY <1>1, <2>1 DEF Unfilled, Failed, Results
<1> QED
  BY <1>1, <1>2, <1>3 DEF MadeFrom, AtLimit, Unfilled, Failed

LEMMA InitLists == Init => ListsInv
<1> SUFFICES ASSUME Init PROVE ListsInv
  OBVIOUS
<1>1. \A s \in Sources : ~cache[s].tagged
  BY DEF Init, NoCache
<1>2. DOMAIN results = Sources /\ \A s \in Sources : results[s] = Unfilled /\ answered[s] = <<>>
  BY DEF Init, Blank
<1>3. TotalCandidates \in 0 .. TotalCandidates
  BY FPLAssumption DEF FPLAssumption
<1> QED
  BY <1>1, <1>2, <1>3, NothingMade DEF Init, ListsInv, Kept, Shared

(* A worker leaves a result made from what it says it was answered with.   *)
LEMMA FillLists ==
  ASSUME SlotsInv, ListsInv, NEW w \in Workers, NEW list, NEW result, Fill(w, list, result),
         MadeFrom(result, list), AtLimit(result),
         \A s \in Sources : cache'[s].tagged =>
           MadeFrom(cache'[s].result, cache'[s].list) /\ AtLimit(cache'[s].result)
  PROVE  ListsInv'
<1>0. /\ Kept /\ Shared /\ Busy(w)
      /\ results' = [results EXCEPT ![job[w]] = result]
      /\ answered' = [answered EXCEPT ![job[w]] = list]
      /\ UNCHANGED <<cancelled, pc, next, remaining, taken>>
  BY DEF Fill, Busy, collectVars, ListsInv
<1>1. /\ pc \in {"offer", "wait"} /\ job[w] \in Sources /\ ~taken
      /\ DOMAIN results = Sources /\ DOMAIN answered = Sources
  <2>1. job[w] \in Sources
    BY <1>0, FPLAssumption DEF SlotsInv, Handing, Filling, Sources, FPLAssumption
  <2>2. pc \in {"offer", "wait"} /\ ~taken
    BY <1>0 DEF SlotsInv, Filling, Busy
  <2>3. DOMAIN results = Sources /\ DOMAIN answered = Sources
    BY <1>0, <2>2 DEF SlotsInv, Filling, Kept
  <2> QED
    BY <2>1, <2>2, <2>3
<1>2. \A s \in Sources : MadeFrom(results'[s], answered'[s]) /\ (AtLimit(results'[s]) \/ remaining = 0)
  BY <1>0, <1>1 DEF Kept, Shared
<1>3. Kept'
  BY <1>0, <1>1, <1>2 DEF Kept, Sources
<1>4. Shared'
  BY <1>0, <1>1, <1>2 DEF Shared, Sources
<1> QED
  BY <1>3, <1>4 DEF ListsInv

LEMMA WorkLists ==
  ASSUME SlotsInv, ListsInv, NEW w \in Workers, Work(w)
  PROVE  ListsInv'
<1>0. /\ \A s \in Sources : cache[s].tagged =>
            MadeFrom(cache[s].result, cache[s].list) /\ AtLimit(cache[s].result)
      /\ worker[w] = "request" => job[w] \in Sources /\ job[w] \in 0 .. NumSources
      /\ DOMAIN cache = Sources
  BY FPLAssumption DEF SlotsInv, Handing, Busy, Sources, ListsInv, Kept, FPLAssumption
<1>1. CASE Check(w) \/ Exit(w)
  <2>1. UNCHANGED <<cache, cancelled, collectVars, results, answered>>
    BY <1>1 DEF Check, Exit
  <2> QED
    BY <2>1 DEF collectVars, ListsInv, Kept, Shared, Sources
<1>2. CASE Fetched(w)
  <2>1. PICK list \in Lists, tagged \in BOOLEAN :
          LET result == ParseSource(job[w], list)
              entry == IF tagged THEN [tagged |-> TRUE, list |-> list, result |-> result] ELSE NoCache
          IN  /\ Fill(w, list, result)
              /\ cache' = IF result.error THEN cache ELSE [cache EXCEPT ![job[w]] = entry]
    BY <1>2 DEF Fetched
  <2> DEFINE result == ParseSource(job[w], list)
             entry == IF tagged THEN [tagged |-> TRUE, list |-> list, result |-> result] ELSE NoCache
  <2>2. Fill(w, list, result) /\ job[w] \in Sources /\ job[w] \in 0 .. NumSources
    BY <1>0, <2>1 DEF Fill
  <2>3. MadeFrom(result, list) /\ AtLimit(result)
    <3>1. list \in Seq(Lines)
      BY FPLAssumption DEF FPLAssumption, Lines
    <3> QED
      BY <2>2, <3>1, ParseWhole
  <2>4. entry.tagged => MadeFrom(entry.result, entry.list) /\ AtLimit(entry.result)
    BY <2>3 DEF NoCache
  <2>5. cache' = cache \/ cache' = [cache EXCEPT ![job[w]] = entry]
    BY <2>1
  <2> HIDE DEF result, entry
  <2>6. \A s \in Sources : cache'[s].tagged =>
          MadeFrom(cache'[s].result, cache'[s].list) /\ AtLimit(cache'[s].result)
    BY <1>0, <2>2, <2>4, <2>5
  <2> QED
    BY <2>2, <2>3, <2>6, FillLists
<1>3. CASE NotModified(w)
  BY <1>0, <1>3, FillLists DEF NotModified
<1>4. CASE FetchFails(w)
  BY <1>0, <1>4, NothingMade, FillLists DEF FetchFails, Fill
<1>5. CASE Interrupted(w)
  BY <1>0, <1>5, NothingMade, FillLists DEF Interrupted
<1> QED
  BY <1>1, <1>2, <1>3, <1>4, <1>5 DEF Work

(* What a cut result has is within the room, and none is cut in vain.      *)
LEMMA CutFits ==
  ASSUME NEW result, NEW list, MadeFrom(result, list), NEW room \in Nat
  PROVE  /\ MadeFrom(Cut(result, room), list)
         /\ Len(Cut(result, room).proxies) \in 0 .. room
         /\ Cut(result, room) = result \/ Len(Cut(result, room).proxies) = room
<1>1. result \in Results /\ result.proxies \in Seq(Proxies) /\ Len(result.proxies) \in Nat
  BY DEF MadeFrom, Results
<1>2. CASE Len(result.proxies) > room
  <2>1. SubSeq(result.proxies, 1, room) \in Seq(Proxies) /\ Len(SubSeq(result.proxies, 1, room)) = room
    BY <1>1, <1>2
  <2>2. Cut(result, room) = [result EXCEPT !.proxies = SubSeq(result.proxies, 1, room), !.partial = TRUE]
    BY <1>2 DEF Cut
  <2>3. /\ Cut(result, room) \in Results /\ Cut(result, room).partial
        /\ Cut(result, room).proxies = SubSeq(result.proxies, 1, room)
    BY <1>1, <2>1, <2>2 DEF Results
  <2> QED
    BY <2>1, <2>3 DEF MadeFrom
<1>3. CASE ~(Len(result.proxies) > room)
  BY <1>1, <1>3 DEF Cut
<1> QED
  BY <1>2, <1>3

LEMMA MergeLists ==
  ASSUME SlotsInv, ListsInv, Merge
  PROVE  ListsInv'
<1> DEFINE cut == Cut(results[next], remaining)
<1>1. /\ Kept /\ Shared /\ pc = "merge" /\ next \in Sources /\ next \in Nat \ {0} /\ ~taken
      /\ DOMAIN results = Sources /\ DOMAIN answered = Sources
      /\ results' = [results EXCEPT ![next] = cut]
      /\ next' = next + 1 /\ pc' = IF next = NumSources THEN "returned" ELSE "merge"
      /\ remaining \in Nat /\ remaining <= TotalCandidates /\ TotalCandidates \in Nat /\ NumSources \in Nat
      /\ UNCHANGED <<cache, cancelled, taken, answered>>
  BY FPLAssumption DEF Merge, SlotsInv, Filling, AllFilled, Sources, ListsInv, Kept, Shared, FPLAssumption
<1>2. results'[next] = cut /\ \A s \in Sources : s # next => results'[s] = results[s]
  BY <1>1
<1>3. remaining' = remaining - Len(cut.proxies)
  BY <1>2 DEF Merge
<1>4. MadeFrom(results[next], answered[next]) /\ (AtLimit(results[next]) \/ remaining = 0)
  BY <1>1 DEF Kept, Shared
<1>5. /\ MadeFrom(cut, answered[next])
      /\ Len(cut.proxies) \in 0 .. remaining
      /\ cut = results[next] \/ Len(cut.proxies) = remaining
  BY <1>1, <1>4, CutFits
<1> HIDE DEF cut
<1>6. Kept'
  BY <1>1, <1>2, <1>5 DEF Kept, Sources
<1>7. remaining' \in 0 .. TotalCandidates /\ (remaining = 0 => remaining' = 0)
  BY <1>1, <1>3, <1>5
<1>8. \A s \in Sources : AtLimit(results'[s]) \/ remaining' = 0
  <2>1. AtLimit(cut) \/ remaining' = 0
    BY <1>1, <1>3, <1>4, <1>5, <1>7
  <2> QED
    BY <1>1, <1>2, <1>7, <2>1 DEF Shared
<1>9. Spent(results', next) = TotalCandidates - remaining'
  <2>1. \A s \in 1 .. next : Len(results'[s].proxies) \in Nat
    BY <1>1, <1>6 DEF Kept, Sources, MadeFrom, Results
  <2>2. \A s \in 1 .. next - 1 : results[s] = results'[s]
    BY <1>1, <1>2 DEF Sources
  <2>3. Spent(results', next) = Spent(results, next - 1) + Len(cut.proxies)
    <3>1. next \in Nat /\ next > 0
      BY <1>1
    <3>2. Spent(results', next) = Spent(results, next - 1) + Len(results'[next].proxies)
      BY <2>1, <2>2, <3>1, SpentNext
    <3> QED
      BY <1>2, <3>2
  <2> QED
    BY <1>1, <1>3, <1>5, <2>3 DEF Shared
<1>10. Shared'
  BY <1>1, <1>7, <1>8, <1>9 DEF Shared, Sources
<1> QED
  BY <1>6, <1>10 DEF ListsInv

LEMMA CollectLists ==
  ASSUME SlotsInv, ListsInv,
         Begin \/ (\E w \in Workers : Offer(w)) \/ Abandon \/ Waited \/ UseRound \/ Cancel \/ UNCHANGED vars
  PROVE  ListsInv'
<1>0. /\ Kept /\ Shared /\ Filling /\ Sources' = Sources
      /\ TotalCandidates \in 0 .. TotalCandidates /\ TotalCandidates - TotalCandidates = 0
      /\ NumSources \in Nat \ {0}
  BY FPLAssumption DEF SlotsInv, ListsInv, Sources, FPLAssumption
<1>1. CASE Begin
  <2>1. /\ results' = Blank /\ answered' = [s \in Sources |-> <<>>] /\ remaining' = TotalCandidates
        /\ UNCHANGED <<cache, cancelled>> /\ ~taken'
        /\ pc' = "offer" \/ (pc' = "returned" /\ cancelled)
    BY <1>1 DEF Begin, Return
  <2>2. \A s \in Sources : results'[s] = Unfilled /\ answered'[s] = <<>>
    BY <2>1 DEF Blank
  <2>3. Kept'
    BY <1>0, <2>1, <2>2, NothingMade DEF Kept
  <2>4. Shared'
    BY <1>0, <2>1, <2>2, NothingMade DEF Shared
  <2> QED
    BY <2>3, <2>4 DEF ListsInv
<1>2. CASE \E w \in Workers : Offer(w)
  BY <1>0, <1>2 DEF Offer, ListsInv, Kept, Shared, Filling
<1>3. CASE Abandon
  BY <1>0, <1>3 DEF Abandon, ListsInv, Kept, Shared, Filling
<1>4. CASE Waited
  <2>1. Kept'
    BY <1>0, <1>4 DEF Waited, Return, Kept
  <2>2. Shared'
    <3>1. CASE cancelled
      BY <1>0, <1>4, <3>1 DEF Waited, Return, Shared, Filling
    <3>2. CASE ~cancelled
      <4>1. Spent(results, 0) = 0
        BY SpentNext
      <4> QED
        BY <1>0, <1>4, <3>2, <4>1 DEF Waited, Shared, Filling
    <3> QED
      BY <3>1, <3>2
  <2> QED
    BY <2>1, <2>2 DEF ListsInv
<1>5. CASE UseRound
  BY <1>0, <1>5 DEF UseRound, ListsInv, Kept, Shared, Filling
<1>6. CASE Cancel
  BY <1>0, <1>6 DEF Cancel, collectVars, ListsInv, Kept, Shared, Filling
<1>7. CASE UNCHANGED vars
  BY <1>0, <1>7 DEF vars, collectVars, ListsInv, Kept, Shared
<1> QED
  BY <1>1, <1>2, <1>3, <1>4, <1>5, <1>6, <1>7

LEMMA ListsInvariant == Spec => []ListsInv
<1>1. ASSUME SlotsInv, ListsInv, [Next]_vars PROVE ListsInv'
  <2>1. ASSUME NEW w \in Workers, Work(w) PROVE ListsInv'
    BY <1>1, <2>1, WorkLists
  <2>2. CASE Merge
    BY <1>1, <2>2, MergeLists
  <2>3. CASE Begin \/ (\E w \in Workers : Offer(w)) \/ Abandon \/ Waited \/ UseRound \/ Cancel \/ UNCHANGED vars
    BY <1>1, <2>3, CollectLists
  <2> QED
    BY <1>1, <2>1, <2>2, <2>3 DEF Next, Collect
<1> QED
  BY <1>1, InitLists, SlotsInvariant, PTL DEF Spec

(* A result without a mark holds every proxy of the list the server had    *)
(* when it answered, fetched now or repeated from the cache on a 304.      *)
THEOREM UnmarkedListsAreWhole == Spec => []CompleteIsWhole
<1>1. SlotsInv /\ ListsInv => CompleteIsWhole
  BY DEF SlotsInv, Filling, AllFilled, ListsInv, Kept, MadeFrom, Complete, CompleteIsWhole
<1> QED
  BY <1>1, SlotsInvariant, ListsInvariant, PTL

(* The sources share one budget: never passed, and no list cut by it while *)
(* some of it is unspent.                                                  *)
THEOREM BudgetShared == Spec => []BudgetHolds
<1>1. ASSUME SlotsInv, ListsInv, taken PROVE BudgetHolds
  <2>1. /\ DOMAIN results = Sources /\ remaining \in 0 .. TotalCandidates
        /\ Spent(results, NumSources) = TotalCandidates - remaining
        /\ \A s \in Sources : AtLimit(results[s]) \/ remaining = 0
        /\ TotalCandidates \in Nat
    BY <1>1, FPLAssumption DEF SlotsInv, Filling, AllFilled, ListsInv, Shared, FPLAssumption
  <2>2. FoldLeft(LAMBDA n, s : n + Imported(s), 0, [s \in Sources |-> s]) = Spent(results, NumSources)
    BY DEF Spent, Imported, Sources
  <2> DEFINE used == FoldLeft(LAMBDA n, s : n + Imported(s), 0, [s \in Sources |-> s])
  <2>3. used = TotalCandidates - remaining
    BY <2>1, <2>2
  <2> HIDE DEF used
  <2>4. /\ used <= TotalCandidates
        /\ used < TotalCandidates => \A s \in Sources : results[s].partial => Imported(s) = MaxCandidates
    BY <2>1, <2>3 DEF AtLimit, Imported
  <2> QED
    BY <2>4 DEF BudgetHolds, used
<1>2. SlotsInv /\ ListsInv => BudgetHolds
  BY <1>1 DEF BudgetHolds
<1> QED
  BY <1>2, SlotsInvariant, ListsInvariant, PTL
=============================================================================
