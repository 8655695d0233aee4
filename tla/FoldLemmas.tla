----------------------------- MODULE FoldLemmas -----------------------------
(***************************************************************************)
(* What the proofs about loops over a list, an answer or a page rest on:   *)
(* induction over the naturals, stated with sets, and the table behind     *)
(* FoldLeft, stated with functions, so that first-order provers can        *)
(* instantiate both.                                                       *)
(***************************************************************************)
EXTENDS SequencesExt, FiniteSetTheorems, TLAPS

(* A set with 0 that is closed under successor has every natural number:   *)
(* below a number it lacks, successor would inject a finite set into a     *)
(* smaller one.                                                            *)
LEMMA Induction ==
  ASSUME NEW P, 0 \in P, \A n \in Nat : n \in P => n + 1 \in P
  PROVE  \A n \in Nat : n \in P
<1> SUFFICES ASSUME NEW m \in Nat, m \notin P PROVE FALSE
  OBVIOUS
<1> DEFINE A == {n \in 0 .. m : n \in P}
           next == [n \in A |-> n + 1]
<1>1. IsFiniteSet(A)
  <2>1. IsFiniteSet(0 .. m) /\ A \subseteq 0 .. m
    BY FS_Interval
  <2> HIDE DEF A
  <2> QED
    BY <2>1, FS_Subset
<1>2. 0 \in A /\ next \in [A -> A \ {0}]
  <2>1. \A n \in A : n + 1 \in A \ {0}
    OBVIOUS
  <2> QED
    BY <2>1
<1>3. IsFiniteSet(A \ {0}) /\ Cardinality(A \ {0}) < Cardinality(A)
  <2> HIDE DEF A, next
  <2>1. Cardinality(A) \in Nat
    BY <1>1, FS_CardinalityType
  <2>2. IsFiniteSet(A \ {0}) /\ Cardinality(A \ {0}) = Cardinality(A) - 1
    BY <1>1, <1>2, FS_RemoveElement
  <2> QED
    BY <2>1, <2>2
<1>4. PICK x, y \in A : x # y /\ next[x] = next[y]
  <2> HIDE DEF A, next
  <2> QED
    BY <1>1, <1>2, <1>3, FS_PigeonHole
<1> QED
  BY <1>4

(* The same for the steps of a loop that ends after n of them.             *)
LEMMA InductionUpTo ==
  ASSUME NEW n \in Nat, NEW P, 0 \in P, \A m \in 1 .. n : m - 1 \in P => m \in P
  PROVE  \A m \in 0 .. n : m \in P
<1> DEFINE Q == {m \in Nat : m <= n => m \in P}
<1>1. 0 \in Q
  OBVIOUS
<1>2. ASSUME NEW m \in Nat, m \in Q PROVE m + 1 \in Q
  <2> SUFFICES ASSUME m + 1 <= n PROVE m + 1 \in P
    OBVIOUS
  <2>1. m + 1 \in 1 .. n /\ (m + 1) - 1 \in P
    BY <1>2
  <2> QED
    BY <2>1
<1>3. \A m \in Nat : m \in Q
  <2> HIDE DEF Q
  <2> QED
    BY <1>1, <1>2, Induction
<1> QED
  BY <1>3

-----------------------------------------------------------------------------
(* Some set of numbers up to n, if it has any, has a largest.              *)
LEMMA LargestExists ==
  ASSUME NEW n \in Nat, NEW s \in SUBSET (1 .. n), s # {}
  PROVE  Max(s) \in s /\ \A i \in s : Max(s) >= i
<1> DEFINE Holds(m) == \A r \in SUBSET (1 .. m) : r # {} => \E x \in r : \A y \in r : x >= y
           P == {m \in 0 .. n : Holds(m)}
<1>1. 0 \in P
  <2>1. Holds(0)
    <3>1. \A r \in SUBSET (1 .. 0) : r = {}
      OBVIOUS
    <3> QED
      BY <3>1
  <2> HIDE DEF Holds
  <2> QED
    BY <2>1
<1>2. ASSUME NEW m \in 1 .. n, m - 1 \in P PROVE m \in P
  <2> SUFFICES ASSUME NEW r \in SUBSET (1 .. m), r # {} PROVE \E x \in r : \A y \in r : x >= y
    OBVIOUS
  <2>1. CASE m \in r
    BY <2>1
  <2>2. CASE m \notin r
    <3>1. r \in SUBSET (1 .. m - 1)
      BY <2>2
    <3> QED
      BY <1>2, <3>1
  <2> QED
    BY <2>1, <2>2
<1>3. n \in P
  <2> HIDE DEF P
  <2> QED
    BY <1>1, <1>2, InductionUpTo
<1>4. \E x \in s : \A y \in s : x >= y
  BY <1>3
<1> QED
  BY <1>4 DEF Max

LEMMA LargestUpTo ==
  ASSUME NEW n \in Nat \ {0}
  PROVE  Max(1 .. n) = n /\ (1 .. n) \ {n} = 1 .. n - 1
<1>1. Max(1 .. n) \in 1 .. n /\ \A i \in 1 .. n : Max(1 .. n) >= i
  <2>1. 1 .. n # {} /\ 1 .. n \in SUBSET (1 .. n)
    OBVIOUS
  <2> QED
    BY <2>1, LargestExists
<1>2. n \in 1 .. n
  OBVIOUS
<1> QED
  BY <1>1, <1>2

(* The bodies of a loop over positions 1 .. n, the state of the loop in A. *)
Steps(n, A) == [(1 .. n) \X A -> A]

(* The table FoldLeft chooses has an entry for each set of positions, the  *)
(* largest position last; a trace has the states of the loop.              *)
IsTable(table, n, A, base, step) ==
  /\ table[{}] = base
  /\ \A s \in SUBSET (1 .. n) : s # {} /\ table[s \ {Max(s)}] \in A =>
       table[s] = step[<<Max(s), table[s \ {Max(s)}]>>]

IsTrace(t, n, base, step) == t[0] = base /\ \A i \in 1 .. n : t[i] = step[<<i, t[i - 1]>>]

LEMMA FoldTable ==
  ASSUME NEW n \in Nat, NEW A, NEW base \in A, NEW step \in Steps(n, A)
  PROVE  \E table \in [SUBSET (1 .. n) -> A] : IsTable(table, n, A, base, step)
<1> USE DEF Steps
<1> DEFINE Table(m, g) ==
             /\ g[{}] = base
             /\ \A s \in SUBSET (1 .. m) : s # {} => g[s] = step[<<Max(s), g[s \ {Max(s)}]>>]
           Exists(m) == \E g \in [SUBSET (1 .. m) -> A] : Table(m, g)
           P == {m \in 0 .. n : Exists(m)}
<1>1. 0 \in P
  <2> DEFINE g == [s \in SUBSET (1 .. 0) |-> base]
  <2>1. g \in [SUBSET (1 .. 0) -> A] /\ Table(0, g)
    <3>1. SUBSET (1 .. 0) = {{}}
      OBVIOUS
    <3> QED
      BY <3>1
  <2>2. Exists(0)
    <3> HIDE DEF g, Table
    <3> QED
      BY <2>1
  <2> HIDE DEF Exists
  <2> QED
    BY <2>2
<1>2. ASSUME NEW m \in 1 .. n, m - 1 \in P PROVE m \in P
  <2>1. PICK g \in [SUBSET (1 .. m - 1) -> A] : Table(m - 1, g)
    BY <1>2
  <2> DEFINE h == [s \in SUBSET (1 .. m) |-> IF m \in s THEN step[<<m, g[s \ {m}]>>] ELSE g[s]]
  <2>2. ASSUME NEW s \in SUBSET (1 .. m), m \in s
        PROVE  Max(s) = m /\ s \ {m} \in SUBSET (1 .. m - 1) /\ h[s] = step[<<m, h[s \ {m}]>>] /\ h[s] \in A
    <3>1. Max(s) \in s /\ \A i \in s : Max(s) >= i
      <4>1. m \in Nat /\ s # {}
        BY <2>2
      <4> QED
        BY <4>1, LargestExists
    <3>2. Max(s) = m /\ s \ {m} \in SUBSET (1 .. m - 1)
      <4>1. Max(s) >= m /\ Max(s) \in 1 .. m
        BY <2>2, <3>1
      <4> QED
        BY <4>1
    <3>3. h[s \ {m}] = g[s \ {m}] /\ g[s \ {m}] \in A
      BY <2>1, <3>2
    <3> QED
      BY <2>2, <3>2, <3>3
  <2>3. ASSUME NEW s \in SUBSET (1 .. m), m \notin s
        PROVE  h[s] = g[s] /\ h[s] \in A /\ (s # {} => h[s] = step[<<Max(s), h[s \ {Max(s)}]>>])
    <3>1. s \in SUBSET (1 .. m - 1) /\ s \ {Max(s)} \in SUBSET (1 .. m) /\ m \notin s \ {Max(s)}
      <4>1. \A i \in s : i \in 1 .. m - 1
        BY <2>3
      <4> QED
        BY <2>3, <4>1
    <3>2. h[s] = g[s] /\ h[s \ {Max(s)}] = g[s \ {Max(s)}]
      BY <2>3, <3>1
    <3> QED
      BY <2>1, <3>1, <3>2
  <2>4. h \in [SUBSET (1 .. m) -> A]
    <3> SUFFICES ASSUME NEW s \in SUBSET (1 .. m)
                 PROVE  (IF m \in s THEN step[<<m, g[s \ {m}]>>] ELSE g[s]) \in A
      OBVIOUS
    <3> QED
      BY <2>2, <2>3
  <2>5. Table(m, h)
    <3>1. {} \in SUBSET (1 .. m) /\ m \notin {}
      OBVIOUS
    <3>2. h[{}] = g[{}]
      BY <3>1
    <3> HIDE DEF h
    <3> QED
      BY <2>1, <2>2, <2>3, <3>2
  <2>6. Exists(m)
    <3> HIDE DEF h, Table
    <3> QED
      BY <2>4, <2>5
  <2> HIDE DEF Exists
  <2> QED
    BY <2>6
<1>3. n \in P
  <2> HIDE DEF P
  <2> QED
    BY <1>1, <1>2, InductionUpTo
<1> QED
  BY <1>3 DEF IsTable

(* Along the sets 1 .. i such a table is what a loop computes.             *)
LEMMA TableTrace ==
  ASSUME NEW n \in Nat, NEW A, NEW base \in A, NEW step \in Steps(n, A),
         NEW table, IsTable(table, n, A, base, step)
  PROVE  \E t \in [0 .. n -> A] : IsTrace(t, n, base, step) /\ t[n] = table[1 .. n]
<1> DEFINE t == [i \in 0 .. n |-> table[1 .. i]]
           P == {i \in 0 .. n : t[i] \in A}
<1>1. t[0] = base
  <2>1. 1 .. 0 = {} /\ 0 \in 0 .. n
    OBVIOUS
  <2> QED
    BY <2>1 DEF IsTable
<1>2. ASSUME NEW i \in 1 .. n, t[i - 1] \in A
      PROVE  t[i] = step[<<i, t[i - 1]>>] /\ t[i] \in A
  <2>1. i \in 1 .. i /\ i \in 0 .. n /\ i - 1 \in 0 .. n /\ 1 .. i \in SUBSET (1 .. n)
    OBVIOUS
  <2>2. Max(1 .. i) = i /\ (1 .. i) \ {i} = 1 .. i - 1
    BY LargestUpTo
  <2>3. table[1 .. i - 1] \in A
    BY <1>2, <2>1
  <2>4. table[1 .. i] = step[<<i, table[1 .. i - 1]>>]
    BY <2>1, <2>2, <2>3 DEF IsTable
  <2> QED
    BY <2>1, <2>3, <2>4 DEF Steps
<1>3. \A i \in 0 .. n : i \in P
  <2>1. 0 \in P
    BY <1>1
  <2>2. \A i \in 1 .. n : i - 1 \in P => i \in P
    <3> SUFFICES ASSUME NEW i \in 1 .. n, t[i - 1] \in A PROVE t[i] \in A
      OBVIOUS
    <3> QED
      BY <1>2
  <2> HIDE DEF P
  <2> QED
    BY <2>1, <2>2, InductionUpTo
<1>4. t \in [0 .. n -> A] /\ t[n] = table[1 .. n]
  BY <1>3
<1>5. \A i \in 1 .. n : t[i] = step[<<i, t[i - 1]>>]
  <2> TAKE i \in 1 .. n
  <2>1. i - 1 \in 0 .. n
    OBVIOUS
  <2> QED
    BY <1>2, <1>4, <2>1
<1> HIDE DEF t
<1> QED
  BY <1>1, <1>4, <1>5 DEF IsTrace

-----------------------------------------------------------------------------
(* The elements of a sequence as a loop meets them.                        *)
FirstOf(seq, m) == {seq[i] : i \in 1 .. m}

LEMMA FirstOfNext ==
  ASSUME NEW S, NEW seq \in Seq(S), NEW m \in 1 .. Len(seq)
  PROVE  FirstOf(seq, m) = FirstOf(seq, m - 1) \cup {seq[m]} /\ seq[m] \in S
<1>1. 1 .. m = (1 .. m - 1) \cup {m}
  OBVIOUS
<1> QED
  BY <1>1 DEF FirstOf

LEMMA FirstOfAll ==
  ASSUME NEW S, NEW seq \in Seq(S)
  PROVE  FirstOf(seq, 0) = {} /\ FirstOf(seq, Len(seq)) = ToSet(seq)
  BY DEF FirstOf, ToSet

LEMMA AppendSet ==
  ASSUME NEW S, NEW seq \in Seq(S), NEW e \in S
  PROVE  /\ Append(seq, e) \in Seq(S) /\ Len(Append(seq, e)) = Len(seq) + 1
         /\ ToSet(Append(seq, e)) = ToSet(seq) \cup {e}
<1>1. /\ Append(seq, e) \in Seq(S) /\ Len(Append(seq, e)) = Len(seq) + 1
      /\ DOMAIN seq = 1 .. Len(seq) /\ DOMAIN Append(seq, e) = 1 .. Len(seq) + 1 /\ Len(seq) \in Nat
      /\ \A i \in 1 .. Len(seq) : Append(seq, e)[i] = seq[i]
      /\ Append(seq, e)[Len(seq) + 1] = e
  OBVIOUS
<1>2. 1 .. Len(seq) + 1 = (1 .. Len(seq)) \cup {Len(seq) + 1}
  BY <1>1
<1> QED
  BY <1>1, <1>2 DEF ToSet
=============================================================================
