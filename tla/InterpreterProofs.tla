------------------------- MODULE InterpreterProofs -------------------------
(***************************************************************************)
(* What the interpreter keeps up, for every program, whatever the analysis *)
(* found in it and under every limit.  IInv says of the interpreter that   *)
(* runs and of each that waits: its tasks stand where they may stand and   *)
(* hold parts of the program (Ready), its depths are those of the tasks    *)
(* (Machine), and a worker began with what the one that waits has (Above). *)
(* First lemmas on sequences and tasks, then one per action.               *)
(***************************************************************************)
EXTENDS Interpreter, FiniteSetTheorems, SequenceTheorems, WellFoundedInduction,
        TLAPS

----------------------------------------------------------------------------
(* Sequences of anything *)

\* A sequence of anything has a length, and a first element unless it is empty.
LEMMA SequenceFacts ==
    ASSUME NEW s, IsSequence(s)
    PROVE  /\ Len(s) \in Nat
           /\ DOMAIN s = 1 .. Len(s)
           /\ s = <<>> <=> Len(s) = 0
           /\ s # <<>> => Head(s) = s[1]
<1>1. s \in Seq(Range(s))
  BY DEF IsSequence
<1> QED
  BY <1>1

\* A sequence over some set is a sequence.
LEMMA SequenceOver ==
    ASSUME NEW S, NEW s \in Seq(S)
    PROVE  IsSequence(s)
  BY SeqOfRange DEF IsSequence

\* Both belong to the sequences over the union of their ranges.
LEMMA Widen ==
    ASSUME NEW s, IsSequence(s), NEW S
    PROVE  s \in Seq(Range(s) \cup S)
  BY SeqMonotonic DEF IsSequence

\* Two sequences one behind the other.
LEMMA ConcatFacts ==
    ASSUME NEW s, IsSequence(s), NEW t, IsSequence(t)
    PROVE  /\ IsSequence(s \o t)
           /\ Len(s \o t) = Len(s) + Len(t)
           /\ \A k \in 1 .. Len(s) : (s \o t)[k] = s[k]
           /\ \A k \in 1 .. Len(t) : (s \o t)[Len(s) + k] = t[k]
<1> DEFINE S == Range(s) \cup Range(t)
<1>1. s \in Seq(S) /\ t \in Seq(S)
  BY Widen
<1> HIDE DEF S
<1>2. Len(s) \in Nat /\ Len(t) \in Nat
  BY <1>1
<1>3. /\ s \o t \in Seq(S) /\ Len(s \o t) = Len(s) + Len(t)
      /\ \A i \in 1 .. Len(s) + Len(t) : (s \o t)[i] =
            IF i <= Len(s) THEN s[i] ELSE t[i - Len(s)]
  BY <1>1, ConcatProperties
<1>4. IsSequence(s \o t)
  BY <1>3, SequenceOver
<1>5. ASSUME NEW k \in 1 .. Len(s) PROVE (s \o t)[k] = s[k]
  BY <1>2, <1>3
<1>6. ASSUME NEW k \in 1 .. Len(t) PROVE (s \o t)[Len(s) + k] = t[k]
  <2>1. Len(s) + k \in 1 .. Len(s) + Len(t) /\ ~(Len(s) + k <= Len(s))
        /\ Len(s) + k - Len(s) = k
    BY <1>2
  <2> QED
    BY <1>3, <2>1
<1> QED
  BY <1>3, <1>4, <1>5, <1>6

\* A sequence without its first n elements.
LEMMA DropFacts ==
    ASSUME NEW s, IsSequence(s), NEW n \in 0 .. Len(s)
    PROVE  /\ IsSequence(Drop(s, n))
           /\ Len(Drop(s, n)) = Len(s) - n
           /\ \A k \in 1 .. Len(s) - n : Drop(s, n)[k] = s[n + k]
<1>1. s \in Seq(Range(s)) /\ Len(s) \in Nat
  BY SequenceFacts DEF IsSequence
<1>2. \A k \in (n + 1) .. Len(s) : s[k] \in Range(s)
  BY <1>1, ElementOfSeq
<1> DEFINE m == n + 1
           d == SubSeq(s, m, Len(s))
<1>3. m \in Int /\ Len(s) \in Int
  BY <1>1
<1>4. \A k \in m .. Len(s) : s[k] \in Range(s)
  BY <1>2
<1> HIDE DEF m
<1>5. /\ d \in Seq(Range(s))
      /\ Len(d) = IF m <= Len(s) THEN Len(s) - m + 1 ELSE 0
      /\ \A k \in 1 .. Len(s) - m + 1 : d[k] = s[m + k - 1]
  BY <1>3, <1>4, SubSeqProperties
<1> HIDE DEF d
<1>6. IsSequence(d) /\ Len(d) = Len(s) - n
  BY <1>1, <1>5, SequenceOver DEF m
<1>7. ASSUME NEW k \in 1 .. Len(s) - n PROVE d[k] = s[n + k]
  <2>1. k \in 1 .. Len(s) - m + 1 /\ m + k - 1 = n + k
    BY <1>1 DEF m
  <2> QED
    BY <1>5, <2>1
<1>8. d = Drop(s, n)
  BY DEF d, m, Drop
<1> QED
  BY <1>6, <1>7, <1>8

\* Sequences with the same elements are the same.
LEMMA SameSequence ==
    ASSUME NEW s, IsSequence(s), NEW t, IsSequence(t), Len(s) = Len(t),
           \A k \in 1 .. Len(s) : s[k] = t[k]
    PROVE  s = t
<1> DEFINE S == Range(s) \cup Range(t)
<1>1. s \in Seq(S) /\ t \in Seq(S)
  BY Widen
<1> HIDE DEF S
<1> QED
  BY <1>1, SeqEqual

\* A sequence that is not empty, taken apart.
LEMMA TailFacts ==
    ASSUME NEW s, IsSequence(s), s # <<>>
    PROVE  /\ Tail(s) = Drop(s, 1)
           /\ IsSequence(Tail(s))
           /\ Len(Tail(s)) = Len(s) - 1
           /\ \A k \in 1 .. Len(s) - 1 : Tail(s)[k] = s[k + 1]
           /\ s = <<Head(s)>> \o Tail(s)
<1>1. s \in Seq(Range(s)) /\ Len(s) \in Nat \ {0}
  BY SequenceFacts DEF IsSequence
<1>2. Tail(s) = Drop(s, 1)
  BY <1>1, TailIsSubSeq DEF Drop
<1>3. /\ IsSequence(Tail(s)) /\ Len(Tail(s)) = Len(s) - 1
      /\ \A k \in 1 .. Len(s) - 1 : Tail(s)[k] = s[k + 1]
  <2>1. 1 \in 0 .. Len(s)
    BY <1>1
  <2> DEFINE d == Drop(s, 1)
  <2>2. /\ IsSequence(d) /\ Len(d) = Len(s) - 1
        /\ \A k \in 1 .. Len(s) - 1 : d[k] = s[1 + k]
    BY <2>1, DropFacts
  <2>3. Tail(s) = d
    BY <1>2
  <2>4. \A k \in 1 .. Len(s) - 1 : 1 + k = k + 1
    BY <1>1
  <2> HIDE DEF d
  <2> QED
    BY <2>2, <2>3, <2>4
<1>4. s = <<Head(s)>> \o Tail(s)
  BY <1>1
<1> QED
  BY <1>2, <1>3, <1>4

\* A sequence of one.
LEMMA SingleFacts ==
    ASSUME NEW t
    PROVE  IsSequence(<<t>>) /\ Len(<<t>>) = 1 /\ <<t>>[1] = t
<1>1. <<t>> \in Seq({t})
  OBVIOUS
<1> QED
  BY <1>1, SequenceOver

\* A sequence with one more element in front.
LEMMA ConsFacts ==
    ASSUME NEW t, NEW s, IsSequence(s)
    PROVE  /\ IsSequence(<<t>> \o s) /\ Len(<<t>> \o s) = 1 + Len(s)
           /\ (<<t>> \o s)[1] = t
           /\ \A k \in 1 .. Len(s) : (<<t>> \o s)[1 + k] = s[k]
<1> DEFINE w == <<t>>
<1>1. Len(w) = 1 /\ w[1] = t
  BY SingleFacts
<1>5. IsSequence(w)
  BY SingleFacts
<1> HIDE DEF w
<1>2. /\ IsSequence(w \o s) /\ Len(w \o s) = Len(w) + Len(s)
      /\ \A k \in 1 .. Len(w) : (w \o s)[k] = w[k]
      /\ \A k \in 1 .. Len(s) : (w \o s)[Len(w) + k] = s[k]
  BY <1>5, ConcatFacts
<1>3. 1 \in 1 .. Len(w)
  BY <1>1
<1>4. (w \o s)[1] = t
  BY <1>1, <1>2, <1>3
<1> QED
  BY <1>1, <1>2, <1>4 DEF w

\* A suffix of a concatenation.
LEMMA DropConcat ==
    ASSUME NEW s, IsSequence(s), NEW t, IsSequence(t)
    PROVE  /\ \A n \in 0 .. Len(s) : Drop(s \o t, n) = Drop(s, n) \o t
           /\ \A n \in 0 .. Len(t) : Drop(s \o t, Len(s) + n) = Drop(t, n)
<1> DEFINE st == s \o t
<1>1. /\ IsSequence(st) /\ Len(st) = Len(s) + Len(t)
      /\ \A k \in 1 .. Len(s) : st[k] = s[k]
      /\ \A k \in 1 .. Len(t) : st[Len(s) + k] = t[k]
  BY ConcatFacts
<1>2. Len(s) \in Nat /\ Len(t) \in Nat
  BY SequenceFacts
<1> HIDE DEF st
<1>3. ASSUME NEW n \in 0 .. Len(s)
      PROVE  Drop(st, n) = Drop(s, n) \o t
  <2> DEFINE r == Drop(s, n)
             u == Drop(st, n)
             v == r \o t
  <2>1. n \in 0 .. Len(st)
    BY <1>1, <1>2
  <2>2. /\ IsSequence(u) /\ Len(u) = Len(st) - n
        /\ \A k \in 1 .. Len(st) - n : u[k] = st[n + k]
    BY <1>1, <2>1, DropFacts
  <2>3. /\ IsSequence(r) /\ Len(r) = Len(s) - n
        /\ \A k \in 1 .. Len(s) - n : r[k] = s[n + k]
    BY DropFacts
  <2> HIDE DEF r, u
  <2>4. /\ IsSequence(v) /\ Len(v) = Len(r) + Len(t)
        /\ \A k \in 1 .. Len(r) : v[k] = r[k]
        /\ \A k \in 1 .. Len(t) : v[Len(r) + k] = t[k]
    <3>1. IsSequence(r)
      BY <2>3
    <3> QED
      BY <3>1, ConcatFacts
  <2> HIDE DEF v
  <2>5. ASSUME NEW k \in 1 .. Len(u) PROVE u[k] = v[k]
    <3>1. CASE k <= Len(s) - n
      <4>1. k \in 1 .. Len(r) /\ n + k \in 1 .. Len(s) /\ k \in 1 .. Len(st) - n
        BY <1>1, <1>2, <2>2, <2>3, <3>1
      <4> QED
        BY <1>1, <2>2, <2>3, <2>4, <4>1
    <3>2. CASE k > Len(s) - n
      <4> DEFINE j == k - Len(r)
      <4>1. /\ j \in 1 .. Len(t) /\ n + k = Len(s) + j /\ k = Len(r) + j
            /\ k \in 1 .. Len(st) - n
        BY <1>1, <1>2, <2>2, <2>3, <3>2
      <4> HIDE DEF j
      <4>2. u[k] = st[Len(s) + j]
        BY <2>2, <4>1
      <4>3. v[k] = t[j]
        BY <2>4, <4>1
      <4> QED
        BY <1>1, <4>1, <4>2, <4>3
    <3> QED
      BY <1>2, <2>2, <3>1, <3>2
  <2>6. Len(u) = Len(v)
    BY <1>1, <1>2, <2>2, <2>3, <2>4
  <2>7. u = v
    BY <2>2, <2>4, <2>5, <2>6, SameSequence, SMTT(30)
  <2> QED
    BY <2>7 DEF r, u, v
<1>4. ASSUME NEW n \in 0 .. Len(t)
      PROVE  Drop(st, Len(s) + n) = Drop(t, n)
  <2> DEFINE m == Len(s) + n
             u == Drop(st, m)
             v == Drop(t, n)
  <2>1. m \in 0 .. Len(st) /\ Len(st) - m = Len(t) - n
    BY <1>1, <1>2
  <2>2. /\ IsSequence(u) /\ Len(u) = Len(st) - m
        /\ \A k \in 1 .. Len(st) - m : u[k] = st[m + k]
    BY <1>1, <2>1, DropFacts
  <2>3. /\ IsSequence(v) /\ Len(v) = Len(t) - n
        /\ \A k \in 1 .. Len(t) - n : v[k] = t[n + k]
    BY DropFacts
  <2> HIDE DEF u, v
  <2>4. ASSUME NEW k \in 1 .. Len(u) PROVE u[k] = v[k]
    <3>1. n + k \in 1 .. Len(t) /\ m + k = Len(s) + (n + k)
      BY <1>2, <2>1, <2>2
    <3>2. u[k] = st[m + k] /\ v[k] = t[n + k]
      BY <2>1, <2>2, <2>3
    <3>3. st[Len(s) + (n + k)] = t[n + k]
      BY <1>1, <3>1
    <3> QED
      BY <3>1, <3>2, <3>3
  <2>5. u = v
    BY <2>1, <2>2, <2>3, <2>4, SameSequence
  <2> QED
    BY <2>5 DEF m, u, v
<1> QED
  BY <1>3, <1>4 DEF st

\* Elements dropped in two goes.
LEMMA DropDrop ==
    ASSUME NEW s, IsSequence(s), NEW m \in 0 .. Len(s), NEW n \in 0 .. Len(s) - m
    PROVE  Drop(Drop(s, m), n) = Drop(s, m + n)
<1> DEFINE r == Drop(s, m)
           u == Drop(r, n)
           mn == m + n
           v == Drop(s, mn)
<1>1. Len(s) \in Nat
  BY SequenceFacts
<1>2. /\ IsSequence(r) /\ Len(r) = Len(s) - m
      /\ \A k \in 1 .. Len(s) - m : r[k] = s[m + k]
  BY DropFacts
<1> HIDE DEF r
<1>3. n \in 0 .. Len(r) /\ mn \in 0 .. Len(s) /\ Len(s) - mn = Len(r) - n
  BY <1>1, <1>2
<1>4. /\ IsSequence(u) /\ Len(u) = Len(r) - n
      /\ \A k \in 1 .. Len(r) - n : u[k] = r[n + k]
  BY <1>2, <1>3, DropFacts
<1>5. /\ IsSequence(v) /\ Len(v) = Len(s) - mn
      /\ \A k \in 1 .. Len(s) - mn : v[k] = s[mn + k]
  BY <1>3, DropFacts
<1> HIDE DEF u, v
<1>6. ASSUME NEW k \in 1 .. Len(u) PROVE u[k] = v[k]
  <2>1. n + k \in 1 .. Len(s) - m /\ m + (n + k) = mn + k
    BY <1>1, <1>2, <1>4
  <2>2. u[k] = r[n + k] /\ v[k] = s[mn + k]
    BY <1>3, <1>4, <1>5
  <2> QED
    BY <1>2, <2>1, <2>2
<1>7. u = v
  BY <1>3, <1>4, <1>5, <1>6, SameSequence
<1> QED
  BY <1>7 DEF r, u, v, mn

----------------------------------------------------------------------------
(* Counting the open expressions and the calls of a control *)

Shifted(n, S) == {n + k : k \in S}
\* As many positions n places further on.
LEMMA ShiftFacts ==
    ASSUME NEW n \in Nat, NEW S \in SUBSET Nat, IsFiniteSet(S)
    PROVE  /\ IsFiniteSet(Shifted(n, S))
           /\ Cardinality(Shifted(n, S)) = Cardinality(S)
<1> DEFINE T == {n + k : k \in S}
           f == [k \in S |-> n + k]
<1>1. f \in [S -> T] /\ \A t \in T : \E k \in S : f[k] = t
  OBVIOUS
<1>2. \A j, k \in S : f[j] = f[k] => j = k
  OBVIOUS
<1>3. f \in Bijection(S, T)
  BY <1>1, <1>2 DEF Bijection, Injection, Surjection, IsInjective
<1>4. ExistsBijection(S, T)
  BY <1>3 DEF ExistsBijection
<1> HIDE DEF T, f
<1>5. IsFiniteSet(T) /\ Cardinality(T) = Cardinality(S)
  BY <1>4, FS_Bijection
<1> QED
  BY <1>5 DEF T, Shifted

\* Places in a concatenation: those in the first part, and those in the second
\* after all m of the first.
Places(m, S, T) == S \cup Shifted(m, T)
\* Positions in the first of two sequences, and positions in the second.
LEMMA PlacesFacts ==
    ASSUME NEW m \in Nat, NEW S \in SUBSET (1 .. m),
           NEW T \in SUBSET (Nat \ {0}), IsFiniteSet(T)
    PROVE  Cardinality(Places(m, S, T)) = Cardinality(S) + Cardinality(T)
<1>0. IsFiniteSet(1 .. m)
  BY FS_Interval
<1>1. IsFiniteSet(S) /\ IsFiniteSet(T)
  BY <1>0, FS_Subset
<1>2. IsFiniteSet(Shifted(m, T)) /\ Cardinality(Shifted(m, T)) = Cardinality(T)
  BY <1>1, ShiftFacts, Zenon
<1>3. S \cap Shifted(m, T) = {}
  BY DEF Shifted
<1>4. Cardinality(S \cap Shifted(m, T)) = 0
  BY <1>3, FS_EmptySet
<1>5. Cardinality(S) \in Nat /\ Cardinality(T) \in Nat
  BY <1>1, FS_CardinalityType
<1>6. Cardinality(Places(m, S, T))
          = Cardinality(S) + Cardinality(Shifted(m, T))
              - Cardinality(S \cap Shifted(m, T))
  BY <1>1, <1>2, FS_Union DEF Places
<1> QED
  BY <1>2, <1>4, <1>5, <1>6

ClosersIn(c) == {k \in DOMAIN c : c[k].task \in Closers}

\* Depths and calls are finite counts.
LEMMA CountFacts ==
    ASSUME NEW c, IsSequence(c)
    PROVE  /\ Depth(c) \in Nat /\ Cardinality(CallsIn(c)) \in Nat
           /\ IsFiniteSet(CallsIn(c)) /\ IsFiniteSet(ClosersIn(c))
<1>1. DOMAIN c = 1 .. Len(c) /\ Len(c) \in Nat
  BY SequenceFacts
<1>2. IsFiniteSet(DOMAIN c)
  BY <1>1, FS_Interval
<1>3. \A S \in SUBSET DOMAIN c : IsFiniteSet(S) /\ Cardinality(S) \in Nat
  BY <1>2, FS_Subset, FS_CardinalityType
<1> QED
  BY <1>3 DEF Depth, CallsIn, ClosersIn

\* Tasks without a call before others.
LEMMA DepthConcat ==
    ASSUME NEW p, IsSequence(p), NEW c, IsSequence(c),
           \A k \in DOMAIN p : p[k].task # "call"
    PROVE  Depth(p \o c) = Cardinality(ClosersIn(p)) + Depth(c)
<1> DEFINE pc == p \o c
           open(s) == {k \in DOMAIN s : /\ s[k].task \in Closers
                                        /\ \A j \in 1 .. k : s[j].task # "call"}
           m == Len(p)
           n == Len(c)
<1>1. /\ m \in Nat /\ DOMAIN p = 1 .. m /\ n \in Nat /\ DOMAIN c = 1 .. n
      /\ DOMAIN pc = 1 .. m + n
      /\ \A k \in 1 .. m : pc[k] = p[k]
      /\ \A k \in 1 .. n : pc[m + k] = c[k]
  BY ConcatFacts, SequenceFacts
<1>2. /\ ClosersIn(p) \in SUBSET (1 .. m)
      /\ open(c) \in SUBSET (Nat \ {0}) /\ IsFiniteSet(open(c))
  <2>1. open(c) \in SUBSET (1 .. n) /\ IsFiniteSet(1 .. n)
    BY <1>1, FS_Interval
  <2>2. IsFiniteSet(open(c))
    BY <2>1, FS_Subset
  <2> QED
    BY <1>1, <2>1, <2>2 DEF ClosersIn
<1> HIDE DEF pc, m, n
<1>3. open(pc) = ClosersIn(p) \cup {m + k : k \in open(c)}
  <2>1. ASSUME NEW k \in open(pc)
        PROVE  k \in ClosersIn(p) \cup {m + i : i \in open(c)}
    <3>1. CASE k \in 1 .. m
      BY <1>1, <3>1 DEF ClosersIn
    <3>2. CASE k \notin 1 .. m
      <4>1. PICK i \in 1 .. n : k = m + i
        <5>1. k \in 1 .. m + n /\ k - m \in 1 .. n /\ k = m + (k - m)
          BY <1>1, <3>2
        <5> QED
          BY <5>1
      <4>2. pc[k] = c[i]
        BY <1>1, <4>1
      <4>3. ASSUME NEW j \in 1 .. i PROVE c[j].task # "call"
        <5>1. j \in 1 .. n /\ m + j \in 1 .. k
          BY <1>1, <4>1
        <5>2. pc[m + j] = c[j] /\ pc[m + j].task # "call"
          BY <1>1, <5>1, <2>1
        <5> QED
          BY <5>2
      <4>4. c[i].task \in Closers
        BY <4>2, <2>1
      <4>5. i \in open(c)
        BY <1>1, <4>3, <4>4
      <4> QED
        BY <4>1, <4>5
    <3> QED
      BY <3>1, <3>2
  <2>2. ASSUME NEW k \in ClosersIn(p)
        PROVE  k \in open(pc)
    <3>1. k \in 1 .. m /\ p[k].task \in Closers
      BY <1>1 DEF ClosersIn
    <3>2. ASSUME NEW j \in 1 .. k PROVE pc[j].task # "call"
      <4>1. j \in 1 .. m
        BY <1>1, <3>1
      <4> QED
        BY <1>1, <4>1
    <3>3. k \in 1 .. m + n /\ pc[k] = p[k]
      BY <1>1, <3>1
    <3> QED
      BY <1>1, <3>1, <3>2, <3>3
  <2>3. ASSUME NEW i \in open(c)
        PROVE  m + i \in open(pc)
    <3>1. i \in 1 .. n /\ m + i \in 1 .. m + n /\ pc[m + i] = c[i]
      BY <1>1
    <3>2. ASSUME NEW j \in 1 .. m + i PROVE pc[j].task # "call"
      <4>1. CASE j \in 1 .. m
        BY <1>1, <4>1
      <4>2. CASE j \notin 1 .. m
        <5>1. j - m \in 1 .. i /\ j - m \in 1 .. n /\ j = m + (j - m)
          BY <1>1, <3>1, <4>2
        <5>2. pc[j] = c[j - m]
          BY <1>1, <5>1
        <5> QED
          BY <5>1, <5>2, <2>3
      <4> QED
        BY <4>1, <4>2
    <3> QED
      BY <1>1, <3>1, <3>2
  <2> QED
    BY <2>1, <2>2, <2>3
<1>4. Depth(pc) = Cardinality(open(pc)) /\ Depth(c) = Cardinality(open(c))
  BY DEF Depth
<1>5. open(pc) = Places(m, ClosersIn(p), open(c))
  BY <1>3 DEF Places, Shifted
<1>6. Cardinality(open(pc)) = Cardinality(ClosersIn(p)) + Cardinality(open(c))
  <2> DEFINE S == ClosersIn(p)
             T == open(c)
  <2>1. S \in SUBSET (1 .. m) /\ T \in SUBSET (Nat \ {0}) /\ IsFiniteSet(T) /\ m \in Nat
    BY <1>1, <1>2
  <2> HIDE DEF S, T
  <2>2. Cardinality(Places(m, S, T)) = Cardinality(S) + Cardinality(T)
    BY <2>1, PlacesFacts
  <2> QED
    BY <1>5, <2>2 DEF S, T
<1> QED
  BY <1>4, <1>6 DEF pc

\* The calls of two sequences of tasks are counted one by one.
LEMMA CallsConcat ==
    ASSUME NEW p, IsSequence(p), NEW c, IsSequence(c)
    PROVE  Cardinality(CallsIn(p \o c))
               = Cardinality(CallsIn(p)) + Cardinality(CallsIn(c))
<1> DEFINE pc == p \o c
           m == Len(p)
           n == Len(c)
<1>1. /\ m \in Nat /\ DOMAIN p = 1 .. m /\ n \in Nat /\ DOMAIN c = 1 .. n
      /\ DOMAIN pc = 1 .. m + n
      /\ \A k \in 1 .. m : pc[k] = p[k]
      /\ \A k \in 1 .. n : pc[m + k] = c[k]
  BY ConcatFacts, SequenceFacts
<1>2. IsFiniteSet(CallsIn(c))
  BY CountFacts
<1> HIDE DEF pc, m, n
<1>4. CallsIn(p) \in SUBSET (1 .. m) /\ CallsIn(c) \in SUBSET (Nat \ {0})
  BY <1>1 DEF CallsIn
<1>3. CallsIn(pc) = CallsIn(p) \cup {m + k : k \in CallsIn(c)}
  <2>1. ASSUME NEW k \in CallsIn(pc)
        PROVE  k \in CallsIn(p) \cup {m + i : i \in CallsIn(c)}
    <3>1. CASE k \in 1 .. m
      BY <1>1, <3>1 DEF CallsIn
    <3>2. CASE k \notin 1 .. m
      <4>1. k \in 1 .. m + n /\ k - m \in 1 .. n /\ k = m + (k - m)
        BY <1>1, <3>2 DEF CallsIn
      <4>2. pc[k] = c[k - m]
        BY <1>1, <4>1
      <4>3. k - m \in CallsIn(c)
        BY <1>1, <4>1, <4>2 DEF CallsIn
      <4> QED
        BY <4>1, <4>3
    <3> QED
      BY <3>1, <3>2
  <2>2. ASSUME NEW k \in CallsIn(p) PROVE k \in CallsIn(pc)
    BY <1>1 DEF CallsIn
  <2>3. ASSUME NEW i \in CallsIn(c) PROVE m + i \in CallsIn(pc)
    <3>1. i \in 1 .. n /\ m + i \in 1 .. m + n /\ pc[m + i] = c[i]
      BY <1>1 DEF CallsIn
    <3> QED
      BY <1>1, <3>1 DEF CallsIn
  <2> QED
    BY <2>1, <2>2, <2>3
<1>5. CallsIn(pc) = Places(m, CallsIn(p), CallsIn(c))
  BY <1>3 DEF Places, Shifted
<1>6. Cardinality(CallsIn(pc)) = Cardinality(CallsIn(p)) + Cardinality(CallsIn(c))
  BY <1>1, <1>2, <1>4, <1>5, PlacesFacts
<1> QED
  BY <1>6 DEF pc

\* One task before others.
LEMMA OneTask ==
    ASSUME NEW t, NEW c, IsSequence(c)
    PROVE  /\ t.task \notin Closers \cup {"call"} => Depth(<<t>> \o c) = Depth(c)
           /\ t.task \in Closers => Depth(<<t>> \o c) = Depth(c) + 1
           /\ t.task = "call" => Depth(<<t>> \o c) = 0
           /\ Cardinality(CallsIn(<<t>> \o c))
                  = Cardinality(CallsIn(c)) + IF t.task = "call" THEN 1 ELSE 0
<1> DEFINE p == <<t>>
<1>1. IsSequence(p) /\ DOMAIN p = {1} /\ p[1] = t
  BY SingleFacts
<1>2. "call" \notin Closers
  BY DEF Closers, Composite
<1>3. Depth(c) \in Nat /\ Cardinality(CallsIn(c)) \in Nat
  BY CountFacts
<1>4. CallsIn(p) = (IF t.task = "call" THEN {1} ELSE {})
      /\ ClosersIn(p) = (IF t.task \in Closers THEN {1} ELSE {})
  BY <1>1 DEF CallsIn, ClosersIn
<1>5. Cardinality({1}) = 1 /\ Cardinality({}) = 0
  BY FS_Singleton, FS_EmptySet
<1>6. Cardinality(CallsIn(p \o c)) = Cardinality(CallsIn(p)) + Cardinality(CallsIn(c))
  BY <1>1, CallsConcat
<1>7. t.task # "call" => Depth(p \o c) = Cardinality(ClosersIn(p)) + Depth(c)
  BY <1>1, DepthConcat
<1>8. t.task = "call" => Depth(p \o c) = 0
  <2> SUFFICES ASSUME t.task = "call" PROVE Depth(p \o c) = 0
    OBVIOUS
  <2>1. (p \o c)[1] = t /\ DOMAIN (p \o c) = 1 .. Len(p \o c)
    BY <1>1, ConcatFacts, SequenceFacts
  <2>2. {k \in DOMAIN (p \o c) : /\ (p \o c)[k].task \in Closers
                                 /\ \A j \in 1 .. k : (p \o c)[j].task # "call"}
            = {}
    BY <2>1
  <2> QED
    BY <2>2, <1>5 DEF Depth
<1> HIDE DEF p
<1>9. /\ t.task \notin Closers \cup {"call"} => Depth(p \o c) = Depth(c)
      /\ t.task \in Closers => Depth(p \o c) = Depth(c) + 1
  BY <1>2, <1>3, <1>4, <1>5, <1>7
<1>10. Cardinality(CallsIn(p \o c))
           = Cardinality(CallsIn(c)) + IF t.task = "call" THEN 1 ELSE 0
  BY <1>3, <1>4, <1>5, <1>6
<1> QED
  BY <1>8, <1>9, <1>10 DEF p

----------------------------------------------------------------------------
(* The inductive invariant *)

\* What the tasks and functions of a program may hold.
Types == {NoType} \cup PrimitiveTypes \cup DOMAIN analysis.registry
Setting == [limits |-> limits, types |-> Types, parts |-> Parts(program)]

\* Where a task may stand: what is still to do behind it.
Frames == {"call", "worker", "program"}
StatementTasks ==
    {"statements", "Let", "Expression", "Match", "If", "For", "Parallel",
     "Return", "while", "test", "for", "batch", "worker", "program", "exit"}
Enclosed(rest) == \E k \in DOMAIN rest : rest[k].task \in Frames
Follows(rest, task) == rest # <<>> /\ rest[1].task = task
Placed(t, rest) ==
    /\ t.task \notin Frames \cup {"exit"} => Enclosed(rest)
    /\ t.task \in StatementTasks => Depth(rest) = 0
    /\ t.task = "program" => rest = <<>>
    /\ t.task = "call" => t.depth = Depth(rest)
    /\ t.task = "Let" => Follows(rest, "statements")
    /\ t.task = "field" => Follows(rest, "Construct") /\ rest[1].todo # <<>>
    /\ t.task = "test" => Follows(rest, "while")
Stacked(c) == \A j \in DOMAIN c : Placed(c[j], Drop(c, j))

\* What a task holds, in a worker (or not) that captured n bindings.
Holds(t, n, worker, g) ==
    /\ t.task \in {"evaluate"} \cup Composite => t.expr \in g.parts.exprs
    /\ t.task \in Composite => t.expr.kind = t.task
    /\ t.task = "Construct" =>
           /\ IsSequence(t.todo)
           /\ \A k \in DOMAIN t.todo : t.todo[k].value \in g.parts.exprs
    /\ t.task \in {"target", "select", "index"} =>
           /\ t.expr.value \in g.parts.exprs /\ IsSequence(t.path)
           /\ \A k \in DOMAIN t.path : /\ t.path[k] \in g.parts.exprs
                                       /\ t.path[k].kind \in {"Property", "Index"}
    /\ t.task = "target" => t.target \in g.parts.exprs
    /\ t.task = "select" => DOMAIN t = {"task", "expr", "env", "path", "place"}
    /\ t.task = "index" => t.path # <<>>
    /\ t.task \in {"load", "store"} => t.place.slot \notin 1 .. n
    /\ t.task = "statements" =>
           /\ DOMAIN t = {"task", "env", "todo"} /\ IsSequence(t.todo)
           /\ \A k \in DOMAIN t.todo :
                  /\ IsStatement(t.todo[k].statement, g.parts)
                  /\ t.todo[k].statement.kind = "Let" => t.todo[k].slot \notin 1 .. n
    /\ t.task = "Let" => t.slot \notin 1 .. n
    /\ t.task \in {"If", "Match"} => /\ IsStatement(t.statement, g.parts)
                                     /\ t.statement.kind = t.task
    /\ t.task \in {"For", "Parallel", "while", "for", "batch"} =>
           t.statement.body \in g.parts.bodies
    /\ t.task = "while" => t.statement.condition \in g.parts.exprs
    /\ t.task = "for" => DOMAIN t = {"task", "statement", "env", "values"}
    /\ t.task = "batch" =>
           /\ DOMAIN t = {"task", "statement", "env", "values", "jobs",
                          "outcomes", "faults"}
           /\ IsSequence(t.outcomes)
           /\ \A k \in DOMAIN t.outcomes : IsSequence(t.outcomes[k].output)
    /\ t.task = "call" => /\ t.depth \in 0 .. g.limits.expression_depth
                          /\ t.return_type \in g.types
    /\ t.task = "worker" => worker
Ready(c, n, worker, g) ==
    /\ IsSequence(c) /\ Stacked(c)
    /\ \A k \in DOMAIN c : Holds(c[k], n, worker, g)

Shape(i) ==
    DOMAIN i = {"bindings", "functions", "expression_depth", "call_stack",
                "captured_bindings", "in_parallel_worker", "return_type",
                "output", "control", "operands"}
\* All but what an interpreter has to do.
Base(i, g) ==
    /\ Shape(i)
    /\ IsSequence(i.bindings) /\ i.captured_bindings \in 0 .. Len(i.bindings)
    /\ \A id \in DOMAIN i.functions : /\ i.functions[id].returns \in g.types
                                      /\ i.functions[id].body \in g.parts.bodies
    /\ i.in_parallel_worker \in BOOLEAN
    /\ IsSequence(i.call_stack) /\ Len(i.call_stack) <= g.limits.call_depth
    /\ i.return_type \in g.types
    /\ IsSequence(i.output)
    /\ i.in_parallel_worker => Len(i.output) <= g.limits.parallel_output_bytes
Machine(i, g) ==
    /\ Base(i, g)
    /\ Ready(i.control, i.captured_bindings, i.in_parallel_worker, g)
    /\ i.expression_depth = Depth(i.control)
    /\ i.expression_depth \in 0 .. g.limits.expression_depth

\* The calls that an interpreter did not make itself.
Inherited(i) == Len(i.call_stack) - Cardinality(CallsIn(i.control))
\* A worker, and the interpreter that waits for it.
Joined(i, o) ==
    /\ i.captured_bindings = Len(o.bindings)
    /\ \A k \in 1 .. i.captured_bindings : i.bindings[k] = o.bindings[k]
    /\ Inherited(i) = Len(o.call_stack)
    /\ i.in_parallel_worker
Above(i, s) == IF s = <<>> THEN ~i.in_parallel_worker /\ Inherited(i) = 0
               ELSE Joined(i, s[1])
Waiting(o) == o.control # <<>> /\ o.control[1].task = "batch"

IInv ==
    /\ limits \in Limits /\ IsTree(program, Parts(program))
    /\ remaining_steps \in 0 .. limits.steps
    /\ result.status \in {"running", "rejected", "value", "error"}
    /\ IsSequence(outer)
    /\ Machine(interp, Setting) /\ Above(interp, outer)
    /\ \A k \in DOMAIN outer : /\ Machine(outer[k], Setting) /\ Waiting(outer[k])
                               /\ Above(outer[k], Drop(outer, k))

----------------------------------------------------------------------------
(* Pushing tasks and taking them away *)

\* Nothing to do is as it should be.
LEMMA EmptyFacts ==
    /\ IsSequence(<<>>) /\ Depth(<<>>) = 0 /\ CallsIn(<<>>) = {}
    /\ Cardinality({}) = 0
    /\ \A n, worker, g : Ready(<<>>, n, worker, g)
<1>1. IsSequence(<<>>) /\ DOMAIN <<>> = {}
  BY DEF IsSequence
<1>2. Cardinality({}) = 0
  BY FS_EmptySet
<1>3. Depth(<<>>) = 0 /\ CallsIn(<<>>) = {}
  BY <1>1, <1>2 DEF Depth, CallsIn
<1>4. ASSUME NEW n, NEW worker, NEW g PROVE Ready(<<>>, n, worker, g)
  BY <1>1 DEF Ready, Stacked
<1> QED
  BY <1>1, <1>2, <1>3, <1>4

\* Nothing dropped from a sequence, and nothing put before it.
LEMMA WithoutFront ==
    ASSUME NEW c, IsSequence(c)
    PROVE  Drop(c, 0) = c /\ <<>> \o c = c
<1>1. c \in Seq(Range(c)) /\ Len(c) \in Nat
  BY SequenceFacts DEF IsSequence
<1>2. <<>> \o c = c
  BY <1>1, ConcatEmptySeq
<1>3. /\ IsSequence(Drop(c, 0)) /\ Len(Drop(c, 0)) = Len(c)
      /\ \A k \in 1 .. Len(c) : Drop(c, 0)[k] = c[k]
  <2>1. 0 \in 0 .. Len(c)
    BY <1>1
  <2>2. /\ IsSequence(Drop(c, 0)) /\ Len(Drop(c, 0)) = Len(c) - 0
        /\ \A k \in 1 .. Len(c) - 0 : Drop(c, 0)[k] = c[0 + k]
    BY <2>1, DropFacts
  <2> QED
    BY <1>1, <2>2
<1>4. Drop(c, 0) = c
  BY <1>3, SameSequence
<1> QED
  BY <1>2, <1>4

\* What is to do after the first m tasks is as it should be.
LEMMA SuffixReady ==
    ASSUME NEW c, NEW n, NEW worker, NEW g, Ready(c, n, worker, g),
           NEW m \in 0 .. Len(c)
    PROVE  Ready(Drop(c, m), n, worker, g)
<1> DEFINE d == Drop(c, m)
<1>1. IsSequence(c)
  BY DEF Ready
<1>2. DOMAIN c = 1 .. Len(c) /\ Len(c) \in Nat
  BY <1>1, SequenceFacts
<1>3. /\ IsSequence(d) /\ Len(d) = Len(c) - m
      /\ \A k \in 1 .. Len(c) - m : d[k] = c[m + k]
  BY <1>1, DropFacts
<1>4. DOMAIN d = 1 .. Len(c) - m
  BY <1>3, SequenceFacts
<1>5. ASSUME NEW j \in DOMAIN d
      PROVE  Placed(d[j], Drop(d, j)) /\ Holds(d[j], n, worker, g)
  <2>1. j \in 0 .. Len(c) - m /\ m + j \in DOMAIN c /\ d[j] = c[m + j]
    BY <1>2, <1>3, <1>4
  <2>2. Drop(d, j) = Drop(c, m + j)
    BY <1>1, <2>1, DropDrop
  <2> QED
    BY <2>1, <2>2 DEF Ready, Stacked
<1> HIDE DEF d
<1>6. Ready(d, n, worker, g)
  BY <1>3, <1>5 DEF Ready, Stacked
<1> QED
  BY <1>6 DEF d

\* Tasks that fit before others may be put there.
LEMMA PushReady ==
    ASSUME NEW p, IsSequence(p), NEW c, NEW n, NEW worker, NEW g,
           Ready(c, n, worker, g),
           \A j \in DOMAIN p : /\ Placed(p[j], Drop(p, j) \o c)
                               /\ Holds(p[j], n, worker, g)
    PROVE  Ready(p \o c, n, worker, g)
<1> DEFINE pc == p \o c
           m == Len(p)
<1>1. IsSequence(c)
  BY DEF Ready
<1>2. /\ DOMAIN c = 1 .. Len(c) /\ Len(c) \in Nat
      /\ DOMAIN p = 1 .. m /\ m \in Nat
  BY <1>1, SequenceFacts
<1>3. /\ IsSequence(pc) /\ Len(pc) = m + Len(c)
      /\ \A k \in 1 .. m : pc[k] = p[k]
      /\ \A k \in 1 .. Len(c) : pc[m + k] = c[k]
  BY <1>1, ConcatFacts
<1>4. DOMAIN pc = 1 .. m + Len(c)
  BY <1>3, SequenceFacts
<1>5. /\ \A k \in 0 .. m : Drop(pc, k) = Drop(p, k) \o c
      /\ \A k \in 0 .. Len(c) : Drop(pc, m + k) = Drop(c, k)
  BY <1>1, DropConcat
<1> HIDE DEF pc, m
<1>6. ASSUME NEW j \in DOMAIN pc
      PROVE  Placed(pc[j], Drop(pc, j)) /\ Holds(pc[j], n, worker, g)
  <2>1. CASE j \in 1 .. m
    <3>1. j \in DOMAIN p /\ j \in 0 .. m
      BY <1>2, <2>1
    <3>2. pc[j] = p[j] /\ Drop(pc, j) = Drop(p, j) \o c
      BY <1>3, <1>5, <2>1, <3>1
    <3> QED
      BY <3>1, <3>2
  <2>2. CASE j \notin 1 .. m
    <3> DEFINE k == j - m
    <3>1. k \in 1 .. Len(c) /\ k \in DOMAIN c /\ j = m + k
      BY <1>2, <1>4, <2>2
    <3> HIDE DEF k
    <3>2. k \in 0 .. Len(c)
      BY <1>2, <3>1
    <3>3. pc[j] = c[k] /\ Drop(pc, j) = Drop(c, k)
      BY <1>3, <1>5, <3>1, <3>2
    <3> QED
      BY <3>1, <3>3 DEF Ready, Stacked
  <2> QED
    BY <2>1, <2>2
<1>7. Ready(pc, n, worker, g)
  BY <1>3, <1>6 DEF Ready, Stacked
<1> QED
  BY <1>7 DEF pc

\* So may one task.
LEMMA OneReady ==
    ASSUME NEW t, NEW c, NEW n, NEW worker, NEW g, Ready(c, n, worker, g),
           Placed(t, c), Holds(t, n, worker, g)
    PROVE  Ready(<<t>> \o c, n, worker, g)
<1> DEFINE p == <<t>>
<1>1. IsSequence(p) /\ Len(p) = 1 /\ p[1] = t /\ IsSequence(c)
  BY SingleFacts DEF Ready
<1>2. DOMAIN p = {1}
  OBVIOUS
<1> HIDE DEF p
<1>3. Drop(p, 1) \o c = c
  <2>1. 1 \in 0 .. Len(p) /\ 0 \in 0 .. Len(c) /\ Len(p) + 0 = 1
    BY <1>1, SequenceFacts
  <2>2. Drop(p \o c, 1) = Drop(p, 1) \o c
    BY <1>1, <2>1, DropConcat
  <2>3. \A k \in 0 .. Len(c) : Drop(p \o c, Len(p) + k) = Drop(c, k)
    BY <1>1, DropConcat
  <2>4. Drop(p \o c, Len(p) + 0) = Drop(c, 0)
    BY <2>1, <2>3
  <2>5. Drop(c, 0) = c
    BY <1>1, WithoutFront
  <2> QED
    BY <2>1, <2>2, <2>4, <2>5
<1>4. \A j \in DOMAIN p : /\ Placed(p[j], Drop(p, j) \o c)
                          /\ Holds(p[j], n, worker, g)
  BY <1>1, <1>2, <1>3
<1>5. Ready(p \o c, n, worker, g)
  BY <1>1, <1>4, PushReady
<1> QED
  BY <1>5 DEF p

\* What encloses tasks encloses those put before them.
LEMMA EnclosedConcat ==
    ASSUME NEW p, IsSequence(p), NEW c, IsSequence(c), Enclosed(c)
    PROVE  Enclosed(p \o c)
<1>1. PICK k \in DOMAIN c : c[k].task \in Frames
  BY DEF Enclosed
<1>2. /\ k \in 1 .. Len(c) /\ Len(c) \in Nat /\ Len(p) \in Nat
      /\ DOMAIN (p \o c) = 1 .. Len(p \o c)
  BY ConcatFacts, SequenceFacts
<1>3. Len(p \o c) = Len(p) + Len(c) /\ (p \o c)[Len(p) + k] = c[k]
  BY <1>2, ConcatFacts
<1> QED
  BY <1>1, <1>2, <1>3 DEF Enclosed

\* The operands of an expression, before its own task.
LEMMA OperandsReady ==
    ASSUME NEW p, IsSequence(p), NEW c, NEW n, NEW worker, NEW g,
           Ready(c, n, worker, g), Enclosed(c),
           \A j \in DOMAIN p : /\ p[j].task = "evaluate"
                               /\ p[j].expr \in g.parts.exprs
    PROVE  /\ Ready(p \o c, n, worker, g) /\ Depth(p \o c) = Depth(c)
           /\ Cardinality(CallsIn(p \o c)) = Cardinality(CallsIn(c))
           /\ Enclosed(p \o c)
<1>1. IsSequence(c) /\ DOMAIN p = 1 .. Len(p) /\ Len(p) \in Nat
  BY SequenceFacts DEF Ready
<1>2. \A t : t.task = "evaluate" =>
          t.task \notin Closers \cup StatementTasks \cup Frames \cup Composite
              \cup {"exit", "program", "call", "Let", "field", "test", "Construct",
                    "target", "select", "index", "load", "store", "statements",
                    "If", "Match", "For", "Parallel", "while", "for", "batch",
                    "worker"}
  BY DEF Closers, Composite, StatementTasks, Frames
<1>3. ASSUME NEW j \in DOMAIN p
      PROVE  Placed(p[j], Drop(p, j) \o c) /\ Holds(p[j], n, worker, g)
  <2>1. j \in 0 .. Len(p)
    BY <1>1
  <2>2. Enclosed(Drop(p, j) \o c)
    BY <1>1, <2>1, DropFacts, EnclosedConcat
  <2>3. Placed(p[j], Drop(p, j) \o c)
    BY <1>2, <2>2 DEF Placed
  <2>4. Holds(p[j], n, worker, g)
    BY <1>2 DEF Holds
  <2> QED
    BY <2>3, <2>4
<1>4. Ready(p \o c, n, worker, g)
  BY <1>3, PushReady
<1>5. \A j \in DOMAIN p : p[j].task \notin Closers \cup {"call"}
  BY <1>2
<1>6. ClosersIn(p) = {} /\ CallsIn(p) = {}
  BY <1>5 DEF ClosersIn, CallsIn
<1>7. Depth(c) \in Nat /\ Cardinality(CallsIn(c)) \in Nat
  BY <1>1, CountFacts
<1>8. Depth(p \o c) = Cardinality(ClosersIn(p)) + Depth(c)
  BY <1>1, <1>5, DepthConcat
<1>9. Cardinality(CallsIn(p \o c)) = Cardinality(CallsIn(p)) + Cardinality(CallsIn(c))
  BY <1>1, CallsConcat
<1>10. Enclosed(p \o c)
  BY <1>1, EnclosedConcat
<1> QED
  BY <1>4, <1>6, <1>7, <1>8, <1>9, <1>10, EmptyFacts

----------------------------------------------------------------------------
(* The next task *)

\* The next task and those behind it.
LEMMA TopReady ==
    ASSUME NEW c, NEW n, NEW worker, NEW g, Ready(c, n, worker, g), c # <<>>
    PROVE  /\ IsSequence(Tail(c)) /\ Ready(Tail(c), n, worker, g)
           /\ Head(c) = c[1] /\ c = <<c[1]>> \o Tail(c)
           /\ Placed(c[1], Tail(c)) /\ Holds(c[1], n, worker, g)
<1>1. IsSequence(c)
  BY DEF Ready
<1>2. /\ Tail(c) = Drop(c, 1) /\ IsSequence(Tail(c)) /\ Head(c) = c[1]
      /\ c = <<Head(c)>> \o Tail(c)
  BY <1>1, TailFacts, SequenceFacts
<1>3. 1 \in DOMAIN c /\ 1 \in 0 .. Len(c)
  BY <1>1, SequenceFacts
<1>4. Ready(Drop(c, 1), n, worker, g)
  BY <1>3, SuffixReady
<1>5. Placed(c[1], Drop(c, 1)) /\ Holds(c[1], n, worker, g)
  BY <1>3 DEF Ready, Stacked
<1> QED
  BY <1>2, <1>4, <1>5

\* The same task, holding something else.
LEMMA TopChanged ==
    ASSUME NEW c, NEW n, NEW worker, NEW g, Ready(c, n, worker, g), c # <<>>,
           NEW t, Holds(t, n, worker, g), t.task = c[1].task, t.task # "call"
    PROVE  /\ [c EXCEPT ![1] = t] = <<t>> \o Tail(c)
           /\ Ready(<<t>> \o Tail(c), n, worker, g)
           /\ Depth(<<t>> \o Tail(c)) = Depth(c)
           /\ Cardinality(CallsIn(<<t>> \o Tail(c))) = Cardinality(CallsIn(c))
<1> DEFINE r == Tail(c)
           u == [c EXCEPT ![1] = t]
           v == <<t>> \o r
<1>1. /\ IsSequence(r) /\ Ready(r, n, worker, g)
      /\ c = <<c[1]>> \o r /\ Placed(c[1], r) /\ IsSequence(c)
  BY TopReady DEF Ready
<1>2. Len(c) \in Nat \ {0} /\ DOMAIN c = 1 .. Len(c)
  BY <1>1, SequenceFacts
<1>3. /\ Len(r) = Len(c) - 1
      /\ \A k \in 1 .. Len(c) - 1 : r[k] = c[k + 1]
  BY <1>1, TailFacts
<1>4. u = v
  <2>1. IsSequence(u) /\ Len(u) = Len(c)
    <3>1. c \in Seq(Range(c) \cup {t})
      BY <1>1, Widen
    <3>2. t \in Range(c) \cup {t}
      OBVIOUS
    <3> DEFINE S == Range(c) \cup {t}
    <3> HIDE DEF S
    <3>3. c \in Seq(S) /\ t \in S
      BY <3>1, <3>2 DEF S
    <3>4. [c EXCEPT ![1] = t] \in Seq(S) /\ Len([c EXCEPT ![1] = t]) = Len(c)
      BY <3>3
    <3> QED
      BY <3>4, SequenceOver
  <2>3. /\ IsSequence(v) /\ Len(v) = 1 + Len(r) /\ v[1] = t
        /\ \A k \in 1 .. Len(r) : v[1 + k] = r[k]
    BY <1>1, ConsFacts
  <2> HIDE DEF r, v
  <2>4. ASSUME NEW k \in 1 .. Len(u) PROVE u[k] = v[k]
    <3>1. CASE k = 1
      BY <1>2, <2>1, <2>3, <3>1
    <3>2. CASE k # 1
      <4>1. k - 1 \in 1 .. Len(r) /\ k = 1 + (k - 1) /\ k \in DOMAIN c
        BY <1>2, <1>3, <2>1, <3>2
      <4>2. v[k] = r[k - 1] /\ r[k - 1] = c[k]
        BY <1>3, <2>3, <4>1
      <4> QED
        BY <3>2, <4>1, <4>2
    <3> QED
      BY <3>1, <3>2
  <2>5. Len(u) = Len(v)
    BY <1>2, <1>3, <2>1, <2>3
  <2> HIDE DEF u
  <2> QED
    BY <2>1, <2>3, <2>4, <2>5, SameSequence
<1>5. Placed(t, r)
  BY <1>1 DEF Placed, Frames
<1>6. Ready(v, n, worker, g)
  BY <1>1, <1>5, OneReady
<1> HIDE DEF r
<1>7. "call" \notin Closers
  BY DEF Closers, Composite
<1>8. Depth(v) = Depth(<<c[1]>> \o r)
  BY <1>1, OneTask
<1>9. Cardinality(CallsIn(v)) = Cardinality(CallsIn(<<c[1]>> \o r))
  BY <1>1, OneTask
<1> QED
  BY <1>1, <1>4, <1>6, <1>8, <1>9 DEF r

----------------------------------------------------------------------------
(* Steps *)

\* What a step of an interpreter leaves as it is for those that wait for it.
Kept(i, j, g) ==
    /\ Machine(j, g)
    /\ j.captured_bindings = i.captured_bindings
    /\ j.in_parallel_worker = i.in_parallel_worker
    /\ \A k \in 1 .. i.captured_bindings : j.bindings[k] = i.bindings[k]
    /\ Inherited(j) = Inherited(i)

\* Who waits for an interpreter does not notice what it keeps.
LEMMA KeptAbove ==
    ASSUME NEW i, NEW j, NEW g, NEW s, Above(i, s), Kept(i, j, g)
    PROVE  Above(j, s)
  BY DEF Above, Kept, Joined

\* A sequence with one more element at its end.
LEMMA Appended ==
    ASSUME NEW s, IsSequence(s), NEW t
    PROVE  /\ IsSequence(Append(s, t)) /\ Len(Append(s, t)) = Len(s) + 1
           /\ \A k \in 1 .. Len(s) : Append(s, t)[k] = s[k]
           /\ Append(s, t)[Len(s) + 1] = t
<1> DEFINE S == Range(s) \cup {t}
<1>1. s \in Seq(S) /\ t \in S
  BY Widen
<1> HIDE DEF S
<1>2. Append(s, t) \in Seq(S) /\ Len(s) \in Nat /\ DOMAIN s = 1 .. Len(s)
  BY <1>1
<1>3. IsSequence(Append(s, t))
  BY <1>2, SequenceOver
<1>4. /\ Len(Append(s, t)) = Len(s) + 1
      /\ \A k \in 1 .. Len(s) : Append(s, t)[k] = s[k]
      /\ Append(s, t)[Len(s) + 1] = t
  BY <1>1
<1> QED
  BY <1>3, <1>4

\* The first task holds something else; the rest is as before.
LEMMA TopKept ==
    ASSUME NEW o, NEW g, Machine(o, g), o.control # <<>>,
           NEW t, Holds(t, o.captured_bindings, o.in_parallel_worker, g),
           t.task = o.control[1].task, t.task # "call",
           NEW q, Shape(q), q.control = [o.control EXCEPT ![1] = t],
           q.bindings = o.bindings, q.functions = o.functions,
           q.expression_depth = o.expression_depth,
           q.call_stack = o.call_stack,
           q.captured_bindings = o.captured_bindings,
           q.in_parallel_worker = o.in_parallel_worker,
           q.return_type = o.return_type, q.output = o.output
    PROVE  Kept(o, q, g)
<1>1. Ready(o.control, o.captured_bindings, o.in_parallel_worker, g)
  BY DEF Machine
<1>2. /\ Ready(q.control, o.captured_bindings, o.in_parallel_worker, g)
      /\ Depth(q.control) = Depth(o.control)
      /\ Cardinality(CallsIn(q.control)) = Cardinality(CallsIn(o.control))
  <2> DEFINE c == o.control
             n == o.captured_bindings
             worker == o.in_parallel_worker
             v == <<t>> \o Tail(c)
  <2>1. Ready(c, n, worker, g) /\ c # <<>> /\ Holds(t, n, worker, g)
        /\ t.task = c[1].task
    BY <1>1
  <2> HIDE DEF c, n, worker
  <2>2. /\ [c EXCEPT ![1] = t] = v /\ Ready(v, n, worker, g)
        /\ Depth(v) = Depth(c)
        /\ Cardinality(CallsIn(v)) = Cardinality(CallsIn(c))
    BY <2>1, TopChanged
  <2> QED
    BY <2>2 DEF c, n, worker
<1>3. Base(q, g)
  BY DEF Base, Machine
<1>4. Machine(q, g)
  BY <1>2, <1>3 DEF Machine
<1> QED
  BY <1>2, <1>4 DEF Kept, Inherited

\* A batch that waits takes the outcome of a worker.
LEMMA OutcomeTaken ==
    ASSUME NEW o, NEW g, Machine(o, g), Waiting(o), NEW outcome,
           IsSequence(outcome.output)
    PROVE  Kept(o, [o EXCEPT !.control[1].outcomes = Append(@, outcome)], g)
<1> DEFINE t == o.control[1]
           u == [t EXCEPT !.outcomes = Append(@, outcome)]
           q == [o EXCEPT !.control[1].outcomes = Append(@, outcome)]
<1>1. /\ t.task = "batch" /\ Holds(t, o.captured_bindings, o.in_parallel_worker, g)
      /\ Shape(o) /\ IsSequence(o.control) /\ o.control # <<>>
  BY TopReady DEF Machine, Waiting, Base, Ready
<1>2. /\ DOMAIN t = {"task", "statement", "env", "values", "jobs", "outcomes",
                     "faults"}
      /\ IsSequence(t.outcomes) /\ t.statement.body \in g.parts.bodies
      /\ \A k \in DOMAIN t.outcomes : IsSequence(t.outcomes[k].output)
  BY <1>1 DEF Holds
<1>3. /\ u.task = "batch" /\ u.outcomes = Append(t.outcomes, outcome)
      /\ u.statement = t.statement /\ DOMAIN u = DOMAIN t
  BY <1>1, <1>2
<1>4. /\ IsSequence(u.outcomes)
      /\ \A k \in DOMAIN u.outcomes : IsSequence(u.outcomes[k].output)
  <2>1. /\ IsSequence(u.outcomes) /\ Len(u.outcomes) = Len(t.outcomes) + 1
        /\ \A k \in 1 .. Len(t.outcomes) : u.outcomes[k] = t.outcomes[k]
        /\ u.outcomes[Len(t.outcomes) + 1] = outcome
    BY <1>2, <1>3, Appended
  <2>2. /\ DOMAIN u.outcomes = 1 .. Len(u.outcomes) /\ Len(t.outcomes) \in Nat
        /\ DOMAIN t.outcomes = 1 .. Len(t.outcomes)
    BY <1>2, <2>1, SequenceFacts
  <2>3. ASSUME NEW k \in DOMAIN u.outcomes PROVE IsSequence(u.outcomes[k].output)
    <3>1. k \in 1 .. Len(t.outcomes) \/ k = Len(t.outcomes) + 1
      BY <2>1, <2>2
    <3> QED
      BY <1>2, <2>1, <2>2, <3>1
  <2> QED
    BY <2>1, <2>3
<1> HIDE DEF u
<1>5. Holds(u, o.captured_bindings, o.in_parallel_worker, g)
  BY <1>2, <1>3, <1>4 DEF Holds, Composite
<1>6. /\ Shape(q) /\ q.control = [o.control EXCEPT ![1] = u]
      /\ q.bindings = o.bindings /\ q.functions = o.functions
      /\ q.expression_depth = o.expression_depth
      /\ q.call_stack = o.call_stack
      /\ q.captured_bindings = o.captured_bindings
      /\ q.in_parallel_worker = o.in_parallel_worker
      /\ q.return_type = o.return_type /\ q.output = o.output
  BY <1>1 DEF Shape, u
<1> HIDE DEF q, t
<1>7. Kept(o, q, g)
  BY <1>1, <1>3, <1>5, <1>6, TopKept DEF t
<1> QED
  BY <1>7 DEF q

\* The batch that waits takes the outcome and runs on.
LEMMA OutcomeKeeps ==
    ASSUME IInv, outer # <<>>, NEW faults, Outcome(interp.output, faults),
           UNCHANGED Given, remaining_steps' \in 0 .. limits.steps
    PROVE  IInv'
<1> DEFINE o == outer[1]
           outcome == [output |-> interp.output, faults |-> faults]
<1>1. Setting' = Setting
  BY DEF Given, Setting, Types
<1>2. /\ Head(outer) = o /\ 1 \in DOMAIN outer
      /\ DOMAIN outer = 1 .. Len(outer) /\ Len(outer) \in Nat
  BY SequenceFacts DEF IInv
<1>3. /\ Machine(o, Setting) /\ Waiting(o) /\ Above(o, Drop(outer, 1))
      /\ IsSequence(outcome.output)
  BY <1>2 DEF IInv, Machine, Base
<1>4. Kept(o, interp', Setting)
  <2> HIDE DEF o
  <2>1. interp' = [o EXCEPT !.control[1].outcomes = Append(@, outcome)]
    BY <1>2 DEF Outcome
  <2> HIDE DEF outcome
  <2> QED
    BY <1>3, <2>1, OutcomeTaken
<1>5. /\ outer' = Drop(outer, 1) /\ IsSequence(outer')
      /\ Len(outer') = Len(outer) - 1
      /\ \A k \in 1 .. Len(outer) - 1 : outer'[k] = outer[k + 1]
  BY TailFacts DEF IInv, Outcome
<1>6. Machine(interp', Setting) /\ Above(interp', outer')
  <2>1. Above(interp', Drop(outer, 1))
    BY <1>3, <1>4, KeptAbove
  <2> QED
    BY <1>4, <1>5, <2>1 DEF Kept
<1>7. ASSUME NEW k \in DOMAIN outer'
      PROVE  /\ Machine(outer'[k], Setting) /\ Waiting(outer'[k])
             /\ Above(outer'[k], Drop(outer', k))
  <2>1. k \in 1 .. Len(outer) - 1 /\ 1 + k \in DOMAIN outer /\ k \in 0 .. Len(outer) - 1
    BY <1>2, <1>5, SequenceFacts
  <2>2. outer'[k] = outer[1 + k]
    BY <1>5, <2>1
  <2>3. Drop(outer', k) = Drop(outer, 1 + k)
    BY <1>2, <1>5, <2>1, DropDrop DEF IInv
  <2> QED
    BY <2>1, <2>2, <2>3 DEF IInv
<1> QED
  BY <1>1, <1>5, <1>6, <1>7 DEF IInv, Given, Outcome

\* An error ends the worker or the execution.
LEMMA FailKeeps ==
    ASSUME IInv, NEW fault, Fail(fault, interp.output), UNCHANGED Given,
           remaining_steps' \in 0 .. limits.steps
    PROVE  IInv'
<1>1. CASE outer # <<>>
  BY <1>1, OutcomeKeeps DEF Fail
<1>2. CASE outer = <<>>
  <2>1. Setting' = Setting
    BY DEF Given, Setting, Types
  <2>2. /\ interp' = [interp EXCEPT !.output = interp.output]
        /\ UNCHANGED outer /\ result'.status = "error"
    BY <1>2 DEF Fail
  <2>3. /\ Shape(interp') /\ interp'.control = interp.control
        /\ interp'.bindings = interp.bindings
        /\ interp'.functions = interp.functions
        /\ interp'.expression_depth = interp.expression_depth
        /\ interp'.call_stack = interp.call_stack
        /\ interp'.captured_bindings = interp.captured_bindings
        /\ interp'.in_parallel_worker = interp.in_parallel_worker
        /\ interp'.return_type = interp.return_type
        /\ interp'.output = interp.output
    BY <2>2 DEF IInv, Machine, Base, Shape
  <2>4. Machine(interp', Setting)
    BY <2>3 DEF IInv, Machine, Base
  <2>5. Above(interp', outer')
    BY <1>2, <2>2, <2>3 DEF IInv, Above, Inherited
  <2> QED
    BY <2>1, <2>2, <2>4, <2>5 DEF IInv, Given
<1> QED
  BY <1>1, <1>2

\* A step takes its ticks and leads to an error or to a kept interpreter.
LEMMA StepKeeps ==
    ASSUME IInv, NEW n \in Nat, NEW next, Step(n, next),
           IsError(next) \/ Kept(interp, next, Setting)
    PROVE  IInv'
<1>1. UNCHANGED Given /\ remaining_steps' \in 0 .. limits.steps
  <2>1. limits.steps \in Nat /\ remaining_steps \in 0 .. limits.steps
    BY DEF IInv, Limits
  <2>2. UNCHANGED Given
    BY DEF Step, Given
  <2>4. CASE n > remaining_steps
    <3>1. remaining_steps' = 0
      BY <2>4 DEF Step
    <3> QED
      BY <2>1, <2>2, <3>1 DEF Given
  <2>5. CASE ~(n > remaining_steps)
    <3>1. remaining_steps' = remaining_steps - n
      BY <2>5 DEF Step
    <3>2. n <= remaining_steps /\ remaining_steps \in Nat /\ limits.steps \in Nat
          /\ remaining_steps <= limits.steps
      BY <2>1, <2>5
    <3>3. remaining_steps - n \in 0 .. limits.steps
      BY <3>2
    <3> QED
      BY <2>2, <3>1, <3>3
  <2> QED
    BY <2>4, <2>5
<1>2. Setting' = Setting
  BY <1>1 DEF Given, Setting, Types
<1>3. CASE \E fault : Fail(fault, interp.output)
  BY <1>1, <1>3, FailKeeps
<1>4. CASE interp' = next /\ UNCHANGED <<outer, result>> /\ ~IsError(next)
  <2>1. Machine(interp', Setting') /\ Above(interp', outer')
    BY <1>2, <1>4, KeptAbove DEF IInv, Kept
  <2> QED
    BY <1>1, <1>2, <1>4, <2>1 DEF IInv, Given
<1> QED
  BY <1>3, <1>4 DEF Step, Become, Error, IsError

----------------------------------------------------------------------------
(* The interpreter that runs *)

\* What it may have to do next.
Continues(c) ==
    /\ Ready(c, interp.captured_bindings, interp.in_parallel_worker, Setting)
    /\ Cardinality(CallsIn(c)) = Cardinality(CallsIn(interp.control))
    /\ Depth(c) \in 0 .. limits.expression_depth
HeldBy(t) == Holds(t, interp.captured_bindings, interp.in_parallel_worker, Setting)
Opens(t) == IF t.task \in Closers THEN 1 ELSE 0

\* What is given, and the interpreter that runs.
LEMMA GivenFacts ==
    ASSUME IInv
    PROVE  /\ Setting.limits = limits /\ Setting.types = Types
           /\ Setting.parts = Parts(program)
           /\ limits.steps \in Nat /\ limits.call_depth \in Nat
           /\ limits.expression_depth \in Nat
           /\ limits.parallel_workers \in 1 .. 64
           /\ limits.parallel_output_bytes \in Nat
           /\ Machine(interp, Setting) /\ Shape(interp)
  BY DEF IInv, Limits, Setting, Machine, Base

\* The next task of the interpreter that runs.
LEMMA NextTask ==
    ASSUME IInv, interp.control # <<>>
    PROVE  /\ IsSequence(Rest) /\ HeldBy(Top) /\ Placed(Top, Rest)
           /\ interp.control = <<Top>> \o Rest /\ Top = interp.control[1]
           /\ Ready(Rest, interp.captured_bindings, interp.in_parallel_worker,
                    Setting)
           /\ Depth(Rest) \in 0 .. limits.expression_depth
           /\ Top.task = "call" => Depth(interp.control) = 0
           /\ Top.task # "call" => /\ Continues(Rest)
                                   /\ interp.expression_depth
                                          = Depth(Rest) + Opens(Top)
           /\ Cardinality(CallsIn(interp.control)) = Cardinality(CallsIn(Rest))
                  + IF Top.task = "call" THEN 1 ELSE 0
<1> DEFINE c == interp.control
           t == c[1]
           r == Tail(c)
<1>1. /\ Ready(c, interp.captured_bindings, interp.in_parallel_worker, Setting)
      /\ interp.expression_depth = Depth(c)
      /\ interp.expression_depth \in 0 .. limits.expression_depth
      /\ limits.expression_depth \in Nat /\ c # <<>>
  BY GivenFacts DEF Machine
<1>2. /\ IsSequence(r) /\ Head(c) = t /\ c = <<t>> \o r /\ Placed(t, r) /\ HeldBy(t)
      /\ Ready(r, interp.captured_bindings, interp.in_parallel_worker, Setting)
  <2> DEFINE n == interp.captured_bindings
             worker == interp.in_parallel_worker
             g == Setting
  <2>1. Ready(c, n, worker, g) /\ c # <<>>
    BY <1>1
  <2> HIDE DEF n, worker, g, c
  <2>2. /\ IsSequence(Tail(c)) /\ Ready(Tail(c), n, worker, g)
        /\ Head(c) = c[1] /\ c = <<c[1]>> \o Tail(c)
        /\ Placed(c[1], Tail(c)) /\ Holds(c[1], n, worker, g)
    BY <2>1, TopReady
  <2> QED
    BY <2>2 DEF n, worker, g, HeldBy
<1> HIDE DEF c, r
<1>3. Depth(r) \in Nat /\ Depth(c) \in Nat
  <2>1. IsSequence(c)
    BY <1>1 DEF Ready
  <2> QED
    BY <1>2, <2>1, CountFacts
<1>4. /\ t.task \notin Closers \cup {"call"} => Depth(c) = Depth(r)
      /\ t.task \in Closers => Depth(c) = Depth(r) + 1
      /\ t.task = "call" => Depth(c) = 0
      /\ Cardinality(CallsIn(c))
             = Cardinality(CallsIn(r)) + IF t.task = "call" THEN 1 ELSE 0
  <2> HIDE DEF t
  <2> QED
    BY <1>2, OneTask
<1>5. t.task # "call" => Depth(c) = Depth(r) + Opens(t)
  BY <1>3, <1>4 DEF Opens
<1>6. Depth(r) \in 0 .. limits.expression_depth
  <2>1. CASE t.task = "call"
    <3>1. t.depth = Depth(r) /\ t.depth \in 0 .. limits.expression_depth
      BY <1>2, <2>1, GivenFacts DEF Placed, HeldBy, Holds
    <3> QED
      BY <3>1
  <2>2. CASE t.task # "call"
    BY <1>1, <1>3, <1>4, <2>2
  <2> QED
    BY <2>1, <2>2
<1>7. Cardinality(CallsIn(r)) \in Nat
  BY <1>2, CountFacts
<1>8. t.task # "call" => Continues(r)
  BY <1>2, <1>4, <1>6, <1>7 DEF Continues, c
<1>9. Top = t /\ Rest = r
  BY <1>2 DEF Top, Rest, c, r
<1> QED
  BY <1>1, <1>2, <1>4, <1>5, <1>6, <1>8, <1>9 DEF c

\* One more task in front; an expression's needs room for its depth.
LEMMA OneMore ==
    ASSUME IInv, NEW c, Continues(c), NEW t, t.task # "call", Placed(t, c), HeldBy(t),
           t.task \in Closers => Depth(c) < limits.expression_depth
    PROVE  /\ Continues(<<t>> \o c) /\ Depth(<<t>> \o c) = Depth(c) + Opens(t)
           /\ Enclosed(c) => Enclosed(<<t>> \o c)
<1> DEFINE v == <<t>> \o c
<1>1. IsSequence(c)
  BY DEF Continues, Ready
<1>2. limits.expression_depth \in Nat /\ Depth(c) \in Nat
      /\ Cardinality(CallsIn(c)) \in Nat
  BY <1>1, GivenFacts, CountFacts
<1>3. Ready(v, interp.captured_bindings, interp.in_parallel_worker, Setting)
  BY OneReady DEF Continues, HeldBy
<1>4. /\ t.task \notin Closers \cup {"call"} => Depth(v) = Depth(c)
      /\ t.task \in Closers => Depth(v) = Depth(c) + 1
      /\ Cardinality(CallsIn(v)) = Cardinality(CallsIn(c)) + 0
  BY <1>1, OneTask
<1> HIDE DEF v
<1>5. Depth(v) = Depth(c) + Opens(t)
  BY <1>2, <1>4 DEF Opens
<1>6. Depth(v) \in 0 .. limits.expression_depth
  BY <1>2, <1>4 DEF Continues
<1>7. Continues(v)
  BY <1>2, <1>3, <1>4, <1>6 DEF Continues
<1>8. Enclosed(c) => Enclosed(v)
  BY <1>1, EnclosedConcat, SingleFacts DEF v
<1> QED
  BY <1>5, <1>7, <1>8 DEF v

\* The same interpreter, but for what it has to do and its operands.
Alike(i, j) ==
    /\ Shape(j) /\ j.bindings = i.bindings /\ j.functions = i.functions
    /\ j.call_stack = i.call_stack
    /\ j.captured_bindings = i.captured_bindings
    /\ j.in_parallel_worker = i.in_parallel_worker
    /\ j.return_type = i.return_type /\ j.output = i.output

\* Other tasks with the same calls and the right depth.
LEMMA ControlKept ==
    ASSUME IInv, NEW j, Alike(interp, j), Continues(j.control),
           j.expression_depth = Depth(j.control)
    PROVE  Kept(interp, j, Setting)
<1>1. Machine(interp, Setting) /\ Setting.limits = limits
  BY GivenFacts
<1>2. Base(j, Setting)
  BY <1>1 DEF Alike, Machine, Base
<1>3. Machine(j, Setting)
  BY <1>1, <1>2 DEF Machine, Continues, Alike
<1> QED
  BY <1>3 DEF Kept, Alike, Continues, Inherited

\* The same for the tasks that replace the next one.
LEMMA PushKept ==
    ASSUME IInv, NEW tasks, Continues(tasks \o Rest),
           Depth(tasks \o Rest) = interp.expression_depth
    PROVE  /\ Kept(interp, Push(tasks), Setting)
           /\ \A vs : Kept(interp, [Push(tasks) EXCEPT !.operands = vs], Setting)
           /\ \A n : Kept(interp, Take(n, tasks), Setting)
<1> DEFINE c == tasks \o Rest
<1>1. Shape(interp) /\ Continues(c) /\ Depth(c) = interp.expression_depth
  BY GivenFacts
<1> HIDE DEF c
<1>2. /\ Alike(interp, Push(tasks)) /\ Push(tasks).control = c
      /\ Push(tasks).expression_depth = Depth(c)
  BY <1>1 DEF Push, Alike, Shape, c
<1>3. Kept(interp, Push(tasks), Setting)
  BY <1>1, <1>2, ControlKept
<1>4. ASSUME NEW vs
      PROVE  Kept(interp, [Push(tasks) EXCEPT !.operands = vs], Setting)
  <2> DEFINE j == [Push(tasks) EXCEPT !.operands = vs]
  <2>1. Alike(interp, j) /\ j.control = c /\ j.expression_depth = Depth(c)
    BY <1>2 DEF Alike, Shape
  <2> HIDE DEF j
  <2>2. Kept(interp, j, Setting)
    BY <1>1, <2>1, ControlKept
  <2> QED
    BY <2>2 DEF j
<1>5. ASSUME NEW n
      PROVE  Kept(interp, Take(n, tasks), Setting)
  <2>1. /\ Alike(interp, Take(n, tasks)) /\ Take(n, tasks).control = c
        /\ Take(n, tasks).expression_depth = Depth(c)
    BY <1>1 DEF Take, Alike, Shape, c
  <2> QED
    BY <1>1, <2>1, ControlKept
<1> QED
  BY <1>3, <1>4, <1>5

\* The last task of an expression, and the first one.
LEMMA CloseKept ==
    ASSUME IInv, interp.control # <<>>, Top.task \in Closers, NEW n, NEW v
    PROVE  /\ Kept(interp, Close(n, v), Setting)
           /\ IsError(Complete(n, v)) \/ Kept(interp, Complete(n, v), Setting)
<1>1. Top.task # "call" /\ Opens(Top) = 1
  BY DEF Closers, Composite, Opens
<1>2. Continues(Rest) /\ interp.expression_depth = Depth(Rest) + 1 /\ Shape(interp)
      /\ Depth(Rest) \in Nat
  BY <1>1, NextTask, GivenFacts, CountFacts
<1> DEFINE j == Close(n, v)
<1>3. Alike(interp, j) /\ j.control = Rest /\ j.expression_depth = Depth(Rest)
  <2>1. Alike(interp, j) /\ j.control = Rest
        /\ j.expression_depth = interp.expression_depth - 1
    BY <1>2 DEF Close, Alike, Shape
  <2> QED
    BY <1>2, <2>1
<1> HIDE DEF j
<1>4. Kept(interp, j, Setting)
  BY <1>2, <1>3, ControlKept
<1> QED
  BY <1>4 DEF j, Complete

\* An expression opens, or is too deep.
LEMMA OpenKept ==
    ASSUME IInv, interp.control # <<>>, NEW tasks,
           ~Deep => /\ Continues(tasks \o Rest)
                    /\ Depth(tasks \o Rest) = interp.expression_depth + 1
    PROVE  IsError(Open(tasks)) \/ Kept(interp, Open(tasks), Setting)
<1>1. CASE Deep
  BY <1>1 DEF Open, TooDeep, Error, IsError
<1>2. CASE ~Deep
  <2> DEFINE c == tasks \o Rest
             j == [Push(tasks) EXCEPT !.expression_depth = @ + 1]
  <2>1. Shape(interp) /\ Continues(c) /\ Depth(c) = interp.expression_depth + 1
    BY <1>2, GivenFacts
  <2> HIDE DEF c
  <2>2. Alike(interp, j) /\ j.control = c
        /\ j.expression_depth = interp.expression_depth + 1
    BY <2>1 DEF Push, Alike, Shape, c
  <2>3. Open(tasks) = j
    BY <1>2 DEF Open
  <2> HIDE DEF j
  <2> QED
    BY <2>1, <2>2, <2>3, ControlKept
<1> QED
  BY <1>1, <1>2

\* An expression without parts.
LEMMA LeafKept ==
    ASSUME IInv, interp.control # <<>>, Top.task = "evaluate", NEW v
    PROVE  IsError(Leaf(v)) \/ Kept(interp, Leaf(v), Setting)
<1>1. Opens(Top) = 0
  BY DEF Closers, Composite, Opens
<1>2. /\ Continues(Rest) /\ interp.expression_depth = Depth(Rest)
      /\ IsSequence(Rest) /\ Depth(Rest) \in Nat
  BY <1>1, NextTask, CountFacts
<1>3. <<>> \o Rest = Rest
  BY <1>2, WithoutFront
<1>4. \A vs : Kept(interp, [Push(<<>>) EXCEPT !.operands = vs], Setting)
  BY <1>2, <1>3, PushKept
<1> QED
  BY <1>4 DEF Leaf, TooDeep, Error, IsError

----------------------------------------------------------------------------
(* More about sequences *)

\* Concatenation is associative.
LEMMA ConcatAssociative3 ==
    ASSUME NEW s, IsSequence(s), NEW t, IsSequence(t), NEW u, IsSequence(u)
    PROVE  (s \o t) \o u = s \o (t \o u)
<1> DEFINE S == Range(s) \cup (Range(t) \cup Range(u))
<1>1. s \in Seq(S)
  BY Widen
<1>2. t \in Seq(S)
  <2> DEFINE T == Range(s) \cup Range(u)
  <2>1. t \in Seq(Range(t) \cup T)
    BY Widen
  <2>2. Range(t) \cup T = S
    OBVIOUS
  <2> QED
    BY <2>1, <2>2
<1>3. u \in Seq(S)
  <2> DEFINE T == Range(s) \cup Range(t)
  <2>1. u \in Seq(Range(u) \cup T)
    BY Widen
  <2>2. Range(u) \cup T = S
    OBVIOUS
  <2> QED
    BY <2>1, <2>2
<1> HIDE DEF S
<1> QED
  BY <1>1, <1>2, <1>3, ConcatAssociative

\* Two tasks, one by one.
LEMMA TwoTasks ==
    ASSUME NEW a, NEW b, NEW c, IsSequence(c)
    PROVE  <<a, b>> \o c = <<a>> \o (<<b>> \o c)
<1> DEFINE p == <<a>>
           q == <<b>>
<1>1. IsSequence(p) /\ IsSequence(q)
  BY SingleFacts
<1>2. <<a, b>> = p \o q
  <2> DEFINE u == <<a, b>>
             v == <<a>> \o q
  <2>1. u \in Seq({a, b})
    OBVIOUS
  <2>2. IsSequence(u)
    BY <2>1, SequenceOver
  <2>3. Len(u) = 2 /\ u[1] = a /\ u[2] = b /\ Len(q) = 1 /\ q[1] = b
    OBVIOUS
  <2> HIDE DEF q
  <2>4. /\ IsSequence(v) /\ Len(v) = 1 + Len(q) /\ v[1] = a
        /\ \A k \in 1 .. Len(q) : v[1 + k] = q[k]
    BY <1>1, ConsFacts
  <2> HIDE DEF u, v
  <2>5. v[1 + 1] = b /\ Len(v) = 2
    BY <2>3, <2>4
  <2>6. \A k \in 1 .. Len(u) : u[k] = v[k]
    BY <2>3, <2>4, <2>5
  <2>7. u = v
    BY <2>2, <2>3, <2>4, <2>5, <2>6, SameSequence
  <2> QED
    BY <2>7 DEF u, v
<1> HIDE DEF p, q
<1>3. (p \o q) \o c = p \o (q \o c)
  BY <1>1, ConcatAssociative3
<1> QED
  BY <1>2, <1>3 DEF p, q

\* Three tasks, one by one.
LEMMA ThreeTasks ==
    ASSUME NEW a, NEW b, NEW d, NEW c, IsSequence(c)
    PROVE  <<a, b, d>> \o c = <<a>> \o (<<b>> \o (<<d>> \o c))
<1> DEFINE p == <<a, b>>
           q == <<d>>
<1>1. IsSequence(p) /\ IsSequence(q)
  <2>1. <<a, b>> \in Seq({a, b})
    OBVIOUS
  <2> QED
    BY <2>1, SingleFacts, SequenceOver
<1>2. <<a, b, d>> = p \o q
  OBVIOUS
<1>3. IsSequence(q \o c)
  BY <1>1, ConcatFacts
<1>4. p \o (q \o c) = <<a>> \o (<<b>> \o (q \o c))
  <2> HIDE DEF q
  <2> QED
    BY <1>3, TwoTasks
<1> HIDE DEF p, q
<1>5. (p \o q) \o c = p \o (q \o c)
  BY <1>1, ConcatAssociative3
<1> QED
  BY <1>2, <1>4, <1>5 DEF p, q

\* A function on the first n numbers is a sequence.
LEMMA FunctionSequence ==
    ASSUME NEW n \in Nat, NEW f, DOMAIN f = 1 .. n, f = [k \in DOMAIN f |-> f[k]]
    PROVE  IsSequence(f) /\ Len(f) = n
<1>1. f \in [1 .. n -> Range(f)]
  BY DEF Range
<1>2. f \in Seq(Range(f))
  BY <1>1
<1> QED
  BY <1>1, <1>2 DEF IsSequence

\* A sequence with one element replaced.
LEMMA ExceptSequence ==
    ASSUME NEW s, IsSequence(s), NEW k, NEW x
    PROVE  /\ IsSequence([s EXCEPT ![k] = x]) /\ Len([s EXCEPT ![k] = x]) = Len(s)
           /\ \A m \in 1 .. Len(s) : m # k => [s EXCEPT ![k] = x][m] = s[m]
<1> DEFINE u == [s EXCEPT ![k] = x]
<1>1. DOMAIN s = 1 .. Len(s) /\ Len(s) \in Nat
  BY SequenceFacts
<1>2. DOMAIN u = 1 .. Len(s) /\ u = [m \in DOMAIN u |-> u[m]]
      /\ \A m \in 1 .. Len(s) : m # k => u[m] = s[m]
  BY <1>1
<1> HIDE DEF u
<1>3. IsSequence(u) /\ Len(u) = Len(s)
  BY <1>1, <1>2, FunctionSequence
<1> QED
  BY <1>2, <1>3 DEF u

----------------------------------------------------------------------------
(* What a program consists of *)

\* The parts of an expression of the program belong to the program.
LEMMA TreeFacts ==
    ASSUME IInv
    PROVE  /\ program \in Setting.parts.bodies
           /\ \A e \in Setting.parts.exprs : IsExpression(e, Setting.parts.exprs)
           /\ \A b \in Setting.parts.bodies : /\ IsSequence(b)
                 /\ \A k \in DOMAIN b : IsStatement(b[k], Setting.parts)
  BY GivenFacts DEF IInv, IsTree

\* The tasks that evaluate a sequence of expressions.
LEMMA EvaluateAllFacts ==
    ASSUME NEW es, IsSequence(es), NEW env
    PROVE  /\ IsSequence(EvaluateAll(es, env))
           /\ DOMAIN EvaluateAll(es, env) = DOMAIN es
           /\ \A k \in DOMAIN es : EvaluateAll(es, env)[k] = Evaluate(es[k], env)
<1> DEFINE u == EvaluateAll(es, env)
<1>1. DOMAIN es = 1 .. Len(es) /\ Len(es) \in Nat
  BY SequenceFacts
<1>2. DOMAIN u = 1 .. Len(es) /\ u = [m \in DOMAIN u |-> u[m]]
      /\ \A k \in DOMAIN es : u[k] = Evaluate(es[k], env)
  BY <1>1 DEF EvaluateAll
<1> HIDE DEF u
<1>3. IsSequence(u)
  BY <1>1, <1>2, FunctionSequence
<1> QED
  BY <1>1, <1>2, <1>3 DEF u

\* The operands that are evaluated first are expressions of the program.
LEMMA FirstFacts ==
    ASSUME NEW exprs, NEW e, IsExpression(e, exprs)
    PROVE  IsSequence(First(e)) /\ \A k \in DOMAIN First(e) : First(e)[k] \in exprs
<1>1. /\ IsSequence(Operands(e))
      /\ \A k \in DOMAIN Operands(e) : Operands(e)[k] \in exprs
  BY DEF IsExpression, Range
<1>2. CASE e.kind = "Binary"
  <2>1. Operands(e) = <<e.left, e.right>>
    BY <1>2 DEF Operands
  <2>2. e.left \in exprs
    BY <1>1, <2>1
  <2>3. First(e) = <<e.left>> \/ First(e) = Operands(e)
    BY <1>2 DEF First
  <2>4. IsSequence(<<e.left>>) /\ \A k \in DOMAIN <<e.left>> : <<e.left>>[k] \in exprs
    BY <2>2, SingleFacts
  <2> QED
    BY <1>1, <2>3, <2>4
<1>3. CASE e.kind = "Request"
  <2> DEFINE p == <<e.url>>
             q == e.config
  <2>1. Operands(e) = p \o q /\ IsSequence(q) /\ IsSequence(p)
    BY <1>3, SingleFacts DEF Operands, IsExpression
  <2>2. (p \o q)[1] = e.url /\ Len(p \o q) = 1 + Len(q)
    BY <2>1, ConsFacts
  <2>3. 1 \in DOMAIN (p \o q)
    <3>1. IsSequence(p \o q) /\ Len(q) \in Nat
      BY <2>1, ConsFacts, SequenceFacts
    <3> QED
      BY <2>2, <3>1, SequenceFacts
  <2>4. e.url \in exprs
    BY <1>1, <2>1, <2>2, <2>3
  <2>5. First(e) = <<e.url>>
    BY <1>3 DEF First
  <2>6. IsSequence(<<e.url>>) /\ \A k \in DOMAIN <<e.url>> : <<e.url>>[k] \in exprs
    BY <2>4, SingleFacts
  <2> QED
    BY <2>5, <2>6
<1>4. CASE e.kind \notin {"Binary", "Request"}
  BY <1>1, <1>4 DEF First
<1> QED
  BY <1>2, <1>3, <1>4

----------------------------------------------------------------------------
(* Expressions *)

\* An expression leaves the tasks of those around it as they are.
LEMMA PopKept ==
    ASSUME IInv, interp.control # <<>>, Top.task \notin Closers \cup {"call"}
    PROVE  /\ Kept(interp, Push(<<>>), Setting)
           /\ \A vs : Kept(interp, [Push(<<>>) EXCEPT !.operands = vs], Setting)
           /\ \A n : Kept(interp, Take(n, <<>>), Setting)
           /\ \A n, vs : Kept(interp, [Take(n, <<>>) EXCEPT !.operands = vs], Setting)
<1>1. /\ Continues(Rest) /\ interp.expression_depth = Depth(Rest)
      /\ IsSequence(Rest) /\ Depth(Rest) \in Nat
  BY NextTask, CountFacts DEF Opens
<1>2. <<>> \o Rest = Rest
  BY <1>1, WithoutFront
<1>3. /\ Kept(interp, Push(<<>>), Setting)
      /\ \A vs : Kept(interp, [Push(<<>>) EXCEPT !.operands = vs], Setting)
      /\ \A n : Kept(interp, Take(n, <<>>), Setting)
  BY <1>1, <1>2, PushKept
<1>4. ASSUME NEW n, NEW vs
      PROVE  Kept(interp, [Take(n, <<>>) EXCEPT !.operands = vs], Setting)
  <2>1. [Take(n, <<>>) EXCEPT !.operands = vs] = [Push(<<>>) EXCEPT !.operands = vs]
    BY GivenFacts DEF Take, Push, Shape
  <2> QED
    BY <1>3, <2>1
<1> QED
  BY <1>3, <1>4

\* A task of an expression stands wherever something encloses it.
ExpressionTasks == Closers \cup {"evaluate"}
\* An expression's task may stand before anything enclosed.
LEMMA ExpressionPlaced ==
    ASSUME NEW t, t.task \in ExpressionTasks, NEW c, Enclosed(c)
    PROVE  Placed(t, c) /\ t.task # "call"
  BY DEF ExpressionTasks, Closers, Composite, Placed, Frames, StatementTasks

\* So may an evaluation.
LEMMA EvaluatePlaced ==
    ASSUME IInv, interp.control # <<>>, Top.task \in ExpressionTasks
    PROVE  Enclosed(Rest)
  BY NextTask DEF ExpressionTasks, Closers, Composite, Placed, Frames

\* An evaluation holds an expression of the program.
LEMMA EvaluateHeld ==
    ASSUME NEW e \in Setting.parts.exprs, NEW env
    PROVE  HeldBy(Evaluate(e, env)) /\ Opens(Evaluate(e, env)) = 0
           /\ Evaluate(e, env).task \in ExpressionTasks
           /\ Evaluate(e, env).task \notin Closers \cup {"call"}
  BY DEF HeldBy, Holds, Evaluate, Composite, Opens, Closers, ExpressionTasks

\* A literal is a leaf.
LEMMA LiteralKeeps == ASSUME IInv, EvaluateLiteral PROVE IInv'
<1>1. Step(1, Leaf(Literal(Top.expr))) /\ interp.control # <<>> /\ Top.task = "evaluate"
  BY DEF EvaluateLiteral, Doing
<1> DEFINE next == Leaf(Literal(Top.expr))
<1>2. IsError(next) \/ Kept(interp, next, Setting)
  BY <1>1, LeafKept
<1> QED
  BY <1>1, <1>2, StepKeeps

\* A name is a leaf.
LEMMA IdentifierKeeps == ASSUME IInv, EvaluateIdentifier PROVE IInv'
<1> DEFINE v == Lookup(Top.env, Top.expr.name)
           next == Leaf(v)
<1>1. Step(1, next) /\ interp.control # <<>> /\ Top.task = "evaluate"
  BY DEF EvaluateIdentifier, Doing
<1>2. IsError(next) \/ Kept(interp, next, Setting)
  BY <1>1, LeafKept
<1> QED
  BY <1>1, <1>2, StepKeeps

\* An expression's operands and then its own task.
LEMMA OperandsBefore ==
    ASSUME IInv, Continues(Rest), Enclosed(Rest),
           Depth(Rest) < limits.expression_depth, NEW p, IsSequence(p),
           \A j \in DOMAIN p : /\ p[j].task = "evaluate"
                               /\ p[j].expr \in Setting.parts.exprs,
           NEW t, t.task \in Closers, HeldBy(t)
    PROVE  /\ Continues((p \o <<t>>) \o Rest)
           /\ Depth((p \o <<t>>) \o Rest) = Depth(Rest) + 1
<1>1. IsSequence(Rest) /\ Depth(Rest) \in Nat
  BY CountFacts DEF Continues, Ready
<1>2. Placed(t, Rest) /\ t.task # "call" /\ Opens(t) = 1
  BY <1>1, ExpressionPlaced DEF ExpressionTasks, Opens
<1> DEFINE c == <<t>> \o Rest
           d == p \o c
<1>4. Continues(c) /\ Depth(c) = Depth(Rest) + 1 /\ Enclosed(c)
  BY <1>1, <1>2, OneMore
<1>5. Ready(c, interp.captured_bindings, interp.in_parallel_worker, Setting)
  BY <1>4 DEF Continues
<1>6. d = (p \o <<t>>) \o Rest
  BY <1>1, SingleFacts, ConcatAssociative3, SMTT(30)
<1> HIDE DEF c
<1>7. /\ Ready(d, interp.captured_bindings, interp.in_parallel_worker, Setting)
      /\ Depth(d) = Depth(c)
      /\ Cardinality(CallsIn(d)) = Cardinality(CallsIn(c))
  BY <1>4, <1>5, OperandsReady
<1> HIDE DEF d
<1>8. Continues(d)
  BY <1>4, <1>7 DEF Continues
<1> QED
  BY <1>1, <1>4, <1>6, <1>7, <1>8

\* An expression opens with its operands and its own task.
LEMMA OperandsOpened ==
    ASSUME IInv, interp.control # <<>>, Top.task = "evaluate", ~Deep
    PROVE  /\ Continues(Rest) /\ Enclosed(Rest) /\ Depth(Rest) \in Nat
           /\ Depth(Rest) = interp.expression_depth
           /\ Depth(Rest) < limits.expression_depth
<1>1. /\ Continues(Rest) /\ interp.expression_depth = Depth(Rest)
      /\ IsSequence(Rest) /\ Depth(Rest) \in Nat /\ Enclosed(Rest)
  BY NextTask, CountFacts, EvaluatePlaced DEF Opens, Closers, Composite, ExpressionTasks
<1> QED
  BY <1>1, GivenFacts DEF Deep

\* The operands come first.
LEMMA OperandsKeeps == ASSUME IInv, EvaluateOperands PROVE IInv'
<1> DEFINE e == Top.expr
           p == EvaluateAll(First(e), Top.env)
           t == Then(e.kind, e, Top.env)
           next == Open(p \o <<t>>)
<1>1. /\ Step(1, next) /\ interp.control # <<>> /\ Top.task = "evaluate"
      /\ e.kind \in Composite
  BY DEF EvaluateOperands, Doing
<1>2. e \in Setting.parts.exprs
  BY <1>1, NextTask DEF HeldBy, Holds
<1> HIDE DEF e
<1>3. IsSequence(First(e)) /\ \A k \in DOMAIN First(e) : First(e)[k] \in Setting.parts.exprs
  <2>1. IsExpression(e, Setting.parts.exprs)
    BY <1>2, TreeFacts
  <2> DEFINE exprs == Setting.parts.exprs
  <2>2. IsExpression(e, exprs)
    BY <2>1
  <2> HIDE DEF exprs
  <2>3. IsSequence(First(e)) /\ \A k \in DOMAIN First(e) : First(e)[k] \in exprs
    BY <2>2, FirstFacts
  <2> QED
    BY <2>3 DEF exprs
<1>4. /\ IsSequence(p)
      /\ \A j \in DOMAIN p : p[j].task = "evaluate" /\ p[j].expr \in Setting.parts.exprs
  <2> DEFINE es == First(e)
             env == Top.env
  <2>1. IsSequence(es) /\ \A k \in DOMAIN es : es[k] \in Setting.parts.exprs
    BY <1>3
  <2> HIDE DEF es, env
  <2>2. /\ IsSequence(EvaluateAll(es, env))
        /\ DOMAIN EvaluateAll(es, env) = DOMAIN es
        /\ \A k \in DOMAIN es : EvaluateAll(es, env)[k] = Evaluate(es[k], env)
    BY <2>1, EvaluateAllFacts
  <2>3. p = EvaluateAll(es, env)
    BY DEF es, env
  <2> HIDE DEF p
  <2>4. ASSUME NEW j \in DOMAIN p
        PROVE  p[j].task = "evaluate" /\ p[j].expr \in Setting.parts.exprs
    BY <2>1, <2>2, <2>3 DEF Evaluate
  <2> QED
    BY <2>2, <2>3, <2>4
<1>5. t.task \in Closers /\ HeldBy(t)
  BY <1>1, <1>2 DEF Then, Closers, HeldBy, Holds, Composite
<1> HIDE DEF p, t
<1>6. ~Deep => /\ Continues((p \o <<t>>) \o Rest)
               /\ Depth((p \o <<t>>) \o Rest) = interp.expression_depth + 1
  BY <1>1, <1>4, <1>5, OperandsOpened, OperandsBefore
<1>7. IsError(next) \/ Kept(interp, next, Setting)
  BY <1>1, <1>6, OpenKept
<1> QED
  BY <1>1, <1>7, StepKeeps

\* The work of an expression that stays open.
LEMMA OpenFacts ==
    ASSUME IInv, interp.control # <<>>, Top.task \in Closers
    PROVE  /\ Continues(Rest) /\ Enclosed(Rest) /\ IsSequence(Rest)
           /\ Depth(Rest) \in Nat
           /\ Depth(Rest) + 1 = interp.expression_depth
           /\ Depth(Rest) < limits.expression_depth
<1>1. Top.task # "call" /\ Opens(Top) = 1
  BY DEF Closers, Composite, Opens
<1>2. Continues(Rest) /\ interp.expression_depth = Depth(Rest) + 1
      /\ IsSequence(Rest) /\ Depth(Rest) \in Nat
  BY <1>1, NextTask, CountFacts
<1>3. interp.expression_depth <= limits.expression_depth /\ limits.expression_depth \in Nat
  BY GivenFacts DEF Machine
<1>4. Depth(Rest) < limits.expression_depth
  BY <1>2, <1>3
<1> QED
  BY <1>2, <1>4, EvaluatePlaced DEF ExpressionTasks

\* One more task of an expression.
LEMMA ExpressionMore ==
    ASSUME IInv, NEW c, Continues(c), Enclosed(c), NEW t,
           t.task \in ExpressionTasks, HeldBy(t),
           t.task \in Closers => Depth(c) < limits.expression_depth
    PROVE  /\ Continues(<<t>> \o c) /\ Enclosed(<<t>> \o c)
           /\ IsSequence(<<t>> \o c)
           /\ Depth(<<t>> \o c) = Depth(c) + Opens(t)
<1>1. Placed(t, c) /\ t.task # "call"
  BY ExpressionPlaced
<1>2. /\ Continues(<<t>> \o c) /\ Depth(<<t>> \o c) = Depth(c) + Opens(t)
      /\ Enclosed(<<t>> \o c)
  BY <1>1, OneMore
<1> QED
  BY <1>2 DEF Continues, Ready

\* A construction begins with all of its fields still to do.
LEMMA ConstructKeeps == ASSUME IInv, EvaluateConstruct PROVE IInv'
<1> DEFINE e == Top.expr
           t == ConstructTask(e, Top.env, e.members, NoScope)
           unknown == ~Deep /\ ~IsNamed(analysis.registry, e.name)
           next == IF unknown THEN Error("Unknown type") ELSE Open(<<t>>)
<1>1. /\ Step(1, next) /\ interp.control # <<>> /\ Top.task = "evaluate"
      /\ e.kind = "Construct"
  BY DEF EvaluateConstruct, Doing
<1>2. e \in Setting.parts.exprs
  BY <1>1, NextTask DEF HeldBy, Holds
<1>3. /\ IsSequence(e.members)
      /\ \A k \in DOMAIN e.members : e.members[k].value \in Setting.parts.exprs
  BY <1>1, <1>2, TreeFacts DEF IsExpression, Range, Values
<1>4. t.task = "Construct" /\ t.todo = e.members
  BY DEF ConstructTask
<1> HIDE DEF t, unknown
<1>5. /\ t.task \in ExpressionTasks /\ t.task \in Closers /\ Opens(t) = 1
      /\ HeldBy(t)
  BY <1>3, <1>4 DEF ExpressionTasks, Closers, Opens, HeldBy, Holds, Composite
<1> HIDE DEF e
<1> DEFINE tasks == <<t>>
<1>6. ~Deep => /\ Continues(tasks \o Rest)
               /\ Depth(tasks \o Rest) = interp.expression_depth + 1
  BY <1>1, <1>5, OperandsOpened, ExpressionMore
<1> HIDE DEF tasks
<1>7. IsError(Open(tasks)) \/ Kept(interp, Open(tasks), Setting)
  BY <1>1, <1>6, OpenKept
<1>8. IsError(next) \/ Kept(interp, next, Setting)
  BY <1>7 DEF Error, IsError, tasks
<1> QED
  BY <1>1, <1>8, StepKeeps

----------------------------------------------------------------------------
(* The tasks of an expression whose operands have values *)

\* The next field is evaluated, and then checked before the construction goes on.
LEMMA NextFieldKeeps == ASSUME IInv, NextField PROVE IInv'
<1> DEFINE e == Head(Top.todo).value
           env == Top.env
           t == [task |-> "field"]
           c == interp.control
           p == <<Evaluate(e, env), t>>
           next == [interp EXCEPT !.control = p \o @]
<1>1. Step(0, next) /\ c # <<>> /\ Top.task = "Construct" /\ Top.todo # <<>>
  BY DEF NextField, Doing
<1>2. /\ Continues(Rest) /\ Enclosed(Rest) /\ IsSequence(Rest)
      /\ Depth(Rest) \in Nat /\ Depth(Rest) + 1 = interp.expression_depth
      /\ Depth(Rest) < limits.expression_depth
      /\ HeldBy(Top) /\ c = <<Top>> \o Rest
  BY <1>1, OpenFacts, NextTask DEF Closers
<1>3. e \in Setting.parts.exprs
  <2>1. IsSequence(Top.todo)
    BY <1>1, <1>2 DEF HeldBy, Holds
  <2>2. Head(Top.todo) = Top.todo[1] /\ 1 \in DOMAIN Top.todo
    BY <1>1, <2>1, SequenceFacts
  <2> QED
    BY <1>1, <1>2, <2>2 DEF HeldBy, Holds
<1>4. /\ Continues(c) /\ Enclosed(c) /\ IsSequence(c)
      /\ Depth(c) = interp.expression_depth
  <2>1. Top.task \in ExpressionTasks /\ Opens(Top) = 1
    BY <1>1 DEF ExpressionTasks, Closers, Opens
  <2>2. /\ Continues(<<Top>> \o Rest) /\ Enclosed(<<Top>> \o Rest)
        /\ IsSequence(<<Top>> \o Rest)
        /\ Depth(<<Top>> \o Rest) = Depth(Rest) + Opens(Top)
    BY <1>2, <2>1, ExpressionMore
  <2> QED
    BY <1>2, <2>1, <2>2
<1>5. c[1] = Top
  BY <1>1, NextTask
<1> HIDE DEF e, env, c
<1>6. HeldBy(t) /\ Placed(t, c) /\ t.task # "call" /\ t.task \notin Closers
  BY <1>1, <1>4, <1>5 DEF HeldBy, Holds, Placed, Follows, StatementTasks, Frames,
                          Closers, Composite
<1> HIDE DEF t
<1> DEFINE d == <<t>> \o c
           b == <<Evaluate(e, env)>> \o d
<1>7. Continues(d) /\ Depth(d) = Depth(c) + 0 /\ Enclosed(d)
  BY <1>4, <1>6, OneMore DEF Opens
<1> HIDE DEF d
<1>8. Continues(b) /\ Depth(b) = Depth(d) + 0
  BY <1>3, <1>7, EvaluateHeld, ExpressionMore
<1>9. p \o c = b
  BY <1>4, TwoTasks DEF d
<1> HIDE DEF p, b
<1>10. Alike(interp, next) /\ next.control = p \o c
       /\ next.expression_depth = interp.expression_depth
  BY GivenFacts DEF Alike, Shape, c
<1> HIDE DEF next
<1>11. Kept(interp, next, Setting)
  <2>1. Depth(d) = Depth(c) /\ Depth(b) = Depth(d)
    BY <1>2, <1>4, <1>7, <1>8
  <2> QED
    BY <1>4, <1>8, <1>9, <1>10, <2>1, ControlKept
<1> QED
  BY <1>1, <1>11, StepKeeps DEF c

\* The next task but one holds something else.
LEMMA RestChanged ==
    ASSUME IInv, Continues(Rest), Depth(Rest) = interp.expression_depth,
           Rest # <<>>, NEW t, HeldBy(t), t.task = Rest[1].task, t.task # "call",
           NEW j, Alike(interp, j), j.control = [Rest EXCEPT ![1] = t],
           j.expression_depth = interp.expression_depth
    PROVE  Kept(interp, j, Setting)
<1> DEFINE r == Rest
           n == interp.captured_bindings
           worker == interp.in_parallel_worker
           g == Setting
           d == <<t>> \o Tail(r)
<1>1. Ready(r, n, worker, g) /\ r # <<>> /\ Holds(t, n, worker, g)
      /\ t.task = r[1].task /\ t.task # "call"
  BY DEF HeldBy, Continues
<1> HIDE DEF r, n, worker, g
<1>2. /\ [r EXCEPT ![1] = t] = d /\ Ready(d, n, worker, g) /\ Depth(d) = Depth(r)
      /\ Cardinality(CallsIn(d)) = Cardinality(CallsIn(r))
  BY <1>1, TopChanged
<1> HIDE DEF d
<1>3. Continues(d) /\ j.control = d /\ j.expression_depth = Depth(d)
  BY <1>2 DEF Continues, r, n, worker, g
<1> QED
  BY <1>3, ControlKept

\* A field that has its type is one less to do.
LEMMA FieldKeeps == ASSUME IInv, CheckField PROVE IInv'
<1> DEFINE construct == Head(Rest)
           m == Head(construct.todo)
           u(x) == ConstructTask(x.expr, x.env, Tail(x.todo),
                                 Merged(Only(m.name, Operand), x.fields))
           i == Take(1, <<>>)
           j == [i EXCEPT !.control[1] = u(@)]
           t == FieldContract(construct.expr.name, m.name)
           next == IF ~HasType(t, Operand) THEN TypeError(m.value, t) ELSE j
<1>1. Step(0, next) /\ interp.control # <<>> /\ Top.task = "field"
  BY DEF CheckField, Doing
<1>2. /\ Continues(Rest) /\ IsSequence(Rest) /\ HeldBy(Top) /\ Placed(Top, Rest)
      /\ Depth(Rest) = interp.expression_depth
  <2>1. Top.task # "call" /\ Opens(Top) = 0
    BY <1>1 DEF Opens, Closers, Composite
  <2>2. /\ Continues(Rest) /\ IsSequence(Rest) /\ HeldBy(Top) /\ Placed(Top, Rest)
        /\ interp.expression_depth = Depth(Rest) + Opens(Top)
    BY <1>1, <2>1, NextTask
  <2>3. Depth(Rest) \in Nat
    BY <2>2, CountFacts
  <2> QED
    BY <2>1, <2>2, <2>3
<1>3. Rest # <<>> /\ Rest[1].task = "Construct" /\ 1 \in DOMAIN Rest
      /\ construct = Rest[1]
  <2>1. Follows(Rest, "Construct")
    BY <1>1, <1>2 DEF Placed
  <2> QED
    BY <1>2, <2>1, SequenceFacts DEF Follows
<1>4. HeldBy(construct)
  BY <1>2, <1>3 DEF Continues, Ready, HeldBy
<1>5. construct.todo # <<>> /\ IsSequence(construct.todo)
      /\ \A k \in DOMAIN construct.todo : construct.todo[k].value \in Setting.parts.exprs
  BY <1>1, <1>2, <1>3, <1>4 DEF Placed, HeldBy, Holds
<1>6. u(construct).task = "Construct" /\ u(construct).todo = Tail(construct.todo)
  BY DEF ConstructTask
<1>7. HeldBy(u(construct))
  <2> DEFINE todo == construct.todo
  <2>1. /\ IsSequence(Tail(todo)) /\ Len(Tail(todo)) = Len(todo) - 1
        /\ \A k \in 1 .. Len(todo) - 1 : Tail(todo)[k] = todo[k + 1]
        /\ DOMAIN todo = 1 .. Len(todo) /\ Len(todo) \in Nat
    <3> HIDE DEF construct
    <3> QED
      BY <1>5, TailFacts, SequenceFacts
  <2>2. DOMAIN Tail(todo) = 1 .. Len(todo) - 1
    BY <2>1, SequenceFacts
  <2>3. \A k \in DOMAIN Tail(todo) : Tail(todo)[k].value \in Setting.parts.exprs
    <3>1. ASSUME NEW k \in DOMAIN Tail(todo)
          PROVE  Tail(todo)[k].value \in Setting.parts.exprs
      <4>1. k + 1 \in DOMAIN todo /\ Tail(todo)[k] = todo[k + 1]
        BY <2>1, <2>2
      <4> QED
        BY <1>5, <4>1
    <3> QED
      BY <3>1
  <2> HIDE DEF construct, u
  <2> QED
    BY <1>6, <2>1, <2>3 DEF HeldBy, Holds, Composite
<1>8. /\ Alike(interp, j) /\ j.control = [Rest EXCEPT ![1] = u(construct)]
      /\ j.expression_depth = interp.expression_depth
  <2>1. <<>> \o Rest = Rest
    BY <1>2, WithoutFront
  <2> HIDE DEF u, construct
  <2>2. i.control = Rest /\ Shape(i) /\ i.expression_depth = interp.expression_depth
        /\ Alike(interp, i)
    BY <2>1, GivenFacts DEF Take, Shape, Alike
  <2> HIDE DEF i
  <2>3. j.control = [Rest EXCEPT ![1] = u(Rest[1])]
    BY <1>3, <2>2 DEF Shape
  <2> QED
    BY <1>3, <2>2, <2>3 DEF Alike, Shape
<1> HIDE DEF j, u, construct, t, m
<1>9. Kept(interp, j, Setting)
  BY <1>2, <1>3, <1>6, <1>7, <1>8, RestChanged
<1>10. IsError(next) \/ Kept(interp, next, Setting)
  BY <1>9 DEF TypeError, IsError
<1> HIDE DEF next
<1> QED
  BY <1>1, <1>10, StepKeeps

\* A construction without more fields closes.
LEMMA EndConstructKeeps == ASSUME IInv, EndConstruct PROVE IInv'
<1> DEFINE next == Close(0, RecordValue(Top.expr.name, Top.fields))
<1>1. Step(0, next) /\ interp.control # <<>> /\ Top.task \in Closers
  BY DEF EndConstruct, Doing, Closers
<1>2. Kept(interp, next, Setting)
  BY <1>1, CloseKept
<1> QED
  BY <1>1, <1>2, StepKeeps

\* An operator closes its expression.
LEMMA OperatorKeeps == ASSUME IInv, ApplyOperator PROVE IInv'
<1> DEFINE n == Len(Operands(Top.expr))
           v == ValueOf(Top.expr, Arguments(n))
           next == Complete(n, v)
<1>1. Step(0, next) /\ interp.control # <<>> /\ Top.task \in Closers
  BY DEF ApplyOperator, Doing, Closers, Composite
<1>2. IsError(next) \/ Kept(interp, next, Setting)
  BY <1>1, CloseKept
<1> QED
  BY <1>1, <1>2, StepKeeps

\* A task of the same expression takes the place of the first one, alone or with
\* an expression to evaluate before it.
LEMMA ReplacedTask ==
    ASSUME IInv, interp.control # <<>>, Top.task \in Closers,
           NEW t, t.task \in Closers, HeldBy(t)
    PROVE  /\ Kept(interp, Push(<<t>>), Setting)
           /\ \A n : Kept(interp, Take(n, <<t>>), Setting)
           /\ \A e \in Setting.parts.exprs : \A env :
                  /\ Kept(interp, Push(<<Evaluate(e, env), t>>), Setting)
                  /\ \A n : Kept(interp, Take(n, <<Evaluate(e, env), t>>), Setting)
<1> DEFINE c == <<t>> \o Rest
<1>1. /\ Continues(Rest) /\ Enclosed(Rest) /\ IsSequence(Rest)
      /\ Depth(Rest) \in Nat /\ Depth(Rest) + 1 = interp.expression_depth
      /\ Depth(Rest) < limits.expression_depth
  BY OpenFacts
<1>2. /\ Continues(c) /\ Enclosed(c) /\ Depth(c) = Depth(Rest) + 1
  BY <1>1, ExpressionMore DEF Opens, ExpressionTasks
<1>3. ASSUME NEW tasks, Continues(tasks \o Rest),
             Depth(tasks \o Rest) = interp.expression_depth
      PROVE  /\ Kept(interp, Push(tasks), Setting)
             /\ \A n : Kept(interp, Take(n, tasks), Setting)
  BY <1>3, PushKept
<1>4. /\ Kept(interp, Push(<<t>>), Setting)
      /\ \A n : Kept(interp, Take(n, <<t>>), Setting)
  <2> DEFINE tasks == <<t>>
  <2>1. Continues(tasks \o Rest) /\ Depth(tasks \o Rest) = interp.expression_depth
    BY <1>1, <1>2
  <2> HIDE DEF tasks
  <2>2. /\ Kept(interp, Push(tasks), Setting)
        /\ \A n : Kept(interp, Take(n, tasks), Setting)
    BY <1>3, <2>1
  <2> QED
    BY <2>2 DEF tasks
<1>5. ASSUME NEW e \in Setting.parts.exprs, NEW env
      PROVE  /\ Kept(interp, Push(<<Evaluate(e, env), t>>), Setting)
             /\ \A n : Kept(interp, Take(n, <<Evaluate(e, env), t>>), Setting)
  <2> DEFINE d == <<Evaluate(e, env)>> \o c
             tasks == <<Evaluate(e, env), t>>
  <2>1. tasks \o Rest = d
    BY <1>1, TwoTasks DEF c
  <2> HIDE DEF c
  <2>2. Continues(d) /\ Depth(d) = Depth(c) + 0
    BY <1>2, EvaluateHeld, ExpressionMore
  <2> HIDE DEF d, tasks
  <2>3. Continues(tasks \o Rest) /\ Depth(tasks \o Rest) = interp.expression_depth
    BY <1>1, <1>2, <2>1, <2>2
  <2>4. /\ Kept(interp, Push(tasks), Setting)
        /\ \A n : Kept(interp, Take(n, tasks), Setting)
    BY <1>3, <2>3
  <2> QED
    BY <2>4 DEF tasks
<1> QED
  BY <1>4, <1>5

\* A logical operator goes on with its right side, or closes.
LEMMA LogicalKeeps == ASSUME IInv, ApplyLogical PROVE IInv'
<1> DEFINE e == Top.expr
           v == Operand
           t == Then("boolean", e, Top.env)
           more == Take(1, <<Evaluate(e.right, Top.env), t>>)
           next == IF v.type # "bool" THEN Error("Not a boolean")
                   ELSE IF v.bool = (e.operator = "||") THEN Complete(1, v)
                   ELSE more
<1>1. Step(0, next) /\ interp.control # <<>> /\ Top.task = "Binary"
  BY DEF ApplyLogical, Doing
<1>2. Top.task \in Closers
  BY <1>1 DEF Closers, Composite
<1>3. e \in Setting.parts.exprs /\ e.kind = "Binary"
  BY <1>1, NextTask DEF HeldBy, Holds, Composite
<1>4. e.right \in Setting.parts.exprs
  <2>1. Operands(e) = <<e.left, e.right>>
    BY <1>3 DEF Operands
  <2>2. \A k \in DOMAIN Operands(e) : Operands(e)[k] \in Setting.parts.exprs
    BY <1>3, TreeFacts DEF IsExpression, Range
  <2> QED
    BY <2>1, <2>2
<1>5. t.task \in Closers /\ HeldBy(t)
  BY DEF Then, Closers, HeldBy, Holds, Composite
<1> HIDE DEF e, t, v
<1>6. Kept(interp, more, Setting)
  BY <1>1, <1>2, <1>4, <1>5, ReplacedTask
<1>7. IsError(Complete(1, v)) \/ Kept(interp, Complete(1, v), Setting)
  BY <1>1, <1>2, CloseKept
<1>8. IsError(next) \/ Kept(interp, next, Setting)
  BY <1>6, <1>7 DEF Error, IsError
<1> QED
  BY <1>1, <1>8, StepKeeps

\* The right side of a logical operator closes it.
LEMMA BooleanKeeps == ASSUME IInv, CheckBoolean PROVE IInv'
<1> DEFINE v == Operand
           next == IF v.type # "bool" THEN Error("Not a boolean")
                   ELSE Complete(1, v)
<1>1. Step(0, next) /\ interp.control # <<>> /\ Top.task \in Closers
  BY DEF CheckBoolean, Doing, Closers
<1> HIDE DEF v
<1>2. IsError(Complete(1, v)) \/ Kept(interp, Complete(1, v), Setting)
  BY <1>1, CloseKept
<1>3. IsError(next) \/ Kept(interp, next, Setting)
  BY <1>2 DEF Error, IsError
<1> QED
  BY <1>1, <1>3, StepKeeps

\* The value of a call closes it.
LEMMA FinishCallKeeps == ASSUME IInv, FinishCall PROVE IInv'
<1> DEFINE next == Complete(1, Operand)
<1>1. Step(0, next) /\ interp.control # <<>> /\ Top.task \in Closers
  BY DEF FinishCall, Doing, Closers
<1>2. IsError(next) \/ Kept(interp, next, Setting)
  BY <1>1, CloseKept
<1> QED
  BY <1>1, <1>2, StepKeeps

\* The answer of the runtime closes a network expression.
LEMMA NetworkKeeps == ASSUME IInv, ApplyNetwork PROVE IInv'
<1> DEFINE n == Len(Operands(Top.expr))
<1>1. interp.control # <<>> /\ Top.task \in Closers
  BY DEF ApplyNetwork, Doing, Closers, Composite
<1>2. \/ Step(0, Error("Invalid configuration"))
      \/ \E answer \in Answers(Top.expr) : Step(0, Complete(n, answer))
  BY DEF ApplyNetwork
<1>3. CASE Step(0, Error("Invalid configuration"))
  <2> DEFINE next == Error("Invalid configuration")
  <2>1. IsError(next)
    BY DEF Error, IsError
  <2> QED
    BY <1>3, <2>1, StepKeeps
<1>4. ASSUME NEW answer, Step(0, Complete(n, answer)) PROVE IInv'
  <2> DEFINE next == Complete(n, answer)
  <2>1. IsError(next) \/ Kept(interp, next, Setting)
    BY <1>1, CloseKept
  <2> QED
    BY <1>4, <2>1, StepKeeps
<1> QED
  BY <1>2, <1>3, <1>4

\* The configuration is evaluated after the URL is checked.
LEMMA RequestKeeps == ASSUME IInv, ApplyRequest PROVE IInv'
<1> DEFINE e == Top.expr
           v == Operand
           env == Top.env
           p == EvaluateAll(e.config, env)
           t == Then("request", e, env)
           next == IF v.type # "string" THEN Error("Not a string")
                   ELSE Push(p \o <<t>>)
<1>1. Step(0, next) /\ interp.control # <<>> /\ Top.task = "Request"
  BY DEF ApplyRequest, Doing
<1>2. Top.task \in Closers
  BY <1>1 DEF Closers, Composite
<1>3. e \in Setting.parts.exprs /\ e.kind = "Request"
  BY <1>1, NextTask DEF HeldBy, Holds, Composite
<1>4. /\ IsSequence(e.config)
      /\ \A k \in DOMAIN e.config : e.config[k] \in Setting.parts.exprs
  BY <1>3, TreeFacts DEF IsExpression, Range
<1>5. t.task \in Closers /\ HeldBy(t)
  BY DEF Then, Closers, HeldBy, Holds, Composite
<1> HIDE DEF e, t, v, env
<1>6. /\ IsSequence(p)
      /\ \A j \in DOMAIN p : /\ p[j].task = "evaluate"
                             /\ p[j].expr \in Setting.parts.exprs
  <2> DEFINE es == e.config
  <2>1. IsSequence(es) /\ \A k \in DOMAIN es : es[k] \in Setting.parts.exprs
    BY <1>4
  <2> HIDE DEF es
  <2>2. /\ IsSequence(EvaluateAll(es, env))
        /\ DOMAIN EvaluateAll(es, env) = DOMAIN es
        /\ \A k \in DOMAIN es : EvaluateAll(es, env)[k] = Evaluate(es[k], env)
    BY <2>1, EvaluateAllFacts
  <2>3. p = EvaluateAll(es, env)
    BY DEF es
  <2> HIDE DEF p
  <2>4. ASSUME NEW j \in DOMAIN p
        PROVE  p[j].task = "evaluate" /\ p[j].expr \in Setting.parts.exprs
    BY <2>1, <2>2, <2>3 DEF Evaluate
  <2> QED
    BY <2>2, <2>3, <2>4
<1> HIDE DEF p
<1>7. /\ Continues((p \o <<t>>) \o Rest)
      /\ Depth((p \o <<t>>) \o Rest) = Depth(Rest) + 1
  BY <1>1, <1>2, <1>5, <1>6, OpenFacts, OperandsBefore
<1>8. Depth(Rest) + 1 = interp.expression_depth
  BY <1>1, <1>2, OpenFacts
<1>9. Kept(interp, Push(p \o <<t>>), Setting)
  BY <1>7, <1>8, PushKept
<1>10. IsError(next) \/ Kept(interp, next, Setting)
  BY <1>9 DEF Error, IsError
<1> QED
  BY <1>1, <1>10, StepKeeps

----------------------------------------------------------------------------
(* Assignment *)

\* The parts of a target are expressions of the program.
LEMMA TargetFacts ==
    ASSUME IInv, NEW t \in Setting.parts.exprs
    PROVE  /\ t.kind \in {"Property", "Index"} => t.object \in Setting.parts.exprs
           /\ t.kind = "Index" => t.index \in Setting.parts.exprs
<1>1. \A k \in DOMAIN Operands(t) : Operands(t)[k] \in Setting.parts.exprs
  BY TreeFacts DEF IsExpression, Range
<1>2. CASE t.kind = "Property"
  <2>1. Operands(t) = <<t.object>>
    BY <1>2 DEF Operands
  <2> QED
    BY <1>1, <1>2, <2>1
<1>3. CASE t.kind = "Index"
  <2>1. Operands(t) = <<t.object, t.index>>
    BY <1>3 DEF Operands
  <2> QED
    BY <1>1, <1>3, <2>1
<1> QED
  BY <1>2, <1>3

\* An assignment resolves its target first.
LEMMA AssignmentKeeps == ASSUME IInv, EvaluateAssignment PROVE IInv'
<1> DEFINE e == Top.expr
           t == TargetTask(e, Top.env, e.target, <<>>)
           next == Open(<<t>>)
<1>1. Step(1, next) /\ interp.control # <<>> /\ Top.task = "evaluate"
      /\ e.kind = "Assignment"
  BY DEF EvaluateAssignment, Doing
<1>2. e \in Setting.parts.exprs
  BY <1>1, NextTask DEF HeldBy, Holds
<1>3. e.target \in Setting.parts.exprs /\ e.value \in Setting.parts.exprs
  BY <1>1, <1>2, TreeFacts DEF IsExpression
<1>4. t.task = "target" /\ t.expr = e /\ t.target = e.target /\ t.path = <<>>
  BY DEF TargetTask
<1> HIDE DEF t, e
<1>5. t.task \in ExpressionTasks /\ t.task \in Closers /\ Opens(t) = 1
  BY <1>4 DEF ExpressionTasks, Closers, Opens
<1>6. HeldBy(t)
  <2>1. IsSequence(t.path) /\ DOMAIN t.path = {}
    BY <1>4, EmptyFacts
  <2> QED
    BY <1>3, <1>4, <2>1 DEF HeldBy, Holds, Composite
<1> DEFINE tasks == <<t>>
<1>7. ~Deep => /\ Continues(tasks \o Rest)
               /\ Depth(tasks \o Rest) = interp.expression_depth + 1
  BY <1>1, <1>5, <1>6, OperandsOpened, ExpressionMore
<1> HIDE DEF tasks
<1>8. IsError(Open(tasks)) \/ Kept(interp, Open(tasks), Setting)
  BY <1>1, <1>7, OpenKept
<1>9. IsError(next) \/ Kept(interp, next, Setting)
  BY <1>8 DEF tasks
<1> QED
  BY <1>1, <1>9, StepKeeps

\* A target goes on with its object, or ends in the place of a name.
LEMMA TargetKeeps == ASSUME IInv, ResolveTarget PROVE IInv'
<1> DEFINE e == Top.expr
           t == Top.target
           env == Top.env
           path == Top.path
           s == SelectTask(e, env, path, Place(Slot(env, t.name), <<>>))
           o == TargetTask(e, env, t.object, <<t>> \o path)
           unknown == DepthOf(env, t.name) = 0
           next == CASE t.kind = "Identifier" ->
                            IF unknown THEN Error("Undefined name") ELSE Push(<<s>>)
                     [] t.kind \in {"Property", "Index"} -> Push(<<o>>)
                     [] OTHER -> Error("Invalid target")
<1>1. Step(1, next) /\ interp.control # <<>> /\ Top.task = "target"
  BY DEF ResolveTarget, Doing
<1>2. /\ e.value \in Setting.parts.exprs /\ t \in Setting.parts.exprs
      /\ IsSequence(path)
      /\ \A k \in DOMAIN path : /\ path[k] \in Setting.parts.exprs
                                /\ path[k].kind \in {"Property", "Index"}
  BY <1>1, NextTask DEF HeldBy, Holds
<1>3. Top.task \in Closers
  BY <1>1 DEF Closers
<1>4. /\ s.task = "select" /\ s.expr = e /\ s.path = path
      /\ DOMAIN s = {"task", "expr", "env", "path", "place"}
  <2> HIDE DEF e, env, path
  <2> QED
    BY DEF SelectTask
<1>5. o.task = "target" /\ o.expr = e /\ o.target = t.object /\ o.path = <<t>> \o path
  <2> HIDE DEF e, env, path
  <2> QED
    BY DEF TargetTask
<1> HIDE DEF e, t, env, path, s, o, unknown
<1>6. s.task \in Closers /\ HeldBy(s)
  BY <1>2, <1>4 DEF Closers, HeldBy, Holds, Composite
<1>7. Kept(interp, Push(<<s>>), Setting)
  BY <1>1, <1>3, <1>6, ReplacedTask
<1>8. t.kind \in {"Property", "Index"} => Kept(interp, Push(<<o>>), Setting)
  <2> SUFFICES ASSUME t.kind \in {"Property", "Index"}
               PROVE  Kept(interp, Push(<<o>>), Setting)
    OBVIOUS
  <2>1. t.object \in Setting.parts.exprs
    BY <1>2, TargetFacts
  <2> DEFINE q == <<t>> \o path
  <2>2. /\ IsSequence(q) /\ Len(q) = 1 + Len(path) /\ q[1] = t
        /\ \A k \in 1 .. Len(path) : q[1 + k] = path[k]
    BY <1>2, ConsFacts
  <2>3. DOMAIN q = 1 .. Len(q) /\ DOMAIN path = 1 .. Len(path) /\ Len(path) \in Nat
    BY <1>2, <2>2, SequenceFacts
  <2>4. o.path = q
    BY <1>5
  <2> HIDE DEF q
  <2>5. ASSUME NEW k \in DOMAIN q
        PROVE  q[k] \in Setting.parts.exprs /\ q[k].kind \in {"Property", "Index"}
    <3>1. CASE k = 1
      BY <1>2, <2>2, <3>1
    <3>2. CASE k # 1
      <4>1. k - 1 \in 1 .. Len(path) /\ k = 1 + (k - 1)
        BY <2>2, <2>3, <3>2
      <4>2. q[k] = path[k - 1]
        BY <2>2, <4>1
      <4> QED
        BY <1>2, <2>3, <4>1, <4>2
    <3> QED
      BY <3>1, <3>2
  <2>6. o.task \in Closers /\ HeldBy(o)
    BY <1>2, <1>5, <2>1, <2>2, <2>4, <2>5 DEF Closers, HeldBy, Holds, Composite
  <2> QED
    BY <1>1, <1>3, <2>6, ReplacedTask
<1>9. IsError(next) \/ Kept(interp, next, Setting)
  BY <1>7, <1>8 DEF Error, IsError
<1> HIDE DEF next
<1> QED
  BY <1>1, <1>9, StepKeeps

\* The rest of the path, with one more selector.
LEMMA SelectedHeld ==
    ASSUME IInv, interp.control # <<>>, Top.task \in {"select", "index"},
           Top.path # <<>>, NEW selector
    PROVE  /\ HeldBy(Selected(selector)) /\ Selected(selector).task \in Closers
           /\ Head(Top.path) \in Setting.parts.exprs
           /\ Head(Top.path).kind \in {"Property", "Index"}
<1> DEFINE path == Top.path
           s == Selected(selector)
<1>1. /\ Top.expr.value \in Setting.parts.exprs /\ IsSequence(path)
      /\ \A k \in DOMAIN path : /\ path[k] \in Setting.parts.exprs
                                /\ path[k].kind \in {"Property", "Index"}
  BY NextTask DEF HeldBy, Holds
<1>2. /\ s.task = "select" /\ s.expr = Top.expr /\ s.path = Tail(path)
      /\ DOMAIN s = {"task", "expr", "env", "path", "place"}
  BY DEF Selected, SelectTask
<1> HIDE DEF path, s
<1>3. /\ IsSequence(Tail(path)) /\ Len(Tail(path)) = Len(path) - 1
      /\ \A k \in 1 .. Len(path) - 1 : Tail(path)[k] = path[k + 1]
      /\ DOMAIN path = 1 .. Len(path) /\ Len(path) \in Nat
      /\ Head(path) = path[1] /\ 1 \in DOMAIN path
  <2>1. path # <<>> /\ IsSequence(path)
    BY <1>1 DEF path
  <2>2. /\ IsSequence(Tail(path)) /\ Len(Tail(path)) = Len(path) - 1
        /\ \A k \in 1 .. Len(path) - 1 : Tail(path)[k] = path[k + 1]
    BY <2>1, TailFacts
  <2>3. /\ DOMAIN path = 1 .. Len(path) /\ Len(path) \in Nat
        /\ Head(path) = path[1] /\ Len(path) # 0
    BY <2>1, SequenceFacts
  <2>4. 1 \in DOMAIN path
    BY <2>3
  <2> QED
    BY <2>2, <2>3, <2>4
<1>4. DOMAIN Tail(path) = 1 .. Len(path) - 1
  BY <1>3, SequenceFacts
<1>5. ASSUME NEW k \in DOMAIN Tail(path)
      PROVE  /\ Tail(path)[k] \in Setting.parts.exprs
             /\ Tail(path)[k].kind \in {"Property", "Index"}
  <2>1. k + 1 \in DOMAIN path /\ Tail(path)[k] = path[k + 1]
    BY <1>3, <1>4
  <2> QED
    BY <1>1, <2>1
<1>6. HeldBy(s) /\ s.task \in Closers
  BY <1>1, <1>2, <1>3, <1>5 DEF HeldBy, Holds, Composite, Closers
<1> QED
  BY <1>1, <1>3, <1>6 DEF path, s

\* A property is selected at once, an index after its value.
LEMMA SelectKeeps == ASSUME IInv, SelectTarget PROVE IInv'
<1> DEFINE t == Head(Top.path)
           s == Selected(StringValue(t.name))
           i == [Top EXCEPT !.task = "index"]
           env == Top.env
           first == t.kind = "Property"
           next == Push(IF first THEN <<s>> ELSE <<Evaluate(t.index, env), i>>)
<1>1. Step(0, next) /\ interp.control # <<>> /\ Top.task = "select" /\ Top.path # <<>>
  BY DEF SelectTarget, Doing
<1>2. Top.task \in Closers
  BY <1>1 DEF Closers
<1>3. /\ HeldBy(s) /\ s.task \in Closers /\ t \in Setting.parts.exprs
      /\ t.kind \in {"Property", "Index"}
  BY <1>1, SelectedHeld
<1>4. HeldBy(Top)
  BY <1>1, NextTask
<1>5. HeldBy(i) /\ i.task \in Closers
  <2>1. DOMAIN Top = {"task", "expr", "env", "path", "place"}
    BY <1>1, <1>4 DEF HeldBy, Holds
  <2>2. i.task = "index" /\ i.expr = Top.expr /\ i.path = Top.path
    BY <2>1
  <2> HIDE DEF i
  <2> QED
    BY <1>1, <1>4, <2>2 DEF HeldBy, Holds, Composite, Closers
<1> HIDE DEF i, s, t, env
<1>6. ~first => t.index \in Setting.parts.exprs
  BY <1>3, TargetFacts
<1>7. Kept(interp, Push(<<s>>), Setting)
  BY <1>1, <1>2, <1>3, ReplacedTask
<1>8. ~first => Kept(interp, Push(<<Evaluate(t.index, env), i>>), Setting)
  BY <1>1, <1>2, <1>5, <1>6, ReplacedTask
<1> HIDE DEF first
<1>9. Kept(interp, next, Setting)
  BY <1>7, <1>8
<1> HIDE DEF next
<1> QED
  BY <1>1, <1>9, StepKeeps

\* The value of an index selects.
LEMMA SelectIndexKeeps == ASSUME IInv, SelectIndex PROVE IInv'
<1> DEFINE s == Selected(Operand)
           next == Take(1, <<s>>)
<1>1. Step(0, next) /\ interp.control # <<>> /\ Top.task = "index"
  BY DEF SelectIndex, Doing
<1>2. Top.path # <<>>
  BY <1>1, NextTask DEF HeldBy, Holds
<1>3. HeldBy(s) /\ s.task \in Closers /\ Top.task \in Closers
  BY <1>1, <1>2, SelectedHeld DEF Closers
<1> HIDE DEF s
<1>4. Kept(interp, next, Setting)
  BY <1>1, <1>3, ReplacedTask
<1> HIDE DEF next
<1> QED
  BY <1>1, <1>4, StepKeeps

\* The value is evaluated first, then the root is loaded.
LEMMA WritableKeeps == ASSUME IInv, CheckWritable PROVE IInv'
<1> DEFINE e == Top.expr
           v == Top.place
           l == LoadTask(e, v)
           pushed == Push(<<Evaluate(e.value, Top.env), l>>)
           next == IfWritable(v, pushed)
<1>1. Step(0, next) /\ interp.control # <<>> /\ Top.task = "select"
  BY DEF CheckWritable, Doing
<1>2. Top.task \in Closers
  BY <1>1 DEF Closers
<1>3. e.value \in Setting.parts.exprs
  BY <1>1, NextTask DEF HeldBy, Holds
<1>4. l.task = "load" /\ l.place = v
  BY DEF LoadTask
<1> HIDE DEF v, l
<1>5. ~(v.slot <= interp.captured_bindings) => Kept(interp, pushed, Setting)
  <2> SUFFICES ASSUME ~(v.slot <= interp.captured_bindings)
               PROVE  Kept(interp, pushed, Setting)
    OBVIOUS
  <2>1. interp.captured_bindings \in Nat
    BY GivenFacts, SequenceFacts DEF Machine, Base
  <2>2. v.slot \notin 1 .. interp.captured_bindings
    BY <2>1
  <2>3. l.task \in Closers /\ HeldBy(l)
    BY <1>4, <2>2 DEF Closers, HeldBy, Holds, Composite
  <2> QED
    BY <1>1, <1>2, <1>3, <2>3, ReplacedTask
<1> HIDE DEF pushed
<1>6. IsError(next) \/ Kept(interp, next, Setting)
  BY <1>5 DEF IfWritable, Error, IsError
<1> HIDE DEF next
<1> QED
  BY <1>1, <1>6, StepKeeps

\* The root is loaded for the store.
LEMMA LoadKeeps == ASSUME IInv, LoadRoot PROVE IInv'
<1> DEFINE root == Root(Top.place)
           t == StoreTask(Top.expr, Top.place, root)
           next == IF IsError(root) THEN root ELSE Push(<<t>>)
<1>1. Step(0, next) /\ interp.control # <<>> /\ Top.task = "load"
  BY DEF LoadRoot, Doing
<1>2. t.task = "store" /\ t.place = Top.place
  BY DEF StoreTask
<1>3. Top.place.slot \notin 1 .. interp.captured_bindings
  BY <1>1, NextTask DEF HeldBy, Holds
<1> HIDE DEF root, t
<1>4. HeldBy(t) /\ t.task \in Closers /\ Top.task \in Closers
  BY <1>1, <1>2, <1>3 DEF HeldBy, Holds, Composite, Closers
<1>5. Kept(interp, Push(<<t>>), Setting)
  BY <1>1, <1>4, ReplacedTask
<1>6. IsError(next) \/ Kept(interp, next, Setting)
  BY <1>5
<1> HIDE DEF next
<1> QED
  BY <1>1, <1>6, StepKeeps

\* A binding gets another value, but none that a worker captured.
LEMMA BoundKept ==
    ASSUME IInv, NEW j, Kept(interp, j, Setting), j.bindings = interp.bindings,
           NEW id, id \notin 1 .. interp.captured_bindings, NEW value
    PROVE  Kept(interp, [j EXCEPT !.bindings[id].value = value], Setting)
<1> DEFINE b == interp.bindings
           x == [b[id] EXCEPT !.value = value]
           c == [b EXCEPT ![id] = x]
           q == [j EXCEPT !.bindings = c]
<1>1. /\ IsSequence(b) /\ interp.captured_bindings \in 0 .. Len(b)
      /\ Machine(j, Setting) /\ Base(j, Setting) /\ Shape(j)
  BY GivenFacts DEF Kept, Machine, Base
<1>2. q = [j EXCEPT !.bindings[id].value = value]
  BY <1>1 DEF Shape
<1>3. /\ Shape(q) /\ q.bindings = c /\ q.functions = j.functions
      /\ q.control = j.control /\ q.expression_depth = j.expression_depth
      /\ q.call_stack = j.call_stack
      /\ q.captured_bindings = j.captured_bindings
      /\ q.in_parallel_worker = j.in_parallel_worker
      /\ q.return_type = j.return_type /\ q.output = j.output
  BY <1>1 DEF Shape
<1> HIDE DEF b, x
<1>4. /\ IsSequence(c) /\ Len(c) = Len(b)
      /\ \A k \in 1 .. Len(b) : k # id => c[k] = b[k]
  <2>1. IsSequence(b)
    BY <1>1
  <2>2. /\ IsSequence([b EXCEPT ![id] = x]) /\ Len([b EXCEPT ![id] = x]) = Len(b)
        /\ \A m \in 1 .. Len(b) : m # id => [b EXCEPT ![id] = x][m] = b[m]
    BY <2>1, ExceptSequence, SMTT(30)
  <2> QED
    BY <2>2
<1> HIDE DEF c, q
<1>5. \A k \in 1 .. interp.captured_bindings : c[k] = b[k]
  <2>1. Len(b) \in Nat
    BY <1>1, SequenceFacts
  <2> QED
    BY <1>1, <1>4, <2>1
<1>6. Base(q, Setting)
  BY <1>1, <1>3, <1>4 DEF Base, Kept, b
<1>7. Machine(q, Setting)
  BY <1>1, <1>3, <1>6 DEF Machine
<1> QED
  BY <1>2, <1>3, <1>5, <1>7 DEF Kept, Inherited, b

\* The store writes to a binding that no worker captured.
LEMMA StoreKeeps == ASSUME IInv, Store PROVE IInv'
<1> DEFINE e == Top.expr
           id == Top.place.slot
           t == interp.bindings[id].annotation
           next(root) == IF IsError(root) THEN root
                         ELSE IF ~HasType(t, root) THEN TypeError(e.value, t)
                         ELSE [Close(1, Operand)
                                   EXCEPT !.bindings[id].value = <<root>>]
<1>1. interp.control # <<>> /\ Top.task = "store" /\ \E root : Step(0, next(root))
  BY DEF Store, Doing
<1>2. PICK root : Step(0, next(root))
  BY <1>1
<1>3. Top.task \in Closers /\ id \notin 1 .. interp.captured_bindings
  BY <1>1, NextTask DEF Closers, HeldBy, Holds
<1> DEFINE j == Close(1, Operand)
           stored == [j EXCEPT !.bindings[id].value = <<root>>]
<1>4. Kept(interp, j, Setting)
  BY <1>1, <1>3, CloseKept
<1>5. j.bindings = interp.bindings
  BY GivenFacts DEF Close, Shape
<1> HIDE DEF j, id, t
<1>6. Kept(interp, stored, Setting)
  BY <1>3, <1>4, <1>5, BoundKept
<1>7. next(root) = IF IsError(root) THEN root
                   ELSE IF ~HasType(t, root) THEN TypeError(e.value, t) ELSE stored
  BY DEF j
<1> HIDE DEF stored
<1>8. IsError(next(root)) \/ Kept(interp, next(root), Setting)
  BY <1>6, <1>7 DEF TypeError, IsError
<1> HIDE DEF next
<1> QED
  BY <1>2, <1>8, StepKeeps

----------------------------------------------------------------------------
(* Bodies *)

\* The slots of a body are new ones.
LEMMA DeclaredSlots ==
    ASSUME NEW body, IsSequence(body), NEW declared \in SUBSET DOMAIN body,
           NEW n \in Nat, NEW k \in declared
    PROVE  n + Cardinality({j \in declared : j <= k}) \in Nat
           /\ n + Cardinality({j \in declared : j <= k}) > n
<1> DEFINE S == {j \in declared : j <= k}
<1>1. DOMAIN body = 1 .. Len(body) /\ Len(body) \in Nat
  BY SequenceFacts
<1>2. IsFiniteSet(1 .. Len(body)) /\ S \subseteq 1 .. Len(body)
  BY <1>1, FS_Interval
<1>3. IsFiniteSet(S)
  BY <1>2, FS_Subset
<1>4. k \in S
  BY <1>1
<1> HIDE DEF S
<1>5. Cardinality(S) \in Nat /\ Cardinality(S) # 0
  BY <1>3, <1>4, FS_CardinalityType, FS_EmptySet
<1> QED
  BY <1>5 DEF S

\* The statements of a body may stand before anything enclosed.
LEMMA StatementsPlaced ==
    ASSUME NEW t, t.task = "statements", NEW rest, Enclosed(rest), Depth(rest) = 0
    PROVE  Placed(t, rest) /\ t.task # "call" /\ t.task \notin Closers
  BY DEF Placed, Frames, Closers, Composite

\* A body begins: its bindings and functions follow those there were.
LEMMA BeginFacts ==
    ASSUME IInv, NEW i, Base(i, Setting), i.expression_depth = 0,
           NEW body \in Setting.parts.bodies, NEW env, NEW rest,
           Ready(rest, i.captured_bindings, i.in_parallel_worker, Setting),
           Enclosed(rest), Depth(rest) = 0
    PROVE  LET j == Begin(i, body, env, rest)
           IN  /\ Machine(j, Setting)
               /\ j.captured_bindings = i.captured_bindings
               /\ j.in_parallel_worker = i.in_parallel_worker
               /\ j.call_stack = i.call_stack
               /\ \A k \in 1 .. Len(i.bindings) : j.bindings[k] = i.bindings[k]
               /\ Cardinality(CallsIn(j.control)) = Cardinality(CallsIn(rest))
<1> DEFINE lets == {k \in DOMAIN body : body[k].kind = "Let"}
           functions == {k \in DOMAIN body : body[k].kind = "Function"}
           declared == lets \cup functions
           slot(k) == Len(i.bindings) + Cardinality({j \in declared : j <= k})
           scope(ks) == [x \in {body[k].name : k \in ks} |->
                            slot(Max({k \in ks : body[k].name = x}))]
           visible == Extend(env, scope(functions))
           closure(k) == Extend(visible, scope(Earlier(body, k)))
           binding(k) ==
               IF k \in lets
               THEN Binding(<<>>, TypeOf(analysis, body[k].annotation), TRUE)
               ELSE Binding(<<FunctionValue(slot(k))>>, NoType, FALSE)
           function(k) ==
               [name |-> body[k].name, parameters |-> body[k].parameters,
                returns |-> TypeOf(analysis, body[k].annotation),
                body |-> body[k].body, closure |-> closure(k)]
           at(ks, id) == CHOOSE k \in ks : slot(k) = id
           bs == [n \in 1 .. Cardinality(declared) |->
                     binding(at(declared, Len(i.bindings) + n))]
           fs == [id \in {slot(k) : k \in functions} |-> function(at(functions, id))]
           todo == [k \in DOMAIN body |-> [statement |-> body[k], slot |-> slot(k)]]
           t == [task |-> "statements", env |-> visible, todo |-> todo]
           j == Begin(i, body, env, rest)
<1>1. j = [i EXCEPT !.bindings = @ \o bs, !.functions = Merged(@, fs),
                    !.control = <<t>> \o rest]
  BY DEF Begin
<1>2. /\ IsSequence(body) /\ DOMAIN body = 1 .. Len(body) /\ Len(body) \in Nat
      /\ \A k \in DOMAIN body : IsStatement(body[k], Setting.parts)
  BY TreeFacts, SequenceFacts
<1>3. /\ IsSequence(i.bindings) /\ Len(i.bindings) \in Nat
      /\ i.captured_bindings \in 0 .. Len(i.bindings) /\ Shape(i)
  BY SequenceFacts DEF Base
<1>4. \A k \in declared : slot(k) \notin 1 .. i.captured_bindings
  <2>1. ASSUME NEW k \in declared PROVE slot(k) \notin 1 .. i.captured_bindings
    <3> DEFINE n == Len(i.bindings)
    <3>1. n \in Nat /\ declared \in SUBSET DOMAIN body
      BY <1>3
    <3> HIDE DEF declared, n
    <3>2. n + Cardinality({m \in declared : m <= k}) \in Nat
          /\ n + Cardinality({m \in declared : m <= k}) > n
      BY <1>2, <2>1, <3>1, DeclaredSlots
    <3>3. slot(k) \in Nat /\ slot(k) > Len(i.bindings)
      BY <3>2 DEF n
    <3> HIDE DEF slot
    <3> QED
      BY <1>3, <3>3
  <2> QED
    BY <2>1
<1>5. IsSequence(bs)
  <2> DEFINE n == Cardinality(declared)
  <2>1. n \in Nat
    <3>1. declared \subseteq 1 .. Len(body) /\ IsFiniteSet(1 .. Len(body))
      BY <1>2, FS_Interval, SMTT(30)
    <3> HIDE DEF declared
    <3> QED
      BY <3>1, FS_Subset, FS_CardinalityType
  <2> HIDE DEF binding, at, declared
  <2>2. DOMAIN bs = 1 .. n /\ bs = [m \in DOMAIN bs |-> bs[m]]
    OBVIOUS
  <2> HIDE DEF bs, n
  <2> QED
    BY <2>1, <2>2, FunctionSequence
<1>6. \A id \in DOMAIN fs : /\ fs[id].returns \in Setting.types
                            /\ fs[id].body \in Setting.parts.bodies
  <2>1. ASSUME NEW id \in DOMAIN fs
        PROVE  fs[id].returns \in Setting.types /\ fs[id].body \in Setting.parts.bodies
    <3> DEFINE k == at(functions, id)
    <3>1. k \in functions
      <4> HIDE DEF slot
      <4> QED
        BY <2>1
    <3>2. fs[id] = function(k)
      <4> HIDE DEF slot, k, function
      <4> QED
        BY <2>1, SMTT(30) DEF k
    <3> HIDE DEF k, closure
    <3>3. fs[id].returns = TypeOf(analysis, body[k].annotation)
          /\ fs[id].body = body[k].body
      BY <3>2
    <3>4. body[k].kind = "Function" /\ k \in DOMAIN body
      BY <3>1
    <3>5. body[k].body \in Setting.parts.bodies
      BY <1>2, <3>4 DEF IsStatement
    <3>6. TypeOf(analysis, body[k].annotation) \in Types
      BY DEF TypeOf, Resolves, Types
    <3> HIDE DEF fs
    <3> QED
      BY <3>3, <3>5, <3>6, GivenFacts
  <2> QED
    BY <2>1
<1>7. /\ t.task = "statements" /\ DOMAIN t = {"task", "env", "todo"}
      /\ IsSequence(t.todo)
      /\ \A k \in DOMAIN t.todo :
             /\ IsStatement(t.todo[k].statement, Setting.parts)
             /\ t.todo[k].statement.kind = "Let"
                    => t.todo[k].slot \notin 1 .. i.captured_bindings
  <2>1. t.task = "statements" /\ DOMAIN t = {"task", "env", "todo"} /\ t.todo = todo
    <3> HIDE DEF todo, visible
    <3> QED
      OBVIOUS
  <2>2. DOMAIN todo = DOMAIN body
        /\ \A k \in DOMAIN body : /\ todo[k].statement = body[k]
                                  /\ todo[k].slot = slot(k)
    <3> HIDE DEF slot
    <3> QED
      OBVIOUS
  <2>3. todo = [k \in DOMAIN todo |-> todo[k]]
    <3> HIDE DEF slot
    <3> QED
      OBVIOUS
  <2>4. \A k \in DOMAIN body : body[k].kind = "Let" => k \in declared
    OBVIOUS
  <2> HIDE DEF todo, t, slot, declared
  <2>5. IsSequence(todo)
    BY <1>2, <2>2, <2>3, FunctionSequence
  <2> QED
    BY <1>2, <1>4, <2>1, <2>2, <2>4, <2>5
<1> HIDE DEF t, fs, bs, lets, functions, declared, slot, j
<1>8. Holds(t, i.captured_bindings, i.in_parallel_worker, Setting)
  BY <1>7 DEF Holds, Composite
<1> DEFINE c == <<t>> \o rest
<1>9. Placed(t, rest) /\ t.task # "call" /\ t.task \notin Closers
  BY <1>7, StatementsPlaced
<1>10. Ready(c, i.captured_bindings, i.in_parallel_worker, Setting)
  BY <1>8, <1>9, OneReady
<1>11. IsSequence(rest) /\ Cardinality(CallsIn(rest)) \in Nat
  BY CountFacts DEF Ready
<1>12. Depth(c) = 0 /\ Cardinality(CallsIn(c)) = Cardinality(CallsIn(rest))
  <2>1. Depth(c) = Depth(rest)
    BY <1>9, <1>11, OneTask
  <2>2. Cardinality(CallsIn(c)) = Cardinality(CallsIn(rest)) + 0
    BY <1>9, <1>11, OneTask
  <2> QED
    BY <1>11, <2>1, <2>2
<1> HIDE DEF c
<1>13. /\ Shape(j) /\ j.bindings = i.bindings \o bs
       /\ j.functions = Merged(i.functions, fs) /\ j.control = c
       /\ j.expression_depth = 0 /\ j.call_stack = i.call_stack
       /\ j.captured_bindings = i.captured_bindings
       /\ j.in_parallel_worker = i.in_parallel_worker
       /\ j.return_type = i.return_type /\ j.output = i.output
  BY <1>1, <1>3 DEF Shape, c
<1>14. /\ IsSequence(j.bindings) /\ Len(j.bindings) = Len(i.bindings) + Len(bs)
       /\ \A k \in 1 .. Len(i.bindings) : j.bindings[k] = i.bindings[k]
       /\ Len(bs) \in Nat
  BY <1>3, <1>5, <1>13, ConcatFacts, SequenceFacts
<1>15. \A id \in DOMAIN j.functions :
           /\ j.functions[id].returns \in Setting.types
           /\ j.functions[id].body \in Setting.parts.bodies
  <2> DEFINE f == i.functions
  <2>1. \A id \in DOMAIN f : /\ f[id].returns \in Setting.types
                             /\ f[id].body \in Setting.parts.bodies
    BY DEF Base
  <2> HIDE DEF f
  <2>2. /\ DOMAIN Merged(f, fs) = DOMAIN f \cup DOMAIN fs
        /\ \A id \in DOMAIN f : Merged(f, fs)[id] = f[id]
        /\ \A id \in DOMAIN fs \ DOMAIN f : Merged(f, fs)[id] = fs[id]
    BY DEF Merged
  <2>3. j.functions = Merged(f, fs)
    BY <1>13 DEF f
  <2> QED
    BY <1>6, <2>1, <2>2, <2>3
<1>16. j.captured_bindings \in 0 .. Len(j.bindings)
  BY <1>3, <1>13, <1>14
<1>17. Base(j, Setting)
  BY <1>13, <1>14, <1>15, <1>16 DEF Base
<1>18. Machine(j, Setting)
  BY <1>10, <1>12, <1>13, <1>17, GivenFacts DEF Machine
<1> QED
  BY <1>12, <1>13, <1>14, <1>18 DEF j

\* A body begins in an interpreter that differs from the running one in nothing
\* that matters to those that wait for it.
LEMMA BodyKept ==
    ASSUME IInv, NEW i, Base(i, Setting), i.expression_depth = 0,
           i.captured_bindings = interp.captured_bindings,
           i.in_parallel_worker = interp.in_parallel_worker,
           i.call_stack = interp.call_stack,
           \A k \in 1 .. interp.captured_bindings :
               i.bindings[k] = interp.bindings[k],
           NEW body \in Setting.parts.bodies, NEW env, NEW rest,
           Continues(rest), Enclosed(rest), Depth(rest) = 0
    PROVE  Kept(interp, Begin(i, body, env, rest), Setting)
<1> DEFINE j == Begin(i, body, env, rest)
<1>1. Ready(rest, i.captured_bindings, i.in_parallel_worker, Setting)
  BY DEF Continues
<1>2. /\ Machine(j, Setting)
      /\ j.captured_bindings = i.captured_bindings
      /\ j.in_parallel_worker = i.in_parallel_worker
      /\ j.call_stack = i.call_stack
      /\ \A k \in 1 .. Len(i.bindings) : j.bindings[k] = i.bindings[k]
      /\ Cardinality(CallsIn(j.control)) = Cardinality(CallsIn(rest))
  BY <1>1, BeginFacts
<1> HIDE DEF j
<1>3. \A k \in 1 .. interp.captured_bindings : j.bindings[k] = interp.bindings[k]
  <2>1. Len(i.bindings) \in Nat /\ i.captured_bindings \in 0 .. Len(i.bindings)
    BY SequenceFacts DEF Base
  <2> QED
    BY <1>2, <2>1
<1>4. Inherited(j) = Inherited(interp)
  BY <1>2 DEF Inherited, Continues
<1>5. Kept(interp, j, Setting)
  BY <1>2, <1>3, <1>4 DEF Kept
<1> QED
  BY <1>5 DEF j

----------------------------------------------------------------------------
(* Calls *)

\* A call enters a function with a frame that will restore its caller.
LEMMA EnterKept ==
    ASSUME IInv, NEW i, Alike(interp, i), NEW e, NEW id, NEW vs, IsSequence(vs),
           NEW rest, Continues(rest), i.expression_depth = Depth(rest)
    PROVE  \/ IsError(EnterFunction(i, e, id, vs, rest))
           \/ Kept(interp, EnterFunction(i, e, id, vs, rest), Setting)
<1> DEFINE f == i.functions[id]
           t(k) == TypeOf(analysis, f.parameters[k].annotation)
           wrong == {k \in DOMAIN vs : ~HasType(t(k), vs[k])}
           slots == [k \in DOMAIN vs |-> Len(i.bindings) + k]
           scope == [x \in FieldNames(f.parameters) |->
               slots[Max({k \in DOMAIN vs : f.parameters[k].name = x})]]
           frame == [task |-> "call", depth |-> i.expression_depth,
                     return_type |-> i.return_type]
           bs == [k \in DOMAIN vs |-> Binding(<<vs[k]>>, t(k), TRUE)]
           entered == [i EXCEPT !.bindings = @ \o bs,
                                !.call_stack = Append(@, f.name),
                                !.expression_depth = 0,
                                !.return_type = f.returns]
           c == <<frame>> \o rest
           j == Begin(entered, f.body, Append(f.closure, scope), c)
           next == EnterFunction(i, e, id, vs, rest)
<1>1. \/ IsError(next)
      \/ /\ next = j /\ ~(Len(i.call_stack) >= limits.call_depth)
         /\ id \in DOMAIN i.functions
  <2>1. next = IF Len(i.call_stack) >= limits.call_depth THEN Error("Call depth")
               ELSE IF id \notin DOMAIN i.functions THEN Error("Invalid handle")
               ELSE IF Len(vs) # Len(f.parameters) THEN ArgumentCount(e)
               ELSE IF wrong # {}
               THEN TypeError(e.arguments[Min(wrong)], t(Min(wrong)))
               ELSE j
    BY DEF EnterFunction
  <2> HIDE DEF next, j, wrong, t
  <2> QED
    BY <2>1 DEF Error, ArgumentCount, TypeError, IsError
<1>2. CASE IsError(next)
  BY <1>2
<1>3. CASE /\ next = j /\ ~(Len(i.call_stack) >= limits.call_depth)
           /\ id \in DOMAIN i.functions
  <2>1. /\ Base(i, Setting) /\ Shape(i)
        /\ IsSequence(i.bindings) /\ Len(i.bindings) \in Nat
        /\ IsSequence(i.call_stack) /\ Len(i.call_stack) \in Nat
        /\ i.captured_bindings \in 0 .. Len(i.bindings)
        /\ limits.call_depth \in Nat
    <3>1. Base(i, Setting)
      BY GivenFacts DEF Alike, Base, Machine
    <3> QED
      BY <3>1, GivenFacts, SequenceFacts, SMTT(30) DEF Base
  <2>2. /\ f.returns \in Setting.types /\ f.body \in Setting.parts.bodies
    BY <1>3, <2>1 DEF Base
  <2>3. IsSequence(bs)
    <3>1. DOMAIN vs = 1 .. Len(vs) /\ Len(vs) \in Nat
      BY SequenceFacts
    <3> HIDE DEF t
    <3>2. DOMAIN bs = DOMAIN vs /\ bs = [k \in DOMAIN bs |-> bs[k]]
      OBVIOUS
    <3> HIDE DEF bs
    <3> QED
      BY <3>1, <3>2, FunctionSequence
  <2> HIDE DEF bs, f
  <2>4. /\ IsSequence(i.bindings \o bs)
        /\ Len(i.bindings \o bs) = Len(i.bindings) + Len(bs) /\ Len(bs) \in Nat
        /\ \A k \in 1 .. Len(i.bindings) : (i.bindings \o bs)[k] = i.bindings[k]
    BY <2>1, <2>3, ConcatFacts, SequenceFacts
  <2>5. /\ IsSequence(Append(i.call_stack, f.name))
        /\ Len(Append(i.call_stack, f.name)) = Len(i.call_stack) + 1
    BY <2>1, Appended
  <2>6. /\ Shape(entered) /\ entered.bindings = i.bindings \o bs
        /\ entered.functions = i.functions /\ entered.expression_depth = 0
        /\ entered.call_stack = Append(i.call_stack, f.name)
        /\ entered.captured_bindings = i.captured_bindings
        /\ entered.in_parallel_worker = i.in_parallel_worker
        /\ entered.return_type = f.returns /\ entered.output = i.output
    BY <2>1 DEF Shape
  <2> HIDE DEF entered
  <2>7. entered.captured_bindings \in 0 .. Len(entered.bindings)
    BY <2>1, <2>4, <2>6
  <2>8. Len(entered.call_stack) <= Setting.limits.call_depth
    <3>1. Len(i.call_stack) < limits.call_depth
      BY <1>3, <2>1
    <3>2. Len(i.call_stack) + 1 <= limits.call_depth
      BY <2>1, <3>1
    <3> QED
      BY <2>5, <2>6, <3>2, GivenFacts
  <2>9. Base(entered, Setting)
    BY <2>1, <2>2, <2>4, <2>5, <2>6, <2>7, <2>8 DEF Base
  <2>10. /\ frame.task = "call" /\ frame.depth = Depth(rest)
         /\ frame.return_type = i.return_type
    OBVIOUS
  <2> HIDE DEF frame
  <2>11. IsSequence(rest) /\ Depth(rest) \in 0 .. limits.expression_depth
         /\ Cardinality(CallsIn(rest)) \in Nat
    BY CountFacts DEF Continues, Ready
  <2>12. Placed(frame, rest)
    BY <2>10 DEF Placed, Frames, StatementTasks
  <2>13. HeldBy(frame)
    BY <2>1, <2>10, <2>11, GivenFacts DEF HeldBy, Holds, Composite, Base
  <2>14. Ready(c, interp.captured_bindings, interp.in_parallel_worker, Setting)
    BY <2>12, <2>13, OneReady DEF Continues, HeldBy
  <2>15. Ready(c, entered.captured_bindings, entered.in_parallel_worker, Setting)
    BY <2>6, <2>14 DEF Alike
  <2>16. Depth(c) = 0 /\ Cardinality(CallsIn(c)) = Cardinality(CallsIn(rest)) + 1
    BY <2>10, <2>11, OneTask
  <2>17. Enclosed(c)
    <3>1. IsSequence(c) /\ Len(c) = 1 + Len(rest) /\ c[1] = frame /\ Len(rest) \in Nat
      BY <2>11, ConsFacts, SequenceFacts
    <3> HIDE DEF c
    <3>2. 1 \in DOMAIN c
      BY <3>1, SequenceFacts, SMTT(30)
    <3> QED
      BY <2>10, <3>1, <3>2 DEF Enclosed, Frames
  <2> HIDE DEF c
  <2>18. /\ Machine(j, Setting)
         /\ j.captured_bindings = entered.captured_bindings
         /\ j.in_parallel_worker = entered.in_parallel_worker
         /\ j.call_stack = entered.call_stack
         /\ \A k \in 1 .. Len(entered.bindings) : j.bindings[k] = entered.bindings[k]
         /\ Cardinality(CallsIn(j.control)) = Cardinality(CallsIn(c))
    <3> DEFINE env == Append(f.closure, scope)
    <3> HIDE DEF env
    <3> QED
      BY <2>2, <2>6, <2>9, <2>15, <2>16, <2>17, BeginFacts, SMTT(30)
  <2> HIDE DEF j
  <2>19. \A k \in 1 .. interp.captured_bindings : j.bindings[k] = interp.bindings[k]
    <3>1. /\ i.captured_bindings = interp.captured_bindings
          /\ i.bindings = interp.bindings
      BY DEF Alike
    <3>2. ASSUME NEW k \in 1 .. interp.captured_bindings
          PROVE  j.bindings[k] = interp.bindings[k]
      <4>1. k \in 1 .. Len(i.bindings) /\ k \in 1 .. Len(entered.bindings)
        BY <2>1, <2>4, <2>6, <3>1
      <4> QED
        BY <2>4, <2>6, <2>18, <3>1, <4>1
    <3> QED
      BY <3>2
  <2>20. Inherited(j) = Inherited(interp)
    <3>1. Cardinality(CallsIn(rest)) = Cardinality(CallsIn(interp.control))
          /\ i.call_stack = interp.call_stack
      BY DEF Continues, Alike
    <3>2. Len(j.call_stack) = Len(interp.call_stack) + 1
          /\ Len(interp.call_stack) \in Nat
      BY <2>1, <2>5, <2>6, <2>18, <3>1
    <3> DEFINE n == Cardinality(CallsIn(rest))
    <3>3. /\ Cardinality(CallsIn(interp.control)) = n
          /\ Cardinality(CallsIn(j.control)) = n + 1 /\ n \in Nat
      BY <2>11, <2>16, <2>18, <3>1
    <3> HIDE DEF n
    <3>4. Inherited(j) = (Len(interp.call_stack) + 1) - (n + 1)
      BY <3>2, <3>3 DEF Inherited
    <3>5. Inherited(interp) = Len(interp.call_stack) - n
      BY <3>3 DEF Inherited
    <3> QED
      BY <3>2, <3>3, <3>4, <3>5
  <2>21. Kept(interp, j, Setting)
    BY <2>6, <2>18, <2>19, <2>20 DEF Kept, Alike
  <2> QED
    BY <1>3, <2>21
<1> HIDE DEF next, j
<1> QED
  BY <1>1, <1>2, <1>3

\* The arguments of a call are a sequence.
LEMMA ArgumentsFacts ==
    ASSUME NEW n \in Nat
    PROVE  IsSequence(Arguments(n))
<1> DEFINE vs == Arguments(n)
<1>1. DOMAIN vs = 1 .. n /\ vs = [k \in DOMAIN vs |-> vs[k]]
  BY DEF Arguments
<1> HIDE DEF vs
<1>2. IsSequence(vs)
  BY <1>1, FunctionSequence
<1> QED
  BY <1>2 DEF vs

\* The output may grow, a worker's up to the limit.
LEMMA OutputKept ==
    ASSUME IInv, NEW j, Kept(interp, j, Setting), NEW output, IsSequence(output),
           interp.in_parallel_worker => Len(output) <= limits.parallel_output_bytes
    PROVE  Kept(interp, [j EXCEPT !.output = output], Setting)
<1> DEFINE q == [j EXCEPT !.output = output]
<1>1. Base(j, Setting) /\ Machine(j, Setting) /\ Shape(j)
  BY DEF Kept, Machine, Base
<1>2. /\ Shape(q) /\ q.bindings = j.bindings /\ q.functions = j.functions
      /\ q.control = j.control /\ q.expression_depth = j.expression_depth
      /\ q.call_stack = j.call_stack
      /\ q.captured_bindings = j.captured_bindings
      /\ q.in_parallel_worker = j.in_parallel_worker
      /\ q.return_type = j.return_type /\ q.output = output
  BY <1>1 DEF Shape
<1> HIDE DEF q
<1>3. q.in_parallel_worker => Len(q.output) <= limits.parallel_output_bytes
  BY <1>2 DEF Kept
<1>4. Base(q, Setting)
  BY <1>1, <1>2, <1>3, GivenFacts DEF Base
<1>5. Machine(q, Setting)
  BY <1>1, <1>2, <1>4 DEF Machine
<1>6. Kept(interp, q, Setting)
  BY <1>2, <1>5 DEF Kept, Inherited
<1> QED
  BY <1>6 DEF q

\* A line that was printed is inside the limit.
LEMMA PrintedKept ==
    ASSUME IInv, interp.control # <<>>, Top.task \in Closers, NEW n, NEW line,
           ~IsError(PrintLine(interp, line))
    PROVE  Kept(interp, [Close(n, NullValue) EXCEPT
                            !.output = PrintLine(interp, line).output], Setting)
<1> DEFINE j == Close(n, NullValue)
           output == Append(interp.output, line)
           q == [j EXCEPT !.output = output]
<1>1. Kept(interp, j, Setting)
  BY CloseKept
<1>2. /\ IsSequence(interp.output) /\ Len(interp.output) \in Nat
      /\ limits.parallel_output_bytes \in Nat /\ Shape(interp)
      /\ interp.in_parallel_worker \in BOOLEAN
      /\ interp.in_parallel_worker
             => Len(interp.output) <= limits.parallel_output_bytes
  BY GivenFacts, SequenceFacts DEF Machine, Base
<1>3. /\ PrintLine(interp, line).output = output
      /\ interp.in_parallel_worker
             => ~(Len(interp.output) >= limits.parallel_output_bytes)
  <2> DEFINE full == /\ interp.in_parallel_worker
                     /\ Len(interp.output) >= limits.parallel_output_bytes
             printed == [interp EXCEPT !.output = Append(@, line)]
  <2>1. PrintLine(interp, line)
            = IF full THEN Error("Output limit") ELSE printed
    BY DEF PrintLine
  <2>2. printed.output = output
    BY <1>2 DEF Shape
  <2>3. IsError(Error("Output limit"))
    BY DEF Error, IsError
  <2> HIDE DEF printed
  <2> QED
    BY <2>1, <2>2, <2>3
<1>4. IsSequence(output) /\ Len(output) = Len(interp.output) + 1
  BY <1>2, Appended
<1> HIDE DEF output
<1> HIDE DEF j
<1>5. interp.in_parallel_worker => Len(output) <= limits.parallel_output_bytes
  <2>1. ASSUME interp.in_parallel_worker
        PROVE  Len(output) <= limits.parallel_output_bytes
    <3>1. ~(Len(interp.output) >= limits.parallel_output_bytes)
      BY <1>3, <2>1, Zenon
    <3>2. Len(interp.output) \in Nat /\ limits.parallel_output_bytes \in Nat
      BY <1>2
    <3>3. Len(interp.output) + 1 <= limits.parallel_output_bytes
      BY <3>1, <3>2
    <3> QED
      BY <1>4, <3>3
  <2> QED
    BY <2>1
<1>6. Kept(interp, q, Setting)
  BY <1>1, <1>4, <1>5, OutputKept
<1>7. q = [j EXCEPT !.output = PrintLine(interp, line).output]
  BY <1>3
<1> HIDE DEF q
<1> QED
  BY <1>6, <1>7 DEF j

\* A function is entered; a builtin answers at once.
LEMMA CallKeeps == ASSUME IInv, ApplyCall PROVE IInv'
<1> DEFINE e == Top.expr
           n == Len(e.arguments)
           vs == Arguments(n)
           callee == interp.operands[n + 1]
           t == Then("called", e, Top.env)
           i == [interp EXCEPT !.operands = Drop(@, n + 1)]
           entered == EnterFunction(i, e, callee.function, vs, <<t>> \o Rest)
           printed == PrintLine(interp, vs)
           closed == [Close(n + 1, NullValue) EXCEPT !.output = printed.output]
<1>1. /\ interp.control # <<>> /\ Top.task = "Call"
      /\ \/ Step(0, entered)
         \/ Step(0, IF IsError(printed) THEN printed ELSE closed)
         \/ Step(0, ArgumentCount(e))
         \/ \E v : Step(0, Complete(n + 1, v))
         \/ Step(0, Error("Not callable"))
  BY DEF ApplyCall, Doing
<1>2. Top.task \in Closers
  BY <1>1 DEF Closers, Composite
<1>3. n \in Nat
  <2>1. e \in Setting.parts.exprs /\ e.kind = "Call"
    BY <1>1, NextTask DEF HeldBy, Holds, Composite
  <2>2. IsSequence(e.arguments)
    BY <2>1, TreeFacts DEF IsExpression
  <2> QED
    BY <2>2, SequenceFacts
<1>4. IsSequence(vs)
  BY <1>3, ArgumentsFacts
<1>5. t.task \in ExpressionTasks /\ t.task \in Closers /\ HeldBy(t) /\ Opens(t) = 1
  BY DEF Then, Closers, ExpressionTasks, HeldBy, Holds, Composite, Opens
<1> HIDE DEF t, vs, n, e, callee
<1>6. CASE Step(0, entered)
  <2> DEFINE rest == <<t>> \o Rest
  <2>1. /\ Continues(Rest) /\ Enclosed(Rest) /\ IsSequence(Rest)
        /\ Depth(Rest) \in Nat /\ Depth(Rest) + 1 = interp.expression_depth
        /\ Depth(Rest) < limits.expression_depth
    BY <1>1, <1>2, OpenFacts
  <2>2. Continues(rest) /\ Depth(rest) = Depth(Rest) + 1
    BY <1>5, <2>1, ExpressionMore
  <2>3. Alike(interp, i) /\ i.expression_depth = interp.expression_depth
    BY GivenFacts DEF Alike, Shape
  <2> HIDE DEF rest, i
  <2>4. IsError(EnterFunction(i, e, callee.function, vs, rest))
        \/ Kept(interp, EnterFunction(i, e, callee.function, vs, rest), Setting)
    BY <1>4, <2>1, <2>2, <2>3, EnterKept
  <2>5. IsError(entered) \/ Kept(interp, entered, Setting)
    BY <2>4 DEF rest
  <2> HIDE DEF entered
  <2> QED
    BY <1>6, <2>5, StepKeeps
<1>7. CASE Step(0, IF IsError(printed) THEN printed ELSE closed)
  <2> DEFINE next == IF IsError(printed) THEN printed ELSE closed
  <2>1. ~IsError(printed) => Kept(interp, closed, Setting)
    BY <1>1, <1>2, PrintedKept
  <2> HIDE DEF closed, printed
  <2>2. IsError(next) \/ Kept(interp, next, Setting)
    BY <2>1
  <2>3. Step(0, next)
    BY <1>7
  <2> HIDE DEF next
  <2> QED
    BY <2>2, <2>3, StepKeeps
<1>8. CASE Step(0, ArgumentCount(e))
  <2> DEFINE next == ArgumentCount(e)
  <2>1. IsError(next)
    BY DEF ArgumentCount, IsError
  <2> HIDE DEF next
  <2> QED
    BY <1>8, <2>1, StepKeeps DEF next
<1>9. ASSUME NEW v, Step(0, Complete(n + 1, v)) PROVE IInv'
  <2> DEFINE next == Complete(n + 1, v)
  <2>1. IsError(next) \/ Kept(interp, next, Setting)
    BY <1>1, <1>2, CloseKept
  <2>2. Step(0, next)
    BY <1>9
  <2> HIDE DEF next
  <2> QED
    BY <2>1, <2>2, StepKeeps
<1>10. CASE Step(0, Error("Not callable"))
  <2> DEFINE next == Error("Not callable")
  <2>1. IsError(next) /\ Step(0, next)
    BY <1>10 DEF Error, IsError
  <2> HIDE DEF next
  <2> QED
    BY <2>1, StepKeeps
<1> QED
  BY <1>1, <1>6, <1>7, <1>8, <1>9, <1>10

----------------------------------------------------------------------------
(* Leaving functions, loops, workers and the program *)

\* A set of natural numbers has a least element.
LEMMA LeastOf ==
    ASSUME NEW S \in SUBSET Nat, S # {}
    PROVE  \E k \in S : \A j \in S : k <= j
<1> DEFINE R == OpToRel(<, Nat)
<1>1. IsWellFoundedOn(R, Nat)
  BY NatLessThanWellFounded
<1>2. \A x, y \in Nat : x < y => <<x, y>> \in R
  BY DEF OpToRel
<1> HIDE DEF R
<1>3. PICK x \in S : \A y \in S : ~ (<<y, x>> \in R)
  BY <1>1, WFMin
<1>4. ASSUME NEW y \in S PROVE x <= y
  <2>1. x \in Nat /\ y \in Nat /\ ~(<<y, x>> \in R)
    BY <1>3
  <2>2. ~(y < x)
    BY <1>2, <2>1, Zenon
  <2> QED
    BY <2>1, <2>2
<1> QED
  BY <1>4

\* A sequence without its last element.
LEMMA FrontFacts ==
    ASSUME NEW s, IsSequence(s), s # <<>>
    PROVE  IsSequence(Front(s)) /\ Len(Front(s)) = Len(s) - 1
<1>1. Len(s) \in Nat \ {0} /\ s \in Seq(Range(s))
  BY SequenceFacts DEF IsSequence
<1>2. SubSeq(s, 1, Len(s) - 1) \in Seq(Range(s))
      /\ Len(SubSeq(s, 1, Len(s) - 1)) = Len(s) - 1
  <2> DEFINE S == Range(s)
             n == Len(s) - 1
  <2>1. s \in Seq(S) /\ n \in Nat /\ n <= Len(s)
    BY <1>1
  <2> HIDE DEF S, n
  <2>2. SubSeq(s, 1, n) \in Seq(S) /\ Len(SubSeq(s, 1, n)) = n
    BY <2>1, SubSeqProperties
  <2> QED
    BY <2>2 DEF S, n
<1>3. Front(s) = SubSeq(s, 1, Len(s) - 1)
  BY DEF Front
<1> QED
  BY <1>2, <1>3, SequenceOver

\* What is in front of a task, and the task with what follows it.
LEMMA SplitFacts ==
    ASSUME NEW c, IsSequence(c), NEW k \in 1 .. Len(c),
           \A j \in 1 .. (k - 1) : c[j].task # "call"
    PROVE  LET r == Drop(c, k - 1)
           IN  /\ IsSequence(r) /\ r # <<>> /\ Head(r) = c[k] /\ r[1] = c[k]
               /\ Cardinality(CallsIn(c)) = Cardinality(CallsIn(r))
<1> DEFINE r == Drop(c, k - 1)
           p == SubSeq(c, 1, k - 1)
<1>1. /\ Len(c) \in Nat /\ DOMAIN c = 1 .. Len(c) /\ k - 1 \in 0 .. Len(c)
      /\ k \in Nat /\ c \in Seq(Range(c))
  BY SequenceFacts DEF IsSequence
<1>2. /\ IsSequence(r) /\ Len(r) = Len(c) - (k - 1)
      /\ \A m \in 1 .. Len(c) - (k - 1) : r[m] = c[(k - 1) + m]
  BY <1>1, DropFacts
<1>3. Len(r) \in Nat \ {0} /\ 1 \in 1 .. Len(c) - (k - 1) /\ (k - 1) + 1 = k
  BY <1>1, <1>2
<1>4. r # <<>> /\ r[1] = c[k] /\ Head(r) = r[1]
  <2>1. r[1] = c[(k - 1) + 1]
    BY <1>2, <1>3
  <2>2. r[1] = c[k]
    BY <1>3, <2>1
  <2> HIDE DEF r
  <2>3. r # <<>> /\ Head(r) = r[1]
    BY <1>2, <1>3, SequenceFacts
  <2> QED
    BY <2>2, <2>3
<1>5. /\ IsSequence(p) /\ Len(p) = k - 1
      /\ \A m \in 1 .. (k - 1) : p[m] = c[m]
  <2> DEFINE S == Range(c)
             n == k - 1
  <2>1. c \in Seq(S) /\ n \in 0 .. Len(c)
    BY <1>1
  <2> HIDE DEF S, n
  <2>2. /\ SubSeq(c, 1, n) \in Seq(S) /\ Len(SubSeq(c, 1, n)) = n
        /\ \A m \in 1 .. n : SubSeq(c, 1, n)[m] = c[m]
    BY <1>1, <2>1, SubSeqProperties
  <2>3. IsSequence(SubSeq(c, 1, n))
    BY <2>2, SequenceOver
  <2> QED
    BY <2>2, <2>3 DEF n
<1> HIDE DEF r, p
<1>6. c = p \o r
  <2> DEFINE u == p \o r
  <2>1. /\ IsSequence(u) /\ Len(u) = Len(p) + Len(r)
        /\ \A m \in 1 .. Len(p) : u[m] = p[m]
        /\ \A m \in 1 .. Len(r) : u[Len(p) + m] = r[m]
    <3>1. IsSequence(p) /\ IsSequence(r)
      BY <1>2, <1>5
    <3> QED
      BY <3>1, ConcatFacts
  <2> HIDE DEF u
  <2>2. Len(u) = Len(c)
    BY <1>1, <1>2, <1>5, <2>1
  <2>3. ASSUME NEW m \in 1 .. Len(c) PROVE c[m] = u[m]
    <3>1. CASE m \in 1 .. (k - 1)
      BY <1>5, <2>1, <3>1
    <3>2. CASE m \notin 1 .. (k - 1)
      <4> DEFINE x == m - (k - 1)
      <4>1. x \in 1 .. Len(c) - (k - 1) /\ m = (k - 1) + x
        BY <1>1, <3>2
      <4> HIDE DEF x
      <4>2. u[(k - 1) + x] = r[x]
        BY <1>2, <1>5, <2>1, <4>1
      <4>3. r[x] = c[(k - 1) + x]
        BY <1>2, <4>1
      <4> QED
        BY <4>1, <4>2, <4>3
    <3> QED
      BY <3>1, <3>2
  <2>4. c = u
    BY <2>1, <2>2, <2>3, SameSequence
  <2> QED
    BY <2>4 DEF u
<1>7. CallsIn(p) = {}
  <2>1. DOMAIN p = 1 .. (k - 1)
    BY <1>5, SequenceFacts
  <2> QED
    BY <1>5, <2>1 DEF CallsIn
<1>8. Cardinality(CallsIn(p \o r)) = Cardinality(CallsIn(p)) + Cardinality(CallsIn(r))
  BY <1>2, <1>5, CallsConcat
<1>9. Cardinality(CallsIn(c)) = Cardinality(CallsIn(r))
  BY <1>2, <1>6, <1>7, <1>8, EmptyFacts, CountFacts
<1> QED
  BY <1>2, <1>4, <1>9 DEF r

\* The call stack holds the inherited calls and the open ones.
LEMMA InheritedFacts ==
    ASSUME IInv
    PROVE  /\ Inherited(interp) \in Nat /\ IsSequence(interp.call_stack)
           /\ Len(interp.call_stack) \in Nat
           /\ Len(interp.call_stack)
                  = Inherited(interp) + Cardinality(CallsIn(interp.control))
           /\ Cardinality(CallsIn(interp.control)) \in Nat
<1>1. /\ IsSequence(interp.call_stack) /\ Len(interp.call_stack) \in Nat
      /\ Cardinality(CallsIn(interp.control)) \in Nat
  BY GivenFacts, SequenceFacts, CountFacts DEF Machine, Base, Ready
<1>2. Inherited(interp) \in Nat
  <2>1. CASE outer = <<>>
    BY <2>1 DEF IInv, Above
  <2>2. CASE outer # <<>>
    <3>1. Inherited(interp) = Len(outer[1].call_stack) /\ IsSequence(outer)
      BY <2>2 DEF IInv, Above, Joined
    <3>2. 1 \in DOMAIN outer
      BY <2>2, <3>1, SequenceFacts
    <3>3. IsSequence(outer[1].call_stack)
      BY <3>2 DEF IInv, Machine, Base
    <3> QED
      BY <3>1, <3>3, SequenceFacts
  <2> QED
    BY <2>1, <2>2
<1>3. Inherited(interp) = Len(interp.call_stack) - Cardinality(CallsIn(interp.control))
  BY DEF Inherited
<1> HIDE DEF Inherited
<1>4. Len(interp.call_stack) = Inherited(interp) + Cardinality(CallsIn(interp.control))
  BY <1>1, <1>2, <1>3
<1> QED
  BY <1>1, <1>2, <1>4

\* Leaving the innermost function restores its caller.
LEMMA LeaveKept ==
    ASSUME IInv, NEW k \in 1 .. Len(interp.control),
           interp.control[k].task = "call",
           \A j \in 1 .. (k - 1) : interp.control[j].task # "call", NEW vs
    PROVE  Kept(interp, LeaveFunction(Drop(interp.control, k - 1), vs), Setting)
<1> DEFINE c == interp.control
           r == Drop(c, k - 1)
           d == Tail(r)
           n == interp.captured_bindings
           worker == interp.in_parallel_worker
           g == Setting
           j == LeaveFunction(r, vs)
<1>1. Ready(c, n, worker, g) /\ IsSequence(c) /\ Base(interp, g) /\ Shape(interp)
  BY GivenFacts DEF Machine, Ready
<1>2. k \in 1 .. Len(c) /\ k - 1 \in 0 .. Len(c) /\ c[k].task = "call"
      /\ \A m \in 1 .. (k - 1) : c[m].task # "call"
  BY <1>1, SequenceFacts
<1> HIDE DEF c, n, worker, g
<1>3. /\ IsSequence(r) /\ r # <<>> /\ Head(r) = c[k] /\ r[1] = c[k]
      /\ Cardinality(CallsIn(c)) = Cardinality(CallsIn(r))
  BY <1>1, <1>2, SplitFacts
<1>4. Ready(r, n, worker, g)
  BY <1>1, <1>2, SuffixReady
<1> HIDE DEF r
<1>5. /\ IsSequence(d) /\ Ready(d, n, worker, g) /\ r = <<r[1]>> \o d
      /\ Placed(r[1], d) /\ Holds(r[1], n, worker, g)
  BY <1>3, <1>4, TopReady
<1> HIDE DEF d
<1>6. /\ r[1].depth = Depth(d) /\ r[1].depth \in 0 .. g.limits.expression_depth
      /\ r[1].return_type \in g.types
  BY <1>2, <1>3, <1>5 DEF Placed, Holds
<1>7. Cardinality(CallsIn(r)) = Cardinality(CallsIn(d)) + 1
  <2> DEFINE t == r[1]
  <2>1. t.task = "call" /\ r = <<t>> \o d
    BY <1>2, <1>3, <1>5
  <2> HIDE DEF t
  <2>2. Cardinality(CallsIn(<<t>> \o d)) = Cardinality(CallsIn(d)) + 1
    BY <1>5, <2>1, OneTask
  <2> QED
    BY <2>1, <2>2
<1>8. /\ Inherited(interp) \in Nat /\ IsSequence(interp.call_stack)
      /\ Len(interp.call_stack) \in Nat
      /\ Len(interp.call_stack) = Inherited(interp) + Cardinality(CallsIn(c))
  BY InheritedFacts DEF c
<1>9. Cardinality(CallsIn(d)) \in Nat
  BY <1>5, CountFacts
<1>10. interp.call_stack # <<>>
  <2>1. Len(interp.call_stack) # 0
    BY <1>3, <1>7, <1>8, <1>9
  <2> QED
    BY <1>8, <2>1, SequenceFacts
<1> DEFINE s == Front(interp.call_stack)
<1>11. IsSequence(s) /\ Len(s) = Len(interp.call_stack) - 1
  BY <1>8, <1>10, FrontFacts
<1> HIDE DEF s
<1>12. /\ Shape(j) /\ j.control = d /\ j.expression_depth = r[1].depth
       /\ j.return_type = r[1].return_type /\ j.call_stack = s
       /\ j.bindings = interp.bindings /\ j.functions = interp.functions
       /\ j.captured_bindings = n /\ j.in_parallel_worker = worker
       /\ j.output = interp.output
  BY <1>1, <1>3 DEF LeaveFunction, Shape, s, d, n, worker
<1> HIDE DEF j
<1>13. Len(s) <= g.limits.call_depth
  <2>1. Len(interp.call_stack) <= g.limits.call_depth /\ g.limits.call_depth \in Nat
    BY <1>1, GivenFacts DEF Base, g
  <2> QED
    BY <1>8, <1>11, <2>1
<1>14. Base(j, g)
  BY <1>1, <1>6, <1>11, <1>12, <1>13 DEF Base, n, worker
<1>15. Machine(j, g)
  BY <1>5, <1>6, <1>12, <1>14 DEF Machine
<1>16. Inherited(j) = Inherited(interp)
  <2>1. Inherited(j) = Len(s) - Cardinality(CallsIn(d))
    BY <1>12 DEF Inherited
  <2> QED
    BY <1>3, <1>7, <1>8, <1>9, <1>11, <2>1
<1> QED
  BY <1>12, <1>15, <1>16 DEF Kept, j, r, c, g, n, worker

\* A flow has a catcher: the first task that stops it.
LEMMA CatcherFacts ==
    ASSUME IInv, Enclosed(interp.control), NEW flow
    PROVE  LET c == interp.control
               k == CatcherOf(flow)
           IN  /\ k \in DOMAIN c /\ c[k].task \in Catchers(flow)
               /\ \A j \in 1 .. (k - 1) : c[j].task \notin Catchers(flow)
<1> DEFINE c == interp.control
           S == {m \in DOMAIN c : c[m].task \in Catchers(flow)}
<1>1. DOMAIN c = 1 .. Len(c) /\ Len(c) \in Nat
  BY GivenFacts, SequenceFacts DEF Machine, Ready
<1>2. S \in SUBSET Nat
  BY <1>1
<1>3. S # {}
  BY DEF Enclosed, Frames, Catchers
<1>4. PICK m \in S : \A j \in S : m <= j
  BY <1>2, <1>3, LeastOf
<1>5. \A j \in 1 .. (m - 1) : j \in Nat /\ j < m /\ j \in DOMAIN c
  BY <1>1, <1>2, <1>4
<1>6. ASSUME NEW j \in 1 .. (m - 1) PROVE c[j].task \notin Catchers(flow)
  <2>1. j \in Nat /\ m \in Nat /\ ~(m <= j)
    BY <1>2, <1>5
  <2>2. j \notin S
    BY <1>4, <2>1
  <2> QED
    BY <1>5, <2>2
<1>7. m \in DOMAIN c /\ c[m].task \in Catchers(flow)
  OBVIOUS
<1> HIDE DEF S
<1> QED
  BY <1>6, <1>7 DEF CatcherOf

\* A flow stops at its catcher, or is an error.
LEMMA JumpKept ==
    ASSUME IInv, Enclosed(interp.control), interp.expression_depth = 0, NEW flow
    PROVE  IsError(Jump(flow)) \/ Kept(interp, Jump(flow), Setting)
<1> DEFINE c == interp.control
           k == CatcherOf(flow)
           r == Drop(c, k - 1)
           n == interp.captured_bindings
           worker == interp.in_parallel_worker
           g == Setting
<1>1. Ready(c, n, worker, g) /\ IsSequence(c) /\ DOMAIN c = 1 .. Len(c)
      /\ Len(c) \in Nat
  BY GivenFacts, SequenceFacts DEF Machine, Ready
<1>2. k \in DOMAIN c /\ c[k].task \in Catchers(flow)
      /\ \A j \in 1 .. (k - 1) : c[j].task \notin Catchers(flow)
  BY CatcherFacts
<1>3. /\ k \in 1 .. Len(c) /\ k - 1 \in 0 .. Len(c)
      /\ \A j \in 1 .. (k - 1) : c[j].task # "call"
  BY <1>1, <1>2 DEF Catchers
<1> HIDE DEF k, n, worker, g
<1>4. /\ IsSequence(r) /\ r # <<>> /\ Head(r) = c[k] /\ r[1] = c[k]
      /\ Cardinality(CallsIn(c)) = Cardinality(CallsIn(r))
  <2> HIDE DEF c
  <2> QED
    BY <1>1, <1>3, SplitFacts
<1>5. Ready(r, n, worker, g)
  <2> HIDE DEF c
  <2> QED
    BY <1>1, <1>3, SuffixReady
<1> DEFINE t == r[1]
           d == Tail(r)
<1>6. CASE t.task = "call"
  <2>1. Jump(flow) = IF flow # "Return" THEN Error("Loop control")
                     ELSE LeaveFunction(r, interp.operands)
    BY <1>4, <1>6 DEF Jump, k
  <2>2. Kept(interp, LeaveFunction(r, interp.operands), Setting)
    BY <1>3, <1>4, <1>6, LeaveKept
  <2>3. IsError(Error("Loop control"))
    BY DEF Error, IsError
  <2> HIDE DEF r
  <2> QED
    BY <2>1, <2>2, <2>3
<1>7. CASE t.task # "call"
  <2>1. /\ t.task \in {"worker", "program", "while", "for"}
        /\ t.task \in {"worker", "program"} \/ flow # "Return"
    BY <1>2, <1>4, <1>7 DEF Catchers
  <2>2. \/ IsError(Jump(flow))
        \/ Jump(flow) = [interp EXCEPT !.control = r]
        \/ Jump(flow) = [interp EXCEPT !.control = d] /\ t.task \in {"while", "for"}
    <3>1. Jump(flow) =
              CASE t.task = "call" -> IF flow # "Return" THEN Error("Loop control")
                                      ELSE LeaveFunction(r, interp.operands)
                [] t.task = "worker" ->
                       IF flow = "Continue" THEN [interp EXCEPT !.control = r]
                       ELSE Error("Exit from worker")
                [] t.task = "program" -> [interp EXCEPT !.control = r]
                [] OTHER -> [interp EXCEPT !.control = IF flow = "Break" THEN d ELSE r]
      BY <1>4 DEF Jump, k
    <3>2. IsError(Error("Exit from worker"))
      BY DEF Error, IsError
    <3> DEFINE x == Error("Exit from worker")
    <3> HIDE DEF r, d, t
    <3>3. CASE t.task = "worker"
      <4>1. Jump(flow) = IF flow = "Continue" THEN [interp EXCEPT !.control = r]
                         ELSE Error("Exit from worker")
        BY <3>1, <3>3
      <4> QED
        BY <3>2, <4>1
    <3>4. CASE t.task = "program"
      BY <3>1, <3>4
    <3>5. CASE t.task \in {"while", "for"}
      <4>1. Jump(flow) = [interp EXCEPT !.control = IF flow = "Break" THEN d ELSE r]
        BY <3>1, <3>5
      <4> QED
        BY <3>5, <4>1
    <3> QED
      BY <2>1, <3>3, <3>4, <3>5
  <2> HIDE DEF r
  <2>3. /\ IsSequence(d) /\ Ready(d, n, worker, g) /\ r = <<t>> \o d
        /\ Placed(t, d)
    BY <1>4, <1>5, TopReady
  <2> HIDE DEF d, t
  <2>4. Depth(d) = 0
    BY <2>1, <2>3 DEF Placed, StatementTasks
  <2>5. t.task \notin Closers \cup {"call"}
    BY <2>1 DEF Closers, Composite
  <2>6. Depth(<<t>> \o d) = Depth(d)
    BY <2>3, <2>5, OneTask
  <2>7. Cardinality(CallsIn(<<t>> \o d)) = Cardinality(CallsIn(d)) + 0
    BY <2>3, <2>5, OneTask
  <2>8. Cardinality(CallsIn(d)) \in Nat /\ limits.expression_depth \in Nat
    BY <2>3, GivenFacts, CountFacts
  <2>9. Continues(r) /\ Depth(r) = 0
    BY <1>4, <1>5, <2>3, <2>4, <2>6, <2>8 DEF Continues, n, worker, g
  <2>10. Continues(d)
    BY <1>4, <2>3, <2>4, <2>7, <2>8 DEF Continues, n, worker, g
  <2>11. ASSUME NEW control, Continues(control), Depth(control) = 0
         PROVE  Kept(interp, [interp EXCEPT !.control = control], Setting)
    <3> DEFINE j == [interp EXCEPT !.control = control]
    <3>1. Alike(interp, j) /\ j.control = control /\ j.expression_depth = 0
      BY GivenFacts DEF Alike, Shape
    <3> HIDE DEF j
    <3>2. Kept(interp, j, Setting)
      BY <2>11, <3>1, ControlKept
    <3> QED
      BY <3>2 DEF j
  <2> QED
    BY <2>2, <2>4, <2>9, <2>10, <2>11
<1> QED
  BY <1>6, <1>7

----------------------------------------------------------------------------
(* Statements *)

\* At a statement no expression is open.
LEMMA StatementFacts ==
    ASSUME IInv, interp.control # <<>>, Top.task \in StatementTasks
    PROVE  /\ Continues(Rest) /\ IsSequence(Rest) /\ Depth(Rest) = 0
           /\ interp.expression_depth = 0 /\ interp.control = <<Top>> \o Rest
           /\ Continues(interp.control) /\ Depth(interp.control) = 0
           /\ Top.task \notin Closers \cup {"call"}
           /\ HeldBy(Top) /\ Placed(Top, Rest)
           /\ Top.task \notin Frames \cup {"exit"}
                  => Enclosed(Rest) /\ Enclosed(interp.control)
<1>1. Top.task \notin Closers \cup {"call"} /\ Opens(Top) = 0
  BY DEF StatementTasks, Closers, Composite, Opens
<1>2. /\ Continues(Rest) /\ IsSequence(Rest) /\ HeldBy(Top) /\ Placed(Top, Rest)
      /\ interp.control = <<Top>> \o Rest
      /\ interp.expression_depth = Depth(Rest) + Opens(Top)
  BY <1>1, NextTask
<1>3. Depth(Rest) = 0
  BY <1>2 DEF Placed
<1>4. interp.expression_depth = 0
  BY <1>1, <1>2, <1>3
<1>5. Continues(interp.control) /\ Depth(interp.control) = 0
  BY <1>4, GivenFacts DEF Continues, Machine
<1>6. Top.task \notin Frames \cup {"exit"} => Enclosed(Rest)
  BY <1>2 DEF Placed
<1>7. Enclosed(Rest) => Enclosed(interp.control)
  <2> DEFINE t == Top
             r == Rest
  <2>1. IsSequence(r) /\ interp.control = <<t>> \o r
    BY <1>2
  <2> HIDE DEF t, r
  <2>2. Enclosed(r) => Enclosed(<<t>> \o r)
    BY <2>1, SingleFacts, EnclosedConcat
  <2> QED
    BY <2>1, <2>2 DEF r
<1> QED
  BY <1>1, <1>2, <1>3, <1>4, <1>5, <1>6, <1>7

\* One more task that opens no expression.
LEMMA StatementMore ==
    ASSUME IInv, NEW c, Continues(c), Depth(c) = 0, NEW t,
           t.task \notin Closers \cup {"call"}, Placed(t, c), HeldBy(t)
    PROVE  LET d == <<t>> \o c
           IN  /\ Continues(d) /\ Depth(d) = 0 /\ IsSequence(d)
               /\ d # <<>> /\ d[1] = t
               /\ Enclosed(c) => Enclosed(d)
<1> DEFINE d == <<t>> \o c
<1>1. /\ Continues(d) /\ Depth(d) = Depth(c) + Opens(t)
      /\ Enclosed(c) => Enclosed(d)
  BY OneMore
<1>2. Depth(d) = 0
  BY <1>1 DEF Opens
<1>3. IsSequence(c)
  BY DEF Continues, Ready
<1>4. IsSequence(d) /\ Len(d) = 1 + Len(c) /\ d[1] = t /\ Len(c) \in Nat
  BY <1>3, ConsFacts, SequenceFacts
<1> HIDE DEF d
<1>5. d # <<>>
  BY <1>4, SequenceFacts
<1> QED
  BY <1>1, <1>2, <1>4, <1>5 DEF d

\* The expression a statement starts with.
LEMMA EvaluateMore ==
    ASSUME IInv, NEW c, Continues(c), Depth(c) = 0, Enclosed(c),
           NEW e \in Setting.parts.exprs, NEW env
    PROVE  LET d == <<Evaluate(e, env)>> \o c
           IN  Continues(d) /\ Depth(d) = 0
<1> DEFINE t == Evaluate(e, env)
<1>1. /\ HeldBy(t) /\ t.task \in ExpressionTasks
      /\ t.task \notin Closers \cup {"call"}
  BY EvaluateHeld
<1> HIDE DEF t
<1>2. Placed(t, c)
  BY <1>1, ExpressionPlaced
<1>3. Continues(<<t>> \o c) /\ Depth(<<t>> \o c) = 0
  BY <1>1, <1>2, StatementMore
<1> QED
  BY <1>3 DEF t

\* Tasks of a statement that replace the one it was at.
LEMMA PushedKept ==
    ASSUME IInv, interp.control # <<>>, Top.task \in StatementTasks,
           NEW tasks, Continues(tasks \o Rest), Depth(tasks \o Rest) = 0
    PROVE  /\ Kept(interp, Push(tasks), Setting)
           /\ \A vs : Kept(interp, [Push(tasks) EXCEPT !.operands = vs], Setting)
           /\ \A n : Kept(interp, Take(n, tasks), Setting)
  BY StatementFacts, PushKept

\* The statements that follow the current one.
LEMMA ContinuingFacts ==
    ASSUME IInv, interp.control # <<>>, Top.task = "statements", Top.todo # <<>>
    PROVE  LET c == Continuing \o Rest
           IN  /\ IsSequence(Continuing) /\ Continues(c) /\ Depth(c) = 0
               /\ IsSequence(c) /\ Enclosed(c) /\ Follows(c, "statements")
               /\ IsStatement(Current, Setting.parts)
               /\ Current.kind = "Let" =>
                      Head(Top.todo).slot \notin 1 .. interp.captured_bindings
<1> DEFINE s == Top.todo
           t == [Top EXCEPT !.todo = Tail(@)]
           c == <<t>> \o Rest
<1>1. /\ Continues(Rest) /\ Depth(Rest) = 0 /\ HeldBy(Top) /\ Placed(Top, Rest)
      /\ Enclosed(Rest)
  BY StatementFacts DEF StatementTasks, Frames
<1>2. /\ DOMAIN Top = {"task", "env", "todo"} /\ IsSequence(s)
      /\ \A k \in DOMAIN s :
             /\ IsStatement(s[k].statement, Setting.parts)
             /\ s[k].statement.kind = "Let"
                    => s[k].slot \notin 1 .. interp.captured_bindings
  BY <1>1 DEF HeldBy, Holds
<1>3. s # <<>>
  OBVIOUS
<1>4. t.task = "statements" /\ t.todo = Tail(s) /\ DOMAIN t = {"task", "env", "todo"}
  BY <1>2
<1> HIDE DEF s, t
<1>5. /\ 1 \in DOMAIN s /\ Head(s) = s[1] /\ DOMAIN s = 1 .. Len(s) /\ Len(s) \in Nat
  BY <1>2, <1>3, SequenceFacts
<1>6. /\ IsSequence(Tail(s)) /\ Len(Tail(s)) = Len(s) - 1
      /\ \A k \in 1 .. Len(s) - 1 : Tail(s)[k] = s[k + 1]
  BY <1>2, <1>3, TailFacts
<1>7. HeldBy(t)
  <2>1. ASSUME NEW k \in DOMAIN t.todo
        PROVE  k + 1 \in DOMAIN s /\ t.todo[k] = s[k + 1]
    <3>1. DOMAIN Tail(s) = 1 .. Len(s) - 1
      BY <1>6, SequenceFacts
    <3> QED
      BY <1>4, <1>5, <1>6, <3>1
  <2>2. \A k \in DOMAIN t.todo :
            /\ IsStatement(t.todo[k].statement, Setting.parts)
            /\ t.todo[k].statement.kind = "Let"
                   => t.todo[k].slot \notin 1 .. interp.captured_bindings
    BY <1>2, <2>1
  <2> QED
    BY <1>4, <1>6, <2>2 DEF HeldBy, Holds, Composite
<1>8. Placed(t, Rest) /\ t.task \notin Closers \cup {"call"}
  BY <1>1, <1>4, StatementsPlaced
<1>9. /\ Continues(c) /\ Depth(c) = 0 /\ IsSequence(c) /\ c # <<>> /\ c[1] = t
      /\ Enclosed(c)
  BY <1>1, <1>7, <1>8, StatementMore
<1> HIDE DEF c
<1>10. Follows(c, "statements")
  BY <1>4, <1>9 DEF Follows
<1>11. Continuing = <<t>> /\ IsSequence(<<t>>)
  BY SingleFacts DEF Continuing, t
<1>12. /\ IsStatement(Current, Setting.parts)
       /\ Current.kind = "Let" => Head(s).slot \notin 1 .. interp.captured_bindings
  BY <1>2, <1>5 DEF Current, s
<1> QED
  BY <1>9, <1>10, <1>11, <1>12 DEF c, s

\* The task that waits for the value a statement starts with.
LEMMA SubjectKeeps == ASSUME IInv, ExecuteStatement PROVE IInv'
<1> DEFINE s == Current
           env == Top.env
           e == Subject(s)
           x == Head(Top.todo).slot
           t == [task |-> s.kind, statement |-> s, env |-> env, slot |-> x]
           c == Continuing \o Rest
           p == <<Evaluate(e, env), t>>
           tasks == p \o Continuing
           next == Push(tasks)
<1>1. /\ Step(1, next) /\ interp.control # <<>> /\ Top.task = "statements"
      /\ Top.todo # <<>>
      /\ s.kind \in {"Let", "Expression", "Match", "If", "For", "Parallel"}
  BY DEF ExecuteStatement, NextStatement, Doing
<1>2. /\ IsSequence(Continuing) /\ Continues(c) /\ Depth(c) = 0
      /\ IsSequence(c) /\ Enclosed(c) /\ Follows(c, "statements")
      /\ IsStatement(s, Setting.parts)
      /\ s.kind = "Let" => x \notin 1 .. interp.captured_bindings
  BY <1>1, ContinuingFacts
<1>3. IsSequence(Rest) /\ Top.task \in StatementTasks
  BY <1>1, StatementFacts DEF StatementTasks
<1> HIDE DEF c, s, x, env
<1>4. e \in Setting.parts.exprs
  BY <1>1, <1>2 DEF IsStatement
<1>5. t.task = s.kind /\ t.statement = s /\ t.slot = x
  OBVIOUS
<1> HIDE DEF e, t
<1>6. HeldBy(t)
  BY <1>1, <1>2, <1>5 DEF HeldBy, Holds, Composite, IsStatement
<1>7. Placed(t, c) /\ t.task \notin Closers \cup {"call"}
  BY <1>1, <1>2, <1>5 DEF Placed, StatementTasks, Frames, Closers, Composite
<1> DEFINE d == <<t>> \o c
<1>8. Continues(d) /\ Depth(d) = 0 /\ Enclosed(d)
  BY <1>2, <1>6, <1>7, StatementMore
<1> HIDE DEF d
<1> DEFINE b == <<Evaluate(e, env)>> \o d
<1>9. Continues(b) /\ Depth(b) = 0
  BY <1>4, <1>8, EvaluateMore
<1>10. tasks \o Rest = b
  <2>1. IsSequence(p)
    <3>1. p \in Seq({Evaluate(e, env), t})
      OBVIOUS
    <3> QED
      BY <3>1, SequenceOver
  <2>2. p \o c = b
    BY <1>2, TwoTasks DEF d
  <2> HIDE DEF p, b
  <2>3. (p \o Continuing) \o Rest = p \o (Continuing \o Rest)
    BY <1>2, <1>3, <2>1, ConcatAssociative3, SMTT(30)
  <2> QED
    BY <2>2, <2>3 DEF c
<1> HIDE DEF tasks, b
<1>11. Kept(interp, Push(tasks), Setting)
  BY <1>1, <1>3, <1>9, <1>10, PushedKept
<1> QED
  BY <1>1, <1>11, StepKeeps

\* A return waits for its value.
LEMMA ReturnKeeps == ASSUME IInv, ExecuteReturn PROVE IInv'
<1> DEFINE s == Current
           env == Top.env
           e == Subject(s)
           t == [task |-> "Return", statement |-> s]
           c == Continuing \o Rest
           d == <<t>> \o c
           bare == <<t>> \o Continuing
           p == <<Evaluate(e, env)>>
           vs == <<NullValue>> \o interp.operands
           next == IF s.result = <<>>
                   THEN [Push(bare) EXCEPT !.operands = <<NullValue>> \o @]
                   ELSE Push((p \o <<t>>) \o Continuing)
<1>1. /\ Step(1, next) /\ interp.control # <<>> /\ Top.task = "statements"
      /\ Top.todo # <<>> /\ s.kind = "Return"
  BY DEF ExecuteReturn, NextStatement, Doing
<1>2. /\ IsSequence(Continuing) /\ Continues(c) /\ Depth(c) = 0
      /\ IsSequence(c) /\ Enclosed(c) /\ IsStatement(s, Setting.parts)
  BY <1>1, ContinuingFacts
<1>3. IsSequence(Rest) /\ Top.task \in StatementTasks
  BY <1>1, StatementFacts DEF StatementTasks
<1>4. s.result # <<>> => e \in Setting.parts.exprs
  BY <1>1, <1>2 DEF IsStatement
<1> HIDE DEF c, s, env, e
<1>5. t.task = "Return"
  OBVIOUS
<1> HIDE DEF t
<1>6. HeldBy(t) /\ Placed(t, c) /\ t.task \notin Closers \cup {"call"}
  BY <1>2, <1>5 DEF HeldBy, Holds, Placed, StatementTasks, Frames, Closers, Composite
<1>7. Continues(d) /\ Depth(d) = 0 /\ Enclosed(d)
  BY <1>2, <1>6, StatementMore
<1>8. bare \o Rest = d
  BY <1>2, <1>3, SingleFacts, ConcatAssociative3 DEF c
<1>9. s.result # <<>> => /\ Continues(((p \o <<t>>) \o Continuing) \o Rest)
                         /\ Depth(((p \o <<t>>) \o Continuing) \o Rest) = 0
  <2> DEFINE q == <<t>>
             b == p \o d
  <2>1. IsSequence(p) /\ IsSequence(q)
    BY SingleFacts
  <2>2. s.result # <<>> => Continues(b) /\ Depth(b) = 0
    <3> HIDE DEF d
    <3> QED
      BY <1>4, <1>7, EvaluateMore
  <2>3. b = p \o (q \o c)
    OBVIOUS
  <2> HIDE DEF p, q, b
  <2>4. IsSequence(p \o q)
    BY <2>1, ConcatFacts
  <2>5. ((p \o q) \o Continuing) \o Rest = (p \o q) \o (Continuing \o Rest)
    BY <1>2, <1>3, <2>4, ConcatAssociative3, SMTT(30)
  <2>6. (p \o q) \o c = p \o (q \o c)
    BY <1>2, <2>1, ConcatAssociative3, SMTT(30)
  <2>7. ((p \o q) \o Continuing) \o Rest = b
    BY <2>3, <2>5, <2>6 DEF c
  <2> QED
    BY <2>2, <2>7 DEF q
<1> HIDE DEF d, bare, p
<1>10. CASE s.result = <<>>
  <2>1. Kept(interp, [Push(bare) EXCEPT !.operands = vs], Setting)
    BY <1>1, <1>3, <1>7, <1>8, PushedKept
  <2>2. next = [Push(bare) EXCEPT !.operands = vs]
    BY <1>10, GivenFacts DEF Push, Shape
  <2> HIDE DEF next, vs
  <2> QED
    BY <1>1, <2>1, <2>2, StepKeeps
<1>11. CASE s.result # <<>>
  <2> DEFINE tasks == (p \o <<t>>) \o Continuing
  <2>1. Continues(tasks \o Rest) /\ Depth(tasks \o Rest) = 0
    BY <1>9, <1>11
  <2>2. next = Push(tasks)
    BY <1>11
  <2> HIDE DEF tasks, next
  <2>3. Kept(interp, Push(tasks), Setting)
    BY <1>1, <1>3, <2>1, PushedKept
  <2> QED
    BY <1>1, <2>2, <2>3, StepKeeps
<1> QED
  BY <1>10, <1>11

\* A body begins in an interpreter that differs only in its operands.
LEMMA ScopeKept ==
    ASSUME IInv, interp.expression_depth = 0, NEW i,
           i = interp \/ \E n : i = Take(n, <<>>),
           NEW body \in Setting.parts.bodies, NEW env, NEW rest,
           Continues(rest), Enclosed(rest), Depth(rest) = 0
    PROVE  Kept(interp, Scope(i, body, env, rest), Setting)
<1>1. Base(interp, Setting) /\ Shape(interp)
  BY GivenFacts DEF Machine
<1>2. /\ Shape(i) /\ i.bindings = interp.bindings /\ i.functions = interp.functions
      /\ i.expression_depth = 0 /\ i.call_stack = interp.call_stack
      /\ i.captured_bindings = interp.captured_bindings
      /\ i.in_parallel_worker = interp.in_parallel_worker
      /\ i.return_type = interp.return_type /\ i.output = interp.output
  BY <1>1 DEF Take, Shape
<1>3. Base(i, Setting)
  BY <1>1, <1>2 DEF Base
<1> DEFINE inner == Append(env, NoScope)
<1> HIDE DEF inner
<1>4. Kept(interp, Begin(i, body, inner, rest), Setting)
  BY <1>2, <1>3, BodyKept
<1> QED
  BY <1>4 DEF Scope, inner

\* The body of a block begins.
LEMMA BlockKeeps == ASSUME IInv, ExecuteBlock PROVE IInv'
<1> DEFINE c == Continuing \o Rest
           body == Current.body
           env == Top.env
           next == Scope(interp, body, env, c)
<1>1. /\ Step(1, next) /\ interp.control # <<>> /\ Top.task = "statements"
      /\ Top.todo # <<>> /\ Current.kind = "Block"
  BY DEF ExecuteBlock, NextStatement, Doing
<1>2. /\ Continues(c) /\ Depth(c) = 0 /\ Enclosed(c)
      /\ IsStatement(Current, Setting.parts)
  BY <1>1, ContinuingFacts
<1>3. body \in Setting.parts.bodies
  BY <1>1, <1>2 DEF IsStatement
<1>4. interp.expression_depth = 0
  BY <1>1, StatementFacts DEF StatementTasks
<1> HIDE DEF c, body, env
<1>5. Kept(interp, next, Setting)
  BY <1>2, <1>3, <1>4, ScopeKept
<1> QED
  BY <1>1, <1>5, StepKeeps

\* A loop stands before the statements that follow it.
LEMMA WhileKeeps == ASSUME IInv, ExecuteWhile PROVE IInv'
<1> DEFINE s == Current
           t == [task |-> "while", statement |-> s, env |-> Top.env]
           c == Continuing \o Rest
           d == <<t>> \o c
           tasks == <<t>> \o Continuing
           next == Push(tasks)
<1>1. /\ Step(1, next) /\ interp.control # <<>> /\ Top.task = "statements"
      /\ Top.todo # <<>> /\ s.kind = "While"
  BY DEF ExecuteWhile, NextStatement, Doing
<1>2. /\ IsSequence(Continuing) /\ Continues(c) /\ Depth(c) = 0
      /\ IsSequence(c) /\ Enclosed(c) /\ IsStatement(s, Setting.parts)
  BY <1>1, ContinuingFacts
<1>3. IsSequence(Rest) /\ Top.task \in StatementTasks
  BY <1>1, StatementFacts DEF StatementTasks
<1>4. s.body \in Setting.parts.bodies /\ s.condition \in Setting.parts.exprs
  BY <1>1, <1>2 DEF IsStatement
<1> HIDE DEF c, s
<1>5. t.task = "while" /\ t.statement = s
  OBVIOUS
<1> HIDE DEF t
<1>6. HeldBy(t) /\ Placed(t, c) /\ t.task \notin Closers \cup {"call"}
  BY <1>2, <1>4, <1>5 DEF HeldBy, Holds, Placed, StatementTasks, Frames, Closers,
                          Composite
<1>7. Continues(d) /\ Depth(d) = 0
  BY <1>2, <1>6, StatementMore
<1>8. tasks \o Rest = d
  BY <1>2, <1>3, SingleFacts, ConcatAssociative3 DEF c
<1> HIDE DEF d, tasks
<1>9. Kept(interp, next, Setting)
  BY <1>1, <1>3, <1>7, <1>8, PushedKept
<1> QED
  BY <1>1, <1>9, StepKeeps

\* Break and continue are jumps.
LEMMA JumpKeeps == ASSUME IInv, ExecuteJump PROVE IInv'
<1> DEFINE next == Jump(Current.kind)
<1>1. /\ Step(1, next) /\ interp.control # <<>> /\ Top.task = "statements"
  BY DEF ExecuteJump, NextStatement, Doing
<1>2. interp.expression_depth = 0 /\ Enclosed(interp.control)
  BY <1>1, StatementFacts DEF StatementTasks, Frames
<1>3. IsError(next) \/ Kept(interp, next, Setting)
  BY <1>2, JumpKept
<1> QED
  BY <1>1, <1>3, StepKeeps

\* A declaration leaves the statements that follow.
LEMMA DeclarationKeeps == ASSUME IInv, ExecuteDeclaration PROVE IInv'
<1> DEFINE next == Push(Continuing)
<1>1. /\ Step(1, next) /\ interp.control # <<>> /\ Top.task = "statements"
      /\ Top.todo # <<>>
  BY DEF ExecuteDeclaration, NextStatement, Doing
<1>2. Continues(Continuing \o Rest) /\ Depth(Continuing \o Rest) = 0
  BY <1>1, ContinuingFacts
<1>3. Kept(interp, next, Setting)
  BY <1>1, <1>2, PushedKept DEF StatementTasks
<1> QED
  BY <1>1, <1>3, StepKeeps

\* The end of a body.
LEMMA EndStatementsKeeps == ASSUME IInv, EndStatements PROVE IInv'
<1> DEFINE next == Push(<<>>)
<1>1. Step(0, next) /\ interp.control # <<>> /\ Top.task = "statements"
  BY DEF EndStatements, Doing
<1>2. Kept(interp, next, Setting)
  BY <1>1, PopKept DEF Closers, Composite
<1> QED
  BY <1>1, <1>2, StepKeeps

\* The value of an expression statement is dropped.
LEMMA FinishExpressionKeeps == ASSUME IInv, FinishExpression PROVE IInv'
<1> DEFINE next == Take(1, <<>>)
<1>1. Step(0, next) /\ interp.control # <<>> /\ Top.task = "Expression"
  BY DEF FinishExpression, Doing
<1>2. Kept(interp, next, Setting)
  BY <1>1, PopKept DEF Closers, Composite
<1> QED
  BY <1>1, <1>2, StepKeeps

\* The binding of a let is its own, not a captured one.
LEMMA LetKeeps == ASSUME IInv, FinishLet PROVE IInv'
<1> DEFINE t == interp.bindings[Top.slot].annotation
           slot == Top.slot
           i == Take(1, <<>>)
           value == <<Operand>>
           visible == Only(Top.statement.name, Top.slot)
           bound == [i EXCEPT !.bindings[slot].value = value,
                              !.control[1].env = Extend(@, visible)]
           wrong == ~HasType(t, Operand)
           next == IF wrong THEN TypeError(Top.statement.value, t) ELSE bound
<1>1. Step(0, next) /\ interp.control # <<>> /\ Top.task = "Let"
  BY DEF FinishLet, Doing
<1>2. /\ Continues(Rest) /\ IsSequence(Rest) /\ Depth(Rest) = 0
      /\ interp.expression_depth = 0 /\ HeldBy(Top) /\ Placed(Top, Rest)
  BY <1>1, StatementFacts DEF StatementTasks
<1>3. slot \notin 1 .. interp.captured_bindings /\ Follows(Rest, "statements")
  BY <1>1, <1>2 DEF HeldBy, Holds, Placed
<1> HIDE DEF slot, t, wrong, visible, value
<1> DEFINE x == Rest[1]
           u == [x EXCEPT !.env = Extend(@, visible)]
           j == [i EXCEPT !.control[1].env = Extend(@, visible)]
<1>4. /\ Alike(interp, j) /\ j.control = [Rest EXCEPT ![1] = u]
      /\ j.expression_depth = 0
  <2>1. <<>> \o Rest = Rest
    BY <1>2, WithoutFront
  <2> QED
    BY <1>2, <2>1, GivenFacts DEF Take, Alike, Shape
<1>5. bound = [j EXCEPT !.bindings[slot].value = value]
  BY GivenFacts DEF Take, Shape
<1> HIDE DEF j
<1>6. Rest # <<>> /\ x.task = "statements" /\ 1 \in DOMAIN Rest
  BY <1>2, <1>3, SequenceFacts DEF Follows
<1>7. HeldBy(x)
  BY <1>2, <1>6 DEF Continues, Ready, HeldBy
<1>8. /\ u.task = "statements" /\ DOMAIN u = DOMAIN x /\ u.todo = x.todo
  BY <1>6, <1>7 DEF HeldBy, Holds
<1> HIDE DEF u
<1>9. HeldBy(u)
  BY <1>6, <1>7, <1>8 DEF HeldBy, Holds, Composite
<1>10. Kept(interp, j, Setting)
  BY <1>2, <1>4, <1>6, <1>8, <1>9, RestChanged
<1>11. Kept(interp, bound, Setting)
  <2>1. j.bindings = interp.bindings
    BY <1>4 DEF Alike
  <2> HIDE DEF bound
  <2> QED
    BY <1>3, <1>5, <1>10, <2>1, BoundKept
<1> HIDE DEF bound
<1>12. IsError(next) \/ Kept(interp, next, Setting)
  BY <1>11 DEF TypeError, IsError
<1> HIDE DEF next
<1> QED
  BY <1>1, <1>12, StepKeeps

\* A return whose value has the right type is a jump.
LEMMA FinishReturnKeeps == ASSUME IInv, FinishReturn PROVE IInv'
<1> DEFINE value == Top.statement.result
           e == IF value = <<>> THEN Null ELSE Head(value)
           wrong == ~HasType(interp.return_type, Operand)
           next == IF wrong THEN TypeError(e, interp.return_type)
                   ELSE Jump("Return")
<1>1. Step(0, next) /\ interp.control # <<>> /\ Top.task = "Return"
  BY DEF FinishReturn, Doing
<1>2. interp.expression_depth = 0 /\ Enclosed(interp.control)
  BY <1>1, StatementFacts DEF StatementTasks, Frames
<1>3. IsError(Jump("Return")) \/ Kept(interp, Jump("Return"), Setting)
  BY <1>2, JumpKept
<1>4. IsError(TypeError(e, interp.return_type))
  BY DEF TypeError, IsError
<1> HIDE DEF wrong, e
<1>5. IsError(next) \/ Kept(interp, next, Setting)
  BY <1>3, <1>4
<1> HIDE DEF next
<1> QED
  BY <1>1, <1>5, StepKeeps

\* One branch begins, or none.
LEMMA BranchKeeps == ASSUME IInv, Branch PROVE IInv'
<1> DEFINE s == Top.statement
           env == Top.env
           v == Operand
           i == Take(1, <<>>)
           next == IF v.type # "bool" THEN Error("Not a boolean")
                   ELSE IF v.bool THEN Scope(i, s.body, env, Rest)
                   ELSE IF s.else # <<>> THEN Scope(i, Head(s.else), env, Rest)
                   ELSE i
<1>1. Step(0, next) /\ interp.control # <<>> /\ Top.task = "If"
  BY DEF Branch, Doing
<1>2. /\ Continues(Rest) /\ Depth(Rest) = 0 /\ interp.expression_depth = 0
      /\ HeldBy(Top) /\ Enclosed(Rest)
  BY <1>1, StatementFacts DEF StatementTasks, Frames
<1>3. IsStatement(s, Setting.parts) /\ s.kind = "If"
  BY <1>1, <1>2 DEF HeldBy, Holds
<1>4. /\ s.body \in Setting.parts.bodies
      /\ s.else # <<>> => Head(s.else) \in Setting.parts.bodies
  BY <1>3 DEF IsStatement
<1>5. Kept(interp, i, Setting)
  BY <1>1, PopKept DEF Closers, Composite
<1> HIDE DEF s, env, v
<1>6. \A body \in Setting.parts.bodies :
          Kept(interp, Scope(i, body, env, Rest), Setting)
  BY <1>2, ScopeKept
<1>7. IsError(Error("Not a boolean"))
  BY DEF Error, IsError
<1> HIDE DEF i
<1>8. IsError(next) \/ Kept(interp, next, Setting)
  BY <1>4, <1>5, <1>6, <1>7
<1> HIDE DEF next
<1> QED
  BY <1>1, <1>8, StepKeeps

\* The least of some natural numbers.
LEMMA MinFacts ==
    ASSUME NEW S \in SUBSET Nat, S # {}
    PROVE  Min(S) \in S /\ \A j \in S : Min(S) <= j
<1>1. PICK k \in S : \A j \in S : k <= j
  BY LeastOf
<1> QED
  BY <1>1 DEF Min

\* The first arm that matches begins.
LEMMA ArmKeeps == ASSUME IInv, SelectArm PROVE IInv'
<1> DEFINE arms == Top.statement.arms
           env == Top.env
           v == Operand
           taken == {k \in DOMAIN arms : Matches(arms[k].pattern, v)}
           i == Take(1, <<>>)
           next == IF taken = {} THEN i
                   ELSE Scope(i, arms[Min(taken)].body, env, Rest)
<1>1. Step(0, next) /\ interp.control # <<>> /\ Top.task = "Match"
  BY DEF SelectArm, Doing
<1>2. /\ Continues(Rest) /\ Depth(Rest) = 0 /\ interp.expression_depth = 0
      /\ HeldBy(Top) /\ Enclosed(Rest)
  BY <1>1, StatementFacts DEF StatementTasks, Frames
<1>3. /\ IsSequence(arms)
      /\ \A k \in DOMAIN arms : arms[k].body \in Setting.parts.bodies
  BY <1>1, <1>2 DEF HeldBy, Holds, IsStatement
<1>4. Kept(interp, i, Setting)
  BY <1>1, PopKept DEF Closers, Composite
<1> HIDE DEF arms, env, v
<1>5. taken # {} => arms[Min(taken)].body \in Setting.parts.bodies
  <2>1. taken \in SUBSET DOMAIN arms
    OBVIOUS
  <2> HIDE DEF taken
  <2>2. taken \in SUBSET Nat
    BY <1>3, <2>1, SequenceFacts
  <2>3. taken # {} => Min(taken) \in taken
    BY <2>2, MinFacts
  <2> QED
    BY <1>3, <2>1, <2>3
<1>6. \A body \in Setting.parts.bodies :
          Kept(interp, Scope(i, body, env, Rest), Setting)
  BY <1>2, ScopeKept
<1> HIDE DEF taken, i
<1>7. Kept(interp, next, Setting)
  BY <1>4, <1>5, <1>6
<1> HIDE DEF next
<1> QED
  BY <1>1, <1>7, StepKeeps

\* The condition is evaluated before the test, which stands before its loop.
LEMMA TestKeeps == ASSUME IInv, TestLoop PROVE IInv'
<1> DEFINE e == Top.statement.condition
           env == Top.env
           t == [task |-> "test"]
           c == interp.control
           p == <<Evaluate(e, env), t>>
           next == [interp EXCEPT !.control = p \o @]
<1>1. Step(0, next) /\ c # <<>> /\ Top.task = "while"
  BY DEF TestLoop, Doing
<1>2. /\ Continues(c) /\ Depth(c) = 0 /\ interp.expression_depth = 0
      /\ HeldBy(Top) /\ Enclosed(c) /\ c = <<Top>> \o Rest
  BY <1>1, StatementFacts DEF StatementTasks, Frames
<1>3. e \in Setting.parts.exprs
  BY <1>1, <1>2 DEF HeldBy, Holds
<1>4. IsSequence(c) /\ c[1] = Top
  BY <1>1, NextTask, GivenFacts DEF Machine, Ready
<1> HIDE DEF e, env, c
<1>5. HeldBy(t) /\ Placed(t, c) /\ t.task \notin Closers \cup {"call"}
  BY <1>1, <1>2, <1>4 DEF HeldBy, Holds, Placed, Follows, StatementTasks, Frames,
                          Closers, Composite
<1> DEFINE d == <<t>> \o c
           b == <<Evaluate(e, env)>> \o d
<1> HIDE DEF t
<1>6. Continues(d) /\ Depth(d) = 0 /\ Enclosed(d)
  BY <1>2, <1>5, StatementMore
<1> HIDE DEF d
<1>7. Continues(b) /\ Depth(b) = 0
  BY <1>3, <1>6, EvaluateMore
<1>8. p \o c = b
  BY <1>4, TwoTasks DEF d
<1> HIDE DEF p, b
<1>9. Alike(interp, next) /\ next.control = p \o c /\ next.expression_depth = 0
  BY <1>2, GivenFacts DEF Alike, Shape, c
<1> HIDE DEF next
<1>10. Kept(interp, next, Setting)
  BY <1>7, <1>8, <1>9, ControlKept
<1> QED
  BY <1>1, <1>10, StepKeeps DEF c

\* The body of a loop begins before the loop, or the loop is left.
LEMMA LoopKeeps == ASSUME IInv, EnterLoop PROVE IInv'
<1> DEFINE v == Operand
           i == Take(1, <<>>)
           loop == Head(Rest)
           d == Tail(Rest)
           next == IF v.type # "bool" THEN Error("Not a boolean")
                   ELSE IF v.bool THEN Scope(i, loop.statement.body, loop.env, Rest)
                   ELSE [i EXCEPT !.control = d]
<1>1. Step(0, next) /\ interp.control # <<>> /\ Top.task = "test"
  BY DEF EnterLoop, Doing
<1>2. /\ Continues(Rest) /\ Depth(Rest) = 0 /\ interp.expression_depth = 0
      /\ Placed(Top, Rest) /\ Enclosed(Rest) /\ IsSequence(Rest)
  BY <1>1, StatementFacts DEF StatementTasks, Frames
<1>3. Follows(Rest, "while")
  BY <1>1, <1>2 DEF Placed
<1>4. Rest # <<>> /\ loop = Rest[1] /\ loop.task = "while" /\ 1 \in DOMAIN Rest
  BY <1>2, <1>3, SequenceFacts DEF Follows
<1>5. HeldBy(loop)
  BY <1>2, <1>4 DEF Continues, Ready, HeldBy
<1>6. loop.statement.body \in Setting.parts.bodies
  BY <1>4, <1>5 DEF HeldBy, Holds
<1>7. /\ IsSequence(d) /\ Rest = <<loop>> \o d
      /\ Ready(d, interp.captured_bindings, interp.in_parallel_worker, Setting)
      /\ Placed(loop, d)
  <2> DEFINE r == Rest
             n == interp.captured_bindings
             worker == interp.in_parallel_worker
             g == Setting
  <2>1. Ready(r, n, worker, g) /\ r # <<>>
    BY <1>2, <1>4 DEF Continues
  <2> HIDE DEF r, n, worker, g
  <2>2. /\ IsSequence(Tail(r)) /\ Ready(Tail(r), n, worker, g)
        /\ r = <<r[1]>> \o Tail(r) /\ Placed(r[1], Tail(r))
    BY <2>1, TopReady
  <2> QED
    BY <1>4, <2>2 DEF r, n, worker, g
<1> HIDE DEF loop, d
<1>8. Continues(d) /\ Depth(d) = 0
  <2>1. loop.task \notin Closers \cup {"call"} /\ loop.task \in StatementTasks
    BY <1>4 DEF Closers, Composite, StatementTasks
  <2>2. Depth(d) = 0
    BY <1>7, <2>1 DEF Placed
  <2>3. Cardinality(CallsIn(<<loop>> \o d)) = Cardinality(CallsIn(d)) + 0
    BY <1>7, <2>1, OneTask
  <2>4. Cardinality(CallsIn(d)) \in Nat /\ limits.expression_depth \in Nat
    BY <1>7, CountFacts, GivenFacts
  <2> QED
    BY <1>2, <1>7, <2>2, <2>3, <2>4 DEF Continues
<1>9. Kept(interp, [i EXCEPT !.control = d], Setting)
  <2> DEFINE j == [i EXCEPT !.control = d]
  <2>1. Alike(interp, j) /\ j.control = d /\ j.expression_depth = 0
    BY <1>2, GivenFacts DEF Alike, Take, Shape
  <2> HIDE DEF j
  <2>2. Kept(interp, j, Setting)
    BY <1>8, <2>1, ControlKept
  <2> QED
    BY <2>2 DEF j
<1>10. Kept(interp, Scope(i, loop.statement.body, loop.env, Rest), Setting)
  BY <1>2, <1>6, ScopeKept
<1>11. IsError(Error("Not a boolean"))
  BY DEF Error, IsError
<1> HIDE DEF v, i
<1>12. IsError(next) \/ Kept(interp, next, Setting)
  BY <1>9, <1>10, <1>11
<1> HIDE DEF next
<1> QED
  BY <1>1, <1>12, StepKeeps

\* A task of the same statement takes the place of the first one.
LEMMA SameStatement ==
    ASSUME IInv, interp.control # <<>>,
           Top.task \in StatementTasks \ (Frames \cup {"exit"}), NEW t,
           t.task \in {"for", "batch"}, HeldBy(t)
    PROVE  /\ Continues(<<t>> \o Rest) /\ Depth(<<t>> \o Rest) = 0
           /\ Enclosed(<<t>> \o Rest)
           /\ Kept(interp, Push(<<t>>), Setting)
           /\ \A n : Kept(interp, Take(n, <<t>>), Setting)
<1>1. Continues(Rest) /\ Depth(Rest) = 0 /\ Enclosed(Rest)
  BY StatementFacts
<1>2. t.task \notin Closers \cup {"call"} /\ Placed(t, Rest)
  BY <1>1 DEF Closers, Composite, Placed, StatementTasks, Frames
<1>3. Continues(<<t>> \o Rest) /\ Depth(<<t>> \o Rest) = 0 /\ Enclosed(<<t>> \o Rest)
  BY <1>1, <1>2, StatementMore
<1> DEFINE tasks == <<t>>
<1>4. Continues(tasks \o Rest) /\ Depth(tasks \o Rest) = 0
  BY <1>3
<1> HIDE DEF tasks
<1>5. /\ Kept(interp, Push(tasks), Setting)
      /\ \A n : Kept(interp, Take(n, tasks), Setting)
  BY <1>4, PushedKept
<1> QED
  BY <1>3, <1>5 DEF tasks

\* The loop stands where its statement stood.
LEMMA ForKeeps == ASSUME IInv, StartFor PROVE IInv'
<1> DEFINE s == Top.statement
           env == Top.env
           v == Operand
           t == [task |-> "for", statement |-> s, env |-> env, values |-> v.values]
           next == IF v.type # "array" THEN Error("Not an array") ELSE Take(1, <<t>>)
<1>1. Step(0, next) /\ interp.control # <<>> /\ Top.task = "For"
  BY DEF StartFor, Doing
<1>2. HeldBy(Top)
  BY <1>1, NextTask
<1>3. s.body \in Setting.parts.bodies
  BY <1>1, <1>2 DEF HeldBy, Holds
<1> HIDE DEF s, env, v
<1>4. /\ t.task = "for" /\ t.statement = s
      /\ DOMAIN t = {"task", "statement", "env", "values"}
  OBVIOUS
<1> HIDE DEF t
<1>5. HeldBy(t)
  BY <1>3, <1>4 DEF HeldBy, Holds, Composite
<1>6. Kept(interp, Take(1, <<t>>), Setting)
  <2>1. /\ Top.task \in StatementTasks \ (Frames \cup {"exit"})
        /\ t.task \in {"for", "batch"}
    BY <1>1, <1>4 DEF StatementTasks, Frames
  <2>2. interp.control # <<>>
    BY <1>1
  <2>3. \A n : Kept(interp, Take(n, <<t>>), Setting)
    BY <1>5, <2>1, <2>2, SameStatement
  <2> QED
    BY <2>3
<1>7. IsError(Error("Not an array"))
  BY DEF Error, IsError
<1>8. IsError(next) \/ Kept(interp, next, Setting)
  BY <1>6, <1>7
<1> HIDE DEF next
<1> QED
  BY <1>1, <1>8, StepKeeps

\* An interpreter with one binding more.
LEMMA AllocateFacts ==
    ASSUME NEW i, Base(i, Setting), NEW value, NEW annotation
    PROVE  LET j == Allocate(i, value, annotation)
           IN  /\ Base(j, Setting)
               /\ Len(j.bindings) = Len(i.bindings) + 1
               /\ \A k \in 1 .. Len(i.bindings) : j.bindings[k] = i.bindings[k]
               /\ j.captured_bindings = i.captured_bindings
               /\ j.in_parallel_worker = i.in_parallel_worker
               /\ j.call_stack = i.call_stack
               /\ j.expression_depth = i.expression_depth
<1> DEFINE x == Binding(<<value>>, annotation, TRUE)
           b == i.bindings
           s == Append(b, x)
           j == Allocate(i, value, annotation)
<1>1. IsSequence(b) /\ Len(b) \in Nat /\ i.captured_bindings \in 0 .. Len(b)
      /\ Shape(i)
  BY SequenceFacts DEF Base
<1> HIDE DEF x
<1>2. /\ Shape(j) /\ j.bindings = s /\ j.functions = i.functions
      /\ j.expression_depth = i.expression_depth
      /\ j.call_stack = i.call_stack
      /\ j.captured_bindings = i.captured_bindings
      /\ j.in_parallel_worker = i.in_parallel_worker
      /\ j.return_type = i.return_type /\ j.output = i.output
  BY <1>1 DEF Allocate, Shape, x
<1> HIDE DEF b, j
<1>3. /\ IsSequence(s) /\ Len(s) = Len(b) + 1
      /\ \A k \in 1 .. Len(b) : s[k] = b[k]
  BY <1>1, Appended
<1> HIDE DEF s
<1>4. j.captured_bindings \in 0 .. Len(j.bindings)
  BY <1>1, <1>2, <1>3
<1>5. Base(j, Setting)
  BY <1>2, <1>3, <1>4 DEF Base
<1> QED
  BY <1>2, <1>3, <1>5 DEF b, j

\* An iteration has a binding of its own.
LEMMA IterationKeeps == ASSUME IInv, NextIteration PROVE IInv'
<1> DEFINE s == Top.statement
           i == Allocate(interp, Head(Top.values), NoType)
           t == [Top EXCEPT !.values = Tail(@)]
           c == <<t>> \o Rest
           env == Append(Top.env, Only(s.variable, Len(i.bindings)))
           begun == Begin(i, s.body, env, c)
           empty == Push(<<>>)
<1>1. /\ Step(0, empty) \/ Step(1, begun)
      /\ interp.control # <<>> /\ Top.task = "for"
  BY DEF NextIteration, Doing
<1>2. interp.expression_depth = 0 /\ HeldBy(Top)
  BY <1>1, StatementFacts DEF StatementTasks
<1>3. /\ DOMAIN Top = {"task", "statement", "env", "values"}
      /\ s.body \in Setting.parts.bodies
  BY <1>1, <1>2 DEF HeldBy, Holds
<1>4. /\ t.task = "for" /\ t.statement = s
      /\ DOMAIN t = {"task", "statement", "env", "values"}
  BY <1>1, <1>3
<1> HIDE DEF t, s
<1>5. HeldBy(t)
  BY <1>3, <1>4 DEF HeldBy, Holds, Composite
<1>6. Continues(c) /\ Depth(c) = 0 /\ Enclosed(c)
  <2>1. /\ Top.task \in StatementTasks \ (Frames \cup {"exit"})
        /\ t.task \in {"for", "batch"} /\ interp.control # <<>>
    BY <1>1, <1>4 DEF StatementTasks, Frames
  <2> QED
    BY <1>5, <2>1, SameStatement
<1>7. /\ Base(i, Setting) /\ Len(i.bindings) = Len(interp.bindings) + 1
      /\ \A k \in 1 .. Len(interp.bindings) : i.bindings[k] = interp.bindings[k]
      /\ i.captured_bindings = interp.captured_bindings
      /\ i.in_parallel_worker = interp.in_parallel_worker
      /\ i.call_stack = interp.call_stack /\ i.expression_depth = 0
  <2> DEFINE x == Head(Top.values)
  <2>1. Base(interp, Setting)
    BY GivenFacts DEF Machine
  <2> HIDE DEF x
  <2> QED
    BY <1>2, <2>1, AllocateFacts
<1> HIDE DEF i, c, env
<1>8. \A k \in 1 .. interp.captured_bindings : i.bindings[k] = interp.bindings[k]
  <2>1. /\ interp.captured_bindings \in 0 .. Len(interp.bindings)
        /\ Len(interp.bindings) \in Nat
    BY GivenFacts, SequenceFacts DEF Machine, Base
  <2> QED
    BY <1>7, <2>1
<1>9. Kept(interp, begun, Setting)
  BY <1>3, <1>6, <1>7, <1>8, BodyKept
<1>10. Kept(interp, empty, Setting)
  BY <1>1, PopKept DEF Closers, Composite
<1> HIDE DEF begun, empty
<1> QED
  BY <1>1, <1>9, <1>10, StepKeeps

\* A function that ends without a return is left.
LEMMA EndFunctionKeeps == ASSUME IInv, EndFunction PROVE IInv'
<1> DEFINE c == interp.control
           vs == <<NullValue>> \o interp.operands
           left == LeaveFunction(c, vs)
           good == HasType(interp.return_type, NullValue)
           next == IF good THEN left ELSE Error("Type")
<1>1. Step(0, next) /\ c # <<>> /\ Top.task = "call"
  BY DEF EndFunction, Doing
<1>2. IsSequence(c) /\ c[1].task = "call"
  BY <1>1, NextTask, GivenFacts DEF Machine, Ready
<1>3. 1 \in 1 .. Len(c)
  BY <1>1, <1>2, SequenceFacts
<1>4. \A j \in 1 .. (1 - 1) : c[j].task # "call"
  OBVIOUS
<1> HIDE DEF vs
<1>5. Kept(interp, LeaveFunction(Drop(c, 1 - 1), vs), Setting)
  BY <1>2, <1>3, <1>4, LeaveKept
<1>6. Drop(c, 1 - 1) = c
  BY <1>2, WithoutFront
<1>7. Kept(interp, left, Setting)
  BY <1>5, <1>6
<1>8. IsError(Error("Type"))
  BY DEF Error, IsError
<1> HIDE DEF left, good
<1>9. IsError(next) \/ Kept(interp, next, Setting)
  BY <1>7, <1>8
<1> HIDE DEF next
<1> QED
  BY <1>1, <1>9, StepKeeps

----------------------------------------------------------------------------
(* The parallel statement *)

BatchFields ==
    {"task", "statement", "env", "values", "jobs", "outcomes", "faults"}

\* What makes a batch.
LEMMA BatchHeld ==
    ASSUME NEW t, t.task = "batch", DOMAIN t = BatchFields,
           t.statement.body \in Setting.parts.bodies, IsSequence(t.outcomes),
           \A k \in DOMAIN t.outcomes : IsSequence(t.outcomes[k].output)
    PROVE  HeldBy(t)
  BY DEF HeldBy, Holds, Composite, BatchFields

\* What a batch holds, and what may take its place.
LEMMA BatchFacts ==
    ASSUME IInv, interp.control # <<>>, Top.task = "batch"
    PROVE  /\ DOMAIN Top = BatchFields /\ IsSequence(Top.outcomes)
           /\ Top.statement.body \in Setting.parts.bodies
           /\ \A k \in DOMAIN Top.outcomes : IsSequence(Top.outcomes[k].output)
           /\ \A t : t.task = "batch" /\ HeldBy(t) => Kept(interp, Push(<<t>>), Setting)
<1>1. HeldBy(Top)
  BY NextTask
<1>2. \A t : t.task = "batch" /\ HeldBy(t) => Kept(interp, Push(<<t>>), Setting)
  <2>1. Top.task \in StatementTasks \ (Frames \cup {"exit"})
    BY DEF StatementTasks, Frames
  <2> QED
    BY <2>1, SameStatement
<1> QED
  BY <1>1, <1>2 DEF HeldBy, Holds, BatchFields

\* The batch stands where its statement stood.
LEMMA ParallelKeeps == ASSUME IInv, StartParallel PROVE IInv'
<1> DEFINE s == Top.statement
           env == Top.env
           v == Operand
           t == [task |-> "batch", statement |-> s, env |-> env,
                 values |-> v.values, jobs |-> <<>>, outcomes |-> <<>>,
                 faults |-> <<>>]
           next == IF v.type # "array" THEN Error("Not an array") ELSE Take(1, <<t>>)
<1>1. Step(0, next) /\ interp.control # <<>> /\ Top.task = "Parallel"
  BY DEF StartParallel, Doing
<1>2. HeldBy(Top)
  BY <1>1, NextTask
<1>3. s.body \in Setting.parts.bodies
  BY <1>1, <1>2 DEF HeldBy, Holds
<1> HIDE DEF s, env, v
<1>4. /\ t.task = "batch" /\ t.statement = s /\ t.outcomes = <<>>
      /\ DOMAIN t = BatchFields
  BY DEF BatchFields
<1> HIDE DEF t
<1>5. HeldBy(t)
  BY <1>3, <1>4, EmptyFacts, BatchHeld
<1>6. \A n : Kept(interp, Take(n, <<t>>), Setting)
  <2>1. /\ Top.task \in StatementTasks \ (Frames \cup {"exit"})
        /\ t.task \in {"for", "batch"} /\ interp.control # <<>>
    BY <1>1, <1>4 DEF StatementTasks, Frames
  <2> QED
    BY <1>5, <2>1, SameStatement
<1>7. IsError(Error("Not an array"))
  BY DEF Error, IsError
<1>8. IsError(next) \/ Kept(interp, next, Setting)
  BY <1>6, <1>7
<1> HIDE DEF next
<1> QED
  BY <1>1, <1>8, StepKeeps

\* The jobs of a batch are taken from its values.
LEMMA PrepareKeeps == ASSUME IInv, PrepareBatch PROVE IInv'
<1> DEFINE width == IF interp.in_parallel_worker THEN 1 ELSE limits.parallel_workers
           n == Cardinality((1 .. width) \cap DOMAIN Top.values)
           t == [Top EXCEPT !.jobs = SubSeq(Top.values, 1, n), !.values = Drop(@, n)]
           next == Push(<<t>>)
           empty == Push(<<>>)
<1>1. /\ Step(0, empty) \/ Step(n, next)
      /\ interp.control # <<>> /\ Top.task = "batch"
  BY DEF PrepareBatch, Doing
<1>2. n \in Nat
  <2>1. width \in Nat
    BY GivenFacts
  <2> HIDE DEF width
  <2>2. IsFiniteSet(1 .. width)
    BY <2>1, FS_Interval
  <2>3. IsFiniteSet((1 .. width) \cap DOMAIN Top.values)
    BY <2>2, FS_Subset
  <2> QED
    BY <2>3, FS_CardinalityType
<1> HIDE DEF n
<1>3. /\ DOMAIN Top = BatchFields /\ IsSequence(Top.outcomes)
      /\ Top.statement.body \in Setting.parts.bodies
      /\ \A k \in DOMAIN Top.outcomes : IsSequence(Top.outcomes[k].output)
      /\ \A u : u.task = "batch" /\ HeldBy(u) => Kept(interp, Push(<<u>>), Setting)
  BY <1>1, BatchFacts
<1>4. /\ t.task = "batch" /\ t.statement = Top.statement
      /\ t.outcomes = Top.outcomes /\ DOMAIN t = BatchFields
  BY <1>1, <1>3 DEF BatchFields
<1> HIDE DEF t
<1>5. HeldBy(t)
  BY <1>3, <1>4, BatchHeld
<1>6. Kept(interp, next, Setting)
  BY <1>3, <1>4, <1>5
<1>7. Kept(interp, empty, Setting)
  BY <1>1, PopKept DEF Closers, Composite
<1> HIDE DEF next, empty
<1> QED
  BY <1>1, <1>2, <1>6, <1>7, StepKeeps

\* The first n elements of a sequence.
LEMMA PrefixFacts ==
    ASSUME NEW s, IsSequence(s), NEW n \in 0 .. Len(s)
    PROVE  /\ IsSequence(SubSeq(s, 1, n)) /\ Len(SubSeq(s, 1, n)) = n
           /\ \A k \in 1 .. n : SubSeq(s, 1, n)[k] = s[k]
<1> DEFINE S == Range(s)
<1>1. s \in Seq(S) /\ n \in Nat /\ n <= Len(s) /\ Len(s) \in Nat
  BY SequenceFacts DEF IsSequence
<1> HIDE DEF S
<1>2. /\ SubSeq(s, 1, n) \in Seq(S) /\ Len(SubSeq(s, 1, n)) = n
      /\ \A k \in 1 .. n : SubSeq(s, 1, n)[k] = s[k]
  BY <1>1
<1> QED
  BY <1>2, SequenceOver

\* The lines of an outcome are printed as far as they fit.
LEMMA ReplayKeeps == ASSUME IInv, ReplayOutcome PROVE IInv'
<1> DEFINE out == interp.output
           outcome == Head(Top.outcomes)
           lines == outcome.output
           batch == Replay([output |-> out, faults |-> Top.faults], outcome)
           t == [Top EXCEPT !.outcomes = Tail(@), !.faults = batch.faults]
           j == Push(<<t>>)
           next == [j EXCEPT !.output = batch.output]
<1>1. /\ Step(0, next) /\ interp.control # <<>> /\ Top.task = "batch"
      /\ Top.outcomes # <<>>
  BY DEF ReplayOutcome, Doing
<1>2. /\ DOMAIN Top = BatchFields /\ IsSequence(Top.outcomes)
      /\ Top.statement.body \in Setting.parts.bodies
      /\ \A k \in DOMAIN Top.outcomes : IsSequence(Top.outcomes[k].output)
      /\ \A u : u.task = "batch" /\ HeldBy(u) => Kept(interp, Push(<<u>>), Setting)
  BY <1>1, BatchFacts
<1>3. /\ DOMAIN Top.outcomes = 1 .. Len(Top.outcomes) /\ Len(Top.outcomes) \in Nat \ {0}
      /\ outcome = Top.outcomes[1]
  BY <1>1, <1>2, SequenceFacts
<1>4. IsSequence(lines)
  BY <1>2, <1>3
<1>5. /\ IsSequence(Tail(Top.outcomes))
      /\ \A k \in DOMAIN Tail(Top.outcomes) :
             IsSequence(Tail(Top.outcomes)[k].output)
  <2> DEFINE os == Top.outcomes
             r == Tail(os)
  <2>1. IsSequence(os) /\ os # <<>>
    BY <1>1, <1>2
  <2> HIDE DEF os
  <2>2. /\ IsSequence(r) /\ Len(r) = Len(os) - 1
        /\ \A k \in 1 .. Len(os) - 1 : r[k] = os[k + 1]
    BY <2>1, TailFacts
  <2> HIDE DEF r
  <2>3. DOMAIN r = 1 .. Len(os) - 1 /\ DOMAIN os = 1 .. Len(os) /\ Len(os) \in Nat
    BY <2>1, <2>2, SequenceFacts
  <2>4. \A k \in DOMAIN r : k + 1 \in DOMAIN os /\ r[k] = os[k + 1]
    BY <2>2, <2>3
  <2>5. \A k \in DOMAIN os : IsSequence(os[k].output)
    BY <1>2 DEF os
  <2> QED
    BY <2>2, <2>4, <2>5 DEF r, os
<1>6. \E n \in 0 .. Len(lines) :
          /\ batch.output = out \o SubSeq(lines, 1, n)
          /\ interp.in_parallel_worker
                 => Len(out) + n <= limits.parallel_output_bytes
  <2> DEFINE limit == limits.parallel_output_bytes
             room == IF interp.in_parallel_worker THEN limit - Len(out)
                     ELSE Len(lines)
             n == Min({room, Len(lines)})
  <2>1. batch.output = out \o SubSeq(lines, 1, n)
    BY DEF Replay
  <2>2. /\ limit \in Nat /\ Len(lines) \in Nat /\ Len(out) \in Nat
        /\ interp.in_parallel_worker \in BOOLEAN
        /\ interp.in_parallel_worker => Len(out) <= limit
    BY <1>4, GivenFacts, SequenceFacts DEF Machine, Base
  <2> HIDE DEF limit, lines, out
  <2>4. room \in Nat
    BY <2>2
  <2>5. interp.in_parallel_worker => room = limit - Len(out)
    OBVIOUS
  <2> HIDE DEF room
  <2>6. n \in {room, Len(lines)} /\ \A m \in {room, Len(lines)} : n <= m
    <3> DEFINE S == {room, Len(lines)}
    <3>1. S \in SUBSET Nat /\ S # {}
      BY <2>2, <2>4
    <3> HIDE DEF S
    <3>2. Min(S) \in S /\ \A m \in S : Min(S) <= m
      BY <3>1, MinFacts
    <3> QED
      BY <3>2 DEF S
  <2> HIDE DEF n
  <2>7. n \in Nat /\ n <= room /\ n <= Len(lines)
    BY <2>2, <2>4, <2>6
  <2>8. n \in 0 .. Len(lines)
    BY <2>2, <2>7
  <2>9. interp.in_parallel_worker => Len(out) + n <= limit
    BY <2>2, <2>5, <2>7
  <2> QED
    BY <2>1, <2>8, <2>9 DEF limit, lines, out
<1>7. /\ IsSequence(batch.output)
      /\ interp.in_parallel_worker
             => Len(batch.output) <= limits.parallel_output_bytes
  <2>1. PICK n \in 0 .. Len(lines) :
            /\ batch.output = out \o SubSeq(lines, 1, n)
            /\ interp.in_parallel_worker
                   => Len(out) + n <= limits.parallel_output_bytes
    BY <1>6
  <2>2. IsSequence(out)
    BY GivenFacts DEF Machine, Base
  <2> DEFINE p == SubSeq(lines, 1, n)
  <2> HIDE DEF lines, out, batch
  <2>3. IsSequence(p) /\ Len(p) = n
    BY <1>4, PrefixFacts
  <2> HIDE DEF p
  <2>4. IsSequence(out \o p) /\ Len(out \o p) = Len(out) + Len(p)
    BY <2>2, <2>3, ConcatFacts
  <2> QED
    BY <2>1, <2>3, <2>4 DEF p
<1> HIDE DEF batch, lines, outcome, out
<1>8. /\ t.task = "batch" /\ t.statement = Top.statement
      /\ t.outcomes = Tail(Top.outcomes) /\ DOMAIN t = BatchFields
  BY <1>1, <1>2 DEF BatchFields
<1> HIDE DEF t
<1>9. HeldBy(t)
  BY <1>2, <1>5, <1>8, BatchHeld
<1>10. Kept(interp, j, Setting)
  BY <1>2, <1>8, <1>9
<1> HIDE DEF j
<1>11. Kept(interp, next, Setting)
  <2> DEFINE output == batch.output
  <2>1. /\ IsSequence(output)
        /\ interp.in_parallel_worker => Len(output) <= limits.parallel_output_bytes
    BY <1>7
  <2> HIDE DEF output
  <2>2. Kept(interp, [j EXCEPT !.output = output], Setting)
    BY <1>10, <2>1, OutputKept
  <2> QED
    BY <2>2 DEF output
<1> HIDE DEF next
<1> QED
  BY <1>1, <1>11, StepKeeps

\* The first failure of a batch ends it.
LEMMA EndBatchKeeps == ASSUME IInv, EndBatch PROVE IInv'
<1>1. /\ Fail(Head(Top.faults), interp.output) /\ UNCHANGED Given
      /\ remaining_steps' = remaining_steps
  BY DEF EndBatch, Given
<1>2. remaining_steps' \in 0 .. limits.steps
  BY <1>1 DEF IInv
<1> QED
  BY <1>1, <1>2, FailKeeps

\* A worker has an interpreter that waits for it.
LEMMA EndWorkerKeeps == ASSUME IInv, EndWorker PROVE IInv'
<1>1. /\ Outcome(interp.output, <<>>) /\ UNCHANGED Given
      /\ remaining_steps' = remaining_steps
      /\ interp.control # <<>> /\ Top.task = "worker"
  BY DEF EndWorker, Doing, Given
<1>2. remaining_steps' \in 0 .. limits.steps
  BY <1>1 DEF IInv
<1>3. interp.in_parallel_worker
  BY <1>1, NextTask DEF HeldBy, Holds
<1>4. outer # <<>>
  BY <1>3 DEF IInv, Above
<1> QED
  BY <1>1, <1>2, <1>4, OutcomeKeeps

\* What an interpreter starts or ends with.
LEMMA FrameReady ==
    ASSUME NEW t, t.task \in {"worker", "program", "exit"},
           NEW n, NEW worker, NEW g, t.task = "worker" => worker
    PROVE  /\ Ready(<<t>>, n, worker, g)
           /\ Depth(<<t>>) = 0 /\ Cardinality(CallsIn(<<t>>)) = 0
           /\ t.task \in Frames => Enclosed(<<t>>)
           /\ <<t>> \o <<>> = <<t>>
<1> DEFINE c == <<t>>
<1>1. IsSequence(c) /\ Len(c) = 1 /\ c[1] = t
  BY SingleFacts
<1>2. c \o <<>> = c
  <2>1. c \in Seq({t})
    OBVIOUS
  <2> HIDE DEF c
  <2> QED
    BY <2>1, ConcatEmptySeq
<1>3. /\ IsSequence(<<>>) /\ Depth(<<>>) = 0 /\ Cardinality(CallsIn(<<>>)) = 0
      /\ Ready(<<>>, n, worker, g)
  BY EmptyFacts
<1>4. Placed(t, <<>>) /\ Holds(t, n, worker, g) /\ t.task \notin Closers \cup {"call"}
  BY <1>3 DEF Placed, Holds, Frames, StatementTasks, Closers, Composite
<1>5. Ready(<<t>> \o <<>>, n, worker, g)
  BY <1>3, <1>4, OneReady
<1>6. Depth(<<t>> \o <<>>) = Depth(<<>>)
  BY <1>3, <1>4, OneTask
<1>7. Cardinality(CallsIn(<<t>> \o <<>>)) = Cardinality(CallsIn(<<>>)) + 0
  BY <1>3, <1>4, OneTask
<1>8. 1 \in DOMAIN c
  BY <1>1, SequenceFacts
<1>9. t.task \in Frames => Enclosed(c)
  BY <1>1, <1>8 DEF Enclosed
<1> QED
  BY <1>2, <1>3, <1>5, <1>6, <1>7, <1>9

\* The batch waits for its worker.
LEMMA BatchWaits ==
    ASSUME IInv, interp.control # <<>>, Top.task = "batch"
    PROVE  LET o == [interp EXCEPT !.control[1].jobs = Tail(@)]
           IN  /\ Kept(interp, o, Setting) /\ Waiting(o)
               /\ o.bindings = interp.bindings /\ o.call_stack = interp.call_stack
<1> DEFINE c == interp.control
           t == [Top EXCEPT !.jobs = Tail(@)]
           q == [interp EXCEPT !.control[1].jobs = Tail(@)]
           n == interp.captured_bindings
           worker == interp.in_parallel_worker
           g == Setting
<1>1. /\ Top = c[1] /\ Machine(interp, g) /\ Shape(interp) /\ c # <<>>
      /\ Ready(c, n, worker, g) /\ IsSequence(c)
  BY NextTask, GivenFacts DEF Machine, Ready
<1>2. /\ DOMAIN Top = BatchFields /\ IsSequence(Top.outcomes)
      /\ Top.statement.body \in Setting.parts.bodies
      /\ \A k \in DOMAIN Top.outcomes : IsSequence(Top.outcomes[k].output)
  BY BatchFacts
<1>3. /\ t.task = "batch" /\ t.statement = Top.statement
      /\ t.outcomes = Top.outcomes /\ DOMAIN t = BatchFields
  BY <1>2 DEF BatchFields
<1>4. /\ Shape(q) /\ q.control = [interp.control EXCEPT ![1] = t]
      /\ q.bindings = interp.bindings /\ q.functions = interp.functions
      /\ q.expression_depth = interp.expression_depth
      /\ q.call_stack = interp.call_stack
      /\ q.captured_bindings = interp.captured_bindings
      /\ q.in_parallel_worker = interp.in_parallel_worker
      /\ q.return_type = interp.return_type /\ q.output = interp.output
  BY <1>1 DEF Shape
<1> HIDE DEF t, q
<1>5. HeldBy(t)
  BY <1>2, <1>3, BatchHeld
<1>6. t.task = c[1].task /\ t.task # "call"
  BY <1>1, <1>3
<1>7. Holds(t, n, worker, g)
  BY <1>5 DEF HeldBy
<1>8. Kept(interp, q, Setting)
  BY <1>1, <1>4, <1>6, <1>7, TopKept
<1>9. Waiting(q)
  <2> HIDE DEF c, n, worker, g
  <2>1. [c EXCEPT ![1] = t] = <<t>> \o Tail(c)
    BY <1>1, <1>6, <1>7, TopChanged
  <2> DEFINE r == Tail(c)
             u == <<t>> \o r
  <2>2. IsSequence(r)
    BY <1>1, TailFacts
  <2> HIDE DEF r
  <2>3. /\ IsSequence(u) /\ Len(u) = 1 + Len(r) /\ u[1] = t /\ Len(r) \in Nat
    BY <2>2, ConsFacts, SequenceFacts
  <2> HIDE DEF u
  <2>4. u # <<>>
    BY <2>3, SequenceFacts
  <2>5. q.control = u
    BY <1>4, <2>1 DEF c, u, r
  <2> QED
    BY <1>3, <2>3, <2>4, <2>5 DEF Waiting
<1> QED
  BY <1>4, <1>8, <1>9 DEF q

\* One more interpreter waits.
LEMMA NestedKeeps ==
    ASSUME IInv, UNCHANGED <<Given, remaining_steps, result>>,
           NEW o, Machine(o, Setting), Waiting(o), Above(o, outer),
           Machine(interp', Setting), Joined(interp', o),
           outer' = <<o>> \o outer
    PROVE  IInv'
<1>1. Setting' = Setting
  BY DEF Given, Setting, Types
<1>2. IsSequence(outer) /\ DOMAIN outer = 1 .. Len(outer) /\ Len(outer) \in Nat
  BY SequenceFacts DEF IInv
<1>3. /\ IsSequence(outer') /\ Len(outer') = 1 + Len(outer) /\ outer'[1] = o
      /\ \A k \in 1 .. Len(outer) : outer'[1 + k] = outer[k]
  BY <1>2, ConsFacts
<1>4. \A k \in 0 .. Len(outer) : Drop(outer', 1 + k) = Drop(outer, k)
  <2> DEFINE p == <<o>>
  <2>1. IsSequence(p) /\ Len(p) = 1 /\ outer' = p \o outer
    BY SingleFacts
  <2> HIDE DEF p
  <2>2. \A k \in 0 .. Len(outer) : Drop(p \o outer, Len(p) + k) = Drop(outer, k)
    BY <1>2, <2>1, DropConcat
  <2> QED
    BY <2>1, <2>2
<1>5. Drop(outer', 1) = outer
  <2>1. 0 \in 0 .. Len(outer) /\ 1 + 0 = 1
    BY <1>2
  <2>2. Drop(outer', 1 + 0) = Drop(outer, 0)
    BY <1>4, <2>1
  <2>3. Drop(outer, 0) = outer
    BY <1>2, WithoutFront
  <2> QED
    BY <2>1, <2>2, <2>3
<1>6. DOMAIN outer' = 1 .. 1 + Len(outer) /\ outer' # <<>>
  BY <1>2, <1>3, SequenceFacts
<1>7. ASSUME NEW k \in DOMAIN outer'
      PROVE  /\ Machine(outer'[k], Setting) /\ Waiting(outer'[k])
             /\ Above(outer'[k], Drop(outer', k))
  <2>1. CASE k = 1
    BY <1>3, <1>5, <2>1
  <2>2. CASE k # 1
    <3> DEFINE m == k - 1
    <3>1. m \in DOMAIN outer /\ m \in 1 .. Len(outer) /\ m \in 0 .. Len(outer) /\ k = 1 + m
      BY <1>2, <1>6, <2>2
    <3> HIDE DEF m
    <3>2. outer'[k] = outer[m] /\ Drop(outer', k) = Drop(outer, m)
      BY <1>3, <1>4, <3>1
    <3> QED
      BY <3>1, <3>2 DEF IInv
  <2> QED
    BY <2>1, <2>2
<1>8. Above(interp', outer')
  BY <1>3, <1>6 DEF Above
<1> QED
  BY <1>1, <1>3, <1>7, <1>8 DEF IInv, Given

\* A worker captures the bindings there are; its batch waits.
LEMMA StartWorkerKeeps == ASSUME IInv, StartWorker PROVE IInv'
<1> DEFINE copy == [interp EXCEPT !.captured_bindings = Len(interp.bindings),
                                  !.in_parallel_worker = TRUE,
                                  !.expression_depth = 0,
                                  !.return_type = NoType, !.output = <<>>,
                                  !.operands = <<>>]
           job == Head(Top.jobs)
           i == Allocate(copy, job, NoType)
           body == Top.statement.body
           env == Append(Top.env, Only(Top.statement.variable, Len(i.bindings)))
           t == [task |-> "worker"]
           o == [interp EXCEPT !.control[1].jobs = Tail(@)]
<1>1. /\ interp.control # <<>> /\ Top.task = "batch"
      /\ interp' = Begin(i, body, env, <<t>>)
      /\ outer' = <<o>> \o outer
      /\ UNCHANGED <<Given, remaining_steps, result>>
  BY DEF StartWorker, Doing
<1>2. /\ Kept(interp, o, Setting) /\ Waiting(o)
      /\ o.bindings = interp.bindings /\ o.call_stack = interp.call_stack
  BY <1>1, BatchWaits
<1>3. body \in Setting.parts.bodies
  BY <1>1, BatchFacts
<1>4. /\ Base(copy, Setting) /\ copy.captured_bindings = Len(interp.bindings)
      /\ copy.bindings = interp.bindings /\ copy.call_stack = interp.call_stack
      /\ copy.in_parallel_worker = TRUE /\ copy.expression_depth = 0
  <2>1. /\ Base(interp, Setting) /\ Shape(interp) /\ IsSequence(interp.bindings)
        /\ limits.parallel_output_bytes \in Nat /\ Setting.limits = limits
        /\ Setting.types = Types
    BY GivenFacts DEF Machine, Base
  <2>2. /\ Shape(copy) /\ copy.captured_bindings = Len(interp.bindings)
        /\ copy.bindings = interp.bindings /\ copy.call_stack = interp.call_stack
        /\ copy.in_parallel_worker = TRUE /\ copy.expression_depth = 0
        /\ copy.return_type = NoType /\ copy.output = <<>>
        /\ copy.functions = interp.functions
    BY <2>1 DEF Shape
  <2> HIDE DEF copy
  <2>3. Len(interp.bindings) \in Nat /\ NoType \in Types
    BY <2>1, SequenceFacts DEF Types
  <2>4. copy.captured_bindings \in 0 .. Len(copy.bindings)
    BY <2>2, <2>3
  <2>5. IsSequence(copy.output) /\ Len(copy.output) = 0
    BY <2>2, EmptyFacts, SequenceFacts
  <2>6. /\ Len(copy.output) <= Setting.limits.parallel_output_bytes
        /\ copy.return_type \in Setting.types
    BY <2>1, <2>2, <2>3, <2>5
  <2>7. /\ \A id \in DOMAIN copy.functions :
               /\ copy.functions[id].returns \in Setting.types
               /\ copy.functions[id].body \in Setting.parts.bodies
        /\ IsSequence(copy.call_stack)
        /\ Len(copy.call_stack) <= Setting.limits.call_depth
        /\ IsSequence(copy.bindings)
    BY <2>1, <2>2 DEF Base
  <2>8. copy.in_parallel_worker \in BOOLEAN
    BY <2>2
  <2>9. Base(copy, Setting)
    BY <2>2, <2>4, <2>5, <2>6, <2>7, <2>8 DEF Base
  <2> QED
    BY <2>2, <2>9
<1> HIDE DEF copy, job
<1>5. /\ Base(i, Setting) /\ Len(i.bindings) = Len(copy.bindings) + 1
      /\ \A k \in 1 .. Len(copy.bindings) : i.bindings[k] = copy.bindings[k]
      /\ i.captured_bindings = copy.captured_bindings
      /\ i.in_parallel_worker = copy.in_parallel_worker
      /\ i.call_stack = copy.call_stack /\ i.expression_depth = copy.expression_depth
  BY <1>4, AllocateFacts
<1> DEFINE c == <<t>>
<1> HIDE DEF i, env, body
<1>6. /\ Ready(c, i.captured_bindings, i.in_parallel_worker, Setting)
      /\ Enclosed(c) /\ Depth(c) = 0 /\ Cardinality(CallsIn(c)) = 0
  <2> DEFINE n == i.captured_bindings
             worker == i.in_parallel_worker
             g == Setting
  <2>1. t.task = "worker" /\ worker
    BY <1>4, <1>5
  <2> HIDE DEF t, n, worker, g
  <2>2. /\ Ready(<<t>>, n, worker, g) /\ Enclosed(<<t>>)
        /\ Depth(<<t>>) = 0 /\ Cardinality(CallsIn(<<t>>)) = 0
    <3>1. t.task \in {"worker", "program", "exit"} /\ (t.task = "worker" => worker) /\ t.task \in Frames
      BY <2>1 DEF Frames
    <3> QED
      BY <3>1, FrameReady
  <2> QED
    BY <2>2 DEF n, worker, g
<1> DEFINE j == Begin(i, body, env, c)
<1> HIDE DEF c
<1>7. /\ Machine(j, Setting) /\ j.captured_bindings = i.captured_bindings
      /\ j.in_parallel_worker = i.in_parallel_worker
      /\ j.call_stack = i.call_stack
      /\ \A k \in 1 .. Len(i.bindings) : j.bindings[k] = i.bindings[k]
      /\ Cardinality(CallsIn(j.control)) = Cardinality(CallsIn(c))
  BY <1>3, <1>4, <1>5, <1>6, BeginFacts
<1>8. interp' = j
  BY <1>1 DEF c
<1> HIDE DEF j, o
<1>9. Joined(j, o)
  <2>1. j.captured_bindings = Len(o.bindings) /\ j.in_parallel_worker
    BY <1>2, <1>4, <1>5, <1>7
  <2>2. Len(interp.bindings) \in Nat /\ Len(interp.call_stack) \in Nat
    BY GivenFacts, SequenceFacts DEF Machine, Base
  <2>3. \A k \in 1 .. j.captured_bindings : j.bindings[k] = o.bindings[k]
    <3>1. \A k \in 1 .. Len(interp.bindings) : i.bindings[k] = interp.bindings[k]
      BY <1>4, <1>5
    <3>2. \A k \in 1 .. Len(interp.bindings) : j.bindings[k] = i.bindings[k]
      BY <1>4, <1>5, <1>7, <2>2
    <3> QED
      BY <1>2, <2>1, <3>1, <3>2
  <2>4. Inherited(j) = Len(o.call_stack)
    <3>1. Inherited(j) = Len(interp.call_stack) - 0
      BY <1>4, <1>5, <1>6, <1>7 DEF Inherited
    <3> QED
      BY <1>2, <2>2, <3>1
  <2> QED
    BY <2>1, <2>3, <2>4 DEF Joined
<1>10. Machine(o, Setting) /\ Above(o, outer)
  BY <1>2, KeptAbove DEF IInv, Kept
<1> QED
  BY <1>1, <1>2, <1>7, <1>8, <1>9, <1>10, NestedKeeps

----------------------------------------------------------------------------
(* The program *)

\* The program begins, or is rejected.
LEMMA ExecuteKeeps == ASSUME IInv, Execute PROVE IInv'
<1> DEFINE t == [task |-> "program"]
           c == <<t>>
           env == <<BuiltinEnv, NoScope>>
           begun == Begin(interp, program, env, c)
           wrong == \E k \in Mains : program[k].parameters # <<>>
           next == IF wrong THEN Error("Main with parameters") ELSE begun
<1>1. interp = Idle
  BY DEF Execute
<1>2. CASE result' = Rejected /\ UNCHANGED <<Given, interp, outer, remaining_steps>>
  <2>1. Setting' = Setting
    BY <1>2 DEF Given, Setting, Types
  <2> QED
    BY <1>2, <2>1 DEF IInv, Given, Rejected
<1>3. CASE Step(0, next)
  <2>1. interp.control = <<>> /\ interp.expression_depth = 0
    BY <1>1 DEF Idle
  <2>2. t.task = "program"
    OBVIOUS
  <2> HIDE DEF t
  <2>3. /\ Ready(c, interp.captured_bindings, interp.in_parallel_worker, Setting)
        /\ Depth(c) = 0 /\ Cardinality(CallsIn(c)) = 0 /\ Enclosed(c)
    <3> DEFINE n == interp.captured_bindings
               worker == interp.in_parallel_worker
               g == Setting
    <3> HIDE DEF n, worker, g
    <3>1. /\ Ready(<<t>>, n, worker, g) /\ Enclosed(<<t>>)
          /\ Depth(<<t>>) = 0 /\ Cardinality(CallsIn(<<t>>)) = 0
      BY <2>2, FrameReady DEF Frames
    <3> QED
      BY <3>1 DEF n, worker, g
  <2>4. Continues(c)
    <3>1. Cardinality(CallsIn(interp.control)) = 0 /\ limits.expression_depth \in Nat
      BY <2>1, EmptyFacts, GivenFacts
    <3> HIDE DEF c
    <3> QED
      BY <2>3, <3>1 DEF Continues
  <2>5. program \in Setting.parts.bodies
    BY GivenFacts DEF IInv, IsTree
  <2>6. Base(interp, Setting)
    BY GivenFacts DEF Machine
  <2> HIDE DEF c, env
  <2>7. Kept(interp, begun, Setting)
    BY <2>1, <2>3, <2>4, <2>5, <2>6, BodyKept
  <2>8. IsError(Error("Main with parameters"))
    BY DEF Error, IsError
  <2> HIDE DEF begun, wrong
  <2>9. IsError(next) \/ Kept(interp, next, Setting)
    BY <2>7, <2>8
  <2> HIDE DEF next
  <2> QED
    BY <1>3, <2>9, StepKeeps
<1>4. Begin(Idle, program, env, c) = begun
  BY <1>1
<1> QED
  <2> HIDE DEF begun
  <2> QED
    BY <1>2, <1>3, <1>4 DEF Execute

\* Main is entered, or the program ends.
LEMMA EndProgramKeeps == ASSUME IInv, EndProgram PROVE IInv'
<1> DEFINE slot == Len(Idle.bindings) + Cardinality(
               {k \in 1 .. Max(Mains) : program[k].kind \in {"Let", "Function"}})
           t == [task |-> "exit"]
           c == <<t>>
           entered == EnterFunction(interp, Null, slot, <<>>, c)
           bare == [Push(c) EXCEPT !.operands = <<NullValue>>]
           next == IF Mains # {} THEN entered ELSE bare
<1>1. Step(0, next) /\ interp.control # <<>> /\ Top.task = "program"
  BY DEF EndProgram, Doing
<1>2. /\ Continues(Rest) /\ interp.expression_depth = 0 /\ Placed(Top, Rest)
      /\ Top.task \in StatementTasks
  BY <1>1, StatementFacts DEF StatementTasks
<1>3. Rest = <<>>
  BY <1>1, <1>2 DEF Placed
<1>4. t.task = "exit"
  OBVIOUS
<1> HIDE DEF slot, t
<1>5. /\ Ready(c, interp.captured_bindings, interp.in_parallel_worker, Setting)
      /\ Depth(c) = 0 /\ Cardinality(CallsIn(c)) = 0 /\ c \o Rest = c
  <2> DEFINE n == interp.captured_bindings
             worker == interp.in_parallel_worker
             g == Setting
  <2> HIDE DEF n, worker, g
  <2>1. /\ Ready(<<t>>, n, worker, g) /\ <<t>> \o <<>> = <<t>>
        /\ Depth(<<t>>) = 0 /\ Cardinality(CallsIn(<<t>>)) = 0
    BY <1>4, FrameReady
  <2> QED
    BY <1>3, <2>1 DEF n, worker, g
<1>6. Continues(c)
  BY <1>2, <1>3, <1>5, EmptyFacts, GivenFacts DEF Continues
<1> HIDE DEF c
<1>7. IsError(entered) \/ Kept(interp, entered, Setting)
  <2> DEFINE vs == <<>>
             e == Null
  <2>1. Alike(interp, interp)
    BY GivenFacts DEF Alike
  <2>2. IsSequence(vs)
    BY EmptyFacts
  <2> HIDE DEF vs, e
  <2>3. \/ IsError(EnterFunction(interp, e, slot, vs, c))
        \/ Kept(interp, EnterFunction(interp, e, slot, vs, c), Setting)
    BY <1>2, <1>5, <1>6, <2>1, <2>2, EnterKept
  <2> QED
    BY <2>3 DEF vs, e
<1>8. Kept(interp, bare, Setting)
  <2> DEFINE vs == <<NullValue>>
  <2> HIDE DEF vs
  <2>1. Kept(interp, [Push(c) EXCEPT !.operands = vs], Setting)
    BY <1>1, <1>2, <1>5, <1>6, PushedKept
  <2> QED
    BY <2>1 DEF vs
<1> HIDE DEF entered, bare
<1>9. IsError(next) \/ Kept(interp, next, Setting)
  BY <1>7, <1>8
<1> HIDE DEF next
<1> QED
  BY <1>1, <1>9, StepKeeps

\* The end of the execution.
LEMMA ExitKeeps == ASSUME IInv, Exit PROVE IInv'
<1>1. /\ result'.status = "value" /\ UNCHANGED <<interp, outer, remaining_steps>>
      /\ UNCHANGED Given
  BY DEF Exit, Given
<1>2. Setting' = Setting
  BY <1>1 DEF Given, Setting, Types
<1> QED
  BY <1>1, <1>2 DEF IInv, Given

\* Nothing happens.
LEMMA StutterKeeps == ASSUME IInv, UNCHANGED vars PROVE IInv'
<1>1. Setting' = Setting
  BY DEF vars, Setting, Types
<1> QED
  BY <1>1 DEF IInv, vars

\* The builtins by name: printing first, and those of the runtime.
LEMMA BuiltinFacts ==
    /\ IsSequence(BuiltinNames)
    /\ \A k \in DOMAIN BuiltinNames : BuiltinNames[k] \in {"print"} \cup DOMAIN Builtins
<1> DEFINE D == DOMAIN Builtins
           s == SetToSeq(D)
           p == <<"print">>
           S == {"print"} \cup D
<1>1. PICK n \in Nat : n = Cardinality(D) /\ ExistsBijection(1 .. n, D)
  BY BuiltinsAssumption, FS_CardinalityType
<1>2. \E f \in [1 .. Cardinality(D) -> D] : IsInjective(f)
  BY <1>1 DEF ExistsBijection, Bijection, Injection, IsInjective
<1>3. s \in [1 .. Cardinality(D) -> D]
  <2> HIDE DEF D
  <2> QED
    BY <1>2 DEF SetToSeq
<1>4. s \in Seq(D) /\ p \in Seq(S)
  <2> HIDE DEF s, D
  <2> QED
    BY <1>1, <1>3
<1>5. p \o s \in Seq(S)
  <2> HIDE DEF s, D, p
  <2>1. s \in Seq(S)
    BY <1>4 DEF S
  <2> HIDE DEF S
  <2> QED
    BY <1>4, <2>1
<1> HIDE DEF s, p, S
<1>6. IsSequence(p \o s) /\ \A k \in DOMAIN (p \o s) : (p \o s)[k] \in S
  <2> DEFINE u == p \o s
  <2>1. u \in Seq(S)
    BY <1>5
  <2> HIDE DEF u
  <2>2. IsSequence(u)
    BY <2>1, SequenceOver
  <2>3. \A k \in DOMAIN u : u[k] \in S
    BY <2>1
  <2> QED
    BY <2>2, <2>3 DEF u
<1> QED
  BY <1>6 DEF BuiltinNames, s, p, S, D

\* The interpreter starts with its builtins and nothing to do.
LEMMA InitKeeps == ASSUME Init PROVE IInv
<1>1. /\ limits \in Limits /\ IsTree(program, Parts(program))
      /\ interp = Idle /\ outer = <<>> /\ remaining_steps = limits.steps
      /\ result.status = "running"
  BY CasesAssumption DEF Init, Running
<1>2. /\ limits.steps \in Nat /\ limits.call_depth \in Nat
      /\ limits.expression_depth \in Nat
  BY <1>1 DEF Limits
<1>3. IsSequence(BuiltinNames)
  BY BuiltinFacts
<1>4. IsSequence(Idle.bindings) /\ Len(Idle.bindings) \in Nat
  <2> DEFINE b == Idle.bindings
  <2>1. DOMAIN b = 1 .. Len(BuiltinNames) /\ Len(BuiltinNames) \in Nat
        /\ b = [k \in DOMAIN b |-> b[k]]
    BY <1>3, SequenceFacts DEF Idle
  <2> HIDE DEF b
  <2>2. IsSequence(b)
    BY <2>1, FunctionSequence
  <2> QED
    BY <2>2, SequenceFacts DEF b
<1>5. /\ Shape(Idle) /\ Idle.functions = <<>> /\ Idle.expression_depth = 0
      /\ Idle.call_stack = <<>> /\ Idle.captured_bindings = 0
      /\ Idle.in_parallel_worker = FALSE /\ Idle.return_type = NoType
      /\ Idle.output = <<>> /\ Idle.control = <<>>
  BY DEF Idle, Shape
<1>6. /\ Setting.limits = limits /\ Setting.types = Types /\ NoType \in Types
  BY DEF Setting, Types
<1>7. Len(<<>>) = 0 /\ DOMAIN <<>> = {}
  OBVIOUS
<1>8. IsSequence(<<>>) /\ Depth(<<>>) = 0 /\ \A n, worker, g : Ready(<<>>, n, worker, g)
  BY EmptyFacts
<1>9. Machine(Idle, Setting)
  <2> DEFINE i == Idle
             g == Setting
  <2>1. /\ Shape(i) /\ i.functions = <<>> /\ i.expression_depth = 0
        /\ i.call_stack = <<>> /\ i.captured_bindings = 0
        /\ i.in_parallel_worker = FALSE /\ i.return_type = NoType
        /\ i.output = <<>> /\ i.control = <<>>
        /\ IsSequence(i.bindings) /\ Len(i.bindings) \in Nat
    BY <1>4, <1>5
  <2>2. /\ g.limits.call_depth \in Nat /\ g.limits.expression_depth \in Nat
        /\ NoType \in g.types
    BY <1>2, <1>6
  <2> HIDE DEF i, g
  <2>3. i.captured_bindings \in 0 .. Len(i.bindings)
    BY <2>1
  <2>4. \A id \in DOMAIN i.functions : /\ i.functions[id].returns \in g.types
                                       /\ i.functions[id].body \in g.parts.bodies
    BY <1>7, <2>1
  <2>5. IsSequence(i.call_stack) /\ Len(i.call_stack) <= g.limits.call_depth
    BY <1>7, <1>8, <2>1, <2>2
  <2>6. Base(i, g)
    BY <1>8, <2>1, <2>2, <2>3, <2>4, <2>5 DEF Base
  <2>7. i.expression_depth \in 0 .. g.limits.expression_depth
    BY <2>1, <2>2
  <2> QED
    BY <1>8, <2>1, <2>6, <2>7 DEF Machine, i, g
<1>10. Above(Idle, <<>>)
  <2>1. Inherited(Idle) = 0 - 0
    BY <1>5, <1>7, EmptyFacts DEF Inherited
  <2> QED
    BY <1>5, <2>1 DEF Above
<1> QED
  BY <1>1, <1>2, <1>7, <1>9, <1>10, EmptyFacts DEF IInv

----------------------------------------------------------------------------
(* What follows from the invariant *)

\* Every interpreter, and the one that waits for it.
LEMMA StackFacts ==
    ASSUME IInv
    PROVE  /\ DOMAIN Stack = 1 .. 1 + Len(outer) /\ Len(outer) \in Nat
           /\ DOMAIN outer = 1 .. Len(outer)
           /\ \A k \in DOMAIN Stack :
                  /\ Machine(Stack[k], Setting)
                  /\ k \in DOMAIN outer => Joined(Stack[k], outer[k])
                  /\ k > Len(outer) => Inherited(Stack[k]) = 0
           /\ \A k \in DOMAIN outer : Stack[k + 1] = outer[k]
           /\ outer # <<>> => interp.in_parallel_worker
<1>1. /\ IsSequence(outer) /\ Len(outer) \in Nat /\ DOMAIN outer = 1 .. Len(outer)
      /\ Machine(interp, Setting) /\ Above(interp, outer)
      /\ \A k \in DOMAIN outer : /\ Machine(outer[k], Setting)
                                 /\ Above(outer[k], Drop(outer, k))
  BY SequenceFacts DEF IInv
<1>2. /\ IsSequence(Stack) /\ Len(Stack) = 1 + Len(outer) /\ Stack[1] = interp
      /\ \A k \in 1 .. Len(outer) : Stack[1 + k] = outer[k]
  BY <1>1, ConsFacts DEF Stack
<1>3. DOMAIN Stack = 1 .. 1 + Len(outer)
  BY <1>2, SequenceFacts
<1>4. ASSUME NEW k \in DOMAIN Stack
      PROVE  Machine(Stack[k], Setting) /\ Above(Stack[k], Drop(outer, k - 1))
  <2>1. CASE k = 1
    <3>1. Drop(outer, k - 1) = outer
      BY <1>1, <2>1, WithoutFront
    <3> QED
      BY <1>1, <1>2, <2>1, <3>1
  <2>2. CASE k # 1
    <3> DEFINE m == k - 1
    <3>1. m \in 1 .. Len(outer) /\ k = 1 + m
      BY <1>1, <1>3, <2>2
    <3> HIDE DEF m
    <3>2. Stack[k] = outer[m] /\ m \in DOMAIN outer
      BY <1>1, <1>2, <3>1
    <3>3. Machine(Stack[k], Setting) /\ Above(Stack[k], Drop(outer, m))
      BY <1>1, <3>2
    <3> QED
      BY <3>3 DEF m
  <2> QED
    BY <2>1, <2>2
<1>5. ASSUME NEW k \in DOMAIN Stack
      PROVE  /\ k \in DOMAIN outer => Joined(Stack[k], outer[k])
             /\ k > Len(outer) => Inherited(Stack[k]) = 0
  <2> DEFINE m == k - 1
             d == Drop(outer, m)
  <2>1. m \in 0 .. Len(outer) /\ m + 1 = k /\ k \in Nat
    BY <1>1, <1>3
  <2>2. Above(Stack[k], d)
    BY <1>4, SMTT(30)
  <2> HIDE DEF m
  <2>3. /\ IsSequence(d) /\ Len(d) = Len(outer) - m
        /\ \A j \in 1 .. Len(outer) - m : d[j] = outer[m + j]
    BY <1>1, <2>1, DropFacts
  <2> HIDE DEF d
  <2> DEFINE l == Len(outer)
  <2>4. /\ l \in Nat /\ k \in 1 .. 1 + l /\ m = k - 1 /\ Len(d) = l - m
        /\ DOMAIN outer = 1 .. l
    BY <1>1, <1>3, <2>1, <2>3
  <2> HIDE DEF l
  <2>5. CASE k \in DOMAIN outer
    <3>1. 1 \in 1 .. l - m /\ Len(d) # 0 /\ ~(k > l)
      BY <2>5, <2>4
    <3>2. d # <<>> /\ d[1] = outer[k]
      BY <2>1, <2>3, <3>1, SequenceFacts DEF l
    <3>3. Joined(Stack[k], outer[k])
      BY <2>2, <3>2 DEF Above
    <3> QED
      BY <3>1, <3>3 DEF l
  <2>6. CASE k \notin DOMAIN outer
    <3>1. Len(d) = 0
      BY <2>6, <2>4
    <3>2. d = <<>>
      BY <2>3, <3>1, SequenceFacts
    <3> QED
      BY <2>2, <2>6, <3>2 DEF Above
  <2> QED
    BY <2>5, <2>6
<1>6. \A k \in DOMAIN outer : Stack[k + 1] = outer[k]
  BY <1>1, <1>2
<1>7. outer # <<>> => interp.in_parallel_worker
  BY <1>1 DEF Above, Joined
<1> QED
  BY <1>1, <1>3, <1>4, <1>5, <1>6, <1>7

\* The counters of every interpreter.
LEMMA TypeFollows == ASSUME IInv PROVE TypeOK
<1>1. ASSUME NEW k \in DOMAIN Stack
      PROVE  /\ Stack[k].expression_depth \in 0 .. limits.expression_depth
             /\ Len(Stack[k].call_stack) \in 0 .. limits.call_depth
             /\ Stack[k].captured_bindings \in 0 .. Len(Stack[k].bindings)
             /\ Stack[k].return_type
                    \in {NoType} \cup PrimitiveTypes \cup DOMAIN analysis.registry
  <2>1. Machine(Stack[k], Setting)
    BY StackFacts
  <2> DEFINE i == Stack[k]
  <2> HIDE DEF i
  <2>2. Machine(i, Setting)
    BY <2>1 DEF i
  <2>3. /\ i.expression_depth \in 0 .. limits.expression_depth
        /\ IsSequence(i.call_stack) /\ Len(i.call_stack) <= limits.call_depth
        /\ i.captured_bindings \in 0 .. Len(i.bindings)
        /\ i.return_type \in Types
    BY <2>2, GivenFacts DEF Machine, Base
  <2>4. Len(i.call_stack) \in 0 .. limits.call_depth
    BY <2>3, SequenceFacts, GivenFacts
  <2> QED
    BY <2>3, <2>4 DEF Types, i
<1> QED
  BY <1>1, StackFacts DEF IInv, TypeOK

\* The captured bindings of every worker.
LEMMA CapturesFollow == ASSUME IInv PROVE CapturesUnchanged
<1>1. ASSUME NEW k \in DOMAIN outer
      PROVE  /\ Stack[k].captured_bindings = Len(outer[k].bindings)
             /\ SubSeq(Stack[k].bindings, 1, Stack[k].captured_bindings)
                    = outer[k].bindings
  <2> DEFINE i == Stack[k]
             o == outer[k]
             n == i.captured_bindings
             p == SubSeq(i.bindings, 1, n)
  <2>1. k \in DOMAIN Stack /\ k + 1 \in DOMAIN Stack /\ Stack[k + 1] = o
    BY StackFacts
  <2>2. Machine(i, Setting) /\ Machine(o, Setting) /\ Joined(i, o)
    BY <2>1, StackFacts
  <2> HIDE DEF i, o
  <2>3. /\ n = Len(o.bindings) /\ \A m \in 1 .. n : i.bindings[m] = o.bindings[m]
        /\ IsSequence(i.bindings) /\ IsSequence(o.bindings)
        /\ n \in 0 .. Len(i.bindings)
    BY <2>2 DEF Machine, Base, Joined
  <2> HIDE DEF n
  <2>4. IsSequence(p) /\ Len(p) = n /\ \A m \in 1 .. n : p[m] = i.bindings[m]
    BY <2>3, PrefixFacts
  <2> HIDE DEF p
  <2>5. p = o.bindings
    BY <2>3, <2>4, SameSequence
  <2> QED
    BY <2>3, <2>5 DEF i, o, n, p
<1> QED
  BY <1>1 DEF CapturesUnchanged

\* The depths of every interpreter.
LEMMA DepthsFollow == ASSUME IInv PROVE DepthsRestored
<1>1. ASSUME NEW n \in DOMAIN Stack
      PROVE  LET i == Stack[n]
                 inherited == IF n > Len(outer) THEN 0 ELSE Len(outer[n].call_stack)
             IN  /\ i.expression_depth = Depth(i.control)
                 /\ \A k \in CallsIn(i.control) :
                        i.control[k].depth = Depth(Drop(i.control, k))
                 /\ Len(i.call_stack) = inherited + Cardinality(CallsIn(i.control))
  <2> DEFINE i == Stack[n]
             o == outer[n]
             inherited == IF n > Len(outer) THEN 0 ELSE Len(o.call_stack)
  <2>1. /\ Machine(i, Setting)
        /\ n \in DOMAIN outer => Joined(i, o)
        /\ n > Len(outer) => Inherited(i) = 0
        /\ n \in 1 .. 1 + Len(outer) /\ DOMAIN outer = 1 .. Len(outer)
        /\ Len(outer) \in Nat
    BY StackFacts
  <2>2. n > Len(outer) \/ n \in DOMAIN outer
    BY <2>1
  <2> HIDE DEF i, o
  <2>3. Inherited(i) = inherited
    BY <2>1, <2>2 DEF Joined
  <2>4. /\ i.expression_depth = Depth(i.control)
        /\ IsSequence(i.call_stack) /\ IsSequence(i.control) /\ Stacked(i.control)
    BY <2>1 DEF Machine, Base, Ready
  <2>5. ASSUME NEW k \in CallsIn(i.control)
        PROVE  i.control[k].depth = Depth(Drop(i.control, k))
    BY <2>4 DEF CallsIn, Stacked, Placed
  <2>6. Len(i.call_stack) \in Nat /\ Cardinality(CallsIn(i.control)) \in Nat
    BY <2>4, SequenceFacts, CountFacts
  <2> HIDE DEF inherited
  <2>7. Len(i.call_stack) - Cardinality(CallsIn(i.control)) = inherited
    BY <2>3 DEF Inherited
  <2>8. Len(i.call_stack) = inherited + Cardinality(CallsIn(i.control))
    BY <2>6, <2>7
  <2> QED
    BY <2>4, <2>5, <2>8 DEF i, o, inherited
<1> QED
  BY <1>1 DEF DepthsRestored

\* The buffers of every worker.
LEMMA BuffersFollow == ASSUME IInv PROVE BuffersBounded
<1>1. ASSUME NEW k \in DOMAIN Stack, Stack[k].in_parallel_worker
      PROVE  Len(Stack[k].output) <= limits.parallel_output_bytes
  <2> DEFINE i == Stack[k]
  <2>1. Machine(i, Setting) /\ i.in_parallel_worker
    BY <1>1, StackFacts
  <2> HIDE DEF i
  <2>2. Len(i.output) <= limits.parallel_output_bytes
    BY <2>1, GivenFacts DEF Machine, Base
  <2> QED
    BY <2>2 DEF i
<1> QED
  BY <1>1 DEF BuffersBounded

----------------------------------------------------------------------------
(* The theorems *)

\* Every step of an expression keeps the invariant.
LEMMA ExpressionKeeps == ASSUME IInv, ExpressionStep PROVE IInv'
  BY LiteralKeeps, IdentifierKeeps, OperandsKeeps, ConstructKeeps,
     AssignmentKeeps, NextFieldKeeps, FieldKeeps, EndConstructKeeps,
     OperatorKeeps, LogicalKeeps, BooleanKeeps, CallKeeps, FinishCallKeeps,
     TargetKeeps, SelectKeeps, SelectIndexKeeps, WritableKeeps, LoadKeeps,
     StoreKeeps, RequestKeeps, NetworkKeeps DEF ExpressionStep

\* Every step of a statement does.
LEMMA StatementKeeps == ASSUME IInv, StatementStep PROVE IInv'
  BY SubjectKeeps, ReturnKeeps, BlockKeeps, WhileKeeps, JumpKeeps,
     DeclarationKeeps, EndStatementsKeeps, LetKeeps, FinishExpressionKeeps,
     FinishReturnKeeps, BranchKeeps, ArmKeeps, TestKeeps, LoopKeeps, ForKeeps,
     IterationKeeps, EndFunctionKeeps DEF StatementStep

\* Every step of a parallel statement does.
LEMMA ParallelStepKeeps == ASSUME IInv, ParallelStep PROVE IInv'
  BY ParallelKeeps, PrepareKeeps, StartWorkerKeeps, EndWorkerKeeps, ReplayKeeps,
     EndBatchKeeps DEF ParallelStep

\* The inductive invariant holds in every state of every execution, whatever
\* the program, its limits and what the analysis found in it: every step of
\* the interpreter leaves it, and the interpreters that wait, well formed.
THEOREM Invariance == Spec => []IInv
<1>1. Init => IInv
  BY InitKeeps
<1>2. IInv /\ [Next]_vars => IInv'
  BY ExecuteKeeps, ExpressionKeeps, StatementKeeps, ParallelStepKeeps,
     EndProgramKeeps, ExitKeeps, StutterKeeps DEF Next
<1> QED
  BY <1>1, <1>2, PTL DEF Spec

\* The counters of every interpreter stay inside their limits: the shared step
\* budget, the depth of expressions, the calls, the bindings a worker captured.
THEOREM CountersInLimits == Spec => []TypeOK
<1>1. IInv => TypeOK
  BY TypeFollows
<1> QED
  BY <1>1, Invariance, PTL

\* The bindings that a worker captured are those of the interpreter that waits
\* for it: the read-only check of assignments lets no write to them through.
THEOREM CapturesStay == Spec => []CapturesUnchanged
<1>1. IInv => CapturesUnchanged
  BY CapturesFollow
<1> QED
  BY <1>1, Invariance, PTL

\* Whichever way an expression, a loop or a function is left, expression_depth
\* counts the open expressions and call_stack the open calls of an interpreter.
THEOREM DepthsStay == Spec => []DepthsRestored
<1>1. IInv => DepthsRestored
  BY DepthsFollow
<1> QED
  BY <1>1, Invariance, PTL

\* No worker buffers more than parallel_output_bytes, printing or replaying.
THEOREM BuffersStay == Spec => []BuffersBounded
<1>1. IInv => BuffersBounded
  BY BuffersFollow
<1> QED
  BY <1>1, Invariance, PTL

\* What the model checker checks of the interpreter holds of every program.
THEOREM InterpreterKept == Spec => []StateKept
<1>1. IInv => StateKept
  BY TypeFollows, CapturesFollow, DepthsFollow, BuffersFollow DEF StateKept
<1> QED
  BY <1>1, Invariance, PTL
=============================================================================
