---------------------------- MODULE SharedLemmas ----------------------------
(* Lemmas that several proofs need: on sweeping a deque of time stamps, for*)
(* every rate limit built on one, and on folds over sets and sequences.    *)
EXTENDS SlidingWindow, FiniteSetsExt, FiniteSetTheorems, SequenceTheorems,
        WellFoundedInduction, TLAPS

(* The deque always has a longest too-old prefix: popleft's loop ends at   *)
(* the least index whose successor is recent enough.                       *)
LEMMA StaleExists ==
    ASSUME NEW times \in Times, NEW cutoff \in Int
    PROVE  \E k \in 0 .. Len(times) :
             /\ \A i \in 1 .. k : times[i] < cutoff
             /\ k < Len(times) => times[k + 1] >= cutoff
<1> DEFINE Enough == {k \in 0 .. Len(times) :
                         k < Len(times) => times[k + 1] >= cutoff}
           Less == OpToRel(<, Nat)
<1>1. Len(times) \in Nat
  BY DEF Times
<1>2. Enough \subseteq Nat /\ Enough # {}
  <2>1. Len(times) \in Enough
    BY <1>1
  <2> QED
    BY <2>1, <1>1
<1>3. PICK k \in Enough : \A j \in Enough : <<j, k>> \notin Less
  <2> HIDE DEF Enough
  <2> QED
  BY <1>2, WFMin, NatLessThanWellFounded
<1>4. \A j \in Enough : ~(j < k)
  BY <1>2, <1>3 DEF OpToRel
<1>5. ASSUME NEW i \in 1 .. k PROVE times[i] < cutoff
  <2>1. i - 1 \in 0 .. Len(times) /\ i - 1 < k /\ i - 1 < Len(times)
    BY <1>1
  <2>2. i - 1 \notin Enough
    BY <1>4, <2>1
  <2>3. ~(times[i] >= cutoff)
    BY <2>1, <2>2
  <2>4. times[i] \in Nat
    BY <2>1 DEF Times
  <2> QED
    BY <2>3, <2>4
<1> QED
  BY <1>5

(* What Stale chooses is such a prefix. *)
LEMMA StaleProperties ==
    ASSUME NEW times \in Times, NEW cutoff \in Int
    PROVE  /\ Stale(times, cutoff) \in 0 .. Len(times)
           /\ Stale(times, cutoff) \in Nat
           /\ \A i \in 1 .. Stale(times, cutoff) : times[i] < cutoff
           /\ Stale(times, cutoff) < Len(times)
                => times[Stale(times, cutoff) + 1] >= cutoff
<1>1. /\ Stale(times, cutoff) \in 0 .. Len(times)
      /\ \A i \in 1 .. Stale(times, cutoff) : times[i] < cutoff
      /\ Stale(times, cutoff) < Len(times)
           => times[Stale(times, cutoff) + 1] >= cutoff
  BY StaleExists DEF Stale
<1>2. Len(times) \in Nat
  BY DEF Times
<1> QED
  BY <1>1, <1>2

(* Sweeping a suffix of the history leaves a shorter suffix, and all that  *)
(* is missing from it is older than the cutoff.                            *)
LEMMA FromCutoffOfSuffix ==
    ASSUME NEW h \in Times, NEW k \in 0 .. Len(h), NEW cutoff \in Int,
           \A i \in 1 .. k : h[i] < cutoff
    PROVE  \E m \in k .. Len(h) :
             /\ FromCutoff(SubSeq(h, k + 1, Len(h)), cutoff)
                  = SubSeq(h, m + 1, Len(h))
             /\ \A i \in 1 .. m : h[i] < cutoff
             /\ m < Len(h) => h[m + 1] >= cutoff
<1> DEFINE q == SubSeq(h, k + 1, Len(h))
           s == Stale(q, cutoff)
           m == k + s
<1>1. Len(h) \in Nat /\ \A i \in 1 .. Len(h) : h[i] \in Nat
  BY DEF Times
<1>2. /\ q \in Times
      /\ Len(q) = Len(h) - k
      /\ \A i \in 1 .. Len(h) - k : q[i] = h[k + i]
  <2>1. \A i \in (k + 1) .. Len(h) : h[i] \in Nat
    BY <1>1
  <2> QED
    BY <2>1, <1>1, SubSeqProperties DEF Times
<1>3. /\ s \in 0 .. Len(q)
      /\ \A i \in 1 .. s : q[i] < cutoff
      /\ s < Len(q) => q[s + 1] >= cutoff
  BY <1>2, StaleProperties
<1> HIDE DEF q, s
<1>4. m \in k .. Len(h) /\ Len(q) - s = Len(h) - m
  BY <1>1, <1>2, <1>3
<1>5. \A i \in 1 .. m : h[i] < cutoff
  <2> SUFFICES ASSUME NEW i \in 1 .. m PROVE h[i] < cutoff
    OBVIOUS
  <2>1. CASE i <= k
    BY <2>1, <1>1
  <2>2. CASE i > k
    <3>1. i - k \in 1 .. s /\ i - k \in 1 .. Len(h) - k
      BY <2>2, <1>1, <1>2, <1>3
    <3>2. q[i - k] = h[k + (i - k)]
      BY <3>1, <1>2
    <3> QED
      BY <3>1, <3>2, <1>1, <1>3
  <2> QED
    BY <2>1, <2>2, <1>1, <1>3
<1>6. SubSeq(q, s + 1, Len(q)) = SubSeq(h, m + 1, Len(h))
  <2>1. \A i \in (s + 1) .. Len(q) : q[i] \in Nat
    BY <1>1, <1>2, <1>3
  <2>2. s + 1 \in Int /\ Len(q) \in Int /\ m + 1 \in Int /\ Len(h) \in Int
    BY <1>1, <1>2, <1>3
  <2>3. /\ SubSeq(q, s + 1, Len(q)) \in Seq(Nat)
        /\ Len(SubSeq(q, s + 1, Len(q))) = Len(q) - s
        /\ \A i \in 1 .. Len(q) - s : SubSeq(q, s + 1, Len(q))[i] = q[s + i]
    BY <2>1, <2>2, <1>1, <1>2, <1>3, SubSeqProperties
  <2>4. \A i \in (m + 1) .. Len(h) : h[i] \in Nat
    BY <1>1, <1>4
  <2>5. /\ SubSeq(h, m + 1, Len(h)) \in Seq(Nat)
        /\ Len(SubSeq(h, m + 1, Len(h))) = Len(h) - m
        /\ \A i \in 1 .. Len(h) - m : SubSeq(h, m + 1, Len(h))[i] = h[m + i]
    BY <2>2, <2>4, <1>1, <1>4, SubSeqProperties
  <2>6. \A i \in 1 .. Len(h) - m : q[s + i] = h[m + i]
    BY <1>1, <1>2, <1>3, <1>4
  <2> HIDE DEF m
  <2> QED
    BY <2>3, <2>5, <2>6, <1>4, SeqEqual
<1>7. m < Len(h) => h[m + 1] >= cutoff
  <2> SUFFICES ASSUME m < Len(h) PROVE h[m + 1] >= cutoff
    OBVIOUS
  <2>1. s + 1 \in 1 .. Len(h) - k /\ s < Len(q)
    BY <1>1, <1>2, <1>3, <1>4
  <2>2. q[s + 1] = h[k + (s + 1)]
    BY <2>1, <1>2
  <2>3. k + (s + 1) = m + 1
    BY <1>1, <1>3
  <2> QED
    BY <2>1, <2>2, <2>3, <1>3
<1> QED
  BY <1>4, <1>5, <1>6, <1>7 DEF FromCutoff, q, s

(* A stamp appended to a history is appended to each of its suffixes.      *)
LEMMA AppendToSuffix ==
    ASSUME NEW h \in Times, NEW k \in 0 .. Len(h), NEW t \in Nat
    PROVE  Append(SubSeq(h, k + 1, Len(h)), t)
             = SubSeq(Append(h, t), k + 1, Len(Append(h, t)))
<1> DEFINE q == SubSeq(h, k + 1, Len(h))
           g == Append(h, t)
<1>1. Len(h) \in Nat /\ \A i \in 1 .. Len(h) : h[i] \in Nat
  BY DEF Times
<1>2. /\ g \in Seq(Nat)
      /\ Len(g) = Len(h) + 1
      /\ g[Len(h) + 1] = t
      /\ \A i \in 1 .. Len(h) : g[i] = h[i]
  BY DEF Times
<1>3. \A i \in (k + 1) .. Len(h) : h[i] \in Nat
  BY <1>1
<1>4. \A i \in (k + 1) .. Len(g) : g[i] \in Nat
  <2> HIDE DEF g
  <2> QED
    BY <1>1, <1>2
<1>5. /\ q \in Seq(Nat)
      /\ Len(q) = Len(h) - k
      /\ \A i \in 1 .. Len(h) - k : q[i] = h[k + i]
  BY <1>1, <1>3, SubSeqProperties
<1> HIDE DEF g
<1>6. /\ SubSeq(g, k + 1, Len(g)) \in Seq(Nat)
      /\ Len(SubSeq(g, k + 1, Len(g))) = Len(h) + 1 - k
      /\ \A i \in 1 .. Len(h) + 1 - k : SubSeq(g, k + 1, Len(g))[i] = g[k + i]
  BY <1>1, <1>2, <1>4, SubSeqProperties
<1> HIDE DEF q
<1>7. /\ Append(q, t) \in Seq(Nat)
      /\ Len(Append(q, t)) = Len(h) + 1 - k
      /\ \A i \in 1 .. Len(h) - k : Append(q, t)[i] = q[i]
      /\ Append(q, t)[Len(h) + 1 - k] = t
  BY <1>1, <1>5
<1>8. \A i \in 1 .. Len(h) + 1 - k :
        Append(q, t)[i] = SubSeq(g, k + 1, Len(g))[i]
  <2> SUFFICES ASSUME NEW i \in 1 .. Len(h) + 1 - k
               PROVE  Append(q, t)[i] = SubSeq(g, k + 1, Len(g))[i]
    OBVIOUS
  <2>0. SubSeq(g, k + 1, Len(g))[i] = g[k + i]
    BY <1>6
  <2>1. CASE i = Len(h) + 1 - k
    <3>1. k + i = Len(h) + 1
      BY <2>1, <1>1
    <3> QED
      BY <2>0, <2>1, <3>1, <1>2, <1>7
  <2>2. CASE i # Len(h) + 1 - k
    <3>1. i \in 1 .. Len(h) - k /\ k + i \in 1 .. Len(h)
      BY <2>2, <1>1
    <3>2. g[k + i] = h[k + i]
      BY <3>1, <1>2
    <3> QED
      BY <2>0, <3>1, <3>2, <1>5, <1>7
  <2> QED
    BY <2>1, <2>2
<1> QED
  BY <1>6, <1>7, <1>8, SeqEqual DEF g, q

(* A suffix of a sequence is a sequence over the same set.                 *)
LEMMA SuffixType ==
    ASSUME NEW S, NEW seq \in Seq(S), NEW n \in Nat
    PROVE  SubSeq(seq, n + 1, Len(seq)) \in Seq(S)
<1>1. \A i \in (n + 1) .. Len(seq) : seq[i] \in S
  BY ElementOfSeq, LenProperties
<1> QED
  BY <1>1, LenProperties, SubSeqProperties

(* Every cap + 1 consecutive stamps of h span more than the window.        *)
Spaced(h, cap) ==
    \A i \in 1 .. Len(h) :
        i + cap <= Len(h) => h[i + cap] - h[i] > Window

(* A stamp may follow a spaced history when fewer than cap of its stamps   *)
(* are inside the window.                                                  *)
LEMMA AppendKeepsSpaced ==
    ASSUME NEW h \in Times, NEW cap \in Nat, NEW t \in Nat,
           NEW m \in 0 .. Len(h), Len(h) - m < cap, Spaced(h, cap),
           \A i \in 1 .. m : h[i] < t - Window
    PROVE  Spaced(Append(h, t), cap)
<1>1. Len(h) \in Nat /\ \A i \in 1 .. Len(h) : h[i] \in Nat
  BY DEF Times
<1>2. /\ Len(Append(h, t)) = Len(h) + 1
      /\ Append(h, t)[Len(h) + 1] = t
      /\ \A i \in 1 .. Len(h) : Append(h, t)[i] = h[i]
  BY DEF Times
<1> SUFFICES ASSUME NEW i \in 1 .. Len(h) + 1, i + cap <= Len(h) + 1
             PROVE  Append(h, t)[i + cap] - Append(h, t)[i] > Window
  BY <1>2 DEF Spaced
<1>3. CASE i + cap = Len(h) + 1
  <2>1. i \in 1 .. m /\ i \in 1 .. Len(h)
    BY <1>1, <1>3
  <2>2. Append(h, t)[i] = h[i] /\ h[i] < t - Window /\ h[i] \in Nat
    BY <2>1, <1>1, <1>2
  <2> QED
    BY <2>2, <1>2, <1>3, WindowAssumption
<1>4. CASE i + cap # Len(h) + 1
  <2>1. i \in 1 .. Len(h) /\ i + cap \in 1 .. Len(h)
    BY <1>1, <1>4
  <2>2. h[i + cap] - h[i] > Window
    BY <2>1, <1>1 DEF Spaced
  <2> QED
    BY <2>1, <2>2, <1>2
<1> QED
  BY <1>3, <1>4

-----------------------------------------------------------------------------
(* Folds.  They are reached by a least counterexample: what is claimed of  *)
(* every number or every subset has a least place where it would fail.     *)

(* Sets of numbers have a least element.                                   *)
LEMMA LeastNumber ==
    ASSUME NEW S \in SUBSET Nat, S # {}
    PROVE  \E n \in S : \A i \in Nat : i < n => i \notin S
<1>1. PICK n \in S : \A i \in S : <<i, n>> \notin OpToRel(<, Nat)
  BY WFMin, NatLessThanWellFounded
<1> QED
  BY <1>1 DEF OpToRel

(* Among the subsets of a finite set that fail at something there is one   *)
(* of the fewest elements.                                                 *)
LEMMA LeastSubset ==
    ASSUME NEW S, IsFiniteSet(S), NEW B \in SUBSET SUBSET S, B # {}
    PROVE  \E T \in B : /\ IsFiniteSet(T) /\ Cardinality(T) \in Nat
                        /\ \A x \in T : T \ {x} \notin B
                        /\ \A R \in SUBSET S : Cardinality(R) < Cardinality(T) => R \notin B
<1>1. \A T \in SUBSET S : IsFiniteSet(T) /\ Cardinality(T) \in Nat
  BY FS_Subset, FS_CardinalityType
<1> DEFINE N == {Cardinality(T) : T \in B}
<1>2. N \in SUBSET Nat /\ N # {}
  BY <1>1
<1>3. PICK n \in N : \A i \in Nat : i < n => i \notin N
  <2> HIDE DEF N
  <2> QED
    BY <1>2, LeastNumber
<1>4. PICK T \in B : Cardinality(T) = n
  BY <1>3
<1>5. \A R \in SUBSET S : Cardinality(R) < Cardinality(T) => R \notin B
  BY <1>1, <1>3, <1>4
<1>6. ASSUME NEW x \in T PROVE T \ {x} \notin B
  <2>1. Cardinality(T \ {x}) = Cardinality(T) - 1
    BY <1>1, FS_RemoveElement
  <2>2. T \ {x} \in SUBSET S /\ Cardinality(T) \in Nat
    BY <1>1
  <2>3. Cardinality(T \ {x}) < Cardinality(T)
    BY <2>1, <2>2
  <2> QED
    BY <1>5, <2>2, <2>3
<1> QED
  BY <1>1, <1>4, <1>5, <1>6

PicksFrom(pick, S) == \A T \in SUBSET S : T # {} => pick[T] \in T

(* g is the fold over the subsets of S, in the order in which pick takes   *)
(* their elements.                                                         *)
FoldOf(g, S, base, step, pick) ==
    \A T \in SUBSET S :
        g[T] = IF T = {} THEN base ELSE step[<<g[T \ {pick[T]}], pick[T]>>]

(* Recursion over the subsets of a finite set is well defined: whatever    *)
(* element is picked and whatever is done with it.                         *)
LEMMA FoldedSets ==
    ASSUME NEW S, IsFiniteSet(S), NEW A, NEW base \in A, NEW step \in [A \X S -> A],
           NEW pick, PicksFrom(pick, S)
    PROVE  \E g \in [SUBSET S -> A] : FoldOf(g, S, base, step, pick)
<1> DEFINE Step(g, T) == IF T = {} THEN base ELSE step[<<g[T \ {pick[T]}], pick[T]>>]
           Upto(n) == \E g \in [SUBSET S -> A] :
                        \A T \in SUBSET S : Cardinality(T) <= n => g[T] = Step(g, T)
           Bad == {n \in Nat : ~Upto(n)}
<1>1. \A T \in SUBSET S : IsFiniteSet(T) /\ Cardinality(T) \in Nat
  BY FS_Subset, FS_CardinalityType
<1>2. \A T \in SUBSET S : T # {} => pick[T] \in T
  BY DEF PicksFrom
<1>3. \A n \in Nat : Upto(n)
  <2> SUFFICES ASSUME Bad # {} PROVE FALSE
    OBVIOUS
  <2>1. Bad \in SUBSET Nat
    OBVIOUS
  <2>2. PICK n \in Bad : \A i \in Nat : i < n => i \notin Bad
    <3> HIDE DEF Bad
    <3> QED
      BY <2>1, LeastNumber
  <2>3. n \in Nat /\ ~Upto(n)
    OBVIOUS
  <2>4. n # 0
    <3> SUFFICES ASSUME n = 0 PROVE FALSE
      OBVIOUS
    <3> DEFINE g == [T \in SUBSET S |-> base]
    <3>1. g \in [SUBSET S -> A]
      OBVIOUS
    <3>2. ASSUME NEW T \in SUBSET S, Cardinality(T) <= 0 PROVE g[T] = Step(g, T)
      <4>1. T = {}
        BY <1>1, <3>2, FS_EmptySet
      <4> QED
        BY <4>1
    <3> QED
      BY <2>3, <3>1, <3>2
  <2>5. n - 1 \in Nat /\ n - 1 < n
    BY <2>3, <2>4
  <2>6. Upto(n - 1)
    BY <2>2, <2>5
  <2>7. PICK g \in [SUBSET S -> A] :
            \A T \in SUBSET S : Cardinality(T) <= n - 1 => g[T] = Step(g, T)
    BY <2>6
  <2> DEFINE h == [T \in SUBSET S |-> Step(g, T)]
  <2>8. ASSUME NEW T \in SUBSET S PROVE Step(g, T) \in A
    <3>1. T # {} => /\ T \ {pick[T]} \in SUBSET S /\ pick[T] \in S
      BY <1>2
    <3>2. T # {} => <<g[T \ {pick[T]}], pick[T]>> \in A \X S
      BY <2>7, <3>1
    <3> QED
      BY <3>2
  <2>9. h \in [SUBSET S -> A]
    BY <2>8
  <2>10. ASSUME NEW T \in SUBSET S, Cardinality(T) <= n PROVE h[T] = Step(h, T)
    <3>1. CASE T = {}
      BY <3>1
    <3>2. CASE T # {}
      <4> DEFINE R == T \ {pick[T]}
      <4>1. pick[T] \in T /\ R \in SUBSET S
        BY <1>2, <3>2
      <4>2. Cardinality(R) = Cardinality(T) - 1
        <5>1. IsFiniteSet(T)
          BY <1>1
        <5> DEFINE x == pick[T]
        <5>2. x \in T
          BY <4>1
        <5> HIDE DEF x
        <5>3. Cardinality(T \ {x}) = Cardinality(T) - 1
          BY <5>1, <5>2, FS_RemoveElement
        <5> QED
          BY <5>3 DEF x
      <4>3. Cardinality(R) <= n - 1
        BY <1>1, <2>3, <2>10, <4>1, <4>2
      <4>4. g[R] = Step(g, R)
        BY <2>7, <4>1, <4>3
      <4>5. h[R] = g[R]
        BY <4>1, <4>4
      <4>6. h[T] = step[<<g[R], pick[T]>>]
        BY <3>2
      <4> QED
        BY <3>2, <4>5, <4>6
    <3> QED
      BY <3>1, <3>2
  <2> HIDE DEF h
  <2>11. Upto(n)
    BY <2>9, <2>10
  <2> QED
    BY <2>3, <2>11
<1>4. Cardinality(S) \in Nat /\ \A T \in SUBSET S : Cardinality(T) <= Cardinality(S)
  BY <1>1, FS_Subset
<1>5. Upto(Cardinality(S))
  BY <1>3, <1>4
<1> QED
  BY <1>4, <1>5 DEF FoldOf

(* A nonempty finite set of numbers has a greatest.                        *)
LEMMA MaxIs ==
    ASSUME NEW S \in SUBSET Int, IsFiniteSet(S), S # {}
    PROVE  Max(S) \in S /\ \A x \in S : x <= Max(S)
<1> DEFINE HasMax(T) == T # {} => \E x \in T : \A y \in T : x >= y
           B == {T \in SUBSET S : ~HasMax(T)}
<1>1. ASSUME B # {} PROVE FALSE
  <2>1. B \in SUBSET SUBSET S
    OBVIOUS
  <2>2. PICK T \in B : /\ IsFiniteSet(T) /\ Cardinality(T) \in Nat
                       /\ \A x \in T : T \ {x} \notin B
                       /\ \A R \in SUBSET S : Cardinality(R) < Cardinality(T) => R \notin B
    <3> HIDE DEF B
    <3> QED
      BY <1>1, <2>1, LeastSubset
  <2>3. T \in SUBSET S /\ T # {} /\ ~\E x \in T : \A y \in T : x >= y
    OBVIOUS
  <2>4. PICK x \in T : TRUE
    BY <2>3
  <2>5. HasMax(T \ {x})
    BY <2>2, <2>3
  <2>6. CASE T \ {x} = {}
    BY <2>3, <2>4, <2>6
  <2>7. CASE T \ {x} # {}
    <3>1. PICK z \in T \ {x} : \A y \in T \ {x} : z >= y
      BY <2>5, <2>7
    <3>2. x \in Int /\ z \in Int /\ \A y \in T : y \in Int
      BY <2>3, <2>4, <3>1
    <3>3. CASE z >= x
      BY <2>3, <3>1, <3>2, <3>3
    <3>4. CASE x >= z
      <4>1. \A y \in T : x >= y
        BY <3>1, <3>2, <3>4
      <4> QED
        BY <2>3, <2>4, <4>1
    <3> QED
      BY <3>2, <3>3, <3>4
  <2> QED
    BY <2>6, <2>7
<1>2. \E x \in S : \A y \in S : x >= y
  BY <1>1
<1>3. Max(S) \in S /\ \A y \in S : Max(S) >= y
  BY <1>2 DEF Max
<1> QED
  BY <1>3

(* FoldLeft takes the positions of a sequence in the order of Max, so that *)
(* the fold over the first k + 1 of them is one step from that over k.     *)

(* The greatest of 1 .. k.                                                 *)
LEMMA MaxOfFirst == ASSUME NEW k \in Nat \ {0} PROVE Max(1 .. k) = k
<1>1. 1 .. k \in SUBSET Int /\ k \in 1 .. k /\ IsFiniteSet(1 .. k)
  BY FS_Interval
<1>2. Max(1 .. k) \in 1 .. k /\ \A x \in 1 .. k : x <= Max(1 .. k)
  BY <1>1, MaxIs
<1> QED
  BY <1>1, <1>2

FoldsUp(g, N, base, step) ==
    \A T \in SUBSET N : g[T] = IF T = {} THEN base ELSE step[<<g[T \ {Max(T)}], Max(T)>>]

(* A fold over 1 .. n in the order of Max exists; its values on 1 .. k     *)
(* step from one to the next.                                              *)
LEMMA FoldedUpwards ==
    ASSUME NEW n \in Nat, NEW A, NEW base \in A, NEW step \in [A \X (1 .. n) -> A]
    PROVE  \E g \in [SUBSET (1 .. n) -> A] : FoldsUp(g, 1 .. n, base, step)
<1> DEFINE pick == [T \in SUBSET (1 .. n) |-> Max(T)]
<1>1. ASSUME NEW T \in SUBSET (1 .. n), T # {} PROVE pick[T] \in T
  <2>1. IsFiniteSet(1 .. n)
    BY FS_Interval
  <2>2. IsFiniteSet(T)
    <3> DEFINE N == 1 .. n
    <3>1. IsFiniteSet(N) /\ T \in SUBSET N
      BY <2>1
    <3> HIDE DEF N
    <3> QED
      BY <3>1, FS_Subset
  <2>3. T \in SUBSET Int
    OBVIOUS
  <2> QED
    BY <1>1, <2>2, <2>3, MaxIs
<1> DEFINE N == 1 .. n
<1>2. PICK g \in [SUBSET N -> A] : FoldOf(g, N, base, step, pick)
  <2>1. IsFiniteSet(N)
    BY FS_Interval
  <2>2. PicksFrom(pick, N)
    BY <1>1 DEF PicksFrom
  <2>3. base \in A /\ step \in [A \X N -> A]
    OBVIOUS
  <2> HIDE DEF pick, N
  <2> QED
    BY <2>1, <2>2, <2>3, FoldedSets
<1>3. FoldsUp(g, N, base, step)
  BY <1>2 DEF FoldOf, FoldsUp
<1> QED
  BY <1>2, <1>3

(* What holds of 0 and is handed on holds up to n.                         *)
LEMMA Upwards ==
    ASSUME NEW n \in Nat, NEW G, 0 \in G, \A k \in Nat : k < n /\ k \in G => k + 1 \in G
    PROVE  \A k \in 0 .. n : k \in G
<1> DEFINE B == {k \in Nat : k <= n /\ k \notin G}
<1> SUFFICES ASSUME B # {} PROVE FALSE
  OBVIOUS
<1>1. B \in SUBSET Nat
  OBVIOUS
<1>2. PICK k \in B : \A i \in Nat : i < k => i \notin B
  <2> HIDE DEF B
  <2> QED
    BY <1>1, LeastNumber
<1>3. k \in Nat /\ k <= n /\ k \notin G /\ k # 0
  OBVIOUS
<1>4. k - 1 \in Nat /\ k - 1 < k /\ k - 1 < n
  BY <1>3
<1>5. k - 1 \in G
  BY <1>2, <1>3, <1>4
<1>6. (k - 1) + 1 \in G
  BY <1>4, <1>5
<1> QED
  BY <1>3, <1>6

(* A fold over the first positions, step by step.                          *)
LEMMA FoldedFirst ==
    ASSUME NEW n \in Nat, NEW k \in Nat, k < n
    PROVE  /\ 1 .. k \in SUBSET (1 .. n) /\ 1 .. (k + 1) \in SUBSET (1 .. n)
           /\ 1 .. (k + 1) # {} /\ Max(1 .. (k + 1)) = k + 1
           /\ (1 .. (k + 1)) \ {k + 1} = 1 .. k
           /\ k + 1 \in 1 .. n
  BY MaxOfFirst
=============================================================================
