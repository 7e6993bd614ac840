---------------------------- MODULE StoresProofs ----------------------------
(***************************************************************************)
(* Theorems about what the gateway keeps and counts: the budgets and their *)
(* ledger, the semantic cache and Gemini's cached contents.  The           *)
(* components share no state; each has an inductive invariant of its own.  *)
(***************************************************************************)
EXTENDS Budget, SemanticCache, GeminiCache, SharedLemmas, NaturalsInduction

-----------------------------------------------------------------------------
(* Sums over finite sets.  MapThenSumSet adds in an order of its own       *)
(* choosing; what is shown here is that the order does not matter.         *)

FirstOf(T) == CHOOSE x \in T : TRUE

(* g maps each subset of S to the sum of f over it, added in the order of  *)
(* FirstOf.                                                                *)
Summed(g, f, S) ==
    g = [T \in SUBSET S |-> IF T = {} THEN 0 ELSE f[FirstOf(T)] + g[T \ {FirstOf(T)}]]

Total(f, S) == (CHOOSE g : Summed(g, f, S))[S]

AnyOrder(g, f, S) == \A T \in SUBSET S : \A x \in T : g[T] = f[x] + g[T \ {x}]

(* Two ways to add up the subsets of a finite set agree.                   *)
LEMMA SummedOnce ==
    ASSUME NEW S, IsFiniteSet(S), NEW f, NEW g, NEW h, Summed(g, f, S), Summed(h, f, S)
    PROVE  g = h
<1> DEFINE B == {T \in SUBSET S : g[T] # h[T]}
<1>1. ASSUME B # {} PROVE FALSE
  <2>1. B \in SUBSET SUBSET S
    OBVIOUS
  <2>2. PICK T \in B : /\ IsFiniteSet(T) /\ Cardinality(T) \in Nat
                       /\ \A x \in T : T \ {x} \notin B
                       /\ \A R \in SUBSET S : Cardinality(R) < Cardinality(T) => R \notin B
    <3> HIDE DEF B
    <3> QED
      BY <1>1, <2>1, LeastSubset
  <2>3. T \in SUBSET S /\ g[T] # h[T]
    OBVIOUS
  <2>4. T # {}
    BY <2>3 DEF Summed
  <2>5. FirstOf(T) \in T
    BY <2>4 DEF FirstOf
  <2>6. T \ {FirstOf(T)} \in SUBSET S /\ T \ {FirstOf(T)} \notin B
    BY <2>2, <2>5
  <2>7. g[T \ {FirstOf(T)}] = h[T \ {FirstOf(T)}]
    BY <2>6
  <2>8. /\ g[T] = f[FirstOf(T)] + g[T \ {FirstOf(T)}]
        /\ h[T] = f[FirstOf(T)] + h[T \ {FirstOf(T)}]
    BY <2>3, <2>4 DEF Summed
  <2> QED
    BY <2>3, <2>7, <2>8
<1>2. \A T \in SUBSET S : g[T] = h[T]
  BY <1>1
<1>3. DOMAIN g = SUBSET S /\ DOMAIN h = SUBSET S
  BY DEF Summed
<1>4. g = [T \in SUBSET S |-> g[T]] /\ h = [T \in SUBSET S |-> h[T]]
  BY <1>3 DEF Summed
<1> QED
  BY <1>2, <1>4

(* Every finite set can be added up.                                       *)
LEMMA SummedExists ==
    ASSUME NEW S, IsFiniteSet(S), NEW f, \A x \in S : f[x] \in Nat
    PROVE  \E g : Summed(g, f, S) /\ g \in [SUBSET S -> Nat]
<1> DEFINE pick == [T \in SUBSET S |-> FirstOf(T)]
           step == [p \in Nat \X S |-> f[p[2]] + p[1]]
<1>1. PicksFrom(pick, S)
  BY DEF FirstOf, PicksFrom
<1>2. step \in [Nat \X S -> Nat]
  OBVIOUS
<1>3. PICK g \in [SUBSET S -> Nat] : FoldOf(g, S, 0, step, pick)
  <2> HIDE DEF pick, step
  <2>1. 0 \in Nat
    OBVIOUS
  <2> QED
    BY <1>1, <1>2, <2>1, FoldedSets
<1>4. ASSUME NEW T \in SUBSET S
      PROVE  g[T] = IF T = {} THEN 0 ELSE f[FirstOf(T)] + g[T \ {FirstOf(T)}]
  <2>1. T # {} => FirstOf(T) \in T
    BY DEF FirstOf
  <2>2. T # {} => <<g[T \ {FirstOf(T)}], FirstOf(T)>> \in Nat \X S
    BY <2>1
  <2> QED
    BY <1>3, <2>2 DEF FoldOf
<1>5. g = [T \in SUBSET S |-> g[T]]
  OBVIOUS
<1> QED
  BY <1>4, <1>5 DEF Summed

(* An element can be taken out of any sum, not just the one chosen first.  *)
LEMMA SummedAnyOrder ==
    ASSUME NEW S, IsFiniteSet(S), NEW f, \A x \in S : f[x] \in Nat,
           NEW g \in [SUBSET S -> Nat], Summed(g, f, S)
    PROVE  AnyOrder(g, f, S)
<1> DEFINE Fine(R) == \A y \in R : g[R] = f[y] + g[R \ {y}]
           B == {R \in SUBSET S : ~Fine(R)}
<1>1. ASSUME B # {} PROVE FALSE
  <2>1. B \in SUBSET SUBSET S
    OBVIOUS
  <2>2. PICK R \in B : /\ IsFiniteSet(R) /\ Cardinality(R) \in Nat
                       /\ \A y \in R : R \ {y} \notin B
                       /\ \A Q \in SUBSET S : Cardinality(Q) < Cardinality(R) => Q \notin B
    <3> HIDE DEF B
    <3> QED
      BY <1>1, <2>1, LeastSubset
  <2>3. R \in SUBSET S /\ ~Fine(R)
    OBVIOUS
  <2>4. PICK y \in R : g[R] # f[y] + g[R \ {y}]
    BY <2>3
  <2> DEFINE z == FirstOf(R)
  <2>5. z \in R
    BY <2>4 DEF FirstOf
  <2>6. g[R] = f[z] + g[R \ {z}]
    BY <2>3, <2>5 DEF Summed
  <2> HIDE DEF z
  <2>7. y # z
    BY <2>4, <2>6
  <2>8. Fine(R \ {z}) /\ Fine(R \ {y})
    BY <2>2, <2>3, <2>4, <2>5
  <2>9. g[R \ {z}] = f[y] + g[(R \ {z}) \ {y}]
    BY <2>4, <2>7, <2>8
  <2>10. g[R \ {y}] = f[z] + g[(R \ {y}) \ {z}]
    BY <2>5, <2>7, <2>8
  <2> DEFINE P == (R \ {z}) \ {y}
  <2>11. (R \ {y}) \ {z} = P /\ P \in SUBSET S
    BY <2>3
  <2>12. f[y] \in Nat /\ f[z] \in Nat /\ g[P] \in Nat
    BY <2>3, <2>4, <2>5, <2>11
  <2>13. g[R \ {z}] = f[y] + g[P] /\ g[R \ {y}] = f[z] + g[P]
    BY <2>9, <2>10, <2>11
  <2> HIDE DEF P
  <2>14. g[R] = f[z] + (f[y] + g[P]) /\ g[R] # f[y] + (f[z] + g[P])
    BY <2>4, <2>6, <2>13
  <2> QED
    BY <2>12, <2>14
<1>2. \A T \in SUBSET S : Fine(T)
  BY <1>1
<1> QED
  BY <1>2 DEF AnyOrder

(* The sum over a part of a set is what summing the set gives for it.      *)
LEMMA TotalIs ==
    ASSUME NEW S, IsFiniteSet(S), NEW f, \A x \in S : f[x] \in Nat, NEW R \in SUBSET S,
           NEW g, Summed(g, f, S)
    PROVE  Total(f, R) = g[R]
<1> DEFINE h == [T \in SUBSET R |-> g[T]]
           k == CHOOSE k : Summed(k, f, R)
<1>1. IsFiniteSet(R)
  BY FS_Subset
<1>2. Summed(h, f, R)
  <2>1. ASSUME NEW T \in SUBSET R
        PROVE  h[T] = IF T = {} THEN 0 ELSE f[FirstOf(T)] + h[T \ {FirstOf(T)}]
    <3>1. T \in SUBSET S /\ T \ {FirstOf(T)} \in SUBSET R
      OBVIOUS
    <3>2. g[T] = IF T = {} THEN 0 ELSE f[FirstOf(T)] + g[T \ {FirstOf(T)}]
      BY <3>1 DEF Summed
    <3> QED
      BY <3>1, <3>2
  <2>2. h = [T \in SUBSET R |-> h[T]]
    OBVIOUS
  <2> HIDE DEF h
  <2> QED
    BY <2>1, <2>2 DEF Summed
<1>3. Summed(k, f, R)
  BY <1>2
<1> HIDE DEF k
<1>4. k = h
  <2> HIDE DEF h
  <2> QED
    BY <1>1, <1>2, <1>3, SummedOnce
<1> QED
  BY <1>4 DEF Total, k

(* What sums are: nothing for the empty set, one summand more for one      *)
(* element more, and no less for more elements.                            *)
LEMMA TotalLaws ==
    ASSUME NEW S, IsFiniteSet(S), NEW f, \A x \in S : f[x] \in Nat
    PROVE  /\ Total(f, S) \in Nat
           /\ S = {} => Total(f, S) = 0
           /\ \A x \in S : Total(f, S) = f[x] + Total(f, S \ {x})
           /\ \A R \in SUBSET S : Total(f, R) \in Nat /\ Total(f, R) <= Total(f, S)
<1>1. PICK g : Summed(g, f, S) /\ g \in [SUBSET S -> Nat]
  BY SummedExists
<1>2. \A R \in SUBSET S : Total(f, R) = g[R] /\ Total(f, R) \in Nat
  BY <1>1, TotalIs
<1>3. S = {} => Total(f, S) = 0
  BY <1>1, <1>2 DEF Summed
<1>a. \A T \in SUBSET S : \A x \in T : g[T] = f[x] + g[T \ {x}]
  <2>1. g \in [SUBSET S -> Nat] /\ Summed(g, f, S)
    BY <1>1
  <2>2. AnyOrder(g, f, S)
    BY <2>1, SummedAnyOrder
  <2> QED
    BY <2>2 DEF AnyOrder
<1>4. ASSUME NEW x \in S PROVE Total(f, S) = f[x] + Total(f, S \ {x})
  <2>1. g[S] = f[x] + g[S \ {x}]
    BY <1>a
  <2> QED
    BY <1>2, <2>1
<1>5. ASSUME NEW R \in SUBSET S PROVE g[R] <= g[S]
  <2> DEFINE B == {T \in SUBSET S : R \subseteq T /\ ~(g[R] <= g[T])}
  <2>1. ASSUME B # {} PROVE FALSE
    <3>1. B \in SUBSET SUBSET S
      OBVIOUS
    <3>2. PICK T \in B : /\ IsFiniteSet(T) /\ Cardinality(T) \in Nat
                         /\ \A y \in T : T \ {y} \notin B
                         /\ \A Q \in SUBSET S : Cardinality(Q) < Cardinality(T) => Q \notin B
      <4> HIDE DEF B
      <4> QED
        BY <2>1, <3>1, LeastSubset
    <3>3. T \in SUBSET S /\ R \subseteq T /\ ~(g[R] <= g[T])
      OBVIOUS
    <3>4. g[R] \in Nat /\ g[T] \in Nat
      BY <1>1, <3>3
    <3>5. PICK x \in T : x \notin R
      BY <3>3, <3>4
    <3>6. g[R] <= g[T \ {x}]
      BY <3>2, <3>3, <3>5
    <3>7. g[T] = f[x] + g[T \ {x}]
      BY <1>a, <3>3, <3>5
    <3>8. g[T \ {x}] \in Nat /\ f[x] \in Nat
      BY <1>1, <3>3, <3>5
    <3> QED
      BY <3>3, <3>4, <3>6, <3>7, <3>8
  <2> QED
    BY <2>1
<1> QED
  BY <1>2, <1>3, <1>4, <1>5

(* Only the summands count.                                                *)
LEMMA TotalSame ==
    ASSUME NEW S, IsFiniteSet(S), NEW f, NEW h, \A x \in S : f[x] \in Nat /\ f[x] = h[x]
    PROVE  Total(f, S) = Total(h, S)
<1>1. PICK g : Summed(g, f, S)
  BY SummedExists
<1>2. Summed(g, h, S)
  <2>1. ASSUME NEW T \in SUBSET S
        PROVE  g[T] = IF T = {} THEN 0 ELSE h[FirstOf(T)] + g[T \ {FirstOf(T)}]
    <3>1. T # {} => FirstOf(T) \in T
      BY DEF FirstOf
    <3>2. g[T] = IF T = {} THEN 0 ELSE f[FirstOf(T)] + g[T \ {FirstOf(T)}]
      BY <1>1 DEF Summed
    <3> QED
      BY <3>1, <3>2
  <2>2. g = [T \in SUBSET S |-> g[T]]
    BY <1>1 DEF Summed
  <2> QED
    BY <2>1, <2>2 DEF Summed
<1>3. \A x \in S : h[x] \in Nat
  OBVIOUS
<1> QED
  BY <1>1, <1>2, <1>3, TotalIs

-----------------------------------------------------------------------------
(* Prices and costs.                                                       *)

UsageSets == [in: Nat, out: Nat, read: Nat, write: Nat]

LEMMA PriceType ==
    ASSUME NEW provider, NEW model PROVE PriceFor(provider, model) \in Rates
<1> DEFINE found == MatchingPatterns(model)
<1>1. CASE found = {}
  BY <1>1, PricingAssumption DEF PriceFor
<1>2. CASE found # {}
  <2>1. found \in SUBSET Nat /\ found \subseteq 1 .. Len(PatternRates)
    BY PricingAssumption DEF MatchingPatterns
  <2>2. PICK n \in found : \A i \in Nat : i < n => i \notin found
    <3> HIDE DEF found
    <3> QED
      BY <1>2, <2>1, LeastNumber
  <2>3. \A j \in found : n <= j
    BY <2>1, <2>2
  <2> DEFINE k == CHOOSE i \in found : \A j \in found : i <= j
  <2>4. k \in found
    <3> HIDE DEF found
    <3> QED
      BY <2>3
  <2>5. PatternRates[k].rate \in Rates
    <3> HIDE DEF k
    <3> QED
      BY <2>1, <2>4, PricingAssumption
  <2> QED
    BY <2>5, PricingAssumption DEF PriceFor
<1> QED
  BY <1>1, <1>2

LEMMA CostType ==
    ASSUME NEW rate \in Rates, NEW usage \in UsageSets, NEW batch
    PROVE  CostOf(rate, usage, batch) \in Nat
<1> DEFINE factor == IF batch THEN rate.batch ELSE 100
           prompt == 100 * usage.in + rate.read * usage.read + rate.write * usage.write
<1>1. /\ rate.in \in Nat /\ rate.out \in Nat /\ rate.read \in Nat /\ rate.write \in Nat
      /\ factor \in Nat
      /\ usage.in \in Nat /\ usage.out \in Nat /\ usage.read \in Nat /\ usage.write \in Nat
  BY DEF Rates, UsageSets
<1>2. rate.read * usage.read \in Nat /\ rate.write * usage.write \in Nat
  BY <1>1
<1>3. prompt \in Nat
  BY <1>1, <1>2
<1> HIDE DEF factor, prompt
<1>4. prompt * rate.in \in Nat
  BY <1>1, <1>3
<1>5. 100 * usage.out \in Nat
  BY <1>1
<1>6. 100 * usage.out * rate.out \in Nat
  BY <1>1, <1>5
<1>7. prompt * rate.in + 100 * usage.out * rate.out \in Nat
  BY <1>4, <1>6
<1>8. factor * (prompt * rate.in + 100 * usage.out * rate.out) \in Nat
  <2> DEFINE r == prompt * rate.in + 100 * usage.out * rate.out
  <2>1. r \in Nat
    BY <1>7
  <2> HIDE DEF r
  <2>2. factor * r \in Nat
    BY <1>1, <2>1
  <2> QED
    BY <2>2 DEF r
<1> QED
  BY <1>8 DEF CostOf, factor, prompt

(* What a call can use, and what it then costs.                            *)
LEMMA UsageType ==
    ASSUME NEW call \in Calls
    PROVE  /\ UsageOf(call) \subseteq UsageSets
           /\ Full(call) \in UsageOf(call)
           /\ \A u \in UsageSets : CallUsd(call, u) \in Nat
<1>1. /\ call.est \in Nat /\ call.max \in Nat /\ call.prompt \in Nat /\ call.answer \in Nat
      /\ call.est <= call.prompt /\ call.max <= call.answer
  BY BudgetAssumption
<1>2. UsageOf(call) \subseteq UsageSets
  BY <1>1 DEF UsageOf, UsageSets
<1>3. Full(call) \in UsageOf(call)
  BY <1>1 DEF UsageOf, Full
<1>4. \A u \in UsageSets : CallUsd(call, u) \in Nat
  BY PriceType, CostType DEF CallUsd
<1> QED
  BY <1>2, <1>3, <1>4

(* The values of a function on a finite set are finitely many.             *)
LEMMA FiniteImage ==
    ASSUME NEW S, IsFiniteSet(S), NEW f, f = [x \in S |-> f[x]]
    PROVE  IsFiniteSet({f[x] : x \in S})
<1> DEFINE T == {f[x] : x \in S}
<1>1. f \in Surjection(S, T)
  BY DEF Surjection
<1> HIDE DEF T
<1> QED
  BY <1>1, FS_Surjection DEF T

LEMMA FiniteUsages ==
    ASSUME IsFiniteSet(Calls) PROVE IsFiniteSet(Usages)
<1>1. ASSUME NEW call \in Calls PROVE IsFiniteSet(UsageOf(call))
  <2> DEFINE P == 0 .. call.prompt
             A == P \X (0 .. call.answer)
             B == P \X P
             D == A \X B
             f == [x \in D |-> [in |-> x[1][1], out |-> x[1][2], read |-> x[2][1], write |-> x[2][2]]]
             T == {f[x] : x \in D}
  <2>1. IsFiniteSet(P) /\ IsFiniteSet(0 .. call.answer)
    <3>1. 0 \in Int /\ call.prompt \in Int /\ call.answer \in Int
      BY BudgetAssumption
    <3> QED
      BY <3>1, FS_Interval
  <2>2. IsFiniteSet(A) /\ IsFiniteSet(B)
    <3> HIDE DEF P
    <3> QED
      BY <2>1, FS_Product
  <2>3. IsFiniteSet(D)
    <3> HIDE DEF A, B
    <3> QED
      BY <2>2, FS_Product
  <2>4. IsFiniteSet(T)
    <3>1. f = [x \in D |-> f[x]]
      OBVIOUS
    <3> HIDE DEF D, f
    <3> QED
      BY <2>3, <3>1, FiniteImage
  <2>5. UsageOf(call) \subseteq T
    <3> SUFFICES ASSUME NEW u \in UsageOf(call) PROVE u \in T
      OBVIOUS
    <3>1. u \in [in: P, out: 0 .. call.answer, read: P, write: P]
      BY DEF UsageOf
    <3>2. u = [in |-> u.in, out |-> u.out, read |-> u.read, write |-> u.write]
      BY <3>1
    <3>3. <<<<u.in, u.out>>, <<u.read, u.write>>>> \in D
      BY <3>1
    <3>4. f[<<<<u.in, u.out>>, <<u.read, u.write>>>>] = u
      BY <3>2, <3>3
    <3> HIDE DEF f, D
    <3> QED
      BY <3>3, <3>4
  <2> HIDE DEF T
  <2> QED
    BY <2>4, <2>5, FS_Subset
<1> DEFINE Of(c) == {<<c, u>> : u \in UsageOf(c)}
<1>2. ASSUME NEW c \in Calls PROVE IsFiniteSet(Of(c))
  <2> DEFINE f == [u \in UsageOf(c) |-> <<c, u>>]
  <2>1. f = [u \in UsageOf(c) |-> f[u]]
    OBVIOUS
  <2>2. IsFiniteSet({f[u] : u \in UsageOf(c)})
    <3> HIDE DEF f
    <3> QED
      BY <1>1, <2>1, FiniteImage
  <2>3. {f[u] : u \in UsageOf(c)} = Of(c)
    OBVIOUS
  <2> QED
    BY <2>2, <2>3
<1>3. IsFiniteSet({Of(c) : c \in Calls})
  <2> DEFINE f == [c \in Calls |-> Of(c)]
  <2>1. f = [c \in Calls |-> f[c]]
    OBVIOUS
  <2>2. IsFiniteSet({f[c] : c \in Calls})
    <3> HIDE DEF f
    <3> QED
      BY <2>1, FiniteImage
  <2>3. {f[c] : c \in Calls} = {Of(c) : c \in Calls}
    OBVIOUS
  <2> QED
    BY <2>2, <2>3
<1>4. IsFiniteSet(UNION {Of(c) : c \in Calls})
  <2>1. \A T \in {Of(c) : c \in Calls} : IsFiniteSet(T)
    BY <1>2
  <2> QED
    BY <1>3, <2>1, FS_UNION
<1> QED
  BY <1>4 DEF Usages

(* No call costs more than the dearest, nor exceeds its full length by     *)
(* more than the excess.                                                   *)
LEMMA Bounds ==
    ASSUME IsFiniteSet(Calls), Calls # {}
    PROVE  /\ Dearest \in Nat /\ Excess \in Nat
           /\ \A call \in Calls : \A u \in UsageOf(call) :
                 /\ CallUsd(call, u) \in Nat /\ CallUsd(call, Full(call)) \in Nat
                 /\ CallUsd(call, u) <= Dearest
                 /\ CallUsd(call, u) <= CallUsd(call, Full(call)) + Excess
<1> DEFINE cost == [x \in Usages |-> CallUsd(x[1], x[2])]
           over == [x \in Usages |-> CallUsd(x[1], x[2]) - CallUsd(x[1], Full(x[1]))]
           C == {cost[x] : x \in Usages}
           O == {over[x] : x \in Usages}
<1>1. \A call \in Calls : \A u \in UsageOf(call) :
         CallUsd(call, u) \in Nat /\ CallUsd(call, Full(call)) \in Nat
  BY UsageType
<1>2. \A x \in Usages : x[1] \in Calls /\ x[2] \in UsageOf(x[1])
  BY DEF Usages
<1>3. \A call \in Calls : \A u \in UsageOf(call) : <<call, u>> \in Usages
  BY DEF Usages
<1>4. PICK call \in Calls : <<call, Full(call)>> \in Usages
  BY <1>3, UsageType
<1>5. IsFiniteSet(Usages)
  BY FiniteUsages
<1>6. IsFiniteSet(C) /\ C \in SUBSET Nat /\ C # {}
  <2>1. cost = [x \in Usages |-> cost[x]]
    OBVIOUS
  <2>2. \A x \in Usages : cost[x] \in Nat
    BY <1>1, <1>2
  <2>3. cost[<<call, Full(call)>>] \in C
    BY <1>4
  <2> HIDE DEF cost
  <2> QED
    BY <1>5, <2>1, <2>2, <2>3, FiniteImage
<1>7. IsFiniteSet(O) /\ O \in SUBSET Int /\ 0 \in O
  <2>1. over = [x \in Usages |-> over[x]]
    OBVIOUS
  <2>2. \A x \in Usages : over[x] \in Int
    BY <1>1, <1>2
  <2>3. over[<<call, Full(call)>>] = 0
    <3>1. over[<<call, Full(call)>>] = CallUsd(call, Full(call)) - CallUsd(call, Full(call))
      BY <1>4
    <3>2. CallUsd(call, Full(call)) \in Nat
      BY UsageType
    <3> QED
      BY <3>1, <3>2
  <2> HIDE DEF over
  <2>4. 0 \in O
    BY <1>4, <2>3
  <2> QED
    BY <1>5, <2>1, <2>2, <2>4, FiniteImage
<1>8. Dearest = Max(C)
  <2>1. C = {CallUsd(x[1], x[2]) : x \in Usages}
    OBVIOUS
  <2> QED
    BY <2>1 DEF Dearest
<1>9. Excess = Max(O)
  <2>1. O = {CallUsd(x[1], x[2]) - CallUsd(x[1], Full(x[1])) : x \in Usages}
    OBVIOUS
  <2> QED
    BY <2>1 DEF Excess
<1>10. Max(C) \in C /\ \A n \in C : n <= Max(C)
  <2> HIDE DEF C
  <2> QED
    BY <1>6, MaxIs
<1>11. Max(O) \in O /\ \A n \in O : n <= Max(O)
  <2> HIDE DEF O
  <2> QED
    BY <1>7, MaxIs
<1>12. Dearest \in Nat /\ Excess \in Nat
  <2> HIDE DEF C, O
  <2>1. Max(C) \in Nat
    BY <1>6, <1>10
  <2>2. Max(O) \in Int /\ 0 <= Max(O)
    BY <1>7, <1>11
  <2> QED
    BY <1>8, <1>9, <2>1, <2>2
<1>13. ASSUME NEW k \in Calls, NEW u \in UsageOf(k)
       PROVE  /\ CallUsd(k, u) <= Dearest
              /\ CallUsd(k, u) <= CallUsd(k, Full(k)) + Excess
  <2>1. <<k, u>> \in Usages
    BY <1>3
  <2>2. CallUsd(k, u) \in C /\ CallUsd(k, u) - CallUsd(k, Full(k)) \in O
    BY <2>1
  <2> HIDE DEF C, O
  <2>3. CallUsd(k, u) <= Dearest /\ CallUsd(k, u) - CallUsd(k, Full(k)) <= Excess
    BY <1>8, <1>9, <1>10, <1>11, <2>2
  <2> QED
    BY <1>1, <1>12, <2>3
<1> QED
  BY <1>1, <1>12, <1>13

(* A projection made for the worst case is no less than the call at full   *)
(* length.                                                                 *)
LEMMA ProjectsFull ==
    ASSUME NEW call \in Calls, file \in BudgetFiles, ~file.ratio, file.safety >= 100
    PROVE  Project(call) \in Nat /\ CallUsd(call, Full(call)) <= Project(call)
<1> DEFINE usd == ProjectUsd(call.provider, call.model, call.est, call.max, call.batch, file.safety)
           full == CallUsd(call, Full(call))
           p == full * file.safety
<1>1. full \in Nat
  BY UsageType
<1>2. file.safety \in Nat /\ file.minUsd \in Nat
  BY BudgetAssumption
<1>3. usd = p \div 100
  BY DEF ProjectUsd, CallUsd, Full
<1>4. Project(call) = IF usd >= file.minUsd THEN usd ELSE file.minUsd
  BY DEF Project
<1> HIDE DEF usd, full
<1>5. p \in Nat /\ p >= full * 100
  BY <1>1, <1>2
<1> HIDE DEF p
<1>6. p \div 100 \in Nat /\ p \div 100 >= full
  BY <1>1, <1>5
<1>7. usd \in Nat /\ full <= usd
  BY <1>1, <1>3, <1>6
<1> QED
  BY <1>1, <1>2, <1>4, <1>7 DEF full

(* A period starts no later than now, and never moves back.                *)
LEMMA PeriodStarts ==
    ASSUME NEW period \in DOMAIN PeriodLength, NEW t \in Nat
    PROVE  /\ PeriodStart(period, t) \in Nat
           /\ PeriodStart(period, t) <= t
           /\ PeriodStart(period, t) <= PeriodStart(period, t + 1)
<1> DEFINE n == PeriodLength[period]
<1>1. n \in Nat
  BY BudgetAssumption
<1>2. CASE n = 0
  BY <1>2 DEF PeriodStart
<1>3. CASE n # 0
  <2> HIDE DEF n
  <2> DEFINE q == t \div n
             r == t % n
             u == (t + 1) \div n
             w == (t + 1) % n
  <2>1. /\ q \in Nat /\ r \in 0 .. n - 1 /\ t = n * q + r
    BY <1>1, <1>3
  <2>2. /\ u \in Nat /\ w \in 0 .. n - 1 /\ t + 1 = n * u + w
    BY <1>1, <1>3
  <2>3. PeriodStart(period, t) = t - r /\ PeriodStart(period, t + 1) = (t + 1) - w
    BY <1>3 DEF PeriodStart, n
  <2> HIDE DEF q, r, u, w
  <2>4. q <= u
    <3> SUFFICES ASSUME u + 1 <= q PROVE FALSE
      BY <2>1, <2>2
    <3>1. n * (u + 1) <= n * q
      BY <1>1, <2>1, <2>2
    <3>2. n * (u + 1) = n * u + n
      BY <1>1, <2>2
    <3>3. n * u \in Nat /\ n * q \in Nat
      BY <1>1, <2>1, <2>2
    <3> DEFINE a == n * u
               b == n * q
    <3>4. a \in Nat /\ b \in Nat /\ a + n <= b /\ t = b + r /\ t + 1 = a + w
      BY <2>1, <2>2, <3>1, <3>2, <3>3
    <3> HIDE DEF a, b
    <3> QED
      BY <1>1, <2>1, <2>2, <3>4
  <2>5. n * q <= n * u /\ n * q \in Nat /\ n * u \in Nat
    BY <1>1, <2>1, <2>2, <2>4
  <2> DEFINE a == n * u
             b == n * q
  <2>6. a \in Nat /\ b \in Nat /\ b <= a /\ t = b + r /\ t + 1 = a + w
    BY <2>1, <2>2, <2>5
  <2> HIDE DEF a, b
  <2>7. t - r = b /\ (t + 1) - w = a
    BY <1>1, <2>1, <2>2, <2>6
  <2> QED
    BY <1>1, <2>1, <2>3, <2>6, <2>7
<1> QED
  BY <1>2, <1>3

-----------------------------------------------------------------------------
(* The ledger.                                                             *)

RowsIn(log, v, since, errors) ==
    {i \in 1 .. Len(log) : v \in log[i].who /\ log[i].ts >= since /\ (errors \/ log[i].ok)}

UsdOf(log) == [i \in 1 .. Len(log) |-> log[i].usd]

SpendIn(log, v, since, errors) == Total(UsdOf(log), RowsIn(log, v, since, errors))

(* What a period of a log adds up to is a sum of natural numbers.          *)
LEMMA SpendParts ==
    ASSUME NEW log \in Seq(LedgerRows), NEW v, NEW since \in Nat, NEW errors
    PROVE  /\ Len(log) \in Nat
           /\ \A i \in 1 .. Len(log) : log[i] \in LedgerRows /\ log[i].usd \in Nat
           /\ IsFiniteSet(RowsIn(log, v, since, errors))
           /\ \A i \in RowsIn(log, v, since, errors) :
                 i \in 1 .. Len(log) /\ UsdOf(log)[i] \in Nat
           /\ SpendIn(log, v, since, errors) \in Nat
<1>1. Len(log) \in Nat /\ \A i \in 1 .. Len(log) : log[i] \in LedgerRows
  BY ElementOfSeq, LenProperties
<1>2. \A i \in 1 .. Len(log) : log[i].usd \in Nat
  BY <1>1 DEF LedgerRows
<1>3. IsFiniteSet(1 .. Len(log))
  BY <1>1, FS_Interval
<1>4. RowsIn(log, v, since, errors) \in SUBSET (1 .. Len(log))
  BY DEF RowsIn
<1>5. IsFiniteSet(RowsIn(log, v, since, errors))
  BY <1>3, <1>4, FS_Subset
<1>6. \A i \in RowsIn(log, v, since, errors) : i \in 1 .. Len(log) /\ UsdOf(log)[i] \in Nat
  BY <1>2, <1>4 DEF UsdOf
<1>7. SpendIn(log, v, since, errors) \in Nat
  <2>1. \A i \in RowsIn(log, v, since, errors) : UsdOf(log)[i] \in Nat
    BY <1>6
  <2> QED
    BY <1>5, <2>1, TotalLaws DEF SpendIn
<1> QED
  BY <1>1, <1>2, <1>5, <1>6, <1>7

(* The ledger's own sum is this one.                                       *)
LEMMA SpendUsdIs ==
    ASSUME booked \in Seq(LedgerRows), NEW v, NEW since \in Nat, NEW errors
    PROVE  SpendUsd(v, since, errors) = SpendIn(booked, v, since, errors)
<1> DEFINE R == RowsIn(booked, v, since, errors)
           f == UsdOf(booked)
           Adds(g) == g = [T \in SUBSET R |->
                    IF T = {} THEN 0
                    ELSE LET x == CHOOSE x \in T : TRUE IN booked[x].usd + g[T \ {x}]]
           up == CHOOSE g : Adds(g)
<1>1. IsFiniteSet(R) /\ \A i \in R : i \in 1 .. Len(booked) /\ f[i] \in Nat
  BY SpendParts
<1>2. R = RowsOf(v, since, errors)
  BY DEF RowsIn, RowsOf
<1>3. SpendUsd(v, since, errors) = up[R]
  BY <1>2 DEF SpendUsd, MapThenSumSet, MapThenFoldSet
<1>4. \A i \in R : f[i] = booked[i].usd
  BY <1>1 DEF UsdOf
<1> HIDE DEF R, f
<1>5. PICK g : Summed(g, f, R)
  <2>1. \A i \in R : f[i] \in Nat
    BY <1>1
  <2> QED
    BY <1>1, <2>1, SummedExists
<1>6. \A h : Summed(h, f, R) <=> Adds(h)
  <2> SUFFICES ASSUME NEW h, NEW T \in SUBSET R
               PROVE  (IF T = {} THEN 0 ELSE f[FirstOf(T)] + h[T \ {FirstOf(T)}])
                      = IF T = {} THEN 0
                        ELSE LET x == CHOOSE x \in T : TRUE IN booked[x].usd + h[T \ {x}]
    BY DEF Summed
  <2>1. T # {} => FirstOf(T) \in R
    BY DEF FirstOf
  <2> QED
    BY <1>4, <2>1 DEF FirstOf
<1>7. Summed(up, f, R)
  <2>1. Adds(up)
    <3>1. Adds(g)
      BY <1>5, <1>6
    <3> HIDE DEF Adds
    <3> QED
      BY <3>1
  <2> HIDE DEF up
  <2> QED
    BY <1>6, <2>1
<1> HIDE DEF up
<1>8. Total(f, R) = up[R]
  <2>1. R \in SUBSET R /\ \A i \in R : f[i] \in Nat
    BY <1>1
  <2> QED
    BY <1>1, <1>7, <2>1, TotalIs
<1> QED
  BY <1>3, <1>8 DEF SpendIn, R, f

-----------------------------------------------------------------------------
(* What a principal spends.                                                *)

BudgetTypes ==
    /\ bNow \in Nat /\ restarts \in Nat /\ file \in BudgetFiles
    /\ DOMAIN overrides \subseteq Patterns /\ IsFiniteSet(DOMAIN overrides)
    /\ \A p \in DOMAIN overrides : overrides[p] \in BudgetPolicies
    /\ booked \in Seq(LedgerRows)
    /\ paying = [c \in Payers |-> paying[c]]
    /\ \A c \in Payers : paying[c].active =>
          paying[c].who \in Principals /\ paying[c].call \in Calls
    /\ rule \in [Values -> [usd: Nat, periods: SUBSET DOMAIN PeriodLength,
                            errors: BOOLEAN, free: BOOLEAN]]

(* What is in flight was projected at no less than its full length.        *)
Covered ==
    \A c \in Payers : paying[c].active =>
        /\ paying[c].projected \in Nat
        /\ CallUsd(paying[c].call, Full(paying[c].call)) <= paying[c].projected

(* The calls in flight that a value will be charged for.                   *)
Flying(v) == {c \in Payers : paying[c].active /\ v \in paying[c].who}

Others == (Cardinality(Payers) - 1) * Dearest

(* There is room for the calls of F: each at the price of the dearest, or  *)
(* one of them at its own projection.                                      *)
Room(spend, F, pays, usd) ==
    \/ spend + Cardinality(F) * Dearest <= usd + Excess + Others
    \/ \E c \in F :
          spend + pays[c].projected + (Cardinality(F) - 1) * Dearest <= usd + Others

SpendInv ==
    \A v \in Values : \A period \in rule[v].periods :
        rule[v].periods = {period} /\ ~rule[v].free =>
            Room(SpendIn(booked, v, PeriodStart(period, bNow), rule[v].errors),
                 Flying(v), paying, rule[v].usd)

(* The call that is admitted last has room, whatever is in flight beside.  *)
LEMMA RoomAdmitted ==
    ASSUME IsFiniteSet(Payers), Dearest \in Nat, NEW F \in SUBSET Payers, NEW c \in F, NEW pays,
           NEW spend \in Nat, NEW usd \in Nat, pays[c].projected \in Nat,
           spend + pays[c].projected <= usd
    PROVE  Room(spend, F, pays, usd)
<1> DEFINE k == Cardinality(F) - 1
           n == Cardinality(Payers) - 1
           p == pays[c].projected
<1>1. k \in Nat /\ n \in Nat /\ k <= n
  <2>1. IsFiniteSet(F) /\ Cardinality(F) <= Cardinality(Payers)
    BY FS_Subset
  <2>2. Cardinality(F) \in Nat /\ Cardinality(Payers) \in Nat
    BY <2>1, FS_CardinalityType
  <2>3. Cardinality(F) # 0
    BY <2>1, FS_EmptySet
  <2> QED
    BY <2>1, <2>2, <2>3
<1> HIDE DEF k, n, p
<1>2. k * Dearest <= n * Dearest /\ k * Dearest \in Nat /\ n * Dearest \in Nat
  BY <1>1
<1>3. p \in Nat /\ spend + p <= usd
  BY DEF p
<1> DEFINE a == k * Dearest
           b == n * Dearest
<1>4. a \in Nat /\ b \in Nat /\ a <= b
  BY <1>2
<1> HIDE DEF a, b
<1>5. spend + p + a <= usd + b
  BY <1>3, <1>4
<1> QED
  BY <1>5 DEF Room, Others, k, n, p, a, b

(* The row of a call that ends costs no more than what was kept free for it.*)
LEMMA RoomBooked ==
    ASSUME IsFiniteSet(Payers), Dearest \in Nat, Excess \in Nat,
           NEW F \in SUBSET Payers, NEW c \in F, NEW pays, NEW then,
           \A d \in F \ {c} : then[d] = pays[d],
           \A d \in F : pays[d].projected \in Nat,
           NEW spend \in Nat, NEW more \in Nat, NEW cost \in Nat, NEW usd \in Nat,
           more <= spend + cost, cost <= Dearest, cost <= pays[c].projected + Excess,
           Room(spend, F, pays, usd)
    PROVE  Room(more, F \ {c}, then, usd)
<1> DEFINE k == Cardinality(F)
           j == Cardinality(F \ {c})
<1>1. k \in Nat /\ j \in Nat /\ j = k - 1
  <2>1. IsFiniteSet(F) /\ IsFiniteSet(F \ {c})
    BY FS_Subset
  <2> QED
    BY <2>1, FS_CardinalityType, FS_RemoveElement
<1>2. Others \in Int
  <2>1. Cardinality(Payers) - 1 \in Int
    BY FS_CardinalityType
  <2> QED
    BY <2>1 DEF Others
<1> HIDE DEF k, j
<1>3. j * Dearest \in Nat /\ k * Dearest = j * Dearest + Dearest
  BY <1>1
<1> DEFINE a == j * Dearest
<1>4. a \in Nat /\ k * Dearest = a + Dearest /\ (k - 1) * Dearest = a
  BY <1>1, <1>3
<1>5. CASE spend + k * Dearest <= usd + Excess + Others
  <2>1. spend + (a + Dearest) <= usd + Excess + Others
    BY <1>4, <1>5
  <2> HIDE DEF a
  <2>2. more + a <= usd + Excess + Others
    BY <1>2, <1>4, <2>1
  <2> QED
    BY <2>2 DEF Room, a, j
<1>6. ASSUME NEW d \in F, spend + pays[d].projected + (k - 1) * Dearest <= usd + Others
      PROVE  Room(more, F \ {c}, then, usd)
  <2> DEFINE p == pays[d].projected
  <2>1. p \in Nat
    OBVIOUS
  <2>2. spend + p + a <= usd + Others
    BY <1>4, <1>6
  <2>3. CASE d = c
    <3>1. cost <= p + Excess
      BY <2>3
    <3> HIDE DEF a, p
    <3>2. more + a <= usd + Excess + Others
      BY <1>2, <1>4, <2>1, <2>2, <3>1
    <3> QED
      BY <3>2 DEF Room, a, j
  <2>4. CASE d # c
    <3>1. d \in F \ {c} /\ then[d].projected = p
      BY <2>4
    <3>2. j # 0 /\ j - 1 \in Nat
      <4>1. IsFiniteSet(F \ {c}) /\ F \ {c} # {}
        BY <3>1, FS_Subset
      <4>2. j # 0
        BY <4>1, FS_EmptySet DEF j
      <4> QED
        BY <1>1, <4>2
    <3> DEFINE b == (j - 1) * Dearest
    <3>3. b \in Nat /\ a = b + Dearest
      BY <1>1, <3>2
    <3> HIDE DEF a, b, p
    <3>4. more + p + b <= usd + Others
      BY <1>2, <1>4, <2>1, <2>2, <3>3
    <3>5. more + then[d].projected + (j - 1) * Dearest <= usd + Others
      BY <3>1, <3>4 DEF b
    <3> QED
      BY <3>1, <3>5 DEF Room, j
  <2> QED
    BY <2>3, <2>4
<1> QED
  BY <1>5, <1>6 DEF Room, k

(* What is spent stays within the room, and calls that are cut off cost    *)
(* nothing.                                                                *)
LEMMA RoomSpent ==
    ASSUME IsFiniteSet(Payers), Dearest \in Nat, Excess \in Nat,
           NEW F \in SUBSET Payers, NEW pays, \A d \in F : pays[d].projected \in Nat,
           NEW spend \in Nat, NEW usd \in Nat, Room(spend, F, pays, usd)
    PROVE  spend <= usd + Excess + Others
<1>1. Cardinality(F) \in Nat
  BY FS_Subset, FS_CardinalityType
<1>2. Others \in Int
  <2>1. Cardinality(Payers) - 1 \in Int
    BY FS_CardinalityType
  <2> QED
    BY <2>1 DEF Others
<1>3. CASE spend + Cardinality(F) * Dearest <= usd + Excess + Others
  <2> DEFINE a == Cardinality(F) * Dearest
  <2>1. a \in Nat /\ spend + a <= usd + Excess + Others
    BY <1>1, <1>3
  <2> HIDE DEF a
  <2> QED
    BY <1>2, <2>1
<1>4. ASSUME NEW d \in F,
             spend + pays[d].projected + (Cardinality(F) - 1) * Dearest <= usd + Others
      PROVE  spend <= usd + Excess + Others
  <2>1. Cardinality(F) # 0
    BY FS_Subset, FS_EmptySet
  <2>2. Cardinality(F) - 1 \in Nat
    BY <1>1, <2>1
  <2> DEFINE a == (Cardinality(F) - 1) * Dearest
             p == pays[d].projected
  <2>3. a \in Nat /\ p \in Nat /\ spend + p + a <= usd + Others
    BY <1>4, <2>2
  <2> HIDE DEF a, p
  <2> QED
    BY <1>2, <2>3
<1> QED
  BY <1>3, <1>4 DEF Room

(* Room for a spend is room for a smaller one.                             *)
LEMMA RoomLess ==
    ASSUME IsFiniteSet(Payers), Dearest \in Nat, Excess \in Nat,
           NEW F \in SUBSET Payers, NEW pays, \A d \in F : pays[d].projected \in Nat,
           NEW spend \in Nat, NEW less \in Nat, less <= spend, NEW usd \in Nat,
           Room(spend, F, pays, usd)
    PROVE  Room(less, F, pays, usd)
<1>1. Cardinality(F) \in Nat
  BY FS_Subset, FS_CardinalityType
<1>2. Others \in Int
  <2>1. Cardinality(Payers) - 1 \in Int
    BY FS_CardinalityType
  <2> QED
    BY <2>1 DEF Others
<1> DEFINE a == Cardinality(F) * Dearest
           b == (Cardinality(F) - 1) * Dearest
<1>3. a \in Int /\ b \in Int
  BY <1>1
<1>4. \/ spend + a <= usd + Excess + Others
      \/ \E c \in F : spend + pays[c].projected + b <= usd + Others
  BY DEF Room
<1> HIDE DEF a, b
<1>5. \/ less + a <= usd + Excess + Others
      \/ \E c \in F : less + pays[c].projected + b <= usd + Others
  BY <1>2, <1>3, <1>4
<1> QED
  BY <1>5 DEF Room, a, b

(* A shorter period, or one without the failed calls, has spent no more.   *)
LEMMA SpendLess ==
    ASSUME NEW log \in Seq(LedgerRows), NEW v, NEW since \in Nat, NEW later \in Nat,
           since <= later, NEW errors \in BOOLEAN, NEW fewer \in BOOLEAN, fewer => errors
    PROVE  SpendIn(log, v, later, fewer) <= SpendIn(log, v, since, errors)
<1> DEFINE R == RowsIn(log, v, since, errors)
           S == RowsIn(log, v, later, fewer)
<1>1. \A i \in 1 .. Len(log) : log[i].ts \in Nat
  BY SpendParts DEF LedgerRows
<1>2. S \in SUBSET R
  BY <1>1 DEF RowsIn
<1>3. IsFiniteSet(R) /\ \A i \in R : UsdOf(log)[i] \in Nat
  BY SpendParts
<1> HIDE DEF R, S
<1>4. Total(UsdOf(log), S) <= Total(UsdOf(log), R)
  BY <1>2, <1>3, TotalLaws
<1> QED
  BY <1>4 DEF SpendIn, R, S

(* A row more adds its cost, to those it is booked for.                    *)
LEMMA SpendMore ==
    ASSUME NEW log \in Seq(LedgerRows), NEW row \in LedgerRows,
           NEW v, NEW since \in Nat, NEW errors \in BOOLEAN
    PROVE  /\ Append(log, row) \in Seq(LedgerRows) /\ row.usd \in Nat
           /\ SpendIn(Append(log, row), v, since, errors)
                <= SpendIn(log, v, since, errors) + row.usd
           /\ v \notin row.who =>
                SpendIn(Append(log, row), v, since, errors) = SpendIn(log, v, since, errors)
<1> DEFINE L == Len(log)
           longer == Append(log, row)
           R == RowsIn(log, v, since, errors)
           S == RowsIn(longer, v, since, errors)
           f == UsdOf(log)
           g == UsdOf(longer)
<1>1. L \in Nat /\ longer \in Seq(LedgerRows) /\ Len(longer) = L + 1
      /\ longer[L + 1] = row /\ (\A i \in 1 .. L : longer[i] = log[i])
  BY SpendParts, AppendProperties
<1>2. row.usd \in Nat
  BY DEF LedgerRows
<1>3. IsFiniteSet(R) /\ IsFiniteSet(S)
  BY <1>1, SpendParts
<1>4. \A i \in R : i \in 1 .. L /\ f[i] \in Nat
  BY SpendParts
<1>5. \A i \in S : i \in 1 .. L + 1 /\ g[i] \in Nat
  BY <1>1, SpendParts
<1>6. R = S \ {L + 1} /\ (v \notin row.who => L + 1 \notin S)
  BY <1>1 DEF RowsIn
<1>7. \A i \in R : f[i] = g[i]
  BY <1>1, <1>4 DEF UsdOf
<1>8. g[L + 1] = row.usd
  BY <1>1 DEF UsdOf
<1> HIDE DEF R, S, f, g
<1>9. Total(f, R) = Total(g, R)
  <2>1. \A i \in R : f[i] \in Nat /\ f[i] = g[i]
    BY <1>4, <1>7
  <2> QED
    BY <1>3, <2>1, TotalSame
<1>10. Total(f, R) \in Nat
  <2>1. \A i \in R : f[i] \in Nat
    BY <1>4
  <2> QED
    BY <1>3, <2>1, TotalLaws
<1>11. CASE L + 1 \in S
  <2>1. \A i \in S : g[i] \in Nat
    BY <1>5
  <2>2. Total(g, S) = g[L + 1] + Total(g, S \ {L + 1})
    BY <1>3, <1>11, <2>1, TotalLaws
  <2>3. Total(g, S) = row.usd + Total(f, R)
    BY <1>6, <1>8, <1>9, <2>2
  <2>4. Total(g, S) <= Total(f, R) + row.usd
    BY <1>2, <1>10, <2>3
  <2> QED
    BY <1>1, <1>2, <1>6, <1>11, <2>4 DEF SpendIn, R, S, f, g
<1>12. CASE L + 1 \notin S
  <2>1. R = S
    BY <1>6, <1>12
  <2>2. Total(g, S) = Total(f, R) /\ Total(g, S) <= Total(f, R) + row.usd
    BY <1>2, <1>9, <1>10, <2>1
  <2> QED
    BY <1>1, <1>2, <2>2 DEF SpendIn, R, S, f, g
<1> QED
  BY <1>11, <1>12

(* The policy for a value that some policy matches is one of them.         *)
LEMMA PolicyIsOne ==
    ASSUME BudgetTypes, NEW v, Matching(v) # {}
    PROVE  PolicyFor(v) \in BudgetPolicies
<1> DEFINE M == Matching(v)
           D == DOMAIN file.policies \cup DOMAIN overrides
           rank == [p \in M |-> Specificity[p]]
           best == {p \in M : \A q \in M : Specificity[q] <= Specificity[p]}
           b == CHOOSE p \in best : TRUE
<1>1. /\ D \subseteq Patterns /\ IsFiniteSet(D)
      /\ \A p \in DOMAIN file.policies : file.policies[p] \in BudgetPolicies
      /\ \A p \in DOMAIN overrides : overrides[p] \in BudgetPolicies
  BY BudgetAssumption, FS_Union DEF BudgetTypes
<1>2. DOMAIN Policies = D /\ \A p \in D : Policies[p] \in BudgetPolicies
  BY <1>1 DEF Policies
<1>3. M \in SUBSET D /\ M # {}
  BY <1>2 DEF Matching
<1>4. IsFiniteSet(M) /\ \A p \in M : Specificity[p] \in Nat
  <2>1. \A p \in M : p \in Patterns
    BY <1>1, <1>3
  <2> QED
    BY <1>1, <1>3, <2>1, FS_Subset, BudgetAssumption
<1> HIDE DEF M, D
<1>5. best # {}
  <2>1. rank = [p \in M |-> rank[p]] /\ \A p \in M : rank[p] = Specificity[p]
    OBVIOUS
  <2> HIDE DEF rank
  <2> DEFINE N == {rank[p] : p \in M}
  <2>2. IsFiniteSet(N)
    BY <1>4, <2>1, FiniteImage
  <2>3. N \in SUBSET Int /\ N # {}
    BY <1>3, <1>4, <2>1
  <2>4. Max(N) \in N /\ \A n \in N : n <= Max(N)
    <3> HIDE DEF N
    <3> QED
      BY <2>2, <2>3, MaxIs
  <2>5. PICK p \in M : rank[p] = Max(N)
    BY <2>4
  <2>6. \A q \in M : rank[q] <= rank[p]
    BY <2>4, <2>5
  <2> QED
    BY <2>1, <2>6
<1>6. b \in M
  <2>1. b \in best
    <3> HIDE DEF best
    <3> QED
      BY <1>5
  <2> QED
    BY <2>1
<1>7. PolicyFor(v) = Policies[b]
  BY DEF PolicyFor, M
<1> HIDE DEF b
<1> QED
  BY <1>2, <1>3, <1>6, <1>7

(* What a value may be admitted under stays of its type.                   *)
RuleSet == [usd: Nat, periods: SUBSET DOMAIN PeriodLength, errors: BOOLEAN, free: BOOLEAN]

LEMMA RuledType ==
    ASSUME BudgetTypes, NEW who
    PROVE  Ruled(who) \in [Values -> RuleSet]
<1> SUFFICES ASSUME NEW v \in Values PROVE Ruled(who)[v] \in RuleSet
  BY DEF Ruled
<1> DEFINE p == PolicyFor(v)
           r == rule[v]
<1>1. r \in RuleSet
  BY DEF BudgetTypes, RuleSet
<1>2. CASE v \notin who
  BY <1>1, <1>2 DEF Ruled
<1>3. CASE v \in who /\ (~file.enabled \/ Matching(v) = {})
  <2>1. Ruled(who)[v] = [r EXCEPT !.free = TRUE]
    BY <1>3 DEF Ruled
  <2> HIDE DEF r
  <2> QED
    BY <1>1, <2>1 DEF RuleSet
<1>4. CASE v \in who /\ file.enabled /\ Matching(v) # {}
  <2>1. p \in BudgetPolicies
    BY <1>4, PolicyIsOne
  <2>2. Ruled(who)[v] =
          [usd |-> IF p.usd > r.usd THEN p.usd ELSE r.usd,
           periods |-> r.periods \cup {p.period},
           errors |-> r.errors /\ p.errors, free |-> r.free]
    BY <1>4 DEF Ruled
  <2> HIDE DEF p, r
  <2>3. /\ p.usd \in Nat /\ p.period \in DOMAIN PeriodLength /\ p.errors \in BOOLEAN
        /\ r.usd \in Nat /\ r.periods \in SUBSET DOMAIN PeriodLength
        /\ r.errors \in BOOLEAN /\ r.free \in BOOLEAN
    BY <1>1, <2>1 DEF RuleSet, BudgetPolicies
  <2> QED
    BY <2>2, <2>3 DEF RuleSet
<1> QED
  BY <1>2, <1>3, <1>4

(* Nobody pays yet and nothing is booked.                                  *)
LEMMA BudgetTypesStart ==
    ASSUME BudgetInit
    PROVE  BudgetTypes
<1>1. rule \in [Values -> RuleSet]
  BY DEF BudgetInit, Unruled, RuleSet
<1>2. DOMAIN overrides = {} /\ IsFiniteSet({}) /\ booked \in Seq(LedgerRows)
  BY FS_EmptySet, EmptySeq DEF BudgetInit
<1>3. paying = [c \in Payers |-> paying[c]] /\ \A c \in Payers : ~paying[c].active
  BY DEF BudgetInit, NoCall
<1> QED
  BY <1>1, <1>2, <1>3 DEF BudgetInit, BudgetTypes, RuleSet

(* Every step keeps the types of the controller.                           *)
LEMMA BudgetTypesStep ==
    ASSUME BudgetTypes, [BudgetNext]_budgetVars
    PROVE  BudgetTypes'
<1>a. /\ bNow \in Nat /\ restarts \in Nat /\ file \in BudgetFiles
      /\ DOMAIN overrides \subseteq Patterns /\ IsFiniteSet(DOMAIN overrides)
      /\ \A p \in DOMAIN overrides : overrides[p] \in BudgetPolicies
      /\ booked \in Seq(LedgerRows)
      /\ paying = [c \in Payers |-> paying[c]]
      /\ rule \in [Values -> RuleSet]
  BY DEF BudgetTypes, RuleSet
<1> DEFINE Held(call, who) == who \in Principals /\ call \in Calls
<1>b. \A c \in Payers : paying[c].active => Held(paying[c].call, paying[c].who)
  BY DEF BudgetTypes
<1>c. ASSUME bNow' = bNow, restarts' = restarts, file' = file, overrides' = overrides,
             booked' \in Seq(LedgerRows), paying' = [c \in Payers |-> paying'[c]],
             rule' \in [Values -> RuleSet],
             \A c \in Payers : paying'[c].active =>
                Held(paying'[c].call, paying'[c].who)
      PROVE  BudgetTypes'
  BY <1>a, <1>c DEF BudgetTypes, RuleSet
<1>1. ASSUME NEW c \in Payers, NEW who \in Principals, NEW call \in Calls, Admit(c, who, call)
      PROVE  BudgetTypes'
  <2>2. Ruled(who) \in [Values -> RuleSet]
    BY RuledType
  <2>3. /\ paying' = [paying EXCEPT ![c] =
              [who |-> who, call |-> call, projected |-> Project(call), active |-> TRUE]]
        /\ rule' = Ruled(who) /\ UNCHANGED <<bNow, file, overrides, booked, restarts>>
    BY <1>1 DEF Admit
  <2>4. paying'[c] = [who |-> who, call |-> call, projected |-> Project(call), active |-> TRUE]
        /\ \A d \in Payers \ {c} : paying'[d] = paying[d]
    BY <1>a, <2>3
  <2>5. paying' = [d \in Payers |-> paying'[d]]
    BY <1>a, <2>3
  <2>6. ASSUME NEW d \in Payers, paying'[d].active
        PROVE  Held(paying'[d].call, paying'[d].who)
    <3>1. CASE d = c
      BY <2>4, <3>1
    <3>2. CASE d # c
      BY <1>b, <2>4, <2>6, <3>2
    <3> QED
      BY <3>1, <3>2
  <2> QED
    BY <1>a, <1>c, <2>2, <2>3, <2>5, <2>6
<1>2. ASSUME NEW c \in Payers, NEW ok \in BOOLEAN, paying[c].active,
             NEW usage \in UsageOf(paying[c].call), Record(c, usage, ok)
      PROVE  BudgetTypes'
  <2> DEFINE row == [ts |-> bNow, who |-> paying[c].who, provider |-> paying[c].call.provider,
                     usd |-> CallUsd(paying[c].call, usage), ok |-> ok]
  <2>1. CallUsd(paying[c].call, usage) \in Nat
    BY <1>2, <1>b, UsageType
  <2>2. row \in LedgerRows
    BY <1>2, <1>a, <1>b, <2>1 DEF LedgerRows
  <2>3. booked' = Append(booked, row) /\ paying' = [paying EXCEPT ![c] = NoCall]
        /\ UNCHANGED <<bNow, file, overrides, rule, restarts>>
    BY <1>2 DEF Record
  <2> HIDE DEF row
  <2>4. booked' \in Seq(LedgerRows)
    BY <1>a, <2>2, <2>3, AppendProperties
  <2>5. ~paying'[c].active /\ \A d \in Payers \ {c} : paying'[d] = paying[d]
    BY <1>a, <2>3 DEF NoCall
  <2>6. paying' = [d \in Payers |-> paying'[d]]
    BY <1>a, <2>3
  <2> QED
    BY <1>a, <1>b, <1>c, <2>3, <2>4, <2>5, <2>6
<1>3. ASSUME NEW pattern \in Patterns, NEW limit \in Limits, SetLimit(pattern, limit)
      PROVE  BudgetTypes'
  <2>1. /\ overrides' = [p \in DOMAIN overrides \cup {pattern} |->
                            IF p = pattern THEN limit ELSE overrides[p]]
        /\ UNCHANGED <<bNow, file, booked, paying, rule, restarts>>
    BY <1>3 DEF SetLimit
  <2>2. limit \in BudgetPolicies
    BY BudgetAssumption
  <2>3. DOMAIN overrides' = DOMAIN overrides \cup {pattern}
    BY <2>1
  <2>4. IsFiniteSet(DOMAIN overrides') /\ DOMAIN overrides' \subseteq Patterns
    BY <1>a, <2>3, FS_AddElement
  <2>5. \A p \in DOMAIN overrides' : overrides'[p] \in BudgetPolicies
    BY <1>a, <2>1, <2>2
  <2> QED
    BY <1>a, <1>b, <2>1, <2>4, <2>5 DEF BudgetTypes, RuleSet
<1>4. ASSUME NEW pattern \in Patterns, ClearLimit(pattern)
      PROVE  BudgetTypes'
  <2>1. /\ overrides' = [p \in DOMAIN overrides \ {pattern} |-> overrides[p]]
        /\ UNCHANGED <<bNow, file, booked, paying, rule, restarts>>
    BY <1>4 DEF ClearLimit
  <2>2. DOMAIN overrides' = DOMAIN overrides \ {pattern}
    BY <2>1
  <2>3. IsFiniteSet(DOMAIN overrides') /\ DOMAIN overrides' \subseteq Patterns
    BY <1>a, <2>2, FS_RemoveElement
  <2>4. \A p \in DOMAIN overrides' : overrides'[p] \in BudgetPolicies
    BY <1>a, <2>1
  <2> QED
    BY <1>a, <1>b, <2>1, <2>3, <2>4 DEF BudgetTypes, RuleSet
<1>5. ASSUME NEW f \in BudgetFiles, Restart(f)
      PROVE  BudgetTypes'
  <2>1. /\ restarts' = restarts + 1 /\ file' = f /\ paying' = [p \in Payers |-> NoCall]
        /\ UNCHANGED <<bNow, overrides, booked, rule>>
    BY <1>5 DEF Restart
  <2>2. \A c \in Payers : ~paying'[c].active
    BY <2>1 DEF NoCall
  <2>3. paying' = [c \in Payers |-> paying'[c]]
    BY <2>1
  <2> QED
    BY <1>a, <2>1, <2>2, <2>3 DEF BudgetTypes, RuleSet
<1>6. CASE BudgetTick
  <2>1. bNow' = bNow + 1 /\ UNCHANGED <<file, overrides, booked, paying, rule, restarts>>
    BY <1>6 DEF BudgetTick
  <2> QED
    BY <1>a, <1>b, <2>1 DEF BudgetTypes, RuleSet
<1>7. CASE UNCHANGED budgetVars
  <2>1. UNCHANGED <<bNow, file, overrides, booked, paying, rule, restarts>>
    BY <1>7 DEF budgetVars
  <2> QED
    BY <1>a, <1>b, <2>1 DEF BudgetTypes, RuleSet
<1> QED
  BY <1>1, <1>2, <1>3, <1>4, <1>5, <1>6, <1>7 DEF BudgetNext

(* Every call in flight is covered by its projection.                      *)
LEMMA CoveredStep ==
    ASSUME \A f \in BudgetFiles : ~f.ratio /\ f.safety >= 100,
           BudgetTypes, Covered, [BudgetNext]_budgetVars
    PROVE  Covered'
<1>1. ASSUME NEW c \in Payers, NEW who \in Principals, NEW call \in Calls, Admit(c, who, call)
      PROVE  Covered'
  <2>1. Project(call) \in Nat /\ CallUsd(call, Full(call)) <= Project(call)
    BY ProjectsFull DEF BudgetTypes
  <2>2. paying' = [paying EXCEPT ![c] =
              [who |-> who, call |-> call, projected |-> Project(call), active |-> TRUE]]
    BY <1>1 DEF Admit
  <2>3. paying'[c] = [who |-> who, call |-> call, projected |-> Project(call), active |-> TRUE]
        /\ \A d \in Payers \ {c} : paying'[d] = paying[d]
    BY <2>2 DEF BudgetTypes
  <2> QED
    BY <2>1, <2>3 DEF Covered
<1>2. ASSUME NEW c \in Payers, NEW usage, NEW ok, Record(c, usage, ok)
      PROVE  Covered'
  <2>1. paying' = [paying EXCEPT ![c] = NoCall]
    BY <1>2 DEF Record
  <2>2. ~paying'[c].active /\ \A d \in Payers \ {c} : paying'[d] = paying[d]
    BY <2>1 DEF BudgetTypes, NoCall
  <2> QED
    BY <2>2 DEF Covered
<1>3. ASSUME NEW f, Restart(f) PROVE Covered'
  BY <1>3 DEF Restart, Covered, NoCall
<1>4. ASSUME paying' = paying PROVE Covered'
  BY <1>4 DEF Covered
<1> QED
  BY <1>1, <1>2, <1>3, <1>4
     DEF BudgetNext, SetLimit, ClearLimit, BudgetTick, budgetVars

(* Every step keeps room for the calls in flight.                          *)
LEMMA SpendStep ==
    ASSUME IsFiniteSet(Payers), IsFiniteSet(Calls), Calls # {},
           \A f \in BudgetFiles : ~f.ratio /\ f.safety >= 100,
           BudgetTypes, Covered, SpendInv, [BudgetNext]_budgetVars
    PROVE  SpendInv'
<1>a. /\ bNow \in Nat /\ booked \in Seq(LedgerRows)
      /\ paying = [c \in Payers |-> paying[c]]
      /\ \A v \in Values : /\ rule[v].usd \in Nat /\ rule[v].errors \in BOOLEAN
                           /\ rule[v].periods \in SUBSET DOMAIN PeriodLength
      /\ \A c \in Payers : paying[c].active =>
            /\ paying[c].call \in Calls /\ paying[c].projected \in Nat
            /\ paying[c].who \in Principals
            /\ CallUsd(paying[c].call, Full(paying[c].call)) <= paying[c].projected
  BY DEF BudgetTypes, Covered
<1>b. Dearest \in Nat /\ Excess \in Nat
  BY Bounds
<1>c. \A v \in Values : /\ Flying(v) \in SUBSET Payers
                        /\ \A c \in Flying(v) : paying[c].projected \in Nat
  BY <1>a DEF Flying
<1> DEFINE SpendNow(v, period) ==
             SpendIn(booked, v, PeriodStart(period, bNow), rule[v].errors)
           Ruling(v, period) == rule[v].periods = {period} /\ ~rule[v].free
<1>d. ASSUME NEW v \in Values, NEW period \in rule[v].periods
      PROVE  /\ period \in DOMAIN PeriodLength
             /\ PeriodStart(period, bNow) \in Nat
             /\ SpendNow(v, period) \in Nat
  <2>1. period \in DOMAIN PeriodLength
    BY <1>a
  <2>2. PeriodStart(period, bNow) \in Nat
    BY <1>a, <2>1, PeriodStarts
  <2> QED
    BY <1>a, <2>1, <2>2, SpendParts
<1>e. ASSUME NEW v \in Values, NEW period \in rule[v].periods, Ruling(v, period)
      PROVE  Room(SpendNow(v, period), Flying(v), paying, rule[v].usd)
  BY <1>e DEF SpendInv
<1>f. ASSUME rule' = rule, booked' = booked, bNow' = bNow, paying' = paying
      PROVE  SpendInv'
  BY <1>f, <1>e DEF SpendInv, Flying
<1>1. ASSUME NEW c \in Payers, NEW who \in Principals, NEW call \in Calls, Admit(c, who, call)
      PROVE  SpendInv'
  <2>1. /\ paying' = [paying EXCEPT ![c] =
              [who |-> who, call |-> call, projected |-> Project(call), active |-> TRUE]]
        /\ rule' = Ruled(who) /\ booked' = booked /\ bNow' = bNow /\ ~paying[c].active
    BY <1>1 DEF Admit
  <2>2. paying'[c] = [who |-> who, call |-> call, projected |-> Project(call), active |-> TRUE]
        /\ \A d \in Payers \ {c} : paying'[d] = paying[d]
    BY <1>a, <2>1
  <2>3. Project(call) \in Nat
    BY ProjectsFull DEF BudgetTypes
  <2> SUFFICES ASSUME NEW v \in Values, NEW period \in rule'[v].periods,
                      rule'[v].periods = {period}, ~rule'[v].free
               PROVE  Room(SpendIn(booked', v, PeriodStart(period, bNow'), rule'[v].errors),
                           Flying(v)', paying', rule'[v].usd)
    BY DEF SpendInv
  <2>4. CASE v \notin who
    <3>1. rule'[v] = rule[v]
      BY <2>1, <2>4 DEF Ruled
    <3>2. Flying(v)' = Flying(v) /\ \A d \in Flying(v) : paying'[d] = paying[d]
      BY <1>a, <2>1, <2>2, <2>4 DEF Flying
    <3>3. Room(SpendNow(v, period), Flying(v), paying, rule[v].usd)
      BY <1>e, <3>1
    <3>4. Room(SpendNow(v, period), Flying(v), paying', rule[v].usd)
      BY <3>2, <3>3 DEF Room
    <3> QED
      BY <2>1, <3>1, <3>2, <3>4
  <2>5. CASE v \in who
    <3> DEFINE p == PolicyFor(v)
               r == rule[v]
    <3>1. file.enabled /\ Matching(v) # {}
      BY <2>1, <2>5 DEF Ruled
    <3>2. rule'[v] =
            [usd |-> IF p.usd > r.usd THEN p.usd ELSE r.usd,
             periods |-> r.periods \cup {p.period},
             errors |-> r.errors /\ p.errors, free |-> r.free]
      BY <2>1, <2>5, <3>1 DEF Ruled
    <3>3. p.usd \in Nat /\ p.period \in DOMAIN PeriodLength /\ p.errors \in BOOLEAN
      BY <3>1, PolicyIsOne DEF BudgetPolicies
    <3>4. v \in Governed(who)
      BY <2>5, <3>1 DEF Governed
    <3>5. Spent(v) + Project(call) <= p.usd
      <4>1. WithinBudget(who, Project(call))
        BY <1>1, <3>1, <3>4 DEF Admit
      <4> QED
        BY <3>4, <4>1 DEF WithinBudget
    <3>6. r.usd \in Nat /\ r.errors \in BOOLEAN
      BY <1>a
    <3>7. Spent(v) = SpendUsd(v, PeriodStart(p.period, bNow), p.errors)
      BY DEF Spent
    <3> HIDE DEF p, r
    <3>8. /\ period = p.period /\ rule'[v].usd \in Nat /\ p.usd <= rule'[v].usd
          /\ rule'[v].errors \in BOOLEAN /\ (rule'[v].errors => p.errors)
      BY <3>2, <3>3, <3>6
    <3> DEFINE since == PeriodStart(period, bNow)
               spend == SpendIn(booked, v, since, rule'[v].errors)
               full == SpendIn(booked, v, since, p.errors)
    <3>9. since \in Nat
      BY <1>a, <3>3, <3>8, PeriodStarts
    <3> HIDE DEF since
    <3>10. Spent(v) = full
      BY <1>a, <3>7, <3>8, <3>9, SpendUsdIs DEF since
    <3>11. spend \in Nat /\ full \in Nat
      BY <1>a, <3>9, SpendParts
    <3>12. spend <= full
      BY <1>a, <3>3, <3>8, <3>9, SpendLess
    <3> HIDE DEF spend, full
    <3>13. spend + Project(call) <= rule'[v].usd
      BY <2>3, <3>3, <3>5, <3>8, <3>10, <3>11, <3>12
    <3>14. Flying(v)' \in SUBSET Payers /\ c \in Flying(v)'
      BY <2>2, <2>5 DEF Flying
    <3>15. paying'[c].projected = Project(call)
      BY <2>2
    <3>16. Room(spend, Flying(v)', paying', rule'[v].usd)
      BY <1>b, <2>3, <3>8, <3>11, <3>13, <3>14, <3>15, RoomAdmitted
    <3> QED
      BY <2>1, <3>16 DEF spend, since
  <2> QED
    BY <2>4, <2>5
<1>2. ASSUME NEW c \in Payers, NEW ok \in BOOLEAN, paying[c].active,
             NEW usage \in UsageOf(paying[c].call), Record(c, usage, ok)
      PROVE  SpendInv'
  <2> DEFINE cost == CallUsd(paying[c].call, usage)
             row == [ts |-> bNow, who |-> paying[c].who, provider |-> paying[c].call.provider,
                     usd |-> cost, ok |-> ok]
  <2>1. cost \in Nat /\ cost <= Dearest /\ cost <= paying[c].projected + Excess
    <3> DEFINE full == CallUsd(paying[c].call, Full(paying[c].call))
    <3>1. cost \in Nat /\ full \in Nat /\ cost <= Dearest /\ cost <= full + Excess
      BY <1>2, <1>a, Bounds
    <3>2. full <= paying[c].projected /\ paying[c].projected \in Nat
      BY <1>2, <1>a
    <3> HIDE DEF full, cost
    <3> QED
      BY <1>b, <3>1, <3>2
  <2>2. row \in LedgerRows /\ row.usd = cost /\ row.who = paying[c].who
    BY <1>2, <1>a, <2>1 DEF LedgerRows
  <2>3. booked' = Append(booked, row) /\ paying' = [paying EXCEPT ![c] = NoCall]
        /\ bNow' = bNow /\ rule' = rule
    BY <1>2 DEF Record
  <2> HIDE DEF row, cost
  <2>4. ~paying'[c].active /\ \A d \in Payers \ {c} : paying'[d] = paying[d]
    BY <1>a, <2>3 DEF NoCall
  <2> SUFFICES ASSUME NEW v \in Values, NEW period \in rule[v].periods, Ruling(v, period)
               PROVE  Room(SpendIn(booked', v, PeriodStart(period, bNow), rule[v].errors),
                           Flying(v)', paying', rule[v].usd)
    BY <2>3 DEF SpendInv
  <2> DEFINE since == PeriodStart(period, bNow)
             spend == SpendIn(booked, v, since, rule[v].errors)
             more == SpendIn(booked', v, since, rule[v].errors)
  <2>5. since \in Nat /\ spend \in Nat /\ rule[v].errors \in BOOLEAN /\ rule[v].usd \in Nat
    BY <1>a, <1>d
  <2>6. Room(spend, Flying(v), paying, rule[v].usd)
    BY <1>e
  <2> HIDE DEF since
  <2>7. /\ more <= spend + row.usd /\ booked' \in Seq(LedgerRows)
        /\ v \notin row.who => more = spend
    <3> DEFINE e == rule[v].errors
               longer == Append(booked, row)
    <3>1. e \in BOOLEAN
      BY <2>5
    <3> HIDE DEF e
    <3>2. /\ longer \in Seq(LedgerRows)
          /\ SpendIn(longer, v, since, e) <= SpendIn(booked, v, since, e) + row.usd
          /\ v \notin row.who => SpendIn(longer, v, since, e) = SpendIn(booked, v, since, e)
      <4>1. booked \in Seq(LedgerRows) /\ row \in LedgerRows /\ since \in Nat
        BY <1>a, <2>2, <2>5
      <4>2. /\ Append(booked, row) \in Seq(LedgerRows)
            /\ SpendIn(Append(booked, row), v, since, e)
                 <= SpendIn(booked, v, since, e) + row.usd
            /\ v \notin row.who => SpendIn(Append(booked, row), v, since, e)
                                   = SpendIn(booked, v, since, e)
        BY <4>1, <3>1, SpendMore
      <4> QED
        BY <4>2
    <3> QED
      BY <2>3, <3>2 DEF e
  <2>8. more \in Nat
    BY <2>5, <2>7, SpendParts
  <2> HIDE DEF spend, more
  <2>9. CASE v \notin paying[c].who
    <3>1. more = spend /\ Flying(v)' = Flying(v) /\ \A d \in Flying(v) : paying'[d] = paying[d]
      BY <2>2, <2>4, <2>7, <2>9 DEF Flying
    <3>2. Room(spend, Flying(v), paying', rule[v].usd)
      BY <2>6, <3>1 DEF Room
    <3> QED
      BY <3>1, <3>2 DEF more, since
  <2>10. CASE v \in paying[c].who
    <3>1. Flying(v)' = Flying(v) \ {c} /\ c \in Flying(v)
          /\ \A d \in Flying(v) \ {c} : paying'[d] = paying[d]
      BY <1>2, <2>4, <2>10 DEF Flying
    <3>2. more <= spend + cost
      BY <2>2, <2>7
    <3>3. Room(more, Flying(v) \ {c}, paying', rule[v].usd)
      BY <1>b, <1>c, <2>1, <2>5, <2>6, <2>8, <3>1, <3>2, RoomBooked
    <3> QED
      BY <3>1, <3>3 DEF more, since
  <2> QED
    BY <2>9, <2>10
<1>3. ASSUME NEW pattern \in Patterns, NEW limit \in Limits, SetLimit(pattern, limit)
      PROVE  SpendInv'
  BY <1>3, <1>f DEF SetLimit
<1>4. ASSUME NEW pattern \in Patterns, ClearLimit(pattern)
      PROVE  SpendInv'
  BY <1>4, <1>f DEF ClearLimit
<1>5. ASSUME NEW f \in BudgetFiles, Restart(f)
      PROVE  SpendInv'
  <2>1. paying' = [p \in Payers |-> NoCall] /\ UNCHANGED <<bNow, booked, rule>>
    BY <1>5 DEF Restart
  <2>2. \A v \in Values : Flying(v)' = {}
    BY <2>1 DEF Flying, NoCall
  <2>3. ASSUME NEW v \in Values, NEW period \in rule[v].periods, Ruling(v, period)
        PROVE  Room(SpendNow(v, period), {}, paying', rule[v].usd)
    <3> DEFINE spend == SpendNow(v, period)
    <3>1. spend \in Nat /\ rule[v].usd \in Nat
      BY <1>a, <1>d
    <3>2. Room(spend, Flying(v), paying, rule[v].usd)
      BY <1>e, <2>3
    <3> HIDE DEF spend
    <3>3. spend <= rule[v].usd + Excess + Others
      BY <1>b, <1>c, <3>1, <3>2, RoomSpent
    <3>4. spend + Cardinality({}) * Dearest = spend
      <4>1. Cardinality({}) = 0
        BY FS_EmptySet
      <4> QED
        BY <1>b, <3>1, <4>1
    <3> QED
      BY <3>3, <3>4 DEF Room, spend
  <2> QED
    BY <2>1, <2>2, <2>3 DEF SpendInv
<1>6. CASE BudgetTick
  <2>1. bNow' = bNow + 1 /\ booked' = booked /\ paying' = paying /\ rule' = rule
    BY <1>6 DEF BudgetTick
  <2>2. ASSUME NEW v \in Values, NEW period \in rule[v].periods, Ruling(v, period)
        PROVE  Room(SpendIn(booked, v, PeriodStart(period, bNow + 1), rule[v].errors),
                    Flying(v), paying, rule[v].usd)
    <3> DEFINE spend == SpendNow(v, period)
               since == PeriodStart(period, bNow)
               later == PeriodStart(period, bNow + 1)
               less == SpendIn(booked, v, later, rule[v].errors)
    <3>1. spend \in Nat /\ rule[v].usd \in Nat /\ rule[v].errors \in BOOLEAN
      BY <1>a, <1>d
    <3>2. Room(spend, Flying(v), paying, rule[v].usd)
      BY <1>e, <2>2
    <3>3. since \in Nat /\ later \in Nat /\ since <= later
      <4>1. bNow + 1 \in Nat /\ period \in DOMAIN PeriodLength
        BY <1>a
      <4> QED
        BY <1>a, <4>1, PeriodStarts
    <3> HIDE DEF since, later
    <3>4. less <= spend /\ less \in Nat
      <4>1. spend = SpendIn(booked, v, since, rule[v].errors)
        BY DEF since
      <4> QED
        BY <1>a, <3>1, <3>3, <4>1, SpendLess, SpendParts
    <3> HIDE DEF spend, less
    <3>5. Room(less, Flying(v), paying, rule[v].usd)
      BY <1>b, <1>c, <3>1, <3>2, <3>4, RoomLess
    <3> QED
      BY <3>5 DEF less, later
  <2>3. \A v \in Values : Flying(v)' = Flying(v)
    BY <2>1 DEF Flying
  <2> QED
    BY <2>1, <2>2, <2>3 DEF SpendInv
<1>7. CASE UNCHANGED budgetVars
  BY <1>7, <1>f DEF budgetVars
<1> QED
  BY <1>1, <1>2, <1>3, <1>4, <1>5, <1>6, <1>7 DEF BudgetNext

(* For any principals, policies, limits posted meanwhile, periods and      *)
(* restarts, and any finite number of concurrent requests of finitely many *)
(* kinds, when projections are made for the worst case (the default mode,  *)
(* with a safety factor of at least one): what a governed principal spends *)
(* in a period exceeds its greatest limit by no more than one call's       *)
(* excess and the other calls in flight.                                   *)
THEOREM SpendAlwaysBounded ==
    ASSUME IsFiniteSet(Payers), IsFiniteSet(Calls), Calls # {},
           \A f \in BudgetFiles : ~f.ratio /\ f.safety >= 100
    PROVE  BudgetSpec => []SpendBounded
<1>1. BudgetInit => BudgetTypes /\ Covered /\ SpendInv
  <2> SUFFICES ASSUME BudgetInit PROVE BudgetTypes /\ Covered /\ SpendInv
    OBVIOUS
  <2>1. \A v \in Values : rule[v] = Unruled /\ rule[v].periods = {}
    BY DEF BudgetInit, Unruled
  <2>2. \A c \in Payers : ~paying[c].active
    BY DEF BudgetInit, NoCall
  <2>3. BudgetTypes
    BY BudgetTypesStart
  <2> QED
    BY <2>1, <2>2, <2>3 DEF SpendInv, Covered
<1>2. BudgetTypes /\ Covered /\ SpendInv /\ [BudgetNext]_budgetVars
        => BudgetTypes' /\ Covered' /\ SpendInv'
  BY BudgetTypesStep, CoveredStep, SpendStep
<1>3. BudgetTypes /\ Covered /\ SpendInv => SpendBounded
  <2> SUFFICES ASSUME BudgetTypes, Covered, SpendInv, NEW v \in Values, NEW period \in rule[v].periods,
                      rule[v].periods = {period}, ~rule[v].free
               PROVE  SpendUsd(v, PeriodStart(period, bNow), rule[v].errors)
                        <= rule[v].usd + Excess + (Cardinality(Payers) - 1) * Dearest
    BY DEF SpendBounded
  <2> DEFINE since == PeriodStart(period, bNow)
             spend == SpendIn(booked, v, since, rule[v].errors)
  <2>1. /\ bNow \in Nat /\ booked \in Seq(LedgerRows) /\ rule[v].usd \in Nat
        /\ period \in DOMAIN PeriodLength
        /\ Flying(v) \in SUBSET Payers /\ \A c \in Flying(v) : paying[c].projected \in Nat
    BY DEF BudgetTypes, Covered, Flying
  <2>2. since \in Nat
    BY <2>1, PeriodStarts
  <2>3. Room(spend, Flying(v), paying, rule[v].usd)
    BY DEF SpendInv
  <2> HIDE DEF since
  <2>4. spend \in Nat /\ SpendUsd(v, since, rule[v].errors) = spend
    BY <2>1, <2>2, SpendParts, SpendUsdIs
  <2> HIDE DEF spend
  <2>5. spend <= rule[v].usd + Excess + Others
    BY <2>1, <2>3, <2>4, Bounds, RoomSpent
  <2> QED
    BY <2>4, <2>5 DEF Others, since
<1> QED
  BY <1>1, <1>2, <1>3, PTL DEF BudgetSpec

(* For any principals, policies and files: a posted limit binds every      *)
(* value for which nothing more specific exists, and only a DELETE takes   *)
(* it away, no restart.                                                    *)
THEOREM PostedLimitsAlwaysBind == BudgetSpec => PostedLimitsBind
<1> DEFINE Binds ==
             \A p \in DOMAIN overrides, c \in Payers :
                /\ ~paying[c].active /\ paying'[c].active /\ file.enabled
                => \A v \in Governs[p] \cap paying'[c].who :
                      \/ \E q \in (DOMAIN overrides \cup DOMAIN file.policies) \ {p} :
                            v \in Governs[q] /\ Specificity[q] >= Specificity[p]
                      \/ SpendUsd(v, PeriodStart(overrides[p].period, bNow), overrides[p].errors)
                            + paying'[c].projected <= overrides[p].usd
           Survive ==
             \A p \in DOMAIN overrides :
                p \notin DOMAIN overrides' => restarts' = restarts /\ paying' = paying
<1>1. BudgetInit => BudgetTypes
  BY BudgetTypesStart
<1>2. BudgetTypes /\ [BudgetNext]_budgetVars => BudgetTypes'
  BY BudgetTypesStep
<1>3. BudgetTypes /\ [BudgetNext]_budgetVars => [Binds]_budgetVars
  <2> SUFFICES ASSUME BudgetTypes, BudgetNext, NEW p \in DOMAIN overrides, NEW c \in Payers,
                      ~paying[c].active, paying'[c].active, file.enabled,
                      NEW v \in Governs[p] \cap paying'[c].who,
                      \A q \in (DOMAIN overrides \cup DOMAIN file.policies) \ {p} :
                         ~(v \in Governs[q] /\ Specificity[q] >= Specificity[p])
               PROVE  SpendUsd(v, PeriodStart(overrides[p].period, bNow), overrides[p].errors)
                         + paying'[c].projected <= overrides[p].usd
    OBVIOUS
  <2>1. PICK who \in Principals, call \in Calls : Admit(c, who, call)
    <3>1. paying = [d \in Payers |-> paying[d]]
      BY DEF BudgetTypes
    <3>2. ASSUME NEW d \in Payers, NEW w \in Principals, NEW k \in Calls, Admit(d, w, k)
          PROVE  c = d
      BY <3>1, <3>2 DEF Admit
    <3>3. ASSUME NEW d \in Payers, NEW usage, NEW ok, Record(d, usage, ok)
          PROVE  ~paying'[c].active
      BY <3>1, <3>3 DEF Record, NoCall
    <3>4. ASSUME NEW f, Restart(f) PROVE ~paying'[c].active
      BY <3>4 DEF Restart, NoCall
    <3>5. paying' # paying
      OBVIOUS
    <3>6. PICK d \in Payers, w \in Principals, k \in Calls : Admit(d, w, k)
      BY <3>3, <3>4, <3>5 DEF BudgetNext, SetLimit, ClearLimit, BudgetTick
    <3>7. Admit(c, w, k)
      BY <3>2, <3>6
    <3> QED
      BY <3>7
  <2>2. /\ paying'[c].who = who /\ paying'[c].projected = Project(call)
    <3>1. paying = [d \in Payers |-> paying[d]]
      BY DEF BudgetTypes
    <3> QED
      BY <2>1, <3>1 DEF Admit
  <2>3. DOMAIN Policies = DOMAIN file.policies \cup DOMAIN overrides /\ Policies[p] = overrides[p]
    BY DEF Policies
  <2>4. p \in Matching(v) /\ v \in Governed(who)
    BY <2>2, <2>3 DEF Matching, Governed
  <2>5. Spent(v) + Project(call) <= PolicyFor(v).usd
    BY <2>1, <2>4 DEF Admit, WithinBudget
  <2>6. \A q \in Matching(v) : Specificity[q] \in Nat
    BY <2>3, BudgetAssumption DEF Matching, BudgetTypes
  <2>7. \A q \in Matching(v) \ {p} : ~(Specificity[p] <= Specificity[q]) /\ Specificity[q] <= Specificity[p]
    BY <2>3, <2>4, <2>6 DEF Matching
  <2>8. {b \in Matching(v) : \A q \in Matching(v) : Specificity[q] <= Specificity[b]} = {p}
    BY <2>4, <2>6, <2>7
  <2>9. PolicyFor(v) = overrides[p]
    BY <2>3, <2>8 DEF PolicyFor
  <2> QED
    BY <2>2, <2>5, <2>9 DEF Spent
<1>4. BudgetTypes /\ [BudgetNext]_budgetVars => [Survive]_budgetVars
  <2> SUFFICES ASSUME BudgetNext, NEW p \in DOMAIN overrides, p \notin DOMAIN overrides'
               PROVE  restarts' = restarts /\ paying' = paying
    OBVIOUS
  <2>1. ASSUME NEW q \in Patterns, NEW limit \in Limits, SetLimit(q, limit) PROVE FALSE
    BY <2>1 DEF SetLimit
  <2> QED
    BY <2>1 DEF BudgetNext, Admit, Record, ClearLimit, Restart, BudgetTick
<1>5. BudgetSpec => [][Binds]_budgetVars /\ [][Survive]_budgetVars
  <2> HIDE DEF Binds, Survive
  <2> QED
    BY <1>1, <1>2, <1>3, <1>4, PTL DEF BudgetSpec
<1> QED
  BY <1>5 DEF PostedLimitsBind, PostedLimitHolds, LimitsSurvive

-----------------------------------------------------------------------------
(* The semantic cache.                                                     *)

CacheRows ==
    [id: Nat, created_at: Nat, q: Questions, space: Spaces, hits: Nat, answered: Questions]

HitCount == [r \in CacheRows |-> r.hits]

(* An answer is stored under the question it answers.                      *)
TableInv ==
    /\ cNow \in Nat /\ nextId \in Nat \ {0} /\ cCrashes \in Nat
    /\ entries \in SUBSET CacheRows /\ IsFiniteSet(entries)
    /\ \A r \in entries : r.answered = r.q /\ r.id < nextId /\ r.created_at <= cNow
    /\ asking \in [CacheCallers -> Asks]

CountInv ==
    /\ cStats \in [StatNames -> Nat]
    /\ cStats["hits"] + cStats["misses"] <= cStats["lookups"]
    /\ cStats["lookups"] <= cStats["hits"] + cStats["misses"] + cCrashes
    /\ cStats["tokens_saved"] = Tokens * cStats["hits"]
    /\ Total(HitCount, entries) <= cStats["hits"] + cCrashes
    /\ nextId - 1 <= cStats["stores"] + cCrashes

CacheInv == TableInv /\ CountInv /\ NoLeakNoDrift /\ CapHeld

(* The hits of finitely many rows are a sum of natural numbers.            *)
LEMMA HitsType ==
    ASSUME NEW E \in SUBSET CacheRows, IsFiniteSet(E)
    PROVE  /\ \A r \in E : HitCount[r] \in Nat /\ HitCount[r] = r.hits
           /\ Total(HitCount, E) \in Nat
           /\ Cardinality(E) \in Nat
           /\ \A D \in SUBSET E : /\ IsFiniteSet(D) /\ Cardinality(D) \in Nat
                                  /\ Cardinality(D) <= Cardinality(E)
                                  /\ Total(HitCount, D) \in Nat
                                  /\ Total(HitCount, D) <= Total(HitCount, E)
<1>1. \A r \in E : HitCount[r] \in Nat /\ HitCount[r] = r.hits
  BY DEF HitCount, CacheRows
<1>2. \A r \in E : HitCount[r] \in Nat
  BY <1>1
<1>3. /\ Total(HitCount, E) \in Nat
      /\ \A D \in SUBSET E : /\ Total(HitCount, D) \in Nat
                             /\ Total(HitCount, D) <= Total(HitCount, E)
  BY <1>2, TotalLaws
<1>4. \A D \in SUBSET E : /\ IsFiniteSet(D) /\ Cardinality(D) \in Nat
                          /\ Cardinality(D) <= Cardinality(E)
  BY FS_Subset, FS_CardinalityType
<1> QED
  BY <1>1, <1>3, <1>4, FS_CardinalityType

(* The table's own sum is this one.                                        *)
LEMMA HitsAre ==
    ASSUME NEW E \in SUBSET CacheRows, IsFiniteSet(E)
    PROVE  MapThenSumSet(LAMBDA r : r.hits, E) = Total(HitCount, E)
<1> DEFINE f == HitCount
           Adds(g) == g = [T \in SUBSET E |->
                    IF T = {} THEN 0
                    ELSE LET x == CHOOSE x \in T : TRUE IN x.hits + g[T \ {x}]]
           up == CHOOSE g : Adds(g)
<1>1. MapThenSumSet(LAMBDA r : r.hits, E) = up[E]
  BY DEF MapThenSumSet, MapThenFoldSet
<1>2. \A r \in E : f[r] \in Nat /\ f[r] = r.hits
  BY HitsType
<1> HIDE DEF f
<1>3. \A r \in E : f[r] \in Nat
  BY <1>2
<1>4. PICK g : Summed(g, f, E)
  BY <1>3, SummedExists
<1>5. \A h : Summed(h, f, E) <=> Adds(h)
  <2> SUFFICES ASSUME NEW h, NEW T \in SUBSET E
               PROVE  (IF T = {} THEN 0 ELSE f[FirstOf(T)] + h[T \ {FirstOf(T)}])
                      = IF T = {} THEN 0
                        ELSE LET x == CHOOSE x \in T : TRUE IN x.hits + h[T \ {x}]
    BY DEF Summed
  <2>1. T # {} => FirstOf(T) \in E
    BY DEF FirstOf
  <2> QED
    BY <1>2, <2>1 DEF FirstOf
<1>6. Summed(up, f, E)
  <2>1. Adds(up)
    <3>1. Adds(g)
      BY <1>4, <1>5
    <3> HIDE DEF Adds
    <3> QED
      BY <3>1
  <2> HIDE DEF up
  <2> QED
    BY <1>5, <2>1
<1> HIDE DEF up
<1>7. Total(f, E) = up[E]
  <2>1. E \in SUBSET E
    OBVIOUS
  <2> QED
    BY <1>3, <1>6, <2>1, TotalIs
<1> QED
  BY <1>1, <1>7 DEF f

(* One row more, without hits.                                             *)
LEMMA HitsOfNewRow ==
    ASSUME NEW E \in SUBSET CacheRows, IsFiniteSet(E), NEW r \in CacheRows, r.hits = 0
    PROVE  /\ IsFiniteSet(E \cup {r}) /\ E \cup {r} \in SUBSET CacheRows
           /\ Total(HitCount, E \cup {r}) = Total(HitCount, E)
<1> DEFINE D == E \cup {r}
<1>1. IsFiniteSet(D) /\ D \in SUBSET CacheRows
  BY FS_AddElement
<1>2. CASE r \in E
  <2>1. D = E
    BY <1>2
  <2> QED
    BY <1>1, <2>1
<1>3. CASE r \notin E
  <2>1. D \ {r} = E /\ r \in D
    BY <1>3
  <2> HIDE DEF D
  <2>2. \A x \in D : HitCount[x] \in Nat
    BY <1>1, HitsType
  <2>3. Total(HitCount, D) = HitCount[r] + Total(HitCount, D \ {r})
    BY <1>1, <2>1, <2>2, TotalLaws
  <2>4. HitCount[r] = 0 /\ Total(HitCount, E) \in Nat
    BY HitsType DEF HitCount
  <2>5. Total(HitCount, D) = Total(HitCount, E)
    BY <2>1, <2>3, <2>4
  <2> QED
    BY <1>1, <2>5 DEF D
<1> QED
  BY <1>2, <1>3

(* One hit more on a row of the table.                                     *)
LEMMA HitsOfHit ==
    ASSUME NEW E \in SUBSET CacheRows, IsFiniteSet(E), NEW r \in E
    PROVE  LET after == (E \ {r}) \cup {[r EXCEPT !.hits = @ + 1]}
           IN  /\ after \in SUBSET CacheRows /\ IsFiniteSet(after)
               /\ Cardinality(after) <= Cardinality(E)
               /\ Total(HitCount, after) <= Total(HitCount, E) + 1
<1> DEFINE s == [r EXCEPT !.hits = @ + 1]
           D == E \ {r}
           A == D \cup {s}
<1>1. s \in CacheRows /\ s.hits = r.hits + 1 /\ r.hits \in Nat
  BY DEF CacheRows
<1>2. D \in SUBSET E /\ IsFiniteSet(D) /\ Cardinality(D) = Cardinality(E) - 1
      /\ Cardinality(D) \in Nat /\ Cardinality(E) \in Nat
  BY FS_RemoveElement, FS_CardinalityType
<1>3. \A x \in E : HitCount[x] \in Nat /\ HitCount[x] = x.hits
  BY HitsType
<1>4. Total(HitCount, E) = r.hits + Total(HitCount, D)
  <2>1. \A x \in E : HitCount[x] \in Nat
    BY <1>3
  <2>2. Total(HitCount, E) = HitCount[r] + Total(HitCount, E \ {r})
    BY <2>1, TotalLaws
  <2> QED
    BY <1>3, <2>2
<1>5. Total(HitCount, D) \in Nat
  BY <1>2, HitsType
<1> HIDE DEF s, D
<1>6. IsFiniteSet(A) /\ A \in SUBSET CacheRows /\ Cardinality(A) <= Cardinality(E)
  <2>1. IsFiniteSet(A) /\ Cardinality(A) = IF s \in D THEN Cardinality(D) ELSE Cardinality(D) + 1
    BY <1>2, FS_AddElement
  <2>2. Cardinality(A) <= Cardinality(E)
    BY <1>2, <2>1
  <2>3. A \in SUBSET CacheRows
    BY <1>1, <1>2
  <2> QED
    BY <2>1, <2>2, <2>3
<1> DEFINE e == Total(HitCount, E)
           t == Total(HitCount, D)
           h == r.hits
<1>a. e = h + t /\ t \in Nat /\ h \in Nat /\ s.hits = h + 1
  BY <1>1, <1>4, <1>5
<1> HIDE DEF e, t, h
<1>7. Total(HitCount, A) <= Total(HitCount, E) + 1
  <2>1. CASE s \in D
    <3>1. A = D
      BY <2>1
    <3>2. t <= e + 1
      BY <1>a
    <3> QED
      BY <3>1, <3>2 DEF t, e
  <2>2. CASE s \notin D
    <3>1. A \ {s} = D /\ s \in A
      BY <2>2
    <3> HIDE DEF A
    <3>2. \A x \in A : HitCount[x] \in Nat
      BY <1>6, HitsType
    <3>3. Total(HitCount, A) = HitCount[s] + Total(HitCount, A \ {s})
      BY <1>6, <3>1, <3>2, TotalLaws
    <3>4. HitCount[s] = s.hits
      BY <1>1 DEF HitCount
    <3>5. Total(HitCount, A) = (h + 1) + t
      BY <1>a, <3>1, <3>3, <3>4 DEF t
    <3>6. Total(HitCount, A) <= e + 1
      BY <1>a, <3>5
    <3> QED
      BY <3>6 DEF e
  <2> QED
    BY <2>1, <2>2
<1> QED
  BY <1>6, <1>7 DEF A, s, D

(* What a store keeps is within the cap.                                   *)
LEMMA KeptWithinCap ==
    ASSUME NEW S \in SUBSET CacheRows, IsFiniteSet(S), NEW k \in Kept(S)
    PROVE  k \in SUBSET S /\ (MaxEntries # 0 => Cardinality(k) <= MaxEntries)
<1>1. MaxEntries \in Nat
  BY CacheAssumption
<1> QED
  BY <1>1 DEF Kept

LEMMA BumpIs ==
    ASSUME cStats \in [StatNames -> Nat], NEW names
    PROVE  /\ Bump(names) \in [StatNames -> Nat]
           /\ \A s \in StatNames :
                 Bump(names)[s] = IF s \in names THEN cStats[s] + 1 ELSE cStats[s]
  BY DEF Bump

LEMMA GoToType ==
    ASSUME asking \in [CacheCallers -> Asks], NEW c \in CacheCallers, NEW stage \in Stages,
           GoTo(c, stage)
    PROVE  asking' \in [CacheCallers -> Asks]
<1>1. NotAsking \in Asks
  BY CacheAssumption DEF NotAsking, Asks, Stages
<1>2. [asking[c] EXCEPT !.at = stage] \in Asks
  BY DEF Asks
<1> QED
  BY <1>1, <1>2 DEF GoTo

(* The row of an answered question.                                        *)
LEMMA NewRow ==
    ASSUME TableInv, NEW c \in CacheCallers
    PROVE  LET e == Entry(nextId, asking[c].q, asking[c].space)
               S == entries \cup {e}
           IN  /\ e \in CacheRows
               /\ S \in SUBSET CacheRows /\ IsFiniteSet(S)
               /\ Total(HitCount, S) = Total(HitCount, entries)
               /\ \A r \in S : r.answered = r.q /\ r.id < nextId + 1 /\ r.created_at <= cNow
<1> DEFINE e == Entry(nextId, asking[c].q, asking[c].space)
<1>1. asking[c].q \in Questions /\ asking[c].space \in Spaces
  BY DEF TableInv, Asks
<1>2. e \in CacheRows /\ e.hits = 0 /\ e.answered = e.q /\ e.id = nextId /\ e.created_at = cNow
  BY <1>1 DEF TableInv, Entry, CacheRows
<1> HIDE DEF e
<1>3. \A r \in entries \cup {e} : r.answered = r.q /\ r.id < nextId + 1 /\ r.created_at <= cNow
  <2>1. \A r \in entries : r.id \in Nat
    BY DEF TableInv, CacheRows
  <2> QED
    BY <1>2, <2>1 DEF TableInv
<1> QED
  BY <1>2, <1>3, HitsOfNewRow DEF TableInv, e

(* Storing a row and evicting what is beyond the cap.                      *)
LEMMA StoreKeeps ==
    ASSUME CacheInv, NEW c \in CacheCallers,
           entries' \in Kept(entries \cup {Entry(nextId, asking[c].q, asking[c].space)}),
           nextId' = nextId + 1, cNow' = cNow
    PROVE  /\ entries' \in SUBSET CacheRows /\ IsFiniteSet(entries')
           /\ \A r \in entries' : r.answered = r.q /\ r.id < nextId' /\ r.created_at <= cNow'
           /\ Total(HitCount, entries') \in Nat
           /\ Total(HitCount, entries') <= Total(HitCount, entries)
           /\ CapHeld'
<1> DEFINE S == entries \cup {Entry(nextId, asking[c].q, asking[c].space)}
<1>1. /\ S \in SUBSET CacheRows /\ IsFiniteSet(S)
      /\ Total(HitCount, S) = Total(HitCount, entries)
      /\ \A r \in S : r.answered = r.q /\ r.id < nextId + 1 /\ r.created_at <= cNow
  BY NewRow DEF CacheInv
<1>2. entries' \in Kept(S)
  OBVIOUS
<1> HIDE DEF S
<1>3. entries' \in SUBSET S /\ (MaxEntries # 0 => Cardinality(entries') <= MaxEntries)
  BY <1>1, <1>2, KeptWithinCap
<1>4. /\ IsFiniteSet(entries') /\ Total(HitCount, entries') \in Nat
      /\ Total(HitCount, entries') <= Total(HitCount, S)
  BY <1>1, <1>3, HitsType
<1> QED
  BY <1>1, <1>3, <1>4 DEF CapHeld

(* A hit on a row of the table.                                            *)
LEMMA HitKeeps ==
    ASSUME CacheInv, NEW r \in entries,
           entries' = (entries \ {r}) \cup {[r EXCEPT !.hits = @ + 1]},
           nextId' = nextId, cNow' = cNow
    PROVE  /\ entries' \in SUBSET CacheRows /\ IsFiniteSet(entries')
           /\ \A s \in entries' : s.answered = s.q /\ s.id < nextId' /\ s.created_at <= cNow'
           /\ Total(HitCount, entries') \in Nat
           /\ Total(HitCount, entries') <= Total(HitCount, entries) + 1
           /\ CapHeld'
<1>1. entries \in SUBSET CacheRows /\ IsFiniteSet(entries)
  BY DEF CacheInv, TableInv
<1>2. /\ entries' \in SUBSET CacheRows /\ IsFiniteSet(entries')
      /\ Cardinality(entries') <= Cardinality(entries)
      /\ Total(HitCount, entries') <= Total(HitCount, entries) + 1
  BY <1>1, HitsOfHit
<1>3. Total(HitCount, entries') \in Nat
  BY <1>2, HitsType
<1>4. ASSUME NEW s \in entries'
      PROVE  s.answered = s.q /\ s.id < nextId' /\ s.created_at <= cNow'
  <2>1. r \in CacheRows
    BY <1>1
  <2>2. CASE s \in entries
    BY <2>2 DEF CacheInv, TableInv
  <2>3. CASE s = [r EXCEPT !.hits = @ + 1]
    <3>1. s.answered = r.answered /\ s.q = r.q /\ s.id = r.id /\ s.created_at = r.created_at
      BY <2>1, <2>3 DEF CacheRows
    <3> QED
      BY <3>1 DEF CacheInv, TableInv
  <2> QED
    BY <2>2, <2>3
<1>5. CapHeld'
  <2>1. Cardinality(entries) \in Nat /\ Cardinality(entries') \in Nat /\ MaxEntries \in Nat
    BY <1>1, <1>2, FS_CardinalityType, CacheAssumption
  <2> QED
    BY <1>2, <2>1 DEF CacheInv, CapHeld
<1> QED
  BY <1>2, <1>3, <1>4, <1>5

(* Every step keeps the cache sound.                                       *)
LEMMA CacheStep ==
    ASSUME CacheInv, [CacheNext]_cacheVars
    PROVE  CacheInv'
<1>a. /\ cNow \in Nat /\ nextId \in Nat \ {0} /\ cCrashes \in Nat
      /\ entries \in SUBSET CacheRows /\ IsFiniteSet(entries)
      /\ \A r \in entries : r.answered = r.q /\ r.id < nextId /\ r.created_at <= cNow
      /\ asking \in [CacheCallers -> Asks]
      /\ cStats \in [StatNames -> Nat]
      /\ Total(HitCount, entries) \in Nat
  BY HitsType DEF CacheInv, TableInv, CountInv
<1> DEFINE hits == cStats["hits"]
           misses == cStats["misses"]
           lookups == cStats["lookups"]
           stores == cStats["stores"]
           total == Total(HitCount, entries)
<1>b. /\ hits \in Nat /\ misses \in Nat /\ lookups \in Nat /\ stores \in Nat /\ total \in Nat
      /\ hits + misses <= lookups /\ lookups <= hits + misses + cCrashes
      /\ total <= hits + cCrashes /\ nextId - 1 <= stores + cCrashes
      /\ cStats["tokens_saved"] = Tokens * hits
  BY <1>a DEF CacheInv, CountInv, StatNames
<1>c. Tokens \in Nat /\ Ttl \in Nat
  BY CacheAssumption
(* A step that leaves the table and what was served as they are, and       *)
(* counts neither a hit nor a lookup.                                      *)
<1>d. ASSUME cNow' = cNow \/ cNow' = cNow + 1, nextId' = nextId, entries' = entries,
             served' = served, asking' \in [CacheCallers -> Asks],
             cCrashes' = cCrashes \/ cCrashes' = cCrashes + 1,
             cStats' \in [StatNames -> Nat],
             cStats'["hits"] = hits, cStats'["stores"] = stores,
             cStats'["misses"] = misses, cStats'["tokens_saved"] = cStats["tokens_saved"],
             cStats'["lookups"] = lookups
      PROVE  CacheInv'
  <2>1. TableInv'
    <3>1. \A r \in entries : r.created_at \in Nat
      BY <1>a DEF CacheRows
    <3> QED
      BY <1>a, <1>d, <3>1 DEF TableInv
  <2>2. CountInv'
    BY <1>a, <1>b, <1>d DEF CountInv
  <2> QED
    BY <1>d, <2>1, <2>2 DEF CacheInv, NoLeakNoDrift, CapHeld
<1>1. ASSUME NEW c \in CacheCallers, NEW q \in Questions, NEW x \in Spaces, Consult(c, q, x)
      PROVE  CacheInv'
  <2>1. [q |-> q, space |-> x, at |-> "embedding", cacheable |-> TRUE] \in Asks
    BY DEF Asks, Stages
  <2> QED
    BY <1>1, <1>a, <1>d, <2>1 DEF Consult
<1>2. ASSUME NEW c \in CacheCallers, Bypass(c) PROVE CacheInv'
  <2>1. asking' \in [CacheCallers -> Asks]
    BY <1>2, <1>a DEF Bypass, Asks, Stages
  <2>2. cStats' = Bump({"skipped"})
    BY <1>2 DEF Bypass
  <2> QED
    BY <1>2, <1>a, <1>d, <2>1, <2>2, BumpIs DEF Bypass, StatNames
<1>3. ASSUME NEW c \in CacheCallers, NEW raised \in BOOLEAN, NotEmbedded(c, raised)
      PROVE  CacheInv'
  <2>1. asking' \in [CacheCallers -> Asks]
    BY <1>3, <1>a DEF NotEmbedded, Asks, Stages
  <2>2. PICK names \in {{"embed_failures", "skipped"}, {"skipped"}} : cStats' = Bump(names)
    BY <1>3 DEF NotEmbedded
  <2> QED
    BY <1>3, <1>a, <1>d, <2>1, <2>2, BumpIs DEF NotEmbedded, StatNames
<1>4. ASSUME NEW c \in CacheCallers, Hit(c) PROVE CacheInv'
  <2>1. PICK r \in Best(c) :
          /\ entries' = (entries \ {r}) \cup {[r EXCEPT !.hits = @ + 1]}
          /\ cStats' = [Bump({"lookups", "hits"}) EXCEPT !.tokens_saved = @ + Tokens]
          /\ served' = {[q |-> asking[c].q, space |-> asking[c].space, entry |-> r, at |-> cNow]}
          /\ GoTo(c, "idle")
          /\ UNCHANGED <<cNow, nextId, cCrashes>>
    BY <1>4 DEF Hit
  <2>2. /\ r \in entries /\ r.space = asking[c].space /\ (Ttl # 0 => r.created_at >= cNow - Ttl)
        /\ Like[asking[c].q, r.q] >= Threshold
    BY DEF Best, Alive
  <2>3. /\ entries' \in SUBSET CacheRows /\ IsFiniteSet(entries')
        /\ \A s \in entries' : s.answered = s.q /\ s.id < nextId' /\ s.created_at <= cNow'
        /\ Total(HitCount, entries') \in Nat
        /\ Total(HitCount, entries') <= total + 1
        /\ CapHeld'
    BY <2>1, <2>2, HitKeeps
  <2>4. asking' \in [CacheCallers -> Asks]
    BY <1>a, <2>1, GoToType DEF Stages
  <2>5. TableInv'
    BY <1>a, <2>1, <2>3, <2>4 DEF TableInv
  <2>6. NoLeakNoDrift'
    <3>1. r.created_at \in Nat /\ r.answered = r.q
      BY <1>a, <2>2 DEF CacheRows
    <3>2. Ttl # 0 => cNow - r.created_at <= Ttl
      <4> DEFINE made == r.created_at
      <4>1. made \in Nat /\ cNow \in Nat /\ Ttl \in Nat /\ (Ttl # 0 => made >= cNow - Ttl)
        BY <1>a, <1>c, <2>2, <3>1
      <4> HIDE DEF made
      <4>2. Ttl # 0 => cNow - made <= Ttl
        BY <4>1
      <4> QED
        BY <4>2 DEF made
    <3>3. ASSUME NEW s \in served'
          PROVE  /\ s.entry.space = s.space
                 /\ Ttl # 0 => s.at - s.entry.created_at <= Ttl
                 /\ Like[s.q, s.entry.answered] >= Threshold
      <4>1. /\ s.entry = r /\ s.space = asking[c].space /\ s.at = cNow /\ s.q = asking[c].q
        BY <2>1, <3>3
      <4>2. s.entry.space = s.space
        BY <2>2, <4>1
      <4>3. Ttl # 0 => s.at - s.entry.created_at <= Ttl
        BY <3>2, <4>1
      <4>4. Like[s.q, s.entry.answered] >= Threshold
        BY <2>2, <3>1, <4>1
      <4> QED
        BY <4>2, <4>3, <4>4
    <3> QED
      BY <3>3 DEF NoLeakNoDrift
  <2>7. CountInv'
    <3> DEFINE b == Bump({"lookups", "hits"})
    <3>1. /\ b \in [StatNames -> Nat] /\ b["hits"] = hits + 1 /\ b["lookups"] = lookups + 1
          /\ b["misses"] = misses /\ b["stores"] = stores
          /\ b["tokens_saved"] = cStats["tokens_saved"]
      BY <1>a, BumpIs DEF StatNames
    <3> HIDE DEF b
    <3>2. cStats' = [b EXCEPT !["tokens_saved"] = @ + Tokens]
      BY <2>1 DEF b
    <3>3. /\ cStats' \in [StatNames -> Nat] /\ cStats'["hits"] = hits + 1
          /\ cStats'["lookups"] = lookups + 1 /\ cStats'["misses"] = misses
          /\ cStats'["stores"] = stores
          /\ cStats'["tokens_saved"] = cStats["tokens_saved"] + Tokens
      BY <1>c, <3>1, <3>2 DEF StatNames
    <3>4. Tokens * (hits + 1) = Tokens * hits + Tokens
      BY <1>b, <1>c
    <3>5. cStats'["tokens_saved"] = Tokens * cStats'["hits"]
      BY <1>b, <3>3, <3>4
    <3> HIDE DEF total, hits, misses, lookups, stores
    <3> QED
      BY <1>a, <1>b, <2>1, <2>3, <3>3, <3>5 DEF CountInv
  <2> QED
    BY <2>3, <2>5, <2>6, <2>7 DEF CacheInv
<1>5. ASSUME NEW c \in CacheCallers, Miss(c) PROVE CacheInv'
  <2>1. /\ cStats' = Bump({"lookups", "misses"}) /\ GoTo(c, "calling")
        /\ UNCHANGED <<cNow, entries, nextId, served, cCrashes>>
    BY <1>5 DEF Miss
  <2>2. asking' \in [CacheCallers -> Asks]
    BY <1>a, <2>1, GoToType DEF Stages
  <2>3. TableInv'
    BY <1>a, <2>1, <2>2 DEF TableInv
  <2>4. CountInv'
    <3>1. /\ cStats' \in [StatNames -> Nat] /\ cStats'["hits"] = hits
          /\ cStats'["lookups"] = lookups + 1 /\ cStats'["misses"] = misses + 1
          /\ cStats'["stores"] = stores
          /\ cStats'["tokens_saved"] = cStats["tokens_saved"]
      BY <1>a, <2>1, BumpIs DEF StatNames
    <3> QED
      BY <1>a, <1>b, <2>1, <3>1 DEF CountInv
  <2> QED
    BY <2>1, <2>3, <2>4 DEF CacheInv, NoLeakNoDrift, CapHeld
<1>6. ASSUME NEW c \in CacheCallers, Respond(c) PROVE CacheInv'
  <2>1. asking' \in [CacheCallers -> Asks]
    BY <1>6, <1>a, GoToType DEF Respond, Stages
  <2> QED
    BY <1>6, <1>a, <1>d, <2>1 DEF Respond
<1>7. ASSUME NEW c \in CacheCallers, CallFails(c) PROVE CacheInv'
  <2>1. asking' \in [CacheCallers -> Asks]
    BY <1>7, <1>a, GoToType DEF CallFails, Stages
  <2> QED
    BY <1>7, <1>a, <1>d, <2>1 DEF CallFails
<1>8. ASSUME NEW c \in CacheCallers, Store(c) PROVE CacheInv'
  <2>1. /\ entries' \in Kept(entries \cup {Entry(nextId, asking[c].q, asking[c].space)})
        /\ nextId' = nextId + 1 /\ cStats' = Bump({"stores"}) /\ GoTo(c, "idle")
        /\ UNCHANGED <<cNow, served, cCrashes>>
    BY <1>8 DEF Store
  <2>2. /\ entries' \in SUBSET CacheRows /\ IsFiniteSet(entries')
        /\ \A r \in entries' : r.answered = r.q /\ r.id < nextId' /\ r.created_at <= cNow'
        /\ Total(HitCount, entries') \in Nat
        /\ Total(HitCount, entries') <= total
        /\ CapHeld'
    BY <2>1, StoreKeeps
  <2>3. asking' \in [CacheCallers -> Asks]
    BY <1>a, <2>1, GoToType DEF Stages
  <2>4. TableInv'
    BY <1>a, <2>1, <2>2, <2>3 DEF TableInv
  <2>5. CountInv'
    <3>1. /\ cStats' \in [StatNames -> Nat] /\ cStats'["hits"] = hits
          /\ cStats'["lookups"] = lookups /\ cStats'["misses"] = misses
          /\ cStats'["stores"] = stores + 1
          /\ cStats'["tokens_saved"] = cStats["tokens_saved"]
      BY <1>a, <2>1, BumpIs DEF StatNames
    <3> HIDE DEF total
    <3> QED
      BY <1>a, <1>b, <2>1, <2>2, <3>1 DEF CountInv
  <2> QED
    BY <2>1, <2>2, <2>4, <2>5 DEF CacheInv, NoLeakNoDrift
<1>9. ASSUME NEW c \in CacheCallers, NEW raised \in BOOLEAN, NotStored(c, raised)
      PROVE  CacheInv'
  <2>1. asking' \in [CacheCallers -> Asks]
    BY <1>9, <1>a, GoToType DEF NotStored, Stages
  <2>2. PICK names \in {{"embed_failures"}, {}} : cStats' = Bump(names)
    BY <1>9 DEF NotStored
  <2> QED
    BY <1>9, <1>a, <1>d, <2>1, <2>2, BumpIs DEF NotStored, StatNames
<1>10. ASSUME NEW expired \in BOOLEAN, Purge(expired) PROVE CacheInv'
  <2>1. entries' \in SUBSET entries /\ UNCHANGED <<cNow, cStats, nextId, asking, served, cCrashes>>
    BY <1>10 DEF Purge
  <2>2. /\ IsFiniteSet(entries') /\ Cardinality(entries') <= Cardinality(entries)
        /\ Cardinality(entries') \in Nat /\ Cardinality(entries) \in Nat
        /\ Total(HitCount, entries') \in Nat /\ Total(HitCount, entries') <= total
    BY <1>a, <2>1, HitsType
  <2>3. TableInv'
    BY <1>a, <2>1, <2>2 DEF TableInv
  <2>4. CountInv'
    <3> HIDE DEF total
    <3> QED
      BY <1>a, <1>b, <2>1, <2>2 DEF CountInv
  <2>5. CapHeld'
    BY <2>2, CacheAssumption DEF CacheInv, CapHeld
  <2> QED
    BY <2>1, <2>3, <2>4, <2>5 DEF CacheInv, NoLeakNoDrift
<1>11. CASE CacheCrash
  <2>1. /\ cCrashes' = cCrashes + 1 /\ asking' = [c \in CacheCallers |-> NotAsking]
        /\ UNCHANGED <<cNow, served>>
    BY <1>11 DEF CacheCrash
  <2>2. asking' \in [CacheCallers -> Asks]
    BY <2>1, CacheAssumption DEF NotAsking, Asks, Stages
  <2>3. CASE UNCHANGED <<entries, cStats, nextId>>
    BY <1>a, <1>d, <2>1, <2>2, <2>3
  <2>4. ASSUME NEW c \in CacheCallers, TornLookup(c) PROVE CacheInv'
    <3>1. cStats' = Bump({"lookups"}) /\ nextId' = nextId
      BY <2>4 DEF TornLookup
    <3>2. /\ entries' \in SUBSET CacheRows /\ IsFiniteSet(entries')
          /\ \A s \in entries' : s.answered = s.q /\ s.id < nextId' /\ s.created_at <= cNow'
          /\ Total(HitCount, entries') \in Nat
          /\ Total(HitCount, entries') <= total + 1
          /\ CapHeld'
      <4>1. CASE entries' = entries
        <5>1. total <= total + 1
          BY <1>b
        <5> QED
          BY <1>a, <2>1, <3>1, <4>1, <5>1 DEF CacheInv, CapHeld
      <4>2. CASE entries' # entries
        <5>1. PICK r \in Best(c) : entries' = (entries \ {r}) \cup {[r EXCEPT !.hits = @ + 1]}
          BY <2>4, <4>2 DEF TornLookup
        <5>2. r \in entries
          BY DEF Best, Alive
        <5> QED
          BY <2>1, <3>1, <5>1, <5>2, HitKeeps
      <4> QED
        BY <4>1, <4>2
    <3>3. TableInv'
      BY <1>a, <2>1, <2>2, <3>1, <3>2 DEF TableInv
    <3>4. CountInv'
      <4>1. /\ cStats' \in [StatNames -> Nat] /\ cStats'["hits"] = hits
            /\ cStats'["lookups"] = lookups + 1 /\ cStats'["misses"] = misses
            /\ cStats'["stores"] = stores
            /\ cStats'["tokens_saved"] = cStats["tokens_saved"]
        BY <1>a, <3>1, BumpIs DEF StatNames
      <4> HIDE DEF total
      <4> QED
        BY <1>a, <1>b, <2>1, <3>1, <3>2, <4>1 DEF CountInv
    <3> QED
      BY <2>1, <3>2, <3>3, <3>4 DEF CacheInv, NoLeakNoDrift
  <2>5. ASSUME NEW c \in CacheCallers, TornStore(c) PROVE CacheInv'
    <3>1. /\ entries' \in Kept(entries \cup {Entry(nextId, asking[c].q, asking[c].space)})
          /\ nextId' = nextId + 1 /\ cStats' = cStats
      BY <2>5 DEF TornStore
    <3>2. /\ entries' \in SUBSET CacheRows /\ IsFiniteSet(entries')
          /\ \A r \in entries' : r.answered = r.q /\ r.id < nextId' /\ r.created_at <= cNow'
          /\ Total(HitCount, entries') \in Nat
          /\ Total(HitCount, entries') <= total
          /\ CapHeld'
      BY <2>1, <3>1, StoreKeeps
    <3>3. TableInv'
      BY <1>a, <2>1, <2>2, <3>1, <3>2 DEF TableInv
    <3>4. CountInv'
      <4> HIDE DEF total
      <4> QED
        BY <1>a, <1>b, <2>1, <3>1, <3>2 DEF CountInv
    <3> QED
      BY <2>1, <3>2, <3>3, <3>4 DEF CacheInv, NoLeakNoDrift
  <2> QED
    BY <1>11, <2>3, <2>4, <2>5 DEF CacheCrash
<1>12. CASE CacheTick
  BY <1>12, <1>a, <1>d DEF CacheTick
<1>13. CASE UNCHANGED cacheVars
  BY <1>13, <1>a, <1>d DEF cacheVars
<1> QED
  BY <1>1, <1>2, <1>3, <1>4, <1>5, <1>6, <1>7, <1>8, <1>9, <1>10, <1>11, <1>12, <1>13
     DEF CacheNext

(* The empty table, with nothing counted.                                  *)
LEMMA CacheStart ==
    ASSUME CacheInit
    PROVE  CacheInv
<1>1. IsFiniteSet({}) /\ Cardinality({}) = 0
  BY FS_EmptySet
<1>2. Total(HitCount, {}) = 0
  BY <1>1, TotalLaws
<1>3. TableInv
  BY <1>1, CacheAssumption DEF CacheInit, TableInv, NotAsking, Asks, Stages
<1>4. CountInv
  BY <1>2, CacheAssumption DEF CacheInit, CountInv, StatNames
<1> QED
  BY <1>1, <1>3, <1>4, CacheAssumption DEF CacheInit, CacheInv, NoLeakNoDrift, CapHeld

(* For any questions, namespaces, similarity, cap and lifetime, and any    *)
(* number of concurrent requests and deaths of the process: the cache      *)
(* leaks nothing, does not drift, keeps its cap and its statistics add up. *)
THEOREM CacheAlwaysSound == CacheSpec => []CacheSound
<1>1. CacheInit => CacheInv
  BY CacheStart
<1>2. CacheInv /\ [CacheNext]_cacheVars => CacheInv'
  BY CacheStep
<1>3. CacheInv => CacheSound
  <2> SUFFICES ASSUME CacheInv PROVE CacheSound
    OBVIOUS
  <2>1. MapThenSumSet(LAMBDA r : r.hits, entries) = Total(HitCount, entries)
    BY HitsAre DEF CacheInv, TableInv
  <2> QED
    BY <2>1 DEF CacheInv, CountInv, CacheSound, StatsAddUp
<1> QED
  BY <1>1, <1>2, <1>3, PTL DEF CacheSpec

-----------------------------------------------------------------------------
(* The prompt cache of Gemini.                                             *)

PaidContents(k) == {d \in contents : d.key = k /\ d.name \in paid}

(* How far a content's own expiry can lie beyond the moment at which the   *)
(* entry that held its name, or a later one, ceased to be valid.           *)
Slack == MintTimeout + Margin

(* by says who minted what: two contents that one caller paid for the same *)
(* key lie a lifetime apart, but for the slack, as does the one it mints.  *)
MintedBy(by) ==
    \A k \in Keys :
        /\ \A d, e \in PaidContents(k) :
              d # e /\ by[d] = by[e] => \/ d.until + MintTtl <= e.until + Slack
                                        \/ e.until + MintTtl <= d.until + Slack
        /\ \A d \in PaidContents(k) :
              minting[by[d]].key = k => d.until <= minting[by[d]].now + Slack

NamesInv ==
    /\ contents \in SUBSET [name: Nat, key: Keys, until: Nat] /\ IsFiniteSet(contents)
    /\ paid \in SUBSET Nat
    /\ \A d \in contents : d.name <= Cardinality(contents) /\ d.until <= gNow + MintTtl
    /\ \A n \in paid : n <= Cardinality(contents)

MintingInv ==
    /\ gNow \in Nat
    /\ minting \in [GeminiCallers -> [key: Keys \cup {NoKey}, now: Nat]]
    /\ \A c \in GeminiCallers :
          minting[c].key # NoKey => minting[c].now <= gNow /\ gNow <= minting[c].now + MintTimeout

(* An entry ends no later than its content, and a key's paid contents not  *)
(* much later than its entry.                                              *)
EntryInv ==
    /\ DOMAIN gStore \in SUBSET Keys
    /\ \A k \in DOMAIN gStore :
          /\ gStore[k] \in [name: Nat, exp: Nat]
          /\ \E d \in contents : d.name = gStore[k].name /\ gStore[k].exp <= d.until
    /\ \A k \in Keys : \A d \in PaidContents(k) :
          d.until <= IF k \in DOMAIN gStore THEN gStore[k].exp + MintTimeout ELSE gNow + Slack

GeminiInv ==
    /\ NamesInv /\ MintingInv /\ EntryInv /\ HandedOutAlive
    /\ \E by \in [contents -> GeminiCallers] : MintedBy(by)

(* A finite set of which no three members share an image is at most twice  *)
(* as large as the set of the images; here the members are numbered (at),  *)
(* and two that share an image lie more than half of the span apart.       *)
LEMMA TwoEach ==
    ASSUME NEW L, IsFiniteSet(L), NEW C, IsFiniteSet(C), NEW by \in [L -> C],
           NEW at \in [L -> Nat], NEW gap \in Nat, NEW low \in Nat,
           \A x \in L : low < at[x] /\ at[x] <= low + 2 * gap,
           \A x, y \in L : x # y /\ by[x] = by[y] => at[x] + gap <= at[y] \/ at[y] + gap <= at[x]
    PROVE  Cardinality(L) <= 2 * Cardinality(C)
<1> DEFINE First == {x \in L : \A y \in L : by[y] = by[x] => at[x] <= at[y]}
           Second == L \ First
<1>0. CASE gap = 0
  <2>1. \A x \in L : FALSE
    BY <1>0
  <2>2. L = {} /\ Cardinality(L) = 0 /\ Cardinality(C) \in Nat
    BY <2>1, FS_EmptySet, FS_CardinalityType
  <2> QED
    BY <2>2
<1>1. CASE gap > 0
  <2>1. /\ First \in SUBSET L /\ Second \in SUBSET L
        /\ First \cup Second = L /\ First \cap Second = {}
    OBVIOUS
  <2>2. IsFiniteSet(First) /\ IsFiniteSet(Second)
    BY <2>1, FS_Subset
  <2>3. \A x, y \in First : by[x] = by[y] => x = y
    <3> SUFFICES ASSUME NEW x \in First, NEW y \in First, by[x] = by[y], x # y PROVE FALSE
      OBVIOUS
    <3>1. at[x] <= at[y] /\ at[y] <= at[x] /\ at[x] \in Nat /\ at[y] \in Nat
      OBVIOUS
    <3>2. at[x] + gap <= at[y] \/ at[y] + gap <= at[x]
      OBVIOUS
    <3> QED
      BY <1>1, <3>1, <3>2
  <2>4. \A x, y \in Second : by[x] = by[y] => x = y
    <3>1. ASSUME NEW x \in Second, NEW y \in Second, by[x] = by[y], at[x] + gap <= at[y]
          PROVE  FALSE
      <4>1. PICK z \in L : by[z] = by[x] /\ ~(at[x] <= at[z])
        OBVIOUS
      <4>2. at[x] \in Nat /\ at[y] \in Nat /\ at[z] \in Nat
        BY <4>1
      <4>3. z # x /\ (at[z] + gap <= at[x] \/ at[x] + gap <= at[z])
        BY <4>1, <4>2
      <4>4. low < at[z] /\ at[y] <= low + 2 * gap
        OBVIOUS
      <4> QED
        BY <1>1, <3>1, <4>1, <4>2, <4>3, <4>4
    <3> QED
      BY <3>1
  <2>5. by \in [L -> C]
    OBVIOUS
  <2> HIDE DEF First, Second
  <2>6. Cardinality(First) <= Cardinality(C)
    <3> DEFINE g == [x \in First |-> by[x]]
    <3>1. g \in Injection(First, C)
      BY <2>1, <2>3, <2>5 DEF Injection, IsInjective
    <3> QED
      BY <3>1, <2>2, FS_Injection
  <2>7. Cardinality(Second) <= Cardinality(C)
    <3> DEFINE g == [x \in Second |-> by[x]]
    <3>1. g \in Injection(Second, C)
      BY <2>1, <2>4, <2>5 DEF Injection, IsInjective
    <3> QED
      BY <3>1, <2>2, FS_Injection
  <2>8. Cardinality(L) = Cardinality(First) + Cardinality(Second)
    <3>1. Cardinality(First \cup Second)
            = Cardinality(First) + Cardinality(Second) - Cardinality(First \cap Second)
      BY <2>2, FS_Union
    <3>2. Cardinality({}) = 0
      BY FS_EmptySet
    <3>3. Cardinality(First) \in Nat /\ Cardinality(Second) \in Nat
      BY <2>2, FS_CardinalityType
    <3>4. Cardinality(L) = Cardinality(First \cup Second) /\ Cardinality(First \cap Second) = 0
      BY <2>1, <3>2
    <3>5. Cardinality(L) = Cardinality(First) + Cardinality(Second) - 0
      BY <3>1, <3>4
    <3> QED
      BY <3>3, <3>5
  <2>9. Cardinality(First) \in Nat /\ Cardinality(Second) \in Nat /\ Cardinality(C) \in Nat
    BY <2>2, FS_CardinalityType
  <2> QED
    BY <2>6, <2>7, <2>8, <2>9
<1> QED
  BY <1>0, <1>1
(* Who paid for what is live: no more than two contents per caller.        *)
LEMMA PaidTwice ==
    ASSUME GeminiInv, IsFiniteSet(GeminiCallers), 2 * (MintTimeout + Margin) <= MintTtl
    PROVE  MintsBounded
<1> SUFFICES ASSUME NEW k \in Keys
             PROVE  Cardinality({d \in contents : d.key = k /\ d.until > gNow /\ d.name \in paid})
                      <= 2 * Cardinality(GeminiCallers)
  BY DEF MintsBounded
<1> DEFINE L == {d \in contents : d.key = k /\ d.until > gNow /\ d.name \in paid}
           gap == MintTtl - Slack
<1>1. PICK by \in [contents -> GeminiCallers] : MintedBy(by)
  BY DEF GeminiInv
<1>2. L \in SUBSET PaidContents(k) /\ L \in SUBSET contents
  BY DEF PaidContents
<1>3. gNow \in Nat /\ MintTtl \in Nat /\ Slack \in Nat /\ gap \in Nat /\ MintTtl <= 2 * gap
  BY GeminiAssumption DEF GeminiInv, MintingInv, Slack
<1> DEFINE at == [d \in L |-> d.until]
           its == [d \in L |-> by[d]]
<1>4. /\ IsFiniteSet(L) /\ at \in [L -> Nat] /\ its \in [L -> GeminiCallers]
      /\ \A d \in L : at[d] = d.until /\ its[d] = by[d]
  <2>1. IsFiniteSet(L)
    BY <1>2, FS_Subset DEF GeminiInv, NamesInv
  <2>2. \A d \in L : d.until \in Nat
    BY DEF GeminiInv, NamesInv
  <2> QED
    BY <1>1, <2>1, <2>2
<1>5. \A d \in L : gNow < at[d] /\ at[d] <= gNow + 2 * gap
  <2> SUFFICES ASSUME NEW d \in L PROVE gNow < at[d] /\ at[d] <= gNow + 2 * gap
    OBVIOUS
  <2>1. d.until <= gNow + MintTtl /\ gNow < d.until /\ d.until \in Nat
    BY <1>3 DEF GeminiInv, NamesInv
  <2>2. at[d] = d.until
    BY <1>4
  <2> HIDE DEF gap, at, L
  <2> QED
    BY <1>3, <2>1, <2>2
<1>6. \A d, e \in L : d # e /\ its[d] = its[e] => at[d] + gap <= at[e] \/ at[e] + gap <= at[d]
  <2> SUFFICES ASSUME NEW d \in L, NEW e \in L, d # e, its[d] = its[e]
               PROVE  at[d] + gap <= at[e] \/ at[e] + gap <= at[d]
    OBVIOUS
  <2>1. at[d] = d.until /\ at[e] = e.until /\ by[d] = by[e] /\ at[d] \in Nat /\ at[e] \in Nat
    BY <1>4
  <2>2. d.until + MintTtl <= e.until + Slack \/ e.until + MintTtl <= d.until + Slack
    BY <1>1, <1>2, <2>1 DEF MintedBy
  <2> HIDE DEF at
  <2> QED
    BY <1>3, <2>1, <2>2
<1> HIDE DEF L, gap, at, its
<1>7. Cardinality(L) <= 2 * Cardinality(GeminiCallers)
  BY <1>3, <1>4, <1>5, <1>6, TwoEach
<1> QED
  BY <1>7 DEF L

(* A content that the service makes for the request of caller c.           *)
LEMMA ContentAdded ==
    ASSUME GeminiInv, NEW c \in GeminiCallers, minting[c].key # NoKey, NEW until \in Nat,
           until <= gNow + MintTtl, gNow' = gNow, paid' = paid \cup {Cardinality(contents) + 1} \/ paid' = paid,
           contents' = contents \cup {[name |-> Cardinality(contents) + 1, key |-> minting[c].key,
                                       until |-> until]}
    PROVE  LET d == [name |-> Cardinality(contents) + 1, key |-> minting[c].key, until |-> until]
           IN  /\ NamesInv' /\ d \notin contents /\ d \in contents'
               /\ \A k \in Keys : /\ paid' = paid => PaidContents(k)' = PaidContents(k)
                                  /\ k # minting[c].key => PaidContents(k)' = PaidContents(k)
                                  /\ PaidContents(k)' \in SUBSET (PaidContents(k) \cup {d})
<1> DEFINE n == Cardinality(contents) + 1
           d == [name |-> n, key |-> minting[c].key, until |-> until]
<1>1. /\ Cardinality(contents) \in Nat /\ n \in Nat /\ minting[c].key \in Keys
      /\ contents \in SUBSET [name: Nat, key: Keys, until: Nat] /\ IsFiniteSet(contents)
      /\ paid \in SUBSET Nat
      /\ \A e \in contents : e.name <= Cardinality(contents) /\ e.until <= gNow + MintTtl
      /\ \A m \in paid : m <= Cardinality(contents)
  BY FS_CardinalityType DEF GeminiInv, NamesInv, MintingInv
<1>2. n \notin paid /\ \A e \in contents : e.name # n
  BY <1>1
<1>3. d \in [name: Nat, key: Keys, until: Nat] /\ d.name = n /\ d.key = minting[c].key /\ d.until = until
  BY <1>1
<1>4. d \notin contents /\ contents' = contents \cup {d}
  BY <1>2, <1>3
<1>5. Cardinality(contents') = n /\ IsFiniteSet(contents')
  BY <1>1, <1>4, FS_AddElement
<1> HIDE DEF d
<1>6. NamesInv'
  <2>1. n <= n /\ \A m \in Nat : m <= Cardinality(contents) => m <= n
    BY <1>1
  <2> HIDE DEF n
  <2>2. contents' \in SUBSET [name: Nat, key: Keys, until: Nat] /\ paid' \in SUBSET Nat
    BY <1>1, <1>3, <1>4 DEF n
  <2>3. \A e \in contents' : e.name <= Cardinality(contents') /\ e.until <= gNow' + MintTtl
    BY <1>1, <1>3, <1>4, <1>5, <2>1
  <2>4. \A m \in paid' : m <= Cardinality(contents')
    BY <1>1, <1>5, <2>1 DEF n
  <2> QED
    BY <1>5, <2>2, <2>3, <2>4 DEF NamesInv
<1>7. ASSUME NEW k \in Keys
      PROVE  /\ paid' = paid => PaidContents(k)' = PaidContents(k)
             /\ k # minting[c].key => PaidContents(k)' = PaidContents(k)
             /\ PaidContents(k)' \in SUBSET (PaidContents(k) \cup {d})
  <2>1. \A e \in contents : e.name \in paid' <=> e.name \in paid
    BY <1>2
  <2> QED
    BY <1>2, <1>3, <1>4, <2>1 DEF PaidContents
<1> QED
  BY <1>4, <1>6, <1>7 DEF d
(* Every step keeps the invariant.                                         *)
LEMMA GeminiStep ==
    ASSUME GeminiInv, [GeminiNext]_geminiVars
    PROVE  GeminiInv'
<1>a. PICK by \in [contents -> GeminiCallers] : MintedBy(by)
  BY DEF GeminiInv
<1>b. /\ gNow \in Nat /\ {MintTtl, Margin, MintTimeout, Slack} \subseteq Nat /\ MintTimeout < MintTtl
      /\ Slack = MintTimeout + Margin /\ NoKey \notin Keys
  BY GeminiAssumption DEF GeminiInv, MintingInv, Slack
<1>c. /\ minting \in [GeminiCallers -> [key: Keys \cup {NoKey}, now: Nat]]
      /\ \A c \in GeminiCallers : minting[c].key # NoKey =>
            minting[c].now <= gNow /\ gNow <= minting[c].now + MintTimeout
  BY DEF GeminiInv, MintingInv
<1>d. /\ DOMAIN gStore \in SUBSET Keys
      /\ \A k \in DOMAIN gStore :
            /\ gStore[k] \in [name: Nat, exp: Nat]
            /\ \E d \in contents : d.name = gStore[k].name /\ gStore[k].exp <= d.until
      /\ \A k \in Keys : \A d \in PaidContents(k) :
            d.until <= IF k \in DOMAIN gStore THEN gStore[k].exp + MintTimeout ELSE gNow + Slack
  BY DEF GeminiInv, EntryInv
<1>e. /\ contents \in SUBSET [name: Nat, key: Keys, until: Nat] /\ IsFiniteSet(contents)
      /\ Cardinality(contents) \in Nat
      /\ \A k \in Keys : \A d \in PaidContents(k) : d \in contents /\ d.until \in Nat /\ d.key = k
  BY FS_CardinalityType DEF GeminiInv, NamesInv, PaidContents
<1>1. ASSUME NEW c \in GeminiCallers, NEW k \in Keys, GetCached(c, k) PROVE GeminiInv'
  <2>1. /\ k \in DOMAIN gStore /\ gStore[k].exp > gNow + Margin
        /\ handed' = {[name |-> gStore[k].name, at |-> gNow]}
        /\ UNCHANGED <<gNow, gStore, minting, contents, paid>>
    BY <1>1 DEF GetCached, Valid
  <2>2. PICK d \in contents : d.name = gStore[k].name /\ gStore[k].exp <= d.until
    BY <1>d, <2>1
  <2>3. gNow < d.until
    BY <1>b, <1>d, <1>e, <2>1, <2>2
  <2>4. HandedOutAlive'
    BY <2>1, <2>2, <2>3 DEF HandedOutAlive
  <2> QED
    BY <2>1, <2>4 DEF GeminiInv, NamesInv, MintingInv, EntryInv, MintedBy, PaidContents
<1>2. ASSUME NEW c \in GeminiCallers, NEW k \in Keys, StartMint(c, k) PROVE GeminiInv'
  <2>1. /\ minting[c].key = NoKey /\ ~Valid(k)
        /\ gStore' = [j \in DOMAIN gStore \ {k} |-> gStore[j]]
        /\ minting' = [minting EXCEPT ![c] = [key |-> k, now |-> gNow]]
        /\ UNCHANGED <<gNow, contents, handed, paid>>
    BY <1>2 DEF StartMint
  <2>2. \A d \in PaidContents(k) : d.until <= gNow + Slack
    <3> SUFFICES ASSUME NEW d \in PaidContents(k) PROVE d.until <= gNow + Slack
      OBVIOUS
    <3>1. CASE k \in DOMAIN gStore
      <4>1. gStore[k].exp \in Nat /\ ~(gStore[k].exp > gNow + Margin) /\ d.until \in Nat
        BY <1>d, <1>e, <2>1, <3>1 DEF Valid
      <4>2. d.until <= gStore[k].exp + MintTimeout
        BY <1>d, <3>1
      <4> QED
        BY <1>b, <4>1, <4>2
    <3>2. CASE k \notin DOMAIN gStore
      BY <1>d, <3>2
    <3> QED
      BY <3>1, <3>2
  <2>3. \A j \in Keys : PaidContents(j)' = PaidContents(j)
    BY <2>1 DEF PaidContents
  <2>4. MintingInv'
    <3>1. gNow <= gNow + MintTimeout /\ gNow <= gNow
      BY <1>b
    <3> QED
      BY <1>b, <1>c, <2>1, <3>1 DEF MintingInv
  <2>5. EntryInv'
    <3>1. DOMAIN gStore' = DOMAIN gStore \ {k} /\ \A j \in DOMAIN gStore' : gStore'[j] = gStore[j]
      BY <2>1
    <3>2. \A j \in Keys : \A d \in PaidContents(j)' :
            d.until <= IF j \in DOMAIN gStore' THEN gStore'[j].exp + MintTimeout ELSE gNow' + Slack
      BY <1>d, <2>1, <2>2, <2>3, <3>1
    <3> QED
      BY <1>d, <2>1, <3>1, <3>2 DEF EntryInv, Slack
  <2>6. MintedBy(by)'
    <3>1. ASSUME NEW j \in Keys, NEW d \in PaidContents(j), minting'[by[d]].key = j
          PROVE  d.until <= minting'[by[d]].now + Slack
      <4>1. d \in contents /\ by[d] \in GeminiCallers
        BY <1>e
      <4>2. CASE by[d] = c
        BY <1>c, <2>1, <2>2, <3>1, <4>2
      <4>3. CASE by[d] # c
        BY <1>a, <1>c, <2>1, <3>1, <4>1, <4>3 DEF MintedBy
      <4> QED
        BY <4>2, <4>3
    <3> QED
      BY <1>a, <2>3, <3>1 DEF MintedBy, Slack
  <2> QED
    BY <2>1, <2>4, <2>5, <2>6 DEF GeminiInv, NamesInv, HandedOutAlive
<1>3. ASSUME NEW c \in GeminiCallers, MintSucceeds(c) PROVE GeminiInv'
  <2> DEFINE k == minting[c].key
             now == minting[c].now
             n == Cardinality(contents) + 1
  <2>1. PICK made \in now .. gNow :
          contents' = contents \cup {[name |-> n, key |-> k, until |-> made + MintTtl]}
    BY <1>3 DEF MintSucceeds
  <2>2. /\ k # NoKey /\ gStore' = Remember(k, n, now + MintTtl)
        /\ minting' = [minting EXCEPT ![c] = Waiting]
        /\ handed' = {[name |-> n, at |-> gNow]}
        /\ paid' = paid \cup {n} /\ gNow' = gNow
    BY <1>3 DEF MintSucceeds
  <2>3. k \in Keys /\ now \in Nat /\ now <= gNow /\ gNow <= now + MintTimeout /\ n \in Nat
    BY <1>c, <1>e, <2>2
  <2>4. /\ made \in Nat /\ now <= made /\ made <= gNow
    BY <1>b, <2>3
  <2> DEFINE until == made + MintTtl
             new == [name |-> n, key |-> k, until |-> until]
  <2>5. /\ until \in Nat /\ until <= gNow + MintTtl /\ now + MintTtl <= until /\ gNow < until
        /\ gNow + MintTtl <= (now + MintTtl) + MintTimeout
    <3> HIDE DEF now
    <3> QED
      BY <1>b, <2>3, <2>4
  <2>6. /\ NamesInv' /\ new \notin contents /\ contents' = contents \cup {new}
        /\ new.name = n /\ new.until = until
        /\ \A j \in Keys : /\ j # k => PaidContents(j)' = PaidContents(j)
                           /\ PaidContents(j)' \in SUBSET (PaidContents(j) \cup {new})
    <3>1. /\ NamesInv' /\ new \notin contents
          /\ \A j \in Keys : /\ j # k => PaidContents(j)' = PaidContents(j)
                             /\ PaidContents(j)' \in SUBSET (PaidContents(j) \cup {new})
      BY <2>1, <2>2, <2>5, ContentAdded
    <3> QED
      BY <2>1, <3>1
  <2> HIDE DEF until, new
  <2>7. MintingInv'
    BY <1>b, <1>c, <2>2 DEF MintingInv, Waiting
  <2>8. HandedOutAlive'
    BY <2>2, <2>5, <2>6 DEF HandedOutAlive
  <2>9. EntryInv'
    <3>1. /\ DOMAIN gStore' = DOMAIN gStore \cup {k}
          /\ gStore'[k] = [name |-> n, exp |-> now + MintTtl]
          /\ \A j \in DOMAIN gStore : j # k => gStore'[j] = gStore[j]
      BY <2>2 DEF Remember
    <3>2. gStore'[k] \in [name: Nat, exp: Nat]
      BY <1>b, <2>3, <3>1
    <3>3. \A j \in DOMAIN gStore' :
            \E d \in contents' : d.name = gStore'[j].name /\ gStore'[j].exp <= d.until
      BY <1>d, <2>5, <2>6, <3>1
    <3>4. ASSUME NEW j \in Keys, NEW d \in PaidContents(j)'
          PROVE  d.until <= IF j \in DOMAIN gStore' THEN gStore'[j].exp + MintTimeout ELSE gNow' + Slack
      <4>1. CASE j = k
        <5>1. d.until <= gNow + MintTtl /\ d.until \in Nat
          BY <2>2, <2>6 DEF NamesInv, PaidContents
        <5>2. d.until <= (now + MintTtl) + MintTimeout
          BY <1>b, <2>3, <2>5, <5>1
        <5> QED
          BY <3>1, <4>1, <5>2
      <4>2. CASE j # k
        BY <1>d, <2>2, <2>6, <3>1, <4>2
      <4> QED
        BY <4>1, <4>2
    <3> QED
      BY <1>d, <2>3, <3>1, <3>2, <3>3, <3>4 DEF EntryInv, Slack
  <2>10. PICK its \in [contents' -> GeminiCallers] :
            \A d \in contents' : its[d] = IF d = new THEN c ELSE by[d]
    <3> DEFINE its == [d \in contents' |-> IF d = new THEN c ELSE by[d]]
    <3>1. its \in [contents' -> GeminiCallers]
      BY <2>6
    <3> QED
      BY <3>1
  <2>11. MintedBy(its)'
    <3>1. \A j \in Keys : \A d \in PaidContents(j)' : d = new \/ d \in PaidContents(j)
      BY <2>6
    <3>2. \A j \in Keys : \A d \in PaidContents(j) :
             d \in contents' /\ d # new /\ its[d] = by[d] /\ d.until \in Nat
      BY <1>e, <2>6, <2>10
    <3>3. its[new] = c
      BY <2>6, <2>10
    <3>4. ASSUME NEW j \in Keys, new \in PaidContents(j)', NEW e \in PaidContents(j), its[e] = c
          PROVE  e.until + MintTtl <= new.until + Slack
      <4>1. j = k
        <5>1. j # k => new \in PaidContents(j)
          BY <2>6, <3>4
        <5> QED
          BY <3>2, <5>1
      <4>2. e.until <= now + Slack
        BY <1>a, <3>2, <3>4, <4>1 DEF MintedBy
      <4> QED
        BY <1>b, <2>3, <2>5, <2>6, <3>2, <4>2
    <3>5. ASSUME NEW j \in Keys, NEW d \in PaidContents(j)', NEW e \in PaidContents(j)',
                 d # e, its[d] = its[e]
          PROVE  \/ d.until + MintTtl <= e.until + Slack
                 \/ e.until + MintTtl <= d.until + Slack
      <4>1. CASE d = new
        BY <3>1, <3>3, <3>4, <3>5, <4>1
      <4>2. CASE e = new
        BY <3>1, <3>3, <3>4, <3>5, <4>2
      <4>3. CASE d # new /\ e # new
        BY <1>a, <3>1, <3>2, <3>5, <4>3 DEF MintedBy
      <4> QED
        BY <4>1, <4>2, <4>3
    <3>6. ASSUME NEW j \in Keys, NEW d \in PaidContents(j)', minting'[its[d]].key = j
          PROVE  d.until <= minting'[its[d]].now + Slack
      <4>1. minting'[c].key = NoKey /\ \A b \in GeminiCallers : b # c => minting'[b] = minting[b]
        BY <1>c, <2>2 DEF Waiting
      <4>2. its[d] # c /\ its[d] \in GeminiCallers
        BY <1>b, <2>10, <3>6, <4>1 DEF PaidContents
      <4>3. d \in PaidContents(j) /\ its[d] = by[d]
        BY <3>1, <3>2, <3>3, <4>2
      <4> QED
        BY <1>a, <3>6, <4>1, <4>2, <4>3 DEF MintedBy
    <3> QED
      BY <3>5, <3>6 DEF MintedBy, Slack
  <2> QED
    BY <2>6, <2>7, <2>8, <2>9, <2>10, <2>11 DEF GeminiInv
<1>4. ASSUME NEW c \in GeminiCallers, MintFails(c) PROVE GeminiInv'
  <2>1. /\ minting[c].key # NoKey /\ minting' = [minting EXCEPT ![c] = Waiting]
        /\ UNCHANGED <<gNow, gStore, handed, paid>>
    BY <1>4 DEF MintFails
  <2>2. MintingInv'
    BY <1>b, <1>c, <2>1 DEF MintingInv, Waiting
  <2>3. /\ NamesInv' /\ contents \in SUBSET contents'
        /\ \A k \in Keys : PaidContents(k)' = PaidContents(k)
    <3>1. CASE UNCHANGED contents
      BY <2>1, <3>1 DEF GeminiInv, NamesInv, PaidContents
    <3>2. CASE contents' # contents
      <4> DEFINE until == gNow + MintTtl
      <4>1. contents' = contents \cup {[name |-> Cardinality(contents) + 1,
                                        key |-> minting[c].key, until |-> until]}
        BY <1>4, <3>2 DEF MintFails
      <4>2. until \in Nat /\ until <= gNow + MintTtl
        BY <1>b
      <4> HIDE DEF until
      <4>3. NamesInv' /\ \A k \in Keys : paid' = paid => PaidContents(k)' = PaidContents(k)
        BY <2>1, <4>1, <4>2, ContentAdded
      <4> QED
        BY <2>1, <4>1, <4>3
    <3> QED
      BY <3>1, <3>2
  <2>4. EntryInv'
    BY <1>d, <2>1, <2>3 DEF EntryInv, Slack
  <2>5. HandedOutAlive'
    BY <2>1, <2>3 DEF GeminiInv, HandedOutAlive
  <2>6. PICK its \in [contents' -> GeminiCallers] : \A d \in contents : its[d] = by[d]
    <3> DEFINE its == [d \in contents' |-> IF d \in contents THEN by[d] ELSE c]
    <3>1. its \in [contents' -> GeminiCallers]
      OBVIOUS
    <3> QED
      BY <2>3, <3>1
  <2>7. MintedBy(its)'
    <3>1. minting'[c].key = NoKey /\ \A b \in GeminiCallers : b # c => minting'[b] = minting[b]
      BY <1>c, <2>1 DEF Waiting
    <3>2. ASSUME NEW j \in Keys, NEW d \in PaidContents(j), minting'[by[d]].key = j
          PROVE  d.until <= minting'[by[d]].now + Slack
      <4>1. by[d] # c /\ by[d] \in GeminiCallers
        BY <1>b, <1>e, <3>1, <3>2
      <4> QED
        BY <1>a, <3>1, <3>2, <4>1 DEF MintedBy
    <3>3. \A j \in Keys : \A d \in PaidContents(j) : its[d] = by[d]
      BY <1>e, <2>6
    <3> QED
      BY <1>a, <2>3, <3>2, <3>3 DEF MintedBy, Slack
  <2> QED
    BY <2>2, <2>3, <2>4, <2>5, <2>6, <2>7 DEF GeminiInv
<1>5. CASE GeminiTick
  <2>1. /\ gNow' = gNow + 1 /\ UNCHANGED <<gStore, minting, contents, handed, paid>>
        /\ \A c \in GeminiCallers : minting[c].key # NoKey => gNow - minting[c].now < MintTimeout
    BY <1>5 DEF GeminiTick
  <2>2. MintingInv'
    <3>1. ASSUME NEW c \in GeminiCallers, minting[c].key # NoKey
          PROVE  minting[c].now <= gNow + 1 /\ gNow + 1 <= minting[c].now + MintTimeout
      <4> DEFINE now == minting[c].now
      <4>1. now \in Nat /\ now <= gNow /\ gNow - now < MintTimeout
        BY <1>c, <2>1, <3>1
      <4> HIDE DEF now
      <4>2. now <= gNow + 1 /\ gNow + 1 <= now + MintTimeout
        BY <1>b, <4>1
      <4> QED
        BY <4>2 DEF now
    <3> QED
      BY <1>b, <1>c, <2>1, <3>1 DEF MintingInv
  <2>3. NamesInv'
    <3>1. \A d \in contents : d.until <= gNow + 1 + MintTtl
      BY <1>b, <1>e DEF GeminiInv, NamesInv
    <3> QED
      BY <2>1, <3>1 DEF GeminiInv, NamesInv
  <2>4. EntryInv'
    <3>1. \A k \in Keys : PaidContents(k)' = PaidContents(k)
      BY <2>1 DEF PaidContents
    <3>2. \A k \in Keys : \A d \in PaidContents(k) :
            d.until <= IF k \in DOMAIN gStore THEN gStore[k].exp + MintTimeout ELSE gNow' + Slack
      BY <1>b, <1>d, <1>e, <2>1
    <3> QED
      BY <1>d, <2>1, <3>1, <3>2 DEF EntryInv, Slack
  <2>5. MintedBy(by)'
    BY <1>a, <2>1 DEF MintedBy, PaidContents, Slack
  <2> QED
    BY <2>1, <2>2, <2>3, <2>4, <2>5 DEF GeminiInv, HandedOutAlive
<1>6. CASE UNCHANGED geminiVars
  BY <1>6 DEF geminiVars, GeminiInv, NamesInv, MintingInv, EntryInv, MintedBy, PaidContents,
              HandedOutAlive, Slack
<1> QED
  BY <1>1, <1>2, <1>3, <1>4, <1>5, <1>6 DEF GeminiNext

(* Whatever callers mint the same key at the same time, and whatever the   *)
(* service makes and loses: a name is handed out only while its content    *)
(* lives, and when the lifetime is twice the client's timeout and the      *)
(* margin (300 s against 60 s and 5 s in gemini.py), two paid contents of  *)
(* a key at most are alive per caller.                                     *)
THEOREM ContentsAlwaysSound ==
    ASSUME IsFiniteSet(GeminiCallers), 2 * (MintTimeout + Margin) <= MintTtl
    PROVE  GeminiSpec => []ContentsSound
<1>1. GeminiInit => GeminiInv
  <2> SUFFICES ASSUME GeminiInit PROVE GeminiInv
    OBVIOUS
  <2>1. IsFiniteSet({}) /\ Cardinality({}) = 0
    BY FS_EmptySet
  <2>2. \A k \in Keys : PaidContents(k) = {}
    BY DEF GeminiInit, PaidContents
  <2>3. NamesInv /\ MintingInv /\ HandedOutAlive
    BY <2>1 DEF GeminiInit, NamesInv, MintingInv, HandedOutAlive, Waiting
  <2>4. EntryInv
    BY <2>2 DEF GeminiInit, EntryInv
  <2>5. [d \in {} |-> NoKey] \in [contents -> GeminiCallers]
    BY DEF GeminiInit
  <2>6. \A by : MintedBy(by)
    BY <2>2 DEF MintedBy
  <2> QED
    BY <2>3, <2>4, <2>5, <2>6 DEF GeminiInv
<1>2. GeminiInv /\ [GeminiNext]_geminiVars => GeminiInv'
  BY GeminiStep
<1>3. GeminiInv => ContentsSound
  BY PaidTwice DEF ContentsSound, GeminiInv
<1> QED
  BY <1>1, <1>2, <1>3, PTL DEF GeminiSpec
=============================================================================
