----------------------------- MODULE MoneyProofs -----------------------------
(***************************************************************************)
(* Theorems about the rate limiter and the spoken answers, and about all   *)
(* the parts of the money run together.  The limiter keeps its quota and   *)
(* forgets idle senders, for any senders, limits, window and sweep         *)
(* interval, and implements the abstract quota.                            *)
(***************************************************************************)
EXTENDS MCMoney, StoresProofs

-----------------------------------------------------------------------------
(* The rate limiter.  A deque is a suffix of its sender's history,         *)
(* and what is missing from it is older than the window.                   *)

(* What the limiter remembers of a sender's grants of one kind.            *)
Held(k, d) == IF k \in DOMAIN state THEN state[k][d] ELSE <<>>

(* q is what is left of h when only entries before the cutoff were dropped. *)
SuffixFrom(h, q, cutoff) ==
    \E m \in 0 .. Len(h) :
        /\ q = SubSeq(h, m + 1, Len(h))
        /\ \A i \in 1 .. m : h[i] < cutoff

Ordered(h, last) ==
    /\ \A i \in 1 .. Len(h) : h[i] <= last
    /\ \A i, j \in 1 .. Len(h) : i <= j => h[i] <= h[j]

History == \A k \in Senders, d \in Kinds : Ordered(granted[k][d], asked[k])

Remembered ==
    \A k \in Senders, d \in Kinds :
        SuffixFrom(granted[k][d], Held(k, d), now - Window)

Sweeps ==
    /\ \A k \in Senders : asked[k] <= now
    /\ \A k \in Senders : asked[k] < last_sweep + SweepInterval
    /\ \A k \in DOMAIN state : asked[k] >= last_sweep - Window
    /\ last_sweep <= now

LimiterInv == TypeOK /\ History /\ Remembered /\ Sweeps /\ QuotaHeld

-----------------------------------------------------------------------------
(* Trimming what is left of a history keeps a suffix, no longer than it    *)
(* was, that starts exactly at the cutoff.                                 *)
LEMMA TrimProperties ==
    ASSUME NEW h \in Times, NEW q, NEW cutoff \in Int, SuffixFrom(h, q, cutoff)
    PROVE  \E m \in 0 .. Len(h) :
             /\ FromCutoff(q, cutoff) = SubSeq(h, m + 1, Len(h))
             /\ \A i \in 1 .. m : h[i] < cutoff
             /\ m < Len(h) => h[m + 1] >= cutoff
             /\ Len(FromCutoff(q, cutoff)) = Len(h) - m
             /\ FromCutoff(q, cutoff) \in Times
             /\ Len(FromCutoff(q, cutoff)) <= Len(q)
<1>1. PICK k \in 0 .. Len(h) :
        /\ q = SubSeq(h, k + 1, Len(h))
        /\ \A i \in 1 .. k : h[i] < cutoff
  BY DEF SuffixFrom
<1>2. PICK m \in k .. Len(h) :
        /\ FromCutoff(q, cutoff) = SubSeq(h, m + 1, Len(h))
        /\ \A i \in 1 .. m : h[i] < cutoff
        /\ m < Len(h) => h[m + 1] >= cutoff
  BY <1>1, FromCutoffOfSuffix
<1>3. Len(h) \in Nat /\ \A i \in 1 .. Len(h) : h[i] \in Nat
  BY DEF Times
<1>4. m \in 0 .. Len(h)
  BY <1>3
<1>5. ASSUME NEW n \in 0 .. Len(h)
      PROVE  /\ SubSeq(h, n + 1, Len(h)) \in Seq(Nat)
             /\ Len(SubSeq(h, n + 1, Len(h))) = Len(h) - n
  <2>1. \A i \in (n + 1) .. Len(h) : h[i] \in Nat
    BY <1>3
  <2> QED
    BY <2>1, <1>3, SubSeqProperties
<1>6. Len(FromCutoff(q, cutoff)) = Len(h) - m /\ FromCutoff(q, cutoff) \in Times
  BY <1>2, <1>4, <1>5 DEF Times
<1>7. Len(q) = Len(h) - k
  BY <1>1, <1>5
<1>8. Len(FromCutoff(q, cutoff)) <= Len(q)
  BY <1>3, <1>4, <1>6, <1>7
<1> WITNESS m \in 0 .. Len(h)
<1> QED
  BY <1>2, <1>6, <1>8

(* The initial state satisfies the inductive invariant.                    *)
LEMMA InitInv == Init => LimiterInv
<1> SUFFICES ASSUME Init PROVE LimiterInv
  OBVIOUS
<1>1. <<>> \in Times /\ Len(<<>>) = 0
  BY DEF Times
<1>2. DOMAIN state = {} /\ \A k \in Senders, d \in Kinds : granted[k][d] = <<>>
  BY DEF Init, NewWindow
<1>3. granted \in [Senders -> Windows]
  BY <1>1 DEF Init, NewWindow, Windows
<1>4. TypeOK
  BY <1>2, <1>3, ClockAssumption DEF TypeOK, Init
<1>5. Remembered
  <2> SUFFICES ASSUME NEW k \in Senders, NEW d \in Kinds
               PROVE  SuffixFrom(granted[k][d], Held(k, d), now - Window)
    BY DEF Remembered
  <2>1. granted[k][d] = <<>> /\ Held(k, d) = <<>>
    BY <1>2 DEF Held
  <2>2. <<>> = SubSeq(<<>>, 0 + 1, Len(<<>>)) /\ 0 \in 0 .. Len(<<>>)
    BY <1>1
  <2>3. \A i \in 1 .. 0 : <<>>[i] < now - Window
    OBVIOUS
  <2> QED
    BY <2>1, <2>2, <2>3 DEF SuffixFrom
<1>6. History /\ QuotaHeld
  BY <1>1, <1>2, CapAssumption DEF History, Ordered, QuotaHeld
<1>7. Sweeps
  BY <1>2, ClockAssumption, SweepAssumption DEF Sweeps, Init
<1> QED
  BY <1>4, <1>5, <1>6, <1>7 DEF LimiterInv

-----------------------------------------------------------------------------
(* What a sender still has after the sweep that precedes its check.        *)
Left(k, d) == IF k \in DOMAIN Swept THEN Swept[k][d] ELSE <<>>

(* A due sweep leaves of every deque what FromCutoff leaves of it: a       *)
(* window is dropped only when that is nothing.                            *)
LEMMA DueSweepTrims ==
    ASSUME LimiterInv, SweepDue, NEW k \in Senders, NEW d \in Kinds
    PROVE  \/ Left(k, d) = FromCutoff(Held(k, d), now - Window)
           \/ Left(k, d) = Held(k, d)
<1>1. CASE k \notin DOMAIN state
  BY <1>1 DEF Left, Held, Swept
<1>2. CASE k \in DOMAIN state /\ Live(state[k])
  BY <1>2 DEF Left, Held, Swept, Trimmed
<1>3. CASE k \in DOMAIN state /\ ~Live(state[k])
  <2>1. FromCutoff(state[k][d], now - Window) = <<>>
    BY <1>3 DEF Live, Trimmed
  <2>2. k \notin DOMAIN Swept
    BY <1>3 DEF Swept
  <2> QED
    BY <1>3, <2>1, <2>2 DEF Left, Held
<1> QED
  BY <1>1, <1>2, <1>3

(* Whether or not the sweep is due, what is left of a deque is a suffix of *)
(* its sender's history that misses only what is too old.                  *)
LEMMA LeftProperties ==
    ASSUME LimiterInv, NEW k \in Senders, NEW d \in Kinds
    PROVE  /\ SuffixFrom(granted[k][d], Left(k, d), now - Window)
           /\ Left(k, d) \in Times
           /\ Len(Left(k, d)) <= Cap[k][d]
<1> DEFINE h == granted[k][d]
<1>0. /\ now - Window \in Int /\ h \in Times /\ Cap[k][d] \in Nat
      /\ SuffixFrom(h, Held(k, d), now - Window)
  BY WindowAssumption, CapAssumption DEF LimiterInv, TypeOK, Windows, Remembered
<1>1. Held(k, d) \in Times /\ Len(Held(k, d)) \in Nat /\ Len(Held(k, d)) <= Cap[k][d]
  <2>1. CASE k \in DOMAIN state
    BY <2>1 DEF LimiterInv, TypeOK, Held, Windows, Times
  <2>2. CASE k \notin DOMAIN state
    BY <2>2, <1>0 DEF Held, Times
  <2> QED
    BY <2>1, <2>2
<1>2. CASE ~SweepDue
  BY <1>0, <1>1, <1>2 DEF Left, Held, Swept
<1>3. CASE SweepDue
  <2>1. CASE Left(k, d) = Held(k, d)
    BY <2>1, <1>0, <1>1
  <2>2. CASE Left(k, d) = FromCutoff(Held(k, d), now - Window)
    <3>0. PICK m \in 0 .. Len(h) :
            /\ Left(k, d) = SubSeq(h, m + 1, Len(h))
            /\ \A i \in 1 .. m : h[i] < now - Window
            /\ Left(k, d) \in Times
            /\ Len(Left(k, d)) <= Len(Held(k, d))
      BY <2>2, <1>0, TrimProperties
    <3>1. SuffixFrom(h, Left(k, d), now - Window)
      BY <3>0 DEF SuffixFrom
    <3>2. Len(Left(k, d)) \in Nat
      BY <3>0 DEF Times
    <3> QED
      BY <3>0, <3>1, <3>2, <1>0, <1>1
  <2> QED
    BY <1>3, <2>1, <2>2, DueSweepTrims
<1> QED
  BY <1>2, <1>3

(* What a check decides on: the part of the history inside the window.     *)
LEMMA DequeProperties ==
    ASSUME LimiterInv, NEW k \in Senders, NEW d \in Kinds
    PROVE  \E m \in 0 .. Len(granted[k][d]) :
             /\ Deque(k, d) = SubSeq(granted[k][d], m + 1, Len(granted[k][d]))
             /\ \A i \in 1 .. m : granted[k][d][i] < now - Window
             /\ m < Len(granted[k][d]) => granted[k][d][m + 1] >= now - Window
             /\ Len(Deque(k, d)) = Len(granted[k][d]) - m
             /\ Deque(k, d) \in Times
             /\ Len(Deque(k, d)) <= Cap[k][d]
<1> DEFINE h == granted[k][d]
<1>1. now - Window \in Int /\ h \in Times /\ Cap[k][d] \in Nat
  BY WindowAssumption, CapAssumption DEF LimiterInv, TypeOK, Windows
<1>2. /\ SuffixFrom(h, Left(k, d), now - Window)
      /\ Len(Left(k, d)) \in Nat
      /\ Len(Left(k, d)) <= Cap[k][d]
  BY LeftProperties DEF Times
<1>3. Deque(k, d) = FromCutoff(Left(k, d), now - Window)
  BY DEF Deque, Left
<1>4. PICK m \in 0 .. Len(h) :
        /\ Deque(k, d) = SubSeq(h, m + 1, Len(h))
        /\ \A i \in 1 .. m : h[i] < now - Window
        /\ m < Len(h) => h[m + 1] >= now - Window
        /\ Len(Deque(k, d)) = Len(h) - m
        /\ Deque(k, d) \in Times
        /\ Len(Deque(k, d)) <= Len(Left(k, d))
  BY <1>1, <1>2, <1>3, TrimProperties
<1>5. Len(Deque(k, d)) <= Cap[k][d]
  <2>1. Len(Deque(k, d)) \in Nat
    BY <1>4 DEF Times
  <2> QED
    BY <2>1, <1>1, <1>2, <1>4
<1> WITNESS m \in 0 .. Len(h)
<1> QED
  BY <1>4, <1>5

(* What a check of k for d does to every deque and every history.          *)
DequeAfter(k, d) == IF Allows(k, d) THEN Append(Deque(k, d), now) ELSE Deque(k, d)

(* One deque gets at most one stamp; every other one is what is left of it. *)
LEMMA CheckEffect ==
    ASSUME LimiterInv, NEW k \in Senders, NEW d \in Kinds, Check(k, d)
    PROVE  /\ DOMAIN state' = DOMAIN Swept \cup {k}
           /\ DOMAIN Swept \subseteq DOMAIN state
           /\ state' \in [DOMAIN state' -> [Kinds -> {DequeAfter(k, d)} \cup Times]]
           /\ Held(k, d)' = DequeAfter(k, d)
           /\ \A j \in Senders, e \in Kinds :
                 ~(j = k /\ e = d) =>
                    /\ Held(j, e)' = Left(j, e)
                    /\ granted'[j][e] = granted[j][e]
           /\ granted'[k][d] = IF Allows(k, d) THEN Append(granted[k][d], now)
                                               ELSE granted[k][d]
<1> DEFINE win == IF k \in DOMAIN Swept THEN Swept[k] ELSE NewWindow
<1>1. DOMAIN Swept \subseteq DOMAIN state
  BY DEF Swept
<1>2. state' = [j \in DOMAIN Swept \cup {k} |->
                  IF j = k THEN [win EXCEPT ![d] = DequeAfter(k, d)] ELSE Swept[j]]
  BY DEF Check, DequeAfter
<1>3. DOMAIN state \subseteq Senders
  BY DEF LimiterInv, TypeOK
<1>4. \A j \in DOMAIN Swept, e \in Kinds : Swept[j][e] \in Times
  BY <1>1, <1>3, LeftProperties DEF Left
<1>5. \A j \in DOMAIN Swept : Swept[j] = [e \in Kinds |-> Swept[j][e]]
  BY <1>1 DEF Swept, Trimmed, LimiterInv, TypeOK, Windows
<1>6. /\ win = [e \in Kinds |-> win[e]]
      /\ \A e \in Kinds : win[e] = Left(k, e) /\ win[e] \in Times
  BY <1>4, <1>5 DEF Left, NewWindow, Times
<1> HIDE DEF win
<1>7. [win EXCEPT ![d] = DequeAfter(k, d)] \in [Kinds -> {DequeAfter(k, d)} \cup Times]
  BY <1>6
<1>8. \A j \in DOMAIN Swept : Swept[j] \in [Kinds -> {DequeAfter(k, d)} \cup Times]
  BY <1>4, <1>5
<1>9. /\ state'[k][d] = DequeAfter(k, d)
      /\ \A e \in Kinds : e # d => state'[k][e] = Left(k, e)
      /\ \A j \in DOMAIN Swept : j # k => state'[j] = Swept[j]
  BY <1>2, <1>6
<1>10. state' \in [DOMAIN state' -> [Kinds -> {DequeAfter(k, d)} \cup Times]]
  BY <1>2, <1>7, <1>8
<1>11. granted' = IF Allows(k, d)
                  THEN [granted EXCEPT ![k][d] = Append(@, now)] ELSE granted
  BY DEF Check
<1>12. granted \in [Senders -> [Kinds -> Times]]
  BY DEF LimiterInv, TypeOK, Windows
<1>13. /\ granted'[k][d] = IF Allows(k, d) THEN Append(granted[k][d], now)
                                           ELSE granted[k][d]
       /\ \A j \in Senders, e \in Kinds :
             ~(j = k /\ e = d) => granted'[j][e] = granted[j][e]
  BY <1>11, <1>12
<1>14. ASSUME NEW j \in Senders, NEW e \in Kinds, ~(j = k /\ e = d)
       PROVE  Held(j, e)' = Left(j, e)
  BY <1>2, <1>9, <1>14 DEF Held, Left
<1>15. Held(k, d)' = DequeAfter(k, d)
  BY <1>2, <1>9 DEF Held
<1> QED
  BY <1>1, <1>2, <1>10, <1>13, <1>14, <1>15

(* Stamps that are appended as they come keep the history in order.        *)
LEMMA AppendKeepsOrdered ==
    ASSUME NEW h \in Times, NEW t \in Nat, NEW last \in Nat, last <= t,
           Ordered(h, last)
    PROVE  Ordered(Append(h, t), t)
<1>1. Len(h) \in Nat /\ \A i \in 1 .. Len(h) : h[i] \in Nat
  BY DEF Times
<1>2. /\ Len(Append(h, t)) = Len(h) + 1
      /\ Append(h, t)[Len(h) + 1] = t
      /\ \A i \in 1 .. Len(h) : Append(h, t)[i] = h[i]
  BY DEF Times
<1>3. \A i \in 1 .. Len(h) + 1 : i \in 1 .. Len(h) \/ i = Len(h) + 1
  BY <1>1
<1>4. \A i \in 1 .. Len(h) : h[i] <= t
  BY <1>1 DEF Ordered
<1>5. ASSUME NEW i \in 1 .. Len(h) + 1 PROVE Append(h, t)[i] <= t
  BY <1>2, <1>3, <1>4
<1>6. ASSUME NEW i \in 1 .. Len(h) + 1, NEW j \in 1 .. Len(h) + 1, i <= j
      PROVE  Append(h, t)[i] <= Append(h, t)[j]
  <2>1. CASE j = Len(h) + 1
    BY <2>1, <1>2, <1>5
  <2>2. CASE j \in 1 .. Len(h)
    <3>1. i \in 1 .. Len(h)
      BY <2>2, <1>1, <1>6
    <3>2. h[i] <= h[j]
      BY <3>1, <2>2, <1>6 DEF Ordered
    <3>3. Append(h, t)[i] = h[i] /\ Append(h, t)[j] = h[j]
      BY <3>1, <2>2, <1>2
    <3> QED
      BY <3>2, <3>3
  <2> QED
    BY <2>1, <2>2, <1>3
<1> QED
  BY <1>2, <1>5, <1>6 DEF Ordered

(* A window survives a due sweep only if its sender was granted something  *)
(* within the window, so it has asked since.                               *)
LEMMA LiveHasAsked ==
    ASSUME LimiterInv, NEW j \in DOMAIN state, Live(state[j])
    PROVE  asked[j] >= now - Window
<1>1. PICK e \in Kinds : FromCutoff(state[j][e], now - Window) # <<>>
  BY DEF Live, Trimmed
<1> DEFINE h == granted[j][e]
<1>2. j \in Senders
  BY DEF LimiterInv, TypeOK
<1>3. /\ h \in Times
      /\ now - Window \in Int
      /\ SuffixFrom(h, state[j][e], now - Window)
  BY <1>2, WindowAssumption DEF LimiterInv, TypeOK, Windows, Remembered, Held
<1>4. PICK m \in 0 .. Len(h) :
        /\ FromCutoff(state[j][e], now - Window) = SubSeq(h, m + 1, Len(h))
        /\ m < Len(h) => h[m + 1] >= now - Window
        /\ Len(FromCutoff(state[j][e], now - Window)) = Len(h) - m
        /\ FromCutoff(state[j][e], now - Window) \in Times
  BY <1>3, TrimProperties
<1>5. Len(h) \in Nat /\ \A i \in 1 .. Len(h) : h[i] \in Nat /\ h[i] <= asked[j]
  BY <1>2, <1>3 DEF Times, LimiterInv, History, Ordered
<1>6. Len(FromCutoff(state[j][e], now - Window)) # 0
  BY <1>1, <1>4 DEF Times
<1>7. m + 1 \in 1 .. Len(h)
  BY <1>4, <1>5, <1>6
<1>8. asked[j] \in Nat
  BY <1>2 DEF LimiterInv, TypeOK
<1> QED
  BY <1>3, <1>4, <1>5, <1>7, <1>8

(* The conjuncts of the invariant that a check of k for d can disturb.     *)
LEMMA CheckKeepsInv ==
    ASSUME LimiterInv, NEW k \in Senders, NEW d \in Kinds, Check(k, d)
    PROVE  LimiterInv'
<1> DEFINE h == granted[k][d]
<1>e. /\ DOMAIN state' = DOMAIN Swept \cup {k}
      /\ DOMAIN Swept \subseteq DOMAIN state
      /\ state' \in [DOMAIN state' -> [Kinds -> {DequeAfter(k, d)} \cup Times]]
      /\ Held(k, d)' = DequeAfter(k, d)
      /\ \A j \in Senders, e \in Kinds :
            ~(j = k /\ e = d) =>
               /\ Held(j, e)' = Left(j, e)
               /\ granted'[j][e] = granted[j][e]
      /\ granted'[k][d] = IF Allows(k, d) THEN Append(granted[k][d], now)
                                          ELSE granted[k][d]
  BY CheckEffect
<1>0. /\ now \in Nat /\ now' = now /\ now - Window \in Int
      /\ h \in Times /\ Len(h) \in Nat /\ \A i \in 1 .. Len(h) : h[i] \in Nat
      /\ Cap[k][d] \in Nat
      /\ asked \in [Senders -> Nat] /\ asked' = [asked EXCEPT ![k] = now]
      /\ last_sweep \in Nat
      /\ last_sweep' = IF SweepDue THEN now ELSE last_sweep
  <2>0. now' = now
    BY DEF Check
  <2>1. /\ now \in Nat /\ now - Window \in Int
        /\ h \in Times /\ Cap[k][d] \in Nat
        /\ asked \in [Senders -> Nat] /\ last_sweep \in Nat
    BY WindowAssumption, CapAssumption DEF LimiterInv, TypeOK, Windows
  <2>2. Len(h) \in Nat /\ \A i \in 1 .. Len(h) : h[i] \in Nat
    BY <2>1 DEF Times
  <2>3. /\ asked' = [asked EXCEPT ![k] = now]
        /\ last_sweep' = IF SweepDue THEN now ELSE last_sweep
    BY DEF Check
  <2> QED
    BY <2>0, <2>1, <2>2, <2>3
<1>1. PICK m \in 0 .. Len(h) :
        /\ Deque(k, d) = SubSeq(h, m + 1, Len(h))
        /\ \A i \in 1 .. m : h[i] < now - Window
        /\ Len(Deque(k, d)) = Len(h) - m
        /\ Deque(k, d) \in Times
        /\ Len(Deque(k, d)) <= Cap[k][d]
  BY DequeProperties
<1>2. /\ Append(h, now) \in Times
      /\ Len(Append(h, now)) = Len(h) + 1
      /\ Append(h, now)[Len(h) + 1] = now
      /\ \A i \in 1 .. Len(h) : Append(h, now)[i] = h[i]
  BY <1>0 DEF Times
<1>3. /\ DequeAfter(k, d) \in Times
      /\ Len(DequeAfter(k, d)) <= Cap[k][d]
  <2>1. CASE Allows(k, d)
    <3>1. /\ Append(Deque(k, d), now) \in Times
          /\ Len(Append(Deque(k, d), now)) = Len(Deque(k, d)) + 1
      BY <1>0, <1>1 DEF Times
    <3>2. Len(Deque(k, d)) < Cap[k][d] /\ Len(Deque(k, d)) \in Nat
      BY <2>1, <1>1 DEF Allows, Times
    <3> QED
      BY <2>1, <3>1, <3>2, <1>0 DEF DequeAfter
  <2>2. CASE ~Allows(k, d)
    BY <2>2, <1>1 DEF DequeAfter
  <2> QED
    BY <2>1, <2>2
<1>4. TypeOK'
  <2>1. DOMAIN state' \subseteq Senders
    BY <1>e DEF LimiterInv, TypeOK
  <2>2. state' \in [DOMAIN state' -> Windows]
    BY <1>e, <1>3 DEF Windows
  <2>3. ASSUME NEW j \in DOMAIN state', NEW e \in Kinds
        PROVE  Len(state'[j][e]) <= Cap[j][e]
    <3>1. j \in Senders /\ state'[j][e] = Held(j, e)'
      BY <2>1 DEF Held
    <3>2. CASE j = k /\ e = d
      BY <3>1, <3>2, <1>3, <1>e
    <3>3. CASE ~(j = k /\ e = d)
      BY <3>1, <3>3, <1>e, LeftProperties
    <3> QED
      BY <3>2, <3>3
  <2>4. granted' \in [Senders -> Windows]
    BY <1>0, <1>2 DEF LimiterInv, TypeOK, Windows, Check
  <2>5. last_sweep' \in Nat /\ verdict' \in BOOLEAN /\ asked' \in [Senders -> Nat]
    BY <1>0 DEF Check, Allows
  <2> QED
    BY <1>0, <2>1, <2>2, <2>3, <2>4, <2>5 DEF TypeOK
<1>5. History'
  <2> SUFFICES ASSUME NEW j \in Senders, NEW e \in Kinds
               PROVE  Ordered(granted'[j][e], asked'[j])
    BY DEF History
  <2>1. /\ Ordered(granted[j][e], asked[j]) /\ asked[j] <= now
        /\ asked[j] \in Nat /\ granted[j][e] \in Times
    BY <1>0 DEF LimiterInv, TypeOK, Windows, History, Sweeps
  <2>2. Ordered(granted[j][e], asked'[j])
    <3>1. \A i \in 1 .. Len(granted[j][e]) : granted[j][e][i] \in Nat
      BY <2>1 DEF Times
    <3>2. asked[j] <= asked'[j] /\ asked'[j] \in Nat
      BY <1>0, <2>1
    <3> QED
      BY <2>1, <3>1, <3>2 DEF Ordered
  <2>3. CASE j = k /\ e = d /\ Allows(k, d)
    <3>1. granted'[j][e] = Append(h, now) /\ asked'[j] = now
      BY <2>3, <1>0, <1>e
    <3> QED
      BY <3>1, <2>1, <2>3, <1>0, AppendKeepsOrdered
  <2>4. CASE ~(j = k /\ e = d /\ Allows(k, d))
    <3>1. granted'[j][e] = granted[j][e]
      BY <2>4, <1>e
    <3> QED
      BY <3>1, <2>2
  <2> QED
    BY <2>3, <2>4
<1>6. Remembered'
  <2> SUFFICES ASSUME NEW j \in Senders, NEW e \in Kinds
               PROVE  SuffixFrom(granted'[j][e], Held(j, e)', now - Window)
    BY <1>0 DEF Remembered
  <2>1. CASE ~(j = k /\ e = d)
    BY <2>1, <1>e, LeftProperties
  <2>2. CASE j = k /\ e = d /\ ~Allows(k, d)
    <3>1. granted'[j][e] = h /\ Held(j, e)' = Deque(k, d)
      BY <2>2, <1>e DEF DequeAfter
    <3> QED
      BY <3>1, <1>1 DEF SuffixFrom
  <2>3. CASE j = k /\ e = d /\ Allows(k, d)
    <3>1. /\ granted'[j][e] = Append(h, now)
          /\ Held(j, e)' = Append(Deque(k, d), now)
      BY <2>3, <1>e DEF DequeAfter
    <3>2. Append(Deque(k, d), now)
            = SubSeq(Append(h, now), m + 1, Len(Append(h, now)))
      BY <1>0, <1>1, AppendToSuffix
    <3>3. m \in 0 .. Len(Append(h, now))
          /\ \A i \in 1 .. m : Append(h, now)[i] < now - Window
      BY <1>0, <1>1, <1>2
    <3> QED
      BY <3>1, <3>2, <3>3 DEF SuffixFrom
  <2> QED
    BY <2>1, <2>2, <2>3
<1>7. Sweeps'
  <2>4. last_sweep <= now /\ last_sweep' <= now
    BY <1>0 DEF LimiterInv, Sweeps
  <2>0. /\ \A j \in Senders : asked[j] \in Nat /\ asked[j] <= now
                                /\ asked[j] < last_sweep + SweepInterval
        /\ \A j \in DOMAIN state : j \in Senders /\ asked[j] >= last_sweep - Window
        /\ SweepInterval \in Nat \ {0} /\ Window \in Nat \ {0}
    BY <1>0, SweepAssumption, WindowAssumption DEF LimiterInv, Sweeps, TypeOK
  <2>1. \A j \in Senders : asked'[j] <= now
    BY <1>0, <2>0
  <2>2. \A j \in Senders : asked'[j] < last_sweep' + SweepInterval
    <3>1. CASE SweepDue
      BY <3>1, <1>0, <2>0, <2>1
    <3>2. CASE ~SweepDue
      <4>1. now < last_sweep + SweepInterval
        BY <3>2, <1>0, <2>0 DEF SweepDue
      <4> QED
        BY <4>1, <3>2, <1>0, <2>0
    <3> QED
      BY <3>1, <3>2
  <2>3. ASSUME NEW j \in DOMAIN state' PROVE asked'[j] >= last_sweep' - Window
    <3>1. CASE j = k
      <4>1. asked'[j] = now
        BY <3>1, <1>0
      <4>2. last_sweep' \in Nat /\ last_sweep' <= now
        BY <1>0, <2>4
      <4> QED
        BY <4>1, <4>2, <1>0, <2>0
    <3>2. CASE j # k /\ SweepDue
      <4>1. j \in DOMAIN Swept /\ j \in DOMAIN state
        BY <3>2, <1>e
      <4>2. Live(state[j])
        BY <4>1, <3>2 DEF Swept
      <4>3. asked'[j] = asked[j] /\ last_sweep' = now
        BY <4>1, <3>2, <1>0, <2>0
      <4> QED
        BY <4>1, <4>2, <4>3, LiveHasAsked
    <3>3. CASE j # k /\ ~SweepDue
      <4>1. j \in DOMAIN state
        BY <3>3, <1>e
      <4> QED
        BY <4>1, <3>3, <1>0, <2>0
    <3> QED
      BY <3>1, <3>2, <3>3
  <2> QED
    BY <1>0, <2>1, <2>2, <2>3, <2>4 DEF Sweeps
<1>8. QuotaHeld'
  <2> SUFFICES ASSUME NEW j \in Senders, NEW e \in Kinds
               PROVE  Spaced(granted'[j][e], Cap[j][e])
    BY DEF QuotaHeld, Spaced
  <2>0. Spaced(granted[j][e], Cap[j][e])
    BY DEF LimiterInv, QuotaHeld, Spaced
  <2>1. CASE ~(j = k /\ e = d /\ Allows(k, d))
    BY <2>0, <2>1, <1>e
  <2>2. CASE j = k /\ e = d /\ Allows(k, d)
    <3>1. granted'[j][e] = Append(h, now)
      BY <2>2, <1>e
    <3>2. Len(h) - m < Cap[k][d]
      BY <2>2, <1>1 DEF Allows
    <3> QED
      BY <3>1, <3>2, <2>0, <2>2, <1>0, <1>1, AppendKeepsSpaced
  <2> QED
    BY <2>1, <2>2
<1> QED
  BY <1>4, <1>5, <1>6, <1>7, <1>8 DEF LimiterInv

(* A later clock only makes more of the dropped stamps too old.            *)
LEMMA TickKeepsInv == LimiterInv /\ Tick => LimiterInv'
<1> SUFFICES ASSUME LimiterInv, Tick PROVE LimiterInv'
  OBVIOUS
<1>1. /\ now \in Nat /\ now' = now + 1
      /\ UNCHANGED <<state, last_sweep, verdict, granted, asked>>
  BY DEF LimiterInv, TypeOK, Tick
<1>2. TypeOK' /\ History' /\ QuotaHeld'
  BY <1>1 DEF LimiterInv, TypeOK, History, QuotaHeld
<1>3. Sweeps'
  BY <1>1 DEF LimiterInv, TypeOK, Sweeps
<1>4. Remembered'
  <2> SUFFICES ASSUME NEW k \in Senders, NEW d \in Kinds
               PROVE  SuffixFrom(granted[k][d], Held(k, d), now' - Window)
    BY <1>1 DEF Remembered, Held
  <2>1. /\ SuffixFrom(granted[k][d], Held(k, d), now - Window)
        /\ granted[k][d] \in Times
    BY DEF LimiterInv, TypeOK, Windows, Remembered
  <2>2. PICK m \in 0 .. Len(granted[k][d]) :
          /\ Held(k, d) = SubSeq(granted[k][d], m + 1, Len(granted[k][d]))
          /\ \A i \in 1 .. m : granted[k][d][i] < now - Window
    BY <2>1 DEF SuffixFrom
  <2>3. \A i \in 1 .. m : granted[k][d][i] < now' - Window
    <3>1. \A i \in 1 .. m : granted[k][d][i] \in Nat
      BY <2>1 DEF Times
    <3> QED
      BY <3>1, <2>2, <1>1, WindowAssumption
  <2> QED
    BY <2>2, <2>3 DEF SuffixFrom
<1> QED
  BY <1>2, <1>3, <1>4 DEF LimiterInv

LEMMA LimiterStep == LimiterInv /\ [Next]_vars => LimiterInv'
<1> SUFFICES ASSUME LimiterInv, [Next]_vars PROVE LimiterInv'
  OBVIOUS
<1>1. CASE UNCHANGED vars
  BY <1>1 DEF vars, LimiterInv, TypeOK, History, Remembered, Held, Sweeps,
              QuotaHeld
<1> QED
  BY <1>1, CheckKeepsInv, TickKeepsInv DEF Next

(* The limiter invariant, by induction over the steps.                     *)
LEMMA LimiterInvariant == Spec => []LimiterInv
BY LimiterStep, InitInv, PTL DEF Spec

-----------------------------------------------------------------------------
(* The windows, histories and the sweep time keep their types, and no deque *)
(* ever holds more stamps than its limit.                                  *)
THEOREM LimiterTypeCorrect == Spec => []TypeOK
BY LimiterInvariant, PTL DEF LimiterInv

(* No sender gets more than its limit in any window, for any senders,      *)
(* limits, window and sweep interval: the sweep that drops idle senders    *)
(* hands nobody a second quota.                                            *)
THEOREM QuotaAlwaysHeld == Spec => []QuotaHeld
BY LimiterInvariant, PTL DEF LimiterInv

(* The table is bounded by the senders of the last window and sweep        *)
(* interval before the most recent request.                                *)
THEOREM IdleAlwaysForgotten == Spec => []IdleForgotten
<1>1. LimiterInv => IdleForgotten
  BY WindowAssumption, SweepAssumption
     DEF LimiterInv, Sweeps, TypeOK, IdleForgotten
<1> QED
  BY <1>1, LimiterInvariant, PTL

-----------------------------------------------------------------------------
(* The deque is as long as the history has grants inside the window.       *)
LEMMA DequeCountsRecent ==
    ASSUME LimiterInv, NEW k \in Senders, NEW d \in Kinds
    PROVE  Cardinality(Promise!Recent(k, d)) = Len(Deque(k, d))
<1> DEFINE h == granted[k][d]
<1>1. PICK m \in 0 .. Len(h) :
        /\ \A i \in 1 .. m : h[i] < now - Window
        /\ m < Len(h) => h[m + 1] >= now - Window
        /\ Len(Deque(k, d)) = Len(h) - m
  BY DequeProperties
<1>2. /\ Len(h) \in Nat /\ \A i \in 1 .. Len(h) : h[i] \in Nat
      /\ now - Window \in Int
      /\ \A i, j \in 1 .. Len(h) : i <= j => h[i] <= h[j]
  BY WindowAssumption DEF LimiterInv, TypeOK, Windows, Times, History, Ordered
<1>3. Promise!Recent(k, d) = (m + 1) .. Len(h)
  <2>1. ASSUME NEW i \in 1 .. Len(h), h[i] >= now - Window
        PROVE  i \in (m + 1) .. Len(h)
    BY <2>1, <1>1, <1>2
  <2>2. ASSUME NEW i \in (m + 1) .. Len(h)
        PROVE  i \in 1 .. Len(h) /\ h[i] >= now - Window
    <3>1. m + 1 \in 1 .. Len(h) /\ i \in 1 .. Len(h) /\ m + 1 <= i
      BY <1>2
    <3>2. h[m + 1] >= now - Window /\ h[m + 1] <= h[i]
      BY <3>1, <1>1, <1>2
    <3> QED
      BY <3>1, <3>2, <1>2
  <2> QED
    BY <2>1, <2>2 DEF Promise!Recent
<1>4. Cardinality((m + 1) .. Len(h)) = Len(h) - m
  <2>1. m + 1 \in Int /\ Len(h) \in Int
    BY <1>2
  <2>2. Cardinality((m + 1) .. Len(h))
          = IF m + 1 > Len(h) THEN 0 ELSE Len(h) - (m + 1) + 1
    BY <2>1, FS_Interval
  <2> QED
    BY <2>2, <1>2
<1> QED
  BY <1>1, <1>3, <1>4

(* The limiter with its deques and sweeps implements the quota that        *)
(* remembers everything.                                                   *)
THEOREM ImplementsQuota == Spec => KeepsPromise
<1>1. Init => Promise!Init
  BY DEF Init, Promise!Init, NewWindow
<1>2. LimiterInv /\ [Next]_vars => [Promise!Next]_Promise!vars
  <2> SUFFICES ASSUME LimiterInv, [Next]_vars
               PROVE  [Promise!Next]_Promise!vars
    OBVIOUS
  <2>1. ASSUME NEW k \in Senders, NEW d \in Kinds, Check(k, d)
        PROVE  Promise!Grant(k, d) \/ Promise!Deny(k, d)
    <3>0. Promise!Cardinality(Promise!Recent(k, d)) = Len(Deque(k, d))
      BY DequeCountsRecent DEF Cardinality, Promise!Cardinality
    <3>1. Len(Deque(k, d)) \in Nat /\ Cap[k][d] \in Nat
      BY DequeProperties, CapAssumption DEF Times
    <3>2. CASE Allows(k, d)
      BY <2>1, <3>0, <3>1, <3>2 DEF Check, Allows, Promise!Grant
    <3>3. CASE ~Allows(k, d)
      <4>1. Allows(k, d) = FALSE /\ Len(Deque(k, d)) >= Cap[k][d]
        BY <3>1, <3>3 DEF Allows
      <4>2. verdict' = FALSE /\ UNCHANGED <<now, granted>>
        BY <2>1, <4>1 DEF Check
      <4> QED
        BY <3>0, <4>1, <4>2 DEF Promise!Deny
    <3> QED
      BY <3>2, <3>3
  <2>2. CASE Tick
    BY <2>2 DEF Tick, Promise!Tick, Promise!Next
  <2>3. CASE UNCHANGED vars
    BY <2>3 DEF vars, Promise!vars
  <2> QED
    BY <2>1, <2>2, <2>3 DEF Next, Promise!Next
<1> QED
  BY <1>1, <1>2, LimiterInvariant, PTL DEF Spec, KeepsPromise, Promise!Spec

-----------------------------------------------------------------------------
(* Characters.  c[k] are those of the first k sentences.                   *)
CharsUpto(c, s) ==
    /\ c[0] = 0
    /\ \A k \in Nat : k < Len(s) => c[k + 1] = c[k] + s[k + 1]

CharSum(g, s) ==
    g = [T \in SUBSET DOMAIN s |-> IF T = {} THEN 0 ELSE g[T \ {Max(T)}] + s[Max(T)]]

LEMMA CharsFolded ==
    ASSUME NEW s \in Seq(Nat)
    PROVE  \E g : CharSum(g, s) /\ Chars(s) = g[DOMAIN s]
<1> DEFINE n == Len(s)
           step == [p \in Nat \X (1 .. n) |-> p[1] + s[p[2]]]
<1>1. n \in Nat /\ DOMAIN s = 1 .. n /\ \A i \in 1 .. n : s[i] \in Nat
  OBVIOUS
<1>2. step \in [Nat \X (1 .. n) -> Nat] /\ 0 \in Nat
  BY <1>1
<1>a. PICK g \in [SUBSET (1 .. n) -> Nat] : FoldsUp(g, 1 .. n, 0, step)
  <2> HIDE DEF n, step
  <2> QED
    BY <1>1, <1>2, FoldedUpwards
<1>3. \A T \in SUBSET (1 .. n) :
          g[T] = IF T = {} THEN 0 ELSE step[<<g[T \ {Max(T)}], Max(T)>>]
  BY <1>a DEF FoldsUp
<1>4. ASSUME NEW T \in SUBSET (1 .. n)
      PROVE  g[T] = IF T = {} THEN 0 ELSE g[T \ {Max(T)}] + s[Max(T)]
  <2>1. CASE T = {}
    BY <1>3, <2>1
  <2>2. CASE T # {}
    <3>1. Max(T) \in T
      <4>1. IsFiniteSet(1 .. n) /\ T \in SUBSET Int
        BY <1>1, FS_Interval
      <4>2. IsFiniteSet(T)
        <5> DEFINE N == 1 .. n
        <5>1. IsFiniteSet(N) /\ T \in SUBSET N
          BY <4>1
        <5> HIDE DEF N
        <5> QED
          BY <5>1, FS_Subset
      <4> QED
        BY <2>2, <4>1, <4>2, MaxIs
    <3> DEFINE m == Max(T)
    <3>2. m \in 1 .. n /\ T \ {m} \in SUBSET (1 .. n)
      BY <3>1
    <3>3. g[T] = step[<<g[T \ {m}], m>>]
      BY <1>3, <2>2
    <3> HIDE DEF m
    <3>4. g[T \ {m}] \in Nat
      BY <3>2
    <3>5. step[<<g[T \ {m}], m>>] = g[T \ {m}] + s[m]
      BY <3>2, <3>4
    <3>6. g[T] = g[T \ {m}] + s[m]
      BY <3>3, <3>5
    <3> QED
      BY <2>2, <3>6 DEF m
  <2> QED
    BY <2>1, <2>2
<1>5. CharSum(g, s)
  <2>1. g = [T \in SUBSET (1 .. n) |-> g[T]]
    BY <1>3
  <2> QED
    BY <1>1, <1>4, <2>1 DEF CharSum
<1> DEFINE h == CHOOSE h : CharSum(h, s)
<1>6. CharSum(h, s)
  BY <1>5
<1>7. h = CHOOSE iter : iter = [T \in SUBSET DOMAIN s |->
                                    IF T = {} THEN 0 ELSE iter[T \ {Max(T)}] + s[Max(T)]]
  BY DEF CharSum
<1>8. Chars(s) = h[DOMAIN s]
  BY <1>7 DEF Chars, FoldLeft, MapThenFoldSet
<1> QED
  BY <1>6, <1>8

LEMMA CharsAre ==
    ASSUME NEW s \in Seq(Nat)
    PROVE  \E c \in [0 .. Len(s) -> Nat] : CharsUpto(c, s) /\ Chars(s) = c[Len(s)]
<1> DEFINE n == Len(s)
<1>1. n \in Nat /\ DOMAIN s = 1 .. n /\ \A i \in 1 .. n : s[i] \in Nat
  OBVIOUS
<1>2. PICK g : CharSum(g, s) /\ Chars(s) = g[DOMAIN s]
  BY CharsFolded
<1>3. g[1 .. 0] = 0
  <2>1. 1 .. 0 = {}
    OBVIOUS
  <2> QED
    BY <1>2, <2>1 DEF CharSum
<1>4. ASSUME NEW k \in Nat, k < n PROVE g[1 .. (k + 1)] = g[1 .. k] + s[k + 1]
  <2> DEFINE N == 1 .. n
             T == 1 .. (k + 1)
  <2>1. T \in SUBSET N /\ T # {} /\ Max(T) = k + 1 /\ T \ {k + 1} = 1 .. k
    BY <1>1, <1>4, FoldedFirst
  <2>2. DOMAIN s = N
    BY <1>1
  <2> HIDE DEF N, T
  <2>3. g[T] = g[T \ {Max(T)}] + s[Max(T)]
    BY <1>2, <2>1, <2>2 DEF CharSum
  <2> QED
    BY <2>1, <2>3 DEF T
<1> DEFINE G == {k \in Nat : k <= n => g[1 .. k] \in Nat}
<1>5. \A k \in 0 .. n : k \in G
  <2>1. 0 \in G
    BY <1>3
  <2>2. \A k \in Nat : k < n /\ k \in G => k + 1 \in G
    BY <1>1, <1>4
  <2> HIDE DEF G, n
  <2> QED
    BY <1>1, <2>1, <2>2, Upwards
<1> DEFINE c == [k \in 0 .. n |-> g[1 .. k]]
<1>6. c \in [0 .. n -> Nat]
  BY <1>5
<1>7. CharsUpto(c, s)
  BY <1>1, <1>3, <1>4 DEF CharsUpto
<1>8. Chars(s) = c[n]
  BY <1>1, <1>2
<1> QED
  BY <1>6, <1>7, <1>8

LEMMA CharsOnly ==
    ASSUME NEW s \in Seq(Nat), NEW c, CharsUpto(c, s)
    PROVE  Chars(s) = c[Len(s)]
<1>1. PICK d \in [0 .. Len(s) -> Nat] : CharsUpto(d, s) /\ Chars(s) = d[Len(s)]
  BY CharsAre
<1> DEFINE n == Len(s)
           G == {k \in Nat : c[k] = d[k]}
<1>2. 0 \in G
  BY <1>1 DEF CharsUpto
<1>3. \A k \in Nat : k < n /\ k \in G => k + 1 \in G
  BY <1>1 DEF CharsUpto
<1>4. n \in Nat
  OBVIOUS
<1>5. \A k \in 0 .. n : k \in G
  <2> HIDE DEF G, n
  <2> QED
    BY <1>2, <1>3, <1>4, Upwards
<1> QED
  BY <1>1, <1>4, <1>5

LEMMA CharsType == \A s \in Seq(Nat) : Chars(s) \in Nat
<1> SUFFICES ASSUME NEW s \in Seq(Nat) PROVE Chars(s) \in Nat
  OBVIOUS
<1>1. PICK c \in [0 .. Len(s) -> Nat] : Chars(s) = c[Len(s)]
  BY CharsAre
<1> QED
  BY <1>1

LEMMA CharsEmpty == Chars(<<>>) = 0
<1>1. <<>> \in Seq(Nat) /\ Len(<<>>) = 0
  OBVIOUS
<1>2. PICK c \in [0 .. Len(<<>>) -> Nat] : CharsUpto(c, <<>>) /\ Chars(<<>>) = c[Len(<<>>)]
  BY <1>1, CharsAre
<1> QED
  BY <1>1, <1>2 DEF CharsUpto

(* The characters of two texts add up.                                     *)
LEMMA CharsConcat ==
    ASSUME NEW s \in Seq(Nat), NEW t \in Seq(Nat)
    PROVE  s \o t \in Seq(Nat) /\ Chars(s \o t) = Chars(s) + Chars(t)
<1> DEFINE m == Len(s)
           n == Len(t)
           u == s \o t
<1>1. /\ u \in Seq(Nat) /\ m \in Nat /\ n \in Nat /\ Len(u) = m + n
      /\ \A i \in 1 .. m : u[i] = s[i]
      /\ \A i \in 1 .. n : u[m + i] = t[i]
  OBVIOUS
<1>9. s \o t = u /\ Len(s) = m /\ Len(t) = n /\ \A i \in 1 .. n : t[i] \in Nat
  OBVIOUS
<1> HIDE DEF u, m, n
<1>2. PICK c \in [0 .. Len(u) -> Nat] : CharsUpto(c, u) /\ Chars(u) = c[Len(u)]
  BY <1>1, CharsAre
<1>3. Chars(s) = c[m]
  <2>1. CharsUpto(c, s)
    <3>1. ASSUME NEW k \in Nat, k < m PROVE c[k + 1] = c[k] + s[k + 1]
      <4>1. k + 1 \in 1 .. m /\ k < Len(u)
        BY <1>1, <3>1
      <4> QED
        BY <1>1, <1>2, <4>1 DEF CharsUpto
    <3> QED
      BY <1>2, <1>9, <3>1 DEF CharsUpto
  <2> QED
    BY <1>9, <2>1, CharsOnly
<1> DEFINE d == [k \in Nat |-> c[m + k] - c[m]]
<1>4. c[m] \in Nat /\ \A k \in Nat : k <= n => c[m + k] \in Nat
  BY <1>1, <1>2
<1>5. CharsUpto(d, t)
  <2>1. d[0] = 0
    BY <1>1, <1>4
  <2>2. ASSUME NEW k \in Nat, k < n PROVE d[k + 1] = d[k] + t[k + 1]
    <3>1. m + k \in Nat /\ m + k < Len(u) /\ k + 1 \in 1 .. n
      BY <1>1, <2>2
    <3>2. c[(m + k) + 1] = c[m + k] + u[(m + k) + 1]
      BY <1>2, <3>1 DEF CharsUpto
    <3>3. (m + k) + 1 = m + (k + 1)
      BY <1>1
    <3>4. u[m + (k + 1)] = t[k + 1]
      BY <1>1, <3>1
    <3>a. k <= n /\ k + 1 \in Nat /\ k + 1 <= n
      BY <1>1, <2>2
    <3>5. c[m + k] \in Nat /\ c[m + (k + 1)] \in Nat /\ t[k + 1] \in Nat
      <4>1. c[m + k] \in Nat
        BY <1>4, <3>a
      <4>2. c[m + (k + 1)] \in Nat
        BY <1>4, <3>a
      <4>3. t[k + 1] \in Nat
        BY <1>9, <3>1
      <4> QED
        BY <4>1, <4>2, <4>3
    <3>6. c[m + (k + 1)] = c[m + k] + t[k + 1]
      BY <3>2, <3>3, <3>4
    <3>7. d[k + 1] = c[m + (k + 1)] - c[m] /\ d[k] = c[m + k] - c[m]
      BY <2>2
    <3> HIDE DEF d
    <3> QED
      BY <1>4, <3>5, <3>6, <3>7
  <2> QED
    BY <1>9, <2>1, <2>2 DEF CharsUpto
<1>6. Chars(t) = d[n]
  <2> HIDE DEF d
  <2> QED
    BY <1>5, <1>9, CharsOnly
<1>7. d[n] = c[m + n] - c[m] /\ c[m + n] \in Nat
  BY <1>1, <1>4
<1> QED
  BY <1>1, <1>2, <1>3, <1>4, <1>6, <1>7, <1>9

-----------------------------------------------------------------------------
(* Flattening, step by step: f[k] is what the first k sequences make up.   *)
FlatUpto(f, ss) ==
    /\ f[0] = <<>>
    /\ \A k \in Nat : k < Len(ss) => f[k + 1] = f[k] \o ss[k + 1]

Flattens(f, ss) ==
    f = [i \in 1 .. Len(ss) |-> IF i = 1 THEN ss[i] ELSE f[i - 1] \o ss[i]]

Texted == Seq(Nat)

LEMMA FlatExists ==
    ASSUME NEW ss \in Seq(Texted)
    PROVE  \E f \in [0 .. Len(ss) -> Texted] : FlatUpto(f, ss)
<1> DEFINE n == Len(ss)
           N == 1 .. n
           step == [p \in Texted \X N |-> p[1] \o ss[p[2]]]
<1>1. n \in Nat /\ \A i \in N : ss[i] \in Texted
  OBVIOUS
<1>2. \A a, b \in Texted : a \o b \in Texted
  BY DEF Texted
<1>3. <<>> \in Texted
  BY DEF Texted
<1>4. step \in [Texted \X N -> Texted]
  <2> HIDE DEF N
  <2> QED
    BY <1>1, <1>2
<1>5. PICK g \in [SUBSET N -> Texted] : FoldsUp(g, N, <<>>, step)
  <2> HIDE DEF n, step
  <2> QED
    BY <1>1, <1>3, <1>4, FoldedUpwards
<1> DEFINE f == [k \in 0 .. n |-> g[1 .. k]]
<1>6. \A k \in 0 .. n : 1 .. k \in SUBSET N /\ g[1 .. k] \in Texted
  BY <1>1, <1>5
<1>7. f[0] = <<>>
  <2>1. 1 .. 0 = {} /\ {} \in SUBSET N
    OBVIOUS
  <2>2. g[{}] = <<>>
    BY <2>1, <1>5 DEF FoldsUp
  <2> QED
    BY <1>1, <2>1, <2>2
<1>8. ASSUME NEW k \in Nat, k < n PROVE f[k + 1] = f[k] \o ss[k + 1]
  <2> DEFINE T == 1 .. (k + 1)
             R == 1 .. k
  <2>1. T \in SUBSET N /\ T # {} /\ Max(T) = k + 1 /\ T \ {k + 1} = R /\ k + 1 \in N
    BY <1>1, <1>8, FoldedFirst
  <2>2. f[k + 1] = g[T] /\ f[k] = g[R] /\ g[R] \in Texted
    BY <1>1, <1>6, <1>8
  <2> HIDE DEF T, R, N, f
  <2>3. g[T] = step[<<g[R], k + 1>>]
    <3> HIDE DEF step
    <3> QED
      BY <1>5, <2>1 DEF FoldsUp
  <2>4. step[<<g[R], k + 1>>] = g[R] \o ss[k + 1]
    BY <2>1, <2>2
  <2> QED
    BY <2>2, <2>3, <2>4
<1>9. f \in [0 .. n -> Texted]
  BY <1>6
<1> QED
  BY <1>7, <1>8, <1>9 DEF FlatUpto

LEMMA FlatIs ==
    ASSUME NEW ss \in Seq(Texted), NEW f \in [0 .. Len(ss) -> Texted], FlatUpto(f, ss)
    PROVE  FlattenSeq(ss) = f[Len(ss)]
<1> DEFINE n == Len(ss)
           g == [i \in 1 .. n |-> f[i]]
           h == CHOOSE h : Flattens(h, ss)
<1>1. n \in Nat /\ \A i \in 1 .. n : ss[i] \in Texted
  OBVIOUS
<1>2. CASE n = 0
  <2>1. ss = <<>>
    BY <1>2
  <2>2. FlattenSeq(ss) = ss
    BY <1>2 DEF FlattenSeq
  <2> QED
    BY <1>2, <2>1, <2>2 DEF FlatUpto
<1>3. CASE n # 0
  <2>1. ASSUME NEW i \in 1 .. n
        PROVE  g[i] = IF i = 1 THEN ss[i] ELSE g[i - 1] \o ss[i]
    <3>1. i - 1 \in Nat /\ i - 1 < n /\ (i - 1) + 1 = i
      BY <1>1
    <3>2. f[i] = f[i - 1] \o ss[i]
      BY <3>1 DEF FlatUpto
    <3>3. CASE i = 1
      <4>1. f[0] = <<>> /\ ss[1] \in Seq(Nat)
        BY <1>1, <3>3 DEF FlatUpto, Texted
      <4>2. <<>> \o ss[1] = ss[1]
        BY <4>1
      <4>3. f[i - 1] = <<>> /\ g[i] = f[i]
        BY <3>3, <4>1
      <4> HIDE DEF g
      <4> QED
        BY <3>2, <3>3, <4>2, <4>3
    <3>4. CASE i # 1
      <4>1. i - 1 \in 1 .. n
        BY <1>1, <3>4
      <4>2. g[i - 1] = f[i - 1] /\ g[i] = f[i]
        BY <4>1
      <4> HIDE DEF g
      <4> QED
        BY <3>2, <3>4, <4>2
    <3> QED
      BY <3>3, <3>4
  <2>2. Flattens(g, ss)
    <3>1. g = [i \in 1 .. n |-> g[i]]
      OBVIOUS
    <3> HIDE DEF g
    <3> QED
      BY <2>1, <3>1 DEF Flattens
  <2>3. Flattens(h, ss)
    BY <2>2
  <2>4. h = CHOOSE flatten : flatten = [i \in 1 .. Len(ss) |->
                IF i = 1 THEN ss[i] ELSE flatten[i - 1] \o ss[i]]
    BY DEF Flattens
  <2>5. FlattenSeq(ss) = h[Len(ss)]
    BY <1>3, <2>4 DEF FlattenSeq
  <2> HIDE DEF h
  <2> DEFINE G == {k \in Nat : k = 0 \/ h[k] = g[k]}
  <2>6. \A k \in 0 .. n : k \in G
    <3>1. ASSUME NEW k \in Nat, k < n, k \in G PROVE k + 1 \in G
      <4>1. k + 1 \in 1 .. n
        BY <1>1, <3>1
      <4>2. /\ h[k + 1] = IF k + 1 = 1 THEN ss[k + 1] ELSE h[(k + 1) - 1] \o ss[k + 1]
            /\ g[k + 1] = IF k + 1 = 1 THEN ss[k + 1] ELSE g[(k + 1) - 1] \o ss[k + 1]
        <5> HIDE DEF g
        <5> QED
          BY <2>1, <2>3, <4>1 DEF Flattens
      <4>3. (k + 1) - 1 = k /\ (k + 1 # 1 => k # 0)
        OBVIOUS
      <4>4. k # 0 => h[k] = g[k]
        BY <3>1
      <4> HIDE DEF g
      <4>5. h[k + 1] = g[k + 1]
        BY <4>2, <4>3, <4>4
      <4> QED
        BY <4>5
    <3>2. 0 \in G
      OBVIOUS
    <3>3. \A k \in Nat : k < n /\ k \in G => k + 1 \in G
      BY <3>1
    <3> HIDE DEF G, n
    <3> QED
      BY <1>1, <3>2, <3>3, Upwards
  <2>7. h[n] = g[n]
    <3>1. n \in 0 .. n
      BY <1>1
    <3>2. n \in G
      BY <2>6, <3>1
    <3> QED
      BY <1>3, <3>2
  <2>8. g[n] = f[n]
    BY <1>1, <1>3
  <2> HIDE DEF g
  <2> QED
    BY <2>5, <2>7, <2>8
<1> QED
  BY <1>2, <1>3

LEMMA FlatType == \A ss \in Seq(Texted) : FlattenSeq(ss) \in Texted
<1> SUFFICES ASSUME NEW ss \in Seq(Texted) PROVE FlattenSeq(ss) \in Texted
  OBVIOUS
<1>1. PICK f \in [0 .. Len(ss) -> Texted] : FlatUpto(f, ss)
  BY FlatExists
<1>2. FlattenSeq(ss) = f[Len(ss)] /\ Len(ss) \in Nat
  BY <1>1, FlatIs
<1> QED
  BY <1>1, <1>2

LEMMA FlatEmpty == FlattenSeq(<<>>) = <<>>
  BY DEF FlattenSeq

(* A sequence more makes up its text more.                                 *)
LEMMA FlatAppend ==
    ASSUME NEW ss \in Seq(Texted), NEW t \in Texted
    PROVE  FlattenSeq(Append(ss, t)) = FlattenSeq(ss) \o t
<1> DEFINE n == Len(ss)
           tt == Append(ss, t)
<1>1. /\ n \in Nat /\ tt \in Seq(Texted) /\ Len(tt) = n + 1 /\ tt[n + 1] = t
      /\ \A i \in 1 .. n : tt[i] = ss[i]
  OBVIOUS
<1>a. Len(ss) = n
  OBVIOUS
<1> HIDE DEF n, tt
<1>2. PICK f \in [0 .. Len(tt) -> Texted] : FlatUpto(f, tt)
  BY <1>1, FlatExists
<1> DEFINE g == [k \in 0 .. n |-> f[k]]
<1>3. g \in [0 .. n -> Texted] /\ g[n] = f[n] /\ g[0] = f[0]
  BY <1>1, <1>2
<1>4. ASSUME NEW k \in Nat, k < n PROVE g[k + 1] = g[k] \o ss[k + 1]
  <2>1. k + 1 \in 1 .. n /\ k < Len(tt) /\ k \in 0 .. n /\ k + 1 \in 0 .. n
    BY <1>1, <1>4
  <2>2. f[k + 1] = f[k] \o tt[k + 1]
    BY <1>2, <2>1 DEF FlatUpto
  <2> QED
    BY <1>1, <2>1, <2>2
<1>5. FlatUpto(g, ss)
  <2> HIDE DEF g
  <2> QED
    BY <1>2, <1>3, <1>4, <1>a DEF FlatUpto
<1>6. FlattenSeq(ss) = f[n]
  <2> HIDE DEF g
  <2> QED
    BY <1>3, <1>5, <1>a, FlatIs
<1>7. FlattenSeq(tt) = f[n + 1]
  BY <1>1, <1>2, FlatIs
<1>8. f[n + 1] = f[n] \o t
  <2>1. n < Len(tt) /\ n \in Nat
    BY <1>1
  <2>2. f[n + 1] = f[n] \o tt[n + 1]
    BY <1>2, <2>1 DEF FlatUpto
  <2> QED
    BY <1>1, <2>2
<1> QED
  BY <1>6, <1>7, <1>8 DEF tt

LEMMA TextsAssociate ==
    \A a, b, c \in Texted : (a \o b) \o c = a \o (b \o c)
  BY ConcatAssociative DEF Texted

(* Taking the first sequence off takes its text off.                       *)
LEMMA FlatTail ==
    ASSUME NEW ss \in Seq(Texted), ss # <<>>
    PROVE  /\ Tail(ss) \in Seq(Texted) /\ Head(ss) \in Texted
           /\ FlattenSeq(ss) = Head(ss) \o FlattenSeq(Tail(ss))
<1> DEFINE n == Len(ss)
           tt == Tail(ss)
           t == Head(ss)
<1>1. /\ n \in Nat \ {0} /\ tt \in Seq(Texted) /\ Len(tt) = n - 1 /\ t \in Texted
      /\ ss[1] = t /\ \A i \in 1 .. n - 1 : tt[i] = ss[i + 1]
  OBVIOUS
<1>a. Len(ss) = n /\ Tail(ss) = tt /\ Head(ss) = t
  OBVIOUS
<1> HIDE DEF n, tt, t
<1>2. PICK f \in [0 .. Len(ss) -> Texted] : FlatUpto(f, ss)
  BY FlatExists
<1>3. PICK h \in [0 .. Len(tt) -> Texted] : FlatUpto(h, tt)
  BY <1>1, FlatExists
<1> DEFINE G == {k \in Nat : k <= n - 1 => f[k + 1] = t \o h[k]}
<1>4. 0 \in G
  <2>a. 0 < Len(ss) /\ 0 \in Nat
    BY <1>1, <1>a
  <2>b. f[0 + 1] = f[0] \o ss[0 + 1]
    BY <1>2, <2>a DEF FlatUpto
  <2>c. f[0] = <<>> /\ h[0] = <<>>
    BY <1>2, <1>3 DEF FlatUpto
  <2>1. f[0] = <<>> /\ h[0] = <<>> /\ f[0 + 1] = f[0] \o ss[0 + 1]
    BY <2>b, <2>c
  <2>2. <<>> \o t = t /\ t \o <<>> = t
    BY <1>1 DEF Texted
  <2>3. f[0 + 1] = t \o h[0]
    BY <1>1, <2>1, <2>2
  <2> QED
    BY <2>3
<1>5. ASSUME NEW k \in Nat, k < n - 1, k \in G PROVE k + 1 \in G
  <2>1. k + 1 \in 1 .. n - 1 /\ k + 1 < n /\ k + 1 \in Nat /\ k \in 0 .. n - 1
    BY <1>1, <1>5
  <2>2. f[(k + 1) + 1] = f[k + 1] \o ss[(k + 1) + 1]
    BY <1>2, <1>a, <2>1 DEF FlatUpto
  <2>3. h[k + 1] = h[k] \o tt[k + 1]
    BY <1>1, <1>3, <1>5 DEF FlatUpto
  <2>4. f[k + 1] = t \o h[k] /\ tt[k + 1] = ss[(k + 1) + 1]
    BY <1>1, <1>5, <2>1
  <2>5. h[k] \in Texted /\ tt[k + 1] \in Texted
    BY <1>1, <1>3, <2>1
  <2>6. (t \o h[k]) \o tt[k + 1] = t \o (h[k] \o tt[k + 1])
    <3> DEFINE a == h[k]
               b == tt[k + 1]
    <3>1. a \in Texted /\ b \in Texted /\ t \in Texted
      BY <1>1, <2>5
    <3> HIDE DEF a, b
    <3>2. (t \o a) \o b = t \o (a \o b)
      BY <3>1, TextsAssociate
    <3> QED
      BY <3>2 DEF a, b
  <2>7. f[(k + 1) + 1] = t \o h[k + 1]
    BY <2>2, <2>3, <2>4, <2>6
  <2> QED
    BY <2>7
<1>6. n - 1 \in Nat
  BY <1>1
<1>7. \A k \in 0 .. n - 1 : k \in G
  <2>1. \A k \in Nat : k < n - 1 /\ k \in G => k + 1 \in G
    BY <1>5
  <2> HIDE DEF G
  <2> QED
    BY <1>4, <1>6, <2>1, Upwards
<1>8. f[(n - 1) + 1] = t \o h[n - 1]
  <2>1. n - 1 \in 0 .. n - 1
    BY <1>6
  <2>2. n - 1 \in G
    BY <1>7, <2>1
  <2> QED
    BY <1>6, <2>2
<1>b. (n - 1) + 1 = n
  BY <1>1
<1>9. FlattenSeq(ss) = f[n] /\ FlattenSeq(tt) = h[n - 1]
  BY <1>1, <1>2, <1>3, <1>a, FlatIs
<1> QED
  BY <1>1, <1>8, <1>9, <1>a, <1>b

(* One sentence.                                                           *)
LEMMA CharsOne == \A n \in Nat : Chars(<<n>>) = n
<1> SUFFICES ASSUME NEW n \in Nat PROVE Chars(<<n>>) = n
  OBVIOUS
<1> DEFINE s == <<n>>
           c == [k \in Nat |-> IF k = 0 THEN 0 ELSE n]
<1>1. s \in Seq(Nat) /\ Len(s) = 1 /\ s[1] = n
  OBVIOUS
<1> HIDE DEF s
<1>2. CharsUpto(c, s)
  <2>1. ASSUME NEW k \in Nat, k < Len(s) PROVE c[k + 1] = c[k] + s[k + 1]
    <3>1. k = 0
      BY <1>1, <2>1
    <3> QED
      BY <1>1, <3>1
  <2> QED
    BY <2>1 DEF CharsUpto
<1>3. Chars(s) = c[1]
  <2> HIDE DEF c
  <2> QED
    BY <1>1, <1>2, CharsOnly
<1> QED
  BY <1>3 DEF s

-----------------------------------------------------------------------------
(* Chunks, as ChunkText collects them.                                     *)
Flush(chunk) == IF chunk = <<>> THEN <<>> ELSE <<chunk>>
NoChunks == [chunks |-> <<>>, current |-> <<>>]
Put(acc, n) ==
    IF n > MaxChars
    THEN [chunks |-> acc.chunks \o Flush(acc.current) \o <<<<n>>>>, current |-> <<>>]
    ELSE IF Chars(acc.current) + n > MaxChars
    THEN [chunks |-> Append(acc.chunks, acc.current), current |-> <<n>>]
    ELSE [acc EXCEPT !.current = Append(@, n)]
Accs == [chunks: Seq(Texted), current: Texted]

(* A chunk is beyond the limit only when it is one sentence.               *)
FitsChunk(c) == Chars(c) <= MaxChars \/ Len(c) = 1
AllFit(chunks) == \A i \in DOMAIN chunks : FitsChunk(chunks[i])

(* What was put so far: all of it, in chunks that fit.                     *)
Puts(acc, text) ==
    /\ acc \in Accs
    /\ FlattenSeq(acc.chunks) \o acc.current = text
    /\ AllFit(acc.chunks) /\ Chars(acc.current) <= MaxChars

LEMMA FitAppend ==
    ASSUME NEW cs \in Seq(Texted), NEW c \in Texted, AllFit(cs), FitsChunk(c)
    PROVE  AllFit(Append(cs, c))
  BY DEF AllFit

(* The collected chunk is flushed.                                         *)
LEMMA Flushed ==
    ASSUME NEW cs \in Seq(Texted), NEW c \in Texted, AllFit(cs), FitsChunk(c)
    PROVE  /\ cs \o Flush(c) \in Seq(Texted)
           /\ FlattenSeq(cs \o Flush(c)) = FlattenSeq(cs) \o c
           /\ AllFit(cs \o Flush(c))
<1>1. CASE c = <<>>
  <2>1. cs \o Flush(c) = cs
    BY <1>1 DEF Flush
  <2>2. FlattenSeq(cs) \o c = FlattenSeq(cs)
    <3>1. FlattenSeq(cs) \in Seq(Nat)
      BY FlatType DEF Texted
    <3> QED
      BY <1>1, <3>1
  <2> QED
    BY <2>1, <2>2
<1>2. CASE c # <<>>
  <2>1. cs \o Flush(c) = Append(cs, c)
    BY <1>2 DEF Flush
  <2> QED
    BY <2>1, FlatAppend, FitAppend
<1> QED
  BY <1>1, <1>2

(* The other way to write Put.                                             *)
LEMMA PutIs ==
    ASSUME NEW acc \in Accs, NEW n \in Nat
    PROVE  Put(acc, n) =
             IF n > MaxChars
             THEN [chunks |-> (acc.chunks \o Flush(acc.current)) \o <<<<n>>>>, current |-> <<>>]
             ELSE IF Chars(acc.current) + n > MaxChars
             THEN [chunks |-> Append(acc.chunks, acc.current), current |-> <<n>>]
             ELSE [chunks |-> acc.chunks, current |-> Append(acc.current, n)]
<1> DEFINE more == Append(acc.current, n)
<1>1. [acc EXCEPT !.current = Append(@, n)] = [acc EXCEPT !.current = more]
  OBVIOUS
<1> HIDE DEF more
<1>2. [acc EXCEPT !.current = more] = [chunks |-> acc.chunks, current |-> more]
  <2>1. acc = [chunks |-> acc.chunks, current |-> acc.current]
    BY DEF Accs
  <2> QED
    BY <2>1
<1>3. [acc EXCEPT !.current = Append(@, n)] =
          [chunks |-> acc.chunks, current |-> Append(acc.current, n)]
  BY <1>1, <1>2 DEF more
<1> QED
  BY <1>3, Zenon DEF Put

LEMMA PutType == \A acc \in Accs, n \in Nat : Put(acc, n) \in Accs
<1> SUFFICES ASSUME NEW acc \in Accs, NEW n \in Nat PROVE Put(acc, n) \in Accs
  OBVIOUS
<1> DEFINE cs == acc.chunks
           c == acc.current
<1>1. cs \in Seq(Texted) /\ c \in Texted
  BY DEF Accs
<1>2. <<n>> \in Texted /\ <<>> \in Texted /\ Append(c, n) \in Texted
  BY <1>1 DEF Texted
<1> DEFINE e == <<n>>
<1>3. cs \o Flush(c) \in Seq(Texted)
  BY <1>1 DEF Flush
<1> DEFINE d == cs \o Flush(c)
<1>4. d \o <<e>> \in Seq(Texted) /\ Append(cs, c) \in Seq(Texted)
  <2>1. d \in Seq(Texted) /\ e \in Texted
    BY <1>2, <1>3
  <2> HIDE DEF d, e
  <2> QED
    BY <1>1, <2>1
<1>5. Put(acc, n) = IF n > MaxChars THEN [chunks |-> d \o <<e>>, current |-> <<>>]
                    ELSE IF Chars(c) + n > MaxChars THEN [chunks |-> Append(cs, c), current |-> e]
                    ELSE [chunks |-> cs, current |-> Append(c, n)]
  BY PutIs
<1> HIDE DEF cs, c, d, e
<1>6. <<>> \in Texted /\ e \in Texted
  BY <1>2 DEF e
<1> QED
  BY <1>1, <1>2, <1>4, <1>5, <1>6 DEF Accs

(* Another sentence is put to the others.                                  *)
LEMMA PutKeeps ==
    ASSUME NEW acc, NEW text \in Texted, NEW n \in Nat, Puts(acc, text)
    PROVE  Puts(Put(acc, n), Append(text, n))
<1> DEFINE cs == acc.chunks
           c == acc.current
           e == <<n>>
           d == cs \o Flush(c)
<1>1. /\ cs \in Seq(Texted) /\ c \in Texted /\ acc \in Accs
      /\ FlattenSeq(cs) \o c = text /\ AllFit(cs) /\ Chars(c) <= MaxChars
  BY DEF Puts, Accs
<1>2. /\ e \in Texted /\ <<>> \in Texted /\ Append(c, n) \in Texted
      /\ Append(text, n) = text \o e /\ Append(c, n) = c \o e
  <2>1. c \in Seq(Nat) /\ text \in Seq(Nat)
    BY <1>1 DEF Texted
  <2> HIDE DEF c
  <2>2. Append(c, n) = c \o e /\ Append(text, n) = text \o e
    BY <2>1, AppendIsConcat
  <2> QED
    BY <2>1, <2>2 DEF Texted
<1>3. Chars(e) = n /\ FitsChunk(e) /\ FitsChunk(c) /\ Chars(<<>>) = 0 /\ Chars(c) \in Nat
  BY <1>1, CharsOne, CharsEmpty, CharsType DEF FitsChunk, Texted
<1>4. d \in Seq(Texted) /\ FlattenSeq(d) = text /\ AllFit(d)
  BY <1>1, <1>3, Flushed
<1>5. Put(acc, n) = IF n > MaxChars THEN [chunks |-> d \o <<e>>, current |-> <<>>]
                    ELSE IF Chars(c) + n > MaxChars THEN [chunks |-> Append(cs, c), current |-> e]
                    ELSE [chunks |-> cs, current |-> Append(c, n)]
  BY <1>1, PutIs
<1>6. Put(acc, n) \in Accs
  BY <1>1, PutType
<1>7. MaxChars \in Nat
  BY SpeakAssumption
<1> HIDE DEF cs, c, d, e
<1>8. CASE n > MaxChars
  <2>1. Put(acc, n).chunks = d \o <<e>> /\ Put(acc, n).current = <<>>
    BY <1>5, <1>8
  <2>2. d \o <<e>> = Append(d, e)
    BY <1>2, <1>4
  <2>3. FlattenSeq(Append(d, e)) = text \o e
    BY <1>2, <1>4, FlatAppend
  <2>4. AllFit(Append(d, e))
    BY <1>2, <1>3, <1>4, FitAppend
  <2>5. (text \o e) \o <<>> = text \o e
    <3>1. text \o e \in Seq(Nat)
      BY <1>2 DEF Texted
    <3> QED
      BY <3>1
  <2>6. Chars(Put(acc, n).current) <= MaxChars
    BY <1>3, <1>7, <2>1
  <2> QED
    BY <1>2, <1>6, <2>1, <2>2, <2>3, <2>4, <2>5, <2>6 DEF Puts
<1>9. CASE n <= MaxChars /\ Chars(c) + n > MaxChars
  <2>1. Put(acc, n).chunks = Append(cs, c) /\ Put(acc, n).current = e
    BY <1>5, <1>7, <1>9
  <2>2. FlattenSeq(Append(cs, c)) = text
    BY <1>1, FlatAppend
  <2>3. AllFit(Append(cs, c))
    BY <1>1, <1>3, FitAppend
  <2> QED
    BY <1>2, <1>3, <1>6, <1>9, <2>1, <2>2, <2>3 DEF Puts
<1>10. CASE n <= MaxChars /\ Chars(c) + n <= MaxChars
  <2>1. Put(acc, n).chunks = cs /\ Put(acc, n).current = Append(c, n)
    BY <1>3, <1>5, <1>7, <1>10
  <2>2. FlattenSeq(cs) \in Texted
    BY <1>1, FlatType
  <2>3. (FlattenSeq(cs) \o c) \o e = FlattenSeq(cs) \o (c \o e)
    BY <1>1, <1>2, <2>2, TextsAssociate
  <2>4. Chars(c \o e) = Chars(c) + n
    BY <1>1, <1>2, <1>3, CharsConcat DEF Texted
  <2> QED
    BY <1>1, <1>2, <1>6, <1>10, <2>1, <2>3, <2>4 DEF Puts
<1> QED
  BY <1>3, <1>7, <1>8, <1>9, <1>10

ChunkFold(g, s) ==
    g = [T \in SUBSET DOMAIN s |->
            IF T = {} THEN NoChunks ELSE Put(g[T \ {Max(T)}], s[Max(T)])]

LEMMA ChunksFolded ==
    ASSUME NEW s \in Texted
    PROVE  \E g : /\ ChunkFold(g, s)
                  /\ ChunkText(s) = g[DOMAIN s].chunks \o Flush(g[DOMAIN s].current)
<1> DEFINE n == Len(s)
           N == 1 .. n
           step == [p \in Accs \X N |-> Put(p[1], s[p[2]])]
<1>1. n \in Nat /\ DOMAIN s = N /\ \A i \in N : s[i] \in Nat
  BY DEF Texted
<1>2. step \in [Accs \X N -> Accs] /\ NoChunks \in Accs
  <2>1. NoChunks \in Accs
    BY DEF NoChunks, Accs, Texted
  <2>2. step \in [Accs \X N -> Accs]
    <3> HIDE DEF N
    <3> QED
      BY <1>1, PutType
  <2> QED
    BY <2>1, <2>2
<1>3. PICK g \in [SUBSET N -> Accs] : FoldsUp(g, N, NoChunks, step)
  <2> HIDE DEF n, step
  <2> QED
    BY <1>1, <1>2, FoldedUpwards
<1>4. ASSUME NEW T \in SUBSET N
      PROVE  g[T] = IF T = {} THEN NoChunks ELSE Put(g[T \ {Max(T)}], s[Max(T)])
  <2>1. CASE T = {}
    BY <1>3, <2>1 DEF FoldsUp
  <2>2. CASE T # {}
    <3>1. Max(T) \in T
      <4>1. IsFiniteSet(N) /\ T \in SUBSET Int
        BY <1>1, FS_Interval
      <4>2. IsFiniteSet(T)
        <5> HIDE DEF N
        <5> QED
          BY <4>1, FS_Subset
      <4> QED
        BY <2>2, <4>1, <4>2, MaxIs
    <3> DEFINE m == Max(T)
    <3>2. m \in N /\ T \ {m} \in SUBSET N
      BY <3>1
    <3>3. g[T] = step[<<g[T \ {m}], m>>]
      <4> HIDE DEF step
      <4> QED
        BY <1>3, <2>2 DEF FoldsUp
    <3> HIDE DEF m, N
    <3>4. g[T \ {m}] \in Accs
      BY <1>3, <3>2
    <3>5. step[<<g[T \ {m}], m>>] = Put(g[T \ {m}], s[m])
      BY <3>2, <3>4
    <3>6. g[T] = Put(g[T \ {m}], s[m])
      BY <3>3, <3>5
    <3> QED
      BY <2>2, <3>6 DEF m
  <2> QED
    BY <2>1, <2>2
<1>5. ChunkFold(g, s)
  <2>1. g = [T \in SUBSET N |-> g[T]]
    BY <1>3
  <2> HIDE DEF N
  <2> QED
    BY <1>1, <1>4, <2>1 DEF ChunkFold
<1> DEFINE h == CHOOSE h : ChunkFold(h, s)
           w == h[DOMAIN s]
<1>6. ChunkFold(h, s)
  BY <1>5
<1>8. ChunkText(s) = w.chunks \o Flush(w.current)
  BY DEF ChunkText, FoldLeft, MapThenFoldSet, Put, Flush, ChunkFold, NoChunks
<1> QED
  BY <1>6, <1>8

(* The chunks of a text make it up, and each fits or is one sentence.      *)
LEMMA ChunksOf ==
    ASSUME NEW s \in Texted
    PROVE  /\ ChunkText(s) \in Seq(Texted)
           /\ FlattenSeq(ChunkText(s)) = s
           /\ AllFit(ChunkText(s))
<1> DEFINE n == Len(s)
<1>1. n \in Nat /\ DOMAIN s = 1 .. n /\ s \in Seq(Nat) /\ \A i \in 1 .. n : s[i] \in Nat
  BY DEF Texted
<1>2. PICK g : ChunkFold(g, s) /\ ChunkText(s) = g[DOMAIN s].chunks \o Flush(g[DOMAIN s].current)
  BY ChunksFolded
<1> DEFINE G == {k \in Nat : k <= n => Puts(g[1 .. k], SubSeq(s, 1, k))}
<1>3. 0 \in G
  <2>1. 1 .. 0 = {} /\ SubSeq(s, 1, 0) = <<>>
    BY <1>1
  <2>2. g[1 .. 0] = NoChunks
    BY <1>2, <2>1 DEF ChunkFold
  <2>3. NoChunks \in Accs /\ NoChunks.chunks = <<>> /\ NoChunks.current = <<>>
    BY DEF NoChunks, Accs, Texted
  <2>4. FlattenSeq(<<>>) \o <<>> = <<>>
    BY FlatEmpty
  <2>5. AllFit(<<>>) /\ Chars(<<>>) <= MaxChars
    BY CharsEmpty, SpeakAssumption DEF AllFit
  <2>6. Puts(g[1 .. 0], SubSeq(s, 1, 0))
    BY <2>1, <2>2, <2>3, <2>4, <2>5 DEF Puts
  <2> QED
    BY <2>6
<1>4. ASSUME NEW k \in Nat, k < n, k \in G PROVE k + 1 \in G
  <2> DEFINE N == 1 .. n
             T == 1 .. (k + 1)
  <2>1. T \in SUBSET N /\ T # {} /\ Max(T) = k + 1 /\ T \ {k + 1} = 1 .. k /\ k + 1 \in N
    BY <1>1, <1>4, FoldedFirst
  <2>2. DOMAIN s = N
    BY <1>1
  <2>3. g[T] = Put(g[1 .. k], s[k + 1])
    <3> HIDE DEF N, T
    <3>1. g[T] = Put(g[T \ {Max(T)}], s[Max(T)])
      BY <1>2, <2>1, <2>2 DEF ChunkFold
    <3> QED
      BY <2>1, <3>1
  <2>4. Puts(g[1 .. k], SubSeq(s, 1, k))
    BY <1>4
  <2>5. s[k + 1] \in Nat /\ SubSeq(s, 1, k) \in Texted
    BY <1>1, <1>4, <2>1 DEF Texted
  <2>6. SubSeq(s, 1, k + 1) = Append(SubSeq(s, 1, k), s[k + 1])
    BY <1>1, <1>4
  <2>7. Puts(g[T], SubSeq(s, 1, k + 1))
    BY <2>3, <2>4, <2>5, <2>6, PutKeeps
  <2> QED
    BY <2>7
<1>5. \A k \in 0 .. n : k \in G
  <2>1. \A k \in Nat : k < n /\ k \in G => k + 1 \in G
    BY <1>4
  <2> HIDE DEF G, n
  <2> QED
    BY <1>1, <1>3, <2>1, Upwards
<1>6. Puts(g[1 .. n], s)
  <2>1. n \in 0 .. n /\ SubSeq(s, 1, n) = s
    BY <1>1
  <2>2. n \in G
    BY <1>5, <2>1
  <2>3. Puts(g[1 .. n], SubSeq(s, 1, n))
    BY <1>1, <2>2
  <2> HIDE DEF n
  <2> QED
    BY <2>1, <2>3
<1> DEFINE acc == g[1 .. n]
<1>7. ChunkText(s) = acc.chunks \o Flush(acc.current)
  BY <1>1, <1>2
<1>8. /\ acc.chunks \in Seq(Texted) /\ acc.current \in Texted /\ AllFit(acc.chunks)
      /\ FitsChunk(acc.current) /\ FlattenSeq(acc.chunks) \o acc.current = s
  BY <1>6 DEF Puts, Accs, FitsChunk
<1> HIDE DEF acc
<1> QED
  BY <1>7, <1>8, Flushed

-----------------------------------------------------------------------------
(* Sums over the requests under way.                                       *)

(* No summand is greater: nor is the sum.                                  *)
LEMMA TotalLess ==
    ASSUME NEW S, IsFiniteSet(S), NEW f, NEW h,
           \A x \in S : f[x] \in Nat /\ h[x] \in Nat /\ f[x] <= h[x]
    PROVE  Total(f, S) <= Total(h, S)
<1> DEFINE B == {T \in SUBSET S : ~(Total(f, T) <= Total(h, T))}
<1>1. ASSUME B # {} PROVE FALSE
  <2>1. B \in SUBSET SUBSET S
    OBVIOUS
  <2>2. PICK T \in B : /\ IsFiniteSet(T) /\ Cardinality(T) \in Nat
                       /\ \A x \in T : T \ {x} \notin B
    <3> HIDE DEF B
    <3> QED
      BY <1>1, <2>1, LeastSubset
  <2>3. T \in SUBSET S /\ ~(Total(f, T) <= Total(h, T))
    OBVIOUS
  <2>4. \A x \in T : f[x] \in Nat /\ h[x] \in Nat /\ f[x] <= h[x]
    BY <2>3
  <2>5. /\ Total(f, T) \in Nat /\ Total(h, T) \in Nat
        /\ T = {} => Total(f, T) = 0 /\ Total(h, T) = 0
        /\ \A x \in T : /\ Total(f, T) = f[x] + Total(f, T \ {x})
                        /\ Total(h, T) = h[x] + Total(h, T \ {x})
                        /\ Total(f, T \ {x}) \in Nat /\ Total(h, T \ {x}) \in Nat
    BY <2>2, <2>4, TotalLaws
  <2>6. PICK x \in T : TRUE
    BY <2>3, <2>5
  <2>7. Total(f, T \ {x}) <= Total(h, T \ {x})
    BY <2>2, <2>3
  <2> QED
    BY <2>3, <2>4, <2>5, <2>6, <2>7
<1>2. S \in SUBSET S /\ S \notin B
  BY <1>1
<1> QED
  BY <1>2

(* Summands of at most m add up to at most m for each.                     *)
LEMMA TotalAtMost ==
    ASSUME NEW S, IsFiniteSet(S), NEW f, NEW m \in Nat,
           \A x \in S : f[x] \in Nat /\ f[x] <= m
    PROVE  Total(f, S) <= Cardinality(S) * m
<1> DEFINE B == {T \in SUBSET S : ~(Total(f, T) <= Cardinality(T) * m)}
<1>1. ASSUME B # {} PROVE FALSE
  <2>1. B \in SUBSET SUBSET S
    OBVIOUS
  <2>2. PICK T \in B : /\ IsFiniteSet(T) /\ Cardinality(T) \in Nat
                       /\ \A x \in T : T \ {x} \notin B
    <3> HIDE DEF B
    <3> QED
      BY <1>1, <2>1, LeastSubset
  <2>3. T \in SUBSET S /\ ~(Total(f, T) <= Cardinality(T) * m)
    OBVIOUS
  <2>4. \A x \in T : f[x] \in Nat /\ f[x] <= m
    BY <2>3
  <2>a. \A x \in T : f[x] \in Nat
    BY <2>4
  <2>5. /\ Total(f, T) \in Nat
        /\ T = {} => Total(f, T) = 0
        /\ \A x \in T : /\ Total(f, T) = f[x] + Total(f, T \ {x})
                        /\ Total(f, T \ {x}) \in Nat
    BY <2>2, <2>a, TotalLaws
  <2>6. T # {}
    <3>1. T = {} => Cardinality(T) * m = 0
      BY FS_EmptySet
    <3> QED
      BY <2>3, <2>5, <3>1
  <2>7. PICK x \in T : TRUE
    BY <2>6
  <2>8. Cardinality(T \ {x}) = Cardinality(T) - 1
    BY <2>2, FS_RemoveElement
  <2>9. Total(f, T \ {x}) <= Cardinality(T \ {x}) * m
    BY <2>2, <2>3
  <2> DEFINE k == Cardinality(T)
             a == k * m
  <2>10. (k - 1) * m = a - m /\ a \in Nat
    BY <2>2
  <2>11. Total(f, T \ {x}) <= a - m
    BY <2>8, <2>9, <2>10
  <2>12. ~(Total(f, T) <= a)
    BY <2>3
  <2> HIDE DEF a, k
  <2>13. f[x] \in Nat /\ f[x] <= m /\ Total(f, T) = f[x] + Total(f, T \ {x})
         /\ Total(f, T \ {x}) \in Nat /\ a \in Nat
    BY <2>4, <2>5, <2>7, <2>10
  <2> QED
    BY <2>11, <2>12, <2>13
<1>2. S \in SUBSET S /\ S \notin B
  BY <1>1
<1> QED
  BY <1>2

(* What one summand adds, if it is counted.                                *)
Share(f, V, s) == IF s \in V THEN f[s] ELSE 0

(* When one summand changes, comes or goes, the sum does so by as much.    *)
LEMMA TotalMoved ==
    ASSUME NEW S, IsFiniteSet(S), NEW f, NEW h, NEW V \in SUBSET S, NEW W \in SUBSET S,
           NEW s \in S, \A x \in S : f[x] \in Nat /\ h[x] \in Nat,
           \A x \in S \ {s} : f[x] = h[x] /\ (x \in V <=> x \in W)
    PROVE  /\ Total(f, V) + Share(h, W, s) = Total(h, W) + Share(f, V, s)
           /\ Total(f, V) \in Nat /\ Total(h, W) \in Nat
           /\ Share(f, V, s) \in Nat /\ Share(h, W, s) \in Nat
<1> DEFINE R == V \ {s}
<1>1. R = W \ {s}
  OBVIOUS
<1>2. IsFiniteSet(V) /\ IsFiniteSet(W) /\ IsFiniteSet(R)
  <2>1. R \in SUBSET S
    OBVIOUS
  <2> HIDE DEF R
  <2> QED
    BY <2>1, FS_Subset
<1>3. \A x \in R : f[x] \in Nat /\ f[x] = h[x]
  OBVIOUS
<1>4. (\A x \in V : f[x] \in Nat) /\ (\A x \in W : h[x] \in Nat)
  OBVIOUS
<1> HIDE DEF R
<1>5. Total(f, R) = Total(h, R)
  BY <1>2, <1>3, TotalSame
<1>6. /\ Total(f, V) \in Nat
      /\ s \in V => Total(f, V) = f[s] + Total(f, R)
      /\ s \notin V => Total(f, V) = Total(f, R)
  <2>1. s \notin V => R = V
    BY DEF R
  <2>2. Total(f, V) \in Nat
    BY <1>2, <1>4, TotalLaws
  <2>3. s \in V => Total(f, V) = f[s] + Total(f, V \ {s})
    BY <1>2, <1>4, TotalLaws
  <2> QED
    BY <2>1, <2>2, <2>3 DEF R
<1>7. /\ Total(h, W) \in Nat
      /\ s \in W => Total(h, W) = h[s] + Total(h, R)
      /\ s \notin W => Total(h, W) = Total(h, R)
  <2>1. s \notin W => R = W
    BY <1>1
  <2>2. Total(h, W) \in Nat
    BY <1>2, <1>4, TotalLaws
  <2>3. s \in W => Total(h, W) = h[s] + Total(h, W \ {s})
    BY <1>2, <1>4, TotalLaws
  <2> QED
    BY <1>1, <2>1, <2>2, <2>3
<1>8. Total(f, R) \in Nat
  <2>1. \A x \in R : f[x] \in Nat
    BY <1>3
  <2> QED
    BY <1>2, <2>1, TotalLaws
<1>9. Share(f, V, s) \in Nat /\ Share(h, W, s) \in Nat
  BY DEF Share
<1>10. Total(f, V) = Share(f, V, s) + Total(f, R)
  BY <1>6, <1>8 DEF Share
<1>11. Total(h, W) = Share(h, W, s) + Total(f, R)
  BY <1>5, <1>7, <1>8 DEF Share
<1> QED
  BY <1>6, <1>7, <1>8, <1>9, <1>10, <1>11

-----------------------------------------------------------------------------
(* The spoken answers: what their progress, the loads of the model and the *)
(* month's counter have in common at all times.                            *)

SpeakSpots == {"idle", "upstream", "starting", "loading", "voicing", "stream", "session"}
SpeakPrefers == {"none", "default", "quality", "streaming", "realtime", "fallback"}
SpeakOutcomes == {"none", "audio", "error"}
Talks ==
    [at: SpeakSpots, prefer: SpeakPrefers, outcome: SpeakOutcomes,
     text: Texts \cup {<<>>}, chunks: Seq(Texted), said: Texted,
     audio: Nat, usage: Nat, sent: Nat, told: Nat, frames: Nat]

(* What a request's progress says of it.  An upstream's chunks make up its *)
(* text with what was said; a session's books agree with what was sent.    *)
TalkInv(r) ==
    /\ r.at = "upstream" => r.prefer = "quality" /\ r.chunks # <<>>
    /\ r.at \in {"starting", "loading", "voicing"} => r.prefer = "default"
    /\ r.at = "stream" => r.prefer = "streaming"
    /\ r.at = "session" => r.prefer = "realtime"
    /\ r.prefer = "quality" /\ (r.at = "upstream" \/ r.outcome = "audio") =>
          r.said \o FlattenSeq(r.chunks) = r.text /\ AllFit(r.chunks)
    /\ r.prefer = "realtime" /\ (r.at = "session" \/ r.outcome = "audio") =>
          r.usage = r.told /\ r.audio = r.sent

TalksInv == speak \in [Speakers -> Talks] /\ \A s \in Speakers : TalkInv(speak[s])

(* Whoever loads the model found it missing.                               *)
Loading == {s \in Speakers : speak[s].at = "loading"}
LoadsInv ==
    /\ pipeline \in BOOLEAN /\ modelLoads \in Nat
    /\ ~pipeline => modelLoads = 0
    /\ modelLoads + Cardinality(Loading) <= Cardinality(Speakers)

(* What is spoken is booked, given up, or said by a request under way; and *)
(* what is booked and under way is within the quota but for the others.    *)
Upstream == {s \in Speakers : speak[s].at = "upstream"}
SaidBy == [s \in Speakers |-> Chars(speak[s].said)]
TextOf == [s \in Speakers |-> Chars(speak[s].text)]
Longest == CHOOSE n \in {Chars(t) : t \in Texts} : \A t \in Texts : Chars(t) <= n
QuotaInv ==
    /\ spoken \in Nat /\ counted \in Nat /\ unbooked \in Nat
    /\ spoken <= counted + unbooked + Total(SaidBy, Upstream)
    /\ counted + Total(TextOf, Upstream) <= QuotaLimit + (Cardinality(Speakers) - 1) * Longest

LEMMA TextsAreTexts == Texts \subseteq Texted /\ <<>> \in Texted
  BY SpeakAssumption DEF Texted

(* The sums are of natural numbers.                                        *)
LEMMA SpeakSums ==
    ASSUME TalksInv
    PROVE  /\ IsFiniteSet(Speakers) /\ Upstream \in SUBSET Speakers
           /\ \A s \in Speakers : /\ SaidBy[s] = Chars(speak[s].said) /\ SaidBy[s] \in Nat
                                  /\ TextOf[s] = Chars(speak[s].text) /\ TextOf[s] \in Nat
           /\ Total(SaidBy, Upstream) \in Nat /\ Total(TextOf, Upstream) \in Nat
<1>1. IsFiniteSet(Speakers) /\ Upstream \in SUBSET Speakers
  BY SpeakAssumption DEF Upstream
<1>2. \A s \in Speakers : speak[s].said \in Texted /\ speak[s].text \in Texted
  BY TextsAreTexts DEF TalksInv, Talks
<1>3. \A s \in Speakers : /\ SaidBy[s] = Chars(speak[s].said) /\ SaidBy[s] \in Nat
                          /\ TextOf[s] = Chars(speak[s].text) /\ TextOf[s] \in Nat
  BY <1>2, CharsType DEF SaidBy, TextOf, Texted
<1>4. IsFiniteSet(Upstream)
  BY <1>1, FS_Subset
<1>5. \A s \in Upstream : SaidBy[s] \in Nat /\ TextOf[s] \in Nat
  BY <1>1, <1>3
<1>6. (\A s \in Upstream : SaidBy[s] \in Nat) /\ (\A s \in Upstream : TextOf[s] \in Nat)
  BY <1>5
<1>7. Total(SaidBy, Upstream) \in Nat
  BY <1>4, <1>6, TotalLaws
<1>8. Total(TextOf, Upstream) \in Nat
  BY <1>4, <1>6, TotalLaws
<1> QED
  BY <1>1, <1>3, <1>7, <1>8

(* One request moves.                                                      *)
LEMMA TalkMoves ==
    ASSUME TalksInv, NEW s \in Speakers, NEW r \in Talks, TalkInv(r),
           speak' = [speak EXCEPT ![s] = r]
    PROVE  /\ TalksInv'
           /\ speak'[s] = r /\ \A x \in Speakers \ {s} : speak'[x] = speak[x]
<1>1. speak \in [Speakers -> Talks]
  BY DEF TalksInv
<1>2. speak' \in [Speakers -> Talks] /\ speak'[s] = r
      /\ \A x \in Speakers \ {s} : speak'[x] = speak[x]
  BY <1>1
<1>3. \A x \in Speakers : TalkInv(speak'[x])
  <2>1. \A x \in Speakers : TalkInv(speak[x])
    BY DEF TalksInv
  <2> QED
    BY <1>2, <2>1
<1>4. TalksInv'
  BY <1>2, <1>3 DEF TalksInv, TalkInv
<1> QED
  BY <1>2, <1>4

(* How the sums change when one request moves.                             *)
LEMMA SumsMove ==
    ASSUME TalksInv, NEW s \in Speakers, NEW r \in Talks, TalkInv(r),
           speak' = [speak EXCEPT ![s] = r]
    PROVE  /\ Total(SaidBy, Upstream) + (IF r.at = "upstream" THEN Chars(r.said) ELSE 0)
                = Total(SaidBy', Upstream')
                    + (IF speak[s].at = "upstream" THEN Chars(speak[s].said) ELSE 0)
           /\ Total(TextOf, Upstream) + (IF r.at = "upstream" THEN Chars(r.text) ELSE 0)
                = Total(TextOf', Upstream')
                    + (IF speak[s].at = "upstream" THEN Chars(speak[s].text) ELSE 0)
           /\ Total(SaidBy, Upstream) \in Nat /\ Total(TextOf, Upstream) \in Nat
           /\ Total(SaidBy', Upstream') \in Nat /\ Total(TextOf', Upstream') \in Nat
           /\ Chars(r.said) \in Nat /\ Chars(r.text) \in Nat
           /\ Chars(speak[s].said) \in Nat /\ Chars(speak[s].text) \in Nat
<1>1. TalksInv' /\ speak'[s] = r /\ \A x \in Speakers \ {s} : speak'[x] = speak[x]
  BY TalkMoves
<1>2. /\ IsFiniteSet(Speakers) /\ Upstream \in SUBSET Speakers /\ Upstream' \in SUBSET Speakers
      /\ \A x \in Speakers : /\ SaidBy[x] = Chars(speak[x].said) /\ SaidBy[x] \in Nat
                             /\ TextOf[x] = Chars(speak[x].text) /\ TextOf[x] \in Nat
      /\ Total(SaidBy, Upstream) \in Nat /\ Total(TextOf, Upstream) \in Nat
  BY SpeakSums DEF Upstream
<1>3. /\ \A x \in Speakers : /\ SaidBy'[x] = Chars(speak'[x].said) /\ SaidBy'[x] \in Nat
                             /\ TextOf'[x] = Chars(speak'[x].text) /\ TextOf'[x] \in Nat
  <2>1. TalksInv => \A x \in Speakers :
                             /\ SaidBy[x] = Chars(speak[x].said) /\ SaidBy[x] \in Nat
                             /\ TextOf[x] = Chars(speak[x].text) /\ TextOf[x] \in Nat
    BY SpeakSums
  <2>2. \A x \in Speakers : speak'[x].said \in Texted /\ speak'[x].text \in Texted
    BY <1>1, TextsAreTexts DEF TalksInv, Talks
  <2> QED
    BY <2>2, CharsType DEF SaidBy, TextOf, Texted
<1>4. \A x \in Speakers \ {s} : /\ SaidBy[x] = SaidBy'[x] /\ TextOf[x] = TextOf'[x]
                                /\ (x \in Upstream <=> x \in Upstream')
  BY <1>1, <1>2, <1>3 DEF Upstream
<1> DEFINE V == Upstream
           W == Upstream'
           f == SaidBy
           h == SaidBy'
           d == TextOf
           e == TextOf'
<1>5. /\ s \in V <=> speak[s].at = "upstream"
      /\ s \in W <=> r.at = "upstream"
  BY <1>1 DEF Upstream
<1>6. /\ f[s] = Chars(speak[s].said) /\ h[s] = Chars(r.said)
      /\ d[s] = Chars(speak[s].text) /\ e[s] = Chars(r.text)
      /\ f[s] \in Nat /\ h[s] \in Nat /\ d[s] \in Nat /\ e[s] \in Nat
  BY <1>1, <1>2, <1>3
<1>7. /\ V \in SUBSET Speakers /\ W \in SUBSET Speakers
      /\ \A x \in Speakers : f[x] \in Nat /\ h[x] \in Nat
      /\ \A x \in Speakers \ {s} : f[x] = h[x] /\ (x \in V <=> x \in W)
  BY <1>2, <1>3, <1>4
<1>a. /\ V \in SUBSET Speakers /\ W \in SUBSET Speakers
      /\ \A x \in Speakers : d[x] \in Nat /\ e[x] \in Nat
      /\ \A x \in Speakers \ {s} : d[x] = e[x] /\ (x \in V <=> x \in W)
  BY <1>2, <1>3, <1>4
<1>b. IsFiniteSet(Speakers)
  BY <1>2
<1> HIDE DEF V, W, f, h, d, e
<1>8. /\ Total(f, V) + Share(h, W, s) = Total(h, W) + Share(f, V, s)
      /\ Total(f, V) \in Nat /\ Total(h, W) \in Nat
  BY <1>b, <1>7, TotalMoved
<1>9. /\ Total(d, V) + Share(e, W, s) = Total(e, W) + Share(d, V, s)
      /\ Total(d, V) \in Nat /\ Total(e, W) \in Nat
  BY <1>b, <1>a, TotalMoved
<1>10. /\ Share(f, V, s) = IF speak[s].at = "upstream" THEN Chars(speak[s].said) ELSE 0
       /\ Share(h, W, s) = IF r.at = "upstream" THEN Chars(r.said) ELSE 0
       /\ Share(d, V, s) = IF speak[s].at = "upstream" THEN Chars(speak[s].text) ELSE 0
       /\ Share(e, W, s) = IF r.at = "upstream" THEN Chars(r.text) ELSE 0
  BY <1>5, <1>6 DEF Share
<1>11. /\ Chars(r.said) \in Nat /\ Chars(r.text) \in Nat
       /\ Chars(speak[s].said) \in Nat /\ Chars(speak[s].text) \in Nat
  BY <1>6
<1> QED
  BY <1>8, <1>9, <1>10, <1>11 DEF V, W, f, h, d, e

(* A request that says nothing of the quota's before nor after.            *)
LEMMA QuotaStays ==
    ASSUME TalksInv, QuotaInv, NEW s \in Speakers, NEW r \in Talks, TalkInv(r),
           speak' = [speak EXCEPT ![s] = r], UNCHANGED <<counted, spoken, unbooked>>,
           r.at # "upstream", speak[s].at # "upstream"
    PROVE  QuotaInv'
<1> DEFINE a == Total(SaidBy, Upstream)
           b == Total(TextOf, Upstream)
           c == Total(SaidBy', Upstream')
           d == Total(TextOf', Upstream')
<1>a. /\ a + (IF r.at = "upstream" THEN Chars(r.said) ELSE 0)
            = c + (IF speak[s].at = "upstream" THEN Chars(speak[s].said) ELSE 0)
      /\ b + (IF r.at = "upstream" THEN Chars(r.text) ELSE 0)
            = d + (IF speak[s].at = "upstream" THEN Chars(speak[s].text) ELSE 0)
      /\ a \in Nat /\ b \in Nat /\ c \in Nat /\ d \in Nat
  BY SumsMove
<1>1. c = a /\ d = b
  <2> HIDE DEF a, b, c, d
  <2> QED
    BY <1>a
<1> QED
  BY <1>1 DEF QuotaInv

(* Loads when one request moves.                                           *)
LEMMA LoadingMoves ==
    ASSUME TalksInv, NEW s \in Speakers, NEW r \in Talks, TalkInv(r),
           speak' = [speak EXCEPT ![s] = r]
    PROVE  /\ Cardinality(Loading) \in Nat /\ Cardinality(Loading') \in Nat
           /\ Cardinality(Loading') <= Cardinality(Speakers) /\ Cardinality(Speakers) \in Nat
           /\ r.at # "loading" => Cardinality(Loading') <= Cardinality(Loading)
           /\ r.at # "loading" /\ speak[s].at = "loading" =>
                 Cardinality(Loading') = Cardinality(Loading) - 1
<1>1. speak'[s] = r /\ \A x \in Speakers \ {s} : speak'[x] = speak[x]
  BY TalkMoves
<1>2. IsFiniteSet(Speakers) /\ Loading \in SUBSET Speakers /\ Loading' \in SUBSET Speakers
  BY SpeakAssumption DEF Loading
<1>3. IsFiniteSet(Loading) /\ Cardinality(Loading) <= Cardinality(Speakers)
  BY <1>2, FS_Subset
<1>4. IsFiniteSet(Loading') /\ Cardinality(Loading') <= Cardinality(Speakers)
  <2> DEFINE L == Loading'
  <2>1. L \in SUBSET Speakers
    BY <1>2
  <2> HIDE DEF L
  <2>2. IsFiniteSet(L) /\ Cardinality(L) <= Cardinality(Speakers)
    BY <1>2, <2>1, FS_Subset
  <2> QED
    BY <2>2 DEF L
<1>5. /\ Cardinality(Loading) \in Nat /\ Cardinality(Loading') \in Nat
      /\ Cardinality(Speakers) \in Nat
  BY <1>2, <1>3, <1>4, FS_CardinalityType
<1>6. ASSUME r.at # "loading"
      PROVE  /\ Cardinality(Loading') <= Cardinality(Loading)
             /\ speak[s].at = "loading" => Cardinality(Loading') = Cardinality(Loading) - 1
  <2>1. Loading' = Loading \ {s} /\ (s \in Loading <=> speak[s].at = "loading")
    BY <1>1, <1>6 DEF Loading
  <2>2. Cardinality(Loading \ {s}) =
            IF s \in Loading THEN Cardinality(Loading) - 1 ELSE Cardinality(Loading)
    BY <1>3, FS_RemoveElement
  <2> QED
    BY <1>5, <2>1, <2>2
<1> QED
  BY <1>3, <1>4, <1>5, <1>6

SpeakInv == TalksInv /\ LoadsInv /\ QuotaInv

(* One request moves, not into a load, not into or out of the quota, and   *)
(* the counters stay.                                                      *)
Calm ==
    \E s \in Speakers, r \in Talks :
        /\ TalkInv(r) /\ speak' = [speak EXCEPT ![s] = r]
        /\ r.at # "upstream" /\ r.at # "loading" /\ speak[s].at # "upstream"
        /\ UNCHANGED <<counted, spoken, unbooked, pipeline, modelLoads>>

LEMMA CalmKeeps == SpeakInv /\ Calm => SpeakInv'
<1> SUFFICES ASSUME SpeakInv, Calm PROVE SpeakInv'
  OBVIOUS
<1>1. PICK s \in Speakers, r \in Talks :
        /\ TalkInv(r) /\ speak' = [speak EXCEPT ![s] = r]
        /\ r.at # "upstream" /\ r.at # "loading" /\ speak[s].at # "upstream"
        /\ UNCHANGED <<counted, spoken, unbooked, pipeline, modelLoads>>
  BY DEF Calm
<1>2. TalksInv'
  BY <1>1, TalkMoves DEF SpeakInv
<1>3. QuotaInv'
  BY <1>1, QuotaStays DEF SpeakInv
<1>4. /\ Cardinality(Loading') \in Nat /\ Cardinality(Loading) \in Nat
      /\ Cardinality(Loading') <= Cardinality(Loading)
      /\ Cardinality(Speakers) \in Nat
  BY <1>1, LoadingMoves DEF SpeakInv
<1>5. LoadsInv'
  <2> DEFINE a == Cardinality(Loading)
             b == Cardinality(Loading')
  <2>1. modelLoads \in Nat /\ modelLoads + a <= Cardinality(Speakers)
    BY DEF SpeakInv, LoadsInv
  <2>2. modelLoads + b <= Cardinality(Speakers)
    <3> HIDE DEF a, b
    <3>1. a \in Nat /\ b \in Nat /\ b <= a
      BY <1>4 DEF a, b
    <3> QED
      BY <1>4, <2>1, <3>1
  <2> QED
    BY <1>1, <2>2 DEF SpeakInv, LoadsInv
<1> QED
  BY <1>2, <1>3, <1>5 DEF SpeakInv

LEMMA QuietIs == Quiet \in Talks /\ TalkInv(Quiet) /\ Quiet.at = "idle"
<1>1. <<>> \in Texts \cup {<<>>} /\ <<>> \in Seq(Texted) /\ <<>> \in Texted
  BY DEF Texted
<1> QED
  BY <1>1 DEF Quiet, Talks, TalkInv, SpeakSpots, SpeakPrefers, SpeakOutcomes

(* A request as it begins.                                                 *)
LEMMA RequestType ==
    ASSUME NEW prefer \in SpeakPrefers, NEW at \in SpeakSpots, NEW outcome \in SpeakOutcomes
    PROVE  LET r == Request(prefer, at, outcome) IN
           /\ r \in Talks /\ r.at = at /\ r.prefer = prefer /\ r.outcome = outcome
           /\ r.text = <<>> /\ r.chunks = <<>> /\ r.said = <<>>
           /\ r.usage = r.told /\ r.audio = r.sent
<1>1. /\ Quiet \in Talks /\ Quiet.text = <<>> /\ Quiet.chunks = <<>> /\ Quiet.said = <<>>
      /\ Quiet.usage = Quiet.told /\ Quiet.audio = Quiet.sent
  BY QuietIs DEF Quiet
<1> DEFINE r == [Quiet EXCEPT !.at = at, !.prefer = prefer, !.outcome = outcome]
<1>2. /\ r \in Talks /\ r.at = at /\ r.prefer = prefer /\ r.outcome = outcome
      /\ r.text = <<>> /\ r.chunks = <<>> /\ r.said = <<>>
      /\ r.usage = r.told /\ r.audio = r.sent
  BY <1>1 DEF Talks
<1> QED
  BY <1>2 DEF Request

LEMMA BeginIsCalm ==
    ASSUME NEW s \in Speakers, NEW r \in Talks, TalkInv(r), Begin(s, r),
           r.at # "upstream", r.at # "loading"
    PROVE  Calm
<1>1. /\ speak[s].at # "upstream" /\ speak' = [speak EXCEPT ![s] = r]
      /\ UNCHANGED <<counted, spoken, unbooked, pipeline, modelLoads>>
  BY DEF Begin
<1> QED
  BY <1>1 DEF Calm

(* A request is answered.                                                  *)
LEMMA AnswerIs ==
    ASSUME TalksInv, NEW s \in Speakers, NEW outcome \in SpeakOutcomes, Answer(s, outcome),
           outcome = "error" \/ speak[s].prefer \notin {"quality", "realtime"}
    PROVE  \E r \in Talks : /\ speak' = [speak EXCEPT ![s] = r] /\ TalkInv(r) /\ r.at = "idle"
                            /\ r = [speak[s] EXCEPT !.at = "idle", !.outcome = outcome]
<1> DEFINE t == speak[s]
           r == [t EXCEPT !.at = "idle", !.outcome = outcome]
<1>1. t \in Talks /\ speak \in [Speakers -> Talks]
  BY DEF TalksInv
<1>2. speak' = [speak EXCEPT ![s] = r]
  BY <1>1 DEF Answer
<1>3. r \in Talks /\ r.at = "idle" /\ r.outcome = outcome /\ r.prefer = t.prefer
  <2> HIDE DEF t
  <2> QED
    BY <1>1 DEF Talks, SpeakSpots
<1>4. TalkInv(r)
  <2> HIDE DEF r, t
  <2>1. t.prefer = "quality" => outcome = "error"
    BY DEF t
  <2>2. t.prefer = "realtime" => outcome = "error"
    BY DEF t
  <2> QED
    BY <1>3, <2>1, <2>2 DEF TalkInv
<1> QED
  BY <1>2, <1>3, <1>4

LEMMA AnswerIsCalm ==
    ASSUME TalksInv, NEW s \in Speakers, NEW outcome \in SpeakOutcomes, Answer(s, outcome),
           outcome = "error" \/ speak[s].prefer \notin {"quality", "realtime"},
           speak[s].at # "upstream",
           UNCHANGED <<counted, spoken, unbooked, pipeline, modelLoads>>
    PROVE  Calm
<1>1. PICK r \in Talks : speak' = [speak EXCEPT ![s] = r] /\ TalkInv(r) /\ r.at = "idle"
  BY AnswerIs
<1> QED
  BY <1>1 DEF Calm

(* The calm requests of the other providers.                               *)
LEMMA SpeakBegins ==
    ASSUME TalksInv, NEW s \in Speakers,
           SpeakDefault(s) \/ SpeakStreaming(s) \/ SpeakFallback(s) \/ SpeakRealtime(s)
    PROVE  Calm
<1> DEFINE R(prefer, at, outcome) == Request(prefer, at, outcome)
<1>1. ASSUME NEW prefer \in {"default", "streaming", "fallback", "realtime"},
             NEW at \in {"idle", "starting", "stream", "session"}, NEW outcome \in SpeakOutcomes,
             Begin(s, Request(prefer, at, outcome)),
             at = "starting" => prefer = "default",
             at = "stream" => prefer = "streaming",
             at = "session" => prefer = "realtime"
      PROVE  Calm
  <2> DEFINE r == Request(prefer, at, outcome)
  <2>1. prefer \in SpeakPrefers /\ at \in SpeakSpots
    BY DEF SpeakPrefers, SpeakSpots
  <2>2. /\ r \in Talks /\ r.at = at /\ r.prefer = prefer /\ r.outcome = outcome
        /\ r.usage = r.told /\ r.audio = r.sent
    BY <2>1, RequestType
  <2> HIDE DEF r
  <2>3. TalkInv(r)
    BY <1>1, <2>2 DEF TalkInv
  <2>4. r.at # "upstream" /\ r.at # "loading"
    BY <2>2
  <2> QED
    BY <1>1, <2>2, <2>3, <2>4, BeginIsCalm DEF r
<1>2. CASE SpeakDefault(s)
  BY <1>1, <1>2 DEF SpeakDefault, SpeakOutcomes
<1>3. CASE SpeakStreaming(s)
  BY <1>1, <1>3 DEF SpeakStreaming, SpeakOutcomes
<1>4. CASE SpeakFallback(s)
  BY <1>1, <1>4 DEF SpeakFallback, SpeakOutcomes
<1>5. CASE SpeakRealtime(s)
  BY <1>1, <1>5 DEF SpeakRealtime, SpeakOutcomes
<1> QED
  BY <1>2, <1>3, <1>4, <1>5

LEMMA VoicesEnd ==
    ASSUME TalksInv, NEW s \in Speakers, KokoroVoices(s) \/ StreamEnds(s)
    PROVE  Calm
<1>1. PICK outcome \in {"audio", "error"} : Answer(s, outcome)
  BY DEF KokoroVoices, StreamEnds
<1>2. outcome \in SpeakOutcomes
  BY DEF SpeakOutcomes
<1>3. /\ speak[s].at \in {"voicing", "stream"}
      /\ UNCHANGED <<counted, spoken, unbooked, pipeline, modelLoads>>
  BY DEF KokoroVoices, StreamEnds
<1>4. TalkInv(speak[s])
  BY DEF TalksInv
<1>5. speak[s].prefer \notin {"quality", "realtime"} /\ speak[s].at # "upstream"
  BY <1>3, <1>4 DEF TalkInv
<1> QED
  BY <1>1, <1>2, <1>3, <1>5, AnswerIsCalm

(* The frames of a session, and its end.                                   *)
LEMMA MeasuredIs ==
    ASSUME NEW t \in Talks, t.prefer = "realtime", t.usage = t.told, t.audio = t.sent
    PROVE  Measured(t) \in Talks /\ TalkInv(Measured(t)) /\ Measured(t).at = "idle"
<1> DEFINE o == IF t.audio > MaxAudio THEN "error" ELSE "audio"
           r == [t EXCEPT !.at = "idle", !.frames = 0, !.outcome = o]
<1>1. o \in SpeakOutcomes
  BY DEF SpeakOutcomes
<1>2. Measured(t) = r
  BY DEF Measured
<1> HIDE DEF o
<1>3. /\ r \in Talks /\ r.at = "idle" /\ r.prefer = t.prefer /\ r.usage = t.usage
      /\ r.told = t.told /\ r.audio = t.audio /\ r.sent = t.sent
  BY <1>1 DEF Talks, SpeakSpots
<1> HIDE DEF r
<1>4. TalkInv(r)
  BY <1>3 DEF TalkInv
<1> QED
  BY <1>2, <1>3, <1>4

LEMMA FramesCalm ==
    ASSUME TalksInv, NEW s \in Speakers, SpeakFrame(s) \/ SessionEnds(s)
    PROVE  Calm
<1> DEFINE t == speak[s]
<1>1. /\ t \in Talks /\ TalkInv(t) /\ t.at = "session"
      /\ UNCHANGED <<counted, spoken, unbooked, pipeline, modelLoads>>
  BY DEF TalksInv, SpeakFrame, SessionEnds
<1>2. t.prefer = "realtime" /\ t.usage = t.told /\ t.audio = t.sent
  BY <1>1 DEF TalkInv
<1>3. CASE SpeakFrame(s)
  <2>1. PICK frame \in [pieces : 0 .. 1, reports : BOOLEAN, done : BOOLEAN] :
          LET next == [t EXCEPT !.frames = @ + 1, !.usage = UsageAfter(t, frame),
                                !.audio = @ + frame.pieces, !.sent = @ + frame.pieces,
                                !.told = IF frame.reports THEN @ + 1 ELSE @]
          IN  speak' = [speak EXCEPT ![s] = IF frame.done THEN Measured(next) ELSE next]
    BY <1>3 DEF SpeakFrame
  <2> DEFINE next == [t EXCEPT !.frames = @ + 1, !.usage = UsageAfter(t, frame),
                                !.audio = @ + frame.pieces, !.sent = @ + frame.pieces,
                                !.told = IF frame.reports THEN @ + 1 ELSE @]
             r == IF frame.done THEN Measured(next) ELSE next
             u == IF frame.reports THEN t.told + 1 ELSE t.usage
             v == IF frame.reports THEN t.told + 1 ELSE t.told
             a == t.audio + frame.pieces
             b == t.sent + frame.pieces
             n == t.frames + 1
             e == [t EXCEPT !.frames = n, !.usage = u, !.audio = a, !.sent = b, !.told = v]
  <2>2. next = e
    BY DEF UsageAfter
  <2>3. t.told \in Nat /\ t.usage \in Nat /\ t.audio \in Nat /\ t.sent \in Nat /\ t.frames \in Nat
        /\ frame.pieces \in Nat
    BY <1>1 DEF Talks
  <2>4. u \in Nat /\ v \in Nat /\ a \in Nat /\ b \in Nat /\ n \in Nat /\ u = v /\ a = b
    BY <1>2, <2>3
  <2> HIDE DEF u, v, a, b, n, t
  <2>5. /\ e \in Talks /\ e.at = t.at /\ e.prefer = t.prefer /\ e.usage = e.told /\ e.audio = e.sent
    BY <1>1, <2>4 DEF Talks
  <2> HIDE DEF e
  <2>6. TalkInv(e) /\ e.at = "session"
    BY <1>1, <1>2, <2>5 DEF TalkInv
  <2>7. Measured(e) \in Talks /\ TalkInv(Measured(e)) /\ Measured(e).at = "idle"
    BY <1>2, <2>5, MeasuredIs
  <2>8. r \in Talks /\ TalkInv(r) /\ r.at \in {"session", "idle"}
    <3>1. r = e \/ r = Measured(e)
      BY <2>2
    <3> HIDE DEF r
    <3> QED
      BY <2>5, <2>6, <2>7, <3>1
  <2>9. speak' = [speak EXCEPT ![s] = r]
    BY <2>1
  <2> HIDE DEF r
  <2>10. r.at # "upstream" /\ r.at # "loading" /\ speak[s].at # "upstream"
    BY <1>1, <2>8 DEF t
  <2> QED
    BY <1>1, <2>8, <2>9, <2>10 DEF Calm
<1>4. CASE SessionEnds(s) /\ Answer(s, "error")
  <2>1. "error" \in SpeakOutcomes
    BY DEF SpeakOutcomes
  <2> QED
    BY <1>1, <1>4, <2>1, AnswerIsCalm
<1>5. CASE speak' = [speak EXCEPT ![s] = Measured(speak[s])]
  BY <1>1, <1>2, <1>5, MeasuredIs DEF Calm
<1> QED
  BY <1>3, <1>4, <1>5 DEF SessionEnds

(* There is a longest text, and somebody to ask for one.                   *)
LongestIs ==
    /\ Longest \in Nat /\ \A t \in Texts : Chars(t) <= Longest
    /\ Speakers # {}

LEMMA LongestExists ==
    ASSUME IsFiniteSet(Texts), Texts # {}, Speakers # {}
    PROVE  LongestIs
<1> DEFINE L == {Chars(t) : t \in Texts}
<1>1. L \in SUBSET Nat
  BY SpeakAssumption, CharsType
<1> DEFINE f == [t \in Texts |-> Chars(t)]
           F == {f[t] : t \in Texts}
<1>2. IsFiniteSet(L)
  <2>1. IsFiniteSet(F)
    <3>1. f = [t \in Texts |-> f[t]]
      OBVIOUS
    <3> HIDE DEF f
    <3> QED
      BY <3>1, FiniteImage
  <2>2. L = F
    OBVIOUS
  <2> QED
    BY <2>1, <2>2
<1>3. L # {} /\ L \in SUBSET Int
  BY <1>1
<1>4. Max(L) \in L /\ \A x \in L : x <= Max(L)
  <2> HIDE DEF L
  <2> QED
    BY <1>2, <1>3, MaxIs
<1>5. Max(L) \in L /\ \A t \in Texts : Chars(t) <= Max(L)
  BY <1>4
<1>6. Longest \in L /\ \A t \in Texts : Chars(t) <= Longest
  BY <1>5 DEF Longest
<1> QED
  BY <1>1, <1>6 DEF LongestIs

(* Loads are as they were when a request moves that loads nothing.         *)
LEMMA LoadsStay ==
    ASSUME TalksInv, LoadsInv, NEW s \in Speakers, NEW r \in Talks, TalkInv(r),
           speak' = [speak EXCEPT ![s] = r], r.at # "loading", UNCHANGED <<pipeline, modelLoads>>
    PROVE  LoadsInv'
<1> DEFINE a == Cardinality(Loading)
           b == Cardinality(Loading')
           n == Cardinality(Speakers)
<1>1. a \in Nat /\ b \in Nat /\ b <= a /\ n \in Nat
  BY LoadingMoves
<1>2. modelLoads \in Nat /\ modelLoads + a <= n
  BY DEF LoadsInv
<1>3. modelLoads + b <= n
  <2> HIDE DEF a, b, n
  <2> QED
    BY <1>1, <1>2
<1> QED
  BY <1>3 DEF LoadsInv

(* A text is taken up while the quota holds it.                            *)
LEMMA QualityKeeps ==
    ASSUME SpeakInv, LongestIs, NEW s \in Speakers, NEW text \in Texts, SpeakQuality(s, text)
    PROVE  SpeakInv'
<1>t. text \in Texted
  BY SpeakAssumption DEF Texted
<1>1. CASE text = <<>>
  <2> DEFINE r == Request("quality", "idle", "audio")
  <2>1. "quality" \in SpeakPrefers /\ "idle" \in SpeakSpots /\ "audio" \in SpeakOutcomes
    BY DEF SpeakPrefers, SpeakSpots, SpeakOutcomes
  <2>2. /\ r \in Talks /\ r.at = "idle" /\ r.prefer = "quality"
        /\ r.text = <<>> /\ r.chunks = <<>> /\ r.said = <<>>
    BY <2>1, RequestType
  <2>3. Begin(s, r)
    BY <1>1 DEF SpeakQuality
  <2> HIDE DEF r
  <2>4. <<>> \o FlattenSeq(<<>>) = <<>> /\ AllFit(<<>>)
    BY FlatEmpty DEF AllFit
  <2>5. TalkInv(r)
    BY <2>2, <2>4 DEF TalkInv
  <2>6. r.at # "upstream" /\ r.at # "loading"
    BY <2>2
  <2> QED
    BY <2>2, <2>3, <2>5, <2>6, BeginIsCalm, CalmKeeps
<1>2. CASE text # <<>> /\ ~WithinQuota(text)
  <2> DEFINE r == Request("quality", "idle", "error")
  <2>1. "quality" \in SpeakPrefers /\ "idle" \in SpeakSpots /\ "error" \in SpeakOutcomes
    BY DEF SpeakPrefers, SpeakSpots, SpeakOutcomes
  <2>2. r \in Talks /\ r.at = "idle" /\ r.prefer = "quality" /\ r.outcome = "error"
    BY <2>1, RequestType
  <2>3. Begin(s, r)
    BY <1>2 DEF SpeakQuality
  <2> HIDE DEF r
  <2>5. TalkInv(r)
    BY <2>2 DEF TalkInv
  <2>6. r.at # "upstream" /\ r.at # "loading"
    BY <2>2
  <2> QED
    BY <2>2, <2>3, <2>5, <2>6, BeginIsCalm, CalmKeeps
<1>3. CASE text # <<>> /\ WithinQuota(text)
  <2> DEFINE q == Request("quality", "upstream", "none")
             cs == ChunkText(text)
             r == [q EXCEPT !.text = text, !.chunks = cs]
  <2>1. "quality" \in SpeakPrefers /\ "upstream" \in SpeakSpots /\ "none" \in SpeakOutcomes
    BY DEF SpeakPrefers, SpeakSpots, SpeakOutcomes
  <2>2. q \in Talks /\ q.at = "upstream" /\ q.prefer = "quality" /\ q.said = <<>>
    BY <2>1, RequestType
  <2>3. Begin(s, r)
    BY <1>3 DEF SpeakQuality
  <2>4. cs \in Seq(Texted) /\ FlattenSeq(cs) = text /\ AllFit(cs)
    BY <1>t, ChunksOf
  <2> HIDE DEF q, cs
  <2>5. /\ r \in Talks /\ r.at = "upstream" /\ r.prefer = "quality" /\ r.said = <<>>
        /\ r.text = text /\ r.chunks = cs
    BY <2>2, <2>4 DEF Talks
  <2> HIDE DEF r
  <2>6. cs # <<>>
    BY <1>3, <2>4, FlatEmpty
  <2>7. <<>> \o text = text
    BY <1>t DEF Texted
  <2>8. TalkInv(r)
    BY <2>4, <2>5, <2>6, <2>7 DEF TalkInv
  <2>9. /\ speak' = [speak EXCEPT ![s] = r] /\ speak[s].at = "idle"
        /\ UNCHANGED <<counted, pipeline, spoken, unbooked, modelLoads>>
    BY <2>3 DEF Begin
  <2>10. TalksInv'
    BY <2>5, <2>8, <2>9, TalkMoves DEF SpeakInv
  <2>11. LoadsInv'
    <3>1. r.at # "loading"
      BY <2>5
    <3> QED
      BY <2>5, <2>8, <2>9, <3>1, LoadsStay DEF SpeakInv
  <2>12. QuotaInv'
    <3> DEFINE a == Total(SaidBy, Upstream)
               b == Total(TextOf, Upstream)
               c == Total(SaidBy', Upstream')
               d == Total(TextOf', Upstream')
               n == Cardinality(Speakers) - 1
               k == Cardinality(Upstream)
    <3>1. /\ a + (IF r.at = "upstream" THEN Chars(r.said) ELSE 0)
                = c + (IF speak[s].at = "upstream" THEN Chars(speak[s].said) ELSE 0)
          /\ b + (IF r.at = "upstream" THEN Chars(r.text) ELSE 0)
                = d + (IF speak[s].at = "upstream" THEN Chars(speak[s].text) ELSE 0)
          /\ a \in Nat /\ b \in Nat /\ c \in Nat /\ d \in Nat /\ Chars(r.text) \in Nat
      BY <2>5, <2>8, <2>9, SumsMove DEF SpeakInv
    <3>2. a = c /\ d = b + Chars(text) /\ Chars(text) \in Nat
      <4> HIDE DEF a, b, c, d
      <4> QED
        BY <2>5, <2>9, <3>1, CharsEmpty
    <3>3. counted + Chars(text) <= QuotaLimit
      BY <1>3 DEF WithinQuota
    <3>4. k \in Nat /\ n \in Nat /\ k <= n
      <4>1. IsFiniteSet(Speakers) /\ Upstream \in SUBSET (Speakers \ {s})
        BY <2>9, SpeakAssumption DEF Upstream
      <4>2. Cardinality(Speakers \ {s}) = Cardinality(Speakers) - 1 /\ IsFiniteSet(Speakers \ {s})
        BY <4>1, FS_RemoveElement
      <4>3. IsFiniteSet(Upstream) /\ k <= Cardinality(Speakers \ {s})
        BY <4>1, <4>2, FS_Subset
      <4>4. Cardinality(Speakers \ {s}) \in Nat /\ k \in Nat
        BY <4>2, <4>3, FS_CardinalityType
      <4> QED
        BY <4>2, <4>3, <4>4
    <3>5. b <= k * Longest
      <4>1. IsFiniteSet(Upstream)
        BY SpeakAssumption, FS_Subset DEF Upstream
      <4>2. \A x \in Upstream : TextOf[x] \in Nat /\ TextOf[x] <= Longest
        <5> SUFFICES ASSUME NEW x \in Upstream PROVE TextOf[x] \in Nat /\ TextOf[x] <= Longest
          OBVIOUS
        <5>1. TalksInv /\ x \in Speakers
          BY DEF Upstream, SpeakInv
        <5>2. TextOf[x] = Chars(speak[x].text) /\ TextOf[x] \in Nat
          BY <5>1, SpeakSums
        <5>3. speak[x].text \in Texts \cup {<<>>}
          BY <5>1 DEF TalksInv, Talks
        <5> QED
          BY <5>2, <5>3, CharsEmpty DEF LongestIs
      <4>3. Longest \in Nat
        BY DEF LongestIs
      <4> QED
        BY <4>1, <4>2, <4>3, TotalAtMost
    <3>6. k * Longest <= n * Longest /\ k * Longest \in Nat /\ n * Longest \in Nat
      <4>1. Longest \in Nat
        BY DEF LongestIs
      <4> DEFINE m == Longest
      <4>2. m \in Nat
        BY <4>1
      <4> HIDE DEF k, n, m
      <4>3. k * m \in Nat /\ n * m \in Nat /\ (n - k) * m \in Nat /\ n - k \in Nat
        BY <3>4, <4>2
      <4>4. n * m = k * m + (n - k) * m
        BY <3>4, <4>2
      <4> QED
        BY <4>3, <4>4 DEF m
    <3> DEFINE u == k * Longest
               v == n * Longest
    <3>7. /\ spoken \in Nat /\ counted \in Nat /\ unbooked \in Nat /\ QuotaLimit \in Nat
          /\ spoken <= counted + unbooked + a
      BY SpeakAssumption DEF SpeakInv, QuotaInv
    <3>8. spoken <= counted + unbooked + c
      BY <3>2, <3>7
    <3>9. counted + d <= QuotaLimit + v
      <4>1. b <= u /\ u <= v /\ u \in Nat /\ v \in Nat /\ b \in Nat
        BY <3>1, <3>5, <3>6
      <4> HIDE DEF a, b, c, d, u, v
      <4> QED
        BY <3>2, <3>3, <3>7, <4>1
    <3> QED
      BY <2>9, <3>7, <3>8, <3>9 DEF QuotaInv
  <2> QED
    BY <2>10, <2>11, <2>12 DEF SpeakInv
<1> QED
  BY <1>1, <1>2, <1>3

(* A chunk is said.                                                        *)
LEMMA VoicedKeeps ==
    ASSUME SpeakInv, NEW s \in Speakers, ChunkVoiced(s)
    PROVE  SpeakInv'
<1> DEFINE t == speak[s]
           hd == Head(t.chunks)
           tl == Tail(t.chunks)
           said == t.said \o hd
<1>1. t \in Talks /\ TalkInv(t) /\ t.at = "upstream" /\ t.prefer = "quality" /\ t.chunks # <<>>
      /\ t.said \o FlattenSeq(t.chunks) = t.text /\ AllFit(t.chunks)
  BY DEF SpeakInv, TalksInv, TalkInv, ChunkVoiced
<1>2. t.chunks \in Seq(Texted) /\ t.said \in Texted /\ t.text \in Texted
  BY <1>1, TextsAreTexts DEF Talks
<1>3. tl \in Seq(Texted) /\ hd \in Texted /\ FlattenSeq(t.chunks) = hd \o FlattenSeq(tl)
  BY <1>1, <1>2, FlatTail
<1>4. said \in Texted /\ Chars(said) = Chars(t.said) + Chars(hd)
  BY <1>2, <1>3, CharsConcat DEF Texted
<1>5. FlattenSeq(tl) \in Texted
  BY <1>3, FlatType
<1>6. said \o FlattenSeq(tl) = t.text
  <2> DEFINE a == t.said
             f == FlattenSeq(tl)
  <2>1. a \in Texted /\ hd \in Texted /\ f \in Texted /\ t.text = a \o (hd \o f)
    BY <1>1, <1>2, <1>3, <1>5
  <2> HIDE DEF a, f, hd
  <2>2. (a \o hd) \o f = a \o (hd \o f)
    BY <2>1, TextsAssociate
  <2> QED
    BY <2>1, <2>2 DEF a, f
<1>7. AllFit(tl)
  <2> DEFINE cs == t.chunks
  <2>1. cs \in Seq(Texted) /\ cs # <<>> /\ AllFit(cs)
    BY <1>1, <1>2
  <2> HIDE DEF cs
  <2>2. \A i \in DOMAIN Tail(cs) : i + 1 \in DOMAIN cs /\ Tail(cs)[i] = cs[i + 1]
    BY <2>1
  <2>3. AllFit(Tail(cs))
    BY <2>1, <2>2 DEF AllFit
  <2> QED
    BY <2>3 DEF cs
<1>8. /\ Chars(t.said) \in Nat /\ Chars(hd) \in Nat /\ Chars(t.text) \in Nat /\ Chars(said) \in Nat
  BY <1>2, <1>3, <1>4, CharsType DEF Texted
<1>9. spoken' = spoken + Chars(hd) /\ UNCHANGED <<pipeline, unbooked, modelLoads>>
  BY DEF ChunkVoiced
<1> DEFINE further == [t EXCEPT !.said = @ \o Head(t.chunks), !.chunks = Tail(@)]
           next == [t EXCEPT !.said = said, !.chunks = tl]
<1>10. further = next
  OBVIOUS
<1>c. IF tl = <<>>
      THEN /\ speak' = [speak EXCEPT ![s] = [further EXCEPT !.at = "idle", !.outcome = "audio"]]
           /\ counted' = counted + Chars(t.text)
      ELSE speak' = [speak EXCEPT ![s] = further] /\ UNCHANGED counted
  BY DEF ChunkVoiced
<1> DEFINE last == [next EXCEPT !.at = "idle", !.outcome = "audio"]
<1>d. IF tl = <<>>
      THEN speak' = [speak EXCEPT ![s] = last] /\ counted' = counted + Chars(t.text)
      ELSE speak' = [speak EXCEPT ![s] = next] /\ UNCHANGED counted
  BY <1>10, <1>c
<1> HIDE DEF further
<1>q. /\ spoken \in Nat /\ counted \in Nat /\ unbooked \in Nat
      /\ spoken <= counted + unbooked + Total(SaidBy, Upstream)
      /\ counted + Total(TextOf, Upstream) <= QuotaLimit + (Cardinality(Speakers) - 1) * Longest
  BY DEF SpeakInv, QuotaInv
<1> HIDE DEF hd, tl, said
<1>11. /\ next \in Talks /\ next.at = "upstream" /\ next.prefer = "quality"
       /\ next.said = said /\ next.chunks = tl /\ next.text = t.text
  <2>1. t \in Talks /\ t.at = "upstream" /\ t.prefer = "quality"
    BY <1>1
  <2> HIDE DEF t
  <2> QED
    BY <2>1, <1>3, <1>4 DEF Talks
<1> HIDE DEF next
<1>12. /\ last \in Talks /\ last.at = "idle" /\ last.prefer = "quality" /\ last.outcome = "audio"
       /\ last.said = said /\ last.chunks = tl /\ last.text = t.text
  BY <1>11 DEF Talks, SpeakSpots, SpeakOutcomes
<1> HIDE DEF last
<1> DEFINE a == Total(SaidBy, Upstream)
           b == Total(TextOf, Upstream)
           c == Total(SaidBy', Upstream')
           d == Total(TextOf', Upstream')
           w == QuotaLimit + (Cardinality(Speakers) - 1) * Longest
<1>13. CASE tl # <<>>
  <2>1. TalkInv(next)
    BY <1>6, <1>7, <1>11, <1>13 DEF TalkInv
  <2>2. speak' = [speak EXCEPT ![s] = next] /\ counted' = counted
    BY <1>d, <1>13
  <2>3. TalksInv'
    BY <1>11, <2>1, <2>2, TalkMoves DEF SpeakInv
  <2>4. LoadsInv'
    <3>1. next.at # "loading"
      BY <1>11
    <3> QED
      BY <1>9, <1>11, <2>1, <2>2, <3>1, LoadsStay DEF SpeakInv
  <2>5. QuotaInv'
    <3>1. /\ a + (IF next.at = "upstream" THEN Chars(next.said) ELSE 0)
                = c + (IF speak[s].at = "upstream" THEN Chars(speak[s].said) ELSE 0)
          /\ b + (IF next.at = "upstream" THEN Chars(next.text) ELSE 0)
                = d + (IF speak[s].at = "upstream" THEN Chars(speak[s].text) ELSE 0)
          /\ a \in Nat /\ b \in Nat /\ c \in Nat /\ d \in Nat
      BY <1>11, <2>1, <2>2, SumsMove DEF SpeakInv
    <3>2. a + Chars(said) = c + Chars(t.said) /\ b + Chars(t.text) = d + Chars(t.text)
      <4> HIDE DEF a, b, c, d
      <4> QED
        BY <1>1, <1>11, <3>1
    <3>3. c = a + Chars(hd) /\ d = b
      <4> HIDE DEF a, b, c, d
      <4> QED
        BY <1>4, <1>8, <3>1, <3>2
    <3>4. spoken' \in Nat /\ spoken' <= counted' + unbooked' + c
      <4> HIDE DEF a, b, c, d
      <4>1. spoken <= counted + unbooked + a
        BY <1>q DEF a
      <4>2. a \in Nat /\ c = a + Chars(hd)
        BY <3>1, <3>3
      <4> QED
        BY <1>8, <1>9, <1>q, <2>2, <4>1, <4>2
    <3>5. counted' + d <= w
      BY <1>q, <2>2, <3>3
    <3> QED
      BY <1>9, <1>q, <2>2, <3>4, <3>5 DEF QuotaInv
  <2> QED
    BY <2>3, <2>4, <2>5 DEF SpeakInv
<1>14. CASE tl = <<>>
  <2>0. said = t.text
    <3>1. FlattenSeq(tl) = <<>>
      BY <1>14, FlatEmpty
    <3>2. said \o <<>> = said
      BY <1>4 DEF Texted
    <3> QED
      BY <1>6, <3>1, <3>2
  <2>1. TalkInv(last)
    BY <1>6, <1>7, <1>12 DEF TalkInv
  <2>2. speak' = [speak EXCEPT ![s] = last] /\ counted' = counted + Chars(t.text)
    BY <1>d, <1>14
  <2>3. TalksInv'
    BY <1>12, <2>1, <2>2, TalkMoves DEF SpeakInv
  <2>4. LoadsInv'
    <3>1. last.at # "loading"
      BY <1>12
    <3> QED
      BY <1>9, <1>12, <2>1, <2>2, <3>1, LoadsStay DEF SpeakInv
  <2>5. QuotaInv'
    <3>1. /\ a + (IF last.at = "upstream" THEN Chars(last.said) ELSE 0)
                = c + (IF speak[s].at = "upstream" THEN Chars(speak[s].said) ELSE 0)
          /\ b + (IF last.at = "upstream" THEN Chars(last.text) ELSE 0)
                = d + (IF speak[s].at = "upstream" THEN Chars(speak[s].text) ELSE 0)
          /\ a \in Nat /\ b \in Nat /\ c \in Nat /\ d \in Nat
      BY <1>12, <2>1, <2>2, SumsMove DEF SpeakInv
    <3>2. a = c + Chars(t.said) /\ b = d + Chars(t.text)
      <4> HIDE DEF a, b, c, d
      <4> QED
        BY <1>1, <1>12, <3>1
    <3>3. Chars(t.text) = Chars(t.said) + Chars(hd)
      BY <1>4, <2>0
    <3>4. spoken' \in Nat /\ counted' \in Nat /\ spoken' <= counted' + unbooked' + c
      <4> HIDE DEF a, b, c, d
      <4>1. spoken <= counted + unbooked + a
        BY <1>q DEF a
      <4>2. a = c + Chars(t.said) /\ c \in Nat
        BY <3>1, <3>2
      <4> QED
        BY <1>8, <1>9, <1>q, <2>2, <3>3, <4>1, <4>2
    <3>5. counted' + d <= w
      <4>1. counted + b <= w
        BY <1>q
      <4> HIDE DEF b, d, w
      <4>2. counted' + d = counted + b
        BY <1>8, <1>q, <2>2, <3>1, <3>2 DEF b, d
      <4> QED
        BY <4>1, <4>2
    <3> QED
      BY <1>9, <1>q, <3>4, <3>5 DEF QuotaInv
  <2> QED
    BY <2>3, <2>4, <2>5 DEF SpeakInv
<1> QED
  BY <1>13, <1>14

(* A chunk fails; what was said is never booked.                           *)
LEMMA FailsKeeps ==
    ASSUME SpeakInv, LongestIs, NEW s \in Speakers, NEW voiced \in BOOLEAN, ChunkFails(s, voiced)
    PROVE  SpeakInv'
<1> DEFINE t == speak[s]
           lost == IF voiced THEN Chars(Head(t.chunks)) ELSE 0
           r == [t EXCEPT !.at = "idle", !.outcome = "error"]
           a == Total(SaidBy, Upstream)
           b == Total(TextOf, Upstream)
           c == Total(SaidBy', Upstream')
           d == Total(TextOf', Upstream')
           w == QuotaLimit + (Cardinality(Speakers) - 1) * Longest
<1>1. t \in Talks /\ TalkInv(t) /\ t.at = "upstream" /\ t.chunks # <<>>
  BY DEF SpeakInv, TalksInv, TalkInv, ChunkFails
<1>2. /\ Answer(s, "error") /\ spoken' = spoken + lost
      /\ unbooked' = unbooked + Chars(t.said) + lost
      /\ UNCHANGED <<counted, pipeline, modelLoads>>
  BY DEF ChunkFails
<1>3. lost \in Nat
  <2>1. t.chunks \in Seq(Texted)
    BY <1>1 DEF Talks
  <2>2. Head(t.chunks) \in Seq(Nat)
    BY <1>1, <2>1, FlatTail DEF Texted
  <2> QED
    BY <2>2, CharsType
<1>4. /\ speak' = [speak EXCEPT ![s] = r] /\ TalkInv(r) /\ r.at = "idle" /\ r \in Talks
  <2>1. "error" \in SpeakOutcomes
    BY DEF SpeakOutcomes
  <2>2. TalksInv
    BY DEF SpeakInv
  <2>3. PICK q \in Talks : /\ speak' = [speak EXCEPT ![s] = q] /\ TalkInv(q) /\ q.at = "idle"
                           /\ q = [speak[s] EXCEPT !.at = "idle", !.outcome = "error"]
    BY <1>2, <2>1, <2>2, AnswerIs
  <2>4. q = r
    BY <2>3
  <2> HIDE DEF r
  <2> QED
    BY <2>3, <2>4
<1> HIDE DEF lost, r
<1>5. TalksInv'
  BY <1>4, TalkMoves DEF SpeakInv
<1>6. LoadsInv'
  <2>1. r.at # "loading"
    BY <1>4
  <2> QED
    BY <1>2, <1>4, <2>1, LoadsStay DEF SpeakInv
<1>7. /\ a + (IF r.at = "upstream" THEN Chars(r.said) ELSE 0)
            = c + (IF speak[s].at = "upstream" THEN Chars(speak[s].said) ELSE 0)
      /\ b + (IF r.at = "upstream" THEN Chars(r.text) ELSE 0)
            = d + (IF speak[s].at = "upstream" THEN Chars(speak[s].text) ELSE 0)
      /\ a \in Nat /\ b \in Nat /\ c \in Nat /\ d \in Nat
      /\ Chars(t.said) \in Nat /\ Chars(t.text) \in Nat
  BY <1>4, SumsMove DEF SpeakInv
<1>8. /\ spoken \in Nat /\ counted \in Nat /\ unbooked \in Nat
      /\ spoken <= counted + unbooked + a /\ counted + b <= w
  BY DEF SpeakInv, QuotaInv
<1>9. a = c + Chars(t.said) /\ b = d + Chars(t.text)
  <2> HIDE DEF a, b, c, d
  <2> QED
    BY <1>1, <1>4, <1>7
<1>10. spoken' \in Nat /\ unbooked' \in Nat /\ spoken' <= counted' + unbooked' + c
  <2> HIDE DEF a, b, c, d, w
  <2> QED
    BY <1>2, <1>3, <1>7, <1>8, <1>9
<1>11. counted' + d <= w
  <2>1. counted' + d <= counted + b /\ counted' + d \in Int /\ counted + b \in Int
    BY <1>2, <1>7, <1>8, <1>9
  <2>2. w \in Int
    <3>1. Cardinality(Speakers) \in Nat
      BY SpeakAssumption, FS_CardinalityType
    <3>2. Longest \in Nat /\ QuotaLimit \in Nat
      BY SpeakAssumption DEF LongestIs
    <3> QED
      BY <3>1, <3>2
  <2> HIDE DEF w, b, d
  <2> QED
    BY <1>8, <2>1, <2>2
<1>12. QuotaInv'
  BY <1>2, <1>8, <1>10, <1>11 DEF QuotaInv
<1> QED
  BY <1>5, <1>6, <1>12 DEF SpeakInv

(* kokoro's worker finds the model loaded, or begins to load it.           *)
LEMMA StartsKeeps ==
    ASSUME SpeakInv, NEW s \in Speakers, KokoroStarts(s)
    PROVE  SpeakInv'
<1> DEFINE t == speak[s]
           at == IF pipeline THEN "voicing" ELSE "loading"
           r == [t EXCEPT !.at = at]
<1>1. t \in Talks /\ TalkInv(t) /\ t.at = "starting" /\ speak \in [Speakers -> Talks]
      /\ t.prefer = "default" /\ TalksInv
  BY DEF SpeakInv, TalksInv, TalkInv, KokoroStarts
<1>2. UNCHANGED <<counted, spoken, unbooked, pipeline, modelLoads>>
  BY DEF KokoroStarts
<1>3. CASE Answer(s, "error")
  <2>1. "error" \in SpeakOutcomes /\ speak[s].at # "upstream"
    BY <1>1 DEF SpeakOutcomes
  <2>2. Calm
    BY <1>1, <1>2, <1>3, <2>1, AnswerIsCalm
  <2> QED
    BY <2>2, CalmKeeps
<1>4. CASE speak' = [speak EXCEPT ![s].at = IF pipeline THEN "voicing" ELSE "loading"]
  <2>1. speak' = [speak EXCEPT ![s] = r]
    BY <1>1, <1>4
  <2>2. at \in {"voicing", "loading"} /\ (pipeline => at # "loading")
    BY DEF SpeakInv, LoadsInv
  <2> HIDE DEF at, t
  <2>3. r \in Talks /\ r.at = at /\ r.prefer = "default"
    BY <1>1, <2>2 DEF Talks, SpeakSpots
  <2> HIDE DEF r
  <2>4. TalkInv(r) /\ r.at # "upstream" /\ speak[s].at # "upstream"
    BY <1>1, <2>2, <2>3 DEF TalkInv, t
  <2>5. TalksInv'
    BY <1>1, <2>1, <2>3, <2>4, TalkMoves
  <2>6. QuotaInv'
    BY <1>2, <2>1, <2>3, <2>4, QuotaStays DEF SpeakInv
  <2>7. LoadsInv'
    <3>1. CASE pipeline
      BY <1>2, <2>1, <2>2, <2>3, <2>4, <3>1, LoadsStay DEF SpeakInv
    <3>2. CASE ~pipeline
      <4> DEFINE k == Cardinality(Loading')
                 n == Cardinality(Speakers)
      <4>1. k \in Nat /\ n \in Nat /\ k <= n
        BY <1>1, <2>1, <2>3, <2>4, LoadingMoves
      <4>2. modelLoads = 0
        BY <3>2 DEF SpeakInv, LoadsInv
      <4>3. modelLoads + k <= n
        <5> HIDE DEF k, n
        <5> QED
          BY <4>1, <4>2
      <4> QED
        BY <1>2, <4>3 DEF LoadsInv, SpeakInv
    <3> QED
      BY <3>1, <3>2
  <2> QED
    BY <2>5, <2>6, <2>7 DEF SpeakInv
<1> QED
  BY <1>3, <1>4 DEF KokoroStarts

(* The model is loaded, or cannot be.                                      *)
LEMMA LoadsKeeps ==
    ASSUME SpeakInv, NEW s \in Speakers, KokoroLoads(s)
    PROVE  SpeakInv'
<1> DEFINE t == speak[s]
           r == [t EXCEPT !.at = "voicing"]
<1>1. t \in Talks /\ TalkInv(t) /\ t.at = "loading" /\ speak \in [Speakers -> Talks]
      /\ t.prefer = "default" /\ TalksInv
  BY DEF SpeakInv, TalksInv, TalkInv, KokoroLoads
<1>2. UNCHANGED <<counted, spoken, unbooked>>
  BY DEF KokoroLoads
<1>3. CASE Answer(s, "error") /\ UNCHANGED <<pipeline, modelLoads>>
  <2>1. "error" \in SpeakOutcomes /\ speak[s].at # "upstream"
        /\ UNCHANGED <<counted, spoken, unbooked, pipeline, modelLoads>>
    BY <1>1, <1>2, <1>3 DEF SpeakOutcomes
  <2>2. Calm
    BY <1>1, <1>3, <2>1, AnswerIsCalm
  <2> QED
    BY <2>2, CalmKeeps
<1>4. CASE /\ pipeline' = ModelKept /\ modelLoads' = modelLoads + 1
           /\ speak' = [speak EXCEPT ![s].at = "voicing"]
  <2>1. speak' = [speak EXCEPT ![s] = r]
    BY <1>1, <1>4
  <2> HIDE DEF t
  <2>3. r \in Talks /\ r.at = "voicing" /\ r.prefer = "default"
    BY <1>1 DEF Talks, SpeakSpots
  <2> HIDE DEF r
  <2>4. /\ TalkInv(r) /\ r.at # "upstream" /\ r.at # "loading"
        /\ speak[s].at # "upstream" /\ speak[s].at = "loading"
    BY <1>1, <2>3 DEF TalkInv, t
  <2>5. TalksInv'
    BY <1>1, <2>1, <2>3, <2>4, TalkMoves
  <2>6. QuotaInv'
    BY <1>2, <2>1, <2>3, <2>4, QuotaStays DEF SpeakInv
  <2>7. LoadsInv'
    <3> DEFINE k == Cardinality(Loading')
               j == Cardinality(Loading)
               n == Cardinality(Speakers)
    <3>1. k \in Nat /\ j \in Nat /\ n \in Nat /\ k = j - 1
      BY <1>1, <2>1, <2>3, <2>4, LoadingMoves
    <3>2. modelLoads \in Nat /\ modelLoads + j <= n
      BY DEF SpeakInv, LoadsInv
    <3>3. modelLoads' \in Nat /\ modelLoads' + k <= n
      <4> HIDE DEF k, j, n
      <4> QED
        BY <1>4, <3>1, <3>2
    <3>4. pipeline' = TRUE
      BY <1>4 DEF ModelKept
    <3> QED
      BY <3>3, <3>4 DEF LoadsInv
  <2> QED
    BY <2>5, <2>6, <2>7 DEF SpeakInv
<1> QED
  BY <1>3, <1>4 DEF KokoroLoads

(* The month turns under whoever is speaking.                              *)
LEMMA MonthKeeps ==
    ASSUME SpeakInv, LongestIs, MonthTurns
    PROVE  SpeakInv'
<1>1. counted' = 0 /\ spoken' = 0 /\ unbooked' = 0 /\ UNCHANGED <<speak, pipeline, modelLoads>>
  BY DEF MonthTurns
<1>2. TalksInv' /\ LoadsInv'
  BY <1>1 DEF SpeakInv, TalksInv, LoadsInv, Loading
<1>3. Total(SaidBy, Upstream)' = Total(SaidBy, Upstream)
      /\ Total(TextOf, Upstream)' = Total(TextOf, Upstream)
  BY <1>1 DEF SaidBy, TextOf, Upstream
<1> DEFINE a == Total(SaidBy, Upstream)
           b == Total(TextOf, Upstream)
           w == QuotaLimit + (Cardinality(Speakers) - 1) * Longest
<1>4. a \in Nat /\ b \in Nat
  BY SpeakSums DEF SpeakInv
<1>5. counted \in Nat /\ counted + b <= w
  BY DEF SpeakInv, QuotaInv
<1>6. 0 + b <= w /\ 0 <= 0 + 0 + a
  <2>1. w \in Int
    <3>1. Cardinality(Speakers) \in Nat
      BY SpeakAssumption, FS_CardinalityType
    <3>2. Longest \in Nat
      BY DEF LongestIs
    <3> QED
      BY <3>1, <3>2, SpeakAssumption
  <2> HIDE DEF a, b, w
  <2> QED
    BY <1>4, <1>5, <2>1
<1>7. QuotaInv'
  BY <1>1, <1>3, <1>6 DEF QuotaInv
<1> QED
  BY <1>2, <1>7 DEF SpeakInv

(* What is under way when the gateway dies, in the order it is added up.   *)
LEMMA UnderWayIs ==
    ASSUME TalksInv
    PROVE  FoldSet(LAMBDA s, sum : Chars(speak[s].said) + sum, 0, Upstream)
              = Total(SaidBy, Upstream)
<1> DEFINE R == Upstream
           f == SaidBy
           Adds(g) == g = [T \in SUBSET R |->
                    IF T = {} THEN 0
                    ELSE LET x == CHOOSE x \in T : TRUE IN Chars(speak[x].said) + g[T \ {x}]]
           up == CHOOSE g : Adds(g)
<1>1. IsFiniteSet(R) /\ \A s \in R : f[s] = Chars(speak[s].said) /\ f[s] \in Nat
  <2>1. IsFiniteSet(R)
    BY SpeakAssumption, FS_Subset DEF Upstream
  <2>2. \A s \in Speakers : f[s] = Chars(speak[s].said) /\ f[s] \in Nat
    BY SpeakSums
  <2> QED
    BY <2>1, <2>2 DEF Upstream
<1>2. FoldSet(LAMBDA s, sum : Chars(speak[s].said) + sum, 0, R) = up[R]
  BY DEF FoldSet, MapThenFoldSet
<1> HIDE DEF R, f
<1>3. \A s \in R : f[s] \in Nat
  BY <1>1
<1>4. PICK g : Summed(g, f, R)
  BY <1>1, <1>3, SummedExists
<1>5. \A h : Summed(h, f, R) <=> Adds(h)
  <2> SUFFICES ASSUME NEW h, NEW T \in SUBSET R
               PROVE  (IF T = {} THEN 0 ELSE f[FirstOf(T)] + h[T \ {FirstOf(T)}])
                      = IF T = {} THEN 0
                        ELSE LET x == CHOOSE x \in T : TRUE IN Chars(speak[x].said) + h[T \ {x}]
    BY DEF Summed
  <2>1. T # {} => FirstOf(T) \in R
    BY DEF FirstOf
  <2> QED
    BY <1>1, <2>1 DEF FirstOf
<1>6. Summed(up, f, R)
  <2>1. Adds(up)
    <3>1. Adds(g)
      BY <1>4, <1>5
    <3> HIDE DEF Adds
    <3> QED
      BY <3>1
  <2> HIDE DEF up
  <2> QED
    BY <1>5, <2>1
<1> HIDE DEF up
<1>7. Total(f, R) = up[R]
  <2>1. R \in SUBSET R
    OBVIOUS
  <2> QED
    BY <1>1, <1>3, <1>6, <2>1, TotalIs
<1> QED
  BY <1>2, <1>7 DEF R, f

(* Nobody is under way.                                                    *)
NobodySpeaks ==
    /\ TalksInv /\ Cardinality(Loading) = 0
    /\ Total(SaidBy, Upstream) = 0 /\ Total(TextOf, Upstream) = 0

LEMMA AllQuiet == speak = [s \in Speakers |-> Quiet] => NobodySpeaks
<1> SUFFICES ASSUME speak = [s \in Speakers |-> Quiet] PROVE NobodySpeaks
  OBVIOUS
<1>1. TalksInv
  BY QuietIs DEF TalksInv
<1>2. Upstream = {} /\ Loading = {}
  BY QuietIs DEF Upstream, Loading
<1>3. IsFiniteSet({}) /\ Cardinality({}) = 0
  BY FS_EmptySet
<1>4. Total(SaidBy, {}) = 0
  <2> DEFINE f == SaidBy
  <2>1. \A x \in {} : f[x] \in Nat
    OBVIOUS
  <2> HIDE DEF f
  <2> QED
    BY <1>3, <2>1, TotalLaws DEF f
<1>5. Total(TextOf, {}) = 0
  <2> DEFINE f == TextOf
  <2>1. \A x \in {} : f[x] \in Nat
    OBVIOUS
  <2> HIDE DEF f
  <2> QED
    BY <1>3, <2>1, TotalLaws DEF f
<1> QED
  BY <1>1, <1>2, <1>3, <1>4, <1>5 DEF NobodySpeaks

LEMMA AllQuietNext == (speak = [s \in Speakers |-> Quiet] => NobodySpeaks)'
  BY AllQuiet, PTL

(* Room for the quota and the other speakers is not negative.              *)
LEMMA SpeakStart ==
    ASSUME LongestIs, SpeakInit
    PROVE  SpeakInv
<1> DEFINE n == Cardinality(Speakers) - 1
           u == n * Longest
<1>1. /\ TalksInv /\ Cardinality(Loading) = 0
      /\ Total(SaidBy, Upstream) = 0 /\ Total(TextOf, Upstream) = 0
  BY AllQuiet DEF SpeakInit, NobodySpeaks
<1>2. n \in Nat
  <2>1. Cardinality(Speakers) \in Nat /\ Cardinality(Speakers) # 0
    BY SpeakAssumption, FS_CardinalityType, FS_EmptySet DEF LongestIs
  <2> QED
    BY <2>1
<1>3. u \in Nat
  <2>1. Longest \in Nat
    BY DEF LongestIs
  <2> HIDE DEF n
  <2> QED
    BY <1>2, <2>1
<1> HIDE DEF u
<1>4. QuotaInv
  <2>1. QuotaLimit \in Nat /\ 0 + 0 <= QuotaLimit + u
    BY <1>3, SpeakAssumption
  <2> QED
    BY <1>1, <2>1 DEF QuotaInv, SpeakInit, u, n
<1>5. LoadsInv
  <2>1. Cardinality(Speakers) \in Nat
    BY SpeakAssumption, FS_CardinalityType
  <2>2. 0 + 0 <= Cardinality(Speakers)
    BY <2>1
  <2> QED
    BY <1>1, <2>2 DEF LoadsInv, SpeakInit
<1> QED
  BY <1>1, <1>4, <1>5 DEF SpeakInv

(* The gateway dies: what was said and not booked is given up, and with a  *)
(* torn counter what was booked is given up too.                           *)
LEMMA CrashKeeps ==
    ASSUME SpeakInv, LongestIs, NEW torn \in BOOLEAN, TtsCrash(torn)
    PROVE  SpeakInv'
<1> DEFINE a == Total(SaidBy, Upstream)
           b == Total(TextOf, Upstream)
           w == QuotaLimit + (Cardinality(Speakers) - 1) * Longest
<1>1. speak' = [s \in Speakers |-> Quiet] /\ pipeline' = FALSE /\ modelLoads' = 0
  BY DEF TtsCrash
<1>2. /\ TalksInv' /\ Cardinality(Loading)' = 0
      /\ Total(SaidBy, Upstream)' = 0 /\ Total(TextOf, Upstream)' = 0
  BY <1>1, AllQuietNext DEF NobodySpeaks
<1>3. a \in Nat /\ b \in Nat /\ TalksInv
  BY SpeakSums DEF SpeakInv
<1>4. FoldSet(LAMBDA s, sum : Chars(speak[s].said) + sum, 0,
              {s \in Speakers : speak[s].at = "upstream"}) = a
  BY <1>3, UnderWayIs DEF Upstream
<1>5. /\ spoken \in Nat /\ counted \in Nat /\ unbooked \in Nat
      /\ spoken <= counted + unbooked + a /\ counted + b <= w
  BY DEF SpeakInv, QuotaInv
<1>6. w \in Int
  <2>1. Cardinality(Speakers) \in Nat
    BY SpeakAssumption, FS_CardinalityType
  <2>2. Longest \in Nat /\ QuotaLimit \in Nat
    BY SpeakAssumption DEF LongestIs
  <2> QED
    BY <2>1, <2>2
<1>7. /\ spoken' \in Nat /\ counted' \in Nat /\ unbooked' \in Nat
      /\ spoken' <= counted' + unbooked' + 0 /\ counted' + 0 <= w
  <2>1. CASE torn
    <3>1. PICK s \in {s \in Speakers : speak[s].at = "upstream" /\ Len(speak[s].chunks) = 1} :
             LET last == Chars(Head(speak[s].chunks)) IN
                   /\ spoken' = spoken + last /\ counted' = 0
                   /\ unbooked' = unbooked + a + last + counted
      BY <1>4, <2>1 DEF TtsCrash
    <3> DEFINE last == Chars(Head(speak[s].chunks))
    <3>2. last \in Nat
      <4> DEFINE cs == speak[s].chunks
      <4>1. cs \in Seq(Texted) /\ Len(cs) = 1
        BY <1>3, <3>1 DEF TalksInv, Talks
      <4>2. Head(cs) \in Seq(Nat)
        <5> HIDE DEF cs
        <5> QED
          BY <4>1 DEF Texted
      <4> QED
        BY <4>2, CharsType
    <3>3. spoken' = spoken + last /\ counted' = 0 /\ unbooked' = unbooked + a + last + counted
      BY <3>1
    <3> HIDE DEF last, a, b, w
    <3> QED
      BY <1>3, <1>5, <1>6, <3>2, <3>3
  <2>2. CASE ~torn
    <3>1. UNCHANGED <<spoken, counted>> /\ unbooked' = unbooked + a
      BY <1>4, <2>2 DEF TtsCrash
    <3> HIDE DEF a, b, w
    <3> QED
      BY <1>3, <1>5, <1>6, <3>1
  <2> QED
    BY <2>1, <2>2
<1>8. QuotaInv'
  BY <1>2, <1>7 DEF QuotaInv
<1>9. LoadsInv'
  <2>1. Cardinality(Speakers) \in Nat
    BY SpeakAssumption, FS_CardinalityType
  <2>2. 0 + 0 <= Cardinality(Speakers)
    BY <2>1
  <2> QED
    BY <1>1, <1>2, <2>2 DEF LoadsInv
<1> QED
  BY <1>2, <1>8, <1>9 DEF SpeakInv

LEMMA SpeakStands ==
    ASSUME SpeakInv, UNCHANGED ttsVars
    PROVE  SpeakInv'
<1>1. UNCHANGED <<speak, counted, pipeline, spoken, unbooked, modelLoads>>
  BY DEF ttsVars
<1>2. TalksInv' /\ LoadsInv'
  BY <1>1 DEF SpeakInv, TalksInv, LoadsInv, Loading
<1>3. Total(SaidBy, Upstream)' = Total(SaidBy, Upstream)
      /\ Total(TextOf, Upstream)' = Total(TextOf, Upstream)
  BY <1>1 DEF SaidBy, TextOf, Upstream
<1>4. QuotaInv'
  BY <1>1, <1>3 DEF SpeakInv, QuotaInv
<1> QED
  BY <1>2, <1>4 DEF SpeakInv

LEMMA SpeakStep ==
    ASSUME SpeakInv, LongestIs, [SpeakNext]_ttsVars
    PROVE  SpeakInv'
<1>1. ASSUME NEW s \in Speakers, NEW text \in Texts, SpeakQuality(s, text) PROVE SpeakInv'
  BY <1>1, QualityKeeps
<1>2. ASSUME NEW s \in Speakers, ChunkVoiced(s) PROVE SpeakInv'
  BY <1>2, VoicedKeeps
<1>3. ASSUME NEW s \in Speakers, ChunkFails(s, TRUE) \/ ChunkFails(s, FALSE) PROVE SpeakInv'
  <2>1. TRUE \in BOOLEAN /\ FALSE \in BOOLEAN
    OBVIOUS
  <2> QED
    BY <1>3, <2>1, FailsKeeps
<1>4. ASSUME NEW s \in Speakers, KokoroStarts(s) PROVE SpeakInv'
  BY <1>4, StartsKeeps
<1>5. ASSUME NEW s \in Speakers, KokoroLoads(s) PROVE SpeakInv'
  BY <1>5, LoadsKeeps
<1>6. ASSUME NEW s \in Speakers,
             SpeakDefault(s) \/ SpeakStreaming(s) \/ SpeakFallback(s) \/ SpeakRealtime(s)
      PROVE  SpeakInv'
  <2>1. TalksInv
    BY DEF SpeakInv
  <2>2. Calm
    BY <1>6, <2>1, SpeakBegins
  <2> QED
    BY <2>2, CalmKeeps
<1>7. ASSUME NEW s \in Speakers, KokoroVoices(s) \/ StreamEnds(s) PROVE SpeakInv'
  <2>1. TalksInv
    BY DEF SpeakInv
  <2>2. Calm
    BY <1>7, <2>1, VoicesEnd
  <2> QED
    BY <2>2, CalmKeeps
<1>8. ASSUME NEW s \in Speakers, SpeakFrame(s) \/ SessionEnds(s) PROVE SpeakInv'
  <2>1. TalksInv
    BY DEF SpeakInv
  <2>2. Calm
    BY <1>8, <2>1, FramesCalm
  <2> QED
    BY <2>2, CalmKeeps
<1>9. CASE MonthTurns
  BY <1>9, MonthKeeps
<1>10. CASE TtsCrash(TRUE) \/ TtsCrash(FALSE)
  <2>1. TRUE \in BOOLEAN /\ FALSE \in BOOLEAN
    OBVIOUS
  <2> QED
    BY <1>10, <2>1, CrashKeeps
<1>11. CASE UNCHANGED ttsVars
  BY <1>11, SpeakStands
<1> QED
  BY <1>1, <1>2, <1>3, <1>4, <1>5, <1>6, <1>7, <1>8, <1>9, <1>10, <1>11 DEF SpeakNext

(* The invariant says what the run checks.                                 *)
LEMMA SpeechFollows ==
    ASSUME SpeakInv, LongestIs
    PROVE  SpeechAccounted
<1>1. TalksInv /\ LoadsInv /\ QuotaInv
  BY DEF SpeakInv
<1>2. MonthOvershootBounded
  <2> DEFINE a == Total(SaidBy, Upstream)
             b == Total(TextOf, Upstream)
             u == (Cardinality(Speakers) - 1) * Longest
  <2>1. a <= b
    <3>1. IsFiniteSet(Upstream)
      BY SpeakAssumption, FS_Subset DEF Upstream
    <3>2. ASSUME NEW s \in Upstream
          PROVE  SaidBy[s] \in Nat /\ TextOf[s] \in Nat /\ SaidBy[s] <= TextOf[s]
      <4> DEFINE t == speak[s]
                 x == t.said
                 y == FlattenSeq(t.chunks)
      <4>1. s \in Speakers /\ t \in Talks /\ TalkInv(t) /\ t.at = "upstream"
        BY <1>1 DEF TalksInv, Upstream
      <4>2. x \o y = t.text
        BY <4>1 DEF TalkInv
      <4>3. x \in Texted /\ y \in Texted
        BY <4>1, FlatType DEF Talks
      <4>4. SaidBy[s] = Chars(x) /\ TextOf[s] = Chars(t.text)
        BY <1>1, <4>1, SpeakSums
      <4>5. Chars(x \o y) = Chars(x) + Chars(y) /\ Chars(x) \in Nat /\ Chars(y) \in Nat
        <5> HIDE DEF x, y
        <5> QED
          BY <4>3, CharsConcat, CharsType DEF Texted
      <4> QED
        BY <4>2, <4>4, <4>5
    <3> QED
      BY <3>1, <3>2, TotalLess
  <2>2. a \in Nat /\ b \in Nat
    BY <1>1, SpeakSums
  <2>3. u \in Int
    <3>1. Cardinality(Speakers) \in Nat /\ Longest \in Nat
      BY SpeakAssumption, FS_CardinalityType DEF LongestIs
    <3> QED
      BY <3>1
  <2>4. /\ spoken \in Nat /\ counted \in Nat /\ unbooked \in Nat
        /\ spoken <= counted + unbooked + a /\ counted + b <= QuotaLimit + u /\ QuotaLimit \in Nat
    BY <1>1, SpeakAssumption DEF QuotaInv
  <2>5. spoken <= QuotaLimit + unbooked + u
    <3> HIDE DEF a, b, u
    <3> QED
      BY <2>1, <2>2, <2>3, <2>4
  <2> QED
    BY <2>5 DEF MonthOvershootBounded, Longest
<1>3. NothingUnsaid
  <2>1. \A s \in Speakers : TalkInv(speak[s])
    BY <1>1 DEF TalksInv
  <2> QED
    BY <2>1 DEF NothingUnsaid, TalkInv, AllFit, FitsChunk
<1>4. LoadsBounded
  <2> DEFINE a == Cardinality(Loading)
             n == Cardinality(Speakers)
  <2>1. a \in Nat /\ n \in Nat
    BY SpeakAssumption, FS_Subset, FS_CardinalityType DEF Loading
  <2>2. modelLoads \in Nat /\ modelLoads + a <= n
    BY <1>1 DEF LoadsInv
  <2>3. modelLoads <= n
    <3> HIDE DEF a, n
    <3> QED
      BY <2>1, <2>2
  <2> QED
    BY <2>3 DEF LoadsBounded
<1>5. SessionAccounted
  <2>1. \A s \in Speakers : TalkInv(speak[s])
    BY <1>1 DEF TalksInv
  <2> QED
    BY <2>1 DEF SessionAccounted, TalkInv
<1> QED
  BY <1>2, <1>3, <1>4, <1>5 DEF SpeechAccounted

LEMMA SpeakTyped == SpeakInv => SpeakTypeOK
  BY DEF SpeakInv, TalksInv, LoadsInv, QuotaInv, SpeakTypeOK, Talks,
         SpeakSpots, SpeakPrefers, SpeakOutcomes

(* For any finite set of texts, any quota, chunk and audio limit, and any  *)
(* number of concurrent requests, failures, crashes, torn counters and     *)
(* turns of the month: the quota is overshot by no more than one longest   *)
(* text for every other request and what was never booked, no sentence is  *)
(* lost between the chunks, the model is loaded at most once per request,  *)
(* and a session is charged what it was told (quality, default and         *)
(* realtime speech).                                                       *)
THEOREM SpeechAlwaysAccounted ==
    ASSUME IsFiniteSet(Texts), Texts # {}, Speakers # {}
    PROVE  SpeakSpec => []SpeechAccounted
<1>1. LongestIs
  BY LongestExists
<1>2. SpeakInit => SpeakInv
  BY <1>1, SpeakStart
<1>3. SpeakInv /\ [SpeakNext]_ttsVars => SpeakInv'
  BY <1>1, SpeakStep
<1>4. SpeakInv => SpeechAccounted
  BY <1>1, SpeechFollows
<1> QED
  BY <1>2, <1>3, <1>4, PTL DEF SpeakSpec

-----------------------------------------------------------------------------
(* All the parts of the money run together.                                *)

(* Names are counted up, within their bound; the service's contents are    *)
(* finitely many.                                                          *)
MintsTyped == GeminiTypeOK /\ IsFiniteSet(contents)

LEMMA MintsTypedStep == MintsTyped /\ [GeminiNext]_geminiVars => MintsTyped'
<1> SUFFICES ASSUME MintsTyped, [GeminiNext]_geminiVars PROVE MintsTyped'
  OBVIOUS
<1>a. /\ gNow \in Nat /\ DOMAIN gStore \subseteq Keys
      /\ \A k \in DOMAIN gStore : gStore[k] \in [name: 1 .. MaxMints, exp: Nat]
      /\ minting \in [GeminiCallers -> [key: Keys \cup {NoKey}, now: Nat]]
      /\ contents \subseteq Contents /\ handed \subseteq [name: 1 .. MaxMints, at: Nat]
      /\ IsFiniteSet(contents) /\ Cardinality(contents) \in Nat
      /\ NoKey \notin Keys /\ MintTtl \in Nat /\ MaxMints \in Nat
  BY GeminiAssumption, FS_CardinalityType DEF MintsTyped, GeminiTypeOK
<1>b. Waiting \in [key: Keys \cup {NoKey}, now: Nat]
  BY DEF Waiting
<1>c. ASSUME NEW d PROVE IsFiniteSet(contents \cup {d})
  BY <1>a, FS_AddElement
<1>1. ASSUME NEW c \in GeminiCallers, NEW k \in Keys, GetCached(c, k) PROVE MintsTyped'
  <2>1. gStore[k].name \in 1 .. MaxMints
    BY <1>1, <1>a DEF GetCached, Valid
  <2> QED
    BY <1>1, <1>a, <2>1 DEF GetCached, MintsTyped, GeminiTypeOK
<1>2. ASSUME NEW c \in GeminiCallers, NEW k \in Keys, StartMint(c, k) PROVE MintsTyped'
  BY <1>2, <1>a DEF StartMint, MintsTyped, GeminiTypeOK
<1>3. ASSUME NEW c \in GeminiCallers, MintSucceeds(c) PROVE MintsTyped'
  <2> DEFINE k == minting[c].key
             name == Cardinality(contents) + 1
             exp == minting[c].now + MintTtl
  <2>1. k \in Keys /\ name \in 1 .. MaxMints /\ exp \in Nat
    BY <1>3, <1>a DEF MintSucceeds
  <2>2. PICK made \in minting[c].now .. gNow :
            contents' = contents \cup {[name |-> name, key |-> k, until |-> made + MintTtl]}
    BY <1>3 DEF MintSucceeds
  <2>3. made + MintTtl \in Nat
    BY <1>a, <2>2
  <2>4. /\ gStore' = [j \in DOMAIN gStore \cup {k} |->
                         IF j = k THEN [name |-> name, exp |-> exp] ELSE gStore[j]]
        /\ minting' = [minting EXCEPT ![c] = Waiting]
        /\ handed' = {[name |-> name, at |-> gNow]} /\ gNow' = gNow
    BY <1>3 DEF MintSucceeds, Remember
  <2> HIDE DEF k, name, exp
  <2>5. contents' \subseteq Contents /\ IsFiniteSet(contents')
    <3> DEFINE d == [name |-> name, key |-> k, until |-> made + MintTtl]
    <3>1. contents' = contents \cup {d} /\ d \in Contents
      BY <2>1, <2>2, <2>3 DEF Contents
    <3> HIDE DEF d
    <3> QED
      BY <1>a, <1>c, <3>1
  <2>6. /\ DOMAIN gStore' \subseteq Keys
        /\ \A j \in DOMAIN gStore' : gStore'[j] \in [name: 1 .. MaxMints, exp: Nat]
    BY <1>a, <2>1, <2>4
  <2>7. handed' \subseteq [name: 1 .. MaxMints, at: Nat]
    BY <1>a, <2>1, <2>4
  <2> QED
    BY <1>a, <1>b, <2>4, <2>5, <2>6, <2>7 DEF MintsTyped, GeminiTypeOK
<1>4. ASSUME NEW c \in GeminiCallers, MintFails(c) PROVE MintsTyped'
  <2>1. minting[c].key \in Keys
    BY <1>4, <1>a DEF MintFails
  <2>2. contents' \subseteq Contents /\ IsFiniteSet(contents')
    <3>1. CASE UNCHANGED contents
      BY <1>a, <3>1
    <3>2. CASE /\ Cardinality(contents) < MaxMints
               /\ contents' = contents \cup
                    {[name |-> Cardinality(contents) + 1, key |-> minting[c].key,
                      until |-> gNow + MintTtl]}
      <4>1. Cardinality(contents) + 1 \in 1 .. MaxMints /\ gNow + MintTtl \in Nat
        BY <1>a, <3>2
      <4> DEFINE d == [name |-> Cardinality(contents) + 1, key |-> minting[c].key,
                       until |-> gNow + MintTtl]
      <4>2. d \in Contents
        BY <2>1, <4>1 DEF Contents
      <4>3. contents' = contents \cup {d}
        BY <3>2
      <4> HIDE DEF d
      <4> QED
        BY <1>a, <1>c, <4>2, <4>3
    <3> QED
      BY <1>4, <3>1, <3>2 DEF MintFails
  <2> QED
    BY <1>4, <1>a, <1>b, <2>2 DEF MintFails, MintsTyped, GeminiTypeOK
<1>5. CASE GeminiTick
  BY <1>5, <1>a DEF GeminiTick, MintsTyped, GeminiTypeOK
<1>6. CASE UNCHANGED geminiVars
  BY <1>6, <1>a DEF geminiVars, MintsTyped, GeminiTypeOK
<1> QED
  BY <1>1, <1>2, <1>3, <1>4, <1>5, <1>6 DEF GeminiNext

MoneyInv == CacheInv /\ MintsTyped /\ BudgetTypes /\ LimiterInv /\ SpeakInv

(* A step of the whole is for each part a step of its own or none.         *)
LEMMA EachPaysItsPart ==
    ASSUME [MoneyNext]_moneyVars
    PROVE  /\ [CacheNext]_cacheVars /\ [GeminiNext]_geminiVars /\ [BudgetNext]_budgetVars
           /\ [Next]_vars /\ [SpeakNext]_ttsVars
<1>1. CASE MoneyNext
  BY <1>1 DEF MoneyNext, Part
<1>2. CASE UNCHANGED moneyVars
  BY <1>2 DEF moneyVars
<1> QED
  BY <1>1, <1>2

LEMMA MoneyTyped == ASSUME MoneyInv PROVE MoneyTypeOK
<1>1. CacheTypeOK
  BY DEF MoneyInv, CacheInv, TableInv, CountInv, CacheTypeOK, CacheRows
<1>2. BudgetTypeOK
  <2>1. BudgetTypes
    BY DEF MoneyInv
  <2>2. \A p \in DOMAIN file.policies : p \in Patterns /\ file.policies[p] \in BudgetPolicies
    BY <2>1, BudgetAssumption DEF BudgetTypes
  <2> QED
    BY <2>1, <2>2 DEF BudgetTypes, BudgetTypeOK
<1>3. GeminiTypeOK /\ TypeOK /\ SpeakTypeOK
  BY SpeakTyped DEF MoneyInv, MintsTyped, LimiterInv
<1> QED
  BY <1>1, <1>2, <1>3 DEF MoneyTypeOK

(* For every value of the constants, with finitely many texts to speak and *)
(* somebody to ask for one: the cache's rows are numbered below the next,  *)
(* names of contents and limiter windows stay within their bounds, rules   *)
(* and ledger rows are what the budget's arithmetic takes them for.        *)
THEOREM MoneyTypeCorrect ==
    ASSUME IsFiniteSet(Texts), Texts # {}, Speakers # {}
    PROVE  MoneySpec => []MoneyTypeOK
<1>1. LongestIs
  BY LongestExists
<1>2. MoneyInit => MoneyInv
  <2> SUFFICES ASSUME MoneyInit PROVE MoneyInv
    OBVIOUS
  <2>1. CacheInit /\ GeminiInit /\ BudgetInit /\ Init /\ SpeakInit
    BY DEF MoneyInit
  <2>2. MintsTyped
    BY <2>1, FS_EmptySet DEF GeminiInit, MintsTyped, GeminiTypeOK, Waiting
  <2>3. CacheInv /\ BudgetTypes /\ LimiterInv
    BY <2>1, CacheStart, BudgetTypesStart, InitInv
  <2>4. SpeakInv
    BY <1>1, <2>1, SpeakStart
  <2> QED
    BY <2>2, <2>3, <2>4 DEF MoneyInv
<1>3. MoneyInv /\ [MoneyNext]_moneyVars => MoneyInv'
  <2> SUFFICES ASSUME MoneyInv, [MoneyNext]_moneyVars PROVE MoneyInv'
    OBVIOUS
  <2>1. /\ [CacheNext]_cacheVars /\ [GeminiNext]_geminiVars /\ [BudgetNext]_budgetVars
        /\ [Next]_vars /\ [SpeakNext]_ttsVars
    BY EachPaysItsPart
  <2>2. CacheInv' /\ MintsTyped' /\ BudgetTypes'
    BY <2>1, CacheStep, MintsTypedStep, BudgetTypesStep DEF MoneyInv
  <2>3. LimiterInv' /\ SpeakInv'
    BY <1>1, <2>1, LimiterStep, SpeakStep DEF MoneyInv
  <2> QED
    BY <2>2, <2>3 DEF MoneyInv
<1>4. MoneyInv => MoneyTypeOK
  BY MoneyTyped
<1> QED
  BY <1>2, <1>3, <1>4, PTL DEF MoneySpec
=============================================================================
