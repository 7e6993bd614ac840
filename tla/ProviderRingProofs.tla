------------------------- MODULE ProviderRingProofs -------------------------
(***************************************************************************)
(* The ring is type correct and keeps its per-minute and daily limits and  *)
(* cooldowns, for any providers, callers and limits.  A deque is what is   *)
(* left of its provider's recorded history, and what is missing is outside *)
(* the window: that is the strengthening.  Calls that start unrecorded are *)
(* counted against the recorded ones.                                      *)
(***************************************************************************)
EXTENDS ProviderRing, SharedLemmas

(* Division by the length of a day, as the provers need it.                *)
LEMMA DayDivision ==
    ASSUME NEW t \in Nat
    PROVE  /\ t \div Day \in Nat
           /\ t % Day \in 0 .. (Day - 1)
           /\ t = Day * (t \div Day) + (t % Day)
  BY DayAssumption

(* The start of a day is a time, the latest day start that is not after t. *)
LEMMA DayStartType ==
    ASSUME NEW t \in Nat
    PROVE  /\ DayStart(t) \in Nat
           /\ DayStart(t) <= t /\ t < DayStart(t) + Day
           /\ DayStart(t) = Day * (t \div Day)
  BY DayAssumption, DayDivision DEF DayStart

(* A day starts at its own start.                                          *)
LEMMA DayStartIdempotent ==
    ASSUME NEW t \in Nat
    PROVE  DayStart(DayStart(t)) = DayStart(t)
<1> DEFINE s == DayStart(t)
           q == t \div Day
<1>1. s \in Nat /\ s = Day * q /\ q \in Nat
  BY DayStartType, DayDivision
<1>2. /\ s \div Day \in Nat
      /\ s % Day \in 0 .. (Day - 1)
      /\ s = Day * (s \div Day) + (s % Day)
  BY <1>1, DayDivision
<1> HIDE DEF s, q
<1>3. s \div Day <= q
  BY <1>1, <1>2, DayAssumption
<1>4. ~(s \div Day < q)
  <2> SUFFICES ASSUME s \div Day < q PROVE FALSE
    OBVIOUS
  <2>1. Day * ((s \div Day) + 1) <= Day * q
    BY <1>1, <1>2, DayAssumption
  <2>2. Day * ((s \div Day) + 1) = Day * (s \div Day) + Day
    BY <1>2, DayAssumption
  <2> QED
    BY <2>1, <2>2, <1>1, <1>2, DayAssumption
<1>5. s % Day = 0
  BY <1>1, <1>2, <1>3, <1>4, DayAssumption
<1> QED
  BY <1>1, <1>5 DEF DayStart, s

(* A whole day after a day's start, the next day has begun.                *)
LEMMA NextDayStart ==
    ASSUME NEW s \in Nat, NEW t \in Nat, s = DayStart(s), s + Day <= t
    PROVE  s + Day <= DayStart(t)
<1>1. /\ s = Day * (s \div Day) /\ s \div Day \in Nat
      /\ t = Day * (t \div Day) + (t % Day)
      /\ t \div Day \in Nat /\ t % Day \in 0 .. (Day - 1)
  BY DayStartType, DayDivision
<1>2. s \div Day < t \div Day
  BY <1>1, DayAssumption
<1>3. Day * ((s \div Day) + 1) <= Day * (t \div Day)
  BY <1>1, <1>2, DayAssumption
<1>4. Day * ((s \div Day) + 1) = Day * (s \div Day) + Day
  BY <1>1, DayAssumption
<1>5. DayStart(t) = Day * (t \div Day)
  BY DayStartType
<1> QED
  BY <1>1, <1>3, <1>4, <1>5, DayAssumption

(* Two times on either side of a day's start are on different days.        *)
LEMMA DaysDiffer ==
    ASSUME NEW x \in Nat, NEW s \in Nat, NEW y \in Nat,
           s = DayStart(s), x < s, s <= y
    PROVE  x \div Day # y \div Day
<1>1. /\ s = Day * (s \div Day) /\ s \div Day \in Nat
      /\ x = Day * (x \div Day) + (x % Day)
      /\ x \div Day \in Nat /\ x % Day \in 0 .. (Day - 1)
      /\ y = Day * (y \div Day) + (y % Day)
      /\ y \div Day \in Nat /\ y % Day \in 0 .. (Day - 1)
  BY DayStartType, DayDivision
<1>2. x \div Day < s \div Day
  BY <1>1, DayAssumption
<1>3. s \div Day <= y \div Day
  BY <1>1, DayAssumption
<1> QED
  BY <1>1, <1>2, <1>3

(* gc keeps a rate state a rate state, trims its calls at the cutoff and does *)
(* not touch its last call.                                                *)
LEMMA GcProperties ==
    ASSUME NEW rs \in RateStates, NEW t \in Nat
    PROVE  /\ Gc(rs, t) \in RateStates
           /\ Gc(rs, t).calls_minute = FromCutoff(rs.calls_minute, t - Window)
           /\ Gc(rs, t).last_call = rs.last_call
<1>0. t - Window \in Int /\ DayStart(t) \in Nat
  BY WindowAssumption, DayStartType
<1>1. FromCutoff(rs.calls_minute, t - Window) \in Times
  <2>1. rs.calls_minute \in Times
    BY DEF RateStates
  <2>2. Stale(rs.calls_minute, t - Window) \in Nat
    BY <1>0, <2>1, StaleProperties DEF Times
  <2> QED
    BY <2>1, <2>2, SuffixType DEF FromCutoff, Times
<1> DEFINE stamps == [i \in 1 .. Len(rs.tokens_minute) |-> rs.tokens_minute[i].at]
           left(n) == SubSeq(rs.tokens_minute, n + 1, Len(rs.tokens_minute))
<1>2. rs.tokens_minute \in Seq([at: Nat, n: Nat])
  BY DEF RateStates
<1>3. stamps \in Times
  <2>1. \A i \in 1 .. Len(rs.tokens_minute) : rs.tokens_minute[i].at \in Nat
    <3> SUFFICES ASSUME NEW i \in 1 .. Len(rs.tokens_minute)
                 PROVE  rs.tokens_minute[i].at \in Nat
      OBVIOUS
    <3>1. rs.tokens_minute[i] \in [at: Nat, n: Nat]
      BY <1>2, ElementOfSeq
    <3> QED
      BY <3>1
  <2>2. Len(rs.tokens_minute) \in Nat
    BY <1>2, LenProperties
  <2> HIDE <1>2
  <2> QED
    BY <2>1, <2>2 DEF Times
<1>4. Stale(stamps, t - Window) \in Nat
  <2> HIDE DEF stamps
  <2> QED
    BY <1>0, <1>3, StaleProperties DEF Times
<1>5. left(Stale(stamps, t - Window)) \in Seq([at: Nat, n: Nat])
  BY <1>2, <1>4, SuffixType
<1> QED
  BY <1>0, <1>1, <1>5 DEF RateStates, Gc

(* record, add_tokens and mark_unavailable keep a rate state a rate state. *)
LEMMA RateOperatorTypes ==
    ASSUME NEW rs \in RateStates, NEW t \in Nat, NEW n \in Nat
    PROVE  /\ Record(rs, t, n) \in RateStates
           /\ AddTokens(rs, t, n) \in RateStates
           /\ MarkUnavailable(rs, t, n) \in RateStates
<1>1. rs.calls_minute \in Seq(Nat) /\ rs.tokens_minute \in Seq([at: Nat, n: Nat])
  BY DEF RateStates, Times
<1>2. Append(rs.calls_minute, t) \in Seq(Nat)
  BY <1>1
<1>3. [at |-> t, n |-> n] \in [at: Nat, n: Nat]
  OBVIOUS
<1>4. Append(rs.tokens_minute, [at |-> t, n |-> n]) \in Seq([at: Nat, n: Nat])
  BY <1>1, <1>3
<1>5. /\ rs.calls_today + 1 \in Nat
      /\ rs.tokens_today + n \in Nat
      /\ t + n \in Nat
  BY DEF RateStates
<1>6. Record(rs, t, n) \in RateStates
  BY <1>2, <1>4, <1>5 DEF RateStates, Times, Record
<1>7. AddTokens(rs, t, n) \in RateStates
  BY <1>4, <1>5 DEF RateStates, AddTokens
<1>8. MarkUnavailable(rs, t, n) \in RateStates
  BY <1>5 DEF RateStates, MarkUnavailable
<1> QED
  BY <1>6, <1>7, <1>8

(* Examining any set of providers keeps their rate states.                 *)
LEMMA SweptType ==
    ASSUME TypeOK, NEW ps
    PROVE  Swept(ps) \in [Providers -> RateStates]
  BY GcProperties DEF TypeOK, Swept

-----------------------------------------------------------------------------
(* The variables keep their types for any number of providers, callers and *)
(* limits.                                                                 *)
THEOREM TypeCorrect == Spec => []TypeOK
<1>1. Init => TypeOK
  <2>1. Fresh(Boot) \in RateStates
    BY TimeAssumption, DayStartType DEF Fresh, RateStates, Times
  <2> QED
    BY <2>1, TimeAssumption DEF Init, TypeOK, Times, Legs
<1>2. TypeOK /\ [Next]_vars => TypeOK'
  <2> SUFFICES ASSUME TypeOK, [Next]_vars PROVE TypeOK'
    OBVIOUS
  <2> USE DEF TypeOK
  <2>0. ASSUME NEW p \in Providers, Starts(p)
        PROVE  started' \in [Providers -> Seq([at: Nat, before: Nat])]
    <3>1. [at |-> now, before |-> Len(recorded[p])] \in [at: Nat, before: Nat]
      BY DEF Times
    <3> QED
      BY <2>0, <3>1 DEF Starts
  <2>1. ASSUME NEW c \in Callers, NEW i \in 1 .. Len(Order), Dispatch(c, i)
        PROVE  TypeOK'
    <3>1. Order[i] \in Providers
      BY OrderAssumption, ElementOfSeq
    <3>2. state' \in [Providers -> RateStates]
      <4> DEFINE sw == Swept(Examined(c, i))
      <4>1. sw \in [Providers -> RateStates]
        BY SweptType
      <4>2. Record(sw[Order[i]], now, 0) \in RateStates
        BY <3>1, <4>1, RateOperatorTypes
      <4>3. state' = [sw EXCEPT ![Order[i]] = Record(sw[Order[i]], now, 0)]
        BY <2>1 DEF Dispatch
      <4> HIDE DEF sw
      <4> QED
        BY <4>1, <4>2, <4>3
    <3>3. recorded' \in [Providers -> Times]
      BY <2>1, <3>1 DEF Dispatch, Times
    <3>4. started' \in [Providers -> Seq([at: Nat, before: Nat])]
      BY <2>1, <2>0, <3>1 DEF Dispatch
    <3>5. /\ calling' = [calling EXCEPT ![c] = Order[i]]
          /\ leg' = [leg EXCEPT ![c] = "first"]
          /\ UNCHANGED <<now, dropped, promised>>
      BY <2>1 DEF Dispatch
    <3>6. /\ calling' \in [Callers -> Providers \cup {Idle}]
          /\ leg' \in [Callers -> Legs]
          /\ \A d \in Callers : calling'[d] = Idle <=> leg'[d] = "none"
      BY <3>1, <3>5, IdleAssumption DEF Legs, Awaited
    <3> QED
      BY <3>2, <3>3, <3>4, <3>5, <3>6
  <2>2. ASSUME NEW c \in Callers, NEW i \in 1 .. Len(Order), Unaffordable(c, i)
        PROVE  TypeOK'
    <3>1. Order[i] \in Providers
      BY OrderAssumption, ElementOfSeq
    <3> QED
      BY <2>2, <3>1, SweptType DEF Unaffordable
  <2>3. ASSUME NEW c \in Callers, GiveUp(c) PROVE TypeOK'
    BY <2>3, SweptType DEF GiveUp
  <2>4. ASSUME NEW c \in Callers, Stumble(c) PROVE TypeOK'
    BY <2>4 DEF Stumble, Legs
  <2>5. ASSUME NEW c \in Callers, CallAgain(c) \/ AskRepair(c) PROVE TypeOK'
    <3>1. calling[c] \in Providers /\ Starts(calling[c])
      BY <2>5 DEF CallAgain, AskRepair
    <3>2. started' \in [Providers -> Seq([at: Nat, before: Nat])]
      BY <2>0, <3>1
    <3> QED
      BY <2>5, <3>2 DEF CallAgain, AskRepair, Legs, Awaited
  <2>6. ASSUME NEW c \in Callers, Leaves(c)
        PROVE  /\ calling[c] \in Providers
               /\ calling' \in [Callers -> Providers \cup {Idle}]
               /\ leg' \in [Callers -> Legs]
               /\ \A d \in Callers : calling'[d] = Idle <=> leg'[d] = "none"
    BY <2>6 DEF Leaves, Legs, Awaited
  <2>7. ASSUME NEW c \in Callers, NEW n \in Usage, Answer(c, n) PROVE TypeOK'
    <3>1. Leaves(c) /\ n \in Nat
      BY <2>7, UsageAssumption DEF Answer
    <3>2. AddTokens(state[calling[c]], now, n) \in RateStates
      BY <2>6, <3>1, RateOperatorTypes
    <3> QED
      BY <2>6, <2>7, <3>1, <3>2 DEF Answer
  <2>8. ASSUME NEW c \in Callers, Unbooked(c) PROVE TypeOK'
    BY <2>6, <2>8 DEF Unbooked
  <2>9. ASSUME NEW c \in Callers, NEW secs \in Backoffs, Fail(c, secs)
        PROVE  TypeOK'
    <3>1. Leaves(c) /\ secs \in Nat
      BY <2>9, BackoffsAssumption DEF Fail
    <3>2. MarkUnavailable(state[calling[c]], now, secs) \in RateStates
      BY <2>6, <3>1, RateOperatorTypes
    <3>3. state' \in [Providers -> RateStates] /\ promised' \in [Providers -> Nat]
      <4>1. calling[c] \in Providers /\ Bench(calling[c], secs) /\ now + secs \in Nat
        BY <2>6, <2>9, <3>1 DEF Fail
      <4>2. CASE secs > 0
        BY <3>2, <4>1, <4>2 DEF Bench
      <4>3. CASE ~(secs > 0)
        BY <4>1, <4>3 DEF Bench
      <4> QED
        BY <4>2, <4>3
    <3>4. dropped' \in [Callers -> SUBSET Providers]
      BY <2>6, <2>9, <3>1 DEF Fail
    <3> QED
      BY <2>6, <2>9, <3>1, <3>3, <3>4 DEF Fail
  <2>10. CASE AllStatus
    BY <2>10, SweptType DEF AllStatus
  <2>11. CASE Tick
    BY <2>11 DEF Tick
  <2>12. CASE UNCHANGED vars
    BY <2>12 DEF vars
  <2> QED
    BY <2>1, <2>2, <2>3, <2>4, <2>5, <2>7, <2>8, <2>9, <2>10, <2>11, <2>12 DEF Next
<1> QED
  BY <1>1, <1>2, PTL DEF Spec

-----------------------------------------------------------------------------
(* The strengthening: a provider's deque is a suffix of the whole history, *)
(* everything in front of it has left the sliding minute, and last_call is *)
(* the last entry.                                                         *)
SuffixOf(q, h, t) ==
    \E k \in 0 .. Len(h) :
        /\ q = SubSeq(h, k + 1, Len(h))
        /\ \A i \in 1 .. k : h[i] < t - Window

HistoryInv ==
    \A p \in Providers :
        /\ SuffixOf(state[p].calls_minute, recorded[p], now)
        /\ recorded[p] # <<>> => state[p].last_call = recorded[p][Len(recorded[p])]

(* The recorded halves of the three properties.                            *)
RpmRecorded ==
    \A p \in Providers : \A i \in 1 .. Len(recorded[p]) :
        i + Limits[p].rpm <= Len(recorded[p]) =>
            recorded[p][i + Limits[p].rpm] - recorded[p][i] > Window

CooldownRecorded ==
    \A p \in Providers : \A i \in 1 .. (Len(recorded[p]) - 1) :
        recorded[p][i + 1] - recorded[p][i] >= Limits[p].cooldown

RpdRecorded ==
    \A p \in Providers : \A i, j \in 1 .. Len(recorded[p]) :
        (i <= j /\ recorded[p][i] \div Day = recorded[p][j] \div Day)
            => j - i + 1 <= Limits[p].rpd

PaceInv == HistoryInv /\ RpmRecorded /\ CooldownRecorded

(* What gc leaves of a suffix of the history is still one.                 *)
LEMMA GcKeepsSuffix ==
    ASSUME NEW rs \in RateStates, NEW h \in Times, NEW t \in Nat,
           SuffixOf(rs.calls_minute, h, t)
    PROVE  SuffixOf(Gc(rs, t).calls_minute, h, t)
<1>1. PICK k \in 0 .. Len(h) :
        /\ rs.calls_minute = SubSeq(h, k + 1, Len(h))
        /\ \A i \in 1 .. k : h[i] < t - Window
  BY DEF SuffixOf
<1>2. PICK m \in k .. Len(h) :
        /\ FromCutoff(rs.calls_minute, t - Window) = SubSeq(h, m + 1, Len(h))
        /\ \A i \in 1 .. m : h[i] < t - Window
  <2>1. t - Window \in Int
    BY WindowAssumption
  <2> QED
    BY <1>1, <2>1, FromCutoffOfSuffix
<1>3. m \in 0 .. Len(h)
  BY LenProperties DEF Times
<1> QED
  BY <1>2, <1>3, GcProperties DEF SuffixOf

(* A recorded call extends the suffix, and is far enough from the call     *)
(* rpm places before it and from the one just before it.                   *)
LEMMA RecordKeepsPace ==
    ASSUME NEW rs \in RateStates, NEW h \in Times, NEW t \in Nat,
           NEW limits \in LimitSets, NEW est,
           SuffixOf(rs.calls_minute, h, t),
           h # <<>> => rs.last_call = h[Len(h)],
           CanUse(rs, t, limits, est)
    PROVE  /\ SuffixOf(Record(Gc(rs, t), t, 0).calls_minute, Append(h, t), t)
           /\ \A i \in 1 .. Len(h) :
                 i + limits.rpm = Len(h) + 1 => t - h[i] > Window
           /\ limits.rpm > 0
           /\ h # <<>> => t - h[Len(h)] >= limits.cooldown
<1> DEFINE gs == Gc(rs, t)
<1>1. /\ SuffixOf(gs.calls_minute, h, t)
      /\ gs.last_call = rs.last_call
      /\ gs.calls_minute \in Seq(Nat)
  BY GcKeepsSuffix, GcProperties DEF RateStates, Times
<1>2. /\ Len(gs.calls_minute) < limits.rpm
      /\ t - gs.last_call >= limits.cooldown
  BY DEF CanUse, Usable
<1>3. limits.rpm \in Nat /\ Len(h) \in Nat /\ \A i \in 1 .. Len(h) : h[i] \in Nat
  BY DEF LimitSets, Times
<1> HIDE DEF gs
<1>4. PICK k \in 0 .. Len(h) :
        /\ gs.calls_minute = SubSeq(h, k + 1, Len(h))
        /\ \A i \in 1 .. k : h[i] < t - Window
  BY <1>1 DEF SuffixOf
<1>5. Len(gs.calls_minute) = Len(h) - k
  BY <1>3, <1>4, SubSeqProperties
<1>6. ASSUME NEW i \in 1 .. Len(h), i + limits.rpm = Len(h) + 1
      PROVE  t - h[i] > Window
  <2>1. i \in 1 .. k
    BY <1>2, <1>3, <1>5, <1>6
  <2> QED
    BY <2>1, <1>3, <1>4, WindowAssumption
<1>7. Append(gs.calls_minute, t) = SubSeq(Append(h, t), k + 1, Len(Append(h, t)))
  BY <1>4, AppendToSuffix
<1>8. SuffixOf(Append(gs.calls_minute, t), Append(h, t), t)
  <2>1. Len(Append(h, t)) = Len(h) + 1 /\ \A i \in 1 .. k : Append(h, t)[i] = h[i]
    BY <1>3 DEF Times
  <2>2. k \in 0 .. Len(Append(h, t))
    BY <2>1, <1>3
  <2> QED
    BY <2>1, <2>2, <1>4, <1>7 DEF SuffixOf
<1>9. Record(gs, t, 0).calls_minute = Append(gs.calls_minute, t)
  <2>1. gs \in RateStates
    BY GcProperties DEF gs
  <2> QED
    BY <2>1 DEF Record, RateStates
<1>10. limits.rpm > 0
  BY <1>2, <1>3, <1>5
<1> QED
  BY <1>1, <1>2, <1>6, <1>8, <1>9, <1>10 DEF gs

(* Every step keeps the pace: one step per action, and those that record   *)
(* no call together.                                                       *)
LEMMA PaceStep == TypeOK /\ PaceInv /\ [Next]_vars => PaceInv'
<1> SUFFICES ASSUME TypeOK, PaceInv, [Next]_vars PROVE PaceInv'
  OBVIOUS
<1>a. /\ now \in Nat /\ state \in [Providers -> RateStates]
      /\ recorded \in [Providers -> Times]
  BY DEF TypeOK
(* Steps that record no call: every deque stays as it is or is swept.      *)
<1>b. ASSUME UNCHANGED recorded, now' = now,
             \A p \in Providers :
                /\ \/ state'[p].calls_minute = state[p].calls_minute
                   \/ state'[p].calls_minute = Gc(state[p], now).calls_minute
                /\ state'[p].last_call = state[p].last_call
      PROVE  PaceInv'
  <2>1. ASSUME NEW p \in Providers
        PROVE  SuffixOf(state'[p].calls_minute, recorded[p], now)
    BY <1>a, <1>b, GcKeepsSuffix DEF PaceInv, HistoryInv
  <2> QED
    BY <1>b, <2>1
       DEF PaceInv, HistoryInv, RpmRecorded, CooldownRecorded
<1>c. ASSUME NEW ps PROVE
        \A p \in Providers :
           /\ \/ Swept(ps)[p].calls_minute = state[p].calls_minute
              \/ Swept(ps)[p].calls_minute = Gc(state[p], now).calls_minute
           /\ Swept(ps)[p].last_call = state[p].last_call
  BY <1>a, GcProperties DEF Swept
<1>1. ASSUME NEW c \in Callers, NEW i \in 1 .. Len(Order), Dispatch(c, i)
      PROVE  PaceInv'
  <2> DEFINE name == Order[i]
             h == recorded[name]
  <2>1. name \in Providers
    BY OrderAssumption, ElementOfSeq
  <2>2. CanUse(state[name], now, Limits[name], Est)
    BY <1>1 DEF Dispatch, Picks, IsUsable
  <2>3. name \in Examined(c, i)
    <3>1. Len(Order) \in Nat
      BY OrderAssumption, LenProperties
    <3> QED
      BY <1>1, <3>1 DEF Dispatch, Picks, Examined
  <2>4. /\ state'[name] = Record(Gc(state[name], now), now, 0)
        /\ \A p \in Providers \ {name} :
              state'[p] = Swept(Examined(c, i))[p]
        /\ recorded' = [recorded EXCEPT ![name] = Append(h, now)]
        /\ now' = now
    BY <1>1, <2>1, <2>3 DEF Dispatch, Swept
  <2>5. h \in Times /\ state[name] \in RateStates /\ Limits[name] \in LimitSets
    BY <1>a, <2>1, LimitsAssumption
  <2>6. SuffixOf(state[name].calls_minute, h, now)
        /\ (h # <<>> => state[name].last_call = h[Len(h)])
    BY <2>1 DEF PaceInv, HistoryInv
  <2>7. /\ SuffixOf(state'[name].calls_minute, Append(h, now), now)
        /\ \A j \in 1 .. Len(h) :
              j + Limits[name].rpm = Len(h) + 1 => now - h[j] > Window
        /\ Limits[name].rpm > 0
        /\ h # <<>> => now - h[Len(h)] >= Limits[name].cooldown
    BY <1>a, <2>2, <2>4, <2>5, <2>6, RecordKeepsPace
  <2>8. /\ Len(h) \in Nat /\ Len(Append(h, now)) = Len(h) + 1
        /\ Append(h, now)[Len(h) + 1] = now
        /\ \A j \in 1 .. Len(h) : Append(h, now)[j] = h[j]
    BY <2>5, <1>a DEF Times
  <2>9. recorded'[name] = Append(h, now) /\ \A p \in Providers \ {name} : recorded'[p] = recorded[p]
    BY <1>a, <2>1, <2>4
  <2> HIDE DEF name, h
  <2>10. HistoryInv'
    <3> SUFFICES ASSUME NEW p \in Providers
                 PROVE  /\ SuffixOf(state'[p].calls_minute, recorded'[p], now)
                        /\ recorded'[p] # <<>> =>
                             state'[p].last_call = recorded'[p][Len(recorded'[p])]
      BY <2>4 DEF HistoryInv
    <3>1. CASE p = name
      <4>1. state'[name].last_call = now
        <5>1. Gc(state[name], now) \in RateStates
          BY <1>a, <2>5, GcProperties
        <5> QED
          BY <2>4, <5>1 DEF Record, RateStates
      <4> QED
        BY <3>1, <4>1, <2>7, <2>8, <2>9
    <3>2. CASE p # name
      <4>1. \/ state'[p].calls_minute = state[p].calls_minute
            \/ state'[p].calls_minute = Gc(state[p], now).calls_minute
        BY <3>2, <1>c, <2>4
      <4>2. state'[p].last_call = state[p].last_call
        BY <3>2, <1>c, <2>4
      <4>3. SuffixOf(state'[p].calls_minute, recorded[p], now)
        BY <4>1, <1>a, GcKeepsSuffix DEF PaceInv, HistoryInv
      <4> QED
        BY <3>2, <4>2, <4>3, <2>9 DEF PaceInv, HistoryInv
    <3> QED
      BY <3>1, <3>2
  <2>11. RpmRecorded'
    <3> SUFFICES ASSUME NEW p \in Providers, NEW j \in 1 .. Len(recorded'[p]),
                        j + Limits[p].rpm <= Len(recorded'[p])
                 PROVE  recorded'[p][j + Limits[p].rpm] - recorded'[p][j] > Window
      BY DEF RpmRecorded
    <3>1. CASE p # name
      BY <3>1, <2>9 DEF PaceInv, RpmRecorded
    <3>2. CASE p = name
      <4>1. Limits[p].rpm \in Nat
        BY <2>5, <3>2 DEF LimitSets
      <4>2. j \in 1 .. Len(h)
        BY <3>2, <4>1, <2>7, <2>8, <2>9
      <4>3. CASE j + Limits[p].rpm = Len(h) + 1
        <5>1. recorded'[p][j + Limits[p].rpm] = now /\ recorded'[p][j] = h[j]
          BY <3>2, <4>2, <4>3, <2>8, <2>9
        <5>2. now - h[j] > Window
          BY <3>2, <4>2, <4>3, <2>7
        <5> QED
          BY <5>1, <5>2
      <4>4. CASE j + Limits[p].rpm <= Len(h)
        <5>1. h[j + Limits[p].rpm] - h[j] > Window
          BY <3>2, <4>2, <4>4, <2>1 DEF PaceInv, RpmRecorded, h
        <5>2. j + Limits[p].rpm \in 1 .. Len(h)
          BY <4>1, <4>2, <4>4, <2>8
        <5>3. /\ recorded'[p][j + Limits[p].rpm] = h[j + Limits[p].rpm]
              /\ recorded'[p][j] = h[j]
          BY <3>2, <4>2, <5>2, <2>8, <2>9
        <5> QED
          BY <5>1, <5>3
      <4>5. Len(recorded'[p]) = Len(h) + 1
        BY <3>2, <2>8, <2>9
      <4>6. j + Limits[p].rpm = Len(h) + 1 \/ j + Limits[p].rpm <= Len(h)
        BY <4>1, <4>2, <4>5, <2>8
      <4> QED
        BY <4>3, <4>4, <4>6
    <3> QED
      BY <3>1, <3>2
  <2>12. CooldownRecorded'
    <3> SUFFICES ASSUME NEW p \in Providers, NEW j \in 1 .. (Len(recorded'[p]) - 1)
                 PROVE  recorded'[p][j + 1] - recorded'[p][j] >= Limits[p].cooldown
      BY DEF CooldownRecorded
    <3>1. CASE p # name
      BY <3>1, <2>9 DEF PaceInv, CooldownRecorded
    <3>2. CASE p = name
      <4>1. j \in 1 .. Len(h)
        BY <3>2, <2>8, <2>9
      <4>2. CASE j = Len(h)
        <5>1. h # <<>>
          BY <4>1, <4>2
        <5> QED
          BY <3>2, <4>1, <4>2, <5>1, <2>7, <2>8, <2>9
      <4>3. CASE j < Len(h)
        <5>1. h[j + 1] - h[j] >= Limits[p].cooldown
          BY <3>2, <4>1, <4>3, <2>8, <2>1 DEF PaceInv, CooldownRecorded, h
        <5> QED
          BY <3>2, <4>1, <4>3, <5>1, <2>8, <2>9
      <4> QED
        BY <4>1, <4>2, <4>3, <2>8
    <3> QED
      BY <3>1, <3>2
  <2> QED
    BY <2>10, <2>11, <2>12 DEF PaceInv
<1>2. ASSUME NEW c \in Callers, NEW i \in 1 .. Len(Order), Unaffordable(c, i)
      PROVE  PaceInv'
  BY <1>2, <1>b, <1>c DEF Unaffordable
<1>3. ASSUME NEW c \in Callers, GiveUp(c) PROVE PaceInv'
  BY <1>3, <1>b, <1>c DEF GiveUp
<1>4. ASSUME NEW c \in Callers,
             Unbooked(c) \/ Stumble(c) \/ CallAgain(c) \/ AskRepair(c)
      PROVE  PaceInv'
  BY <1>4, <1>b DEF Unbooked, Stumble, CallAgain, AskRepair
<1>5. ASSUME NEW c \in Callers, NEW n \in Usage, Answer(c, n) PROVE PaceInv'
  <2>1. \A p \in Providers :
          /\ state'[p].calls_minute = state[p].calls_minute
          /\ state'[p].last_call = state[p].last_call
    BY <1>5, <1>a DEF Answer, Leaves, AddTokens, RateStates
  <2> QED
    BY <1>5, <2>1, <1>b DEF Answer, Leaves
<1>6. ASSUME NEW c \in Callers, NEW secs \in Backoffs, Fail(c, secs)
      PROVE  PaceInv'
  <2>1. \A p \in Providers :
          /\ state'[p].calls_minute = state[p].calls_minute
          /\ state'[p].last_call = state[p].last_call
    <3>1. CASE secs > 0
      <4>1. state' = [state EXCEPT ![calling[c]] =
                        MarkUnavailable(state[calling[c]], now, secs)]
        BY <1>6, <3>1 DEF Fail, Leaves, Bench
      <4>2. calling[c] \in Providers
        BY <1>6, IdleAssumption DEF Fail, Leaves, TypeOK, Awaited
      <4>3. ASSUME NEW rs \in RateStates
            PROVE  /\ MarkUnavailable(rs, now, secs).calls_minute = rs.calls_minute
                   /\ MarkUnavailable(rs, now, secs).last_call = rs.last_call
        BY DEF MarkUnavailable, RateStates
      <4> QED
        BY <4>1, <4>2, <4>3, <1>a
    <3>2. CASE ~(secs > 0)
      BY <1>6, <3>2 DEF Fail, Leaves, Bench
    <3> QED
      BY <3>1, <3>2
  <2> QED
    BY <1>6, <2>1, <1>b DEF Fail, Leaves
<1>7. CASE AllStatus
  BY <1>7, <1>b, <1>c DEF AllStatus
<1>8. CASE Tick
  <2>1. now' = now + 1 /\ UNCHANGED <<state, recorded>>
    BY <1>8 DEF Tick
  <2>2. ASSUME NEW p \in Providers
        PROVE  SuffixOf(state[p].calls_minute, recorded[p], now + 1)
    <3>1. \A k \in 0 .. Len(recorded[p]) : \A i \in 1 .. k : recorded[p][i] \in Nat
      BY <1>a DEF Times
    <3> QED
      BY <1>a, <3>1, WindowAssumption DEF PaceInv, HistoryInv, SuffixOf
  <2> QED
    BY <2>1, <2>2 DEF PaceInv, HistoryInv, RpmRecorded, CooldownRecorded
<1>9. CASE UNCHANGED vars
  BY <1>9 DEF vars, PaceInv, HistoryInv, RpmRecorded, CooldownRecorded
<1> QED
  BY <1>1, <1>2, <1>3, <1>4, <1>5, <1>6, <1>7, <1>8, <1>9 DEF Next

(* The pace invariant, by induction over the steps.                        *)
LEMMA PaceInvariant == Spec => []PaceInv
<1>1. Init => PaceInv
  <2> SUFFICES ASSUME Init PROVE PaceInv
    OBVIOUS
  <2>1. \A p \in Providers : recorded[p] = <<>> /\ state[p].calls_minute = <<>>
    BY DEF Init, Fresh
  <2>2. SuffixOf(<<>>, <<>>, now)
    BY DEF SuffixOf
  <2>3. RpmRecorded /\ CooldownRecorded
    BY <2>1 DEF RpmRecorded, CooldownRecorded
  <2> QED
    BY <2>1, <2>2, <2>3 DEF PaceInv, HistoryInv
<1> QED
  BY <1>1, PaceStep, TypeCorrect, PTL DEF Spec

-----------------------------------------------------------------------------
(* The day's strengthening: day_start begins a day that is not over before *)
(* the last call was recorded, and calls_today counts exactly the calls    *)
(* of the history h that were recorded since.                              *)
DayCount(calls, start, h, t) ==
    /\ start = DayStart(start)
    /\ start <= t
    /\ \A i \in 1 .. Len(h) : h[i] <= t /\ h[i] < start + Day
    /\ \E k \in 0 .. Len(h) :
          /\ calls = Len(h) - k
          /\ \A i \in 1 .. k : h[i] < start
          /\ \A i \in (k + 1) .. Len(h) : start <= h[i]

DayInv ==
    \A p \in Providers :
        DayCount(state[p].calls_today, state[p].day_start, recorded[p], now)

(* gc starts the count of a new day at nothing and keeps that of a running *)
(* one, and leaves a day that now is in.                                   *)
LEMMA GcKeepsDay ==
    ASSUME NEW rs \in RateStates, NEW h \in Times, NEW t \in Nat,
           DayCount(rs.calls_today, rs.day_start, h, t)
    PROVE  /\ DayCount(Gc(rs, t).calls_today, Gc(rs, t).day_start, h, t)
           /\ t < Gc(rs, t).day_start + Day
<1>1. /\ Gc(rs, t).calls_today =
            IF t - rs.day_start >= Day THEN 0 ELSE rs.calls_today
      /\ Gc(rs, t).day_start =
            IF t - rs.day_start >= Day THEN DayStart(t) ELSE rs.day_start
  BY DEF Gc, RateStates
<1>2. /\ rs.day_start \in Nat /\ Day \in Nat
      /\ Len(h) \in Nat /\ \A i \in 1 .. Len(h) : h[i] \in Nat
  BY DayAssumption DEF RateStates, Times
<1>3. CASE t - rs.day_start >= Day
  <2>1. rs.day_start + Day <= DayStart(t)
    BY <1>2, <1>3, NextDayStart DEF DayCount
  <2>2. /\ DayStart(t) \in Nat /\ DayStart(t) = DayStart(DayStart(t))
        /\ DayStart(t) <= t /\ t < DayStart(t) + Day
    BY DayStartType, DayStartIdempotent
  <2>3. \A i \in 1 .. Len(h) : h[i] <= t /\ h[i] < DayStart(t)
    BY <1>2, <2>1, <2>2 DEF DayCount
  <2>4. DayCount(0, DayStart(t), h, t)
    <3>1. \E k \in 0 .. Len(h) :
             /\ 0 = Len(h) - k
             /\ \A i \in 1 .. k : h[i] < DayStart(t)
             /\ \A i \in (k + 1) .. Len(h) : DayStart(t) <= h[i]
      <4> WITNESS Len(h) \in 0 .. Len(h)
      <4> QED
        BY <1>2, <2>3
    <3>2. \A i \in 1 .. Len(h) : h[i] <= t /\ h[i] < DayStart(t) + Day
      BY <1>2, <2>2, <2>3
    <3> QED
      BY <2>2, <3>1, <3>2 DEF DayCount
  <2> QED
    BY <1>1, <1>3, <2>2, <2>4
<1>4. CASE ~(t - rs.day_start >= Day)
  BY <1>1, <1>2, <1>4
<1> QED
  BY <1>3, <1>4

(* A call recorded on the day the counter is for is counted once more, and *)
(* the calls of its day are the ones counted.                              *)
LEMMA RecordKeepsDay ==
    ASSUME NEW calls \in Nat, NEW start \in Nat, NEW h \in Times, NEW t \in Nat,
           DayCount(calls, start, h, t), t < start + Day
    PROVE  /\ DayCount(calls + 1, start, Append(h, t), t)
           /\ \A i \in 1 .. Len(h) :
                 h[i] \div Day = t \div Day => Len(h) + 1 - i <= calls
<1>1. PICK k \in 0 .. Len(h) :
          /\ calls = Len(h) - k
          /\ \A i \in 1 .. k : h[i] < start
          /\ \A i \in (k + 1) .. Len(h) : start <= h[i]
  BY DEF DayCount
<1>2. /\ Len(h) \in Nat /\ \A i \in 1 .. Len(h) : h[i] \in Nat
      /\ Len(Append(h, t)) = Len(h) + 1
      /\ Append(h, t)[Len(h) + 1] = t
      /\ \A i \in 1 .. Len(h) : Append(h, t)[i] = h[i]
  BY DEF Times
<1>3. start = DayStart(start) /\ start <= t
      /\ \A i \in 1 .. Len(h) : h[i] <= t /\ h[i] < start + Day
  BY DEF DayCount
<1>4. DayCount(calls + 1, start, Append(h, t), t)
  <2>1. k \in 0 .. Len(Append(h, t)) /\ calls + 1 = Len(Append(h, t)) - k
    BY <1>1, <1>2
  <2>2. \A i \in 1 .. k : Append(h, t)[i] < start
    BY <1>1, <1>2
  <2>3. \A i \in (k + 1) .. Len(Append(h, t)) : start <= Append(h, t)[i]
    BY <1>1, <1>2, <1>3
  <2>4. \A i \in 1 .. Len(Append(h, t)) :
           Append(h, t)[i] <= t /\ Append(h, t)[i] < start + Day
    BY <1>2, <1>3
  <2> QED
    BY <1>3, <2>1, <2>2, <2>3, <2>4 DEF DayCount
<1>5. ASSUME NEW i \in 1 .. Len(h), h[i] \div Day = t \div Day
      PROVE  Len(h) + 1 - i <= calls
  <2>1. ~(h[i] < start)
    BY <1>2, <1>3, <1>5, DaysDiffer
  <2> QED
    BY <1>1, <1>2, <2>1
<1> QED
  BY <1>4, <1>5

(* Every step keeps the day's count and the day's limit.                   *)
LEMMA DayStep ==
    TypeOK /\ DayInv /\ RpdRecorded /\ [Next]_vars => DayInv' /\ RpdRecorded'
<1> SUFFICES ASSUME TypeOK, DayInv, RpdRecorded, [Next]_vars
             PROVE  DayInv' /\ RpdRecorded'
  OBVIOUS
<1>a. /\ now \in Nat /\ state \in [Providers -> RateStates]
      /\ recorded \in [Providers -> Times]
  BY DEF TypeOK
(* Steps that record no call: every counter stays or is swept.             *)
<1>b. ASSUME UNCHANGED recorded, now' = now,
             \A p \in Providers :
                \/ /\ state'[p].calls_today = state[p].calls_today
                   /\ state'[p].day_start = state[p].day_start
                \/ state'[p] = Gc(state[p], now)
      PROVE  DayInv' /\ RpdRecorded'
  <2>1. ASSUME NEW p \in Providers
        PROVE  DayCount(state'[p].calls_today, state'[p].day_start, recorded[p], now)
    BY <1>a, <1>b, GcKeepsDay DEF DayInv
  <2> QED
    BY <1>b, <2>1 DEF DayInv, RpdRecorded
<1>c. ASSUME NEW ps, NEW p \in Providers
      PROVE  Swept(ps)[p] = state[p] \/ Swept(ps)[p] = Gc(state[p], now)
  BY <1>a DEF Swept
<1>1. ASSUME NEW c \in Callers, NEW i \in 1 .. Len(Order), Dispatch(c, i)
      PROVE  DayInv' /\ RpdRecorded'
  <2> DEFINE name == Order[i]
             h == recorded[name]
             gs == Gc(state[name], now)
  <2>1. name \in Providers
    BY OrderAssumption, ElementOfSeq
  <2>2. name \in Examined(c, i)
    <3>1. Len(Order) \in Nat
      BY OrderAssumption, LenProperties
    <3> QED
      BY <1>1, <3>1 DEF Dispatch, Picks, Examined
  <2>3. /\ state'[name] = Record(gs, now, 0)
        /\ \A p \in Providers \ {name} : state'[p] = Swept(Examined(c, i))[p]
        /\ recorded'[name] = Append(h, now)
        /\ \A p \in Providers \ {name} : recorded'[p] = recorded[p]
        /\ now' = now
    BY <1>1, <1>a, <2>1, <2>2 DEF Dispatch, Swept
  <2>4. /\ h \in Times /\ gs \in RateStates
        /\ Limits[name].rpd \in Nat
    BY <1>a, <2>1, LimitsAssumption, GcProperties DEF LimitSets
  <2>5. /\ DayCount(gs.calls_today, gs.day_start, h, now)
        /\ now < gs.day_start + Day
    BY <1>a, <2>1, GcKeepsDay DEF DayInv
  <2>6. gs.calls_today < Limits[name].rpd
    BY <1>1 DEF Dispatch, Picks, IsUsable, CanUse, Usable
  <2>7. gs.calls_today \in Nat /\ gs.day_start \in Nat
    BY <2>4 DEF RateStates
  <2>8. /\ state'[name].calls_today = gs.calls_today + 1
        /\ state'[name].day_start = gs.day_start
    BY <2>3, <2>4 DEF Record, RateStates
  <2> HIDE DEF name, h, gs
  <2>9. /\ DayCount(gs.calls_today + 1, gs.day_start, Append(h, now), now)
        /\ \A j \in 1 .. Len(h) :
              h[j] \div Day = now \div Day => Len(h) + 1 - j <= gs.calls_today
    BY <1>a, <2>4, <2>5, <2>7, RecordKeepsDay
  <2>10. DayInv'
    <3> SUFFICES ASSUME NEW p \in Providers
                 PROVE  DayCount(state'[p].calls_today, state'[p].day_start,
                                 recorded'[p], now)
      BY <2>3 DEF DayInv
    <3>1. CASE p = name
      BY <3>1, <2>3, <2>8, <2>9
    <3>2. CASE p # name
      <4>1. state'[p] = state[p] \/ state'[p] = Gc(state[p], now)
        BY <3>2, <1>c, <2>3
      <4> QED
        BY <3>2, <4>1, <1>a, <2>3, GcKeepsDay DEF DayInv
    <3> QED
      BY <3>1, <3>2
  <2>11. RpdRecorded'
    <3> SUFFICES ASSUME NEW p \in Providers,
                        NEW j \in 1 .. Len(recorded'[p]), NEW m \in 1 .. Len(recorded'[p]),
                        j <= m, recorded'[p][j] \div Day = recorded'[p][m] \div Day
                 PROVE  m - j + 1 <= Limits[p].rpd
      BY DEF RpdRecorded
    <3>1. CASE p # name
      BY <3>1, <2>3 DEF RpdRecorded
    <3>2. CASE p = name
      <4>1. /\ Len(h) \in Nat /\ Len(recorded'[p]) = Len(h) + 1
            /\ recorded'[p][Len(h) + 1] = now
            /\ \A x \in 1 .. Len(h) : recorded'[p][x] = h[x]
        <5>1. /\ Len(h) \in Nat /\ Len(Append(h, now)) = Len(h) + 1
              /\ Append(h, now)[Len(h) + 1] = now
              /\ \A x \in 1 .. Len(h) : Append(h, now)[x] = h[x]
          BY <1>a, <2>4 DEF Times
        <5> QED
          BY <2>3, <3>2, <5>1
      <4>2. CASE m = Len(h) + 1 /\ j = m
        BY <2>4, <2>6, <2>7, <3>2, <4>1, <4>2
      <4>3. CASE m = Len(h) + 1 /\ j # m
        <5>1. j \in 1 .. Len(h)
          BY <4>1, <4>3
        <5>2. Len(h) + 1 - j <= gs.calls_today
          BY <2>9, <4>1, <4>3, <5>1
        <5> QED
          BY <2>4, <2>6, <2>7, <3>2, <4>1, <4>3, <5>1, <5>2
      <4>4. CASE m # Len(h) + 1
        <5>1. j \in 1 .. Len(h) /\ m \in 1 .. Len(h)
          BY <4>1, <4>4
        <5>2. h[j] \div Day = h[m] \div Day
          BY <4>1, <5>1
        <5> QED
          BY <2>1, <3>2, <5>1, <5>2 DEF RpdRecorded, h
      <4> QED
        BY <4>2, <4>3, <4>4
    <3> QED
      BY <3>1, <3>2
  <2> QED
    BY <2>10, <2>11
<1>2. ASSUME NEW c \in Callers, NEW i \in 1 .. Len(Order), Unaffordable(c, i)
      PROVE  DayInv' /\ RpdRecorded'
  BY <1>2, <1>b, <1>c DEF Unaffordable
<1>3. ASSUME NEW c \in Callers, GiveUp(c) PROVE DayInv' /\ RpdRecorded'
  BY <1>3, <1>b, <1>c DEF GiveUp
<1>4. ASSUME NEW c \in Callers,
             Unbooked(c) \/ Stumble(c) \/ CallAgain(c) \/ AskRepair(c)
      PROVE  DayInv' /\ RpdRecorded'
  BY <1>4, <1>b DEF Unbooked, Stumble, CallAgain, AskRepair
<1>5. ASSUME NEW c \in Callers, NEW n \in Usage, Answer(c, n)
      PROVE  DayInv' /\ RpdRecorded'
  <2>1. \A p \in Providers :
          /\ state'[p].calls_today = state[p].calls_today
          /\ state'[p].day_start = state[p].day_start
    BY <1>5, <1>a DEF Answer, Leaves, AddTokens, RateStates
  <2> QED
    BY <1>5, <2>1, <1>b DEF Answer, Leaves
<1>6. ASSUME NEW c \in Callers, NEW secs \in Backoffs, Fail(c, secs)
      PROVE  DayInv' /\ RpdRecorded'
  <2>1. ASSUME NEW rs \in RateStates
        PROVE  /\ MarkUnavailable(rs, now, secs).calls_today = rs.calls_today
               /\ MarkUnavailable(rs, now, secs).day_start = rs.day_start
    BY DEF MarkUnavailable, RateStates
  <2>2. calling[c] \in Providers
    BY <1>6, IdleAssumption DEF Fail, Leaves, TypeOK, Awaited
  <2>3. \A p \in Providers :
          /\ state'[p].calls_today = state[p].calls_today
          /\ state'[p].day_start = state[p].day_start
    BY <1>6, <1>a, <2>1, <2>2 DEF Fail, Leaves, Bench
  <2> QED
    BY <1>6, <2>3, <1>b DEF Fail, Leaves
<1>7. CASE AllStatus
  BY <1>7, <1>b, <1>c DEF AllStatus
<1>8. CASE Tick
  <2>1. now' = now + 1 /\ UNCHANGED <<state, recorded>>
    BY <1>8 DEF Tick
  <2>2. ASSUME NEW p \in Providers
        PROVE  DayCount(state[p].calls_today, state[p].day_start,
                        recorded[p], now + 1)
    <3>1. /\ \A i \in 1 .. Len(recorded[p]) : recorded[p][i] \in Nat
          /\ state[p].day_start \in Nat
      BY <1>a DEF Times, RateStates
    <3> DEFINE h == recorded[p]
               start == state[p].day_start
    <3>2. /\ start <= now
          /\ \A i \in 1 .. Len(h) : h[i] <= now /\ h[i] < start + Day
      BY DEF DayInv, DayCount
    <3>3. /\ start <= now + 1
          /\ \A i \in 1 .. Len(h) : h[i] <= now + 1 /\ h[i] < start + Day
      BY <1>a, <3>1, <3>2
    <3> QED
      BY <3>3 DEF DayInv, DayCount
  <2> QED
    BY <2>1, <2>2 DEF DayInv, RpdRecorded
<1>9. CASE UNCHANGED vars
  BY <1>9 DEF vars, DayInv, RpdRecorded
<1> QED
  BY <1>1, <1>2, <1>3, <1>4, <1>5, <1>6, <1>7, <1>8, <1>9 DEF Next

(* The day invariant, by induction over the steps.                         *)
LEMMA DayInvariant == Spec => [](DayInv /\ RpdRecorded)
<1>1. Init => DayInv /\ RpdRecorded
  <2> SUFFICES ASSUME Init PROVE DayInv /\ RpdRecorded
    OBVIOUS
  <2>1. \A p \in Providers :
          /\ recorded[p] = <<>>
          /\ state[p].calls_today = 0 /\ state[p].day_start = DayStart(Boot)
    BY DEF Init, Fresh
  <2>2. /\ DayStart(Boot) <= Boot
        /\ DayStart(Boot) = DayStart(DayStart(Boot))
    BY TimeAssumption, DayStartType, DayStartIdempotent
  <2>3. DayCount(0, DayStart(Boot), <<>>, Boot)
    BY <2>2 DEF DayCount
  <2>4. now = Boot
    BY DEF Init
  <2> QED
    BY <2>1, <2>3, <2>4 DEF DayInv, RpdRecorded
<1> QED
  BY <1>1, DayStep, TypeCorrect, PTL DEF Spec

-----------------------------------------------------------------------------
(* The calls that start and are not recorded.  The callers at p that may   *)
(* still call it again, and those that may still ask it for a repair, are  *)
(* what it is owed; a call that started has been followed by three calls   *)
(* for each that was recorded since, and two for each caller of its time.  *)
MayRetry(p) == {c \in Callers : calling[c] = p /\ leg[c] \in {"first", "pause"}}
MayRepair(p) == {c \in Callers : calling[c] = p /\ leg[c] \in {"first", "pause", "again"}}

Owed(p) == Cardinality(MayRetry(p)) + Cardinality(MayRepair(p))

(* What a started call s of a history of n starts knows of the recorded h. *)
Follows(s, k, n, h, owed) ==
    /\ s.before <= Len(h)
    /\ \A j \in (s.before + 1) .. Len(h) : s.at <= h[j]
    /\ n - k + 1 + owed <= 3 * (Len(h) - s.before) + 2 * Cardinality(Callers)

StartsInv ==
    \A p \in Providers :
        /\ \A j \in 1 .. Len(recorded[p]) : recorded[p][j] <= now
        /\ \A k \in 1 .. Len(started[p]) :
              /\ started[p][k].at <= now
              /\ Follows(started[p][k], k, Len(started[p]), recorded[p], Owed(p))

(* What is owed is a number, at most two calls for each caller.            *)
LEMMA OwedType ==
    ASSUME NEW A \in SUBSET Callers, NEW B \in SUBSET Callers
    PROVE  /\ IsFiniteSet(A) /\ IsFiniteSet(B)
           /\ Cardinality(A) \in Nat /\ Cardinality(B) \in Nat
           /\ Cardinality(Callers) \in Nat
           /\ Cardinality(A) + Cardinality(B) <= 2 * Cardinality(Callers)
<1>1. /\ IsFiniteSet(A) /\ Cardinality(A) <= Cardinality(Callers)
      /\ IsFiniteSet(B) /\ Cardinality(B) <= Cardinality(Callers)
  BY CallersAssumption, FS_Subset
<1>2. /\ Cardinality(A) \in Nat /\ Cardinality(B) \in Nat
      /\ Cardinality(Callers) \in Nat
  BY <1>1, CallersAssumption, FS_CardinalityType
<1> QED
  BY <1>1, <1>2

(* A caller that arrives is one more, and of fewer callers less is owed.   *)
LEMMA OwedChanges ==
    ASSUME NEW A \in SUBSET Callers, NEW c \in Callers
    PROVE  /\ Cardinality(A) \in Nat
           /\ c \notin A => Cardinality(A \cup {c}) = Cardinality(A) + 1
           /\ c \in A => Cardinality(A \ {c}) = Cardinality(A) - 1
  BY OwedType, FS_AddElement, FS_RemoveElement

LEMMA FewerCallers ==
    ASSUME NEW A \in SUBSET Callers, NEW B \in SUBSET A
    PROVE  /\ Cardinality(B) <= Cardinality(A)
           /\ Cardinality(A) \in Nat /\ Cardinality(B) \in Nat
<1>1. B \in SUBSET Callers
  OBVIOUS
<1>2. IsFiniteSet(A) /\ Cardinality(A) \in Nat /\ Cardinality(B) \in Nat
  BY <1>1, OwedType
<1>3. Cardinality(B) <= Cardinality(A)
  BY <1>2, FS_Subset
<1> QED
  BY <1>2, <1>3

(* What a started call knows stays true when less is owed, when a call     *)
(* that was owed starts, and when a recorded one starts that may be        *)
(* followed by two.                                                        *)
LEMMA FollowsOn ==
    ASSUME NEW s \in [at: Nat, before: Nat], NEW h \in Times, NEW t \in Nat,
           NEW n \in Nat, NEW k \in 1 .. n, NEW x \in Nat, NEW y \in Nat,
           s.at <= t, Follows(s, k, n, h, x)
    PROVE  /\ y <= x => Follows(s, k, n, h, y)
           /\ y <= x - 1 => Follows(s, k, n + 1, h, y)
           /\ y = x + 2 => Follows(s, k, n + 1, Append(h, t), y)
<1> DEFINE N == Cardinality(Callers)
           b == s.before
<1>1. /\ Len(h) \in Nat /\ b \in Nat /\ N \in Nat /\ s.at \in Nat
      /\ Len(Append(h, t)) = Len(h) + 1 /\ Append(h, t)[Len(h) + 1] = t
      /\ \A j \in 1 .. Len(h) : Append(h, t)[j] = h[j]
  BY OwedType DEF Times
<1>2. /\ b <= Len(h)
      /\ \A j \in (b + 1) .. Len(h) : s.at <= h[j]
      /\ n - k + 1 + x <= 3 * (Len(h) - b) + 2 * N
  BY DEF Follows
<1>3. \A j \in (b + 1) .. Len(Append(h, t)) : s.at <= Append(h, t)[j]
  <2> SUFFICES ASSUME NEW j \in (b + 1) .. (Len(h) + 1) PROVE s.at <= Append(h, t)[j]
    BY <1>1
  <2>1. CASE j = Len(h) + 1
    BY <1>1, <2>1
  <2>2. CASE j # Len(h) + 1
    <3>1. j \in (b + 1) .. Len(h) /\ j \in 1 .. Len(h)
      BY <1>1, <2>2
    <3> QED
      BY <1>1, <1>2, <3>1
  <2> QED
    BY <2>1, <2>2
<1> HIDE DEF b, N
<1>4. y <= x => n - k + 1 + y <= 3 * (Len(h) - b) + 2 * N
  BY <1>1, <1>2
<1>5. y <= x - 1 => (n + 1) - k + 1 + y <= 3 * (Len(h) - b) + 2 * N
  BY <1>1, <1>2
<1>6. y = x + 2 => (n + 1) - k + 1 + y <= 3 * (Len(Append(h, t)) - b) + 2 * N
  BY <1>1, <1>2
<1>7. b <= Len(Append(h, t))
  BY <1>1, <1>2
<1> QED
  BY <1>2, <1>3, <1>4, <1>5, <1>6, <1>7 DEF Follows, b, N

(* Every step keeps what a started call knows of the calls after it.       *)
LEMMA StartsStep == TypeOK /\ StartsInv /\ [Next]_vars => StartsInv'
<1> SUFFICES ASSUME TypeOK, StartsInv, [Next]_vars PROVE StartsInv'
  OBVIOUS
<1> DEFINE N == Cardinality(Callers)
<1>a. /\ now \in Nat /\ recorded \in [Providers -> Times]
      /\ started \in [Providers -> Seq([at: Nat, before: Nat])]
      /\ calling \in [Callers -> Providers \cup {Idle}] /\ Idle \notin Providers
      /\ leg \in [Callers -> Legs]
      /\ \A c \in Callers : calling[c] = Idle <=> leg[c] = "none"
  BY IdleAssumption DEF TypeOK
<1>b. \A p \in Providers :
        /\ MayRetry(p) \in SUBSET Callers /\ MayRepair(p) \in SUBSET Callers
        /\ MayRetry(p)' \in SUBSET Callers /\ MayRepair(p)' \in SUBSET Callers
  BY DEF MayRetry, MayRepair
<1>c. \A p \in Providers : /\ Owed(p) \in Nat /\ Owed(p) <= 2 * N
                           /\ Owed(p)' \in Nat /\ Owed(p)' <= 2 * N
                           /\ N \in Nat
  <2> SUFFICES ASSUME NEW p \in Providers
               PROVE  /\ Owed(p) \in Nat /\ Owed(p) <= 2 * N
                      /\ Owed(p)' \in Nat /\ Owed(p)' <= 2 * N
                      /\ N \in Nat
    OBVIOUS
  <2>1. ASSUME NEW A \in SUBSET Callers, NEW B \in SUBSET Callers
        PROVE  /\ Cardinality(A) + Cardinality(B) \in Nat
               /\ Cardinality(A) + Cardinality(B) <= 2 * N /\ N \in Nat
    BY OwedType
  <2> QED
    BY <1>b, <2>1 DEF Owed
<1>d. \A p \in Providers :
        /\ Len(recorded[p]) \in Nat /\ Len(started[p]) \in Nat
        /\ \A j \in 1 .. Len(recorded[p]) : recorded[p][j] \in Nat
        /\ \A k \in 1 .. Len(started[p]) :
              /\ started[p][k] \in [at: Nat, before: Nat]
              /\ started[p][k].at \in Nat /\ started[p][k].before \in Nat
  <2> SUFFICES ASSUME NEW p \in Providers
               PROVE
        /\ Len(recorded[p]) \in Nat /\ Len(started[p]) \in Nat
        /\ \A j \in 1 .. Len(recorded[p]) : recorded[p][j] \in Nat
        /\ \A k \in 1 .. Len(started[p]) :
              /\ started[p][k] \in [at: Nat, before: Nat]
              /\ started[p][k].at \in Nat /\ started[p][k].before \in Nat
    OBVIOUS
  <2>1. started[p] \in Seq([at: Nat, before: Nat]) /\ recorded[p] \in Times
    BY <1>a
  <2>2. \A k \in 1 .. Len(started[p]) : started[p][k] \in [at: Nat, before: Nat]
    BY <2>1, ElementOfSeq
  <2>3. Len(started[p]) \in Nat
    BY <2>1, LenProperties
  <2>4. Len(recorded[p]) \in Nat /\ \A j \in 1 .. Len(recorded[p]) : recorded[p][j] \in Nat
    BY <2>1 DEF Times
  <2> QED
    BY <2>2, <2>3, <2>4
(* The provider's histories stay and no more is owed.                      *)
<1>e. ASSUME NEW p \in Providers, now' \in Nat, now <= now',
             recorded'[p] = recorded[p], started'[p] = started[p],
             Owed(p)' <= Owed(p)
      PROVE  /\ \A j \in 1 .. Len(recorded'[p]) : recorded'[p][j] <= now'
             /\ \A k \in 1 .. Len(started'[p]) :
                  /\ started'[p][k].at <= now'
                  /\ Follows(started'[p][k], k, Len(started'[p]), recorded'[p], Owed(p)')
  <2> DEFINE x == Owed(p)
             y == Owed(p)'
  <2>1. x \in Nat /\ y \in Nat /\ N \in Nat /\ y <= x
    BY <1>c, <1>e
  <2>2. \A k \in 1 .. Len(started[p]) :
          started[p][k].at <= now /\ Follows(started[p][k], k, Len(started[p]), recorded[p], x)
    BY DEF StartsInv
  <2>3. \A j \in 1 .. Len(recorded[p]) : recorded[p][j] <= now
    BY DEF StartsInv
  <2> HIDE DEF x, y, N
  <2>4. ASSUME NEW k \in 1 .. Len(started[p])
        PROVE  started[p][k].at <= now' /\ Follows(started[p][k], k, Len(started[p]), recorded[p], y)
    <3>1. started[p][k].at <= now'
      BY <1>a, <1>d, <1>e, <2>2
    <3>2. Follows(started[p][k], k, Len(started[p]), recorded[p], y)
      BY <1>a, <1>d, <2>1, <2>2, FollowsOn
    <3> QED
      BY <3>1, <3>2
  <2> QED
    BY <1>a, <1>d, <1>e, <2>3, <2>4 DEF y
<1>f. ASSUME now' \in Nat, now <= now', UNCHANGED <<recorded, started>>,
             \A p \in Providers : Owed(p)' <= Owed(p)
      PROVE  StartsInv'
  BY <1>e, <1>f DEF StartsInv
<1>g. ASSUME UNCHANGED <<calling, leg>> PROVE \A p \in Providers : Owed(p)' = Owed(p)
  BY <1>g DEF Owed, MayRetry, MayRepair
(* A caller's leg moves on: no more is owed to any provider.               *)
<1>h. ASSUME NEW p \in Providers, MayRetry(p)' \in SUBSET MayRetry(p),
             MayRepair(p)' \in SUBSET MayRepair(p)
      PROVE  Owed(p)' <= Owed(p)
  <2>2. /\ Cardinality(MayRetry(p)') <= Cardinality(MayRetry(p))
        /\ Cardinality(MayRetry(p)') \in Nat /\ Cardinality(MayRetry(p)) \in Nat
    BY <1>b, <1>h, FewerCallers
  <2>3. /\ Cardinality(MayRepair(p)') <= Cardinality(MayRepair(p))
        /\ Cardinality(MayRepair(p)') \in Nat /\ Cardinality(MayRepair(p)) \in Nat
    BY <1>b, <1>h, FewerCallers
  <2> QED
    BY <2>2, <2>3 DEF Owed
<1>1. ASSUME NEW c \in Callers, NEW i \in 1 .. Len(Order), Dispatch(c, i)
      PROVE  StartsInv'
  <2>1. PICK p \in Providers : p = Order[i]
    BY OrderAssumption, ElementOfSeq
  <2> DEFINE h == recorded[p]
             s == started[p]
             e == [at |-> now, before |-> Len(h)]
             x == Owed(p)
             y == Owed(p)'
  <2>2. /\ recorded'[p] = Append(h, now) /\ started'[p] = Append(s, e) /\ now' = now
        /\ \A r \in Providers \ {p} : recorded'[r] = recorded[r] /\ started'[r] = started[r]
        /\ calling' = [calling EXCEPT ![c] = p] /\ leg' = [leg EXCEPT ![c] = "first"]
        /\ calling[c] = Idle
    BY <1>1, <1>a, <2>1 DEF Dispatch, Starts
  <2>3. y = x + 2
    <3>1. /\ MayRetry(p)' = MayRetry(p) \cup {c} /\ c \notin MayRetry(p)
          /\ MayRepair(p)' = MayRepair(p) \cup {c} /\ c \notin MayRepair(p)
      BY <1>a, <2>2 DEF MayRetry, MayRepair
    <3>2. Cardinality(MayRetry(p)') = Cardinality(MayRetry(p)) + 1
      BY <1>b, <3>1, OwedChanges
    <3>3. Cardinality(MayRepair(p)') = Cardinality(MayRepair(p)) + 1
      BY <1>b, <3>1, OwedChanges
    <3>4. Cardinality(MayRetry(p)) \in Nat /\ Cardinality(MayRepair(p)) \in Nat
      BY <1>b, OwedType
    <3> QED
      BY <3>2, <3>3, <3>4 DEF Owed
  <2>4. ASSUME NEW r \in Providers \ {p} PROVE Owed(r)' <= Owed(r)
    <3>1. MayRetry(r)' \in SUBSET MayRetry(r) /\ MayRepair(r)' \in SUBSET MayRepair(r)
      BY <1>a, <2>2 DEF MayRetry, MayRepair
    <3> QED
      BY <1>h, <3>1
  <2>5. x \in Nat /\ y \in Nat /\ N \in Nat /\ y <= 2 * N
    BY <1>c
  <2>6. /\ Len(h) \in Nat /\ Len(s) \in Nat
        /\ Len(recorded'[p]) = Len(h) + 1 /\ recorded'[p][Len(h) + 1] = now
        /\ \A j \in 1 .. Len(h) : recorded'[p][j] = h[j]
        /\ Len(started'[p]) = Len(s) + 1 /\ started'[p][Len(s) + 1] = e
        /\ \A k \in 1 .. Len(s) : started'[p][k] = s[k]
    <3>1. h \in Times /\ s \in Seq([at: Nat, before: Nat]) /\ e \in [at: Nat, before: Nat]
      BY <1>a, <1>d
    <3> HIDE DEF h, s, e
    <3> QED
      BY <1>a, <2>2, <3>1 DEF Times
  <2>7. /\ \A j \in 1 .. Len(h) : h[j] <= now
        /\ \A k \in 1 .. Len(s) : s[k].at <= now /\ Follows(s[k], k, Len(s), h, x)
        /\ \A k \in 1 .. Len(s) : s[k] \in [at: Nat, before: Nat]
        /\ h \in Times
    BY <1>a, <1>d DEF StartsInv
  <2>8. e.at = now /\ e.before = Len(h)
    OBVIOUS
  <2> HIDE DEF h, s, e, x, y
  <2>9. \A j \in 1 .. Len(recorded'[p]) : recorded'[p][j] <= now'
    BY <1>a, <2>2, <2>6, <2>7
  <2>10. ASSUME NEW k \in 1 .. Len(started'[p])
         PROVE  /\ started'[p][k].at <= now'
                /\ Follows(started'[p][k], k, Len(started'[p]), recorded'[p], y)
    <3>1. CASE k = Len(s) + 1
      <4>1. \A j \in (Len(h) + 1) .. Len(recorded'[p]) : now <= recorded'[p][j]
        BY <1>a, <2>6
      <4>2. Len(started'[p]) - k + 1 + y <= 3 * (Len(recorded'[p]) - Len(h)) + 2 * N
        BY <2>5, <2>6, <3>1
      <4>3. Len(h) <= Len(recorded'[p])
        BY <2>6
      <4>4. Follows(e, k, Len(started'[p]), recorded'[p], y)
        BY <2>8, <4>1, <4>2, <4>3 DEF Follows, N
      <4> QED
        BY <1>a, <2>2, <2>6, <2>8, <3>1, <4>4
    <3>2. CASE k \in 1 .. Len(s)
      <4>1. Follows(s[k], k, Len(s) + 1, Append(h, now), y)
        BY <1>a, <2>3, <2>5, <2>6, <2>7, <3>2, FollowsOn
      <4> QED
        BY <2>2, <2>6, <2>7, <3>2, <4>1
    <3> QED
      BY <2>6, <3>1, <3>2
  <2>11. ASSUME NEW r \in Providers \ {p}
         PROVE  /\ \A j \in 1 .. Len(recorded'[r]) : recorded'[r][j] <= now'
                /\ \A k \in 1 .. Len(started'[r]) :
                     /\ started'[r][k].at <= now'
                     /\ Follows(started'[r][k], k, Len(started'[r]), recorded'[r], Owed(r)')
    <3>1. /\ recorded'[r] = recorded[r] /\ started'[r] = started[r]
          /\ now' \in Nat /\ now <= now' /\ Owed(r)' <= Owed(r)
      BY <1>a, <2>2, <2>4
    <3> QED
      BY <1>e, <3>1
  <2> QED
    BY <2>9, <2>10, <2>11 DEF StartsInv, y
(* A caller at p calls it once more, and is owed one call less.            *)
<1>2. ASSUME NEW c \in Callers, CallAgain(c) \/ AskRepair(c) PROVE StartsInv'
  <2>1. PICK p \in Providers : p = calling[c]
    BY <1>2, <1>a DEF CallAgain, AskRepair
  <2> DEFINE h == recorded[p]
             s == started[p]
             e == [at |-> now, before |-> Len(h)]
             x == Owed(p)
             y == Owed(p)'
  <2>2. /\ UNCHANGED <<now, recorded, calling>> /\ started'[p] = Append(s, e)
        /\ \A r \in Providers \ {p} : started'[r] = started[r]
    BY <1>2, <1>a, <2>1 DEF CallAgain, AskRepair, Starts
  <2>3. y <= x - 1
    <3>1. /\ MayRetry(p)' \in SUBSET MayRetry(p)
          /\ MayRepair(p)' \in SUBSET MayRepair(p)
          /\ \/ MayRetry(p)' = MayRetry(p) \ {c} /\ c \in MayRetry(p)
             \/ MayRepair(p)' = MayRepair(p) \ {c} /\ c \in MayRepair(p)
      <4>1. CASE CallAgain(c)
        <5>1. leg[c] = "pause" /\ leg' = [leg EXCEPT ![c] = "again"] /\ calling' = calling
          BY <4>1 DEF CallAgain
        <5> QED
          BY <1>a, <2>1, <5>1 DEF MayRetry, MayRepair
      <4>2. CASE AskRepair(c)
        <5>1. leg[c] \in {"first", "again"} /\ leg' = [leg EXCEPT ![c] = "repair"]
              /\ calling' = calling
          BY <4>2 DEF AskRepair
        <5> QED
          BY <1>a, <2>1, <5>1 DEF MayRetry, MayRepair
      <4> QED
        BY <1>2, <4>1, <4>2
    <3>3. /\ Cardinality(MayRetry(p)') <= Cardinality(MayRetry(p))
          /\ Cardinality(MayRetry(p)') \in Nat /\ Cardinality(MayRetry(p)) \in Nat
          /\ MayRetry(p)' = MayRetry(p) \ {c} /\ c \in MayRetry(p)
               => Cardinality(MayRetry(p)') = Cardinality(MayRetry(p)) - 1
      BY <1>b, <3>1, FewerCallers, OwedChanges
    <3>4. /\ Cardinality(MayRepair(p)') <= Cardinality(MayRepair(p))
          /\ Cardinality(MayRepair(p)') \in Nat /\ Cardinality(MayRepair(p)) \in Nat
          /\ MayRepair(p)' = MayRepair(p) \ {c} /\ c \in MayRepair(p)
               => Cardinality(MayRepair(p)') = Cardinality(MayRepair(p)) - 1
      BY <1>b, <3>1, FewerCallers, OwedChanges
    <3> QED
      BY <3>1, <3>3, <3>4 DEF Owed
  <2>4. ASSUME NEW r \in Providers \ {p} PROVE Owed(r)' <= Owed(r)
    <3>1. MayRetry(r)' \in SUBSET MayRetry(r) /\ MayRepair(r)' \in SUBSET MayRepair(r)
      BY <1>2, <1>a, <2>1 DEF MayRetry, MayRepair, CallAgain, AskRepair
    <3> QED
      BY <1>h, <3>1
  <2>5. x \in Nat /\ y \in Nat /\ N \in Nat /\ x <= 2 * N
    BY <1>c
  <2>6. /\ Len(h) \in Nat /\ Len(s) \in Nat
        /\ Len(started'[p]) = Len(s) + 1 /\ started'[p][Len(s) + 1] = e
        /\ \A k \in 1 .. Len(s) : started'[p][k] = s[k]
    <3>1. s \in Seq([at: Nat, before: Nat]) /\ e \in [at: Nat, before: Nat] /\ Len(h) \in Nat
      BY <1>a, <1>d
    <3> HIDE DEF h, s, e
    <3> QED
      BY <2>2, <3>1
  <2>7. /\ \A j \in 1 .. Len(h) : h[j] <= now
        /\ \A k \in 1 .. Len(s) : s[k].at <= now /\ Follows(s[k], k, Len(s), h, x)
        /\ \A k \in 1 .. Len(s) : s[k] \in [at: Nat, before: Nat]
        /\ h \in Times
    BY <1>a, <1>d DEF StartsInv
  <2>8. e.at = now /\ e.before = Len(h) /\ recorded'[p] = h
    BY <2>2
  <2> HIDE DEF h, s, e, x, y
  <2>9. ASSUME NEW k \in 1 .. Len(started'[p])
        PROVE  started'[p][k].at <= now /\ Follows(started'[p][k], k, Len(started'[p]), h, y)
    <3>1. CASE k = Len(s) + 1
      <4>1. Len(started'[p]) - k + 1 + y <= 3 * (Len(h) - Len(h)) + 2 * N
        BY <2>3, <2>5, <2>6, <3>1
      <4>2. \A j \in (Len(h) + 1) .. Len(h) : now <= h[j]
        BY <2>6
      <4>3. Follows(e, k, Len(started'[p]), h, y)
        BY <2>6, <2>8, <4>1, <4>2 DEF Follows, N
      <4> QED
        BY <1>a, <2>6, <2>8, <3>1, <4>3
    <3>2. CASE k \in 1 .. Len(s)
      <4>1. Follows(s[k], k, Len(s) + 1, h, y)
        BY <1>a, <2>3, <2>5, <2>6, <2>7, <3>2, FollowsOn
      <4> QED
        BY <2>6, <2>7, <3>2, <4>1
    <3> QED
      BY <2>6, <3>1, <3>2
  <2>10. ASSUME NEW r \in Providers \ {p}
         PROVE  /\ \A j \in 1 .. Len(recorded'[r]) : recorded'[r][j] <= now'
                /\ \A k \in 1 .. Len(started'[r]) :
                     /\ started'[r][k].at <= now'
                     /\ Follows(started'[r][k], k, Len(started'[r]), recorded'[r], Owed(r)')
    <3>1. /\ recorded'[r] = recorded[r] /\ started'[r] = started[r]
          /\ now' \in Nat /\ now <= now' /\ Owed(r)' <= Owed(r)
      BY <1>a, <2>2, <2>4
    <3> QED
      BY <1>e, <3>1
  <2> QED
    BY <2>2, <2>7, <2>8, <2>9, <2>10 DEF StartsInv, y
<1>3. ASSUME NEW c \in Callers, Stumble(c) PROVE StartsInv'
  <2>1. \A p \in Providers : /\ MayRetry(p)' \in SUBSET MayRetry(p)
                             /\ MayRepair(p)' \in SUBSET MayRepair(p)
    BY <1>3, <1>a DEF Stumble, MayRetry, MayRepair
  <2> QED
    BY <1>3, <1>a, <1>f, <1>h, <2>1 DEF Stumble
<1>4. ASSUME NEW c \in Callers, Leaves(c), UNCHANGED <<now, recorded, started>>
      PROVE  StartsInv'
  <2>1. \A p \in Providers : /\ MayRetry(p)' \in SUBSET MayRetry(p)
                             /\ MayRepair(p)' \in SUBSET MayRepair(p)
    BY <1>4, <1>a DEF Leaves, MayRetry, MayRepair
  <2> QED
    BY <1>4, <1>a, <1>f, <1>h, <2>1
<1>5. ASSUME UNCHANGED <<now, calling, leg, recorded, started>> PROVE StartsInv'
  <2>1. \A p \in Providers : Owed(p)' <= Owed(p)
    BY <1>5, <1>c, <1>g
  <2> QED
    BY <1>5, <1>a, <1>f, <2>1
<1>6. CASE Tick
  <2>1. \A p \in Providers : Owed(p)' <= Owed(p)
    BY <1>6, <1>c, <1>g DEF Tick
  <2> QED
    BY <1>6, <1>a, <1>f, <2>1 DEF Tick
<1>7. ASSUME NEW c \in Callers, NEW n \in Usage, Answer(c, n) PROVE StartsInv'
  BY <1>4, <1>7 DEF Answer
<1>8. ASSUME NEW c \in Callers, Unbooked(c) PROVE StartsInv'
  BY <1>4, <1>8 DEF Unbooked
<1>9. ASSUME NEW c \in Callers, NEW secs \in Backoffs, Fail(c, secs) PROVE StartsInv'
  BY <1>4, <1>9 DEF Fail
<1>10. ASSUME NEW c \in Callers, GiveUp(c) PROVE StartsInv'
  BY <1>5, <1>10 DEF GiveUp
<1>11. ASSUME NEW c \in Callers, NEW i \in 1 .. Len(Order), Unaffordable(c, i)
       PROVE  StartsInv'
  BY <1>5, <1>11 DEF Unaffordable
<1>12. CASE AllStatus
  BY <1>5, <1>12 DEF AllStatus
<1>13. CASE UNCHANGED vars
  BY <1>5, <1>13 DEF vars
<1> QED
  BY <1>1, <1>2, <1>3, <1>6, <1>7, <1>8, <1>9, <1>10, <1>11, <1>12, <1>13 DEF Next

(* The invariant of the started calls, by induction over the steps.        *)
LEMMA StartsInvariant == Spec => []StartsInv
<1>1. Init => StartsInv
  BY DEF Init, StartsInv
<1> QED
  BY <1>1, StartsStep, TypeCorrect, PTL DEF Spec

(* A call that Loose(r) calls have followed has r + 1 recorded calls after *)
(* it, the last of which has been.                                         *)
LEMMA LooseLeavesRecorded ==
    ASSUME TypeOK, StartsInv, NEW p \in Providers, NEW r \in Nat,
           NEW i \in 1 .. Len(started[p]), i + Loose(r) <= Len(started[p])
    PROVE  LET m == Len(recorded[p])
           IN  /\ m \in Nat /\ m - r \in 1 .. m
               /\ started[p][i].at \in Nat /\ started[p][i].at <= now
               /\ recorded[p][m - r] \in Nat /\ recorded[p][m] \in Nat
               /\ started[p][i].at <= recorded[p][m - r] /\ recorded[p][m - r] <= now
               /\ started[p][i].at <= recorded[p][m] /\ recorded[p][m] <= now
<1> DEFINE m == Len(recorded[p])
           s == started[p][i]
           n == Len(started[p])
           N == Cardinality(Callers)
<1>1. /\ m \in Nat /\ n \in Nat /\ s.at \in Nat /\ s.before \in Nat
      /\ \A j \in 1 .. m : recorded[p][j] \in Nat
  <2>1. started[p] \in Seq([at: Nat, before: Nat]) /\ recorded[p] \in Times
    BY DEF TypeOK
  <2>2. s \in [at: Nat, before: Nat]
    BY <2>1, ElementOfSeq
  <2>3. n \in Nat
    BY <2>1, LenProperties
  <2>4. m \in Nat /\ \A j \in 1 .. m : recorded[p][j] \in Nat
    <3>1. \A h \in Times : Len(h) \in Nat /\ \A j \in 1 .. Len(h) : h[j] \in Nat
      BY ElementOfSeq, LenProperties DEF Times
    <3> QED
      BY <2>1, <3>1
  <2> QED
    BY <2>2, <2>3, <2>4
<1>2. /\ s.at <= now /\ s.before <= m
      /\ \A j \in (s.before + 1) .. m : s.at <= recorded[p][j]
      /\ n - i + 1 + Owed(p) <= 3 * (m - s.before) + 2 * N
      /\ \A j \in 1 .. m : recorded[p][j] <= now
  BY DEF StartsInv, Follows
<1>3. Owed(p) \in Nat /\ N \in Nat
  <2>1. MayRetry(p) \in SUBSET Callers /\ MayRepair(p) \in SUBSET Callers
    BY DEF MayRetry, MayRepair
  <2>2. /\ Cardinality(MayRetry(p)) \in Nat /\ Cardinality(MayRepair(p)) \in Nat
        /\ N \in Nat
    BY <2>1, OwedType
  <2> QED
    BY <2>2 DEF Owed
<1>4. i + 3 * r + 2 * N <= n
  BY <1>1, <1>3 DEF Loose
<1> HIDE DEF m, s, n, N
<1>5. r + 1 <= m - s.before
  BY <1>1, <1>2, <1>3, <1>4
<1>6. /\ m - r \in (s.before + 1) .. m /\ m \in (s.before + 1) .. m
      /\ m - r \in 1 .. m /\ m \in 1 .. m
  BY <1>1, <1>5
<1> QED
  BY <1>1, <1>2, <1>6 DEF m, s

(* Days are in the order of their times.                                   *)
LEMMA DaysGrow ==
    ASSUME NEW x \in Nat, NEW y \in Nat, x <= y
    PROVE  x \div Day <= y \div Day
<1>1. /\ x = Day * (x \div Day) + (x % Day)
      /\ x \div Day \in Nat /\ x % Day \in 0 .. (Day - 1)
      /\ y = Day * (y \div Day) + (y % Day)
      /\ y \div Day \in Nat /\ y % Day \in 0 .. (Day - 1)
  BY DayDivision
<1>2. ASSUME y \div Day < x \div Day PROVE FALSE
  <2>1. Day * ((y \div Day) + 1) <= Day * (x \div Day)
    BY <1>1, <1>2, DayAssumption
  <2>2. Day * ((y \div Day) + 1) = Day * (y \div Day) + Day
    BY <1>1, DayAssumption
  <2> QED
    BY <1>1, <2>1, <2>2, DayAssumption
<1> QED
  BY <1>1, <1>2

(* So a call that many calls have followed is old.                         *)
Aged ==
    \A p \in Providers : \A i \in 1 .. Len(started[p]) :
        /\ i + Loose(Limits[p].rpm) <= Len(started[p]) => now - started[p][i].at > Window
        /\ i + Loose(1) <= Len(started[p]) => now - started[p][i].at >= Limits[p].cooldown
        /\ i + Loose(Limits[p].rpd) <= Len(started[p]) =>
              started[p][i].at \div Day # now \div Day

LEMMA CallsAge ==
    TypeOK /\ StartsInv /\ RpmRecorded /\ CooldownRecorded /\ RpdRecorded => Aged
<1> SUFFICES ASSUME TypeOK, StartsInv, RpmRecorded, CooldownRecorded, RpdRecorded,
                    NEW p \in Providers, NEW i \in 1 .. Len(started[p])
             PROVE  /\ i + Loose(Limits[p].rpm) <= Len(started[p])
                          => now - started[p][i].at > Window
                    /\ i + Loose(1) <= Len(started[p])
                          => now - started[p][i].at >= Limits[p].cooldown
                    /\ i + Loose(Limits[p].rpd) <= Len(started[p])
                          => started[p][i].at \div Day # now \div Day
  BY DEF Aged
<1> DEFINE m == Len(recorded[p])
           a == started[p][i].at
           h == recorded[p]
<1>1. /\ Limits[p].rpm \in Nat /\ Limits[p].rpd \in Nat /\ Limits[p].cooldown \in Nat
      /\ now \in Nat /\ Window \in Nat
  BY LimitsAssumption, WindowAssumption DEF LimitSets, TypeOK
<1>2. ASSUME NEW r \in Nat, i + Loose(r) <= Len(started[p])
      PROVE  /\ m \in Nat /\ m - r \in 1 .. m /\ (m - r) + r = m /\ m \in 1 .. m
             /\ a \in Nat /\ h[m - r] \in Nat /\ h[m] \in Nat
             /\ a <= h[m - r] /\ h[m - r] <= now /\ a <= h[m] /\ h[m] <= now
  <2>1. /\ m \in Nat /\ m - r \in 1 .. m
        /\ a \in Nat /\ h[m - r] \in Nat /\ h[m] \in Nat
        /\ a <= h[m - r] /\ h[m - r] <= now /\ a <= h[m] /\ h[m] <= now
    BY <1>2, LooseLeavesRecorded
  <2> HIDE DEF m, a, h
  <2>2. (m - r) + r = m /\ m \in 1 .. m
    BY <2>1
  <2> QED
    BY <2>1, <2>2
<1>3. /\ \A k \in 1 .. m : k + Limits[p].rpm <= m => h[k + Limits[p].rpm] - h[k] > Window
      /\ \A k \in 1 .. (m - 1) : h[k + 1] - h[k] >= Limits[p].cooldown
      /\ \A k, l \in 1 .. m : (k <= l /\ h[k] \div Day = h[l] \div Day)
                                 => l - k + 1 <= Limits[p].rpd
  BY DEF RpmRecorded, CooldownRecorded, RpdRecorded
<1> HIDE DEF m, a, h
<1>4. ASSUME i + Loose(Limits[p].rpm) <= Len(started[p]) PROVE now - a > Window
  <2> DEFINE r == Limits[p].rpm
             v == h[m - r]
  <2>1. /\ m \in Nat /\ m - r \in 1 .. m /\ (m - r) + r = m
        /\ a \in Nat /\ v \in Nat /\ h[m] \in Nat /\ a <= v /\ h[m] <= now
    BY <1>1, <1>2, <1>4
  <2>2. h[m] - v > Window
    <3>1. (m - r) + r <= m
      BY <2>1
    <3> QED
      BY <1>3, <2>1, <3>1
  <2> HIDE DEF v
  <2> QED
    BY <1>1, <2>1, <2>2
<1>5. ASSUME i + Loose(1) <= Len(started[p]) PROVE now - a >= Limits[p].cooldown
  <2> DEFINE v == h[m - 1]
  <2>1. /\ m \in Nat /\ m - 1 \in 1 .. m /\ (m - 1) + 1 = m
        /\ a \in Nat /\ v \in Nat /\ h[m] \in Nat /\ a <= v /\ h[m] <= now
    BY <1>2, <1>5
  <2>2. h[m] - v >= Limits[p].cooldown
    <3>1. m - 1 \in 1 .. (m - 1)
      BY <2>1
    <3> QED
      BY <1>3, <2>1, <3>1
  <2> HIDE DEF v
  <2> QED
    BY <1>1, <2>1, <2>2
<1>6. ASSUME i + Loose(Limits[p].rpd) <= Len(started[p]), a \div Day = now \div Day
      PROVE  FALSE
  <2> DEFINE r == Limits[p].rpd
             k == m - r
  <2>1. /\ m \in Nat /\ k \in 1 .. m /\ m \in 1 .. m
        /\ a \in Nat /\ h[k] \in Nat /\ h[m] \in Nat
        /\ a <= h[k] /\ h[k] <= now /\ a <= h[m] /\ h[m] <= now
    BY <1>1, <1>2, <1>6
  <2>2. /\ a \div Day <= h[k] \div Day /\ h[k] \div Day <= now \div Day
        /\ a \div Day <= h[m] \div Day /\ h[m] \div Day <= now \div Day
    BY <1>1, <2>1, DaysGrow
  <2>3. a \div Day \in Nat /\ h[k] \div Day \in Nat /\ h[m] \div Day \in Nat
    BY <2>1, DayDivision
  <2>4. h[k] \div Day = h[m] \div Day
    BY <1>6, <2>2, <2>3
  <2>5. k <= m /\ m - k + 1 = r + 1 /\ r \in Nat
    BY <1>1, <2>1
  <2>6. m - k + 1 <= r
    <3> HIDE DEF k
    <3> QED
      BY <1>3, <2>1, <2>4, <2>5
  <2> HIDE DEF k, r
  <2> QED
    BY <2>5, <2>6
<1> QED
  BY <1>4, <1>5, <1>6 DEF a

(* The started halves of the three properties.                             *)
RpmStarted ==
    \A p \in Providers : \A i \in 1 .. Len(started[p]) :
        i + Loose(Limits[p].rpm) <= Len(started[p]) =>
            started[p][i + Loose(Limits[p].rpm)].at - started[p][i].at > Window

CooldownStarted ==
    \A p \in Providers : \A i \in 1 .. Len(started[p]) :
        i + Loose(1) <= Len(started[p]) =>
            started[p][i + Loose(1)].at - started[p][i].at >= Limits[p].cooldown

RpdStarted ==
    \A p \in Providers : \A i, j \in 1 .. Len(started[p]) :
        (i <= j /\ started[p][i].at \div Day = started[p][j].at \div Day)
            => j - i + 1 <= Loose(Limits[p].rpd)

(* A history of starts stays or gets a call of now.                        *)
LEMMA StartedGrows ==
    ASSUME TypeOK, [Next]_vars, NEW p \in Providers
    PROVE  \/ started'[p] = started[p]
           \/ /\ Len(started[p]) \in Nat
              /\ Len(started'[p]) = Len(started[p]) + 1
              /\ \A k \in 1 .. Len(started[p]) : started'[p][k] = started[p][k]
              /\ started'[p][Len(started[p]) + 1].at = now'
<1>1. \/ UNCHANGED started
      \/ \E r \in Providers : Starts(r) /\ now' = now
  <2>1. ASSUME NEW c \in Callers, NEW i \in 1 .. Len(Order), Dispatch(c, i)
        PROVE  \E r \in Providers : Starts(r) /\ now' = now
    <3>1. Order[i] \in Providers
      BY OrderAssumption, ElementOfSeq
    <3> QED
      BY <2>1, <3>1 DEF Dispatch
  <2>2. ASSUME NEW c \in Callers, CallAgain(c) \/ AskRepair(c)
        PROVE  \E r \in Providers : Starts(r) /\ now' = now
    BY <2>2 DEF CallAgain, AskRepair, TypeOK
  <2> QED
    BY <2>1, <2>2 DEF Next, vars, Unaffordable, GiveUp, Stumble, Unbooked, Answer,
                      Fail, AllStatus, Tick
<1>2. ASSUME NEW r \in Providers, Starts(r), now' = now, started'[p] # started[p]
      PROVE  started'[p] = Append(started[p], [at |-> now, before |-> Len(recorded[p])])
  BY <1>2 DEF Starts, TypeOK
<1>3. started[p] \in Seq([at: Nat, before: Nat])
  BY DEF TypeOK
<1> QED
  BY <1>1, <1>2, <1>3

(* A step to a state whose calls have aged keeps the started halves.       *)
LEMMA StartedStep ==
    ASSUME TypeOK, TypeOK', RpmStarted, CooldownStarted, RpdStarted, Aged', [Next]_vars
    PROVE  RpmStarted' /\ CooldownStarted' /\ RpdStarted'
<1> SUFFICES ASSUME NEW p \in Providers
             PROVE
        /\ \A i \in 1 .. Len(started'[p]) : i + Loose(Limits[p].rpm) <= Len(started'[p]) =>
              started'[p][i + Loose(Limits[p].rpm)].at - started'[p][i].at > Window
        /\ \A i \in 1 .. Len(started'[p]) : i + Loose(1) <= Len(started'[p]) =>
              started'[p][i + Loose(1)].at - started'[p][i].at >= Limits[p].cooldown
        /\ \A i, j \in 1 .. Len(started'[p]) :
              (i <= j /\ started'[p][i].at \div Day = started'[p][j].at \div Day)
                  => j - i + 1 <= Loose(Limits[p].rpd)
  BY DEF RpmStarted, CooldownStarted, RpdStarted, Loose
<1> DEFINE s == started[p]
           t == started'[p]
           n == Len(s)
<1>1. CASE t = s
  BY <1>1 DEF RpmStarted, CooldownStarted, RpdStarted
<1>2. CASE t # s
  <2>1. /\ n \in Nat /\ Len(t) = n + 1 /\ t[n + 1].at = now'
        /\ \A k \in 1 .. n : t[k] = s[k]
    BY <1>2, StartedGrows
  <2>2. \A k \in Nat : Loose(k) \in Nat
    BY OwedType DEF Loose
  <2>3. Limits[p].rpm \in Nat /\ Limits[p].rpd \in Nat /\ 1 \in Nat
    BY LimitsAssumption DEF LimitSets
  <2>4. \A i \in 1 .. n + 1 :
          /\ i + Loose(Limits[p].rpm) <= n + 1 => now' - t[i].at > Window
          /\ i + Loose(1) <= n + 1 => now' - t[i].at >= Limits[p].cooldown
          /\ i + Loose(Limits[p].rpd) <= n + 1 => t[i].at \div Day # now' \div Day
    BY <2>1 DEF Aged, Loose
  <2>5. /\ \A i \in 1 .. n : i + Loose(Limits[p].rpm) <= n =>
              s[i + Loose(Limits[p].rpm)].at - s[i].at > Window
        /\ \A i \in 1 .. n : i + Loose(1) <= n =>
              s[i + Loose(1)].at - s[i].at >= Limits[p].cooldown
        /\ \A i, j \in 1 .. n : (i <= j /\ s[i].at \div Day = s[j].at \div Day)
              => j - i + 1 <= Loose(Limits[p].rpd)
    BY DEF RpmStarted, CooldownStarted, RpdStarted
  <2> HIDE DEF s, t, n
  <2>6. ASSUME NEW l \in Nat, NEW i \in 1 .. n + 1, i + l <= n + 1, i + l # n + 1
        PROVE  /\ i \in 1 .. n /\ i + l \in 1 .. n /\ i + l <= n
               /\ t[i] = s[i] /\ t[i + l] = s[i + l]
    BY <2>1, <2>6
  <2>7. ASSUME NEW i \in 1 .. n + 1, i + Loose(Limits[p].rpm) <= n + 1
        PROVE  t[i + Loose(Limits[p].rpm)].at - t[i].at > Window
    <3>1. CASE i + Loose(Limits[p].rpm) = n + 1
      BY <2>1, <2>4, <2>7, <3>1
    <3>2. CASE i + Loose(Limits[p].rpm) # n + 1
      BY <2>2, <2>3, <2>5, <2>6, <2>7, <3>2
    <3> QED
      BY <3>1, <3>2
  <2>8. ASSUME NEW i \in 1 .. n + 1, i + Loose(1) <= n + 1
        PROVE  t[i + Loose(1)].at - t[i].at >= Limits[p].cooldown
    <3>1. CASE i + Loose(1) = n + 1
      BY <2>1, <2>4, <2>8, <3>1
    <3>2. CASE i + Loose(1) # n + 1
      BY <2>2, <2>3, <2>5, <2>6, <2>8, <3>2
    <3> QED
      BY <3>1, <3>2
  <2>9. ASSUME NEW i \in 1 .. n + 1, NEW j \in 1 .. n + 1, i <= j,
               t[i].at \div Day = t[j].at \div Day
        PROVE  j - i + 1 <= Loose(Limits[p].rpd)
    <3>1. CASE j = n + 1
      <4>1. t[i].at \div Day = now' \div Day
        BY <2>1, <2>9, <3>1
      <4>2. ~(i + Loose(Limits[p].rpd) <= n + 1)
        BY <2>4, <4>1
      <4> DEFINE l == Loose(Limits[p].rpd)
      <4>3. l \in Nat /\ ~(i + l <= n + 1)
        BY <2>2, <2>3, <4>2
      <4> HIDE DEF l
      <4>4. j - i + 1 <= l
        BY <2>1, <3>1, <4>3
      <4> QED
        BY <4>4 DEF l
    <3>2. CASE j # n + 1
      BY <2>1, <2>5, <2>9, <3>2
    <3> QED
      BY <3>1, <3>2
  <2> QED
    BY <2>1, <2>7, <2>8, <2>9 DEF t
<1> QED
  BY <1>1, <1>2

(* The started halves, by induction over the steps.                        *)
LEMMA StartedInvariant == Spec => [](RpmStarted /\ CooldownStarted /\ RpdStarted)
<1>1. Init => RpmStarted /\ CooldownStarted /\ RpdStarted
  BY DEF Init, RpmStarted, CooldownStarted, RpdStarted
<1>2. /\ TypeOK /\ TypeOK' /\ Aged' /\ [Next]_vars
      /\ RpmStarted /\ CooldownStarted /\ RpdStarted
      => (RpmStarted /\ CooldownStarted /\ RpdStarted)'
  BY StartedStep
<1>3. TypeOK /\ StartsInv /\ PaceInv /\ RpdRecorded => Aged
  BY CallsAge DEF PaceInv
<1> QED
  BY <1>1, <1>2, <1>3, TypeCorrect, StartsInvariant, PaceInvariant, DayInvariant, PTL DEF Spec

(* For every ring, every set of limits and any number of concurrent        *)
(* requests, any rpm + 1 consecutive recorded calls to a provider span     *)
(* more than the window, and so do any Loose(rpm) + 1 consecutive calls,   *)
(* retries and repairs included.                                           *)
THEOREM RpmAlwaysRespected == Spec => []RpmRespected
<1>1. RpmRecorded /\ RpmStarted => RpmRespected
  BY DEF RpmRecorded, RpmStarted, RpmRespected
<1> QED
  BY <1>1, PaceInvariant, StartedInvariant, PTL DEF PaceInv

(* Likewise no two recorded calls to a provider are closer than its        *)
(* cooldown, and no Loose(1) + 1 consecutive calls fit into less.          *)
THEOREM CooldownAlwaysRespected == Spec => []CooldownRespected
<1>1. CooldownRecorded /\ CooldownStarted => CooldownRespected
  BY DEF CooldownRecorded, CooldownStarted, CooldownRespected
<1> QED
  BY <1>1, PaceInvariant, StartedInvariant, PTL DEF PaceInv

(* For every ring, any daily limits and any length of day, no calendar day *)
(* records more than rpd calls to a provider or sees more than Loose(rpd)  *)
(* start.                                                                  *)
THEOREM RpdAlwaysRespected == Spec => []RpdRespected
<1>1. RpdRecorded /\ RpdStarted => RpdRespected
  BY DEF RpdRecorded, RpdStarted, RpdRespected
<1> QED
  BY <1>1, DayInvariant, StartedInvariant, PTL

-----------------------------------------------------------------------------
(* The sum of the minute's tokens.  f sums a deque q of bookings: f[i] is  *)
(* the sum of its first i.                                                 *)
Bookings == Seq([at: Nat, n: Nat])

SumsOf(f, q) ==
    /\ f \in [0 .. Len(q) -> Nat]
    /\ f[0] = 0
    /\ \A i \in 1 .. Len(q) : f[i] = f[i - 1] + q[i].n

(* A property of numbers that fails has a least number at which it fails.  *)
LEMMA LeastFailure ==
    ASSUME NEW S \in SUBSET Nat, S # {}
    PROVE  \E n \in S : \A i \in Nat : i < n => i \notin S
<1>1. PICK n \in S : \A i \in S : <<i, n>> \notin OpToRel(<, Nat)
  BY WFMin, NatLessThanWellFounded
<1> QED
  BY <1>1 DEF OpToRel

(* The entries of a deque of bookings.                                     *)
LEMMA BookingType ==
    ASSUME NEW q \in Bookings
    PROVE  Len(q) \in Nat /\ \A i \in 1 .. Len(q) : q[i].n \in Nat /\ q[i].at \in Nat
<1>1. \A i \in 1 .. Len(q) : q[i] \in [at: Nat, n: Nat]
  BY ElementOfSeq DEF Bookings
<1> QED
  BY <1>1, LenProperties DEF Bookings

(* One booking more: the sums go on.                                       *)
LEMMA SumsOfAppend ==
    ASSUME NEW q \in Bookings, NEW f, SumsOf(f, q), NEW e \in [at: Nat, n: Nat]
    PROVE  \E g : /\ SumsOf(g, Append(q, e))
                  /\ g[Len(q) + 1] = f[Len(q)] + e.n
                  /\ \A i \in 0 .. Len(q) : g[i] = f[i]
<1> DEFINE L == Len(q)
           g == [i \in 0 .. L + 1 |-> IF i = L + 1 THEN f[L] + e.n ELSE f[i]]
<1>1. L \in Nat /\ e.n \in Nat /\ f \in [0 .. L -> Nat] /\ f[0] = 0
  BY BookingType DEF SumsOf
<1>2. /\ Len(Append(q, e)) = L + 1 /\ Append(q, e)[L + 1] = e
      /\ \A i \in 1 .. L : Append(q, e)[i] = q[i]
  BY DEF Bookings
<1>3. \A i \in 1 .. L : f[i] = f[i - 1] + q[i].n
  BY DEF SumsOf
<1> HIDE DEF L
<1>4. g \in [0 .. L + 1 -> Nat] /\ g[0] = 0
  BY <1>1
<1>5. g[L + 1] = f[L] + e.n /\ \A i \in 0 .. L : g[i] = f[i]
  BY <1>1
<1> HIDE DEF g
<1>6. \A i \in 1 .. L + 1 : g[i] = g[i - 1] + Append(q, e)[i].n
  <2> SUFFICES ASSUME NEW i \in 1 .. L + 1 PROVE g[i] = g[i - 1] + Append(q, e)[i].n
    OBVIOUS
  <2>1. CASE i = L + 1
    BY <1>1, <1>2, <1>5, <2>1
  <2>2. CASE i # L + 1
    <3>1. i \in 1 .. L /\ i - 1 \in 0 .. L /\ i \in 0 .. L
      BY <1>1, <2>2
    <3> QED
      BY <1>2, <1>3, <1>5, <3>1
  <2> QED
    BY <2>1, <2>2
<1>7. SumsOf(g, Append(q, e))
  BY <1>2, <1>4, <1>6 DEF SumsOf
<1> QED
  BY <1>5, <1>7 DEF L

(* Every deque of bookings has its sums: the least length without would be *)
(* one more than a length with.                                            *)
LEMMA SumsExist ==
    ASSUME NEW q \in Bookings
    PROVE  \E f : SumsOf(f, q)
<1> DEFINE L == Len(q)
           Upto(f, n) == /\ f \in [0 .. n -> Nat] /\ f[0] = 0
                         /\ \A i \in 1 .. n : f[i] = f[i - 1] + q[i].n
           Bad == {n \in 0 .. L : ~\E f : Upto(f, n)}
<1>1. L \in Nat /\ \A i \in 1 .. L : q[i].n \in Nat
  BY BookingType
<1>2. ASSUME Bad # {} PROVE FALSE
  <2>1. Bad \in SUBSET Nat
    BY <1>1
  <2>2. PICK n \in Bad : \A i \in Nat : i < n => i \notin Bad
    <3> HIDE DEF Bad
    <3> QED
      BY <1>2, <2>1, LeastFailure
  <2>3. n \in 0 .. L /\ n \in Nat
    BY <2>1
  <2>4. n # 0
    <3>1. Upto([i \in 0 .. 0 |-> 0], 0)
      OBVIOUS
    <3> QED
      BY <3>1
  <2>5. PICK f : Upto(f, n - 1)
    <3>1. n - 1 \in Nat /\ n - 1 < n /\ n - 1 \in 0 .. L
      BY <1>1, <2>3, <2>4
    <3> QED
      BY <2>2, <3>1
  <2> DEFINE g == [i \in 0 .. n |-> IF i = n THEN f[n - 1] + q[n].n ELSE f[i]]
  <2>6. n \in 1 .. L /\ n - 1 \in Nat /\ q[n].n \in Nat
    BY <1>1, <2>3, <2>4
  <2>7. g \in [0 .. n -> Nat] /\ g[0] = 0
    BY <2>4, <2>5, <2>6
  <2>8. ASSUME NEW i \in 1 .. n PROVE g[i] = g[i - 1] + q[i].n
    <3>1. CASE i = n
      BY <2>6, <3>1
    <3>2. CASE i # n
      <4>1. i \in 1 .. n - 1 /\ i - 1 \in 0 .. n /\ i - 1 # n
        BY <2>6, <3>2
      <4>2. g[i] = f[i] /\ g[i - 1] = f[i - 1]
        BY <3>2, <4>1
      <4> QED
        BY <2>5, <4>1, <4>2
    <3> QED
      BY <3>1, <3>2
  <2>9. Upto(g, n)
    BY <2>7, <2>8
  <2> QED
    BY <2>9
<1>3. L \in 0 .. L
  BY <1>1
<1>4. PICK f : Upto(f, L)
  BY <1>2, <1>3
<1> QED
  BY <1>4 DEF SumsOf

(* MinuteTokens adds up the deque.                                         *)
LEMMA MinuteTokensSum ==
    ASSUME NEW rs, rs.tokens_minute \in Bookings, NEW f, SumsOf(f, rs.tokens_minute)
    PROVE  MinuteTokens(rs) = f[Len(rs.tokens_minute)]
<1> DEFINE q == rs.tokens_minute
           L == Len(q)
           Adds(g) == g = [i \in 0 .. L |-> IF i = 0 THEN 0 ELSE g[i - 1] + q[i].n]
           up == CHOOSE g : Adds(g)
           Bad == {n \in 0 .. L : up[n] # f[n]}
<1>1. MinuteTokens(rs) = up[L]
  BY DEF MinuteTokens
<1>2. L \in Nat /\ (\A i \in 1 .. L : q[i].n \in Nat) /\ f \in [0 .. L -> Nat] /\ f[0] = 0
      /\ \A i \in 1 .. L : f[i] = f[i - 1] + q[i].n
  BY BookingType DEF SumsOf
<1> HIDE DEF q, L
<1>3. Adds(f)
  <2>1. f = [i \in 0 .. L |-> f[i]]
    BY <1>2
  <2>2. \A i \in 0 .. L : f[i] = IF i = 0 THEN 0 ELSE f[i - 1] + q[i].n
    BY <1>2
  <2> QED
    BY <2>1, <2>2
<1>4. Adds(up)
  <2> HIDE DEF Adds
  <2> QED
    BY <1>3
<1> HIDE DEF up
<1>5. ASSUME Bad # {} PROVE FALSE
  <2>1. Bad \in SUBSET Nat
    BY <1>2
  <2>2. PICK n \in Bad : \A i \in Nat : i < n => i \notin Bad
    <3> HIDE DEF Bad
    <3> QED
      BY <1>5, <2>1, LeastFailure
  <2>3. n \in 0 .. L /\ n \in Nat /\ up[n] # f[n]
    BY <2>1
  <2>4. up[n] = IF n = 0 THEN 0 ELSE up[n - 1] + q[n].n
    BY <1>4, <2>3
  <2>5. n # 0
    BY <1>2, <2>3, <2>4
  <2>6. up[n - 1] = f[n - 1]
    <3>1. n - 1 \in Nat /\ n - 1 < n /\ n - 1 \in 0 .. L
      BY <1>2, <2>3, <2>5
    <3> QED
      BY <2>2, <3>1
  <2>7. f[n] = f[n - 1] + q[n].n
    BY <1>2, <2>3, <2>5
  <2> QED
    BY <2>3, <2>4, <2>5, <2>6, <2>7
<1>6. L \in 0 .. L
  BY <1>2
<1>7. up[L] = f[L]
  BY <1>5, <1>6
<1> QED
  BY <1>1, <1>7 DEF q, L

(* Sums grow with the bookings they add up.                                *)
LEMMA SumsGrow ==
    ASSUME NEW q \in Bookings, NEW f, SumsOf(f, q), NEW k \in 0 .. Len(q)
    PROVE  \A i \in k .. Len(q) : f[k] <= f[i]
<1> DEFINE Bad == {n \in k .. Len(q) : ~(f[k] <= f[n])}
<1>1. /\ Len(q) \in Nat /\ (\A i \in 1 .. Len(q) : q[i].n \in Nat)
      /\ f \in [0 .. Len(q) -> Nat] /\ k \in Nat
      /\ \A i \in 1 .. Len(q) : f[i] = f[i - 1] + q[i].n
  BY BookingType DEF SumsOf
<1>2. ASSUME Bad # {} PROVE FALSE
  <2>1. Bad \in SUBSET Nat
    BY <1>1
  <2>2. PICK n \in Bad : \A i \in Nat : i < n => i \notin Bad
    <3> HIDE DEF Bad
    <3> QED
      BY <1>2, <2>1, LeastFailure
  <2>3. n \in k .. Len(q) /\ n \in Nat /\ ~(f[k] <= f[n])
    BY <2>1
  <2>4. n # k
    BY <1>1, <2>3
  <2>5. n - 1 \in Nat /\ n - 1 < n /\ n - 1 \in k .. Len(q) /\ n \in 1 .. Len(q)
    BY <1>1, <2>3, <2>4
  <2>6. f[k] <= f[n - 1]
    BY <2>2, <2>5
  <2>7. f[n] = f[n - 1] + q[n].n /\ q[n].n \in Nat
    BY <1>1, <2>5
  <2>8. n - 1 \in 0 .. Len(q) /\ k \in 0 .. Len(q)
    BY <1>1, <2>5
  <2>9. f[n - 1] \in Nat /\ f[k] \in Nat
    BY <1>1, <2>8
  <2> QED
    BY <2>3, <2>6, <2>7, <2>9
<1> QED
  BY <1>2

(* What is left of a deque sums up to what is left of the sum.             *)
LEMMA SumsOfSuffix ==
    ASSUME NEW q \in Bookings, NEW f, SumsOf(f, q), NEW k \in 0 .. Len(q)
    PROVE  /\ SubSeq(q, k + 1, Len(q)) \in Bookings
           /\ \E g : /\ SumsOf(g, SubSeq(q, k + 1, Len(q)))
                     /\ g[Len(SubSeq(q, k + 1, Len(q)))] = f[Len(q)] - f[k]
<1> DEFINE L == Len(q)
           r == SubSeq(q, k + 1, L)
           g == [i \in 0 .. L - k |-> f[k + i] - f[k]]
<1>1. /\ L \in Nat /\ (\A i \in 1 .. L : q[i].n \in Nat)
      /\ f \in [0 .. L -> Nat] /\ k \in Nat /\ k <= L
      /\ \A i \in 1 .. L : f[i] = f[i - 1] + q[i].n
  <2>1. L \in Nat /\ \A i \in 1 .. L : q[i].n \in Nat
    BY BookingType
  <2>2. f \in [0 .. L -> Nat] /\ \A i \in 1 .. L : f[i] = f[i - 1] + q[i].n
    BY DEF SumsOf
  <2>3. k \in Nat /\ k <= L
    BY <2>1
  <2> QED
    BY <2>1, <2>2, <2>3
<1>2. r \in Bookings
  BY <1>1, SuffixType DEF Bookings
<1>3. Len(r) = L - k /\ \A i \in 1 .. L - k : r[i] = q[k + i]
  <2>0. \A i \in 1 .. L : q[i] \in [at: Nat, n: Nat]
    BY ElementOfSeq DEF Bookings
  <2>1. \A i \in (k + 1) .. L : q[i] \in [at: Nat, n: Nat]
    BY <1>1, <2>0
  <2> QED
    BY <1>1, <2>1, SubSeqProperties
<1>4. \A i \in k .. L : f[k] <= f[i]
  BY SumsGrow
<1> HIDE DEF L, r
<1>5. g \in [0 .. L - k -> Nat] /\ g[0] = 0 /\ g[L - k] = f[L] - f[k]
  <2>1. \A i \in 0 .. L - k : k + i \in k .. L /\ k + i \in 0 .. L
    BY <1>1
  <2>2. \A i \in 0 .. L - k : f[k + i] - f[k] \in Nat
    BY <1>1, <1>4, <2>1
  <2>3. 0 \in 0 .. L - k /\ L - k \in 0 .. L - k /\ k + (L - k) = L /\ k + 0 = k
    BY <1>1
  <2>4. f[k] - f[k] = 0
    BY <1>1
  <2> QED
    BY <2>2, <2>3, <2>4
<1>6. ASSUME NEW i \in 1 .. L - k PROVE g[i] = g[i - 1] + r[i].n
  <2>1. k + i \in 1 .. L /\ i \in 0 .. L - k /\ i - 1 \in 0 .. L - k /\ k + (i - 1) = (k + i) - 1
    BY <1>1
  <2>2. g[i] = f[k + i] - f[k] /\ g[i - 1] = f[(k + i) - 1] - f[k]
    BY <2>1
  <2>3. f[k + i] = f[(k + i) - 1] + q[k + i].n /\ r[i] = q[k + i]
    BY <1>1, <1>3, <2>1
  <2>4. f[(k + i) - 1] \in Nat /\ f[k] \in Nat /\ q[k + i].n \in Nat
    <3>1. (k + i) - 1 \in 0 .. L /\ k \in 0 .. L
      BY <1>1, <2>1
    <3> QED
      BY <1>1, <2>1, <3>1
  <2> QED
    BY <2>2, <2>3, <2>4
<1> HIDE DEF g
<1>7. SumsOf(g, r)
  BY <1>1, <1>3, <1>5, <1>6 DEF SumsOf
<1> QED
  BY <1>2, <1>3, <1>5, <1>7 DEF L, r

-----------------------------------------------------------------------------
(* The token cap's strengthening: the tokens booked within the window and  *)
(* the worst report of each call in flight are together within the cap and *)
(* the worst reports of all callers, less the one estimate that the last   *)
(* admission has tested.                                                   *)
Cap(p) == Limits[p].tpm + Cardinality(Callers) * Worst - Est
Awaiting(p) == {c \in Callers : calling[c] = p}

TokenRoom(q, t, flying, cap) ==
    \E f : \E m \in 0 .. Len(q) :
        /\ SumsOf(f, q)
        /\ \A i \in 1 .. m : q[i].at < t - Window
        /\ f[Len(q)] - f[m] + flying * Worst <= cap

TokenInv ==
    \A p \in Providers :
        TokenRoom(state[p].tokens_minute, now, Cardinality(Awaiting(p)), Cap(p))

(* gc trims a deque of bookings at the cutoff.                             *)
LEMMA GcTokens ==
    ASSUME NEW rs \in RateStates, NEW t \in Nat
    PROVE  /\ rs.tokens_minute \in Bookings
           /\ \E k \in 0 .. Len(rs.tokens_minute) :
                /\ Gc(rs, t).tokens_minute
                     = SubSeq(rs.tokens_minute, k + 1, Len(rs.tokens_minute))
                /\ k < Len(rs.tokens_minute) => rs.tokens_minute[k + 1].at >= t - Window
<1> DEFINE q == rs.tokens_minute
           stamps == [i \in 1 .. Len(q) |-> q[i].at]
           k == Stale(stamps, t - Window)
<1>1. q \in Bookings
  BY DEF RateStates, Bookings
<1>2. Len(q) \in Nat /\ \A i \in 1 .. Len(q) : q[i].at \in Nat
  BY <1>1, BookingType
<1>3. Gc(rs, t).tokens_minute = SubSeq(q, k + 1, Len(q))
  BY DEF Gc, RateStates
<1> HIDE DEF q
<1>4. stamps \in Times /\ Len(stamps) = Len(q)
  BY <1>2 DEF Times
<1>5. \A i \in 1 .. Len(q) : stamps[i] = q[i].at
  OBVIOUS
<1>6. t - Window \in Int
  BY WindowAssumption
<1> HIDE DEF stamps
<1>7. /\ k \in 0 .. Len(stamps)
      /\ k < Len(stamps) => stamps[k + 1] >= t - Window
  BY <1>4, <1>6, StaleProperties
<1>8. k < Len(q) => q[k + 1].at >= t - Window
  BY <1>2, <1>4, <1>5, <1>7
<1> QED
  BY <1>1, <1>3, <1>4, <1>7, <1>8 DEF q

(* Room before gc is room after it, with nothing but the window left.      *)
LEMMA GcKeepsRoom ==
    ASSUME NEW rs \in RateStates, NEW t \in Nat, NEW flying \in Nat, NEW cap \in Int,
           TokenRoom(rs.tokens_minute, t, flying, cap)
    PROVE  /\ TokenRoom(Gc(rs, t).tokens_minute, t, flying, cap)
           /\ MinuteTokens(Gc(rs, t)) + flying * Worst <= cap
<1> DEFINE q == rs.tokens_minute
           r == Gc(rs, t).tokens_minute
<1>1. q \in Bookings
  BY GcTokens
<1>2. PICK k \in 0 .. Len(q) : /\ r = SubSeq(q, k + 1, Len(q))
                               /\ k < Len(q) => q[k + 1].at >= t - Window
  BY GcTokens
<1>3. PICK f : \E m \in 0 .. Len(q) :
        /\ SumsOf(f, q)
        /\ \A i \in 1 .. m : q[i].at < t - Window
        /\ f[Len(q)] - f[m] + flying * Worst <= cap
  BY DEF TokenRoom
<1>4. PICK m \in 0 .. Len(q) :
        /\ SumsOf(f, q)
        /\ \A i \in 1 .. m : q[i].at < t - Window
        /\ f[Len(q)] - f[m] + flying * Worst <= cap
  BY <1>3
<1> HIDE DEF q, r
<1>5. Len(q) \in Nat /\ \A i \in 1 .. Len(q) : q[i].at \in Nat
  BY <1>1, BookingType
<1>6. m <= k
  BY <1>2, <1>4, <1>5, WindowAssumption
<1>7. f[m] <= f[k]
  BY <1>1, <1>2, <1>4, <1>5, <1>6, SumsGrow
<1>8. PICK g : SumsOf(g, r) /\ g[Len(r)] = f[Len(q)] - f[k]
  BY <1>1, <1>2, <1>4, SumsOfSuffix
<1>9. r \in Bookings
  BY <1>1, <1>2, <1>4, SumsOfSuffix
<1>10. f[Len(q)] \in Nat /\ f[k] \in Nat /\ f[m] \in Nat
  <2>1. f \in [0 .. Len(q) -> Nat]
    BY <1>4 DEF SumsOf
  <2> QED
    BY <1>2, <1>4, <1>5, <2>1
<1>11. flying * Worst \in Nat
  BY WorstAssumption
<1>12. g[Len(r)] + flying * Worst <= cap
  BY <1>4, <1>7, <1>8, <1>10, <1>11
<1>13. Len(r) \in Nat /\ g[0] = 0 /\ g[Len(r)] \in Nat
  <2>1. Len(r) \in Nat
    BY <1>9, BookingType
  <2> QED
    BY <1>8, <2>1 DEF SumsOf
<1>14. TokenRoom(r, t, flying, cap)
  <2>1. g[Len(r)] - g[0] + flying * Worst <= cap
    BY <1>11, <1>12, <1>13
  <2>2. 0 \in 0 .. Len(r) /\ \A i \in 1 .. 0 : r[i].at < t - Window
    BY <1>13
  <2> QED
    BY <1>8, <2>1, <2>2 DEF TokenRoom
<1>15. MinuteTokens(Gc(rs, t)) = g[Len(r)]
  BY <1>8, <1>9, MinuteTokensSum DEF r
<1> QED
  BY <1>12, <1>14, <1>15 DEF r

(* A booking takes the room that its worst report had.                     *)
LEMMA BookingKeepsRoom ==
    ASSUME NEW q \in Bookings, NEW t \in Nat, NEW n \in Nat,
           NEW flying \in Nat, NEW still \in Nat, NEW cap \in Int,
           TokenRoom(q, t, flying, cap), n + still * Worst <= flying * Worst
    PROVE  TokenRoom(Append(q, [at |-> t, n |-> n]), t, still, cap)
<1> DEFINE e == [at |-> t, n |-> n]
           r == Append(q, e)
<1>1. PICK f : \E m \in 0 .. Len(q) :
        /\ SumsOf(f, q)
        /\ \A i \in 1 .. m : q[i].at < t - Window
        /\ f[Len(q)] - f[m] + flying * Worst <= cap
  BY DEF TokenRoom
<1>2. PICK m \in 0 .. Len(q) :
        /\ SumsOf(f, q)
        /\ \A i \in 1 .. m : q[i].at < t - Window
        /\ f[Len(q)] - f[m] + flying * Worst <= cap
  BY <1>1
<1>3. e \in [at: Nat, n: Nat] /\ e.n = n
  OBVIOUS
<1>4. Len(q) \in Nat
  BY BookingType
<1>5. Len(r) = Len(q) + 1 /\ \A i \in 1 .. Len(q) : r[i] = q[i]
  BY <1>3 DEF Bookings
<1> HIDE DEF e
<1>6. PICK g : /\ SumsOf(g, r) /\ g[Len(q) + 1] = f[Len(q)] + n
               /\ \A i \in 0 .. Len(q) : g[i] = f[i]
  BY <1>2, <1>3, SumsOfAppend
<1> HIDE DEF r
<1>7. f[Len(q)] \in Nat /\ f[m] \in Nat /\ flying * Worst \in Nat /\ still * Worst \in Nat
  <2>1. flying * Worst \in Nat /\ still * Worst \in Nat
    BY WorstAssumption
  <2>2. f \in [0 .. Len(q) -> Nat]
    BY <1>2 DEF SumsOf
  <2> QED
    BY <1>2, <1>4, <2>1, <2>2
<1>8. g[Len(r)] - g[m] + still * Worst <= cap
  <2> DEFINE a == flying * Worst
             b == still * Worst
             x == f[Len(q)]
             y == f[m]
  <2>1. g[Len(r)] = x + n
    BY <1>5, <1>6
  <2>2. g[m] = y
    BY <1>6
  <2>3. x - y + a <= cap /\ n + b <= a
    BY <1>2
  <2>4. a \in Nat /\ b \in Nat /\ x \in Nat /\ y \in Nat
    BY <1>7
  <2> HIDE DEF a, b, x, y
  <2>5. (x + n) - y + b <= cap
    BY <2>3, <2>4
  <2> QED
    BY <2>1, <2>2, <2>5 DEF b
<1>9. m \in 0 .. Len(r) /\ \A i \in 1 .. m : r[i].at < t - Window
  BY <1>2, <1>4, <1>5
<1> QED
  BY <1>6, <1>8, <1>9 DEF TokenRoom, r, e

(* Room stays room as time passes and calls end.                           *)
LEMMA RoomLater ==
    ASSUME NEW q \in Bookings, NEW t \in Nat, NEW u \in Nat, t <= u,
           NEW flying \in Nat, NEW still \in Nat, still <= flying, NEW cap \in Int,
           TokenRoom(q, t, flying, cap)
    PROVE  TokenRoom(q, u, still, cap)
<1>1. PICK f : \E m \in 0 .. Len(q) :
        /\ SumsOf(f, q)
        /\ \A i \in 1 .. m : q[i].at < t - Window
        /\ f[Len(q)] - f[m] + flying * Worst <= cap
  BY DEF TokenRoom
<1>2. PICK m \in 0 .. Len(q) :
        /\ SumsOf(f, q)
        /\ \A i \in 1 .. m : q[i].at < t - Window
        /\ f[Len(q)] - f[m] + flying * Worst <= cap
  BY <1>1
<1>3. Len(q) \in Nat /\ \A i \in 1 .. Len(q) : q[i].at \in Nat
  BY BookingType
<1>4. f[Len(q)] \in Nat /\ f[m] \in Nat
  BY <1>2, <1>3 DEF SumsOf
<1>5. still * Worst <= flying * Worst /\ still * Worst \in Nat /\ flying * Worst \in Nat
  BY WorstAssumption
<1>6. f[Len(q)] - f[m] + still * Worst <= cap
  BY <1>2, <1>4, <1>5
<1>7. \A i \in 1 .. m : q[i].at < u - Window
  BY <1>2, <1>3, WindowAssumption
<1> QED
  BY <1>2, <1>6, <1>7 DEF TokenRoom

(* The callers are finitely many, and there is one.                        *)
LEMMA CallersCount ==
    ASSUME NEW F \in SUBSET Callers
    PROVE  /\ IsFiniteSet(F) /\ Cardinality(F) \in Nat
           /\ Cardinality(Callers) \in Nat \ {0}
           /\ Cardinality(F) <= Cardinality(Callers)
           /\ \A p \in Providers : Cap(p) \in Nat
<1>1. IsFiniteSet(F) /\ Cardinality(F) <= Cardinality(Callers)
  BY CallersAssumption, FS_Subset
<1>2. Cardinality(Callers) \in Nat /\ Cardinality(F) \in Nat
  BY <1>1, CallersAssumption, FS_CardinalityType
<1>3. Cardinality(Callers) # 0
  BY CallersAssumption, FS_EmptySet
<1>4. /\ Cardinality(Callers) * Worst \in Nat
      /\ Est \in Nat /\ Est <= Cardinality(Callers) * Worst
  <2>1. /\ Cardinality(Callers) * Worst = (Cardinality(Callers) - 1) * Worst + Worst
        /\ (Cardinality(Callers) - 1) * Worst \in Nat
    <3>1. Cardinality(Callers) - 1 \in Nat
      BY <1>2, <1>3
    <3> QED
      BY <1>2, <3>1, WorstAssumption
  <2> QED
    BY <2>1, WorstAssumption, EstAssumption
<1>5. \A p \in Providers : Limits[p].tpm \in Nat
  BY LimitsAssumption DEF LimitSets
<1> QED
  BY <1>1, <1>2, <1>3, <1>4, <1>5 DEF Cap

(* A provider that is usable has room for the worst of all callers.        *)
LEMMA UsableHasRoom ==
    ASSUME NEW p \in Providers, NEW t \in Nat,
           NEW rs \in RateStates, Usable(rs, t, Limits[p], Est)
    PROVE  TokenRoom(rs.tokens_minute, t, Cardinality(Callers), Cap(p))
<1> DEFINE q == rs.tokens_minute
           N == Cardinality(Callers)
<1>1. q \in Bookings
  BY GcTokens
<1>2. PICK f : SumsOf(f, q)
  BY <1>1, SumsExist
<1>3. MinuteTokens(rs) = f[Len(q)]
  BY <1>1, <1>2, MinuteTokensSum
<1>4. f[Len(q)] + Est <= Limits[p].tpm
  BY <1>3 DEF Usable
<1>5. N \in Nat \ {0} /\ Limits[p].tpm \in Nat
  BY CallersCount, LimitsAssumption DEF LimitSets
<1> HIDE DEF q, N
<1>6. Len(q) \in Nat
  BY <1>1, BookingType
<1>7. f[Len(q)] \in Nat /\ f[0] = 0
  BY <1>2, <1>6 DEF SumsOf
<1>8. N * Worst \in Nat
  BY <1>5, WorstAssumption
<1>9. f[Len(q)] - f[0] + N * Worst <= Limits[p].tpm + N * Worst - Est
  <2> DEFINE a == N * Worst
  <2>1. a \in Nat
    BY <1>8
  <2> HIDE DEF a
  <2>2. f[Len(q)] - f[0] + a <= Limits[p].tpm + a - Est
    BY <1>4, <1>5, <1>7, <2>1, EstAssumption
  <2> QED
    BY <2>2 DEF a
<1>10. 0 \in 0 .. Len(q) /\ \A i \in 1 .. 0 : q[i].at < t - Window
  BY <1>6
<1> QED
  BY <1>2, <1>9, <1>10 DEF TokenRoom, Cap, N, q

(* Every step keeps the room of every provider.                            *)
LEMMA TokenStep ==
    ASSUME TypeOK, TokenInv, [Next]_vars
    PROVE  TokenInv'
<1>a. /\ now \in Nat /\ state \in [Providers -> RateStates]
      /\ calling \in [Callers -> Providers \cup {Idle}] /\ Idle \notin Providers
      /\ \A c \in Callers : leg[c] \in Awaited => calling[c] \in Providers
  BY IdleAssumption DEF TypeOK, Awaited
<1>b. \A p \in Providers :
        /\ state[p].tokens_minute \in Bookings
        /\ Cardinality(Awaiting(p)) \in Nat /\ IsFiniteSet(Awaiting(p)) /\ Cap(p) \in Nat
        /\ TokenRoom(state[p].tokens_minute, now, Cardinality(Awaiting(p)), Cap(p))
  <2>1. \A p \in Providers : Awaiting(p) \in SUBSET Callers
    BY DEF Awaiting
  <2> QED
    BY <1>a, <2>1, CallersCount, GcTokens DEF TokenInv
(* A provider whose deque stays or is swept, with the same calls in flight.*)
<1>c. ASSUME NEW p \in Providers, now' = now, Awaiting(p)' = Awaiting(p),
             \/ state'[p].tokens_minute = state[p].tokens_minute
             \/ state'[p] = Gc(state[p], now)
      PROVE  TokenRoom(state'[p].tokens_minute, now', Cardinality(Awaiting(p)'), Cap(p))
  BY <1>a, <1>b, <1>c, GcKeepsRoom
<1>d. ASSUME \A p \in Providers :
               TokenRoom(state'[p].tokens_minute, now', Cardinality(Awaiting(p)'), Cap(p))
      PROVE  TokenInv'
  BY <1>d DEF TokenInv, TokenRoom, Cap
<1>e. ASSUME NEW ps, NEW p \in Providers
      PROVE  Swept(ps)[p] = state[p] \/ Swept(ps)[p] = Gc(state[p], now)
  BY <1>a DEF Swept
<1>1. ASSUME NEW c \in Callers, NEW i \in 1 .. Len(Order), Dispatch(c, i)
      PROVE  TokenInv'
  <2>1. PICK name \in Providers : name = Order[i]
    BY OrderAssumption, ElementOfSeq
  <2> DEFINE gs == Gc(state[name], now)
             N == Cardinality(Callers)
  <2>2. name \in Examined(c, i)
    <3>1. Len(Order) \in Nat
      BY OrderAssumption, LenProperties
    <3> QED
      BY <1>1, <2>1, <3>1 DEF Dispatch, Picks, Examined
  <2>3. /\ state'[name] = Record(gs, now, 0)
        /\ \A p \in Providers \ {name} : state'[p] = Swept(Examined(c, i))[p]
        /\ now' = now /\ calling[c] = Idle /\ calling' = [calling EXCEPT ![c] = name]
    BY <1>1, <1>a, <2>1, <2>2 DEF Dispatch, Swept
  <2>4. gs \in RateStates /\ Usable(gs, now, Limits[name], Est)
    BY <1>1, <1>a, <2>1, GcProperties DEF Dispatch, Picks, IsUsable, CanUse
  <2>5. \A p \in Providers \ {name} : Awaiting(p)' = Awaiting(p)
    BY <1>a, <2>3 DEF Awaiting
  <2>6. TokenRoom(state'[name].tokens_minute, now', Cardinality(Awaiting(name)'), Cap(name))
    <3> DEFINE F == Awaiting(name)'
               q == gs.tokens_minute
    <3>1. F \in SUBSET Callers
      BY DEF Awaiting
    <3>2. Cardinality(F) \in Nat /\ N \in Nat /\ Cardinality(F) <= N /\ Cap(name) \in Int
      <4> HIDE DEF F
      <4>1. Cardinality(F) \in Nat /\ N \in Nat /\ Cardinality(F) <= N
        BY <3>1, CallersCount
      <4>2. Cap(name) \in Nat
        BY <3>1, CallersCount
      <4> QED
        BY <4>1, <4>2
    <3>3. q \in Bookings
      BY <2>4, GcTokens
    <3>4. state'[name].tokens_minute = Append(q, [at |-> now, n |-> 0])
      BY <2>3, <2>4 DEF Record, RateStates
    <3> HIDE DEF F, gs
    <3>5. TokenRoom(q, now, N, Cap(name))
      BY <1>a, <2>4, UsableHasRoom
    <3> HIDE DEF q, N
    <3>6. TokenRoom(q, now, Cardinality(F), Cap(name))
      BY <1>a, <3>2, <3>3, <3>5, RoomLater
    <3>7. 0 + Cardinality(F) * Worst <= Cardinality(F) * Worst
      BY <3>2, WorstAssumption
    <3>8. TokenRoom(Append(q, [at |-> now, n |-> 0]), now, Cardinality(F), Cap(name))
      BY <1>a, <3>2, <3>3, <3>6, <3>7, BookingKeepsRoom
    <3> QED
      BY <2>3, <3>4, <3>8 DEF F
  <2>7. ASSUME NEW p \in Providers \ {name}
        PROVE  TokenRoom(state'[p].tokens_minute, now', Cardinality(Awaiting(p)'), Cap(p))
    <3>1. state'[p] = state[p] \/ state'[p] = Gc(state[p], now)
      BY <1>e, <2>3
    <3> QED
      BY <1>c, <2>3, <2>5, <3>1
  <2> QED
    BY <1>d, <2>6, <2>7
<1>2. ASSUME NEW c \in Callers, NEW i \in 1 .. Len(Order), Unaffordable(c, i)
      PROVE  TokenInv'
  BY <1>2, <1>c, <1>d, <1>e DEF Unaffordable, Awaiting
<1>3. ASSUME NEW c \in Callers, GiveUp(c) PROVE TokenInv'
  BY <1>3, <1>c, <1>d, <1>e DEF GiveUp, Awaiting
<1>4. ASSUME NEW c \in Callers, Stumble(c) \/ CallAgain(c) \/ AskRepair(c)
      PROVE  TokenInv'
  BY <1>4, <1>c, <1>d DEF Stumble, CallAgain, AskRepair, Awaiting
<1>f. ASSUME NEW c \in Callers, NEW p \in Providers, calling[c] = p,
             calling' = [calling EXCEPT ![c] = Idle]
      PROVE  /\ Cardinality(Awaiting(p)') = Cardinality(Awaiting(p)) - 1
             /\ Cardinality(Awaiting(p)') \in Nat
             /\ \A r \in Providers \ {p} : Awaiting(r)' = Awaiting(r)
  <2>1. /\ Awaiting(p)' = Awaiting(p) \ {c} /\ c \in Awaiting(p)
        /\ \A r \in Providers \ {p} : Awaiting(r)' = Awaiting(r)
    BY <1>a, <1>f DEF Awaiting
  <2>2. Cardinality(Awaiting(p) \ {c}) = Cardinality(Awaiting(p)) - 1
    BY <1>b, <2>1, FS_RemoveElement
  <2>3. Awaiting(p) \ {c} \in SUBSET Callers
    BY DEF Awaiting
  <2> QED
    BY <2>1, <2>2, <2>3, CallersCount
<1>5. ASSUME NEW c \in Callers, NEW n \in Usage, Answer(c, n)
      PROVE  TokenInv'
  <2>1. PICK p \in Providers : p = calling[c]
    BY <1>5, <1>a DEF Answer, Leaves
  <2>2. /\ state' = [state EXCEPT ![p] = AddTokens(@, now, n)]
        /\ calling' = [calling EXCEPT ![c] = Idle] /\ now' = now
    BY <1>5, <2>1 DEF Answer, Leaves
  <2>3. state'[p].tokens_minute = Append(state[p].tokens_minute, [at |-> now, n |-> n])
    BY <1>a, <2>2 DEF AddTokens, RateStates
  <2>4. n \in Nat /\ n <= Worst
    BY UsageAssumption, WorstAssumption
  <2> DEFINE k == Cardinality(Awaiting(p))
             j == Cardinality(Awaiting(p)')
  <2>5. k \in Nat /\ j \in Nat /\ j = k - 1
    BY <1>b, <1>f, <2>1, <2>2
  <2> HIDE DEF k, j
  <2>6. n + j * Worst <= k * Worst
    <3>1. j * Worst + Worst = k * Worst
      BY <2>5, WorstAssumption
    <3>2. j * Worst \in Nat
      BY <2>5, WorstAssumption
    <3> QED
      BY <2>4, <3>1, <3>2, WorstAssumption
  <2>7. TokenRoom(Append(state[p].tokens_minute, [at |-> now, n |-> n]), now, j, Cap(p))
    BY <1>a, <1>b, <2>4, <2>5, <2>6, BookingKeepsRoom DEF k
  <2>8. ASSUME NEW r \in Providers \ {p}
        PROVE  TokenRoom(state'[r].tokens_minute, now', Cardinality(Awaiting(r)'), Cap(r))
    BY <1>a, <1>c, <1>f, <2>1, <2>2
  <2> QED
    BY <1>d, <2>2, <2>3, <2>7, <2>8 DEF j
<1>g. ASSUME NEW c \in Callers, NEW p \in Providers, calling[c] = p, now' = now,
             calling' = [calling EXCEPT ![c] = Idle],
             \A r \in Providers : state'[r].tokens_minute = state[r].tokens_minute
      PROVE  TokenInv'
  <2>1. TokenRoom(state[p].tokens_minute, now, Cardinality(Awaiting(p)'), Cap(p))
    <3> DEFINE k == Cardinality(Awaiting(p))
               j == Cardinality(Awaiting(p)')
    <3>1. k \in Nat /\ j \in Nat /\ j = k - 1
      BY <1>b, <1>f, <1>g
    <3>2. /\ TokenRoom(state[p].tokens_minute, now, k, Cap(p))
          /\ state[p].tokens_minute \in Bookings
      BY <1>b
    <3> HIDE DEF k, j
    <3>3. j <= k
      BY <3>1
    <3>4. TokenRoom(state[p].tokens_minute, now, j, Cap(p))
      BY <1>a, <1>b, <3>1, <3>2, <3>3, RoomLater
    <3> QED
      BY <3>4 DEF j
  <2>2. ASSUME NEW r \in Providers \ {p}
        PROVE  TokenRoom(state'[r].tokens_minute, now', Cardinality(Awaiting(r)'), Cap(r))
    BY <1>c, <1>f, <1>g
  <2> QED
    BY <1>d, <1>g, <2>1, <2>2
<1>6. ASSUME NEW c \in Callers, NEW secs \in Backoffs, Fail(c, secs)
      PROVE  TokenInv'
  <2>1. PICK p \in Providers : p = calling[c]
    BY <1>6, <1>a DEF Fail, Leaves
  <2>2. calling' = [calling EXCEPT ![c] = Idle] /\ now' = now /\ Bench(p, secs)
    BY <1>6, <2>1 DEF Fail, Leaves
  <2>3. \A rs \in RateStates : MarkUnavailable(rs, now, secs).tokens_minute = rs.tokens_minute
    BY DEF MarkUnavailable, RateStates
  <2>4. \A r \in Providers : state'[r].tokens_minute = state[r].tokens_minute
    BY <1>a, <2>2, <2>3 DEF Bench
  <2> QED
    BY <1>g, <2>1, <2>2, <2>4
<1>7. ASSUME NEW c \in Callers, Unbooked(c) PROVE TokenInv'
  <2>1. PICK p \in Providers : p = calling[c]
    BY <1>7, <1>a DEF Unbooked, Leaves
  <2>2. /\ UNCHANGED <<state, now>>
        /\ calling' = [calling EXCEPT ![c] = Idle]
    BY <1>7 DEF Unbooked, Leaves
  <2> QED
    BY <1>g, <2>1, <2>2
<1>8. CASE AllStatus
  BY <1>8, <1>c, <1>d, <1>e DEF AllStatus, Awaiting
<1>9. CASE Tick
  <2>1. now' = now + 1 /\ UNCHANGED <<state, calling>>
    BY <1>9 DEF Tick
  <2>2. ASSUME NEW p \in Providers
        PROVE  TokenRoom(state[p].tokens_minute, now + 1, Cardinality(Awaiting(p)), Cap(p))
    BY <1>a, <1>b, RoomLater
  <2>3. \A p \in Providers : Awaiting(p)' = Awaiting(p)
    BY <2>1 DEF Awaiting
  <2> QED
    BY <1>d, <2>1, <2>2, <2>3
<1>10. CASE UNCHANGED vars
  <2>1. UNCHANGED <<now, state, calling>>
    BY <1>10 DEF vars
  <2> QED
    BY <2>1, <1>c, <1>d DEF Awaiting
<1> QED
  BY <1>1, <1>2, <1>3, <1>4, <1>5, <1>6, <1>7, <1>8, <1>9, <1>10 DEF Next

(* For any ring, limits and number of callers and whatever the answers     *)
(* report, over or under the estimate: the booked tokens of a minute       *)
(* exceed the cap by no more than the callers' answers can report beyond   *)
(* one estimate.                                                           *)
THEOREM TpmOvershootAlwaysBounded == Spec => []TpmOvershootBounded
<1>1. Init => TokenInv
  <2> SUFFICES ASSUME Init, NEW p \in Providers
               PROVE  TokenRoom(state[p].tokens_minute, now, Cardinality(Awaiting(p)), Cap(p))
    BY DEF TokenInv
  <2>1. state[p].tokens_minute = <<>> /\ Awaiting(p) = {}
    BY IdleAssumption DEF Init, Fresh, Awaiting
  <2>2. Cardinality(Awaiting(p)) = 0 /\ Cap(p) \in Nat
    BY <2>1, FS_EmptySet, CallersCount
  <2> DEFINE f == [i \in 0 .. 0 |-> 0]
  <2>3. SumsOf(f, <<>>) /\ f[0] = 0
    BY DEF SumsOf
  <2> HIDE DEF f
  <2>4. f[Len(<<>>)] - f[0] + 0 * Worst <= Cap(p) /\ 0 \in 0 .. Len(<<>>)
    BY <2>2, <2>3, WorstAssumption
  <2> QED
    BY <2>1, <2>2, <2>3, <2>4 DEF TokenRoom
<1>2. TypeOK /\ TokenInv /\ [Next]_vars => TokenInv'
  BY TokenStep
<1>3. TypeOK /\ TokenInv => TpmOvershootBounded
  <2> SUFFICES ASSUME TypeOK, TokenInv, NEW p \in Providers
               PROVE  MinuteTokens(Gc(state[p], now)) <= Cap(p)
    BY DEF TpmOvershootBounded, Cap
  <2> DEFINE k == Cardinality(Awaiting(p))
             rs == Gc(state[p], now)
  <2>1. now \in Nat /\ state[p] \in RateStates
    BY DEF TypeOK
  <2>2. Awaiting(p) \in SUBSET Callers
    BY DEF Awaiting
  <2>3. k \in Nat /\ Cap(p) \in Nat
    BY <2>2, CallersCount
  <2>4. MinuteTokens(rs) + k * Worst <= Cap(p)
    BY <2>1, <2>3, GcKeepsRoom DEF TokenInv
  <2>5. MinuteTokens(rs) \in Nat
    <3>1. rs \in RateStates
      BY <2>1, GcProperties
    <3>2. rs.tokens_minute \in Bookings
      BY <3>1, GcTokens
    <3>3. PICK f : SumsOf(f, rs.tokens_minute)
      BY <3>2, SumsExist
    <3>4. MinuteTokens(rs) = f[Len(rs.tokens_minute)]
      BY <3>2, <3>3, MinuteTokensSum
    <3>5. Len(rs.tokens_minute) \in Nat
      BY <3>2, BookingType
    <3> QED
      BY <3>3, <3>4, <3>5 DEF SumsOf
  <2>6. k * Worst \in Nat
    BY <2>3, WorstAssumption
  <2> QED
    BY <2>3, <2>4, <2>5, <2>6
<1> QED
  BY <1>1, <1>2, <1>3, TypeCorrect, PTL DEF Spec

=============================================================================
