------------------------- MODULE ChatPipelineProofs -------------------------
(***************************************************************************)
(* The chat route is type correct, its spending stays within the bound     *)
(* that admission on the ledger alone can give, and every provider it      *)
(* called has its ledger row, for any number of requests and providers,    *)
(* any prices and any limit.                                               *)
(***************************************************************************)
EXTENDS ChatPipeline, FiniteSetTheorems, TLAPS

-----------------------------------------------------------------------------
(* Type correctness.  The part of the state a ring walk decides ...        *)
LocalOK ==
    /\ stage \in [Requests -> Stages]
    /\ loop \in [Requests -> Loops]
    /\ cur \in [Requests -> Providers \cup {None}]
    /\ \A r \in Requests : cur[r] # None <=> stage[r] \in Awaiting
    /\ reply \in [Requests -> {0, 200, 400, 402, 502, 503}]
    /\ usable \in [Providers -> BOOLEAN]
    /\ tried \in [Requests -> SUBSET ((0 .. Top) \X Providers)]

(* ... and the part it leaves alone.                                       *)
BookOK ==
    /\ shape \in [Requests -> ShapeSet]
    /\ spent \in Nat
    /\ rows \in [Requests -> [ok: Nat, error: Nat]]
    /\ lost \in [Requests -> BOOLEAN]

(* The two parts are the type invariant.                                   *)
LEMMA TypeParts == TypeOK <=> LocalOK /\ BookOK
  BY DEF TypeOK, LocalOK, BookOK

(* A request's ring is a sequence of providers, whatever tier it is at.    *)
LEMMA RingType ==
  ASSUME NEW s \in ShapeSet, NEW l \in Loops
  PROVE  Ring(s, l) \in Seq(Providers)
  BY RingAssumption DEF Ring, ShapeSet, Loops

(* A call leaves the request awaiting the provider it admitted.            *)
LEMMA CallLocalOK ==
  ASSUME LocalOK, BookOK, NEW r \in Requests, NEW l \in Loops,
         NEW us \in [Providers -> BOOLEAN], NEW sum \in Nat,
         NEW i \in 1 .. Len(Ring(shape[r], l)), Call(r, l, us, sum, i)
  PROVE  /\ LocalOK'
         /\ \E p \in Providers : cur' = [cur EXCEPT ![r] = p] /\ Admits(sum, p)
  <1> DEFINE p == Ring(shape[r], l)[i]
             skipped == {Ring(shape[r], l)[j] :
                            j \in {k \in Pickable(shape[r], l, us) : k < i}}
  <1>1. shape[r] \in ShapeSet
    BY DEF BookOK
  <1>2. Ring(shape[r], l) \in Seq(Providers)
    BY <1>1, RingType
  <1>3. p \in Providers /\ p # None
    BY <1>2, NoneAssumption
  <1>4. skipped \in SUBSET Providers
    BY <1>2 DEF Pickable
  <1>5. Admits(sum, p)
    BY DEF Call, Affordable
  <1>6. /\ loop' = [loop EXCEPT ![r] = [l EXCEPT !.dropped = @ \cup skipped,
                                                 !.refused = @ \/ skipped # {}]]
        /\ stage' = [stage EXCEPT ![r] = IF shape[r].stream THEN "stream" ELSE "first"]
        /\ cur' = [cur EXCEPT ![r] = p]
        /\ reply' = [reply EXCEPT ![r] = IF shape[r].stream THEN 200 ELSE @]
        /\ tried' = [tried EXCEPT ![r] = @ \cup {<<l.tier, p>>}]
        /\ \E still \in BOOLEAN : usable' = [us EXCEPT ![p] = still]
    BY DEF Call
  <1>7. loop' \in [Requests -> Loops]
    <2>1. (l.refused \/ skipped # {}) \in BOOLEAN
      OBVIOUS
    <2>2. [l EXCEPT !.dropped = @ \cup skipped, !.refused = @ \/ skipped # {}] \in Loops
      BY <1>4, <2>1, Zenon DEF Loops
    <2> QED  BY <1>6, <2>2 DEF LocalOK
  <1>8. stage' \in [Requests -> Stages]
    BY <1>6 DEF LocalOK, Stages, Awaiting
  <1>9. cur' \in [Requests -> Providers \cup {None}]
    BY <1>6, <1>3 DEF LocalOK
  <1>10. \A q \in Requests : cur'[q] # None <=> stage'[q] \in Awaiting
    BY <1>6, <1>3 DEF LocalOK, Awaiting
  <1>11. tried' \in [Requests -> SUBSET ((0 .. Top) \X Providers)]
    <2>1. <<l.tier, p>> \in (0 .. Top) \X Providers
      BY <1>3 DEF Loops
    <2> QED  BY <1>6, <2>1 DEF LocalOK
  <1>12. reply' \in [Requests -> {0, 200, 400, 402, 502, 503}]
    BY <1>6 DEF LocalOK
  <1>13. usable' \in [Providers -> BOOLEAN]
    BY <1>6
  <1> QED
    BY <1>3, <1>5, <1>6, <1>7, <1>8, <1>9, <1>10, <1>11, <1>12, <1>13 DEF LocalOK

(* A request that leaves the ring awaits nobody.                           *)
LEMMA ExhaustedLocalOK ==
  ASSUME LocalOK, NEW r \in Requests, NEW l \in Loops,
         NEW us \in [Providers -> BOOLEAN], NEW sum \in Nat,
         Exhausted(r, l, us, sum)
  PROVE  LocalOK' /\ cur' = [cur EXCEPT ![r] = None]
  <1> DEFINE refused == l.refused \/ Pickable(shape[r], l, us) # {}
  <1>1. /\ loop' = [loop EXCEPT ![r] = [l EXCEPT !.refused = refused]]
        /\ stage' = [stage EXCEPT ![r] = "done"]
        /\ cur' = [cur EXCEPT ![r] = None]
        /\ reply' = [reply EXCEPT ![r] = IF refused /\ ~l.errored THEN 402 ELSE 503]
        /\ usable' = us
        /\ tried' = tried
    BY DEF Exhausted
  <1>2. [l EXCEPT !.refused = refused] \in Loops
    <2>1. refused \in BOOLEAN
      OBVIOUS
    <2> QED  BY <2>1, Zenon DEF Loops
  <1>3. loop' \in [Requests -> Loops]
    BY <1>1, <1>2 DEF LocalOK
  <1>4. \A q \in Requests : cur'[q] # None <=> stage'[q] \in Awaiting
    BY <1>1 DEF LocalOK, Awaiting
  <1>5. stage' \in [Requests -> Stages] /\ cur' \in [Requests -> Providers \cup {None}]
    BY <1>1 DEF LocalOK, Stages
  <1>6. reply' \in [Requests -> {0, 200, 400, 402, 502, 503}]
    BY <1>1 DEF LocalOK
  <1> QED
    BY <1>1, <1>3, <1>4, <1>5, <1>6 DEF LocalOK

(* Likewise one that is answered, or refused, without another walk.        *)
LEMMA FinishLocalOK ==
  ASSUME LocalOK, NEW r \in Requests, NEW status \in {0, 200, 400, 402, 502, 503},
         Finish(r, status), loop' \in [Requests -> Loops]
  PROVE  LocalOK' /\ cur' = [cur EXCEPT ![r] = None]
  <1>1. \A q \in Requests : cur'[q] # None <=> stage'[q] \in Awaiting
    BY DEF LocalOK, Finish, Awaiting
  <1>2. stage' \in [Requests -> Stages] /\ cur' \in [Requests -> Providers \cup {None}]
    BY DEF LocalOK, Finish, Stages
  <1> QED
    BY <1>1, <1>2 DEF LocalOK, Finish

(* What a step of a request does to the money at stake: it lands the call  *)
(* it awaited, if any, at a cost below the projection, and may launch      *)
(* another one that the ledger has room for.                               *)
Lands(r) == cur' = [cur EXCEPT ![r] = None]
Launches(r) == \E p \in Providers : cur' = [cur EXCEPT ![r] = p] /\ Admits(spent', p)
Charges(r) ==
    \E c \in Nat :
        /\ spent' = spent + c
        /\ c > 0 => cur[r] # None /\ c <= Worst(cur[r])

Moves(r) ==
    /\ Charges(r)
    /\ Lands(r) \/ Launches(r)

Holds == spent' = spent /\ cur' = cur
Renews == spent' = 0 /\ cur' = cur

(* A walk, whatever its outcome, is a move of the request.                 *)
LEMMA WalkMoves ==
  ASSUME LocalOK, BookOK, NEW r \in Requests, NEW l \in Loops,
         NEW us \in [Providers -> BOOLEAN], spent' \in Nat,
         Walk(r, l, us, spent')
  PROVE  LocalOK' /\ (Lands(r) \/ Launches(r))
  <1>1. CASE \E i \in 1 .. Len(Ring(shape[r], l)) : Call(r, l, us, spent', i)
    BY <1>1, CallLocalOK DEF Launches
  <1>2. CASE Exhausted(r, l, us, spent')
    BY <1>2, ExhaustedLocalOK DEF Lands
  <1> QED
    BY <1>1, <1>2 DEF Walk

(* Nothing is charged when the ledger is left alone.                       *)
LEMMA NoCharge ==
  ASSUME BookOK, NEW r \in Requests, spent' = spent
  PROVE  Charges(r)
  <1>1. spent' = spent + 0 /\ 0 \in Nat /\ ~(0 > 0)
    BY DEF BookOK
  <1> QED
    BY <1>1 DEF Charges

(* An answer worth c is charged to the call it was awaited from.           *)
LEMMA ChargeOfAnswer ==
  ASSUME TypeOK, NEW r \in Requests, cur[r] # None, NEW c \in Costs(r), Book(r, c),
         lost' \in [Requests -> BOOLEAN]
  PROVE  BookOK' /\ Charges(r) /\ spent' = spent + c /\ c \in Nat
  <1>1. cur[r] \in Providers
    BY DEF TypeOK
  <1>2. Worst(cur[r]) \in Nat
    BY <1>1, MoneyAssumption DEF Worst
  <1>3. c \in Nat /\ c <= Worst(cur[r])
    BY <1>2 DEF Costs
  <1>4. spent' = spent + c /\ spent' \in Nat
    BY <1>3 DEF Book, TypeOK
  <1>5. Charges(r)
    BY <1>3, <1>4 DEF Charges
  <1>6. rows' \in [Requests -> [ok: Nat, error: Nat]]
    BY DEF Book, TypeOK
  <1> QED
    BY <1>3, <1>4, <1>5, <1>6 DEF Book, TypeOK, BookOK

(* Keeping an answer books it and lets the request go; escalating books it *)
(* and walks the next tier.                                                *)
LEMMA AnswerMoves ==
  ASSUME TypeOK, NEW r \in Requests, cur[r] # None, NEW c \in Costs(r),
         Keep(r, c) \/ Escalate(r, c), lost' \in [Requests -> BOOLEAN]
  PROVE  TypeOK' /\ Moves(r)
  <1>1. LocalOK /\ BookOK
    BY TypeParts
  <1>2. CASE Keep(r, c)
    <2>1. Book(r, c) /\ Finish(r, 200) /\ loop' = loop
      BY <1>2 DEF Keep
    <2>2. LocalOK' /\ Lands(r)
      BY <2>1, <1>1, FinishLocalOK DEF LocalOK, Lands
    <2>3. BookOK' /\ Charges(r)
      BY <2>1, ChargeOfAnswer DEF BookOK
    <2> QED  BY <2>2, <2>3, TypeParts, PTL DEF Moves
  <1>3. CASE Escalate(r, c)
    <2> DEFINE l == [loop[r] EXCEPT !.tier = @ + 1, !.esc = @ + 1, !.dropped = {}]
    <2>1. Book(r, c) /\ Walk(r, l, usable, spent + c) /\ ShouldEscalate(shape[r], loop[r])
      BY <1>3 DEF Escalate
    <2>2. BookOK' /\ Charges(r) /\ spent' = spent + c /\ spent' \in Nat
      BY <2>1, <1>1, ChargeOfAnswer DEF BookOK
    <2>3. l \in Loops
      <3>1. loop[r] \in Loops
        BY <1>1 DEF LocalOK
      <3>2. loop[r].tier + 1 \in 0 .. Top /\ loop[r].esc + 1 \in Nat
        BY <2>1, <3>1, PolicyAssumption DEF Loops, ShouldEscalate
      <3> QED  BY <3>1, <3>2 DEF Loops
    <2>4. usable \in [Providers -> BOOLEAN]
      BY <1>1 DEF LocalOK
    <2>5. Walk(r, l, usable, spent')
      BY <2>1, <2>2
    <2>6. LocalOK' /\ (Lands(r) \/ Launches(r))
      BY <1>1, <2>2, <2>3, <2>4, <2>5, WalkMoves
    <2> QED  BY <2>2, <2>6, TypeParts, PTL DEF Moves
  <1> QED
    BY <1>2, <1>3

(* A step that books nothing: it leaves the walk's outcome to be examined. *)
LEMMA FreeMoves ==
  ASSUME TypeOK, NEW r \in Requests, LocalOK', Lands(r) \/ Launches(r),
         UNCHANGED <<shape, spent>>,
         rows' \in [Requests -> [ok: Nat, error: Nat]], lost' \in [Requests -> BOOLEAN]
  PROVE  TypeOK' /\ Moves(r)
  <1>1. BookOK /\ BookOK'
    BY TypeParts DEF BookOK
  <1>2. Charges(r)
    BY <1>1, NoCharge
  <1> QED
    BY <1>1, <1>2, TypeParts, PTL DEF Moves

(* Arriving changes no money and no call in flight.                        *)
LEMMA ArriveHolds ==
  ASSUME TypeOK, NEW r \in Requests, Arrive(r)
  PROVE  TypeOK' /\ Holds
  BY DEF TypeOK, Arrive, Stages, Awaiting, Holds

(* A cache hit ends the request.                                           *)
LEMMA CacheHitMoves ==
  ASSUME TypeOK, NEW r \in Requests, CacheHit(r)
  PROVE  TypeOK' /\ Moves(r)
  <1>1. LocalOK /\ BookOK
    BY TypeParts
  <1>2. LocalOK' /\ Lands(r)
    BY <1>1, FinishLocalOK DEF CacheHit, LocalOK, Lands
  <1>3. rows' \in [Requests -> [ok: Nat, error: Nat]] /\ lost' \in [Requests -> BOOLEAN]
    BY <1>1 DEF CacheHit, BookOK
  <1> QED
    BY <1>2, <1>3, FreeMoves DEF CacheHit

(* A miss waits for the classifier, ends with 400 or walks the ring.       *)
LEMMA CacheMissMoves ==
  ASSUME TypeOK, NEW r \in Requests, CacheMiss(r)
  PROVE  TypeOK' /\ (Moves(r) \/ Holds)
  <1>1. LocalOK /\ BookOK
    BY TypeParts
  <1>2. UNCHANGED <<shape, spent, rows, lost>>
    BY DEF CacheMiss
  <1>3. /\ rows' \in [Requests -> [ok: Nat, error: Nat]] /\ lost' \in [Requests -> BOOLEAN]
        /\ loop[r] \in Loops /\ usable \in [Providers -> BOOLEAN]
        /\ spent' = spent /\ spent' \in Nat
    BY <1>1, <1>2 DEF BookOK, LocalOK
  <1>4. CASE stage' = [stage EXCEPT ![r] = "classify"] /\ UNCHANGED <<loop, cur, reply, usable, tried>>
    <2>1. stage[r] = "lookup"
      BY DEF CacheMiss
    <2>2. TypeOK'
      BY <1>2, <1>4, <2>1 DEF TypeOK, Stages, Awaiting
    <2> QED  BY <1>2, <1>4, <2>2 DEF Holds
  <1>5. CASE Finish(r, 400) /\ UNCHANGED loop
    <2>1. LocalOK' /\ Lands(r)
      BY <1>1, <1>5, FinishLocalOK DEF LocalOK, Lands
    <2> QED  BY <1>2, <1>3, <2>1, FreeMoves
  <1>6. CASE Walk(r, loop[r], usable, spent)
    <2>1. LocalOK' /\ (Lands(r) \/ Launches(r))
      BY <1>1, <1>3, <1>6, WalkMoves
    <2> QED  BY <1>2, <1>3, <2>1, FreeMoves
  <1> QED
    BY <1>4, <1>5, <1>6 DEF CacheMiss

(* The tier is decided and its ring walked; nothing is booked.             *)
LEMMA ClassifyMoves ==
  ASSUME TypeOK, NEW r \in Requests, NEW t \in 1 .. Top, Classify(r, t)
  PROVE  TypeOK' /\ Moves(r)
  <1> DEFINE l == [loop[r] EXCEPT !.tier = TierFor(shape[r], t)]
  <1>1. LocalOK /\ BookOK
    BY TypeParts
  <1>2. TierFor(shape[r], t) \in 0 .. Top
    BY <1>1, PolicyAssumption DEF TierFor, BookOK, ShapeSet
  <1>3. l \in Loops /\ usable \in [Providers -> BOOLEAN]
    <2>1. loop[r] \in Loops /\ usable \in [Providers -> BOOLEAN]
      BY <1>1 DEF LocalOK
    <2> QED  BY <1>2, <2>1 DEF Loops
  <1>4. /\ UNCHANGED <<shape, spent, rows>> /\ lost' \in [Requests -> BOOLEAN]
        /\ spent' = spent /\ spent' \in Nat
        /\ rows' \in [Requests -> [ok: Nat, error: Nat]]
    BY <1>1 DEF Classify, BookOK
  <1>5. Walk(r, l, usable, spent')
    BY <1>4 DEF Classify
  <1>6. LocalOK' /\ (Lands(r) \/ Launches(r))
    BY <1>1, <1>3, <1>4, <1>5, WalkMoves
  <1> QED
    BY <1>4, <1>6, FreeMoves

(* An answer is booked once, whether it is kept or escalated.              *)
LEMMA AnsweredMoves ==
  ASSUME TypeOK, NEW r \in Requests, cur[r] # None, NEW c \in Costs(r), Answered(r, c)
  PROVE  TypeOK' /\ Moves(r)
  BY AnswerMoves DEF Answered, TypeOK

(* An invalid answer keeps the call in flight and books nothing.           *)
LEMMA InvalidHolds ==
  ASSUME TypeOK, NEW r \in Requests, NEW c \in Costs(r), Invalid(r, c)
  PROVE  TypeOK' /\ Holds
  <1>1. lost' \in [Requests -> BOOLEAN]
    BY DEF Invalid, TypeOK
  <1> QED
    BY <1>1 DEF Invalid, TypeOK, Stages, Awaiting, Holds

(* An insane schema lands the request at 400 and books nothing.            *)
LEMMA RejectedMoves ==
  ASSUME TypeOK, NEW r \in Requests, cur[r] # None, NEW c \in Costs(r), Rejected(r, c)
  PROVE  TypeOK' /\ Moves(r)
  <1>1. LocalOK /\ BookOK
    BY TypeParts
  <1>2. /\ Finish(r, 400) /\ lost' = [lost EXCEPT ![r] = @ \/ c > 0]
        /\ UNCHANGED <<shape, loop, spent, rows>>
    BY DEF Rejected
  <1>3. LocalOK' /\ Lands(r)
    BY <1>1, <1>2, FinishLocalOK DEF LocalOK, Lands
  <1>4. lost' \in [Requests -> BOOLEAN] /\ rows' \in [Requests -> [ok: Nat, error: Nat]]
    BY <1>1, <1>2 DEF BookOK
  <1> QED  BY <1>2, <1>3, <1>4, FreeMoves

(* A repaired answer is booked like a first one.                           *)
LEMMA RepairedMoves ==
  ASSUME TypeOK, NEW r \in Requests, cur[r] # None, NEW c \in Costs(r), Repaired(r, c)
  PROVE  TypeOK' /\ Moves(r)
  BY AnswerMoves DEF Repaired, TypeOK

(* A failed repair is booked only when the request escalates.              *)
LEMMA RepairFailedMoves ==
  ASSUME TypeOK, NEW r \in Requests, cur[r] # None, NEW c \in Costs(r), RepairFailed(r, c)
  PROVE  TypeOK' /\ Moves(r)
  <1>1. LocalOK /\ BookOK
    BY TypeParts
  <1>2. CASE Escalate(r, c) /\ UNCHANGED lost
    BY <1>2, AnswerMoves DEF TypeOK
  <1>3. CASE /\ Finish(r, 503) /\ lost' = [lost EXCEPT ![r] = @ \/ c > 0]
             /\ UNCHANGED <<shape, loop, spent, rows>>
    <2>1. LocalOK' /\ Lands(r)
      BY <1>1, <1>3, FinishLocalOK DEF LocalOK, Lands
    <2>2. lost' \in [Requests -> BOOLEAN] /\ rows' \in [Requests -> [ok: Nat, error: Nat]]
      BY <1>1, <1>3 DEF BookOK
    <2> QED  BY <1>3, <2>1, <2>2, FreeMoves
  <1> QED
    BY <1>2, <1>3 DEF RepairFailed

(* The in-place retry keeps the call in flight.                            *)
LEMMA TransientErrorHolds ==
  ASSUME TypeOK, NEW r \in Requests, TransientError(r)
  PROVE  TypeOK' /\ Holds
  BY DEF TransientError, TypeOK, Stages, Awaiting, Holds

(* A failure ends the request or walks on; it costs nothing.               *)
LEMMA ProviderFailsMoves ==
  ASSUME TypeOK, NEW r \in Requests, cur[r] # None,
         NEW benches \in BOOLEAN, NEW fatal \in BOOLEAN, ProviderFails(r, benches, fatal)
  PROVE  TypeOK' /\ Moves(r)
  <1> DEFINE us == [usable EXCEPT ![cur[r]] = @ /\ ~benches]
             l == [loop[r] EXCEPT !.errored = TRUE, !.dropped = @ \cup {cur[r]}]
  <1>1. LocalOK /\ BookOK
    BY TypeParts
  <1>2. us \in [Providers -> BOOLEAN] /\ l \in Loops
    <2>1. loop[r] \in Loops /\ cur[r] \in Providers
      BY <1>1 DEF LocalOK
    <2>2. l \in Loops
      BY <2>1 DEF Loops
    <2>3. us \in [Providers -> BOOLEAN]
      BY <1>1, <2>1 DEF LocalOK
    <2> QED  BY <2>2, <2>3
  <1>3. lost' \in [Requests -> BOOLEAN]
    <2>1. PICK paid \in {FALSE, shape[r].schema # "none"} :
            lost' = [lost EXCEPT ![r] = @ \/ paid]
      BY DEF ProviderFails
    <2> QED  BY <1>1, <2>1 DEF BookOK
  <1>4. /\ UNCHANGED <<shape, spent>> /\ lost' \in [Requests -> BOOLEAN]
        /\ spent' = spent /\ spent' \in Nat
        /\ rows' \in [Requests -> [ok: Nat, error: Nat]]
    BY <1>1, <1>3 DEF ProviderFails, BookOK
  <1>5. CASE /\ stage' = [stage EXCEPT ![r] = "done"]
             /\ cur' = [cur EXCEPT ![r] = None]
             /\ reply' = [reply EXCEPT ![r] = 502]
             /\ usable' = us
             /\ loop' = [loop EXCEPT ![r].errored = TRUE]
             /\ UNCHANGED tried
    <2>1. loop' \in [Requests -> Loops]
      <3>1. loop[r] \in Loops /\ loop \in [Requests -> Loops]
        BY <1>1 DEF LocalOK
      <3>2. [loop[r] EXCEPT !.errored = TRUE] \in Loops
        BY <3>1 DEF Loops
      <3>3. loop' = [loop EXCEPT ![r] = [loop[r] EXCEPT !.errored = TRUE]]
        BY <1>5
      <3> QED  BY <3>1, <3>2, <3>3
    <2>2. \A q \in Requests : cur'[q] # None <=> stage'[q] \in Awaiting
      BY <1>1, <1>5 DEF LocalOK, Awaiting
    <2>3. LocalOK' /\ Lands(r)
      BY <1>1, <1>2, <1>5, <2>1, <2>2 DEF LocalOK, Stages, Lands
    <2> QED  BY <1>4, <2>3, FreeMoves
  <1>6. CASE Walk(r, l, us, spent)
    <2>1. LocalOK' /\ (Lands(r) \/ Launches(r))
      BY <1>1, <1>2, <1>4, <1>6, WalkMoves
    <2> QED  BY <1>4, <2>1, FreeMoves
  <1> QED
    BY <1>5, <1>6 DEF ProviderFails

(* The end of a stream books nothing, however it ends.                     *)
LEMMA StreamEndsMoves ==
  ASSUME TypeOK, NEW r \in Requests, NEW c \in Costs(r),
         NEW how \in {"complete", "broken", "abandoned"}, StreamEnds(r, c, how)
  PROVE  TypeOK' /\ Moves(r)
  <1>1. LocalOK /\ BookOK
    BY TypeParts
  <1>2. rows' \in [Requests -> [ok: Nat, error: Nat]]
    BY <1>1 DEF StreamEnds, BookOK
  <1>3. lost' \in [Requests -> BOOLEAN]
    BY <1>1 DEF StreamEnds, BookOK
  <1>4. \A q \in Requests : cur'[q] # None <=> stage'[q] \in Awaiting
    BY <1>1 DEF StreamEnds, LocalOK, Awaiting
  <1>5. LocalOK' /\ Lands(r)
    BY <1>1, <1>4 DEF StreamEnds, LocalOK, Stages, Lands
  <1> QED
    BY <1>2, <1>3, <1>5, FreeMoves DEF StreamEnds

-----------------------------------------------------------------------------
(* Every step is a move of one request, holds the money at stake, or opens *)
(* a new budget period.                                                    *)
LEMMA ResumeMoves ==
  ASSUME TypeOK, NEW r \in Requests, Resume(r)
  PROVE  TypeOK' /\ (Moves(r) \/ Holds)
  <1>1. CASE CacheHit(r)
    BY <1>1, CacheHitMoves
  <1>2. CASE CacheMiss(r)
    BY <1>2, CacheMissMoves
  <1>3. CASE \E t \in 1 .. Top : Classify(r, t)
    BY <1>3, ClassifyMoves
  <1>4. CASE stage[r] \in Awaiting /\ \E c \in Costs(r) : Answered(r, c)
    BY <1>4, AnsweredMoves DEF TypeOK
  <1>5. CASE stage[r] \in Awaiting /\ \E c \in Costs(r) : Invalid(r, c)
    BY <1>5, InvalidHolds
  <1>6. CASE stage[r] \in Awaiting /\ \E c \in Costs(r) : Rejected(r, c)
    BY <1>6, RejectedMoves DEF TypeOK
  <1>7. CASE stage[r] \in Awaiting /\ \E c \in Costs(r) : Repaired(r, c)
    BY <1>7, RepairedMoves DEF TypeOK
  <1>8. CASE stage[r] \in Awaiting /\ \E c \in Costs(r) : RepairFailed(r, c)
    BY <1>8, RepairFailedMoves DEF TypeOK
  <1>9. CASE \E c \in Costs(r), how \in {"complete", "broken", "abandoned"} :
                StreamEnds(r, c, how)
    BY <1>9, StreamEndsMoves
  <1>10. CASE TransientError(r)
    BY <1>10, TransientErrorHolds
  <1>11. CASE stage[r] \in Awaiting /\ \E benches, fatal \in BOOLEAN : ProviderFails(r, benches, fatal)
    BY <1>11, ProviderFailsMoves DEF TypeOK
  <1> QED
    BY <1>1, <1>2, <1>3, <1>4, <1>5, <1>6, <1>7, <1>8, <1>9, <1>10, <1>11 DEF Resume

(* Every step holds, renews the period, or moves one request.              *)
LEMMA StepMoves ==
  ASSUME TypeOK, [Next]_vars
  PROVE  TypeOK' /\ (Holds \/ Renews \/ \E r \in Requests : Moves(r))
  <1>1. ASSUME NEW r \in Requests, Arrive(r) \/ Resume(r)
        PROVE  TypeOK' /\ (Moves(r) \/ Holds)
    BY <1>1, ArriveHolds, ResumeMoves
  <1>2. ASSUME NEW p \in Providers, Shift(p)
        PROVE  TypeOK' /\ Holds
    BY <1>2 DEF Shift, TypeOK, Holds
  <1>3. ASSUME Rollover
        PROVE  TypeOK' /\ Renews
    BY <1>3 DEF Rollover, TypeOK, Renews
  <1>4. ASSUME UNCHANGED vars
        PROVE  TypeOK' /\ Holds
    BY <1>4 DEF vars, TypeOK, Holds
  <1> QED
    BY <1>1, <1>2, <1>3, <1>4 DEF Next

(* Requests arrive with their shapes and nothing else is set.              *)
LEMMA InitTyped == Init => TypeOK
  <1> SUFFICES ASSUME Init PROVE TypeOK
    OBVIOUS
  <1>1. shape \in [Requests -> ShapeSet]
    BY ShapesAssumption DEF Init
  <1>2. Entry \in Loops
    BY PolicyAssumption DEF Entry, Loops
  <1> QED
    BY <1>1, <1>2 DEF Init, TypeOK, Stages, Awaiting

(* The route is type correct whatever requests arrive, and a request is    *)
(* tied to a provider exactly while it awaits one.                         *)
THEOREM TypeCorrect == Spec => []TypeOK
  <1>1. TypeOK /\ [Next]_vars => TypeOK'
    BY StepMoves
  <1> QED
    BY <1>1, InitTyped, PTL DEF Spec

-----------------------------------------------------------------------------
(* The bound on spending.  Room(j) is what j unreserved worst cases leave. *)
N == Cardinality(Requests)
InFlight == {r \in Requests : cur[r] # None}
K == Cardinality(InFlight)
Margin == CostCap + Overrun
Room(j) == Limit + Overrun + Margin * j

(* The strengthening: either everything in flight but one call is already  *)
(* paid for by the slack, or some call in flight was admitted with the     *)
(* ledger as it then was, and the rest of the slack covers what landed.    *)
Slack == spent <= Room(N - K - 1)
Vouched == \E r \in InFlight : spent + Worst(cur[r]) <= Room(N - K)
Possible == \A r \in InFlight : Projection[cur[r]] <= Limit
SpendInv == TypeOK /\ Possible /\ (Slack \/ Vouched)

(* Without anything in flight the room is the limit and one error.         *)
LEMMA RoomBase == Margin \in Nat /\ Room(0) = Limit + Overrun /\ Room(0) \in Nat
  <1>1. Margin \in Nat /\ Margin * 0 = 0
    BY MoneyAssumption DEF Margin
  <1> QED
    BY <1>1, MoneyAssumption DEF Room

(* One more call in flight is one more margin of room.                     *)
LEMMA RoomStep ==
  ASSUME NEW j \in Int
  PROVE  Room(j) \in Int /\ Room(j + 1) = Room(j) + Margin
  BY MoneyAssumption DEF Room, Margin

(* More calls in flight never leave less room.                             *)
LEMMA RoomGrows ==
  ASSUME NEW i \in Int, NEW j \in Int, i <= j
  PROVE  Room(i) <= Room(j)
  <1>1. Margin \in Nat
    BY MoneyAssumption DEF Margin
  <1>2. Margin * (j - i) >= 0 /\ Margin * j = Margin * i + Margin * (j - i)
    BY <1>1
  <1> QED
    BY <1>1, <1>2, MoneyAssumption DEF Room

(* How many calls are in flight, and what each may cost.                   *)
LEMMA FlightSize ==
  ASSUME TypeOK
  PROVE  /\ IsFiniteSet(InFlight) /\ K \in Nat /\ N \in Nat \ {0} /\ K <= N
         /\ \A r \in InFlight : Worst(cur[r]) \in 0 .. Margin
         /\ \A r \in Requests : r \notin InFlight => K < N
  <1>1. InFlight \subseteq Requests /\ IsFiniteSet(Requests) /\ N \in Nat
    BY RequestsAssumption, FS_CardinalityType DEF InFlight, N
  <1>2. IsFiniteSet(InFlight) /\ K \in Nat /\ K <= N
    BY <1>1, FS_Subset, FS_CardinalityType DEF K, N
  <1>3. N # 0
    BY <1>1, RequestsAssumption, FS_EmptySet DEF N
  <1>4. \A r \in InFlight : Worst(cur[r]) \in 0 .. Margin
    BY MoneyAssumption DEF TypeOK, InFlight, Worst, Margin
  <1>5. ASSUME NEW r \in Requests, r \notin InFlight
        PROVE  K < N
    BY <1>1, <1>2, <1>5, FS_Subset DEF K, N
  <1> QED
    BY <1>1, <1>2, <1>3, <1>4, <1>5

(* Money and calls unchanged: nothing to show.                             *)
LEMMA HoldsKeeps ==
  ASSUME SpendInv, Holds
  PROVE  (Possible /\ (Slack \/ Vouched))'
  BY DEF SpendInv, Holds, Possible, Slack, Vouched, K, InFlight, Room

(* A new period: the ledger sum is 0, so either one request awaits nothing *)
(* and the slack covers the others, or any call in flight vouches.         *)
LEMMA RenewsKeeps ==
  ASSUME SpendInv, Renews
  PROVE  (Possible /\ (Slack \/ Vouched))'
  <1>1. InFlight' = InFlight /\ K' = K /\ cur' = cur /\ spent' = 0
    BY DEF Renews, InFlight, K
  <1>2. /\ K \in Nat /\ N \in Nat \ {0} /\ K <= N /\ IsFiniteSet(InFlight)
    BY FlightSize DEF SpendInv
  <1>3. Possible'
    BY <1>1 DEF SpendInv, Possible
  <1>4. CASE K < N
    <2>1. Room(0) <= Room(N - K - 1)
      BY <1>2, <1>4, RoomGrows
    <2>2. Room(0) >= 0
      BY RoomBase
    <2>3. Room(N - K - 1) \in Int /\ Room(0) \in Int
      BY <1>2, RoomStep
    <2>4. 0 <= Room(N - K - 1)
      BY <2>1, <2>2, <2>3
    <2>5. Slack'
      BY <1>1, <2>4 DEF Slack, Room
    <2> QED  BY <1>3, <2>5
  <1>5. CASE K = N
    <2>1. InFlight # {}
      BY <1>2, <1>5, FS_EmptySet DEF K
    <2>2. PICK r \in InFlight : TRUE
      BY <2>1
    <2>3. Projection[cur[r]] <= Limit /\ Projection[cur[r]] \in Nat
      <3>1. Projection[cur[r]] <= Limit /\ cur[r] \in Providers
        BY <2>2 DEF SpendInv, Possible, InFlight, TypeOK
      <3> QED  BY <3>1, MoneyAssumption
    <2>4. Room(N - K) = Limit + Overrun
      BY <1>2, <1>5, RoomBase
    <2>5. 0 + Worst(cur[r]) <= Room(N - K)
      BY <2>3, <2>4, MoneyAssumption DEF Worst
    <2>6. Vouched'
      BY <1>1, <2>2, <2>5 DEF Vouched, Room
    <2> QED  BY <1>3, <2>6
  <1> QED
    BY <1>2, <1>4, <1>5

(* A launch: the call just admitted vouches for everything.                *)
LEMMA LaunchKeeps ==
  ASSUME SpendInv, TypeOK', NEW r \in Requests, Launches(r)
  PROVE  (Possible /\ (Slack \/ Vouched))'
  <1>1. PICK p \in Providers : cur' = [cur EXCEPT ![r] = p] /\ Admits(spent', p)
    BY DEF Launches
  <1>2. cur'[r] = p /\ p # None /\ r \in InFlight'
    BY <1>1, NoneAssumption DEF InFlight, SpendInv, TypeOK
  <1>3. spent' + Projection[p] <= Limit /\ spent' \in Nat /\ Projection[p] \in Nat
    BY <1>1, MoneyAssumption DEF Admits, TypeOK
  <1>4. K' \in Nat /\ K' <= N /\ N \in Nat
    <2>1. TypeOK' => (/\ IsFiniteSet(InFlight) /\ K \in Nat /\ N \in Nat \ {0} /\ K <= N)'
      BY FlightSize, PTL
    <2> QED  BY <2>1 DEF N
  <1>5. Room(0) <= Room(N - K')
    BY <1>4, RoomGrows
  <1>6. Room(0) = Limit + Overrun /\ Room(N - K') \in Int
    BY <1>4, RoomStep, RoomBase
  <1>7. spent' + Worst(cur'[r]) <= Room(N - K')
    BY <1>2, <1>3, <1>5, <1>6, MoneyAssumption DEF Worst
  <1>8. Vouched'
    BY <1>2, <1>7 DEF Vouched, Room, N
  <1>9. Possible'
    <2> SUFFICES ASSUME NEW q \in InFlight' PROVE Projection[cur'[q]] <= Limit
      BY DEF Possible
    <2>1. CASE q = r
      BY <1>2, <1>3, <2>1, MoneyAssumption
    <2>2. CASE q # r
      BY <1>1, <2>2 DEF InFlight, SpendInv, Possible, TypeOK
    <2> QED  BY <2>1, <2>2
  <1> QED
    BY <1>8, <1>9

(* A landing: what the call cost at most comes out of the room it had.     *)
LEMMA LandingKeeps ==
  ASSUME SpendInv, TypeOK', NEW r \in Requests, Charges(r), Lands(r)
  PROVE  (Possible /\ (Slack \/ Vouched))'
  <1>1. PICK c \in Nat : spent' = spent + c /\ (c > 0 => cur[r] # None /\ c <= Worst(cur[r]))
    BY DEF Charges
  <1>2. TypeOK /\ Possible /\ spent \in Nat /\ N \in Nat /\ K \in Nat /\ IsFiniteSet(InFlight)
    BY FlightSize DEF SpendInv, TypeOK
  <1>3. CASE r \notin InFlight
    <2>1. cur[r] = None /\ cur' = cur
      BY <1>2, <1>3 DEF InFlight, Lands, TypeOK
    <2>2. Holds
      BY <1>1, <1>2, <2>1 DEF Holds
    <2> QED  BY <2>2, HoldsKeeps
  <1>4. CASE r \in InFlight
    <2>1. InFlight' = InFlight \ {r} /\ \A q \in InFlight' : cur'[q] = cur[q]
      BY <1>2 DEF InFlight, Lands, TypeOK
    <2>2. K' = K - 1
      BY <1>2, <1>4, <2>1, FS_RemoveElement DEF K
    <2>3. Possible'
      BY <1>2, <2>1 DEF Possible
    <2>4. Worst(cur[r]) \in 0 .. Margin /\ c <= Worst(cur[r])
      BY <1>1, <1>2, <1>4, FlightSize
    <2>5. Room(N - K' - 1) = Room(N - K) /\ Room(N - K') = Room(N - K) + Margin
      BY <1>2, <2>2, RoomStep
    <2>6. Room(N - K) = Room(N - K - 1) + Margin /\ Room(N - K) \in Int /\ Room(N - K - 1) \in Int
      BY <1>2, RoomStep
    <2>7. CASE Slack
      <3>1. spent + c <= Room(N - K)
        BY <1>2, <2>4, <2>6, <2>7, RoomBase DEF Slack
      <3>2. Slack'
        BY <1>1, <2>5, <3>1 DEF Slack, Room, N
      <3> QED  BY <2>3, <3>2
    <2>8. CASE Vouched
      <3>1. PICK q \in InFlight : spent + Worst(cur[q]) <= Room(N - K)
        BY <2>8 DEF Vouched
      <3>2. CASE q = r
        <4>1. spent + c <= Room(N - K)
          BY <1>2, <2>4, <2>6, <3>1, <3>2, MoneyAssumption
        <4>2. Slack'
          BY <1>1, <2>5, <4>1 DEF Slack, Room, N
        <4> QED  BY <2>3, <4>2
      <3>3. CASE q # r
        <4>1. q \in InFlight' /\ cur'[q] = cur[q]
          BY <2>1, <3>3
        <4>2. Worst(cur[q]) \in 0 .. Margin
          BY <1>2, FlightSize
        <4>3. spent + c + Worst(cur[q]) <= Room(N - K')
          BY <1>2, <2>4, <2>5, <2>6, <3>1, <4>2, RoomBase
        <4>4. Vouched'
          BY <1>1, <4>1, <4>3 DEF Vouched, Room, N
        <4> QED  BY <2>3, <4>4
      <3> QED  BY <3>2, <3>3
    <2> QED  BY <2>7, <2>8 DEF SpendInv
  <1> QED
    BY <1>3, <1>4

(* At the start nothing is spent and nothing is in flight.                 *)
LEMMA InitSpend == Init => SpendInv
  <1> SUFFICES ASSUME Init PROVE SpendInv
    OBVIOUS
  <1>1. TypeOK
    BY InitTyped
  <1>2. InFlight = {} /\ spent = 0
    BY DEF Init, InFlight
  <1>3. K = 0 /\ N \in Nat \ {0}
    BY <1>1, <1>2, FlightSize, FS_EmptySet DEF K
  <1>4. Room(0) <= Room(N - K - 1) /\ Room(N - K - 1) \in Int /\ Room(0) = Limit + Overrun
    <2>1. 0 <= N - K - 1 /\ N - K - 1 \in Int
      BY <1>3
    <2> QED  BY <2>1, RoomGrows, RoomStep, RoomBase
  <1>5. Slack
    BY <1>2, <1>4, MoneyAssumption DEF Slack
  <1> QED
    BY <1>1, <1>2, <1>5 DEF SpendInv, Possible

(* The strengthened bound is kept by every step.                           *)
LEMMA SpendInvInductive == SpendInv /\ [Next]_vars => SpendInv'
  <1> SUFFICES ASSUME SpendInv, [Next]_vars PROVE SpendInv'
    OBVIOUS
  <1>1. TypeOK' /\ (Holds \/ Renews \/ \E r \in Requests : Moves(r))
    BY StepMoves DEF SpendInv
  <1>2. (Possible /\ (Slack \/ Vouched))'
    <2>1. CASE Holds
      BY <2>1, HoldsKeeps
    <2>2. CASE Renews
      BY <2>2, RenewsKeeps
    <2>3. ASSUME NEW r \in Requests, Moves(r)
          PROVE  (Possible /\ (Slack \/ Vouched))'
      BY <1>1, <2>3, LaunchKeeps, LandingKeeps DEF Moves
    <2> QED  BY <1>1, <2>1, <2>2, <2>3
  <1> QED
    BY <1>1, <1>2 DEF SpendInv

(* The limit may be overshot, because admission reserves nothing, but never*)
(* by more than the worst case of all but one of the requests; with one    *)
(* request at a time the limit is hard (budget.py's admit, chat.py:742).   *)
THEOREM OvershootAlwaysBounded == Spec => []OvershootBounded
  <1>1. SpendInv => OvershootBounded
    <2> SUFFICES ASSUME SpendInv PROVE OvershootBounded
      OBVIOUS
    <2>1. TypeOK /\ spent \in Nat /\ K \in Nat /\ N \in Nat \ {0} /\ K <= N
      BY FlightSize DEF SpendInv, TypeOK
    <2>2. Room(N - 1) \in Int /\ Room(N - K) \in Int /\ Room(N - K - 1) \in Int
      BY <2>1, RoomStep
    <2>3. CASE Slack
      <3>1. Room(N - K - 1) <= Room(N - 1)
        BY <2>1, RoomGrows
      <3> QED  BY <2>1, <2>2, <2>3, <3>1 DEF Slack, OvershootBounded, Room, N, Margin
    <2>4. CASE Vouched
      <3>1. PICK r \in InFlight : spent + Worst(cur[r]) <= Room(N - K)
        BY <2>4 DEF Vouched
      <3>2. Worst(cur[r]) \in Nat
        BY <2>1, FlightSize, RoomBase
      <3>3. K # 0
        BY <2>1, <3>1, FlightSize, FS_EmptySet DEF K
      <3>4. Room(N - K) <= Room(N - 1)
        BY <2>1, <3>3, RoomGrows
      <3>5. spent <= Room(N - 1)
        BY <2>1, <2>2, <3>1, <3>2, <3>4
      <3> QED  BY <3>5 DEF OvershootBounded, Room, N, Margin
    <2> QED  BY <2>3, <2>4 DEF SpendInv
  <1> QED
    BY <1>1, InitSpend, SpendInvInductive, PTL DEF Spec

-----------------------------------------------------------------------------
(* The ledger.  Rows(r) is what a request wrote; CallsAre says that no     *)
(* tier above the current one was called and that at the current one only  *)
(* the candidates in struck were.                                          *)
Rows(r) == rows[r].ok + rows[r].error

CallsAre(r, tier, struck) ==
    \A call \in tried[r] :
        /\ call[1] <= tier
        /\ call[1] = tier => call[2] \in struck

(* What an answered request leaves: the two properties, for one request.   *)
Settled(r) ==
    LET calls == Cardinality(tried[r])
    IN  /\ reply[r] = 200 /\ ~shape[r].stream =>
              rows[r].ok > 0 /\ Rows(r) = IF calls = 0 THEN 1 ELSE calls
        /\ reply[r] \in {402, 502} => calls = Rows(r)
        /\ reply[r] = 400 =>
              calls = Rows(r) \/ (shape[r].schema = "insane" /\ calls = Rows(r) + 1)
        /\ reply[r] = 503 =>
              calls = Rows(r) \/ (shape[r].schema = "sane" /\ calls = Rows(r) + 1)
        /\ reply[r] = 402 /\ loop[r].esc = 0 => tried[r] = {}

(* The strengthening, stage by stage: nothing is called or written before  *)
(* the first walk, and one row is owed exactly while a provider is awaited *)
(* that no call of this tier has struck out.                               *)
Ledger(r) ==
    /\ IsFiniteSet(tried[r])
    /\ stage[r] \in {"new", "lookup", "classify"} =>
          tried[r] = {} /\ Rows(r) = 0 /\ reply[r] = 0
    /\ stage[r] \in {"first", "retry", "repair"} =>
          /\ Cardinality(tried[r]) = Rows(r) + 1
          /\ reply[r] = 0
          /\ CallsAre(r, loop[r].tier, loop[r].dropped \cup {cur[r]})
    /\ stage[r] = "repair" => shape[r].schema = "sane"
    /\ stage[r] = "stream" => reply[r] = 200 /\ shape[r].stream
    /\ stage[r] = "done" => Settled(r)

LedgerInv == \A r \in Requests : Ledger(r)

(* The strengthening says what the two properties say.                     *)
LEMMA LedgerImplies ==
  ASSUME TypeOK, LedgerInv
  PROVE  EveryCallHasItsRow /\ UnescalatedRefusalUnbilled
  <1>1. ASSUME NEW r \in Requests
        PROVE  /\ stage[r] \in {"first", "retry", "repair"} => Cardinality(tried[r]) = Rows(r) + 1
               /\ reply[r] # 0 /\ ~(reply[r] = 200 /\ shape[r].stream) => Settled(r)
    <2>1. Ledger(r) /\ stage[r] \in Stages
      BY DEF LedgerInv, TypeOK
    <2> QED  BY <2>1 DEF Ledger, Stages, Awaiting
  <1>2. EveryCallHasItsRow
    BY <1>1 DEF EveryCallHasItsRow, Settled, Rows
  <1>3. UnescalatedRefusalUnbilled
    BY <1>1 DEF UnescalatedRefusalUnbilled, Settled
  <1> QED
    BY <1>2, <1>3

(* What a step of one request leaves of the others.                        *)
Elsewhere(r) ==
    \A q \in Requests \ {r} :
        /\ shape'[q] = shape[q] /\ stage'[q] = stage[q] /\ loop'[q] = loop[q]
        /\ cur'[q] = cur[q] /\ reply'[q] = reply[q]
        /\ rows'[q] = rows[q] /\ tried'[q] = tried[q]

(* A step that settles its own request's ledger settles all of them.       *)
LEMMA LedgerFrame ==
  ASSUME LedgerInv, NEW r \in Requests, Elsewhere(r), Ledger(r)'
  PROVE  LedgerInv'
  <1>1. ASSUME NEW q \in Requests \ {r}
        PROVE  Ledger(q)'
    <2>1. Ledger(q)
      BY DEF LedgerInv
    <2>2. /\ shape'[q] = shape[q] /\ stage'[q] = stage[q] /\ loop'[q] = loop[q]
          /\ cur'[q] = cur[q] /\ reply'[q] = reply[q]
          /\ rows'[q] = rows[q] /\ tried'[q] = tried[q]
      BY DEF Elsewhere
    <2> QED  BY <2>1, <2>2 DEF Ledger, Settled, CallsAre, Rows
  <1> QED
    BY <1>1 DEF LedgerInv

(* A walk starts with every call accounted for and everyone called at this *)
(* tier struck out, and it either awaits someone new or ends the request.  *)
LEMMA WalkLedger ==
  ASSUME TypeOK, TypeOK', NEW r \in Requests, NEW l \in Loops, NEW us, NEW sum,
         Walk(r, l, us, sum), shape' = shape, reply[r] = 0,
         IsFiniteSet(tried[r]), Cardinality(tried[r]) = Rows(r)',
         CallsAre(r, l.tier, l.dropped),
         l.esc = 0 /\ ~l.errored => tried[r] = {}
  PROVE  Ledger(r)'
  <1> DEFINE n == Cardinality(tried[r])
  <1>1. n \in Nat
    BY FS_CardinalityType
  <1>2. CASE \E i \in 1 .. Len(Ring(shape[r], l)) : Call(r, l, us, sum, i)
    <2>1. PICK i \in 1 .. Len(Ring(shape[r], l)) : Call(r, l, us, sum, i)
      BY <1>2
    <2> DEFINE p == Ring(shape[r], l)[i]
               call == <<l.tier, p>>
    <2>2. p \notin l.dropped
      BY <2>1 DEF Call, Affordable, Pickable
    <2>3. l.dropped \subseteq loop'[r].dropped /\ loop'[r].tier = l.tier
      <3> DEFINE skipped == {Ring(shape[r], l)[j] :
                                j \in {k \in Pickable(shape[r], l, us) : k < i}}
      <3>1. loop'[r] = [l EXCEPT !.dropped = @ \cup skipped,
                                 !.refused = @ \/ skipped # {}]
        BY <2>1 DEF Call, TypeOK
      <3> HIDE DEF skipped
      <3> QED  BY <3>1 DEF Loops
    <2>4. /\ stage'[r] = IF shape[r].stream THEN "stream" ELSE "first"
          /\ cur'[r] = p
          /\ reply'[r] = IF shape[r].stream THEN 200 ELSE 0
          /\ tried'[r] = tried[r] \cup {call}
      BY <2>1 DEF Call, TypeOK
    <2> HIDE DEF p
    <2>5. call \notin tried[r]
      <3>1. call[1] = l.tier /\ call[2] = p
        OBVIOUS
      <3> QED  BY <2>2, <3>1 DEF CallsAre
    <2>6. IsFiniteSet(tried'[r]) /\ Cardinality(tried'[r]) = n + 1
      <3> HIDE DEF call
      <3> QED  BY <2>4, <2>5, FS_AddElement
    <2>7. CallsAre(r, loop[r].tier, loop[r].dropped \cup {cur[r]})'
      <3> SUFFICES ASSUME NEW c \in tried'[r]
                   PROVE  /\ c[1] <= l.tier
                          /\ c[1] = l.tier => c[2] \in loop'[r].dropped \cup {p}
        BY <2>3, <2>4 DEF CallsAre
      <3>1. CASE c \in tried[r]
        BY <3>1, <2>3 DEF CallsAre
      <3>2. CASE c = call
        BY <3>2 DEF Loops
      <3> QED  BY <3>1, <3>2, <2>4
    <2>8. CASE shape[r].stream
      BY <2>4, <2>6, <2>8 DEF Ledger
    <2>9. CASE ~shape[r].stream
      BY <2>4, <2>6, <2>7, <2>9, <1>1 DEF Ledger
    <2> QED  BY <2>8, <2>9
  <1>3. CASE Exhausted(r, l, us, sum)
    <2>1. /\ loop'[r].esc = l.esc
          /\ stage'[r] = "done"
          /\ reply'[r] \in {402, 503}
          /\ reply'[r] = 402 => ~l.errored
          /\ tried' = tried
      BY <1>3 DEF Exhausted, TypeOK, Loops
    <2>2. Settled(r)'
      BY <2>1 DEF Settled
    <2> QED  BY <2>1, <2>2 DEF Ledger
  <1> QED
    BY <1>2, <1>3 DEF Walk

(* A walk leaves the other requests where they are.                        *)
LEMMA WalkElsewhere ==
  ASSUME TypeOK, NEW r \in Requests, NEW l, NEW us, NEW sum, Walk(r, l, us, sum),
         shape' = shape, \A q \in Requests \ {r} : rows'[q] = rows[q]
  PROVE  Elsewhere(r)
  <1>1. /\ \E v : loop' = [loop EXCEPT ![r] = v]
        /\ \E v : stage' = [stage EXCEPT ![r] = v]
        /\ \E v : cur' = [cur EXCEPT ![r] = v]
        /\ \E v : reply' = [reply EXCEPT ![r] = v]
        /\ tried' = tried \/ \E v : tried' = [tried EXCEPT ![r] = v]
    <2>1. ASSUME NEW i, Call(r, l, us, sum, i)
          PROVE  /\ \E v : loop' = [loop EXCEPT ![r] = v]
                 /\ \E v : stage' = [stage EXCEPT ![r] = v]
                 /\ \E v : cur' = [cur EXCEPT ![r] = v]
                 /\ \E v : reply' = [reply EXCEPT ![r] = v]
                 /\ \E v : tried' = [tried EXCEPT ![r] = v]
      BY <2>1, Zenon DEF Call
    <2>2. ASSUME Exhausted(r, l, us, sum)
          PROVE  /\ \E v : loop' = [loop EXCEPT ![r] = v]
                 /\ \E v : stage' = [stage EXCEPT ![r] = v]
                 /\ \E v : cur' = [cur EXCEPT ![r] = v]
                 /\ \E v : reply' = [reply EXCEPT ![r] = v]
                 /\ tried' = tried
      <3>1. \E v : loop' = [loop EXCEPT ![r] = v]
        BY <2>2, Zenon DEF Exhausted
      <3>2. \E v : stage' = [stage EXCEPT ![r] = v]
        BY <2>2, Zenon DEF Exhausted
      <3>3. \E v : cur' = [cur EXCEPT ![r] = v]
        BY <2>2, Zenon DEF Exhausted
      <3>4. \E v : reply' = [reply EXCEPT ![r] = v]
        <4> DEFINE refused == l.refused \/ Pickable(shape[r], l, us) # {}
                   status == IF refused /\ ~l.errored THEN 402 ELSE 503
        <4>1. reply' = [reply EXCEPT ![r] = status]
          BY <2>2 DEF Exhausted
        <4> HIDE DEF status
        <4> QED  BY <4>1
      <3>5. tried' = tried
        BY <2>2 DEF Exhausted
      <3> QED  BY <3>1, <3>2, <3>3, <3>4, <3>5
    <2> QED  BY <2>1, <2>2 DEF Walk
  <1> QED
    BY <1>1 DEF Elsewhere, TypeOK

(* So does an answer to the request.                                       *)
LEMMA FinishElsewhere ==
  ASSUME TypeOK, NEW r \in Requests, NEW status, Finish(r, status),
         loop' = loop, shape' = shape, \A q \in Requests \ {r} : rows'[q] = rows[q]
  PROVE  /\ Elsewhere(r)
         /\ stage'[r] = "done" /\ reply'[r] = status /\ tried' = tried
  BY DEF Finish, Elsewhere, TypeOK

(* A booked answer pays the row that was owed: kept, it settles the        *)
(* request; escalated, it starts a tier where nobody was called yet.       *)
LEMMA AnswerLedger ==
  ASSUME TypeOK, TypeOK', LedgerInv, NEW r \in Requests, NEW c,
         stage[r] \in {"first", "retry", "repair"}, Keep(r, c) \/ Escalate(r, c)
  PROVE  LedgerInv'
  <1>1. /\ IsFiniteSet(tried[r]) /\ Cardinality(tried[r]) = Rows(r) + 1 /\ reply[r] = 0
        /\ CallsAre(r, loop[r].tier, loop[r].dropped \cup {cur[r]})
    BY DEF LedgerInv, Ledger
  <1>2. Book(r, c)
    BY DEF Keep, Escalate
  <1>3. /\ Rows(r)' = Rows(r) + 1 /\ rows'[r].ok > 0 /\ Rows(r) \in Nat
        /\ shape' = shape /\ \A q \in Requests \ {r} : rows'[q] = rows[q]
    BY <1>2 DEF Book, Rows, TypeOK
  <1>4. CASE Keep(r, c)
    <2>1. /\ Elsewhere(r)
          /\ stage'[r] = "done" /\ reply'[r] = 200 /\ tried' = tried
      BY <1>3, <1>4, FinishElsewhere DEF Keep
    <2>2. Cardinality(tried[r]) # 0
      BY <1>1, <1>3
    <2>3. Ledger(r)'
      BY <1>1, <1>3, <2>1, <2>2 DEF Ledger, Settled
    <2> QED  BY <2>1, <2>3, LedgerFrame
  <1>5. CASE Escalate(r, c)
    <2> DEFINE l == [loop[r] EXCEPT !.tier = @ + 1, !.esc = @ + 1, !.dropped = {}]
    <2>1. Walk(r, l, usable, spent + c) /\ ShouldEscalate(shape[r], loop[r])
      BY <1>5 DEF Escalate
    <2>2. l \in Loops /\ l.tier = loop[r].tier + 1 /\ l.esc # 0 /\ loop[r].tier \in Nat
      <3>1. loop[r] \in Loops
        BY DEF TypeOK
      <3>2. loop[r].tier + 1 \in 0 .. Top /\ loop[r].esc + 1 \in Nat \ {0}
        BY <2>1, <3>1, PolicyAssumption DEF Loops, ShouldEscalate
      <3>3. l.tier = loop[r].tier + 1 /\ l.esc = loop[r].esc + 1
        BY <3>1 DEF Loops
      <3>4. l \in Loops
        BY <3>1, <3>2 DEF Loops
      <3> QED  BY <3>1, <3>2, <3>3, <3>4 DEF Loops
    <2> HIDE DEF l
    <2>3. CallsAre(r, l.tier, l.dropped)
      <3>1. tried[r] \in SUBSET ((0 .. Top) \X Providers)
        BY DEF TypeOK
      <3>2. ASSUME NEW call \in tried[r]
            PROVE  call[1] < l.tier /\ call[1] \in Nat
        BY <1>1, <2>2, <3>1, <3>2 DEF CallsAre
      <3> QED  BY <3>2, <2>2 DEF CallsAre
    <2>4. Cardinality(tried[r]) = Rows(r)'
      BY <1>1, <1>3
    <2>5. Ledger(r)'
      BY <1>1, <1>3, <2>1, <2>2, <2>3, <2>4, WalkLedger
    <2> QED  BY <1>3, <2>1, <2>5, WalkElsewhere, LedgerFrame
  <1> QED
    BY <1>4, <1>5

(* The actions of one request, one step each.                              *)
LEMMA ResumeLedger ==
  ASSUME TypeOK, TypeOK', LedgerInv, NEW r \in Requests, Arrive(r) \/ Resume(r)
  PROVE  LedgerInv'
  <1>a. Ledger(r) /\ loop[r] \in Loops /\ stage[r] \in Stages
        /\ rows[r].ok \in Nat /\ rows[r].error \in Nat
    BY DEF LedgerInv, TypeOK
  <1>1. CASE Arrive(r)
    <2>1. Elsewhere(r) /\ Ledger(r)'
      BY <1>1, <1>a DEF Arrive, Elsewhere, TypeOK, Ledger, Rows
    <2> QED  BY <2>1, LedgerFrame
  <1>2. CASE CacheHit(r)
    <2>1. /\ stage[r] = "lookup" /\ Finish(r, 200)
          /\ shape' = shape /\ loop' = loop
          /\ rows' = [rows EXCEPT ![r].ok = @ + 1]
      BY <1>2 DEF CacheHit
    <2>2. /\ Elsewhere(r)
          /\ stage'[r] = "done" /\ reply'[r] = 200 /\ tried' = tried
      BY <2>1, FinishElsewhere DEF TypeOK
    <2>3. /\ tried[r] = {} /\ Rows(r) = 0 /\ Cardinality(tried[r]) = 0
          /\ IsFiniteSet(tried[r])
      BY <2>1, <1>a, FS_EmptySet DEF Ledger
    <2>4. Rows(r)' = 1 /\ rows'[r].ok > 0
      BY <1>a, <2>1, <2>3 DEF Rows, TypeOK
    <2>5. Ledger(r)'
      BY <2>2, <2>3, <2>4 DEF Ledger, Settled
    <2> QED  BY <2>2, <2>5, LedgerFrame
  <1>3. CASE CacheMiss(r)
    <2>1. /\ stage[r] = "lookup" /\ shape' = shape /\ rows' = rows
          /\ tried[r] = {} /\ Rows(r) = 0 /\ reply[r] = 0
          /\ Cardinality(tried[r]) = 0 /\ IsFiniteSet(tried[r])
      BY <1>3, <1>a, FS_EmptySet DEF CacheMiss, Ledger
    <2>2. Rows(r)' = 0
      BY <2>1 DEF Rows
    <2>3. CASE /\ stage' = [stage EXCEPT ![r] = "classify"]
               /\ UNCHANGED <<loop, cur, reply, usable, tried>>
      <3>1. Elsewhere(r)
        BY <2>1, <2>3 DEF Elsewhere, TypeOK
      <3>2. stage'[r] = "classify" /\ tried'[r] = {} /\ reply'[r] = 0
        BY <2>1, <2>3 DEF TypeOK
      <3>3. Ledger(r)'
        BY <2>1, <2>2, <3>2 DEF Ledger
      <3> QED  BY <3>1, <3>3, LedgerFrame
    <2>4. CASE Finish(r, 400) /\ UNCHANGED loop
      <3>1. /\ Elsewhere(r)
            /\ stage'[r] = "done" /\ reply'[r] = 400 /\ tried' = tried
        BY <2>1, <2>4, FinishElsewhere
      <3>2. Ledger(r)'
        BY <2>1, <2>2, <3>1 DEF Ledger, Settled
      <3> QED  BY <3>1, <3>2, LedgerFrame
    <2>5. CASE Walk(r, loop[r], usable, spent)
      <3>1. CallsAre(r, loop[r].tier, loop[r].dropped)
        BY <2>1 DEF CallsAre
      <3>2. Ledger(r)'
        BY <1>a, <2>1, <2>2, <2>5, <3>1, WalkLedger
      <3> QED  BY <2>1, <2>5, <3>2, WalkElsewhere, LedgerFrame
    <2> QED  BY <1>3, <2>3, <2>4, <2>5 DEF CacheMiss
  <1>4. ASSUME NEW t \in 1 .. Top, Classify(r, t) PROVE LedgerInv'
    <2> DEFINE l == [loop[r] EXCEPT !.tier = TierFor(shape[r], t)]
    <2>1. /\ stage[r] = "classify" /\ shape' = shape /\ rows' = rows
          /\ Walk(r, l, usable, spent)
      BY <1>4 DEF Classify
    <2>2. /\ tried[r] = {} /\ Rows(r) = 0 /\ reply[r] = 0
          /\ Cardinality(tried[r]) = 0 /\ IsFiniteSet(tried[r])
      BY <2>1, <1>a, FS_EmptySet DEF Ledger
    <2>3. Rows(r)' = 0
      BY <2>1, <2>2 DEF Rows
    <2>4. l \in Loops
      <3>1. TierFor(shape[r], t) \in 0 .. Top
        BY PolicyAssumption DEF TierFor, TypeOK, ShapeSet
      <3> QED  BY <1>a, <3>1 DEF Loops
    <2> HIDE DEF l
    <2>5. CallsAre(r, l.tier, l.dropped)
      BY <2>2 DEF CallsAre
    <2>6. Ledger(r)'
      BY <2>1, <2>2, <2>3, <2>4, <2>5, WalkLedger
    <2> QED  BY <2>1, <2>6, WalkElsewhere, LedgerFrame
  <1>5. ASSUME NEW c \in Costs(r), Answered(r, c) \/ Repaired(r, c) PROVE LedgerInv'
    BY <1>5, AnswerLedger DEF Answered, Repaired
  <1>6. ASSUME NEW c \in Costs(r), Invalid(r, c) PROVE LedgerInv'
    <2>1. Elsewhere(r) /\ Ledger(r)'
      BY <1>6, <1>a DEF Invalid, Elsewhere, TypeOK, Ledger, Rows, CallsAre
    <2> QED  BY <2>1, LedgerFrame
  <1>7. ASSUME NEW c \in Costs(r), Rejected(r, c) PROVE LedgerInv'
    <2>1. /\ Finish(r, 400) /\ UNCHANGED <<shape, loop, spent, rows>>
          /\ stage[r] \in {"first", "retry"} /\ shape[r].schema = "insane"
      BY <1>7 DEF Rejected
    <2>2. /\ Elsewhere(r)
          /\ stage'[r] = "done" /\ reply'[r] = 400 /\ tried' = tried
      BY <2>1, FinishElsewhere
    <2>3. Ledger(r)'
      BY <1>a, <2>1, <2>2 DEF Ledger, Settled, Rows
    <2> QED  BY <2>2, <2>3, LedgerFrame
  <1>8. ASSUME NEW c \in Costs(r), RepairFailed(r, c) PROVE LedgerInv'
    <2>1. CASE Escalate(r, c)
      BY <1>8, <2>1, AnswerLedger DEF RepairFailed
    <2>2. CASE Finish(r, 503) /\ UNCHANGED <<shape, loop, spent, rows>>
      <3>1. /\ Elsewhere(r)
            /\ stage'[r] = "done" /\ reply'[r] = 503 /\ tried' = tried
        BY <2>2, FinishElsewhere
      <3>2. Ledger(r)'
        BY <1>8, <1>a, <2>2, <3>1 DEF RepairFailed, Ledger, Settled, Rows
      <3> QED  BY <3>1, <3>2, LedgerFrame
    <2> QED  BY <1>8, <2>1, <2>2 DEF RepairFailed
  <1>9. CASE TransientError(r)
    <2>1. Elsewhere(r) /\ Ledger(r)'
      BY <1>9, <1>a DEF TransientError, Elsewhere, TypeOK, Ledger, Rows, CallsAre
    <2> QED  BY <2>1, LedgerFrame
  <1>10. ASSUME NEW benches \in BOOLEAN, NEW fatal \in BOOLEAN,
               stage[r] \in Awaiting, ProviderFails(r, benches, fatal)
        PROVE  LedgerInv'
    <2> DEFINE us == [usable EXCEPT ![cur[r]] = @ /\ ~benches]
               l == [loop[r] EXCEPT !.errored = TRUE, !.dropped = @ \cup {cur[r]}]
    <2>1. /\ stage[r] \in {"first", "retry", "repair"} /\ shape' = shape
          /\ rows' = [rows EXCEPT ![r].error = @ + 1]
      BY <1>10 DEF ProviderFails
    <2>2. /\ IsFiniteSet(tried[r]) /\ Cardinality(tried[r]) = Rows(r) + 1 /\ reply[r] = 0
          /\ CallsAre(r, loop[r].tier, loop[r].dropped \cup {cur[r]})
      BY <2>1, <1>a DEF Ledger
    <2>3. /\ Rows(r)' = Rows(r) + 1
          /\ \A q \in Requests \ {r} : rows'[q] = rows[q]
      BY <1>a, <2>1 DEF Rows, TypeOK
    <2>4. CASE /\ stage' = [stage EXCEPT ![r] = "done"]
               /\ cur' = [cur EXCEPT ![r] = None]
               /\ reply' = [reply EXCEPT ![r] = 502]
               /\ loop' = [loop EXCEPT ![r].errored = TRUE]
               /\ UNCHANGED tried
      <3>1. Elsewhere(r) /\ stage'[r] = "done" /\ reply'[r] = 502
        BY <2>1, <2>3, <2>4 DEF Elsewhere, TypeOK
      <3>2. Ledger(r)'
        BY <2>2, <2>3, <2>4, <3>1 DEF Ledger, Settled
      <3> QED  BY <3>1, <3>2, LedgerFrame
    <2>5. CASE Walk(r, l, us, spent)
      <3>1. /\ l \in Loops /\ l.tier = loop[r].tier /\ l.errored = TRUE
            /\ l.dropped = loop[r].dropped \cup {cur[r]}
        <4>1. cur[r] \in Providers
          BY <1>10 DEF TypeOK
        <4> QED  BY <1>a, <4>1 DEF Loops
      <3> HIDE DEF l
      <3>2. CallsAre(r, l.tier, l.dropped)
        BY <2>2, <3>1
      <3>3. Ledger(r)'
        BY <2>1, <2>2, <2>3, <2>5, <3>1, <3>2, WalkLedger
      <3> QED  BY <2>1, <2>3, <2>5, <3>3, WalkElsewhere, LedgerFrame
    <2> QED  BY <1>10, <2>4, <2>5 DEF ProviderFails
  <1>11. ASSUME NEW c \in Costs(r), NEW how \in {"complete", "broken", "abandoned"},
                StreamEnds(r, c, how)
         PROVE  LedgerInv'
    <2>1. \A q \in Requests \ {r} : rows'[q] = rows[q]
      BY <1>11 DEF StreamEnds, TypeOK
    <2>2. Elsewhere(r)
      BY <1>11, <2>1 DEF StreamEnds, Elsewhere, TypeOK
    <2>3. /\ stage[r] = "stream" /\ stage'[r] = "done"
          /\ UNCHANGED <<shape, reply, tried>>
      BY <1>11 DEF StreamEnds, TypeOK
    <2>4. Ledger(r)'
      BY <1>a, <2>3 DEF Ledger, Settled
    <2> QED  BY <2>2, <2>4, LedgerFrame
  <1> QED
    BY <1>1, <1>2, <1>3, <1>4, <1>5, <1>6, <1>7, <1>8, <1>9, <1>10, <1>11 DEF Resume

(* Every step keeps the ledger; time and the period do not touch it.       *)
LEMMA LedgerStep == TypeOK /\ LedgerInv /\ [Next]_vars => LedgerInv'
  <1> SUFFICES ASSUME TypeOK, LedgerInv, [Next]_vars PROVE LedgerInv'
    OBVIOUS
  <1>1. TypeOK'
    BY StepMoves
  <1>2. ASSUME UNCHANGED <<shape, stage, loop, cur, reply, rows, tried>>
        PROVE  LedgerInv'
    BY <1>2 DEF LedgerInv, Ledger, Settled, CallsAre, Rows
  <1>3. CASE \E r \in Requests : Arrive(r) \/ Resume(r)
    BY <1>1, <1>3, ResumeLedger
  <1>4. CASE \E p \in Providers : Shift(p)
    BY <1>2, <1>4 DEF Shift
  <1>5. CASE Rollover
    BY <1>2, <1>5 DEF Rollover
  <1>6. CASE UNCHANGED vars
    BY <1>2, <1>6 DEF vars
  <1> QED
    BY <1>3, <1>4, <1>5, <1>6 DEF Next

(* The ledger invariant, by induction over the steps.                      *)
LEMMA LedgerInvariant == Spec => []LedgerInv
  <1>1. Init => LedgerInv
    BY FS_EmptySet DEF Init, LedgerInv, Ledger, Rows
  <1> QED
    BY <1>1, LedgerStep, TypeCorrect, PTL DEF Spec

(* However requests are retried, repaired, escalated, refused or failed,   *)
(* every candidate called has exactly one ledger row (chat.py's log_call   *)
(* on each path out of the loop), but for the failed repair of a 503.      *)
THEOREM EveryCallAlwaysHasItsRow == Spec => []EveryCallHasItsRow
  BY LedgerInvariant, TypeCorrect, LedgerImplies, PTL

(* A 402 given before any escalation means that nobody was called.         *)
THEOREM RefusalsAlwaysUnbilled == Spec => []UnescalatedRefusalUnbilled
  BY LedgerInvariant, TypeCorrect, LedgerImplies, PTL
=============================================================================
