----------------------------- MODULE EmbedRing -----------------------------
(***************************************************************************)
(* The embedder ring of glc/embedders.py, behind POST /v1/embed and behind *)
(* the semantic cache.  A caller walks the ring: the test of an embedder's *)
(* rate state and the start of the call are one step, the bookkeeping of   *)
(* the outcome comes after the await, so other callers' steps lie between. *)
(***************************************************************************)
EXTENDS SlidingWindow, FiniteSets

CONSTANTS
    Embedders,
    EmbedCallers,   \* concurrent requests
    NoEmbedder,     \* the pin of a request that pins nothing
    EmbedOrder,     \* build_embedders: the ring
    EmbedRpm,       \* embedder -> calls per minute, 0 for no limit
    EmbedCooldown,  \* embedder -> seconds between successful calls
    BackoffSteps,   \* BACKOFF_STEPS, <<5, 10, 15>> in the code
    EmbedBoot,
    EmbedMaxTime    \* bound: the clock stops here

ASSUME EmbedAssumption ==
    /\ NoEmbedder \notin Embedders
    /\ EmbedOrder \in Seq(Embedders)
    /\ EmbedRpm \in [Embedders -> Nat] /\ EmbedCooldown \in [Embedders -> Nat]
    /\ BackoffSteps \in Seq(Nat) /\ BackoffSteps # <<>>
    /\ IsFiniteSet(EmbedCallers) /\ EmbedBoot \in Nat

VARIABLES
    eNow,
    eState,     \* embedder -> its EmbedRateState
    eWalk,      \* caller -> the candidates left, the one awaited, the pin
    eAnswered   \* history: embedder -> the times of its successes

embedVars == <<eNow, eState, eWalk, eAnswered>>

EmbedRateState ==
    [calls_minute: Times, last_call: Nat, unavailable_until: Nat, backoff_step: Nat]

Resting == [left |-> <<>>, at |-> NoEmbedder, pin |-> NoEmbedder]

EmbedTypeOK ==
    /\ eNow \in Nat
    /\ eState \in [Embedders -> EmbedRateState]
    /\ eWalk \in [EmbedCallers -> [left: Seq(Embedders), at: Embedders \cup {NoEmbedder},
                                   pin: Embedders \cup {NoEmbedder}]]
    /\ \A c \in EmbedCallers : eWalk[c].at = NoEmbedder => eWalk[c] = Resting
    /\ eAnswered \in [Embedders -> Times]

EmbedInit ==
    /\ eNow = EmbedBoot
    /\ eState = [e \in Embedders |->
                   [calls_minute |-> <<>>, last_call |-> 0, unavailable_until |-> 0,
                    backoff_step |-> 0]]
    /\ eWalk = [c \in EmbedCallers |-> Resting]
    /\ eAnswered = [e \in Embedders |-> <<>>]

-----------------------------------------------------------------------------
Trim(s) == [s EXCEPT !.calls_minute = FromCutoff(@, eNow - Window)]

(* Mutant of EmbedderFree: one call too many is let in.                    *)
EmbedderFreeAtLimit(s, e) ==
    /\ eNow >= s.unavailable_until
    /\ EmbedCooldown[e] > 0 => eNow - s.last_call >= EmbedCooldown[e]
    /\ EmbedRpm[e] > 0 => Len(s.calls_minute) <= EmbedRpm[e]

(* can_use, on a state that _gc has just trimmed. *)
EmbedderFree(s, e) ==
    /\ eNow >= s.unavailable_until
    /\ EmbedCooldown[e] > 0 => eNow - s.last_call >= EmbedCooldown[e]
    /\ EmbedRpm[e] > 0 => Len(s.calls_minute) < EmbedRpm[e]

Recorded(s) ==
    [calls_minute |-> Append(s.calls_minute, eNow), last_call |-> eNow,
     unavailable_until |-> 0, backoff_step |-> 0]

Failed(s) ==
    LET step == IF s.backoff_step < Len(BackoffSteps)
                THEN s.backoff_step + 1 ELSE Len(BackoffSteps)
    IN  [s EXCEPT !.backoff_step = @ + 1,
                  !.unavailable_until = eNow + BackoffSteps[step]]

(* The candidates from left, examined in order until one is free: it is    *)
(* called, or the caller's request ends with 503 (429 for a pin).          *)
Advance(c, left, state, pin) ==
    LET free == {i \in 1 .. Len(left) : EmbedderFree(Trim(state[left[i]]), left[i])}
        first == CHOOSE i \in free : \A j \in free : i <= j
        seen == IF free = {} THEN Len(left) ELSE first
        examined == {left[i] : i \in 1 .. seen}
    IN  /\ eState' = [e \in Embedders |-> IF e \in examined THEN Trim(state[e]) ELSE state[e]]
        /\ eWalk' = [eWalk EXCEPT ![c] =
                       IF free = {} THEN Resting
                       ELSE [left |-> SubSeq(left, first + 1, Len(left)),
                             at |-> left[first], pin |-> pin]]

(* The embedders to be tried: a pinned one, if the ring has it, is the only *)
(* candidate, for the first that refuses or raises ends a pinned request.  *)
Candidates(pin) ==
    IF pin = NoEmbedder THEN EmbedOrder
    ELSE IF pin \in {EmbedOrder[i] : i \in DOMAIN EmbedOrder} THEN <<pin>> ELSE <<>>

EmbedRequest(c, pin) ==
    /\ eWalk[c].at = NoEmbedder
    /\ Advance(c, Candidates(pin), eState, pin)
    /\ UNCHANGED <<eNow, eAnswered>>

EmbedSucceeds(c) ==
    LET e == eWalk[c].at
    IN  /\ e # NoEmbedder
        /\ eState' = [eState EXCEPT ![e] = Recorded(@)]
        /\ eWalk' = [eWalk EXCEPT ![c] = Resting]
        /\ eAnswered' = [eAnswered EXCEPT ![e] = Append(@, eNow)]
        /\ UNCHANGED eNow

(* Mutant of EmbedFails: the embedder that failed is not benched, and is   *)
(* tried again after the others.                                           *)
EmbedFailsAgain(c) ==
    LET e == eWalk[c].at
    IN  /\ e # NoEmbedder
        /\ Advance(c, Append(eWalk[c].left, e), eState, NoEmbedder)
        /\ UNCHANGED <<eNow, eAnswered>>

(* The call raises: the failure is booked and the walk goes on, unless the *)
(* caller pinned this embedder, whose error is then raised to it.          *)
EmbedFails(c) ==
    LET e == eWalk[c].at
        after == [eState EXCEPT ![e] = Failed(@)]
    IN  /\ e # NoEmbedder
        /\ IF eWalk[c].pin # NoEmbedder
           THEN eState' = after /\ eWalk' = [eWalk EXCEPT ![c] = Resting]
           ELSE Advance(c, eWalk[c].left, after, NoEmbedder)
        /\ UNCHANGED <<eNow, eAnswered>>

(* GET /v1/embedders takes a snapshot of every state, which trims it.      *)
EmbedStatus ==
    /\ eState' = [e \in Embedders |-> Trim(eState[e])]
    /\ UNCHANGED <<eNow, eWalk, eAnswered>>

EmbedTick ==
    /\ eNow < EmbedMaxTime
    /\ eNow' = eNow + 1
    /\ UNCHANGED <<eState, eWalk, eAnswered>>

EmbedResume(c) == EmbedSucceeds(c) \/ EmbedFails(c)

EmbedNext ==
    \/ \E c \in EmbedCallers, pin \in Embedders \cup {NoEmbedder} : EmbedRequest(c, pin)
    \/ \E c \in EmbedCallers : EmbedSucceeds(c)
    \/ \E c \in EmbedCallers : EmbedFails(c)
    \/ EmbedStatus
    \/ EmbedTick

EmbedSpec == EmbedInit /\ [][EmbedNext]_embedVars
                       /\ \A c \in EmbedCallers : WF_embedVars(EmbedResume(c))

-----------------------------------------------------------------------------
(* A call is counted when it has succeeded, not when it starts, so the     *)
(* per-minute limit (embedders.py:54, "RPM sliding 60s window of records;  *)
(* refused when full") can be passed by the other calls in flight, but by  *)
(* no more than those: rpm + callers successes always span over a minute.  *)
EmbedRpmBounded ==
    \A e \in Embedders : EmbedRpm[e] > 0 =>
        \A i \in 1 .. Len(eAnswered[e]) :
            LET j == i + EmbedRpm[e] + Cardinality(EmbedCallers) - 1
            IN  j <= Len(eAnswered[e]) => eAnswered[e][j] - eAnswered[e][i] > Window

(* Every embedding request ends: a failing embedder is left behind, so the *)
(* walk is no longer than the ring.                                        *)
EveryEmbedEnds == \A c \in EmbedCallers : eWalk[c].at # NoEmbedder ~> eWalk[c].at = NoEmbedder

=============================================================================
