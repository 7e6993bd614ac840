--------------------------- MODULE RoutingPolicy ---------------------------
(***************************************************************************)
(* routing.yaml as glc/routing/policy.py applies it to one routed request: *)
(* the role's bounds on the classifier's tier, the tier's candidates, and  *)
(* the cascade's climb after a weak answer.  The policy does not change    *)
(* while the process runs, so requests do not meet in it; what varies from *)
(* step to step is which instances the rings hold and what they answer.    *)
(***************************************************************************)
EXTENDS Integers, Sequences, FiniteSets, FiniteSetsExt, SequencesExt

CONSTANTS
    Tiers,
    Ladders,            \* ladder name, "default" among them -> sequence of tiers
    TierSpec,           \* tier -> [order: Seq(bases), min_ctx, strict, objective]
    Roles,              \* role -> [default, min, max: tier or NoTier, escalate]
    NoTier,
    NoProvider,
    Instances,          \* sequence of the configured provider instances
    InstancesOf,        \* base name in an order -> the instances it stands for
    Unavailable,        \* instances that routing.yaml benches
    MaxCtx,             \* instance -> context in tokens, 0 for unknown
    BlendedCost,        \* instance -> cost, blended by output_weight
    Quality,            \* instance -> quality in per cent
    PinFirst,           \* instances that pin_first's globs match
    Tradeoff,           \* per cent of the score that is quality
    EscalationOn,       \* escalation.enabled
    MaxEscalations,
    Triggers,           \* configured triggers
    ScoreOf,            \* signal -> score in per cent
    ConfidenceThreshold,
    Estimates           \* token estimates a request can have

ASSUME RoutingAssumption ==
    /\ NoTier \notin Tiers
    /\ "default" \in DOMAIN Ladders
    /\ \A l \in DOMAIN Ladders : Ladders[l] \in Seq(Tiers) /\ Len(Ladders[l]) > 0
    /\ \A l, k \in DOMAIN Ladders : l # k => ToSet(Ladders[l]) \cap ToSet(Ladders[k]) = {}
    /\ \A r \in DOMAIN Roles : Roles[r].default \in Tiers /\ {Roles[r].min, Roles[r].max} \subseteq Tiers \cup {NoTier}
    /\ \A t \in Tiers : TierSpec[t].order \in Seq(DOMAIN InstancesOf)
    /\ Instances \in Seq(ToSet(Instances))
    /\ MaxEscalations \in Nat

VARIABLE plan   \* the request: role, tier, the tiers visited, its candidates, the one awaited

-----------------------------------------------------------------------------
LadderName(tier) ==
    LET on == {l \in DOMAIN Ladders : tier \in ToSet(Ladders[l])}
    IN  IF on = {} THEN "default" ELSE CHOOSE l \in on : TRUE

LadderOf(tier) == Ladders[LadderName(tier)]

Rank(tier) ==
    LET rungs == LadderOf(tier)
    IN  IF tier \in ToSet(rungs) THEN (CHOOSE i \in 1 .. Len(rungs) : rungs[i] = tier) - 1
        ELSE Len(rungs)

(* Python's round of n/d: halves go to the even neighbour.                 *)
RoundHalfEven(n, d) ==
    LET q == n \div d
        r == n % d
    IN  IF 2 * r < d \/ (2 * r = d /\ q % 2 = 0) THEN q ELSE q + 1

(* Mutant of Mapped: the position counts from the other end.               *)
MappedReversed(tier, ladder) ==
    LET src == LadderOf(tier)
        dst == Ladders[ladder]
    IN  IF Len(src) < 2 THEN dst[1]
        ELSE dst[Len(dst) - RoundHalfEven(Rank(tier) * (Len(dst) - 1), Len(src) - 1)]

(* The classifier's rung carried to another ladder by position.            *)
Mapped(tier, ladder) ==
    LET src == LadderOf(tier)
        dst == Ladders[ladder]
    IN  IF Len(src) < 2 THEN dst[1]
        ELSE dst[RoundHalfEven(Rank(tier) * (Len(dst) - 1), Len(src) - 1) + 1]

TierForRole(role, classified) ==
    LET spec == Roles[role]
        asked == IF classified \notin Tiers THEN spec.default
                 ELSE IF LadderName(classified) = LadderName(spec.default) THEN classified
                 ELSE Mapped(classified, LadderName(spec.default))
        floored == IF spec.min # NoTier /\ Rank(asked) < Rank(spec.min) THEN spec.min ELSE asked
    IN  IF spec.max # NoTier /\ Rank(floored) > Rank(spec.max) THEN spec.max ELSE floored

-----------------------------------------------------------------------------
(* Those of a sequence that are in a set, in the order of the sequence.    *)
Chosen(seq, set) ==
    FoldLeft(LAMBDA kept, n : IF n \in set THEN Append(kept, n) ELSE kept, <<>>, seq)

(* The tier's ring: each base name's instances in the configured order,    *)
(* an instance only once.                                                  *)
Ring(tier, available) ==
    LET usable == Chosen(available, ToSet(available) \ Unavailable)
    IN  FoldLeft(LAMBDA ring, base : ring \o Chosen(usable, InstancesOf[base] \ ToSet(ring)),
                 <<>>, TierSpec[tier].order)

(* Mutant of WithTail: a strict tier gets the others as well.              *)
WithTailAlways(tier, available) ==
    LET ring == Ring(tier, available)
    IN  ring \o Chosen(available, ToSet(available) \ (ToSet(ring) \cup Unavailable))

WithTail(tier, available) ==
    LET ring == Ring(tier, available)
    IN  IF TierSpec[tier].strict THEN ring
        ELSE ring \o Chosen(available, ToSet(available) \ (ToSet(ring) \cup Unavailable))

Holds(tier, est, n) ==
    MaxCtx[n] = 0 \/ MaxCtx[n] >= Max({TierSpec[tier].min_ctx, est})

(* The score of an instance among those of a sequence, on one denominator. *)
Score(objective, n, among) ==
    LET dearest == Max({BlendedCost[m] : m \in among})
        top == IF dearest = 0 THEN 1 ELSE dearest
    IN  CASE objective = "cost" -> -BlendedCost[n]
          [] objective = "quality" -> Quality[n]
          [] OTHER -> Tradeoff * Quality[n] * top - (100 - Tradeoff) * BlendedCost[n] * 100

(* The stable sort: each goes behind those that score as much or more.     *)
Sorted(objective, seq) ==
    LET behind(sorted, n) ==
            {i \in DOMAIN sorted :
                Score(objective, sorted[i], ToSet(seq)) >= Score(objective, n, ToSet(seq))}
    IN  IF objective = "order" THEN seq
        ELSE FoldLeft(LAMBDA sorted, n : InsertAt(sorted, Cardinality(behind(sorted, n)) + 1, n),
                      <<>>, seq)

(* order_for.                                                              *)
OrderFor(tier, available, est) ==
    LET tail == WithTail(tier, available)
        fitting == Chosen(tail, {n \in ToSet(tail) : Holds(tier, est, n)})
        sorted == Sorted(TierSpec[tier].objective, fitting)
    IN  Chosen(sorted, PinFirst) \o Chosen(sorted, ToSet(Instances) \ PinFirst)

-----------------------------------------------------------------------------
(* Mutant of NextTier: up the classifier's ladder, whatever the tier's.    *)
NextTierDefault(tier) ==
    IF Rank(tier) + 1 < Len(Ladders["default"]) THEN Ladders["default"][Rank(tier) + 2] ELSE NoTier

NextTier(tier) ==
    IF Rank(tier) + 1 < Len(LadderOf(tier)) THEN LadderOf(tier)[Rank(tier) + 2] ELSE NoTier

(* assess: the signals of an answer, and the lowest of their scores.       *)
Confidence(signals) ==
    IF signals = {} THEN 100 ELSE Min({ScoreOf[s] : s \in signals})

ShouldEscalate(p, signals) ==
    /\ EscalationOn /\ Roles[p.role].escalate
    /\ Len(p.visited) - 1 < MaxEscalations
    /\ NextTier(p.tier) # NoTier
    /\ \/ signals \cap Triggers # {}
       \/ "low_confidence" \in Triggers /\ Confidence(signals) < ConfidenceThreshold

-----------------------------------------------------------------------------
Unplanned ==
    [at |-> "start", role |-> CHOOSE r \in DOMAIN Roles : TRUE, classified |-> NoTier,
     tier |-> NoTier, visited |-> <<>>, available |-> {}, est |-> 0, left |-> <<>>,
     awaited |-> NoProvider]

RoutingInit == plan = Unplanned

Available == Chosen(Instances, plan.available)

Route(role, classified, available, est) ==
    LET tier == TierForRole(role, classified)
        ring == Chosen(Instances, available)
        left == OrderFor(tier, ring, est)
    IN  /\ plan.at = "start"
        /\ plan' = [at |-> IF left = <<>> THEN "refused" ELSE "ring", role |-> role,
                    classified |-> classified, tier |-> tier, visited |-> <<tier>>,
                    available |-> available, est |-> est, left |-> left, awaited |-> NoProvider]

(* Mutant of CallNext: the one called stays a candidate.                   *)
CallNextAgain ==
    /\ plan.at = "ring" /\ plan.left # <<>>
    /\ plan' = [plan EXCEPT !.at = "calling", !.awaited = Head(plan.left)]

CallNext ==
    /\ plan.at = "ring" /\ plan.left # <<>>
    /\ plan' = [plan EXCEPT !.at = "calling", !.awaited = Head(plan.left), !.left = Tail(@)]

NoneLeft ==
    /\ plan.at = "ring" /\ plan.left = <<>>
    /\ plan' = [plan EXCEPT !.at = "failed"]

Unanswered ==
    /\ plan.at = "calling"
    /\ plan' = [plan EXCEPT !.at = "ring", !.awaited = NoProvider]

(* An answer: kept, or, when the cascade does not trust it, thrown away    *)
(* for the next tier's.  The climb is made before the next tier's ring is  *)
(* known: when that is empty the request fails with its answer paid for.   *)
Judged(signals) ==
    LET up == NextTier(plan.tier)
        left == OrderFor(up, Available, plan.est)
    IN  /\ plan.at = "calling"
        /\ plan' = IF ShouldEscalate(plan, signals)
                   THEN [plan EXCEPT !.at = IF left = <<>> THEN "failed" ELSE "ring",
                                     !.tier = up, !.left = left,
                                     !.visited = Append(@, up), !.awaited = NoProvider]
                   ELSE [plan EXCEPT !.at = "answered"]

Over == plan.at \in {"answered", "failed", "refused"} /\ plan' = Unplanned

RoutingNext ==
    \/ \E role \in DOMAIN Roles, classified \in Tiers \cup {NoTier},
          available \in SUBSET ToSet(Instances), est \in Estimates :
          Route(role, classified, available, est)
    \/ CallNext
    \/ NoneLeft
    \/ Unanswered
    \/ \E signals \in SUBSET DOMAIN ScoreOf : Judged(signals)
    \/ Over

RoutingSpec == RoutingInit /\ [][RoutingNext]_plan /\ WF_plan(CallNext \/ NoneLeft)
                 /\ WF_plan(Unanswered \/ \E signals \in SUBSET DOMAIN ScoreOf : Judged(signals))

-----------------------------------------------------------------------------
(* Whoever is called is configured, not benched, wide enough, and on a     *)
(* strict tier one of those the tier names - also after climbing, with     *)
(* pins in front and the tail behind (policy.py:62 "a rung that can        *)
(* silently be served by a different model is not a rung").                *)
RungHonoured ==
    plan.awaited # NoProvider =>
        /\ plan.awaited \in plan.available \ Unavailable
        /\ Holds(plan.tier, plan.est, plan.awaited)
        /\ TierSpec[plan.tier].strict =>
              \E i \in 1 .. Len(TierSpec[plan.tier].order) :
                  plan.awaited \in InstancesOf[TierSpec[plan.tier].order[i]]

(* A cascade climbs one ladder, rung by rung, the one its role is on, and  *)
(* pays for no more than one answer per rung it is allowed                 *)
(* (policy.py:145 "without either seeing the other's rungs").              *)
ClimbsOwnLadder ==
    plan.at # "start" =>
        /\ Len(plan.visited) <= MaxEscalations + 1
        /\ \A i \in 1 .. Len(plan.visited) :
              /\ LadderName(plan.visited[i]) = LadderName(Roles[plan.role].default)
              /\ Rank(plan.visited[i]) = Rank(plan.visited[1]) + i - 1

(* The classifier's verdict keeps its order on whatever ladder it is       *)
(* carried to and whatever the role's bounds, and without bounds also its  *)
(* ends (policy.py:257 "smallest of three stays smallest of three").       *)
VerdictKeepsOrder ==
    LET rungs == Ladders["default"]
        first == plan.visited[1]
    IN  plan.classified \in ToSet(rungs) =>
          /\ \A t \in ToSet(rungs) :
                Rank(t) <= Rank(plan.classified) => Rank(TierForRole(plan.role, t)) <= Rank(first)
          /\ (Roles[plan.role].min = NoTier /\ plan.classified = rungs[1]) => Rank(first) = 0
          /\ (Roles[plan.role].max = NoTier /\ plan.classified = rungs[Len(rungs)])
                => Rank(first) = Len(LadderOf(first)) - 1

(* Every routed request ends: no ring and no cascade spins.                *)
EveryPlanEnds == (plan.at = "ring") ~> (plan.at \in {"answered", "failed"})

(* From the verdict to the last climb a request stays where its role and   *)
(* its tiers allow it to be (policy.py:243-422).                           *)
RoutingSound == RungHonoured /\ ClimbsOwnLadder /\ VerdictKeepsOrder
=============================================================================
