------------------------------- MODULE Budget -------------------------------
(***************************************************************************)
(* The budget controller of glc/economics/budget.py over the ledger of     *)
(* glc/db.py: policies from budgets.yaml shadowed by the runtime table of  *)
(* POST /v1/budget, admission on the projected cost, and the row written   *)
(* when the call has ended.  Admission and row are steps of different      *)
(* requests' interleaving: between them the provider is awaited, limits    *)
(* are moved, periods end and the process restarts.                        *)
(***************************************************************************)
EXTENDS Pricing, FiniteSets, FiniteSetsExt

CONSTANTS
    Payers,             \* concurrent requests
    Values,             \* concrete principals, "agent:a"
    Principals,         \* what a request can carry: sets of Values
    Patterns,           \* principals of policies, "agent:*"
    Governs,            \* pattern -> the values it matches
    Specificity,        \* pattern -> rank: exact above globs, longer above shorter
    BudgetFiles,        \* the contents budgets.yaml can have at a start; some do not load
    Limits,             \* the policies an operator posts
    PeriodLength,       \* period -> its length, 0 for lifetime
    Calls,              \* [provider, model, est, max, batch, caches, prompt, answer]
    BudgetMaxTime,      \* bounds: the clock, the ledger's rows, the restarts
    MaxBooked,
    MaxRestarts

BudgetPolicies == [usd: Nat, period: DOMAIN PeriodLength, errors: BOOLEAN]

ASSUME BudgetAssumption ==
    /\ Governs \in [Patterns -> SUBSET Values] /\ Specificity \in [Patterns -> Nat]
    /\ PeriodLength \in [DOMAIN PeriodLength -> Nat]
    /\ Limits \subseteq BudgetPolicies
    /\ \A f \in BudgetFiles :
          /\ DOMAIN f.policies \subseteq Patterns /\ IsFiniteSet(DOMAIN f.policies)
          /\ \A p \in DOMAIN f.policies : f.policies[p] \in BudgetPolicies
          /\ {f.outputRatio, f.safety, f.minUsd} \subseteq Nat
    /\ \A c \in Calls : /\ {c.est, c.max, c.prompt, c.answer} \subseteq Nat
                         /\ c.est <= c.prompt /\ c.max <= c.answer

VARIABLES
    bNow,
    file,       \* the controller's file policies, defaults and projection
    overrides,  \* table budget_limits: pattern -> policy
    booked,     \* table calls: the ledger
    paying,     \* request -> the call it awaits, for whom, its projection
    rule,       \* history: value -> what its calls were admitted under
    restarts    \* history

budgetVars == <<bNow, file, overrides, booked, paying, rule, restarts>>

NoCall == [who |-> {}, call |-> [none |-> TRUE], projected |-> 0, active |-> FALSE]

Unruled == [usd |-> 0, periods |-> {}, errors |-> TRUE, free |-> FALSE]

LedgerRows ==
    [ts: Nat, who: Principals, provider: {c.provider : c \in Calls}, usd: Nat, ok: BOOLEAN]

BudgetTypeOK ==
    /\ bNow \in Nat /\ restarts \in Nat
    /\ file \in BudgetFiles
    /\ \A p \in DOMAIN file.policies : p \in Patterns /\ file.policies[p] \in BudgetPolicies
    /\ DOMAIN overrides \subseteq Patterns
    /\ \A p \in DOMAIN overrides : overrides[p] \in BudgetPolicies
    /\ \A i \in 1 .. Len(booked) : booked[i] \in LedgerRows
    /\ \A p \in Payers : paying[p].active => paying[p].who \in Principals /\ paying[p].call \in Calls
    /\ \A v \in Values : rule[v] \in [usd: Nat, periods: SUBSET DOMAIN PeriodLength,
                                      errors: BOOLEAN, free: BOOLEAN]

BudgetInit ==
    /\ bNow = 0 /\ restarts = 0 /\ overrides = <<>> /\ booked = <<>>
    /\ file \in BudgetFiles
    /\ paying = [p \in Payers |-> NoCall]
    /\ rule = [v \in Values |-> Unruled]

-----------------------------------------------------------------------------
PeriodStart(period, now) ==
    IF PeriodLength[period] = 0 THEN 0 ELSE now - (now % PeriodLength[period])

(* Rows of a value since a time; SpendUsd is db.spend_usd.                 *)
RowsOf(v, since, errors) ==
    {i \in 1 .. Len(booked) : /\ v \in booked[i].who /\ booked[i].ts >= since
                              /\ errors \/ booked[i].ok}

SpendUsd(v, since, errors) ==
    MapThenSumSet(LAMBDA i : booked[i].usd, RowsOf(v, since, errors))

(* Mutant of Policies: the file wins over what was posted.                 *)
PoliciesFileFirst ==
    [p \in DOMAIN file.policies \cup DOMAIN overrides |->
        IF p \in DOMAIN file.policies THEN file.policies[p] ELSE overrides[p]]

Policies ==
    [p \in DOMAIN file.policies \cup DOMAIN overrides |->
        IF p \in DOMAIN overrides THEN overrides[p] ELSE file.policies[p]]

Matching(v) == {p \in DOMAIN Policies : v \in Governs[p]}

(* The most specific; among equals the first in the controller's order,    *)
(* which no caller can tell.                                               *)
PolicyFor(v) ==
    LET best == {p \in Matching(v) : \A q \in Matching(v) : Specificity[q] <= Specificity[p]}
    IN  Policies[CHOOSE p \in best : TRUE]

Spent(v) == SpendUsd(v, PeriodStart(PolicyFor(v).period, bNow), PolicyFor(v).errors)

Governed(who) == {v \in who : Matching(v) # {}}

(* Mutant of WithinBudget: the projection is left out.                     *)
WithinSpent(who, projected) == \A v \in Governed(who) : Spent(v) <= PolicyFor(v).usd

WithinBudget(who, projected) ==
    \A v \in Governed(who) : Spent(v) + projected <= PolicyFor(v).usd

Project(call) ==
    LET out == IF file.ratio THEN (call.est * file.outputRatio) \div 100 ELSE call.max
        usd == ProjectUsd(call.provider, call.model, call.est, out, call.batch, file.safety)
    IN  IF usd >= file.minUsd THEN usd ELSE file.minUsd

(* What an admission shows a value: the limit it was under, or none.       *)
Ruled(who) ==
    [v \in Values |->
        IF v \notin who THEN rule[v]
        ELSE IF ~file.enabled \/ Matching(v) = {} THEN [rule[v] EXCEPT !.free = TRUE]
        ELSE LET p == PolicyFor(v)
             IN  [usd |-> IF p.usd > rule[v].usd THEN p.usd ELSE rule[v].usd,
                  periods |-> rule[v].periods \cup {p.period},
                  errors |-> rule[v].errors /\ p.errors, free |-> rule[v].free]]

Admit(c, who, call) ==
    /\ file.loads /\ ~paying[c].active
    /\ Len(booked) + Cardinality({p \in Payers : paying[p].active}) < MaxBooked
    /\ \/ ~file.enabled
       \/ Governed(who) = {} /\ file.unmatchedAllowed
       \/ Governed(who) # {} /\ WithinBudget(who, Project(call))
    /\ paying' = [paying EXCEPT ![c] =
                    [who |-> who, call |-> call, projected |-> Project(call), active |-> TRUE]]
    /\ rule' = Ruled(who)
    /\ UNCHANGED <<bNow, file, overrides, booked, restarts>>

(* What a row can book of a call: the provider's own counts.  The estimate *)
(* is a quarter of the prompt's characters, and a repaired answer's prompt *)
(* is longer, so the counted prompt may fall short of it or exceed it, up  *)
(* to call.prompt; the answer is at most call.answer.  What a cache served *)
(* and what was written into a new one are counted beside the prompt, and  *)
(* one call can have both.                                                 *)
UsageOf(call) ==
    {u \in [in: 0 .. call.prompt, out: 0 .. call.answer,
            read: 0 .. call.prompt, write: 0 .. call.prompt] :
        /\ u.read > 0 => call.caches \in {"reported", "minted"}
        /\ u.write > 0 => call.caches = "minted"}

NoUsage == [in |-> 0, out |-> 0, read |-> 0, write |-> 0]

(* The row's price.  Its model is the one the call was admitted for: each  *)
(* client reports the model it was asked for, or its own.                  *)
CallUsd(call, usage) == CostOf(PriceFor(call.provider, call.model), usage, call.batch)

(* Meter.record: the call has ended, well or badly, and its row is priced  *)
(* and written, with the time of the writing; a failed call books nothing. *)
Record(c, usage, ok) ==
    /\ paying[c].active /\ (ok \/ usage = NoUsage)
    /\ booked' = Append(booked,
                   [ts |-> bNow, who |-> paying[c].who, provider |-> paying[c].call.provider,
                    usd |-> CallUsd(paying[c].call, usage), ok |-> ok])
    /\ paying' = [paying EXCEPT ![c] = NoCall]
    /\ UNCHANGED <<bNow, file, overrides, rule, restarts>>

(* POST and DELETE /v1/budget.                                             *)
SetLimit(pattern, policy) ==
    /\ file.loads
    /\ overrides' = [p \in DOMAIN overrides \cup {pattern} |->
                        IF p = pattern THEN policy ELSE overrides[p]]
    /\ UNCHANGED <<bNow, file, booked, paying, rule, restarts>>

ClearLimit(pattern) ==
    /\ file.loads /\ pattern \in DOMAIN overrides
    /\ overrides' = [p \in DOMAIN overrides \ {pattern} |-> overrides[p]]
    /\ UNCHANGED <<bNow, file, booked, paying, rule, restarts>>

(* Mutant of Restart: the runtime limits live in memory.                   *)
RestartForgetting(f) ==
    /\ restarts < MaxRestarts
    /\ restarts' = restarts + 1
    /\ file' = f
    /\ overrides' = <<>>
    /\ paying' = [p \in Payers |-> NoCall]
    /\ UNCHANGED <<bNow, booked, rule>>

(* The process dies and boots: budgets.yaml is read again, what was in     *)
(* flight is never booked, the tables stay.                                *)
Restart(f) ==
    /\ restarts < MaxRestarts
    /\ restarts' = restarts + 1
    /\ file' = f
    /\ paying' = [p \in Payers |-> NoCall]
    /\ UNCHANGED <<bNow, overrides, booked, rule>>

BudgetTick ==
    /\ bNow < BudgetMaxTime
    /\ bNow' = bNow + 1
    /\ UNCHANGED <<file, overrides, booked, paying, rule, restarts>>

BudgetNext ==
    \/ \E c \in Payers, who \in Principals, call \in Calls : Admit(c, who, call)
    \/ \E c \in Payers, ok \in BOOLEAN :
          /\ paying[c].active
          /\ \E usage \in UsageOf(paying[c].call) : Record(c, usage, ok)
    \/ \E p \in Patterns, limit \in Limits : SetLimit(p, limit)
    \/ \E p \in Patterns : ClearLimit(p)
    \/ \E f \in BudgetFiles : Restart(f)
    \/ BudgetTick

BudgetSpec == BudgetInit /\ [][BudgetNext]_budgetVars

-----------------------------------------------------------------------------
Usages == UNION {{<<c, u>> : u \in UsageOf(c)} : c \in Calls}
Dearest == Max({CallUsd(x[1], x[2]) : x \in Usages})

(* What the projection prices, and by how much a row can exceed its price: *)
(* by the tokens that the estimate missed and what the cache adds.         *)
Full(call) == [in |-> call.est, out |-> call.max, read |-> 0, write |-> 0]

Excess == Max({CallUsd(x[1], x[2]) - CallUsd(x[1], Full(x[1])) : x \in Usages})

(* Whatever the interleaving of requests that carry several principals, of *)
(* moved limits, ends of periods and restarts: what the ledger books for a *)
(* governed principal within a period exceeds the greatest limit it was    *)
(* admitted under by no more than one call's excess over its projection    *)
(* -- tokens the estimate missed, a repair's longer prompt, the cache's    *)
(* surcharge -- and the cost of the other calls in flight (budget.py:463   *)
(* against meter.py:184).                                                  *)
SpendBounded ==
    \A v \in Values : \A period \in rule[v].periods :
        (rule[v].periods = {period} /\ ~rule[v].free) =>
            SpendUsd(v, PeriodStart(period, bNow), rule[v].errors)
                <= rule[v].usd + Excess + (Cardinality(Payers) - 1) * Dearest

(* A limit posted stays in force until it is deleted: no request is        *)
(* admitted for a value whose most specific posted limit is spent, in this *)
(* process or after a restart, unless the file is more specific            *)
(* (budget.py:302: a POST is "authoritative").                             *)
PostedLimitHolds ==
    [][\A p \in DOMAIN overrides, c \in Payers :
          /\ ~paying[c].active /\ paying'[c].active /\ file.enabled
          => \A v \in Governs[p] \cap paying'[c].who :
                \/ \E q \in (DOMAIN overrides \cup DOMAIN file.policies) \ {p} :
                      v \in Governs[q] /\ Specificity[q] >= Specificity[p]
                \/ SpendUsd(v, PeriodStart(overrides[p].period, bNow), overrides[p].errors)
                      + paying'[c].projected <= overrides[p].usd]_budgetVars

(* Nothing but a DELETE takes a posted limit away.                         *)
LimitsSurvive ==
    [][\A p \in DOMAIN overrides :
          p \notin DOMAIN overrides' => restarts' = restarts /\ paying' = paying]_budgetVars

(* Limits posted at run time bind, and outlive the process (budget.py:279).*)
PostedLimitsBind == PostedLimitHolds /\ LimitsSurvive
=============================================================================
