------------------------------ MODULE Pricing ------------------------------
(***************************************************************************)
(* The price table of glc/economics/pricing.py.  Rates are whole numbers   *)
(* per token and multipliers are per cent, so a cost is in 1/10000 of a    *)
(* unit of money and no rounding is needed.                                *)
(***************************************************************************)
EXTENDS Integers, Sequences

CONSTANTS
    ModelRates,     \* pricing.yaml models: model -> rate
    PatternRates,   \* pricing.yaml patterns: <<[match: models the glob matches, rate]>>
    ProviderRates,  \* pricing.yaml providers: base provider -> rate
    Unpriced,       \* unpriced_default
    BaseOf,         \* provider -> its name before the first "_"
    SuffixOf        \* model -> what follows its last "/", the model itself without one

(* A price: what a token in and out costs, per cent of it what reading and *)
(* writing the provider's cache cost, and what a batch costs.              *)
Rates == [in: Nat, out: Nat, read: Nat, write: Nat, batch: Nat]

ASSUME PricingAssumption ==
    /\ ModelRates \in [DOMAIN ModelRates -> Rates]
    /\ Len(PatternRates) \in Nat
    /\ \A i \in 1 .. Len(PatternRates) : PatternRates[i].rate \in Rates
    /\ ProviderRates \in [DOMAIN ProviderRates -> Rates]
    /\ Unpriced \in Rates

MatchingPatterns(model) ==
    {i \in 1 .. Len(PatternRates) : model \in PatternRates[i].match}

(* The exact model, the model without its vendor, the first pattern, the   *)
(* provider, and the default of what has no price.                         *)
PriceFor(provider, model) ==
    LET found == MatchingPatterns(model)
    IN  IF model \in DOMAIN ModelRates THEN ModelRates[model]
        ELSE IF SuffixOf[model] \in DOMAIN ModelRates THEN ModelRates[SuffixOf[model]]
        ELSE IF found # {} THEN PatternRates[CHOOSE i \in found : \A j \in found : i <= j].rate
        ELSE IF BaseOf[provider] \in DOMAIN ProviderRates THEN ProviderRates[BaseOf[provider]]
        ELSE Unpriced

CostOf(rate, usage, batch) ==
    LET factor == IF batch THEN rate.batch ELSE 100
        prompt == 100 * usage.in + rate.read * usage.read + rate.write * usage.write
    IN  factor * (prompt * rate.in + 100 * usage.out * rate.out)

(* Mutant of ProjectUsd: the answer is taken to be free.                   *)
ProjectInput(provider, model, est, max, batch, safety) ==
    (CostOf(PriceFor(provider, model), [in |-> est, out |-> 0, read |-> 0, write |-> 0], batch)
        * safety) \div 100

(* The projection: every token of the prompt fresh, every token allowed to *)
(* the answer used.                                                        *)
ProjectUsd(provider, model, est, max, batch, safety) ==
    (CostOf(PriceFor(provider, model), [in |-> est, out |-> max, read |-> 0, write |-> 0], batch)
        * safety) \div 100

=============================================================================
