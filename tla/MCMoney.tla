------------------------------ MODULE MCMoney ------------------------------
(* One run over the parts that keep what is paid, asked and said within    *)
(* bounds: the semantic cache, the prompt cache, the budget, the limiter   *)
(* of the senders and the spoken answers.  They share no state, so each    *)
(* behaviour follows one of them (part) and leaves the others as they      *)
(* started.                                                                *)
EXTENDS SemanticCache, GeminiCache, Budget, RateLimiter, Speak, TLC

VARIABLE part
moneyVars == <<part, cacheVars, geminiVars, budgetVars, vars, ttsVars>>

MoneyInit ==
    /\ part \in {"cache", "mints", "budget", "senders", "speak"}
    /\ CacheInit /\ GeminiInit /\ BudgetInit /\ Init
    /\ SpeakInit
    /\ part # "budget" => file = CHOOSE f \in BudgetFiles : TRUE

(* The part that the behaviour follows takes its step; the others do not.  *)
Part(name, next, its) == IF part = name THEN next ELSE UNCHANGED its

MoneyNext ==
    /\ UNCHANGED part
    /\ Part("cache", CacheNext, cacheVars)
    /\ Part("mints", GeminiNext, geminiVars)
    /\ Part("budget", BudgetNext, budgetVars)
    /\ Part("senders", Next, vars)
    /\ Part("speak", SpeakNext, ttsVars)

MoneySpec == MoneyInit /\ [][MoneyNext]_moneyVars

(* Each part's tables, callers and histories keep their types.             *)
MoneyTypeOK == CacheTypeOK /\ GeminiTypeOK /\ BudgetTypeOK /\ TypeOK /\ SpeakTypeOK

-----------------------------------------------------------------------------
(* q2 is close to q1 and to q3, which are not close to each other.         *)
MCLike == [p \in Questions \X Questions |->
              IF p[1] = p[2] THEN 3 ELSE IF "q2" \in {p[1], p[2]} THEN 2 ELSE 0]
MCSpaces == {[ns |-> "n", scope |-> "s"], [ns |-> "n", scope |-> "t"]}

Rate(in, out, read, write, batch) ==
    [in |-> in, out |-> out, read |-> read, write |-> write, batch |-> batch]
MCModelRates == "m" :> Rate(1, 3, 10, 125, 50)
MCPatternRates == <<[match |-> {"n"}, rate |-> Rate(1, 1, 100, 100, 100)],
                    [match |-> {"n", "v/o"}, rate |-> Rate(9, 9, 100, 100, 100)]>>
MCProviderRates == "g" :> Rate(1, 1, 100, 100, 100)
MCUnpriced == Rate(0, 0, 100, 100, 100)
MCBaseOf == "g_1" :> "g" @@ "h" :> "h"
MCSuffixOf == "v/m" :> "m" @@ "n" :> "n"
MCGoverns == "a:*" :> {"a:x"} @@ "a:x" :> {"a:x"} @@ "s:r" :> {"s:r"}
MCSpecificity == "a:*" :> 0 @@ "a:x" :> 1 @@ "s:r" :> 1
Limit(usd, period, errors) == [usd |-> usd, period |-> period, errors |-> errors]
BudgetFile(policies, unmatchedAllowed, safety, minUsd, loads) ==
    [policies |-> policies, loads |-> loads, enabled |-> TRUE, ratio |-> FALSE, outputRatio |-> 100,
     unmatchedAllowed |-> unmatchedAllowed, safety |-> safety, minUsd |-> minUsd]
MCFiles ==
    {BudgetFile("s:r" :> Limit(50000, "minute", TRUE), FALSE, 100, 0, TRUE),
     BudgetFile("a:*" :> Limit(60000, "minute", TRUE) @@ "s:r" :> Limit(40000, "lifetime", FALSE),
                TRUE, 120, 100, TRUE),
     BudgetFile(<<>>, TRUE, 100, 0, FALSE)}
MCLimits == {Limit(20000, "minute", TRUE)}
MCPeriods == "minute" :> 1 @@ "lifetime" :> 0

(* A prompt of fewer than four characters, which is estimated at nothing,  *)
(* to a client that mints caches; one whose count may fall short.          *)
MCCalls ==
    {[provider |-> "g_1", model |-> "v/m", est |-> 0, max |-> 1, caches |-> "minted",
      batch |-> FALSE, prompt |-> 1, answer |-> 1],
     [provider |-> "h", model |-> "n", est |-> 1, max |-> 1, caches |-> "none",
      batch |-> TRUE, prompt |-> 1, answer |-> 1]}

(* A sender with unequal limits, and one whose single message fills its    *)
(* window.                                                                 *)
MCCap ==
    "alice" :> [messages |-> 2, tool_calls |-> 1] @@ "bob" :> [messages |-> 1, tool_calls |-> 0]

(* Nothing, a sentence beyond a chunk after a short one, two chunks' worth.*)
MCTexts == {<<>>, <<1, 3>>, <<2, 1, 1>>}
=============================================================================
