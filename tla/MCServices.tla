----------------------------- MODULE MCServices -----------------------------
(* One run over what the routes call: the routing policy, the embedder     *)
(* ring, two provider clients, the policy engine and the fetch of images.  *)
(* They share no state, so each behaviour follows one of them (part) and   *)
(* leaves the others as they started.                                      *)
EXTENDS RoutingPolicy, EmbedRing, HealingClient, GeminiClient, PolicyEngine, UrlGuard,
        TLC

VARIABLE part
servicesVars == <<part, plan, embedVars, healVars, geminiCallVars, policyVars, urlVars>>

ServicesInit ==
    /\ part \in {"routing", "embed", "healing", "gemini", "policy", "url"}
    /\ RoutingInit /\ EmbedInit
    /\ HealInit
    /\ part # "healing" =>
          /\ wanted = [dial |-> "unset", format |-> "text", thinker |-> FALSE, supports |-> FALSE,
                       streams |-> FALSE]
          /\ server = CHOOSE s \in Servers : TRUE
          /\ ~body.word
    /\ GeminiCallInit
    /\ part # "gemini"  =>
          /\ wish = [marked |-> {}, cacheAll |-> FALSE, long |-> FALSE, thinks |-> FALSE,
                     knob |-> "none"]
          /\ refuses = {}
    /\ PolicyInit /\ (part # "policy" => policyFile = Unusable)
    /\ UrlInit /\ (part # "url" => \A h \in Hosts : zone[h] = <<CHOOSE a \in Forbidden : TRUE>>)

(* The part that the behaviour follows takes its step; the others do not.  *)
Part(name, next, its) == IF part = name THEN next ELSE UNCHANGED its

ServicesNext ==
    /\ UNCHANGED part
    /\ Part("routing", RoutingNext, plan)
    /\ Part("embed", EmbedNext, embedVars)
    /\ Part("healing", HealNext, healVars)
    /\ Part("gemini", GeminiCallNext, geminiCallVars)
    /\ Part("policy", PolicyNext, policyVars)
    /\ Part("url", UrlNext, urlVars)

(* An await of a routed request, of an embedding or of a fetch returns in  *)
(* the end, and a thread that can go on does.                              *)
ServicesSpec ==
    /\ ServicesInit /\ [][ServicesNext]_servicesVars
    /\ WF_plan(CallNext \/ NoneLeft)
    /\ WF_plan(Unanswered \/ \E signals \in SUBSET DOMAIN ScoreOf : Judged(signals))
    /\ \A c \in EmbedCallers : WF_embedVars(EmbedResume(c))
    /\ PolicyFairness
    /\ UrlFairness

(* The clients' requests are healed as far as the server allows, say what  *)
(* was asked for, and are reported as they were sent (providers.py:443-544,*)
(* 775-917).                                                               *)
ClientsSound == HealedWhereAble /\ AppliedIsTrue /\ EffortKept /\ SystemReadOnce /\ ReportsTrue

(* Everything that is begun ends: routed requests, embeddings, fetches and *)
(* verdicts, but for the thread that a signal catches with a lock.         *)
ServicesEnd == EveryPlanEnds /\ EveryEmbedEnds /\ EveryVerdictComes /\ EveryFetchEnds

(* The parts' states, requests and bodies keep their types.                *)
ServicesTypeOK ==
    EmbedTypeOK /\ HealTypeOK /\ GeminiCallTypeOK /\ PolicyTypeOK /\ UrlTypeOK

-----------------------------------------------------------------------------
(* Three rungs for everybody and two for the benched role; the middle tier *)
(* and the upper bench rung are strict.                                    *)
MCLadders == "default" :> <<"tiny", "large", "huge">> @@ "rungs" :> <<"r1", "r2">>
TierOf(order, ctx, strict, objective) ==
    [order |-> order, min_ctx |-> ctx, strict |-> strict, objective |-> objective]
MCTierSpec ==
    "tiny" :> TierOf(<<"q", "g">>, 0, FALSE, "cost") @@
    "large" :> TierOf(<<"g", "q">>, 2, TRUE, "balanced") @@
    "huge" :> TierOf(<<"o">>, 2, FALSE, "quality") @@
    "r1" :> TierOf(<<"q">>, 0, FALSE, "order") @@
    "r2" :> TierOf(<<"o", "q">>, 0, TRUE, "order")
RoleOf(default, min, max, escalate) ==
    [default |-> default, min |-> min, max |-> max, escalate |-> escalate]
MCRoles ==
    "any" :> RoleOf("large", "none", "none", TRUE) @@
    "perception" :> RoleOf("tiny", "none", "large", FALSE) @@
    "plan" :> RoleOf("huge", "large", "none", TRUE) @@
    "bench" :> RoleOf("r1", "none", "none", TRUE)
MCInstances == <<"g_1", "g_2", "q", "o">>
MCInstancesOf == "g" :> {"g_1", "g_2"} @@ "q" :> {"q"} @@ "o" :> {"o"}
MCMaxCtx == "g_1" :> 4 @@ "g_2" :> 4 @@ "q" :> 1 @@ "o" :> 0
MCBlendedCost == "g_1" :> 2 @@ "g_2" :> 2 @@ "q" :> 0 @@ "o" :> 9
MCQuality == "g_1" :> 60 @@ "g_2" :> 60 @@ "q" :> 40 @@ "o" :> 90
MCScoreOf == "empty_response" :> 0 @@ "short" :> 30 @@ "truncated" :> 45

(* The first embedder may be called once in two seconds, the other twice,  *)
(* but not within one second.                                              *)
MCEmbedOrder == <<"ollama", "gemini">>
MCEmbedRpm == "ollama" :> 1 @@ "gemini" :> 2
MCEmbedCooldown == "ollama" :> 0 @@ "gemini" :> 1
MCBackoffSteps == <<1, 2>>

(* Servers that know both, one or none of the two fields, that name none   *)
(* or some of the efforts, and that do without schemas.                    *)
MCServers ==
    [knows: SUBSET BodyKeys,
     efforts: {{"none", "low", "medium", "high"}, {"medium", "high"}, {}},
     schema: BOOLEAN, wantsWord: BOOLEAN]

(* Two sets of rules, one with a condition; a call that the owner makes    *)
(* and one, with an argument of the wrong type, that another user makes.   *)
RuleOf(tool, trust, conditional, action) ==
    [tool |-> tool, channel |-> "*", trust_level |-> trust, conditional |-> conditional, action |-> action]
MCRuleSets ==
    {<<RuleOf("*", "*", FALSE, "allow"), RuleOf("mail", "*", TRUE, "deny")>>,
     <<RuleOf("mail", "user_paired", FALSE, "require_approval")>>}
MCToolCalls ==
    {[tool |-> "mail", channel |-> "web", trust |-> "owner_paired", args |-> "other"],
     [tool |-> "mail", channel |-> "web", trust |-> "user_paired", args |-> "mistyped"]}
=============================================================================
