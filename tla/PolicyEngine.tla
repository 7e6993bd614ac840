---------------------------- MODULE PolicyEngine ----------------------------
(***************************************************************************)
(* The policy engine (glc/policy/engine.py) and its reload on SIGHUP       *)
(* (glc/main.py).  Threads ask for verdicts; the signal's handler runs in  *)
(* the main thread, between any two of its steps, and takes the same locks *)
(* as the evaluation it interrupts.  The engine is built by the first      *)
(* caller.  One signal is handled at a time.  Who asks is external.        *)
(***************************************************************************)
EXTENDS Integers, Sequences, FiniteSets

CONSTANTS
    Threads, Main,          \* the threads that ask; the one that takes the signals
    ToolCalls,              \* [tool, channel, trust, args]: a tool call in its context;
                            \* args "fit" what conditions say, are "other" or "mistyped"
    RuleSets,               \* what policy.yaml may hold: sequences of rules
                            \* [tool, channel, trust_level, conditional, action]
    Unusable,               \* a policy.yaml that is missing or malformed
    Absent,                 \* no thread; no engine; no tool call
    MaxSignals, MaxEdits, MaxAsks   \* bounds

ASSUME PolicyAssumption ==
    /\ Main \in Threads /\ Absent \notin Threads /\ Unusable \notin RuleSets
    /\ \A rules \in RuleSets : rules \in Seq({rules[i] : i \in DOMAIN rules})
    /\ MaxSignals \in Nat /\ MaxEdits \in Nat /\ MaxAsks \in Nat

VARIABLES
    policyFile,     \* policy.yaml
    engine,         \* _engine.config.rules, or Absent
    engineLock,     \* _engine_lock: its holder
    rulesLock,      \* PolicyEngine._lock: its holder; h stands for the handler
    asking,         \* thread -> [at, q, rules, i, deny, first]: evaluate
    handler,        \* [at, new]: the signal's handler, with what from_yaml made
    verdicts,       \* thread -> the last question and its verdict
    inForce,        \* history: thread -> the rules in force since it asked
    onDisk,         \* history: the contents of policy.yaml since the signal
    sighups, edits, asks

policyVars == <<policyFile, engine, engineLock, rulesLock, asking, handler, verdicts, inForce,
                onDisk, sighups, edits, asks>>

SafeDefault ==
    <<[tool |-> "*", channel |-> "*", trust_level |-> "*", conditional |-> FALSE, action |-> "deny"]>>
AllRules == RuleSets \cup {SafeDefault, <<>>}

(* A thread that asks nothing.                                             *)
Silent == [at |-> "idle", q |-> Absent, rules |-> <<>>, i |-> 1, deny |-> 0, first |-> 0]
Verdict(action, index) == [action |-> action, index |-> index]

PolicyTypeOK ==
    /\ policyFile \in RuleSets \cup {Unusable} /\ engine \in AllRules \cup {Absent}
    /\ engineLock \in Threads \cup {Absent, "h"} /\ rulesLock \in Threads \cup {Absent, "h"}
    /\ \A t \in Threads :
         /\ asking[t].at \in {"idle", "engine", "building", "rules", "copying", "scanning"}
         /\ asking[t].q \in ToolCalls \cup {Absent} /\ asking[t].rules \in AllRules \cup {<<>>}
         /\ {asking[t].deny, asking[t].first} \subseteq 0 .. Len(asking[t].rules)
         /\ inForce[t] \subseteq AllRules
    /\ handler.at \in {"none", "engine", "building", "reading", "rules", "swapping"}
    /\ onDisk \subseteq RuleSets \cup {Unusable}

PolicyInit ==
    /\ policyFile \in RuleSets \cup {Unusable} /\ engine = Absent
    /\ engineLock = Absent /\ rulesLock = Absent
    /\ asking = [t \in Threads |-> Silent] /\ handler = [at |-> "none", new |-> <<>>]
    /\ verdicts = [t \in Threads |-> Absent] /\ inForce = [t \in Threads |-> {}] /\ onDisk = {}
    /\ sighups = 0 /\ edits = 0 /\ asks = 0

-----------------------------------------------------------------------------
(* Mutant of FromYaml: a file that cannot be used leaves no rules.         *)
FromYamlEmpty(content) == IF content = Unusable THEN <<>> ELSE content

FromYaml(content) == IF content = Unusable THEN SafeDefault ELSE content

(* _matches_condition: an argument of the wrong type counts as a match.    *)
Matches(rule, q) ==
    /\ rule.tool \in {"*", q.tool} /\ rule.channel \in {"*", q.channel}
    /\ rule.trust_level \in {"*", q.trust}
    /\ rule.conditional => q.args \in {"fit", "mistyped"}

(* A thread runs unless it is the main thread under the handler.           *)
Runs(t) == t = Main => handler.at = "none"

(* The rules in force are noted for whoever asks.                          *)
Govern(rules) ==
    /\ engine' = rules
    /\ inForce' = [t \in Threads |-> IF asking[t].at = "idle" THEN inForce[t] ELSE inForce[t] \cup {rules}]

Ask(t, q) ==
    /\ Runs(t) /\ asking[t].at = "idle" /\ asks < MaxAsks
    /\ asking' = [asking EXCEPT ![t] = [Silent EXCEPT !.at = "engine", !.q = q]]
    /\ inForce' = [inForce EXCEPT ![t] = {engine} \ {Absent}]
    /\ asks' = asks + 1
    /\ UNCHANGED <<policyFile, engine, engineLock, rulesLock, handler, verdicts, onDisk, sighups, edits>>

TakeEngine(t) ==
    /\ Runs(t) /\ asking[t].at = "engine" /\ engineLock = Absent
    /\ engineLock' = t /\ asking' = [asking EXCEPT ![t].at = "building"]
    /\ UNCHANGED <<policyFile, engine, rulesLock, handler, verdicts, inForce, onDisk, sighups, edits, asks>>

(* get_engine: the first caller reads policy.yaml, under the lock.         *)
GetEngine(t) ==
    /\ Runs(t) /\ asking[t].at = "building"
    /\ IF engine = Absent THEN Govern(FromYaml(policyFile)) ELSE UNCHANGED <<engine, inForce>>
    /\ engineLock' = Absent /\ asking' = [asking EXCEPT ![t].at = "rules"]
    /\ UNCHANGED <<policyFile, rulesLock, handler, verdicts, onDisk, sighups, edits, asks>>

TakeRules(t) ==
    /\ Runs(t) /\ asking[t].at = "rules" /\ rulesLock = Absent
    /\ rulesLock' = t /\ asking' = [asking EXCEPT ![t].at = "copying"]
    /\ UNCHANGED <<policyFile, engine, engineLock, handler, verdicts, inForce, onDisk, sighups, edits, asks>>

(* Mutant of CopyRules: the lock is not given back.                        *)
CopyRulesHolding(t) ==
    /\ Runs(t) /\ asking[t].at = "copying"
    /\ asking' = [asking EXCEPT ![t].at = "scanning", ![t].rules = engine]
    /\ UNCHANGED <<policyFile, engine, engineLock, rulesLock, handler, verdicts, inForce, onDisk, sighups, edits, asks>>

CopyRules(t) ==
    /\ Runs(t) /\ asking[t].at = "copying"
    /\ rulesLock' = Absent
    /\ asking' = [asking EXCEPT ![t].at = "scanning", ![t].rules = engine]
    /\ UNCHANGED <<policyFile, engine, engineLock, handler, verdicts, inForce, onDisk, sighups, edits, asks>>

(* Mutant of RuleAt: the rule is read where a reload may have replaced it. *)
RuleAtNow(t) == IF asking[t].i <= Len(engine) THEN engine[asking[t].i] ELSE SafeDefault[1]

RuleAt(t) == asking[t].rules[asking[t].i]

(* One rule of the scan: the first that matches, and the first that denies,*)
(* are kept, and the scan goes on.                                         *)
ScanRule(t) ==
    LET a == asking[t] IN
    /\ Runs(t) /\ a.at = "scanning" /\ a.i <= Len(a.rules)
    /\ LET hit == Matches(RuleAt(t), a.q)
           first == IF hit /\ a.first = 0 THEN a.i ELSE a.first
           deny == IF hit /\ RuleAt(t).action = "deny" /\ a.deny = 0 THEN a.i ELSE a.deny
       IN  asking' = [asking EXCEPT ![t] = [a EXCEPT !.i = @ + 1, !.first = first, !.deny = deny]]
    /\ UNCHANGED <<policyFile, engine, engineLock, rulesLock, handler, verdicts, inForce, onDisk, sighups, edits, asks>>

Decide(t) ==
    LET a == asking[t]
        verdict == IF a.deny # 0 THEN Verdict("deny", a.deny)
                   ELSE IF a.first # 0 THEN Verdict(a.rules[a.first].action, a.first)
                   ELSE Verdict(IF a.q.trust = "owner_paired" THEN "allow" ELSE "deny", 0)
    IN  /\ Runs(t) /\ a.at = "scanning" /\ a.i > Len(a.rules)
        /\ verdicts' = [verdicts EXCEPT ![t] = [q |-> a.q, verdict |-> verdict]]
        /\ asking' = [asking EXCEPT ![t] = Silent]
        /\ UNCHANGED <<policyFile, engine, engineLock, rulesLock, handler, inForce, onDisk, sighups, edits, asks>>

-----------------------------------------------------------------------------
Sighup ==
    /\ handler.at = "none" /\ sighups < MaxSignals
    /\ handler' = [at |-> "engine", new |-> <<>>]
    /\ sighups' = sighups + 1 /\ onDisk' = {policyFile}
    /\ UNCHANGED <<policyFile, engine, engineLock, rulesLock, asking, verdicts, inForce, edits, asks>>

(* reload_engine and reload: the locks are threading.Lock, which the       *)
(* thread that holds one cannot take again.                                *)
HandlerTakesEngine ==
    /\ handler.at = "engine" /\ engineLock = Absent
    /\ engineLock' = "h" /\ handler' = [handler EXCEPT !.at = "building"]
    /\ UNCHANGED <<policyFile, engine, rulesLock, asking, verdicts, inForce, onDisk, sighups, edits, asks>>

HandlerGetsEngine ==
    /\ handler.at = "building"
    /\ IF engine = Absent THEN Govern(FromYaml(policyFile)) ELSE UNCHANGED <<engine, inForce>>
    /\ engineLock' = Absent /\ handler' = [handler EXCEPT !.at = "reading"]
    /\ UNCHANGED <<policyFile, rulesLock, asking, verdicts, onDisk, sighups, edits, asks>>

ReadPolicy ==
    /\ handler.at = "reading"
    /\ handler' = [at |-> "rules", new |-> FromYaml(policyFile)]
    /\ UNCHANGED <<policyFile, engine, engineLock, rulesLock, asking, verdicts, inForce, onDisk, sighups, edits, asks>>

HandlerTakesRules ==
    /\ handler.at = "rules" /\ rulesLock = Absent
    /\ rulesLock' = "h" /\ handler' = [handler EXCEPT !.at = "swapping"]
    /\ UNCHANGED <<policyFile, engine, engineLock, asking, verdicts, inForce, onDisk, sighups, edits, asks>>

SwapRules ==
    /\ handler.at = "swapping"
    /\ Govern(handler.new)
    /\ rulesLock' = Absent /\ handler' = [at |-> "none", new |-> <<>>]
    /\ UNCHANGED <<policyFile, engineLock, asking, verdicts, onDisk, sighups, edits, asks>>

(* The operator saves another policy.yaml.                                 *)
EditPolicy(content) ==
    /\ content # policyFile /\ edits < MaxEdits
    /\ policyFile' = content /\ edits' = edits + 1 /\ onDisk' = onDisk \cup {content}
    /\ UNCHANGED <<engine, engineLock, rulesLock, asking, handler, verdicts, inForce, sighups, asks>>

EvaluateStep(t) ==
    TakeEngine(t) \/ GetEngine(t) \/ TakeRules(t) \/ CopyRules(t) \/ ScanRule(t) \/ Decide(t)

HandlerStep ==
    HandlerTakesEngine \/ HandlerGetsEngine \/ ReadPolicy \/ HandlerTakesRules \/ SwapRules

PolicyNext ==
    \/ \E t \in Threads, q \in ToolCalls : Ask(t, q)
    \/ \E t \in Threads : EvaluateStep(t)
    \/ Sighup
    \/ HandlerStep
    \/ \E content \in RuleSets \cup {Unusable} : EditPolicy(content)

(* A thread that can run is run.                                           *)
PolicyFairness == (\A t \in Threads : WF_policyVars(EvaluateStep(t))) /\ WF_policyVars(HandlerStep)

PolicySpec == PolicyInit /\ [][PolicyNext]_policyVars /\ PolicyFairness

-----------------------------------------------------------------------------
(* What the rules say of a question: the first that denies it, else the    *)
(* first that matches, else what its trust level is worth.                 *)
RulesSay(rules, q, verdict) ==
    LET hits == {i \in 1 .. Len(rules) : Matches(rules[i], q)}
        denies == {i \in hits : rules[i].action = "deny"}
        bind == IF denies # {} THEN denies ELSE hits
    IN  IF bind = {}
        THEN verdict = Verdict(IF q.trust = "owner_paired" THEN "allow" ELSE "deny", 0)
        ELSE /\ verdict.index \in bind /\ \A i \in bind : verdict.index <= i
             /\ verdict.action = rules[verdict.index].action

(* However reloads fall into an evaluation, its verdict is what one set of *)
(* rules says that was in force between the question and the verdict, and  *)
(* never a mixture of two (evaluate copies the rules under the lock).      *)
VerdictOfOneConfig ==
    \A t \in Threads : asking[t].at = "idle" /\ verdicts[t] # Absent =>
        \E rules \in inForce[t] : RulesSay(rules, verdicts[t].q, verdicts[t].verdict)

(* A reload never leaves less protection than the file it met: once the    *)
(* handler is done, a policy.yaml unusable throughout denies everything,   *)
(* and one readable throughout is what governs.                            *)
ReloadTakesEffect ==
    sighups > 0 /\ handler.at = "none" =>
        \/ engine \in onDisk
        \/ Unusable \in onDisk /\ \A q \in ToolCalls : RulesSay(engine, q, Verdict("deny", 1))

(* The main thread is caught: its handler waits for a lock that the thread *)
(* itself held when the signal came.                                       *)
Caught ==
    \/ handler.at = "engine" /\ engineLock = Main
    \/ handler.at = "rules" /\ rulesLock = Main

(* Every evaluation ends, unless a signal catches the main thread with a   *)
(* lock in hand: the locks alone block nobody for ever.                    *)
EveryVerdictComes == \A t \in Threads : asking[t].at # "idle" ~> asking[t].at = "idle" \/ Caught

(* A reload takes effect as a whole: for the verdicts under way and for    *)
(* the rules that are in force after it (engine.py:134-207).               *)
PolicySound == VerdictOfOneConfig /\ ReloadTakesEffect
=============================================================================
