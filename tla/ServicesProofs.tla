--------------------------- MODULE ServicesProofs ---------------------------
(***************************************************************************)
(* Theorems about what the routes call, in the composition MCServices: the *)
(* fetch of images, the policy engine under reloads, the embedder ring,    *)
(* the two provider clients, the routing policy, and the types of all of   *)
(* them.  The components share no state; each has an inductive invariant   *)
(* of its own.                                                             *)
(***************************************************************************)
EXTENDS MCServices, SharedLemmas

-----------------------------------------------------------------------------
(* The fetch of images.                                                    *)

UrlStates == {"idle", "resolving", "connecting", "asking", "reading", "refused"}
Fetches ==
    [at: UrlStates, host: Hosts \cup {NoAddress}, hops: Nat,
     pin: Addresses \cup {NoAddress}, buffered: Int]

(* What is dialled was judged when the hop was resolved, and stays judged  *)
(* whatever becomes of the name; the body is within the cap.               *)
UrlInv ==
    /\ fetch \in Fetches
    /\ fetch.at = "connecting" => fetch.pin \notin Forbidden
    /\ fetch.hops <= MaxRedirects + 1
    /\ fetch.at \in {"resolving", "connecting", "asking"} => fetch.hops <= MaxRedirects
    /\ 0 <= fetch.buffered /\ fetch.buffered <= BodyCap
    /\ zone \in [Hosts -> AddressLists]
    /\ fetch.at = "resolving" => fetch.host \in Hosts

(* A list of addresses that is judged safe begins with a judged address.   *)
LEMMA SafeHead ==
    ASSUME NEW ips \in AddressLists, Safe(ips)
    PROVE  ips[1] \in Addresses \ Forbidden
BY DEF AddressLists, Safe

(* Only a resolved hop comes to connect, every address of it judged.       *)
LEMMA UrlStep ==
    ASSUME UrlInv, [UrlNext]_urlVars
    PROVE  /\ UrlInv'
           /\ dialled' # dialled => dialled' = fetch.pin /\ dialled' \notin Forbidden
           /\ fetch'.at = "connecting" /\ fetch.at = "resolving" =>
                \A i \in DOMAIN zone[fetch.host] : zone[fetch.host][i] \notin Forbidden
<1> USE UrlGuardAssumption
<1>0. fetch.at \in UrlStates
  BY DEF UrlInv, Fetches
<1>1. ASSUME NEW host \in Hosts, FetchImage(host)
      PROVE  UrlInv' /\ UNCHANGED dialled /\ fetch'.at = "resolving"
  <2>1. fetch' = [at |-> "resolving", host |-> host, hops |-> 0, pin |-> NoAddress,
                  buffered |-> 0]
    BY <1>1 DEF FetchImage, Unfetched
  <2>2. UNCHANGED <<zone, dialled>>
    BY <1>1 DEF FetchImage
  <2> QED
    BY <2>1, <2>2 DEF UrlInv, Fetches, UrlStates
<1>2. CASE ResolveHop
  <2>1. zone[fetch.host] \in AddressLists
    BY <1>2 DEF UrlInv, ResolveHop
  <2>2. CASE Safe(zone[fetch.host])
    <3>1. zone[fetch.host][1] \in Addresses \ Forbidden
      BY <2>1, <2>2, SafeHead
    <3>2. fetch' = [fetch EXCEPT !.at = "connecting", !.pin = zone[fetch.host][1]]
      BY <1>2, <2>2 DEF ResolveHop
    <3>3. UrlInv' /\ UNCHANGED dialled
      BY <1>2, <3>1, <3>2 DEF UrlInv, ResolveHop, Fetches, UrlStates
    <3> QED
      BY <2>2, <3>3 DEF Safe
  <2>3. CASE ~Safe(zone[fetch.host])
    BY <1>2, <2>3 DEF UrlInv, ResolveHop, Fetches, UrlStates, Go
  <2> QED
    BY <2>2, <2>3
<1>3. CASE Connect
  BY <1>3 DEF UrlInv, Connect, Fetches, UrlStates, Go, DialAddress
<1>4. CASE ServerAnswers
  <2>1. UNCHANGED <<zone, dialled>> /\ fetch.at = "asking"
    BY <1>4 DEF ServerAnswers
  <2>2. ASSUME NEW host \in Hosts, fetch' = NextHop(host) PROVE UrlInv'
    <3> DEFINE at == IF fetch.hops = MaxRedirects THEN "refused" ELSE "resolving"
    <3>1. fetch' = [at |-> at, host |-> host, hops |-> fetch.hops + 1, pin |-> NoAddress,
                    buffered |-> 0]
      BY <2>2 DEF NextHop, Unfetched
    <3>2. fetch.hops \in Nat /\ fetch.hops <= MaxRedirects
      BY <2>1 DEF UrlInv, Fetches
    <3>3. /\ at \in {"refused", "resolving"}
          /\ at = "resolving" => fetch.hops + 1 <= MaxRedirects
      BY <3>2
    <3> HIDE DEF at
    <3> QED
      BY <2>1, <3>1, <3>2, <3>3 DEF UrlInv, Fetches, UrlStates
  <2>3. ASSUME NEW at \in {"refused", "reading"}, Go(at) PROVE UrlInv'
    BY <1>4, <2>1, <2>3 DEF UrlInv, Go, Fetches, UrlStates
  <2> QED
    BY <1>4, <2>1, <2>2, <2>3 DEF ServerAnswers
<1>5. CASE ReadBodyChunk
  BY <1>5 DEF UrlInv, ReadBodyChunk, Fits, Fetches, UrlStates, Go
<1>6. CASE BodyEnds
  BY <1>6 DEF UrlInv, BodyEnds, Fetches, UrlStates, Go
<1>7. ASSUME NEW host \in Hosts, NEW ips \in AddressLists, Rename(host, ips)
      PROVE  UrlInv' /\ UNCHANGED <<dialled, fetch>>
  BY <1>7 DEF UrlInv, Rename
<1>8. CASE UNCHANGED urlVars
  BY <1>8 DEF UrlInv, urlVars
<1> QED
  BY <1>1, <1>2, <1>3, <1>4, <1>5, <1>6, <1>7, <1>8 DEF UrlNext, FetchStep

(* Nothing is fetched at first.                                            *)
LEMMA UrlStart == ASSUME UrlInit PROVE UrlInv
<1> USE UrlGuardAssumption
<1>1. fetch \in Fetches /\ fetch.at = "idle" /\ fetch.hops = 0 /\ fetch.buffered = 0
  BY DEF UrlInit, Unfetched, Fetches, UrlStates
<1>2. zone \in [Hosts -> AddressLists]
  BY DEF UrlInit, AddressLists
<1> QED
  BY <1>1, <1>2 DEF UrlInv

(* For any zone, addresses and redirects, what is fetched comes from an    *)
(* address judged with its siblings and is never held beyond the cap,      *)
(* though the name may change between any two steps (fetch_bytes).         *)
THEOREM FetchAlwaysGuarded == UrlSpec => FetchGuarded
<1> USE UrlGuardAssumption
<1>1. UrlInit => UrlInv
  BY UrlStart
<1>2. UrlInv /\ [UrlNext]_urlVars => UrlInv'
  BY UrlStep
<1>3. UrlInv /\ [UrlNext]_urlVars =>
        [/\ dialled' # dialled => dialled' = fetch.pin /\ dialled' \notin Forbidden
         /\ fetch'.at = "connecting" /\ fetch.at = "resolving" =>
              \A i \in DOMAIN zone[fetch.host] : zone[fetch.host][i] \notin Forbidden]_urlVars
  BY UrlStep
<1>4. UrlInv => BodyNeverBeyondCap
  BY DEF UrlInv, BodyNeverBeyondCap
<1> QED
  BY <1>1, <1>2, <1>3, <1>4, PTL DEF UrlSpec, FetchGuarded, DialsOnlyJudged

-----------------------------------------------------------------------------
(* The policy engine.                                                      *)

Asking ==
    [at: {"idle", "engine", "building", "rules", "copying", "scanning"},
     q: ToolCalls \cup {Absent}, rules: AllRules, i: Nat, deny: Nat, first: Nat]
Handling ==
    [at: {"none", "engine", "building", "reading", "rules", "swapping"}, new: AllRules]

PolicyTypes ==
    /\ policyFile \in RuleSets \cup {Unusable}
    /\ engine \in AllRules \cup {Absent}
    /\ asking \in [Threads -> Asking]
    /\ handler \in Handling
    /\ verdicts = [t \in Threads |-> verdicts[t]]
    /\ inForce \in [Threads -> SUBSET AllRules]

(* Where the scan of rules for the question q finds what it keeps.         *)
Hits(rules, q) == {j \in 1 .. Len(rules) : Matches(rules[j], q)}
Denies(rules, q) == {j \in Hits(rules, q) : rules[j].action = "deny"}

(* k is the least of the hits below i, or 0 when there is none.            *)
FirstBelow(k, hits, i) ==
    IF \E j \in hits : j < i THEN k \in hits /\ k < i /\ \A j \in hits : k <= j ELSE k = 0

(* What a thread has scanned is judged as the whole set of rules judges it *)
(* up to there.                                                            *)
Scanned(a) ==
    /\ a.i \in Nat \ {0} /\ a.i <= Len(a.rules) + 1
    /\ FirstBelow(a.first, Hits(a.rules, a.q), a.i)
    /\ FirstBelow(a.deny, Denies(a.rules, a.q), a.i)

(* A thread has not begun to scan.                                         *)
Unscanned(a) == a.i = 1 /\ a.deny = 0 /\ a.first = 0

(* The rules a thread works with have been in force since it asked.        *)
Governed(t) ==
    /\ asking[t].at # "scanning" => Unscanned(asking[t])
    /\ asking[t].at # "idle" /\ engine # Absent => engine \in inForce[t]
    /\ asking[t].at \in {"rules", "copying", "scanning"} => engine \in inForce[t]
    /\ asking[t].at = "scanning" => asking[t].rules \in inForce[t] /\ Scanned(asking[t])
    /\ asking[t].at = "idle" /\ verdicts[t] # Absent =>
         \E rules \in inForce[t] : RulesSay(rules, verdicts[t].q, verdicts[t].verdict)

(* What the handler puts in force: a content of the file since the signal, *)
(* or the safe default for one that could not be used.                     *)
FromDisk(rules) ==
    \/ rules \in onDisk
    \/ Unusable \in onDisk /\ rules = SafeDefault

ReloadInv ==
    /\ sighups \in Nat /\ (handler.at # "none" => sighups > 0)
    /\ sighups > 0 => policyFile \in onDisk
    /\ handler.at \in {"rules", "swapping"} => FromDisk(handler.new)
    /\ handler.at = "none" /\ sighups > 0 => FromDisk(engine)

(* Rules are sequences; the safe default is one rule.                      *)
LEMMA RulesAreSequences ==
    ASSUME NEW rules \in AllRules
    PROVE  Len(rules) \in Nat
<1>1. Len(SafeDefault) = 1
  BY DEF SafeDefault
<1>2. rules \in RuleSets => rules \in Seq({rules[i] : i \in DOMAIN rules})
  BY PolicyAssumption
<1>3. rules \in RuleSets => Len(rules) \in Nat
  BY <1>2, LenProperties
<1> QED
  BY <1>1, <1>3 DEF AllRules

(* One more index is scanned: the first hit is kept, a later one is not.   *)
LEMMA FirstBelowNext ==
    ASSUME NEW hits \in SUBSET (Nat \ {0}), NEW i \in Nat \ {0}, NEW k \in Nat,
           FirstBelow(k, hits, i)
    PROVE  FirstBelow(IF i \in hits /\ k = 0 THEN i ELSE k, hits, i + 1)
<1>1. CASE \E j \in hits : j < i
  <2>1. k \in hits /\ k < i /\ k # 0 /\ \A j \in hits : k <= j
    BY <1>1 DEF FirstBelow
  <2> QED
    BY <2>1 DEF FirstBelow
<1>2. CASE ~\E j \in hits : j < i
  <2>1. k = 0 /\ \A j \in hits : i <= j
    BY <1>2 DEF FirstBelow
  <2>2. CASE i \in hits
    BY <2>1, <2>2 DEF FirstBelow
  <2>3. CASE i \notin hits
    BY <2>1, <2>3 DEF FirstBelow
  <2> QED
    BY <2>2, <2>3
<1> QED
  BY <1>1, <1>2

(* A scan that has seen every rule gives the verdict of the rules.         *)
LEMMA ScanDecides ==
    ASSUME NEW a \in Asking, Scanned(a), a.i > Len(a.rules), NEW verdict,
           verdict = IF a.deny # 0 THEN Verdict("deny", a.deny)
                     ELSE IF a.first # 0 THEN Verdict(a.rules[a.first].action, a.first)
                     ELSE Verdict(IF a.q.trust = "owner_paired" THEN "allow" ELSE "deny", 0)
    PROVE  RulesSay(a.rules, a.q, verdict)
<1> DEFINE hits == Hits(a.rules, a.q)
           denies == Denies(a.rules, a.q)
<1>1. Len(a.rules) \in Nat /\ a.first \in Nat /\ a.deny \in Nat /\ a.i \in Nat
  BY RulesAreSequences DEF Asking
<1>2. hits \subseteq 1 .. Len(a.rules) /\ denies \subseteq hits
  BY DEF Hits, Denies
<1>3. \A j \in hits : j < a.i /\ j # 0
  BY <1>1, <1>2
<1>4. IF hits # {} THEN a.first \in hits /\ \A j \in hits : a.first <= j ELSE a.first = 0
  BY <1>3 DEF Scanned, FirstBelow
<1>5. IF denies # {} THEN a.deny \in denies /\ \A j \in denies : a.deny <= j ELSE a.deny = 0
  BY <1>2, <1>3 DEF Scanned, FirstBelow
<1>6. \A j \in denies : a.rules[j].action = "deny"
  BY DEF Denies
<1>7. RulesSay(a.rules, a.q, verdict) <=>
        LET bind == IF denies # {} THEN denies ELSE hits
        IN  IF bind = {}
            THEN verdict = Verdict(IF a.q.trust = "owner_paired" THEN "allow" ELSE "deny", 0)
            ELSE /\ verdict.index \in bind /\ \A j \in bind : verdict.index <= j
                 /\ verdict.action = a.rules[verdict.index].action
  BY DEF RulesSay, Hits, Denies
<1> HIDE DEF hits, denies
<1>8. CASE denies # {}
  <2>1. a.deny # 0 /\ a.deny \in denies /\ a.rules[a.deny].action = "deny"
    BY <1>2, <1>3, <1>5, <1>6, <1>8
  <2>2. verdict.index = a.deny /\ verdict.action = "deny"
    BY <2>1 DEF Verdict
  <2> QED
    BY <1>5, <1>7, <1>8, <2>1, <2>2
<1>9. CASE denies = {} /\ hits # {}
  <2>1. a.deny = 0 /\ a.first # 0 /\ a.first \in hits
    BY <1>3, <1>4, <1>5, <1>9
  <2>2. verdict.index = a.first /\ verdict.action = a.rules[a.first].action
    BY <2>1 DEF Verdict
  <2> QED
    BY <1>4, <1>7, <1>9, <2>1, <2>2
<1>10. CASE denies = {} /\ hits = {}
  BY <1>4, <1>5, <1>7, <1>10
<1> QED
  BY <1>8, <1>9, <1>10

(* What a file, usable or not, puts in force.                              *)
LEMMA FromYamlType ==
    ASSUME NEW content \in RuleSets \cup {Unusable}
    PROVE  FromYaml(content) \in AllRules
BY DEF FromYaml, AllRules

(* Rules put in force are noted for everybody who asks.                    *)
LEMMA GovernNotes ==
    ASSUME PolicyTypes, NEW rules \in AllRules, Govern(rules)
    PROVE  /\ engine' = rules
           /\ inForce' \in [Threads -> SUBSET AllRules]
           /\ \A t \in Threads : /\ inForce[t] \subseteq inForce'[t]
                                 /\ asking[t].at # "idle" => rules \in inForce'[t]
                                 /\ asking[t].at = "idle" => inForce'[t] = inForce[t]
BY DEF PolicyTypes, Govern

(* The rules or none are replaced, and this thread does nothing.           *)
LEMMA GovernedElsewhere ==
    ASSUME PolicyTypes, NEW t \in Threads, Governed(t),
           asking'[t] = asking[t], verdicts'[t] = verdicts[t],
           \/ UNCHANGED engine /\ inForce'[t] = inForce[t]
           \/ \E rules \in AllRules : Govern(rules)
    PROVE  Governed(t)'
<1>1. CASE UNCHANGED engine /\ inForce'[t] = inForce[t]
  BY <1>1 DEF Governed
<1>2. ASSUME NEW rules \in AllRules, Govern(rules) PROVE Governed(t)'
  <2>1. /\ engine' = rules /\ inForce[t] \subseteq inForce'[t]
        /\ asking[t].at # "idle" => rules \in inForce'[t]
        /\ asking[t].at = "idle" => inForce'[t] = inForce[t]
    BY <1>2, GovernNotes
  <2> QED
    BY <2>1 DEF Governed
<1> QED
  BY <1>1, <1>2

(* A thread goes on to another point of its evaluation.                    *)
LEMMA AskingMoves ==
    ASSUME asking \in [Threads -> Asking], NEW t \in Threads,
           NEW at \in {"idle", "engine", "building", "rules", "copying", "scanning"},
           asking' = [asking EXCEPT ![t].at = at]
    PROVE  /\ asking' \in [Threads -> Asking]
           /\ Unscanned(asking[t]) => Unscanned(asking'[t])
           /\ asking'[t] = [asking[t] EXCEPT !.at = at] /\ asking'[t].at = at
           /\ \A u \in Threads \ {t} : asking'[u] = asking[u]
<1> DEFINE b == [asking[t] EXCEPT !.at = at]
<1>1. b \in Asking /\ b.at = at
  BY DEF Asking
<1>2. asking' = [asking EXCEPT ![t] = b]
  OBVIOUS
<1> HIDE DEF b
<1>3. asking' \in [Threads -> Asking] /\ asking'[t] = b
  BY <1>1, <1>2
<1>4. \A u \in Threads \ {t} : asking'[u] = asking[u]
  BY <1>2
<1> QED
  BY <1>1, <1>3, <1>4 DEF b, Unscanned, Asking

(* A step of an evaluation leaves every thread with rules that have been   *)
(* in force since it asked, and its verdict with one set of them.          *)
LEMMA EvaluateGoverned ==
    ASSUME PolicyTypes, \A u \in Threads : Governed(u), NEW t \in Threads, EvaluateStep(t)
    PROVE  PolicyTypes' /\ \A u \in Threads : Governed(u)'
<1> DEFINE a == asking[t]
           Rest == \A u \in Threads \ {t} : asking'[u] = asking[u] /\ verdicts'[u] = verdicts[u]
<1>0. /\ asking \in [Threads -> Asking] /\ a \in Asking /\ inForce \in [Threads -> SUBSET AllRules]
      /\ Len(a.rules) \in Nat /\ Governed(t)
  BY RulesAreSequences DEF PolicyTypes, Asking
<1>1. ASSUME Rest, Governed(t)',
             \/ UNCHANGED <<engine, inForce>>
             \/ \E rules \in AllRules : Govern(rules)
      PROVE  \A u \in Threads : Governed(u)'
  BY <1>1, GovernedElsewhere DEF PolicyTypes
<1>2. CASE TakeEngine(t)
  <2>1. asking' = [asking EXCEPT ![t].at = "building"] /\ a.at = "engine"
    BY <1>2 DEF TakeEngine
  <2>2. PolicyTypes' /\ Rest /\ UNCHANGED <<engine, inForce>>
    BY <1>0, <1>2, <2>1, AskingMoves DEF TakeEngine, PolicyTypes
  <2>3. Governed(t)'
    BY <1>0, <2>1, <2>2, AskingMoves DEF Governed
  <2> QED
    BY <1>1, <2>2, <2>3
<1>3. CASE GetEngine(t)
  <2>1. asking' = [asking EXCEPT ![t].at = "rules"] /\ a.at = "building"
    BY <1>3 DEF GetEngine
  <2>2. /\ Rest /\ asking' \in [Threads -> Asking]
        /\ asking'[t].at = "rules" /\ Unscanned(asking'[t])
    BY <1>0, <1>3, <2>1, AskingMoves DEF GetEngine, Governed
  <2>3. FromYaml(policyFile) \in AllRules
    BY FromYamlType DEF PolicyTypes
  <2>4. CASE engine = Absent
    <3>1. Govern(FromYaml(policyFile))
      BY <1>3, <2>4 DEF GetEngine
    <3>2. PolicyTypes' /\ engine' \in inForce'[t]
      BY <1>3, <2>1, <2>2, <2>3, <3>1, GovernNotes DEF GetEngine, PolicyTypes
    <3>3. Governed(t)'
      BY <2>2, <3>2 DEF Governed
    <3> QED
      BY <1>1, <2>2, <2>3, <3>1, <3>2, <3>3
  <2>5. CASE engine # Absent
    <3>1. PolicyTypes' /\ UNCHANGED <<engine, inForce>>
      BY <1>3, <2>2, <2>5 DEF GetEngine, PolicyTypes
    <3>2. engine \in inForce[t]
      BY <1>0, <2>1, <2>5 DEF Governed
    <3>3. Governed(t)'
      BY <2>2, <3>1, <3>2 DEF Governed
    <3> QED
      BY <1>1, <2>2, <3>1, <3>3
  <2> QED
    BY <2>4, <2>5
<1>4. CASE TakeRules(t)
  <2>1. asking' = [asking EXCEPT ![t].at = "copying"] /\ a.at = "rules"
    BY <1>4 DEF TakeRules
  <2>2. PolicyTypes' /\ Rest /\ UNCHANGED <<engine, inForce>>
    BY <1>0, <1>4, <2>1, AskingMoves DEF TakeRules, PolicyTypes
  <2>3. Governed(t)'
    BY <1>0, <2>1, <2>2, AskingMoves DEF Governed
  <2> QED
    BY <1>1, <2>2, <2>3
<1>5. CASE CopyRules(t)
  <2> DEFINE b == [a EXCEPT !.at = "scanning", !.rules = engine]
  <2>1. asking' = [asking EXCEPT ![t] = b] /\ a.at = "copying"
    BY <1>5 DEF CopyRules
  <2>2. engine \in inForce[t] /\ engine \in AllRules
    BY <1>0, <2>1 DEF Governed
  <2>3. b \in Asking /\ b.at = "scanning" /\ b.rules = engine /\ Unscanned(b)
    BY <1>0, <2>1, <2>2 DEF Asking, Governed, Unscanned
  <2> HIDE DEF b
  <2>4. /\ asking' \in [Threads -> Asking] /\ asking'[t] = b
        /\ \A u \in Threads \ {t} : asking'[u] = asking[u]
    BY <1>0, <2>1, <2>3
  <2>5. PolicyTypes' /\ Rest /\ UNCHANGED <<engine, inForce, verdicts>>
    BY <1>5, <2>4 DEF CopyRules, PolicyTypes
  <2>6. Scanned(b)
    <3>1. /\ Hits(b.rules, b.q) \subseteq Nat \ {0}
          /\ Denies(b.rules, b.q) \subseteq Nat \ {0}
          /\ Len(b.rules) \in Nat
      BY <2>3, RulesAreSequences DEF Hits, Denies, Asking
    <3> QED
      BY <2>3, <3>1 DEF Scanned, FirstBelow, Unscanned
  <2>7. Governed(t)'
    BY <2>2, <2>3, <2>4, <2>5, <2>6 DEF Governed
  <2> QED
    BY <1>1, <2>5, <2>7
<1>6. CASE ScanRule(t)
  <2> DEFINE hits == Hits(a.rules, a.q)
             denies == Denies(a.rules, a.q)
             first == IF a.i \in hits /\ a.first = 0 THEN a.i ELSE a.first
             deny == IF a.i \in denies /\ a.deny = 0 THEN a.i ELSE a.deny
             b == [a EXCEPT !.i = @ + 1, !.first = first, !.deny = deny]
  <2>1. a.at = "scanning" /\ a.i <= Len(a.rules) /\ Scanned(a) /\ a.rules \in inForce[t]
    BY <1>0, <1>6 DEF ScanRule, Governed
  <2>2. a.i \in 1 .. Len(a.rules) /\ a.i \in Nat \ {0} /\ a.first \in Nat /\ a.deny \in Nat
    BY <1>0, <2>1 DEF Scanned, Asking
  <2>3. /\ a.i \in hits <=> Matches(RuleAt(t), a.q)
        /\ a.i \in denies <=> Matches(RuleAt(t), a.q) /\ RuleAt(t).action = "deny"
    BY <2>2 DEF Hits, Denies, RuleAt
  <2>4. asking' = [asking EXCEPT ![t] = b]
    <3> DEFINE hit == Matches(RuleAt(t), a.q)
               f == IF hit /\ a.first = 0 THEN a.i ELSE a.first
               d == IF hit /\ RuleAt(t).action = "deny" /\ a.deny = 0 THEN a.i ELSE a.deny
    <3>1. asking' = [asking EXCEPT ![t] = [a EXCEPT !.i = @ + 1, !.first = f, !.deny = d]]
      BY <1>6 DEF ScanRule
    <3>2. f = first /\ d = deny
      BY <2>3
    <3> HIDE DEF f, d, first, deny
    <3> QED
      BY <3>1, <3>2
  <2>5. /\ FirstBelow(first, hits, a.i + 1)
        /\ FirstBelow(deny, denies, a.i + 1)
    <3>1. hits \in SUBSET (Nat \ {0}) /\ denies \in SUBSET (Nat \ {0})
      BY <1>0 DEF Hits, Denies
    <3>2. FirstBelow(a.first, hits, a.i) /\ FirstBelow(a.deny, denies, a.i)
      BY <2>1 DEF Scanned
    <3> HIDE DEF hits, denies
    <3> QED
      BY <2>2, <3>1, <3>2, FirstBelowNext
  <2>6. /\ b \in Asking /\ b.at = "scanning" /\ b.rules = a.rules /\ b.q = a.q
        /\ b.i = a.i + 1 /\ b.first = first /\ b.deny = deny
    <3>1. first \in Nat /\ deny \in Nat /\ a.i + 1 \in Nat
      BY <2>2
    <3> HIDE DEF first, deny
    <3> QED
      BY <1>0, <2>1, <3>1 DEF Asking
  <2>7. Scanned(b)
    <3> HIDE DEF first, deny, b
    <3> QED
      BY <1>0, <2>2, <2>5, <2>6 DEF Scanned
  <2> HIDE DEF b
  <2>8. /\ asking' \in [Threads -> Asking] /\ asking'[t] = b
        /\ \A u \in Threads \ {t} : asking'[u] = asking[u]
    BY <1>0, <2>4, <2>6
  <2>9. PolicyTypes' /\ Rest /\ UNCHANGED <<engine, inForce, verdicts>>
    BY <1>6, <2>8 DEF ScanRule, PolicyTypes
  <2>10. Governed(t)'
    BY <1>0, <2>1, <2>6, <2>7, <2>8, <2>9 DEF Governed
  <2> QED
    BY <1>1, <2>9, <2>10
<1>7. CASE Decide(t)
  <2> DEFINE verdict == IF a.deny # 0 THEN Verdict("deny", a.deny)
                        ELSE IF a.first # 0 THEN Verdict(a.rules[a.first].action, a.first)
                        ELSE Verdict(IF a.q.trust = "owner_paired" THEN "allow" ELSE "deny", 0)
  <2>1. a.at = "scanning" /\ a.i > Len(a.rules) /\ Scanned(a) /\ a.rules \in inForce[t]
    BY <1>0, <1>7 DEF Decide, Governed
  <2>2. RulesSay(a.rules, a.q, verdict)
    BY <1>0, <2>1, ScanDecides
  <2>3. /\ verdicts' = [verdicts EXCEPT ![t] = [q |-> a.q, verdict |-> verdict]]
        /\ asking' = [asking EXCEPT ![t] = Silent]
        /\ UNCHANGED <<policyFile, engine, handler, inForce>>
    BY <1>7 DEF Decide
  <2> HIDE DEF verdict
  <2>4. Silent \in Asking /\ Unscanned(Silent) /\ Silent.at = "idle"
    BY DEF Silent, Asking, Unscanned, AllRules
  <2>5. /\ asking' \in [Threads -> Asking] /\ asking'[t] = Silent
        /\ \A u \in Threads \ {t} : asking'[u] = asking[u]
    BY <1>0, <2>3, <2>4
  <2>6. /\ verdicts' = [u \in Threads |-> verdicts'[u]]
        /\ verdicts'[t] = [q |-> a.q, verdict |-> verdict]
        /\ \A u \in Threads \ {t} : verdicts'[u] = verdicts[u]
    BY <2>3 DEF PolicyTypes
  <2>7. PolicyTypes' /\ Rest
    BY <2>3, <2>5, <2>6 DEF PolicyTypes
  <2>8. Governed(t)'
    <3>1. verdicts'[t].q = a.q /\ verdicts'[t].verdict = verdict
      BY <2>6
    <3> QED
      BY <2>1, <2>2, <2>3, <2>4, <2>5, <3>1 DEF Governed
  <2> QED
    BY <1>1, <2>3, <2>7, <2>8
<1> QED
  BY <1>2, <1>3, <1>4, <1>5, <1>6, <1>7 DEF EvaluateStep

(* Nothing that a thread does not do itself changes its evaluation.        *)
LEMMA OthersGoverned ==
    ASSUME PolicyTypes, \A u \in Threads : Governed(u),
           \/ \E t \in Threads, q \in ToolCalls : Ask(t, q)
           \/ Sighup \/ HandlerStep
           \/ \E content \in RuleSets \cup {Unusable} : EditPolicy(content)
           \/ UNCHANGED policyVars
    PROVE  PolicyTypes' /\ \A u \in Threads : Governed(u)'
<1>1. ASSUME NEW t \in Threads, NEW q \in ToolCalls, Ask(t, q)
      PROVE  PolicyTypes' /\ \A u \in Threads : Governed(u)'
  <2> DEFINE b == [Silent EXCEPT !.at = "engine", !.q = q]
  <2>1. /\ asking' = [asking EXCEPT ![t] = b]
        /\ inForce' = [inForce EXCEPT ![t] = {engine} \ {Absent}]
        /\ UNCHANGED <<policyFile, engine, handler, verdicts>>
    BY <1>1 DEF Ask
  <2>2. b \in Asking /\ Unscanned(b) /\ b.at = "engine"
    BY DEF Silent, Asking, Unscanned, AllRules
  <2> HIDE DEF b
  <2>3. /\ asking' \in [Threads -> Asking] /\ asking'[t] = b
        /\ \A u \in Threads \ {t} : asking'[u] = asking[u]
    BY <2>1, <2>2 DEF PolicyTypes
  <2>4. {engine} \ {Absent} \in SUBSET AllRules
    BY DEF PolicyTypes
  <2>5. /\ inForce' \in [Threads -> SUBSET AllRules] /\ inForce'[t] = {engine} \ {Absent}
        /\ \A u \in Threads \ {t} : inForce'[u] = inForce[u]
    BY <2>1, <2>4 DEF PolicyTypes
  <2>6. PolicyTypes'
    BY <2>1, <2>3, <2>5 DEF PolicyTypes
  <2>7. Governed(t)'
    BY <2>1, <2>2, <2>3, <2>5 DEF Governed
  <2>8. ASSUME NEW u \in Threads \ {t} PROVE Governed(u)'
    BY <2>1, <2>3, <2>5, <2>8 DEF Governed
  <2> QED
    BY <2>6, <2>7, <2>8
<1>2. ASSUME PolicyTypes', UNCHANGED <<asking, verdicts>>,
             \/ UNCHANGED <<engine, inForce>>
             \/ \E rules \in AllRules : Govern(rules)
      PROVE  \A u \in Threads : Governed(u)'
  BY <1>2, GovernedElsewhere
<1>3. CASE Sighup
  <2>1. handler' \in Handling
    BY <1>3 DEF Sighup, Handling, AllRules
  <2>2. PolicyTypes' /\ UNCHANGED <<asking, verdicts, engine, inForce>>
    BY <1>3, <2>1 DEF Sighup, PolicyTypes
  <2> QED
    BY <1>2, <2>2
<1>4. CASE HandlerTakesEngine
  <2>1. handler' \in Handling
    BY <1>4 DEF HandlerTakesEngine, Handling, PolicyTypes
  <2>2. PolicyTypes' /\ UNCHANGED <<asking, verdicts, engine, inForce>>
    BY <1>4, <2>1 DEF HandlerTakesEngine, PolicyTypes
  <2> QED
    BY <1>2, <2>2
<1>5. CASE HandlerGetsEngine
  <2>1. handler' \in Handling
    BY <1>5 DEF HandlerGetsEngine, Handling, PolicyTypes
  <2>2. FromYaml(policyFile) \in AllRules
    BY FromYamlType DEF PolicyTypes
  <2>3. UNCHANGED <<policyFile, asking, verdicts>>
    BY <1>5 DEF HandlerGetsEngine
  <2>4. CASE engine = Absent
    <3>1. Govern(FromYaml(policyFile))
      BY <1>5, <2>4 DEF HandlerGetsEngine
    <3>2. PolicyTypes'
      BY <2>1, <2>2, <2>3, <3>1, GovernNotes DEF PolicyTypes
    <3> QED
      BY <1>2, <2>2, <2>3, <3>1, <3>2
  <2>5. CASE engine # Absent
    <3>1. PolicyTypes' /\ UNCHANGED <<engine, inForce>>
      BY <1>5, <2>1, <2>3, <2>5 DEF HandlerGetsEngine, PolicyTypes
    <3> QED
      BY <1>2, <2>3, <3>1
  <2> QED
    BY <2>4, <2>5
<1>6. CASE ReadPolicy
  <2>1. handler' \in Handling
    BY <1>6, FromYamlType DEF ReadPolicy, Handling, PolicyTypes
  <2>2. PolicyTypes' /\ UNCHANGED <<asking, verdicts, engine, inForce>>
    BY <1>6, <2>1 DEF ReadPolicy, PolicyTypes
  <2> QED
    BY <1>2, <2>2
<1>7. CASE HandlerTakesRules
  <2>1. handler' \in Handling
    BY <1>7 DEF HandlerTakesRules, Handling, PolicyTypes
  <2>2. PolicyTypes' /\ UNCHANGED <<asking, verdicts, engine, inForce>>
    BY <1>7, <2>1 DEF HandlerTakesRules, PolicyTypes
  <2> QED
    BY <1>2, <2>2
<1>8. CASE SwapRules
  <2>1. handler' \in Handling /\ handler.new \in AllRules
    BY <1>8 DEF SwapRules, Handling, PolicyTypes, AllRules
  <2>2. Govern(handler.new) /\ UNCHANGED <<policyFile, asking, verdicts>>
    BY <1>8 DEF SwapRules
  <2>3. PolicyTypes'
    BY <2>1, <2>2, GovernNotes DEF PolicyTypes
  <2> QED
    BY <1>2, <2>1, <2>2, <2>3
<1>9. ASSUME NEW content \in RuleSets \cup {Unusable}, EditPolicy(content)
      PROVE  PolicyTypes' /\ \A u \in Threads : Governed(u)'
  <2>1. PolicyTypes' /\ UNCHANGED <<asking, verdicts, engine, inForce>>
    BY <1>9 DEF EditPolicy, PolicyTypes
  <2> QED
    BY <1>2, <2>1
<1>10. CASE UNCHANGED policyVars
  <2>1. PolicyTypes' /\ UNCHANGED <<asking, verdicts, engine, inForce>>
    BY <1>10 DEF policyVars, PolicyTypes
  <2> QED
    BY <1>2, <2>1
<1> QED
  BY <1>1, <1>3, <1>4, <1>5, <1>6, <1>7, <1>8, <1>9, <1>10 DEF HandlerStep

(* A file's content, usable or not, is governed by what FromDisk says.     *)
LEMMA FromYamlOfDisk ==
    ASSUME NEW content \in onDisk
    PROVE  FromDisk(FromYaml(content))
BY DEF FromYaml, FromDisk

(* The handler swaps in what the file held at some moment since its signal.*)
LEMMA ReloadStep ==
    ASSUME PolicyTypes, ReloadInv, [PolicyNext]_policyVars
    PROVE  ReloadInv'
<1>1. ASSUME UNCHANGED <<policyFile, onDisk, sighups, handler, engine>>
      PROVE  ReloadInv'
  BY <1>1 DEF ReloadInv, FromDisk
<1>2. ASSUME NEW t \in Threads, EvaluateStep(t) PROVE ReloadInv'
  <2>1. CASE GetEngine(t)
    <3>1. UNCHANGED <<policyFile, onDisk, sighups, handler>>
      BY <2>1 DEF GetEngine
    <3>2. CASE engine = Absent
      <4>1. engine' = FromYaml(policyFile)
        BY <2>1, <3>2 DEF GetEngine, Govern
      <4>2. sighups > 0 => FromDisk(engine')
        BY <4>1, FromYamlOfDisk DEF ReloadInv
      <4> QED
        BY <3>1, <4>2 DEF ReloadInv, FromDisk
    <3>3. CASE engine # Absent
      BY <2>1, <3>1, <3>3, <1>1 DEF GetEngine
    <3> QED
      BY <3>2, <3>3
  <2>2. CASE TakeEngine(t)
    BY <2>2, <1>1 DEF TakeEngine
  <2>3. CASE TakeRules(t)
    BY <2>3, <1>1 DEF TakeRules
  <2>4. CASE CopyRules(t)
    BY <2>4, <1>1 DEF CopyRules
  <2>5. CASE ScanRule(t)
    BY <2>5, <1>1 DEF ScanRule
  <2>6. CASE Decide(t)
    BY <2>6, <1>1 DEF Decide
  <2> QED
    BY <1>2, <2>1, <2>2, <2>3, <2>4, <2>5, <2>6 DEF EvaluateStep
<1>3. ASSUME NEW t \in Threads, NEW q \in ToolCalls, Ask(t, q) PROVE ReloadInv'
  BY <1>3, <1>1 DEF Ask
<1>4. CASE Sighup
  BY <1>4 DEF Sighup, ReloadInv
<1>5. CASE HandlerStep
  <2>0. handler \in Handling
    BY DEF PolicyTypes
  <2>1. CASE HandlerTakesEngine
    BY <2>0, <2>1 DEF HandlerTakesEngine, ReloadInv, Handling
  <2>2. CASE HandlerGetsEngine
    BY <2>0, <2>2 DEF HandlerGetsEngine, ReloadInv, Handling
  <2>3. CASE ReadPolicy
    <3>1. handler' = [at |-> "rules", new |-> FromYaml(policyFile)] /\ handler.at = "reading"
      BY <2>3 DEF ReadPolicy
    <3>2. UNCHANGED <<policyFile, onDisk, sighups>>
      BY <2>3 DEF ReadPolicy
    <3>3. sighups > 0 => FromDisk(FromYaml(policyFile))
      BY FromYamlOfDisk DEF ReloadInv
    <3>4. sighups > 0
      BY <3>1 DEF ReloadInv
    <3> QED
      BY <3>1, <3>2, <3>3, <3>4 DEF ReloadInv, FromDisk
  <2>4. CASE HandlerTakesRules
    BY <2>0, <2>4 DEF HandlerTakesRules, ReloadInv, Handling, FromDisk
  <2>5. CASE SwapRules
    <3>1. engine' = handler.new /\ handler'.at = "none" /\ UNCHANGED <<policyFile, onDisk, sighups>>
      BY <2>5 DEF SwapRules, Govern
    <3>2. FromDisk(handler.new)
      BY <2>5 DEF SwapRules, ReloadInv
    <3> QED
      BY <3>1, <3>2 DEF ReloadInv, FromDisk
  <2> QED
    BY <1>5, <2>1, <2>2, <2>3, <2>4, <2>5 DEF HandlerStep
<1>6. ASSUME NEW content \in RuleSets \cup {Unusable}, EditPolicy(content) PROVE ReloadInv'
  BY <1>6 DEF EditPolicy, ReloadInv, FromDisk
<1>7. CASE UNCHANGED policyVars
  BY <1>7, <1>1 DEF policyVars
<1> QED
  BY <1>2, <1>3, <1>4, <1>5, <1>6, <1>7 DEF PolicyNext

PolicyInv == PolicyTypes /\ (\A t \in Threads : Governed(t)) /\ ReloadInv

(* The safe default denies whatever is asked.                              *)
LEMMA SafeDefaultDenies ==
    ASSUME NEW q \in ToolCalls
    PROVE  RulesSay(SafeDefault, q, Verdict("deny", 1))
<1>1. /\ Len(SafeDefault) = 1 /\ SafeDefault[1].action = "deny"
      /\ Matches(SafeDefault[1], q)
  BY DEF SafeDefault, Matches
<1>2. Verdict("deny", 1).index = 1 /\ Verdict("deny", 1).action = "deny"
  BY DEF Verdict
<1> QED
  BY <1>1, <1>2 DEF RulesSay

(* No thread asks at first.                                                *)
LEMMA PolicyStart == ASSUME PolicyInit PROVE PolicyInv
<1>1. Silent \in Asking /\ Unscanned(Silent) /\ Silent.at = "idle"
  BY DEF Silent, Asking, Unscanned, AllRules
<1>2. PolicyTypes
  BY <1>1 DEF PolicyInit, PolicyTypes, Handling, AllRules
<1>3. \A t \in Threads : Governed(t)
  BY <1>1 DEF PolicyInit, Governed
<1>4. ReloadInv
  BY DEF PolicyInit, ReloadInv
<1> QED
  BY <1>2, <1>3, <1>4 DEF PolicyInv

(* For any rule sets, edits of policy.yaml, signals and threads: a verdict *)
(* is what one set of rules says that was in force between the question    *)
(* and the verdict, and once the handler is done, a content that the file  *)
(* had since the signal governs, or the safe default for an unusable one   *)
(* (evaluate, reload and from_yaml in glc/policy/engine.py).               *)
THEOREM PolicyAlwaysSound == PolicySpec => []PolicySound
<1>1. PolicyInit => PolicyInv
  BY PolicyStart
<1>2. PolicyInv /\ [PolicyNext]_policyVars => PolicyInv'
  BY EvaluateGoverned, OthersGoverned, ReloadStep DEF PolicyInv, PolicyNext
<1>3. PolicyInv => PolicySound
  <2> SUFFICES ASSUME PolicyInv PROVE PolicySound
    OBVIOUS
  <2>1. VerdictOfOneConfig
    BY DEF PolicyInv, Governed, VerdictOfOneConfig
  <2>2. ReloadTakesEffect
    BY SafeDefaultDenies DEF PolicyInv, ReloadInv, FromDisk, ReloadTakesEffect
  <2> QED
    BY <2>1, <2>2 DEF PolicySound
<1> QED
  BY <1>1, <1>2, <1>3, PTL DEF PolicySpec

-----------------------------------------------------------------------------
(* The embedder ring.                                                      *)

InFlight(e) == {c \in EmbedCallers : eWalk[c].at = e}

(* The deque q is the history h but for entries that have left the window. *)
KeptOf(q, h) ==
    \E k \in 0 .. Len(h) :
        /\ q = SubSeq(h, k + 1, Len(h))
        /\ \A i \in 1 .. k : h[i] < eNow - Window

(* The successes within the window and n calls in flight are fewer than    *)
(* the limit and the callers together.                                     *)
RoomFor(e, h, n) ==
    \E m \in 0 .. Len(h) :
        /\ \A i \in 1 .. m : h[i] < eNow - Window
        /\ Len(h) - m + n <= EmbedRpm[e] + Cardinality(EmbedCallers) - 1

EmbedKept(e) ==
    /\ KeptOf(eState[e].calls_minute, eAnswered[e])
    /\ EmbedRpm[e] > 0 =>
         /\ RoomFor(e, eAnswered[e], Cardinality(InFlight(e)))
         /\ Spaced(eAnswered[e], EmbedRpm[e] + Cardinality(EmbedCallers) - 1)

EmbedInv == EmbedTypeOK /\ \A e \in Embedders : EmbedKept(e)

(* Numbers have a least one.                                               *)
LEMMA LeastOf ==
    ASSUME NEW S \in SUBSET Nat, S # {}
    PROVE  \E i \in S : \A j \in S : i <= j
<1>1. PICK k \in S : \A j \in S : <<j, k>> \notin OpToRel(<, Nat)
  BY WFMin, NatLessThanWellFounded
<1>2. \A j \in S : ~(j < k)
  BY <1>1 DEF OpToRel
<1> QED
  BY <1>2

(* The callers at an embedder are a number of them.                        *)
LEMMA FlightCounts ==
    ASSUME NEW F \in SUBSET EmbedCallers
    PROVE  /\ IsFiniteSet(F) /\ Cardinality(F) \in Nat
           /\ Cardinality(EmbedCallers) \in Nat
           /\ Cardinality(F) <= Cardinality(EmbedCallers)
<1>1. IsFiniteSet(EmbedCallers)
  BY EmbedAssumption
<1>2. IsFiniteSet(F)
  BY <1>1, FS_Subset
<1>3. Cardinality(F) <= Cardinality(EmbedCallers)
  BY <1>1, FS_Subset
<1> QED
  BY <1>1, <1>2, <1>3, FS_CardinalityType

(* Trimming drops what has left the window, and keeps the rest.            *)
LEMMA TrimKeeps ==
    ASSUME eNow \in Nat, NEW s \in EmbedRateState, NEW h \in Times, KeptOf(s.calls_minute, h)
    PROVE  /\ Trim(s) \in EmbedRateState
           /\ \E m \in 0 .. Len(h) :
                /\ Trim(s).calls_minute = SubSeq(h, m + 1, Len(h))
                /\ \A i \in 1 .. m : h[i] < eNow - Window
<1>1. PICK k \in 0 .. Len(h) : /\ s.calls_minute = SubSeq(h, k + 1, Len(h))
                               /\ \A i \in 1 .. k : h[i] < eNow - Window
  BY DEF KeptOf
<1>2. eNow - Window \in Int
  BY WindowAssumption
<1>3. PICK m \in k .. Len(h) :
         /\ FromCutoff(SubSeq(h, k + 1, Len(h)), eNow - Window) = SubSeq(h, m + 1, Len(h))
         /\ \A i \in 1 .. m : h[i] < eNow - Window
  BY <1>1, <1>2, FromCutoffOfSuffix
<1>4. m \in 0 .. Len(h) /\ m \in Nat
  BY <1>3, LenProperties DEF Times
<1>5. SubSeq(h, m + 1, Len(h)) \in Times
  BY <1>4, SuffixType DEF Times
<1>6. Trim(s) = [s EXCEPT !.calls_minute = SubSeq(h, m + 1, Len(h))]
  BY <1>1, <1>3 DEF Trim
<1>7. Trim(s).calls_minute = SubSeq(h, m + 1, Len(h)) /\ Trim(s) \in EmbedRateState
  BY <1>5, <1>6 DEF EmbedRateState
<1> QED
  BY <1>3, <1>4, <1>7

(* An embedder that can be used has room for the calls of every caller.    *)
LEMMA FreeHasRoom ==
    ASSUME eNow \in Nat, NEW e \in Embedders, EmbedRpm[e] > 0,
           NEW s \in EmbedRateState, NEW h \in Times, KeptOf(s.calls_minute, h),
           EmbedderFree(Trim(s), e), NEW F \in SUBSET EmbedCallers
    PROVE  RoomFor(e, h, Cardinality(F))
<1>1. PICK m \in 0 .. Len(h) :
         /\ Trim(s).calls_minute = SubSeq(h, m + 1, Len(h))
         /\ \A i \in 1 .. m : h[i] < eNow - Window
  BY TrimKeeps
<1>2. Len(h) \in Nat /\ m \in Nat /\ EmbedRpm[e] \in Nat
  BY EmbedAssumption, LenProperties DEF Times
<1>3. Len(SubSeq(h, m + 1, Len(h))) = Len(h) - m
  <2>1. \A i \in (m + 1) .. Len(h) : h[i] \in Nat
    BY <1>2 DEF Times
  <2> QED
    BY <1>2, <2>1, SubSeqProperties
<1>4. Len(h) - m < EmbedRpm[e]
  BY <1>1, <1>3 DEF EmbedderFree
<1>5. /\ Cardinality(F) \in Nat /\ Cardinality(EmbedCallers) \in Nat
      /\ Cardinality(F) <= Cardinality(EmbedCallers)
  BY FlightCounts
<1>6. Len(h) - m + Cardinality(F) <= EmbedRpm[e] + Cardinality(EmbedCallers) - 1
  BY <1>2, <1>4, <1>5
<1> QED
  BY <1>1, <1>6 DEF RoomFor

(* Fewer calls in flight need no more room.                                *)
LEMMA RoomForFewer ==
    ASSUME NEW e \in Embedders, NEW h \in Times,
           NEW F \in SUBSET EmbedCallers, NEW G \in SUBSET F,
           RoomFor(e, h, Cardinality(F))
    PROVE  RoomFor(e, h, Cardinality(G))
<1>1. Cardinality(G) <= Cardinality(F) /\ Cardinality(G) \in Nat /\ Cardinality(F) \in Nat
  <2>1. IsFiniteSet(F)
    BY FlightCounts
  <2> QED
    BY <2>1, FS_Subset, FlightCounts
<1>2. Cardinality(EmbedCallers) \in Nat /\ EmbedRpm[e] \in Nat /\ Len(h) \in Nat
  BY FlightCounts, EmbedAssumption, LenProperties DEF Times
<1>3. PICK m \in 0 .. Len(h) :
         /\ \A i \in 1 .. m : h[i] < eNow - Window
         /\ Len(h) - m + Cardinality(F) <= EmbedRpm[e] + Cardinality(EmbedCallers) - 1
  BY DEF RoomFor
<1>4. Len(h) - m + Cardinality(G) <= EmbedRpm[e] + Cardinality(EmbedCallers) - 1
  BY <1>1, <1>2, <1>3
<1> QED
  BY <1>3, <1>4 DEF RoomFor

(* The candidates are examined until one is free: it was trimmed with the  *)
(* others examined, and had room for one more call when it was.            *)
LEMMA AdvanceKeeps ==
    ASSUME EmbedTypeOK, NEW c \in EmbedCallers, NEW left \in Seq(Embedders),
           NEW state \in [Embedders -> EmbedRateState], NEW pin \in Embedders \cup {NoEmbedder},
           \A e \in Embedders :
               /\ KeptOf(state[e].calls_minute, eAnswered[e])
               /\ EmbedRpm[e] > 0 =>
                    /\ RoomFor(e, eAnswered[e], Cardinality(InFlight(e) \ {c}))
                    /\ Spaced(eAnswered[e], EmbedRpm[e] + Cardinality(EmbedCallers) - 1),
           Advance(c, left, state, pin), UNCHANGED <<eNow, eAnswered>>
    PROVE  EmbedInv'
<1> DEFINE free == {i \in 1 .. Len(left) : EmbedderFree(Trim(state[left[i]]), left[i])}
           first == CHOOSE i \in free : \A j \in free : i <= j
           seen == IF free = {} THEN Len(left) ELSE first
           examined == {left[i] : i \in 1 .. seen}
           walk == IF free = {} THEN Resting
                   ELSE [left |-> SubSeq(left, first + 1, Len(left)), at |-> left[first],
                         pin |-> pin]
           Walks == [left: Seq(Embedders), at: Embedders \cup {NoEmbedder},
                     pin: Embedders \cup {NoEmbedder}]
<1>0. /\ eNow \in Nat /\ eAnswered \in [Embedders -> Times] /\ eWalk \in [EmbedCallers -> Walks]
      /\ \A x \in EmbedCallers : eWalk[x].at = NoEmbedder => eWalk[x] = Resting
      /\ NoEmbedder \notin Embedders
  BY EmbedAssumption DEF EmbedTypeOK
<1>1. /\ eState' = [e \in Embedders |-> IF e \in examined THEN Trim(state[e]) ELSE state[e]]
      /\ eWalk' = [eWalk EXCEPT ![c] = walk]
  BY DEF Advance
<1>2. Len(left) \in Nat /\ \A i \in 1 .. Len(left) : left[i] \in Embedders
  BY LenProperties, ElementOfSeq
<1>3. free # {} => first \in free /\ first \in 1 .. Len(left)
  <2>1. free \in SUBSET Nat
    BY <1>2
  <2> HIDE DEF free
  <2>2. free # {} => \E i \in free : \A j \in free : i <= j
    BY <2>1, LeastOf
  <2>3. free # {} => first \in free
    BY <2>2
  <2>4. free \subseteq 1 .. Len(left)
    BY DEF free
  <2> QED
    BY <2>3, <2>4
<1>4. free # {} => EmbedderFree(Trim(state[left[first]]), left[first])
  <2> HIDE DEF first
  <2> QED
    BY <1>3
<1> HIDE DEF free, first
<1>5. /\ walk \in Walks /\ (walk.at = NoEmbedder => walk = Resting)
      /\ walk.at # NoEmbedder => EmbedderFree(Trim(state[walk.at]), walk.at)
  <2>1. CASE free = {}
    BY <2>1, <1>0 DEF Resting
  <2>2. CASE free # {}
    <3>1. SubSeq(left, first + 1, Len(left)) \in Seq(Embedders)
      BY <1>2, <1>3, <2>2, SuffixType
    <3>2. left[first] \in Embedders
      BY <1>2, <1>3, <2>2
    <3> QED
      BY <1>0, <1>4, <2>2, <3>1, <3>2
  <2> QED
    BY <2>1, <2>2
<1> HIDE DEF walk, examined
<1>6. /\ eWalk' \in [EmbedCallers -> Walks] /\ eWalk'[c] = walk
      /\ \A x \in EmbedCallers \ {c} : eWalk'[x] = eWalk[x]
  BY <1>0, <1>1, <1>5
<1>7. \A e \in Embedders : /\ Trim(state[e]) \in EmbedRateState
                           /\ KeptOf(Trim(state[e]).calls_minute, eAnswered[e])
  BY <1>0, TrimKeeps DEF KeptOf
<1>8. \A e \in Embedders : eState'[e] = state[e] \/ eState'[e] = Trim(state[e])
  BY <1>1
<1>9. EmbedTypeOK'
  <2>1. eState' \in [Embedders -> EmbedRateState]
    BY <1>1, <1>7
  <2>2. \A x \in EmbedCallers : eWalk'[x].at = NoEmbedder => eWalk'[x] = Resting
    BY <1>0, <1>5, <1>6
  <2> QED
    BY <1>0, <1>6, <2>1, <2>2 DEF EmbedTypeOK
<1>10. ASSUME NEW e \in Embedders PROVE EmbedKept(e)'
  <2> DEFINE flight == {x \in EmbedCallers : eWalk'[x].at = e}
  <2>1. KeptOf(eState'[e].calls_minute, eAnswered[e])
    BY <1>7, <1>8
  <2>2. KeptOf(eState[e].calls_minute, eAnswered[e])'
    BY <2>1 DEF KeptOf
  <2>3. ASSUME EmbedRpm[e] > 0 PROVE RoomFor(e, eAnswered[e], Cardinality(flight))
    <3>1. flight \in SUBSET EmbedCallers
      OBVIOUS
    <3>2. CASE walk.at = e
      <4>1. EmbedderFree(Trim(state[e]), e)
        BY <1>0, <1>5, <3>2
      <4> HIDE DEF flight
      <4> QED
        BY <1>0, <2>3, <3>1, <4>1, FreeHasRoom
    <3>3. CASE walk.at # e
      <4>1. flight = InFlight(e) \ {c}
        BY <1>6, <3>3 DEF InFlight
      <4> QED
        BY <2>3, <4>1
    <3> QED
      BY <3>2, <3>3
  <2>4. EmbedRpm[e] > 0 => RoomFor(e, eAnswered[e], Cardinality(InFlight(e)))'
    BY <2>3 DEF RoomFor, InFlight
  <2> QED
    BY <2>2, <2>4 DEF EmbedKept, Spaced
<1> QED
  BY <1>9, <1>10 DEF EmbedInv

(* A failure is booked without a trace in the deque.                       *)
LEMMA FailedKeeps ==
    ASSUME eNow \in Nat, NEW s \in EmbedRateState
    PROVE  Failed(s) \in EmbedRateState /\ Failed(s).calls_minute = s.calls_minute
<1> DEFINE step == IF s.backoff_step < Len(BackoffSteps)
                   THEN s.backoff_step + 1 ELSE Len(BackoffSteps)
           until == eNow + BackoffSteps[step]
<1>1. Len(BackoffSteps) \in Nat \ {0} /\ s.backoff_step \in Nat
  BY EmbedAssumption, EmptySeq, LenProperties DEF EmbedRateState
<1>2. step \in 1 .. Len(BackoffSteps)
  BY <1>1
<1>3. BackoffSteps[step] \in Nat
  BY <1>2, EmbedAssumption, ElementOfSeq
<1>4. until \in Nat /\ s.backoff_step + 1 \in Nat
  <2> HIDE DEF step
  <2> QED
    BY <1>1, <1>3
<1>5. Failed(s) = [s EXCEPT !.backoff_step = s.backoff_step + 1, !.unavailable_until = until]
  BY DEF Failed
<1> HIDE DEF until
<1> QED
  BY <1>4, <1>5 DEF EmbedRateState

(* The steps of the ring keep the invariant.                               *)
LEMMA EmbedStep ==
    ASSUME EmbedInv, [EmbedNext]_embedVars
    PROVE  EmbedInv'
<1> DEFINE Walks == [left: Seq(Embedders), at: Embedders \cup {NoEmbedder},
                     pin: Embedders \cup {NoEmbedder}]
<1>0. /\ eNow \in Nat /\ eAnswered \in [Embedders -> Times] /\ eWalk \in [EmbedCallers -> Walks]
      /\ eState \in [Embedders -> EmbedRateState]
      /\ \A x \in EmbedCallers : eWalk[x].at = NoEmbedder => eWalk[x] = Resting
      /\ NoEmbedder \notin Embedders /\ EmbedOrder \in Seq(Embedders)
      /\ EmbedTypeOK
  BY EmbedAssumption DEF EmbedInv, EmbedTypeOK
<1>1. \A c \in EmbedCallers, e \in Embedders :
        EmbedRpm[e] > 0 => RoomFor(e, eAnswered[e], Cardinality(InFlight(e) \ {c}))
  <2> SUFFICES ASSUME NEW c \in EmbedCallers, NEW e \in Embedders, EmbedRpm[e] > 0
               PROVE  RoomFor(e, eAnswered[e], Cardinality(InFlight(e) \ {c}))
    OBVIOUS
  <2>1. InFlight(e) \in SUBSET EmbedCallers /\ InFlight(e) \ {c} \in SUBSET InFlight(e)
    BY DEF InFlight
  <2>2. RoomFor(e, eAnswered[e], Cardinality(InFlight(e)))
    BY DEF EmbedInv, EmbedKept
  <2> QED
    BY <1>0, <2>1, <2>2, RoomForFewer
<1>2. ASSUME NEW c \in EmbedCallers, NEW pin \in Embedders \cup {NoEmbedder}, EmbedRequest(c, pin)
      PROVE  EmbedInv'
  <2>1. Candidates(pin) \in Seq(Embedders)
    BY <1>0 DEF Candidates
  <2>2. Advance(c, Candidates(pin), eState, pin) /\ UNCHANGED <<eNow, eAnswered>>
    BY <1>2 DEF EmbedRequest
  <2> QED
    BY <1>0, <1>1, <2>1, <2>2, AdvanceKeeps DEF EmbedInv, EmbedKept
<1>8. ASSUME NEW c \in EmbedCallers, eWalk' = [eWalk EXCEPT ![c] = Resting]
      PROVE  /\ eWalk' \in [EmbedCallers -> Walks]
             /\ \A x \in EmbedCallers : eWalk'[x].at = NoEmbedder => eWalk'[x] = Resting
             /\ \A e \in Embedders : InFlight(e)' = InFlight(e) \ {c}
  <2>1. Resting \in Walks /\ Resting.at = NoEmbedder
    BY DEF Resting
  <2>2. eWalk'[c] = Resting /\ \A x \in EmbedCallers \ {c} : eWalk'[x] = eWalk[x]
    BY <1>0, <1>8
  <2>3. eWalk' \in [EmbedCallers -> Walks]
    BY <1>0, <1>8, <2>1
  <2> QED
    BY <1>0, <2>1, <2>2, <2>3 DEF InFlight
<1>3. ASSUME NEW c \in EmbedCallers, EmbedSucceeds(c) PROVE EmbedInv'
  <2>0. PICK e \in Embedders : e = eWalk[c].at
    BY <1>0, <1>3 DEF EmbedSucceeds
  <2> DEFINE h == eAnswered[e]
             q == eState[e].calls_minute
             F == InFlight(e)
             N == Cardinality(EmbedCallers)
             cap == EmbedRpm[e] + N - 1
  <2>1. /\ e \in Embedders /\ UNCHANGED eNow
        /\ eState' = [eState EXCEPT ![e] = Recorded(@)]
        /\ eWalk' = [eWalk EXCEPT ![c] = Resting]
        /\ eAnswered' = [eAnswered EXCEPT ![e] = Append(@, eNow)]
    BY <1>3, <2>0 DEF EmbedSucceeds
  <2>2. c \in F /\ F \in SUBSET EmbedCallers
    BY <2>0 DEF InFlight
  <2>3. /\ h \in Times /\ q \in Times /\ Len(h) \in Nat /\ N \in Nat /\ EmbedRpm[e] \in Nat
        /\ Cardinality(F) \in Nat /\ IsFiniteSet(F)
    BY <1>0, <2>1, <2>2, FlightCounts, LenProperties, EmbedAssumption DEF Times, EmbedRateState
  <2>4. Cardinality(F \ {c}) = Cardinality(F) - 1 /\ Cardinality(F) > 0
    <3>1. Cardinality(F \ {c}) = Cardinality(F) - 1
      BY <2>2, <2>3, FS_RemoveElement
    <3>2. F \ {c} \in SUBSET EmbedCallers
      BY <2>2
    <3>3. Cardinality(F \ {c}) \in Nat
      BY <3>2, FlightCounts
    <3> QED
      BY <2>3, <3>1, <3>3
  <2>5. /\ Append(h, eNow) \in Times /\ Append(q, eNow) \in Times
        /\ Len(Append(h, eNow)) = Len(h) + 1
        /\ \A i \in 1 .. Len(h) : Append(h, eNow)[i] = h[i]
    BY <1>0, <2>3 DEF Times
  <2>6. KeptOf(Append(q, eNow), Append(h, eNow))
    <3>1. PICK k \in 0 .. Len(h) : /\ q = SubSeq(h, k + 1, Len(h))
                                   /\ \A i \in 1 .. k : h[i] < eNow - Window
      BY <2>1 DEF EmbedInv, EmbedKept, KeptOf
    <3>2. Append(q, eNow) = SubSeq(Append(h, eNow), k + 1, Len(Append(h, eNow)))
      <4> HIDE DEF h, q
      <4> QED
        BY <1>0, <2>3, <3>1, AppendToSuffix
    <3>3. k \in 0 .. Len(Append(h, eNow))
          /\ \A i \in 1 .. k : Append(h, eNow)[i] < eNow - Window
      BY <2>3, <2>5, <3>1
    <3> QED
      BY <3>2, <3>3 DEF KeptOf
  <2>7. ASSUME EmbedRpm[e] > 0
        PROVE  /\ RoomFor(e, Append(h, eNow), Cardinality(F \ {c}))
               /\ Spaced(Append(h, eNow), cap)
    <3>1. PICK m \in 0 .. Len(h) : /\ \A i \in 1 .. m : h[i] < eNow - Window
                                   /\ Len(h) - m + Cardinality(F) <= cap
      BY <2>1, <2>7 DEF EmbedInv, EmbedKept, RoomFor
    <3>2. Len(h) - m < cap /\ cap \in Nat
      BY <2>3, <2>4, <2>7, <3>1
    <3>3. Spaced(h, cap)
      BY <2>1, <2>7 DEF EmbedInv, EmbedKept
    <3>4. Spaced(Append(h, eNow), cap)
      <4> HIDE DEF cap, h
      <4> QED
        BY <1>0, <2>3, <3>1, <3>2, <3>3, AppendKeepsSpaced
    <3>5. m \in 0 .. Len(Append(h, eNow))
          /\ \A i \in 1 .. m : Append(h, eNow)[i] < eNow - Window
      BY <2>3, <2>5, <3>1
    <3>6. Len(Append(h, eNow)) - m + Cardinality(F \ {c}) <= cap
      BY <2>3, <2>4, <2>5, <3>1
    <3> QED
      BY <3>4, <3>5, <3>6 DEF RoomFor
  <2>8. /\ Recorded(eState[e]) \in EmbedRateState
        /\ Recorded(eState[e]).calls_minute = Append(q, eNow)
    BY <1>0, <2>5 DEF Recorded, EmbedRateState
  <2>9. /\ eState' \in [Embedders -> EmbedRateState] /\ eState'[e] = Recorded(eState[e])
        /\ \A x \in Embedders \ {e} : eState'[x] = eState[x]
    BY <1>0, <2>1, <2>8
  <2>10. /\ eAnswered' \in [Embedders -> Times] /\ eAnswered'[e] = Append(h, eNow)
         /\ \A x \in Embedders \ {e} : eAnswered'[x] = eAnswered[x]
    BY <1>0, <2>1, <2>5
  <2>11. EmbedTypeOK'
    BY <1>0, <1>8, <2>1, <2>9, <2>10 DEF EmbedTypeOK
  <2>12. EmbedKept(e)'
    <3>1. InFlight(e)' = F \ {c}
      BY <1>8, <2>1
    <3>2. KeptOf(eState[e].calls_minute, eAnswered[e])'
      BY <2>1, <2>6, <2>8, <2>9, <2>10 DEF KeptOf
    <3>3. ASSUME EmbedRpm[e] > 0
          PROVE  /\ RoomFor(e, eAnswered'[e], Cardinality(InFlight(e)'))
                 /\ Spaced(eAnswered'[e], cap)
      <4> HIDE DEF F, cap, h
      <4> QED
        BY <2>7, <2>10, <3>1, <3>3
    <3>4. EmbedRpm[e] > 0 => RoomFor(e, eAnswered[e], Cardinality(InFlight(e)))'
      BY <2>1, <3>3 DEF RoomFor
    <3> QED
      BY <2>1, <3>2, <3>3, <3>4 DEF EmbedKept
  <2>13. ASSUME NEW x \in Embedders \ {e} PROVE EmbedKept(x)'
    <3>1. InFlight(x)' = InFlight(x)
      BY <1>8, <2>0, <2>1, <2>13 DEF InFlight
    <3> QED
      BY <2>1, <2>9, <2>10, <2>13, <3>1 DEF EmbedInv, EmbedKept, KeptOf, RoomFor
  <2> QED
    BY <2>11, <2>12, <2>13 DEF EmbedInv
<1>4. ASSUME NEW c \in EmbedCallers, EmbedFails(c) PROVE EmbedInv'
  <2> DEFINE e == eWalk[c].at
             after == [eState EXCEPT ![e] = Failed(@)]
  <2>1. e \in Embedders /\ eWalk[c].left \in Seq(Embedders) /\ UNCHANGED <<eNow, eAnswered>>
    BY <1>0, <1>4 DEF EmbedFails
  <2>2. Failed(eState[e]) \in EmbedRateState /\ Failed(eState[e]).calls_minute = eState[e].calls_minute
    BY <1>0, <2>1, FailedKeeps
  <2>3. /\ after \in [Embedders -> EmbedRateState]
        /\ \A x \in Embedders : after[x].calls_minute = eState[x].calls_minute
    BY <1>0, <2>1, <2>2
  <2>4. CASE eWalk[c].pin # NoEmbedder
    <3>1. eState' = after /\ eWalk' = [eWalk EXCEPT ![c] = Resting]
      BY <1>4, <2>4 DEF EmbedFails
    <3> HIDE DEF after
    <3>2. EmbedTypeOK'
      BY <1>0, <1>8, <2>1, <2>3, <3>1 DEF EmbedTypeOK
    <3>3. ASSUME NEW x \in Embedders PROVE EmbedKept(x)'
      <4>1. InFlight(x)' = InFlight(x) \ {c}
        BY <1>8, <3>1
      <4>2. EmbedRpm[x] > 0 => RoomFor(x, eAnswered[x], Cardinality(InFlight(x)'))
        BY <1>1, <4>1
      <4>3. EmbedRpm[x] > 0 => RoomFor(x, eAnswered[x], Cardinality(InFlight(x)))'
        BY <2>1, <4>2 DEF RoomFor
      <4>4. eState'[x].calls_minute = eState[x].calls_minute
        BY <2>3, <3>1
      <4> QED
        BY <2>1, <4>3, <4>4 DEF EmbedInv, EmbedKept, KeptOf, Spaced
    <3> QED
      BY <3>2, <3>3 DEF EmbedInv
  <2>5. CASE eWalk[c].pin = NoEmbedder
    <3>1. Advance(c, eWalk[c].left, after, NoEmbedder)
      BY <1>4, <2>5 DEF EmbedFails
    <3> HIDE DEF after
    <3> QED
      BY <1>0, <1>1, <2>1, <2>3, <3>1, AdvanceKeeps DEF EmbedInv, EmbedKept
  <2> QED
    BY <2>4, <2>5
<1>5. CASE EmbedStatus
  <2>1. /\ eState' = [e \in Embedders |-> Trim(eState[e])]
        /\ UNCHANGED <<eNow, eWalk, eAnswered>>
    BY <1>5 DEF EmbedStatus
  <2>2. \A e \in Embedders : /\ Trim(eState[e]) \in EmbedRateState
                             /\ KeptOf(Trim(eState[e]).calls_minute, eAnswered[e])
    BY <1>0, TrimKeeps DEF EmbedInv, EmbedKept, KeptOf
  <2>3. EmbedTypeOK'
    <3>1. eState' \in [Embedders -> EmbedRateState]
      BY <2>1, <2>2
    <3> QED
      BY <1>0, <2>1, <3>1 DEF EmbedTypeOK
  <2>4. ASSUME NEW e \in Embedders PROVE EmbedKept(e)'
    <3>1. KeptOf(eState'[e].calls_minute, eAnswered[e])
      BY <2>1, <2>2
    <3> QED
      BY <2>1, <3>1 DEF EmbedInv, EmbedKept, KeptOf, RoomFor, InFlight
  <2> QED
    BY <2>3, <2>4 DEF EmbedInv
<1>6. CASE EmbedTick
  <2>1. eNow' = eNow + 1 /\ UNCHANGED <<eState, eWalk, eAnswered>>
    BY <1>6 DEF EmbedTick
  <2>2. EmbedTypeOK'
    BY <1>0, <2>1 DEF EmbedTypeOK
  <2>3. ASSUME NEW e \in Embedders PROVE EmbedKept(e)'
    <3>0. Len(eAnswered[e]) \in Nat /\ \A i \in 1 .. Len(eAnswered[e]) : eAnswered[e][i] \in Nat
      BY <1>0, LenProperties, ElementOfSeq DEF Times
    <3>1. \A m \in 0 .. Len(eAnswered[e]) :
            (\A i \in 1 .. m : eAnswered[e][i] < eNow - Window)
              => \A i \in 1 .. m : eAnswered[e][i] < eNow' - Window
      BY <1>0, <2>1, <3>0, WindowAssumption
    <3>2. KeptOf(eState[e].calls_minute, eAnswered[e])'
      BY <2>1, <3>1 DEF EmbedInv, EmbedKept, KeptOf
    <3>3. EmbedRpm[e] > 0 => RoomFor(e, eAnswered[e], Cardinality(InFlight(e)))'
      BY <2>1, <3>1 DEF EmbedInv, EmbedKept, RoomFor, InFlight
    <3> QED
      BY <2>1, <3>2, <3>3 DEF EmbedInv, EmbedKept, Spaced
  <2> QED
    BY <2>2, <2>3 DEF EmbedInv
<1>7. CASE UNCHANGED embedVars
  <2>1. EmbedTypeOK'
    BY <1>0, <1>7 DEF embedVars, EmbedTypeOK
  <2>2. ASSUME NEW e \in Embedders PROVE EmbedKept(e)'
    BY <1>7 DEF embedVars, EmbedInv, EmbedKept, KeptOf, RoomFor, InFlight
  <2> QED
    BY <2>1, <2>2 DEF EmbedInv
<1> QED
  BY <1>2, <1>3, <1>4, <1>5, <1>6, <1>7 DEF EmbedNext

(* No embedder has been called at first.                                   *)
LEMMA EmbedStart == ASSUME EmbedInit PROVE EmbedInv
<1>1. /\ <<>> \in Times /\ Len(<<>>) = 0
      /\ Resting.left \in Seq(Embedders) /\ Resting.at = NoEmbedder
      /\ Resting.pin = NoEmbedder
  BY DEF Times, Resting
<1>2. EmbedTypeOK
  BY <1>1, EmbedAssumption DEF EmbedInit, EmbedTypeOK, EmbedRateState, Resting
<1>3. ASSUME NEW e \in Embedders PROVE EmbedKept(e)
  <2>1. eState[e].calls_minute = <<>> /\ eAnswered[e] = <<>>
    BY DEF EmbedInit
  <2>2. KeptOf(<<>>, <<>>)
    <3>1. SubSeq(<<>>, 1, 0) = <<>>
      BY SubSeqEmpty
    <3> QED
      BY <1>1, <3>1 DEF KeptOf
  <2>3. InFlight(e) = {}
    BY <1>1, EmbedAssumption DEF EmbedInit, InFlight
  <2>4. Cardinality(InFlight(e)) = 0
    BY <2>3, FS_EmptySet
  <2>5. Cardinality(EmbedCallers) \in Nat /\ EmbedRpm[e] \in Nat
    BY EmbedAssumption, FS_CardinalityType
  <2>6. EmbedRpm[e] > 0 => RoomFor(e, <<>>, 0)
    BY <1>1, <2>5 DEF RoomFor
  <2>7. Spaced(<<>>, EmbedRpm[e] + Cardinality(EmbedCallers) - 1)
    BY <1>1 DEF Spaced
  <2> QED
    BY <2>1, <2>2, <2>4, <2>6, <2>7 DEF EmbedKept
<1> QED
  BY <1>2, <1>3 DEF EmbedInv

(* For any ring, limits and finite number of concurrent callers, and any   *)
(* interleaving of their calls, failures and snapshots, rpm + callers      *)
(* successes of an embedder always span more than a minute.                *)
THEOREM EmbedRpmAlwaysBounded == EmbedSpec => []EmbedRpmBounded
<1>1. EmbedInit => EmbedInv
  BY EmbedStart
<1>2. EmbedInv /\ [EmbedNext]_embedVars => EmbedInv'
  BY EmbedStep
<1>3. EmbedInv => EmbedRpmBounded
  <2> SUFFICES ASSUME EmbedInv, NEW e \in Embedders, EmbedRpm[e] > 0,
                      NEW i \in 1 .. Len(eAnswered[e]),
                      i + EmbedRpm[e] + Cardinality(EmbedCallers) - 1 <= Len(eAnswered[e])
               PROVE  eAnswered[e][i + EmbedRpm[e] + Cardinality(EmbedCallers) - 1]
                        - eAnswered[e][i] > Window
    BY DEF EmbedRpmBounded
  <2>1. Cardinality(EmbedCallers) \in Nat /\ EmbedRpm[e] \in Nat /\ i \in Int
    BY EmbedAssumption, FS_CardinalityType
  <2>2. i + EmbedRpm[e] + Cardinality(EmbedCallers) - 1
          = i + (EmbedRpm[e] + Cardinality(EmbedCallers) - 1)
    BY <2>1
  <2>3. Spaced(eAnswered[e], EmbedRpm[e] + Cardinality(EmbedCallers) - 1)
    BY DEF EmbedInv, EmbedKept
  <2> QED
    BY <2>2, <2>3 DEF Spaced
<1> QED
  BY <1>1, <1>2, <1>3, PTL DEF EmbedSpec

-----------------------------------------------------------------------------
(* The provider clients.                                                   *)

(* How often the reasoning fields of b can still be changed: "off" for a   *)
(* level, a level for nothing, and the other dialect's field for nothing.  *)
Dialects(b) ==
    (IF b.effort = "none" THEN 2 ELSE IF b.effort = "absent" THEN 0 ELSE 1)
        + (IF b.kwargs THEN 1 ELSE 0)

(* A level that was not asked for stands where the server, if it knows the *)
(* field, does not take "none", and is not above the least that it takes.  *)
LeastInstead ==
    /\ wanted.dial = "off"
    /\ "reasoning_effort" \in server.knows => "none" \notin server.efforts
    /\ \A i, j \in 1 .. 3 : Levels[i] = body.effort /\ Levels[j] \in server.efforts => i <= j

(* An answer is to the body as it is, until the body is changed.           *)
Heard ==
    /\ answer.status \in {200, 400, 503}
    /\ answer.status = 200 => ObjectsTo(server, body) = {}
    /\ answer.status = 400 => answer.names # {} /\ answer.names \subseteq ObjectsTo(server, body)
    /\ answer.status = 503 => busy > 0 /\ answer.names = {}

(* The budget of the loop suffices for what can still be changed, and a    *)
(* server that objects to reasoning fields alone is never given up.        *)
HealInv ==
    /\ HealTypeOK
    /\ applied = (KeysIn(body) # {})
    /\ body.effort \in Range(Levels) => body.effort = wanted.dial \/ LeastInstead
    /\ body.effort = "none" => wanted.dial = "off"
    /\ healAt = "heal" => Heard
    /\ healAt = "answered" => ObjectsTo(server, body) = {}
    /\ healAt \in {"heal", "healing"} => Dialects(body) <= budget
    /\ OnlyReasoning /\ ~wanted.streams => healAt \in {"first", "heal", "healing", "answered"}

LEMMA LevelsAre ==
    /\ Range(Levels) = {"low", "medium", "high"}
    /\ Efforts = {"none", "low", "medium", "high"}
    /\ Len(Levels) = 3 /\ DOMAIN Levels = 1 .. 3
    /\ Levels[1] = "low" /\ Levels[2] = "medium" /\ Levels[3] = "high"
<1>1. Len(Levels) = 3 /\ DOMAIN Levels = 1 .. 3
      /\ Levels[1] = "low" /\ Levels[2] = "medium" /\ Levels[3] = "high"
  BY DEF Levels
<1>2. Range(Levels) = {"low", "medium", "high"}
  BY <1>1 DEF Range
<1> QED
  BY <1>1, <1>2 DEF Efforts

(* What is picked of the listed efforts is listed, and none is below it.   *)
LEMMA LeastListed ==
    ASSUME NEW listed \in SUBSET Range(Levels), listed # {}
    PROVE  /\ LeastLevel(listed) \in listed
           /\ \A i, j \in 1 .. 3 : Levels[i] = LeastLevel(listed) /\ Levels[j] \in listed => i <= j
<1> DEFINE Least(i) == Levels[i] \in listed /\ \A j \in 1 .. i - 1 : Levels[j] \notin listed
<1>1. \E i \in 1 .. 3 : Least(i)
  BY LevelsAre
<1>2. PICK i \in DOMAIN Levels : LeastLevel(listed) = Levels[i] /\ Least(i)
  BY <1>1, LevelsAre DEF LeastLevel
<1> QED
  BY <1>2, LevelsAre

(* What a post makes of the answer, whatever body it carries.              *)
LEMMA PostedHeard ==
    ASSUME HealTypeOK, Posted(body), UNCHANGED <<server, body>>
    PROVE  /\ Heard' /\ busy' \in 0 .. MaxBusy /\ busy <= busy'
           /\ answer' \in [status: {0, 200, 400, 503}, names: SUBSET Objections, low: BOOLEAN]
<1> DEFINE wrong == ObjectsTo(server, body)
<1>1. wrong \subseteq Objections
  BY DEF ObjectsTo, KeysIn, Objections, BodyKeys
<1>2. busy \in 0 .. MaxBusy /\ MaxBusy \in Nat
  BY HealingAssumption DEF HealTypeOK
<1> HIDE DEF wrong
<1> DEFINE good == [status |-> 200, names |-> {}, low |-> FALSE]
           refusals == [status: {400}, names: (SUBSET wrong) \ {{}}, low: BOOLEAN]
           down == [status |-> 503, names |-> {}, low |-> FALSE]
<1>3. CASE answer' = good /\ wrong = {}
  <2>1. answer'.status = 200 /\ answer'.names = {}
    BY <1>3
  <2>2. answer' \in [status: {0, 200, 400, 503}, names: SUBSET Objections, low: BOOLEAN]
    BY <1>3
  <2>3. busy' = busy
    BY <2>1 DEF Posted
  <2>4. Heard'
    BY <1>3, <2>1 DEF Heard, wrong
  <2> QED
    BY <1>2, <2>2, <2>3, <2>4
<1>4. CASE answer' \in refusals
  BY <1>1, <1>2, <1>4 DEF Posted, Heard, wrong
<1>5. CASE answer' = down /\ busy < MaxBusy
  BY <1>1, <1>2, <1>5 DEF Posted, Heard, wrong
<1>6. answer' \in (IF wrong = {} THEN {good} ELSE refusals)
                     \cup (IF busy < MaxBusy THEN {down} ELSE {})
  BY DEF Posted, Answers, wrong
<1> HIDE DEF good, refusals, down
<1>7. \/ answer' = good /\ wrong = {}
      \/ answer' \in refusals
      \/ answer' = down /\ busy < MaxBusy
  BY <1>6
<1> QED
  BY ONLY <1>3, <1>4, <1>5, <1>7
(* What is healed is still a body, has one thing less that can be changed, *)
(* and keeps what was asked for.                                           *)
LEMMA HealedBody ==
    ASSUME HealInv, healAt = "heal", answer.status # 200, Healed(body) # body,
           NEW b, b = Healed(body)
    PROVE  /\ b \in Body /\ Dialects(b) < Dialects(body)
           /\ b.format = body.format /\ b.word = body.word
           /\ b.effort # "none" \/ b.effort = body.effort
           /\ b.effort \in Range(Levels) =>
                 \/ b.effort = body.effort
                 \/ /\ wanted.dial = "off" /\ body.effort = "none"
                    /\ b.effort = LeastLevel(Listed) /\ Listed # {}
                    /\ "reasoning_effort" \in server.knows => "levels" \in answer.names
<1>1. /\ body \in Body /\ answer \in [status: {0, 200, 400, 503}, names: SUBSET Objections, low: BOOLEAN]
      /\ Heard /\ (body.effort = "none" => wanted.dial = "off")
  BY DEF HealInv, HealTypeOK
<1>2. Listed \subseteq Range(Levels)
  BY DEF Listed
<1>3. CASE body.effort = "none" /\ Says("reasoning_effort") /\ Listed # {}
  <2>1. b = [body EXCEPT !.effort = LeastLevel(Listed)]
    BY <1>3 DEF Healed
  <2>2. LeastLevel(Listed) \in Range(Levels)
    BY <1>2, <1>3, LeastListed
  <2>3. LeastLevel(Listed) \in Efforts /\ LeastLevel(Listed) \notin {"none", "absent"}
    BY <2>2, LevelsAre
  <2>4. b \in Body /\ b.effort = LeastLevel(Listed) /\ b.kwargs = body.kwargs
        /\ b.format = body.format /\ b.word = body.word
    BY <1>1, <2>1, <2>3 DEF Body
  <2>5. Dialects(b) < Dialects(body)
    BY <1>1, <1>3, <2>3, <2>4 DEF Dialects
  <2>6. "reasoning_effort" \in server.knows => "levels" \in answer.names
    BY <1>1, <1>3 DEF Says, Heard, ObjectsTo
  <2> QED
    BY <1>1, <1>3, <2>3, <2>4, <2>5, <2>6
<1>4. CASE ~(body.effort = "none" /\ Says("reasoning_effort") /\ Listed # {})
  <2>1. b = [body EXCEPT !.effort = IF "reasoning_effort" \in Named(body) THEN "absent" ELSE @,
                         !.kwargs = @ /\ "chat_template_kwargs" \notin Named(body)]
    BY <1>4 DEF Healed
  <2> DEFINE drop == "reasoning_effort" \in Named(body)
             keep == "chat_template_kwargs" \notin Named(body)
  <2>a. drop \in BOOLEAN /\ keep \in BOOLEAN
    OBVIOUS
  <2> HIDE DEF drop, keep
  <2>b. b = [body EXCEPT !.effort = IF drop THEN "absent" ELSE @, !.kwargs = @ /\ keep]
    BY <2>1 DEF drop, keep
  <2>2. /\ b.effort = IF drop THEN "absent" ELSE body.effort
        /\ b.kwargs = (body.kwargs /\ keep)
        /\ b.format = body.format /\ b.word = body.word
    BY <1>1, <2>a, <2>b DEF Body
  <2>c. b \in Body
    <3>1. /\ (IF drop THEN "absent" ELSE body.effort) \in Efforts \cup {"absent"}
          /\ (body.kwargs /\ keep) \in BOOLEAN
      BY <1>1, <2>a DEF Body
    <3>2. body.format \in FormatKinds /\ body.word \in BOOLEAN
          /\ DOMAIN body = {"effort", "kwargs", "format", "word"}
      BY <1>1 DEF Body
    <3>3. b = [effort |-> b.effort, kwargs |-> b.kwargs, format |-> b.format, word |-> b.word]
      BY <1>1, <2>b DEF Body
    <3> QED
      BY <2>2, <3>1, <3>2, <3>3 DEF Body
  <2>3. b.effort # body.effort \/ b.kwargs # body.kwargs
    <3>1. /\ b = [effort |-> b.effort, kwargs |-> b.kwargs, format |-> b.format, word |-> b.word]
          /\ body = [effort |-> body.effort, kwargs |-> body.kwargs, format |-> body.format,
                     word |-> body.word]
      BY <1>1, <2>c DEF Body
    <3> QED
      BY <2>2, <3>1
  <2>4. Dialects(b) < Dialects(body)
    <3>1. body.kwargs \in BOOLEAN /\ b.kwargs \in BOOLEAN
      BY <1>1, <2>c DEF Body
    <3>2. CASE b.effort # body.effort
      BY <2>2, <3>1, <3>2 DEF Dialects
    <3>3. CASE b.effort = body.effort /\ body.kwargs /\ ~b.kwargs
      BY <3>3 DEF Dialects
    <3> QED
      BY <2>2, <2>3, <3>1, <3>2, <3>3
  <2>5. b.effort = "absent" \/ b.effort = body.effort
    BY <2>2
  <2> QED
    BY <2>2, <2>c, <2>4, <2>5, LevelsAre
<1> QED
  BY <1>3, <1>4

(* A refusal for reasoning fields alone leaves something to change.        *)
LEMMA HealingGoesOn ==
    ASSUME HealInv, healAt = "heal", OnlyReasoning, answer.status # 200
    PROVE  applied /\ budget > 0 /\ Healed(body) # body
<1>1. /\ body \in Body /\ budget \in 0 .. 3 /\ Dialects(body) <= budget
      /\ answer \in [status: {0, 200, 400, 503}, names: SUBSET Objections, low: BOOLEAN]
      /\ Heard /\ applied = (KeysIn(body) # {})
  BY DEF HealInv, HealTypeOK
<1>2. answer.names # {} /\ answer.names \subseteq ObjectsTo(server, body)
  BY <1>1 DEF Heard, OnlyReasoning
<1>3. \/ "reasoning_effort" \in KeysIn(body) /\ {"reasoning_effort", "levels"} \cap answer.names # {}
      \/ "chat_template_kwargs" \in KeysIn(body) /\ "chat_template_kwargs" \in answer.names
  <2>1. PICK k \in answer.names : k \in ObjectsTo(server, body)
    BY <1>2
  <2>2. k \in KeysIn(body) \/ (k = "levels" /\ body.effort \in Efforts)
    BY <2>1 DEF ObjectsTo, OnlyReasoning
  <2>3. k = "levels" => "reasoning_effort" \in KeysIn(body)
    BY <2>2, LevelsAre DEF KeysIn, BodyKeys
  <2>4. KeysIn(body) \subseteq BodyKeys
    BY DEF KeysIn
  <2> QED
    BY <2>1, <2>2, <2>3, <2>4 DEF BodyKeys
<1>4. applied /\ Dialects(body) > 0
  <2>1. body.effort # "absent" \/ body.kwargs
    BY <1>3 DEF KeysIn
  <2>2. Dialects(body) > 0
    BY <2>1 DEF Dialects
  <2>3. KeysIn(body) # {}
    BY <1>3
  <2>4. applied = (KeysIn(body) # {})
    BY <1>1
  <2> QED
    BY <2>2, <2>3, <2>4
<1>5. budget > 0
  BY <1>1, <1>4 DEF Dialects
<1>6. CASE body.effort = "none" /\ Says("reasoning_effort") /\ Listed # {}
  <2>1. LeastLevel(Listed) \in Range(Levels)
    BY <1>6, LeastListed DEF Listed
  <2>2. Healed(body).effort = LeastLevel(Listed)
    BY <1>1, <1>6 DEF Healed, Body
  <2> QED
    BY <1>4, <1>5, <1>6, <2>1, <2>2, LevelsAre
<1>7. CASE ~(body.effort = "none" /\ Says("reasoning_effort") /\ Listed # {})
  <2>1. /\ Healed(body).effort = IF "reasoning_effort" \in Named(body) THEN "absent" ELSE body.effort
        /\ Healed(body).kwargs = (body.kwargs /\ "chat_template_kwargs" \notin Named(body))
    BY <1>1, <1>7 DEF Healed, Body
  <2>2. "reasoning_effort" \in Named(body) \/ "chat_template_kwargs" \in Named(body)
    BY <1>3 DEF Named, Says
  <2>3. CASE "reasoning_effort" \in Named(body)
    <3>1. body.effort # "absent"
      BY <2>3 DEF Named, KeysIn
    <3> QED
      BY <1>4, <1>5, <2>1, <2>3, <3>1
  <2>4. CASE "chat_template_kwargs" \in Named(body)
    <3>1. body.kwargs
      BY <2>4 DEF Named, KeysIn
    <3> QED
      BY <1>4, <1>5, <2>1, <2>4, <3>1
  <2> QED
    BY <2>2, <2>3, <2>4
<1> QED
  BY <1>6, <1>7
(* Neither the schema nor the word changes a reasoning field.              *)
LEMMA FormatElsewhere ==
    ASSUME HealTypeOK, NEW f \in FormatKinds, NEW w \in BOOLEAN,
           body' \in {[body EXCEPT !.format = f], [body EXCEPT !.word = w]}
    PROVE  /\ body' \in Body /\ body'.effort = body.effort /\ body'.kwargs = body.kwargs
           /\ KeysIn(body') = KeysIn(body)
<1>1. body \in Body
  BY DEF HealTypeOK
<1>2. body' \in Body /\ body'.effort = body.effort /\ body'.kwargs = body.kwargs
  BY <1>1 DEF Body
<1> QED
  BY <1>2 DEF KeysIn

LEMMA HealStep == ASSUME HealInv, [HealNext]_healVars PROVE HealInv'
<1> USE HealingAssumption
<1>0. HealTypeOK /\ body \in Body /\ wanted \in Asked /\ server \in Servers
  BY DEF HealInv, HealTypeOK
<1>1. CASE FirstPost
  <2>1. UNCHANGED <<wanted, server, body, applied>> /\ Posted(body) /\ healAt = "first"
    BY <1>1 DEF FirstPost
  <2>2. /\ Heard' /\ busy' \in 0 .. MaxBusy /\ busy <= busy'
        /\ answer' \in [status: {0, 200, 400, 503}, names: SUBSET Objections, low: BOOLEAN]
    BY <1>0, <2>1, PostedHeard
  <2>3. HealBudget = 3
    <3>1. BodyKeys = {"reasoning_effort"} \cup {"chat_template_kwargs"}
      BY DEF BodyKeys
    <3>2. IsFiniteSet({"chat_template_kwargs"}) /\ Cardinality({"chat_template_kwargs"}) = 1
      BY FS_Singleton
    <3>3. Cardinality({"chat_template_kwargs"} \cup {"reasoning_effort"}) = 2
      BY <3>2, FS_AddElement
    <3>4. BodyKeys = {"chat_template_kwargs"} \cup {"reasoning_effort"}
      BY <3>1
    <3> QED
      BY <3>3, <3>4 DEF HealBudget
  <2>4. healAt' \in {"answered", "raised", "heal"} /\ budget' \in 0 .. 3
        /\ (healAt' = "heal" => budget' = 3) /\ (healAt' = "raised" => wanted.streams)
        /\ (healAt' = "answered" => answer'.status = 200)
    BY <1>1, <2>3 DEF FirstPost
  <2>5. Dialects(body) <= 3
    BY DEF Dialects
  <2>6. HealTypeOK'
    BY <1>0, <2>1, <2>2, <2>4 DEF HealTypeOK
  <2>7. healAt' = "answered" => ObjectsTo(server', body') = {}
    BY <2>2, <2>4 DEF Heard
  <2>8. OnlyReasoning' /\ ~wanted'.streams => healAt' \in {"first", "heal", "healing", "answered"}
    BY <2>1, <2>4
  <2>9. (body'.effort \in Range(Levels) => body'.effort = wanted'.dial \/ LeastInstead')
        /\ (body'.effort = "none" => wanted'.dial = "off") /\ applied' = (KeysIn(body') # {})
    BY <2>1 DEF HealInv, LeastInstead
  <2>10. healAt' \in {"heal", "healing"} => Dialects(body') <= budget'
    BY <2>1, <2>4, <2>5
  <2> QED
    BY <2>2, <2>6, <2>7, <2>8, <2>9, <2>10 DEF HealInv
<1>2. CASE Heal
  <2>0. healAt = "heal" /\ Heard /\ UNCHANGED <<wanted, server, answer, busy>>
    BY <1>2 DEF Heal, HealInv
  <2>1. CASE answer.status # 200 /\ applied /\ budget > 0 /\ Healed(body) # body
    <3>1. /\ body' = Healed(body) /\ applied' = (KeysIn(body') # {})
          /\ budget' = budget - 1 /\ healAt' = "healing"
      BY <1>2, <2>1 DEF Heal, AppliedAfter
    <3>2. PICK b : b = Healed(body)
      OBVIOUS
    <3>3. /\ b \in Body /\ Dialects(b) < Dialects(body)
          /\ b.format = body.format /\ b.word = body.word
          /\ b.effort # "none" \/ b.effort = body.effort
          /\ b.effort \in Range(Levels) =>
                \/ b.effort = body.effort
                \/ /\ wanted.dial = "off" /\ body.effort = "none"
                   /\ b.effort = LeastLevel(Listed) /\ Listed # {}
                   /\ "reasoning_effort" \in server.knows => "levels" \in answer.names
      BY <2>0, <2>1, <3>2, HealedBody
    <3>4. body' = b
      BY <3>1, <3>2
    <3>5. budget \in 0 .. 3 /\ Dialects(body) <= budget
      BY <2>0 DEF HealInv, HealTypeOK
    <3>6. HealTypeOK'
      BY <1>0, <2>0, <2>1, <3>1, <3>3, <3>4, <3>5 DEF HealTypeOK
    <3>7. Dialects(body') <= budget'
      <4>1. Dialects(b) \in Nat /\ Dialects(body) \in Nat
        BY DEF Dialects
      <4> QED
        BY <3>1, <3>3, <3>4, <3>5, <4>1
    <3>8. b.effort \in Range(Levels) => b.effort = wanted.dial \/ LeastInstead'
      <4> SUFFICES ASSUME b.effort \in Range(Levels), b.effort # wanted.dial PROVE LeastInstead'
        OBVIOUS
      <4>1. CASE b.effort = body.effort
        BY <2>0, <3>4, <4>1 DEF HealInv, LeastInstead
      <4>2. CASE /\ wanted.dial = "off" /\ body.effort = "none"
                 /\ b.effort = LeastLevel(Listed) /\ Listed # {}
                 /\ "reasoning_effort" \in server.knows => "levels" \in answer.names
        <5>1. Listed \in SUBSET Range(Levels)
          BY DEF Listed
        <5>2. /\ LeastLevel(Listed) \in Listed
              /\ \A i, j \in 1 .. 3 :
                    Levels[i] = LeastLevel(Listed) /\ Levels[j] \in Listed => i <= j
          BY <4>2, <5>1, LeastListed
        <5>3. "levels" \in answer.names => "none" \notin server.efforts
          <6>1. "levels" \in answer.names => "levels" \in ObjectsTo(server, body)
            BY <2>0, <2>1 DEF Heard
          <6>2. "levels" \in ObjectsTo(server, body) => body.effort \notin server.efforts
            BY DEF ObjectsTo, KeysIn, BodyKeys
          <6>3. body.effort = "none"
            BY <4>2
          <6> QED
            BY <6>1, <6>2, <6>3
        <5>4. ASSUME NEW i \in 1 .. 3, NEW j \in 1 .. 3, Levels[i] = b.effort,
                     Levels[j] \in server.efforts
              PROVE  i <= j
          <6>1. CASE "levels" \in answer.names
            <7>1. Levels[j] \in Listed
              BY <5>4, <6>1, LevelsAre DEF Listed
            <7> QED
              BY <4>2, <5>2, <5>4, <7>1
          <6>2. CASE "levels" \notin answer.names
            <7>1. b.effort = "low"
              BY <4>2, <5>2, <6>2 DEF Listed
            <7>2. i = 1
              BY <5>4, <7>1, LevelsAre
            <7> QED
              BY <7>2
          <6> QED
            BY <6>1, <6>2
        <5> QED
          BY <2>0, <3>4, <4>2, <5>3, <5>4 DEF LeastInstead
      <4> QED
        BY <3>3, <4>1, <4>2
    <3>9. b.effort = "none" => wanted.dial = "off"
      BY <3>3 DEF HealInv
    <3> QED
      BY <2>0, <3>1, <3>4, <3>6, <3>7, <3>8, <3>9 DEF HealInv
  <2>2. CASE ~(answer.status # 200 /\ applied /\ budget > 0 /\ Healed(body) # body)
    <3>1. /\ healAt' = IF answer.status = 200 THEN "answered" ELSE "schema"
          /\ UNCHANGED <<body, applied, budget>>
      BY <1>2, <2>2 DEF Heal
    <3>2. HealTypeOK'
      BY <1>0, <2>0, <3>1 DEF HealTypeOK
    <3>3. healAt' = "answered" => ObjectsTo(server', body') = {}
      BY <2>0, <3>1 DEF Heard
    <3>4. OnlyReasoning' /\ ~wanted'.streams => healAt' = "answered"
      BY <2>0, <2>2, <3>1, HealingGoesOn DEF OnlyReasoning
    <3>5. (body'.effort \in Range(Levels) => body'.effort = wanted'.dial \/ LeastInstead')
          /\ (body'.effort = "none" => wanted'.dial = "off") /\ applied' = (KeysIn(body') # {})
      BY <2>0, <3>1 DEF HealInv, LeastInstead
    <3> QED
      BY <3>1, <3>2, <3>3, <3>4, <3>5 DEF HealInv
  <2> QED
    BY <2>1, <2>2
<1>3. ASSUME NEW f \in FormatKinds, NEW w \in BOOLEAN,
             body' \in {body, [body EXCEPT !.format = f], [body EXCEPT !.word = w]},
             healAt \in {"schema", "word"},
             healAt' \in {"downgraded", "word", "reworded", "raised"},
             UNCHANGED <<wanted, server, applied, answer, budget, busy>>
      PROVE  HealInv'
  <2>1. body' \in Body /\ body'.effort = body.effort /\ KeysIn(body') = KeysIn(body)
    BY <1>0, <1>3, FormatElsewhere
  <2>2. HealTypeOK'
    BY <1>0, <1>3, <2>1 DEF HealTypeOK
  <2>3. ~(OnlyReasoning /\ ~wanted.streams)
    BY <1>3 DEF HealInv
  <2>4. ~(OnlyReasoning' /\ ~wanted'.streams)
    BY <1>3, <2>3 DEF OnlyReasoning
  <2>5. (body'.effort \in Range(Levels) => body'.effort = wanted'.dial \/ LeastInstead')
        /\ (body'.effort = "none" => wanted'.dial = "off") /\ applied' = (KeysIn(body') # {})
    BY <1>3, <2>1 DEF HealInv, LeastInstead
  <2> QED
    BY <1>3, <2>2, <2>4, <2>5 DEF HealInv
<1>4. CASE DropSchema
  <2>1. CASE body.format = "json_schema"
    BY <1>3, <1>4, <2>1 DEF DropSchema, FormatKinds
  <2>2. CASE body.format # "json_schema"
    BY <1>3, <1>4, <2>2 DEF DropSchema, FormatKinds
  <2> QED
    BY <2>1, <2>2
<1>5. CASE AddWord
  <2>1. CASE answer.status = 400 /\ Says("json") /\ body.format = "json_object"
    BY <1>3, <1>5, <2>1 DEF AddWord, FormatKinds
  <2>2. CASE ~(answer.status = 400 /\ Says("json") /\ body.format = "json_object")
    BY <1>3, <1>5, <2>2 DEF AddWord, FormatKinds
  <2> QED
    BY <2>1, <2>2
<1>6. CASE Repost
  <2>1. UNCHANGED <<wanted, server, body, applied, budget>> /\ Posted(body)
        /\ healAt \in {"healing", "downgraded", "reworded"}
    BY <1>6 DEF Repost
  <2>2. /\ Heard' /\ busy' \in 0 .. MaxBusy /\ busy <= busy'
        /\ answer' \in [status: {0, 200, 400, 503}, names: SUBSET Objections, low: BOOLEAN]
    BY <1>0, <2>1, PostedHeard
  <2>3. /\ healAt' \in {"heal", "answered", "word", "raised"}
        /\ healAt' = "answered" => answer'.status = 200
        /\ healAt = "healing" <=> healAt' = "heal"
    BY <1>6 DEF Repost
  <2>4. HealTypeOK'
    BY <1>0, <2>1, <2>2, <2>3 DEF HealTypeOK
  <2>5. healAt' = "answered" => ObjectsTo(server', body') = {}
    BY <2>2, <2>3 DEF Heard
  <2>6. busy \in 0 .. MaxBusy
    BY <1>0 DEF HealTypeOK
  <2>7. OnlyReasoning' /\ ~wanted'.streams => healAt' = "heal"
    <3>1. OnlyReasoning' => OnlyReasoning
      BY <2>1, <2>2, <2>6 DEF OnlyReasoning
    <3> QED
      BY <2>1, <2>3, <3>1 DEF HealInv
  <2>8. (body'.effort \in Range(Levels) => body'.effort = wanted'.dial \/ LeastInstead')
        /\ (body'.effort = "none" => wanted'.dial = "off") /\ applied' = (KeysIn(body') # {})
    BY <2>1 DEF HealInv, LeastInstead
  <2>9. healAt' \in {"heal", "healing"} => Dialects(body') <= budget'
    BY <2>1, <2>3 DEF HealInv
  <2> QED
    BY <2>2, <2>4, <2>5, <2>7, <2>8, <2>9 DEF HealInv
<1>7. CASE UNCHANGED healVars
  BY <1>7 DEF HealInv, healVars, HealTypeOK, LeastInstead, Heard, OnlyReasoning
<1> QED
  BY <1>1, <1>2, <1>4, <1>5, <1>6, <1>7 DEF HealNext

LEMMA HealStart == ASSUME HealInit PROVE HealInv
<1> USE HealingAssumption
<1>1. wanted \in Asked /\ server \in Servers
  BY DEF HealInit
<1>2. PICK w \in BOOLEAN :
          body = [effort |-> ReasoningBody(wanted).effort, kwargs |-> ReasoningBody(wanted).kwargs,
                  format |-> wanted.format, word |-> w]
  BY DEF HealInit
<1>3. /\ ReasoningBody(wanted).effort \in Efforts \cup {"absent"}
      /\ ReasoningBody(wanted).kwargs \in BOOLEAN
      /\ ReasoningBody(wanted).effort = "none" => wanted.dial = "off"
      /\ ReasoningBody(wanted).effort \in Range(Levels) => ReasoningBody(wanted).effort = wanted.dial
  BY LevelsAre DEF ReasoningBody
<1>4. wanted.format \in FormatKinds
  BY <1>1 DEF Asked
<1>5. body \in Body /\ body.effort = ReasoningBody(wanted).effort
  BY <1>2, <1>3, <1>4 DEF Body
<1>6. HealTypeOK
  BY <1>1, <1>5 DEF HealInit, HealTypeOK
<1> QED
  BY <1>3, <1>5, <1>6 DEF HealInit, HealInv

(* The system text is in the body and the cached content, once, and the    *)
(* report is of the body as it was sent last.                              *)
GeminiCallInv ==
    /\ GeminiCallTypeOK
    /\ geminiAt # "cache" =>
         /\ sends.cached \cup sends.system = Blocks /\ sends.cached \cap sends.system = {}
         /\ reports.thinking = (sends.thinking # "none")
         /\ reports.read => sends.cached # {}
         /\ reports.created = (mint = "minted")

LEMMA GeminiCallStart == ASSUME GeminiCallInit PROVE GeminiCallInv
BY GeminiClientAssumption
   DEF GeminiCallInit, GeminiCallInv, GeminiCallTypeOK, Sends, Reports

LEMMA GeminiCallStep ==
    ASSUME GeminiCallInv, [GeminiCallNext]_geminiCallVars PROVE GeminiCallInv'
<1> USE GeminiClientAssumption
<1>0. GeminiCallTypeOK /\ sends \in Sends /\ reports \in Reports /\ wish \in Wish
  BY DEF GeminiCallInv, GeminiCallTypeOK
<1>1. CASE BuildBody
  <2>1. /\ UNCHANGED <<wish, refuses, gemBusy>> /\ geminiAt' = "post"
        /\ mint' \in {"none", "reused", "minted"} /\ (mint' # "none" => Cacheable # {})
        /\ sends' = [cached |-> IF mint' = "none" THEN {} ELSE Cacheable,
                     system |-> IF mint' = "none" THEN Blocks ELSE SystemBeside,
                     thinking |-> IF wish.thinks THEN wish.knob ELSE "none"]
        /\ reports' = [thinking |-> sends'.thinking # "none", read |-> mint' = "reused",
                       created |-> mint' = "minted"]
    BY <1>1 DEF BuildBody
  <2>2. wish.marked \subseteq Blocks /\ wish.knob \in {"none", "level", "budget"}
    BY <1>0 DEF Wish
  <2>3. /\ Cacheable \subseteq Blocks /\ SystemBeside \subseteq Blocks
        /\ Cacheable # {} => /\ Cacheable \cup SystemBeside = Blocks
                             /\ Cacheable \cap SystemBeside = {}
    BY <2>2 DEF Cacheable, SystemBeside
  <2>4. /\ sends' \in Sends /\ sends'.cached = IF mint' = "none" THEN {} ELSE Cacheable
        /\ sends'.system = IF mint' = "none" THEN Blocks ELSE SystemBeside
    BY <2>1, <2>2, <2>3 DEF Sends
  <2>5. /\ reports' \in Reports /\ reports'.thinking = (sends'.thinking # "none")
        /\ reports'.read = (mint' = "reused") /\ reports'.created = (mint' = "minted")
    BY <2>1 DEF Reports
  <2>6. GeminiCallTypeOK'
    BY <1>0, <2>1, <2>4, <2>5 DEF GeminiCallTypeOK
  <2>7. sends'.cached \cup sends'.system = Blocks /\ sends'.cached \cap sends'.system = {}
    BY <2>1, <2>3, <2>4
  <2>8. reports'.read => sends'.cached # {}
    BY <2>1, <2>4, <2>5
  <2> QED
    BY <2>5, <2>6, <2>7, <2>8 DEF GeminiCallInv
<1>2. ASSUME NEW named \in (SUBSET Refused) \ {{}}, geminiAt = "post", geminiAt' = "repost",
             sends' = Stripped(named),
             reports' = [reports EXCEPT !.thinking = FALSE, !.read = ReadAfter(named)],
             UNCHANGED <<wish, mint, refuses, gemBusy>>
      PROVE  GeminiCallInv'
  <2>1. "cache" \in named => sends.cached # {}
    BY <1>2 DEF Refused
  <2>2. /\ sends' \in Sends /\ sends'.thinking = "none"
        /\ sends'.cached = IF "cache" \in named THEN {} ELSE sends.cached
        /\ sends'.system = IF "cache" \in named THEN Blocks ELSE sends.system
    BY <1>0, <1>2, <2>1 DEF Stripped, Sends
  <2>3. /\ reports' \in Reports /\ reports'.thinking = FALSE /\ reports'.created = reports.created
        /\ reports'.read => reports.read /\ "cache" \notin named
    BY <1>0, <1>2 DEF Reports, ReadAfter
  <2>4. GeminiCallTypeOK'
    BY <1>0, <1>2, <2>2, <2>3 DEF GeminiCallTypeOK
  <2>5. /\ sends.cached \cup sends.system = Blocks /\ sends.cached \cap sends.system = {}
        /\ reports.read => sends.cached # {}
        /\ reports.created = (mint = "minted")
    BY <1>2 DEF GeminiCallInv
  <2> QED
    BY <1>2, <2>2, <2>3, <2>4, <2>5 DEF GeminiCallInv
<1>3. CASE GeminiPost
  <2>1. CASE geminiAt' = "answered" /\ UNCHANGED <<sends, reports, gemBusy>>
    BY <1>0, <1>3, <2>1 DEF GeminiPost, GeminiCallInv, GeminiCallTypeOK
  <2>2. CASE /\ gemBusy < MaxGeminiBusy /\ gemBusy' = gemBusy + 1
             /\ geminiAt' = "raised" /\ UNCHANGED <<sends, reports>>
    BY <1>0, <1>3, <2>2 DEF GeminiPost, GeminiCallInv, GeminiCallTypeOK
  <2> QED
    BY <1>2, <1>3, <2>1, <2>2 DEF GeminiPost
<1>4. CASE GeminiRepost
  BY <1>0, <1>4 DEF GeminiRepost, GeminiCallInv, GeminiCallTypeOK
<1>5. CASE UNCHANGED geminiCallVars
  BY <1>0, <1>5 DEF geminiCallVars, GeminiCallInv, GeminiCallTypeOK
<1> QED
  BY <1>1, <1>3, <1>4, <1>5 DEF GeminiCallNext

-----------------------------------------------------------------------------
(* Routing.                                                                *)

(* The greatest of some positions is one of them.                          *)
LEMMA GreatestWithin ==
    ASSUME NEW n \in Nat, NEW T \in SUBSET (1 .. n), T # {}
    PROVE  Max(T) \in 1 .. n /\ T \ {Max(T)} \in SUBSET (1 .. n)
<1> DEFINE N == 1 .. n
<1>1. IsFiniteSet(N) /\ T \in SUBSET N /\ T \in SUBSET Int
  BY FS_Interval
<1>2. IsFiniteSet(T)
  <2> HIDE DEF N
  <2> QED
    BY <1>1, FS_Subset
<1>3. Max(T) \in T
  BY <1>1, <1>2, MaxIs
<1> QED
  BY <1>1, <1>3

(* What each step of a fold keeps, the fold keeps.                         *)
LEMMA FoldStays ==
    ASSUME NEW n \in Nat, NEW A, NEW h, h[{}] \in A,
           \A k \in Nat : k < n /\ h[1 .. k] \in A => h[1 .. (k + 1)] \in A
    PROVE  h[1 .. n] \in A
<1> DEFINE G == {k \in Nat : h[1 .. k] \in A}
<1>1. 0 \in G
  <2>1. 1 .. 0 = {}
    OBVIOUS
  <2> QED
    BY <2>1
<1>2. \A k \in Nat : k < n /\ k \in G => k + 1 \in G
  OBVIOUS
<1>3. \A k \in 0 .. n : k \in G
  <2> HIDE DEF G
  <2> QED
    BY <1>1, <1>2, Upwards
<1> QED
  BY <1>3

LEMMA SeqOfMore ==
    ASSUME NEW S, NEW T, S \subseteq T, NEW s \in Seq(S)
    PROVE  s \in Seq(T)
  OBVIOUS

LEMMA ElementsIn ==
    ASSUME NEW S, NEW s \in Seq(S)
    PROVE  ToSet(s) \subseteq S /\ s \in Seq(ToSet(s))
<1>1. Len(s) \in Nat /\ s \in [1 .. Len(s) -> S] /\ DOMAIN s = 1 .. Len(s)
  OBVIOUS
<1>2. \A i \in 1 .. Len(s) : s[i] \in S /\ s[i] \in ToSet(s)
  BY <1>1 DEF ToSet
<1> QED
  BY <1>1, <1>2 DEF ToSet

(* One step of the filter.                                                 *)
Kept(kept, n, set) == IF n \in set THEN Append(kept, n) ELSE kept

ChosenFold(h, seq, set) ==
    h = [T \in SUBSET DOMAIN seq |-> IF T = {} THEN <<>>
                                     ELSE Kept(h[T \ {Max(T)}], seq[Max(T)], set)]

(* The filter keeps elements of the sequence that are in the set.          *)
LEMMA ChosenIn ==
    ASSUME NEW S, NEW seq \in Seq(S), NEW set
    PROVE  Chosen(seq, set) \in Seq(S \cap set)
<1> DEFINE n == Len(seq)
           N == 1 .. n
           A == Seq(S \cap set)
           step == [p \in A \X N |-> Kept(p[1], seq[p[2]], set)]
<1>1. n \in Nat /\ DOMAIN seq = N /\ \A i \in N : seq[i] \in S
  OBVIOUS
<1>2. ASSUME NEW kept \in A, NEW i \in N PROVE Kept(kept, seq[i], set) \in A
  <2>1. seq[i] \in S
    BY <1>1
  <2>2. CASE seq[i] \in set
    BY <2>1, <2>2 DEF Kept
  <2>3. CASE seq[i] \notin set
    BY <2>3 DEF Kept
  <2> QED
    BY <2>2, <2>3
<1>3. <<>> \in A
  OBVIOUS
<1>4. step \in [A \X N -> A]
  <2> HIDE DEF N, A
  <2> QED
    BY <1>2
<1>5. PICK g \in [SUBSET N -> A] : FoldsUp(g, N, <<>>, step)
  <2> HIDE DEF n, step, A
  <2> QED
    BY <1>1, <1>3, <1>4, FoldedUpwards
<1>6. ASSUME NEW T \in SUBSET N
      PROVE  g[T] = IF T = {} THEN <<>> ELSE Kept(g[T \ {Max(T)}], seq[Max(T)], set)
  <2>1. CASE T = {}
    BY <1>5, <2>1 DEF FoldsUp
  <2>2. CASE T # {}
    <3> DEFINE m == Max(T)
    <3>1. m \in N /\ T \ {m} \in SUBSET N
      BY <1>1, <2>2, GreatestWithin
    <3>2. g[T] = step[<<g[T \ {m}], m>>]
      <4> HIDE DEF step
      <4> QED
        BY <1>5, <2>2 DEF FoldsUp
    <3> HIDE DEF m, N, A
    <3>3. g[T \ {m}] \in A
      BY <1>5, <3>1
    <3>4. g[T] = Kept(g[T \ {m}], seq[m], set)
      BY <3>1, <3>2, <3>3
    <3> QED
      BY <2>2, <3>4 DEF m
  <2> QED
    BY <2>1, <2>2
<1>7. ChosenFold(g, seq, set)
  <2>1. g = [T \in SUBSET N |-> g[T]]
    BY <1>5
  <2> HIDE DEF N
  <2> QED
    BY <1>1, <1>6, <2>1 DEF ChosenFold
<1> DEFINE h == CHOOSE h : ChosenFold(h, seq, set)
<1>8. ChosenFold(h, seq, set)
  BY <1>7
<1>9. Chosen(seq, set) = h[DOMAIN seq]
  BY DEF Chosen, FoldLeft, MapThenFoldSet, Kept, ChosenFold
<1> HIDE DEF h
<1>10. h[{}] \in A
  BY <1>3, <1>8 DEF ChosenFold
<1>11. ASSUME NEW k \in Nat, k < n, h[1 .. k] \in A PROVE h[1 .. (k + 1)] \in A
  <2>1. /\ 1 .. (k + 1) \in SUBSET N /\ 1 .. (k + 1) # {} /\ Max(1 .. (k + 1)) = k + 1
        /\ (1 .. (k + 1)) \ {k + 1} = 1 .. k /\ k + 1 \in N
    BY <1>1, <1>11, FoldedFirst
  <2>2. h[1 .. (k + 1)] = Kept(h[1 .. k], seq[k + 1], set)
    <3> HIDE DEF N
    <3> QED
      BY <1>1, <1>8, <2>1 DEF ChosenFold
  <2> HIDE DEF A, N
  <2> QED
    BY <1>2, <1>11, <2>1, <2>2
<1>12. h[1 .. n] \in A
  <2> HIDE DEF A, n
  <2> QED
    BY <1>1, <1>10, <1>11, FoldStays
<1> QED
  BY <1>1, <1>9, <1>12

(* One base name of a tier's order: its instances, each once.              *)
Ringed(ring, base, usable) == ring \o Chosen(usable, InstancesOf[base] \ ToSet(ring))

RingFold(h, usable, order) ==
    h = [T \in SUBSET DOMAIN order |-> IF T = {} THEN <<>>
                                       ELSE Ringed(h[T \ {Max(T)}], order[Max(T)], usable)]

(* The instances that a tier's order names.                                *)
NamedBy(tier) ==
    {n \in UNION {InstancesOf[b] : b \in DOMAIN InstancesOf} :
        \E i \in 1 .. Len(TierSpec[tier].order) : n \in InstancesOf[TierSpec[tier].order[i]]}

(* A tier's ring holds available instances that are not benched and that   *)
(* the tier names.                                                         *)
LEMMA RingIn ==
    ASSUME NEW tier \in Tiers, NEW S, NEW available \in Seq(S)
    PROVE  Ring(tier, available) \in Seq((S \ Unavailable) \cap NamedBy(tier))
<1> DEFINE order == TierSpec[tier].order
           usable == Chosen(available, ToSet(available) \ Unavailable)
           n == Len(order)
           N == 1 .. n
           A == Seq((S \ Unavailable) \cap NamedBy(tier))
           step == [p \in A \X N |-> Ringed(p[1], order[p[2]], usable)]
<1>1. n \in Nat /\ DOMAIN order = N /\ \A i \in N : order[i] \in DOMAIN InstancesOf
  <2>1. order \in Seq(DOMAIN InstancesOf)
    BY RoutingAssumption
  <2> HIDE DEF order
  <2> QED
    BY <2>1
<1>a. usable \in Seq(S \ Unavailable)
  <2>1. usable \in Seq(S \cap (ToSet(available) \ Unavailable))
    BY ChosenIn
  <2> HIDE DEF usable
  <2> QED
    BY <2>1, SeqOfMore
<1>2. ASSUME NEW ring \in A, NEW i \in N PROVE Ringed(ring, order[i], usable) \in A
  <2> DEFINE set == InstancesOf[order[i]] \ ToSet(ring)
  <2>1. InstancesOf[order[i]] \subseteq NamedBy(tier)
    BY <1>1 DEF NamedBy
  <2>2. (S \ Unavailable) \cap set \subseteq (S \ Unavailable) \cap NamedBy(tier)
    BY <2>1
  <2> HIDE DEF set, order, usable
  <2>3. Chosen(usable, set) \in Seq((S \ Unavailable) \cap set)
    BY <1>a, ChosenIn
  <2>4. Chosen(usable, set) \in A
    BY <2>2, <2>3, SeqOfMore
  <2>5. ring \o Chosen(usable, set) \in A
    BY <2>4
  <2> QED
    BY <2>5 DEF Ringed, set
<1>3. <<>> \in A
  OBVIOUS
<1> HIDE DEF order, usable
<1>4. step \in [A \X N -> A]
  <2> HIDE DEF N, A
  <2> QED
    BY <1>2
<1>5. PICK g \in [SUBSET N -> A] : FoldsUp(g, N, <<>>, step)
  <2> HIDE DEF n, step, A
  <2> QED
    BY <1>1, <1>3, <1>4, FoldedUpwards
<1>6. ASSUME NEW T \in SUBSET N
      PROVE  g[T] = IF T = {} THEN <<>> ELSE Ringed(g[T \ {Max(T)}], order[Max(T)], usable)
  <2>1. CASE T = {}
    BY <1>5, <2>1 DEF FoldsUp
  <2>2. CASE T # {}
    <3> DEFINE m == Max(T)
    <3>1. m \in N /\ T \ {m} \in SUBSET N
      BY <1>1, <2>2, GreatestWithin
    <3>2. g[T] = step[<<g[T \ {m}], m>>]
      <4> HIDE DEF step
      <4> QED
        BY <1>5, <2>2 DEF FoldsUp
    <3> HIDE DEF m, N, A
    <3>3. g[T \ {m}] \in A
      BY <1>5, <3>1
    <3>4. g[T] = Ringed(g[T \ {m}], order[m], usable)
      BY <3>1, <3>2, <3>3
    <3> QED
      BY <2>2, <3>4 DEF m
  <2> QED
    BY <2>1, <2>2
<1>7. RingFold(g, usable, order)
  <2>1. g = [T \in SUBSET N |-> g[T]]
    BY <1>5
  <2> HIDE DEF N
  <2> QED
    BY <1>1, <1>6, <2>1 DEF RingFold
<1> DEFINE h == CHOOSE h : RingFold(h, usable, order)
<1>8. RingFold(h, usable, order)
  BY <1>7
<1>9. Ring(tier, available) = h[DOMAIN order]
  BY DEF Ring, order, usable, FoldLeft, MapThenFoldSet, Ringed, RingFold
<1> HIDE DEF h
<1>10. h[{}] \in A
  BY <1>3, <1>8 DEF RingFold
<1>11. ASSUME NEW k \in Nat, k < n, h[1 .. k] \in A PROVE h[1 .. (k + 1)] \in A
  <2>1. /\ 1 .. (k + 1) \in SUBSET N /\ 1 .. (k + 1) # {} /\ Max(1 .. (k + 1)) = k + 1
        /\ (1 .. (k + 1)) \ {k + 1} = 1 .. k /\ k + 1 \in N
    BY <1>1, <1>11, FoldedFirst
  <2>2. h[1 .. (k + 1)] = Ringed(h[1 .. k], order[k + 1], usable)
    <3> HIDE DEF N
    <3> QED
      BY <1>1, <1>8, <2>1 DEF RingFold
  <2> HIDE DEF A, N
  <2> QED
    BY <1>2, <1>11, <2>1, <2>2
<1>12. h[1 .. n] \in A
  <2> HIDE DEF A, n
  <2> QED
    BY <1>1, <1>10, <1>11, FoldStays
<1> QED
  BY <1>1, <1>9, <1>12

(* One insertion of the sort.                                              *)
Behind(objective, among, sorted, n) ==
    {i \in DOMAIN sorted : Score(objective, sorted[i], among) >= Score(objective, n, among)}

Inserted(objective, among, sorted, n) ==
    InsertAt(sorted, Cardinality(Behind(objective, among, sorted, n)) + 1, n)

SortFold(h, objective, seq) ==
    h = [T \in SUBSET DOMAIN seq |->
            IF T = {} THEN <<>>
            ELSE Inserted(objective, ToSet(seq), h[T \ {Max(T)}], seq[Max(T)])]

LEMMA InsertedIn ==
    ASSUME NEW S, NEW sorted \in Seq(S), NEW n \in S, NEW objective, NEW among
    PROVE  Inserted(objective, among, sorted, n) \in Seq(S)
<1> DEFINE D == 1 .. Len(sorted)
           B == Behind(objective, among, sorted, n)
           b == Cardinality(B)
<1>1. Len(sorted) \in Nat /\ DOMAIN sorted = D /\ B \in SUBSET D
  BY DEF Behind
<1>2. IsFiniteSet(D) /\ Cardinality(D) = Len(sorted)
  <2>1. ASSUME NEW k \in Nat PROVE IsFiniteSet(1 .. k) /\ Cardinality(1 .. k) = k
    <3>1. Cardinality(1 .. k) = IF 1 > k THEN 0 ELSE k - 1 + 1
      BY FS_Interval
    <3>2. IsFiniteSet(1 .. k)
      BY FS_Interval
    <3> QED
      BY <3>1, <3>2
  <2> QED
    BY <1>1, <2>1
<1>3. b \in Nat /\ b <= Len(sorted)
  <2>1. IsFiniteSet(B) /\ Cardinality(B) <= Cardinality(D)
    <3> HIDE DEF D, B
    <3> QED
      BY <1>1, <1>2, FS_Subset
  <2> QED
    BY <1>2, <2>1, FS_CardinalityType
<1> HIDE DEF b
<1>4. SubSeq(sorted, 1, (b + 1) - 1) \in Seq(S)
  BY <1>1, <1>3
<1>5. SubSeq(sorted, b + 1, Len(sorted)) \in Seq(S)
  BY <1>1, <1>3
<1>6. <<n>> \in Seq(S)
  OBVIOUS
<1>7. SubSeq(sorted, 1, (b + 1) - 1) \o <<n>> \o SubSeq(sorted, b + 1, Len(sorted)) \in Seq(S)
  BY <1>4, <1>5, <1>6
<1> QED
  BY <1>7 DEF Inserted, InsertAt, b

(* Sorting brings nothing in.                                              *)
LEMMA SortedIn ==
    ASSUME NEW S, NEW seq \in Seq(S), NEW objective
    PROVE  Sorted(objective, seq) \in Seq(S)
<1>a. CASE objective = "order"
  BY <1>a DEF Sorted
<1> SUFFICES ASSUME objective # "order" PROVE Sorted(objective, seq) \in Seq(S)
  BY <1>a
<1> DEFINE n == Len(seq)
           N == 1 .. n
           A == Seq(S)
           step == [p \in A \X N |-> Inserted(objective, ToSet(seq), p[1], seq[p[2]])]
<1>1. n \in Nat /\ DOMAIN seq = N /\ \A i \in N : seq[i] \in S
  OBVIOUS
<1>2. ASSUME NEW sorted \in A, NEW i \in N
      PROVE  Inserted(objective, ToSet(seq), sorted, seq[i]) \in A
  BY <1>1, InsertedIn
<1>3. <<>> \in A
  OBVIOUS
<1>4. step \in [A \X N -> A]
  <2> HIDE DEF N, A
  <2> QED
    BY <1>2
<1>5. PICK g \in [SUBSET N -> A] : FoldsUp(g, N, <<>>, step)
  <2> HIDE DEF n, step, A
  <2> QED
    BY <1>1, <1>3, <1>4, FoldedUpwards
<1>6. ASSUME NEW T \in SUBSET N
      PROVE  g[T] = IF T = {} THEN <<>> ELSE Inserted(objective, ToSet(seq), g[T \ {Max(T)}], seq[Max(T)])
  <2>1. CASE T = {}
    BY <1>5, <2>1 DEF FoldsUp
  <2>2. CASE T # {}
    <3> DEFINE m == Max(T)
    <3>1. m \in N /\ T \ {m} \in SUBSET N
      BY <1>1, <2>2, GreatestWithin
    <3>2. g[T] = step[<<g[T \ {m}], m>>]
      <4> HIDE DEF step
      <4> QED
        BY <1>5, <2>2 DEF FoldsUp
    <3> HIDE DEF m, N, A
    <3>3. g[T \ {m}] \in A
      BY <1>5, <3>1
    <3>4. g[T] = Inserted(objective, ToSet(seq), g[T \ {m}], seq[m])
      BY <3>1, <3>2, <3>3
    <3> QED
      BY <2>2, <3>4 DEF m
  <2> QED
    BY <2>1, <2>2
<1>7. SortFold(g, objective, seq)
  <2>1. g = [T \in SUBSET N |-> g[T]]
    BY <1>5
  <2> HIDE DEF N
  <2> QED
    BY <1>1, <1>6, <2>1 DEF SortFold
<1> DEFINE h == CHOOSE h : SortFold(h, objective, seq)
<1>8. SortFold(h, objective, seq)
  BY <1>7
<1>9. Sorted(objective, seq) = h[DOMAIN seq]
  BY DEF Sorted, FoldLeft, MapThenFoldSet, Behind, Inserted, SortFold
<1> HIDE DEF h
<1>10. h[{}] \in A
  BY <1>3, <1>8 DEF SortFold
<1>11. ASSUME NEW k \in Nat, k < n, h[1 .. k] \in A PROVE h[1 .. (k + 1)] \in A
  <2>1. /\ 1 .. (k + 1) \in SUBSET N /\ 1 .. (k + 1) # {} /\ Max(1 .. (k + 1)) = k + 1
        /\ (1 .. (k + 1)) \ {k + 1} = 1 .. k /\ k + 1 \in N
    BY <1>1, <1>11, FoldedFirst
  <2>2. h[1 .. (k + 1)] = Inserted(objective, ToSet(seq), h[1 .. k], seq[k + 1])
    <3> HIDE DEF N
    <3> QED
      BY <1>1, <1>8, <2>1 DEF SortFold
  <2> HIDE DEF A, N
  <2> QED
    BY <1>2, <1>11, <2>1, <2>2
<1>12. h[1 .. n] \in A
  <2> HIDE DEF A, n
  <2> QED
    BY <1>1, <1>10, <1>11, FoldStays
<1> QED
  BY <1>1, <1>9, <1>12

(* Who may be called for a tier out of some instances.                     *)
Eligible(tier, among, est) ==
    {n \in among \ Unavailable :
        Holds(tier, est, n) /\ (TierSpec[tier].strict => n \in NamedBy(tier))}

LEMMA WithTailIn ==
    ASSUME NEW tier \in Tiers, NEW S, NEW available \in Seq(S)
    PROVE  WithTail(tier, available)
             \in Seq({n \in S \ Unavailable : TierSpec[tier].strict => n \in NamedBy(tier)})
<1> DEFINE V == {n \in S \ Unavailable : TierSpec[tier].strict => n \in NamedBy(tier)}
           ring == Ring(tier, available)
           rest == Chosen(available, ToSet(available) \ (ToSet(ring) \cup Unavailable))
<1>1. ring \in Seq((S \ Unavailable) \cap NamedBy(tier))
  BY RingIn
<1>2. (S \ Unavailable) \cap NamedBy(tier) \subseteq V
  OBVIOUS
<1>3. ring \in Seq(V)
  <2> HIDE DEF V, ring
  <2> QED
    BY <1>1, <1>2, SeqOfMore
<1>4. CASE TierSpec[tier].strict
  <2>1. WithTail(tier, available) = ring
    BY <1>4 DEF WithTail
  <2> QED
    BY <1>3, <2>1
<1>5. CASE ~TierSpec[tier].strict
  <2>1. rest \in Seq(S \cap (ToSet(available) \ (ToSet(ring) \cup Unavailable)))
    BY ChosenIn
  <2>2. S \cap (ToSet(available) \ (ToSet(ring) \cup Unavailable)) \subseteq V
    BY <1>5
  <2>3. rest \in Seq(V)
    <3> HIDE DEF V, rest
    <3> QED
      BY <2>1, <2>2, SeqOfMore
  <2>4. WithTail(tier, available) = ring \o rest
    BY <1>5 DEF WithTail
  <2> HIDE DEF V, ring, rest
  <2>5. ring \o rest \in Seq(V)
    BY <1>3, <2>3
  <2> QED
    BY <2>4, <2>5 DEF V
<1> QED
  BY <1>4, <1>5

(* order_for's candidates are eligible, pins in front and tail behind.     *)
LEMMA OrderForIn ==
    ASSUME NEW tier \in Tiers, NEW S, NEW available \in Seq(S), NEW est
    PROVE  OrderFor(tier, available, est) \in Seq(Eligible(tier, S, est))
<1> DEFINE V == {n \in S \ Unavailable : TierSpec[tier].strict => n \in NamedBy(tier)}
           E == Eligible(tier, S, est)
           tail == WithTail(tier, available)
           wide == {n \in ToSet(tail) : Holds(tier, est, n)}
           fitting == Chosen(tail, wide)
           sorted == Sorted(TierSpec[tier].objective, fitting)
           pinned == Chosen(sorted, PinFirst)
           others == Chosen(sorted, ToSet(Instances) \ PinFirst)
<1>1. tail \in Seq(V)
  BY WithTailIn
<1>2. fitting \in Seq(V \cap wide)
  <2> HIDE DEF V, wide, tail
  <2> QED
    BY <1>1, ChosenIn
<1>3. V \cap wide \subseteq E
  BY DEF Eligible
<1>4. fitting \in Seq(E)
  <2> HIDE DEF V, wide, fitting, E
  <2> QED
    BY <1>2, <1>3, SeqOfMore
<1>5. sorted \in Seq(E)
  <2> HIDE DEF fitting, E
  <2> QED
    BY <1>4, SortedIn
<1>6. pinned \in Seq(E \cap PinFirst) /\ others \in Seq(E \cap (ToSet(Instances) \ PinFirst))
  <2> HIDE DEF sorted, E
  <2> QED
    BY <1>5, ChosenIn
<1>7. pinned \in Seq(E) /\ others \in Seq(E)
  <2> HIDE DEF pinned, others, E
  <2>1. E \cap PinFirst \subseteq E /\ E \cap (ToSet(Instances) \ PinFirst) \subseteq E
    OBVIOUS
  <2> QED
    BY <1>6, <2>1, SeqOfMore
<1>8. OrderFor(tier, available, est) = pinned \o others
  BY DEF OrderFor
<1> HIDE DEF pinned, others, E
<1>9. pinned \o others \in Seq(E)
  BY <1>7
<1> QED
  BY <1>8, <1>9 DEF E

(* The ladders.  The loader refuses a tier on two ladders; that every tier *)
(* is on one, and once, that a role's bounds are on the ladder of its      *)
(* default and that the classifier has two rungs is up to routing.yaml.    *)
ConsistentLadders ==
    /\ \A t \in Tiers : \E l \in DOMAIN Ladders : t \in ToSet(Ladders[l])
    /\ \A l \in DOMAIN Ladders : \A i, j \in 1 .. Len(Ladders[l]) :
          Ladders[l][i] = Ladders[l][j] => i = j
    /\ \A r \in DOMAIN Roles : \A bound \in {Roles[r].min, Roles[r].max} :
          bound # NoTier => bound \in ToSet(LadderOf(Roles[r].default))
    /\ Len(Ladders["default"]) > 1

LEMMA LadderTypes ==
    ASSUME NEW l \in DOMAIN Ladders
    PROVE  /\ Len(Ladders[l]) \in Nat \ {0} /\ DOMAIN Ladders[l] = 1 .. Len(Ladders[l])
           /\ \A i \in 1 .. Len(Ladders[l]) : Ladders[l][i] \in Tiers
           /\ ToSet(Ladders[l]) = {Ladders[l][i] : i \in 1 .. Len(Ladders[l])}
           /\ ToSet(Ladders[l]) \subseteq Tiers
<1>1. Ladders[l] \in Seq(Tiers) /\ Len(Ladders[l]) > 0
  BY RoutingAssumption
<1>2. Len(Ladders[l]) \in Nat /\ DOMAIN Ladders[l] = 1 .. Len(Ladders[l])
  BY <1>1
<1>3. \A i \in 1 .. Len(Ladders[l]) : Ladders[l][i] \in Tiers
  BY <1>1
<1> QED
  BY <1>1, <1>2, <1>3 DEF ToSet

(* A tier's ladder is the one it stands on, its rank the rung.             *)
LEMMA OnLadder ==
    ASSUME ConsistentLadders, NEW l \in DOMAIN Ladders, NEW i \in 1 .. Len(Ladders[l])
    PROVE  LadderName(Ladders[l][i]) = l /\ Rank(Ladders[l][i]) = i - 1
<1> DEFINE t == Ladders[l][i]
           on == {k \in DOMAIN Ladders : t \in ToSet(Ladders[k])}
<1>1. t \in ToSet(Ladders[l])
  BY LadderTypes
<1>2. l \in on /\ \A k \in on : k = l
  BY <1>1, RoutingAssumption
<1>3. LadderName(t) = l
  BY <1>2 DEF LadderName
<1> HIDE DEF t
<1>4. LadderOf(t) = Ladders[l]
  BY <1>3 DEF LadderOf
<1>5. \A j \in 1 .. Len(Ladders[l]) : Ladders[l][j] = t => j = i
  BY DEF ConsistentLadders, t
<1>6. Ladders[l][i] = t
  BY DEF t
<1>7. (CHOOSE j \in 1 .. Len(Ladders[l]) : Ladders[l][j] = t) = i
  BY <1>5, <1>6
<1>8. Rank(t) = i - 1
  BY <1>1, <1>4, <1>7 DEF Rank
<1> QED
  BY <1>3, <1>8 DEF t

LEMMA SomeLadder ==
    ASSUME NEW t
    PROVE  LadderName(t) \in DOMAIN Ladders /\ LadderOf(t) = Ladders[LadderName(t)]
<1> DEFINE on == {l \in DOMAIN Ladders : t \in ToSet(Ladders[l])}
<1>1. CASE on = {}
  BY <1>1, RoutingAssumption DEF LadderName, LadderOf
<1>2. CASE on # {}
  BY <1>2 DEF LadderName, LadderOf
<1> QED
  BY <1>1, <1>2

(* On a ladder there is a rung, off it a tier ranks behind the last.       *)
LEMMA RankCases ==
    ASSUME ConsistentLadders, NEW t
    PROVE  \/ \E i \in 1 .. Len(LadderOf(t)) : t = LadderOf(t)[i] /\ Rank(t) = i - 1
           \/ t \notin ToSet(LadderOf(t)) /\ Rank(t) = Len(LadderOf(t))
<1> DEFINE l == LadderName(t)
<1>1. l \in DOMAIN Ladders /\ LadderOf(t) = Ladders[l]
  BY SomeLadder
<1>2. CASE t \in ToSet(LadderOf(t))
  <2>1. PICK i \in 1 .. Len(Ladders[l]) : t = Ladders[l][i]
    BY <1>1, <1>2, LadderTypes
  <2>2. Rank(Ladders[l][i]) = i - 1
    <3> HIDE DEF l
    <3> QED
      BY <1>1, OnLadder
  <2>3. Rank(t) = i - 1
    BY <2>1, <2>2
  <2> QED
    BY <1>1, <2>1, <2>3
<1>3. CASE t \notin ToSet(LadderOf(t))
  BY <1>3 DEF Rank
<1> QED
  BY <1>2, <1>3

LEMMA RankIsNumber ==
    ASSUME ConsistentLadders, NEW t
    PROVE  Rank(t) \in Nat /\ Len(LadderOf(t)) \in Nat /\ Rank(t) <= Len(LadderOf(t))
<1>1. Len(LadderOf(t)) \in Nat
  BY SomeLadder, LadderTypes
<1> QED
  BY <1>1, RankCases

(* One rung up is on the same ladder.                                      *)
LEMMA NextTierUp ==
    ASSUME ConsistentLadders, NEW t, NextTier(t) # NoTier
    PROVE  /\ NextTier(t) \in Tiers /\ LadderName(NextTier(t)) = LadderName(t)
           /\ Rank(NextTier(t)) = Rank(t) + 1
<1> DEFINE l == LadderName(t)
           i == Rank(t) + 2
<1>1. l \in DOMAIN Ladders /\ LadderOf(t) = Ladders[l]
  BY SomeLadder
<1>2. Rank(t) \in Nat /\ Rank(t) + 1 < Len(Ladders[l]) /\ NextTier(t) = Ladders[l][i]
  BY <1>1, RankIsNumber DEF NextTier
<1> HIDE DEF l
<1>3. Len(Ladders[l]) \in Nat
  BY <1>1, LadderTypes
<1>4. i \in 1 .. Len(Ladders[l]) /\ i - 1 = Rank(t) + 1
  BY <1>2, <1>3
<1> HIDE DEF i
<1>5. Ladders[l][i] \in Tiers
  BY <1>1, <1>4, LadderTypes
<1>6. LadderName(Ladders[l][i]) = l /\ Rank(Ladders[l][i]) = i - 1
  BY <1>1, <1>4, OnLadder
<1> QED
  BY <1>2, <1>4, <1>5, <1>6 DEF l

(* Rounding.                                                               *)
LEMMA Division ==
    ASSUME NEW n \in Nat, NEW d \in Nat \ {0}
    PROVE  /\ n \div d \in Nat /\ n % d \in 0 .. (d - 1)
           /\ n = d * (n \div d) + (n % d)
  OBVIOUS

LEMMA RoundCases ==
    ASSUME NEW n \in Nat, NEW d \in Nat \ {0}
    PROVE  /\ RoundHalfEven(n, d) =
                IF 2 * (n % d) < d \/ (2 * (n % d) = d /\ (n \div d) % 2 = 0)
                THEN n \div d ELSE (n \div d) + 1
           /\ RoundHalfEven(n, d) \in Nat
<1>1. RoundHalfEven(n, d) =
        IF 2 * (n % d) < d \/ (2 * (n % d) = d /\ (n \div d) % 2 = 0)
        THEN n \div d ELSE (n \div d) + 1
  BY DEF RoundHalfEven
<1> QED
  BY <1>1, Division

(* A product with a positive factor orders its other factors.              *)
LEMMA Quotients ==
    ASSUME NEW d \in Nat \ {0}, NEW p \in Nat, NEW q \in Nat, NEW r \in Nat, NEW s \in Nat,
           r < d, d * p + r <= d * q + s, s < d
    PROVE  p <= q
<1> SUFFICES ASSUME q + 1 <= p PROVE FALSE
  OBVIOUS
<1>1. d * (q + 1) <= d * p
  OBVIOUS
<1>2. d * (q + 1) = d * q + d /\ d * q \in Nat /\ d * p \in Nat
  OBVIOUS
<1> QED
  BY <1>1, <1>2

LEMMA RoundKeepsOrder ==
    ASSUME NEW m \in Nat, NEW n \in Nat, NEW d \in Nat \ {0}, m <= n
    PROVE  RoundHalfEven(m, d) <= RoundHalfEven(n, d)
<1> DEFINE p == m \div d
           q == n \div d
           r == m % d
           s == n % d
           x == p % 2
           y == q % 2
<1>1. p \in Nat /\ q \in Nat /\ r \in Nat /\ s \in Nat /\ r < d /\ s < d
  BY Division
<1>2. m = d * p + r /\ n = d * q + s
  BY Division
<1>3. /\ RoundHalfEven(m, d) = IF 2 * r < d \/ (2 * r = d /\ x = 0) THEN p ELSE p + 1
      /\ RoundHalfEven(n, d) = IF 2 * s < d \/ (2 * s = d /\ y = 0) THEN q ELSE q + 1
  BY RoundCases
<1>4. p = q => x = y
  OBVIOUS
<1> HIDE DEF p, q, r, s, x, y
<1>5. p <= q
  BY <1>1, <1>2, Quotients
<1>6. CASE p = q
  <2>1. r <= s
    <3>1. d * p \in Nat /\ d * p = d * q
      BY <1>1, <1>6
    <3> QED
      BY <1>1, <1>2, <3>1
  <2> QED
    BY <1>1, <1>3, <1>4, <1>6, <2>1
<1>7. CASE p < q
  BY <1>1, <1>3, <1>7
<1> QED
  BY <1>1, <1>5, <1>6, <1>7

LEMMA RoundExact ==
    ASSUME NEW k \in Nat, NEW d \in Nat \ {0}
    PROVE  RoundHalfEven(k * d, d) = k
<1> DEFINE n == k * d
           q == n \div d
           r == n % d
<1>1. n \in Nat
  OBVIOUS
<1> HIDE DEF n
<1>2. q \in Nat /\ r \in Nat /\ r < d /\ n = d * q + r
  BY <1>1, Division
<1>3. RoundHalfEven(n, d) = IF 2 * r < d \/ (2 * r = d /\ q % 2 = 0) THEN q ELSE q + 1
  BY <1>1, RoundCases
<1>4. n = d * k + 0
  BY DEF n
<1> HIDE DEF q, r
<1>5. q <= k
  BY <1>1, <1>2, <1>4, Quotients
<1>6. k <= q
  BY <1>1, <1>2, <1>4, Quotients
<1>7. q = k /\ r = 0
  <2>1. q = k
    BY <1>2, <1>5, <1>6
  <2>2. d * q = d * k /\ d * q \in Nat
    BY <2>1
  <2> QED
    BY <1>2, <1>4, <2>1, <2>2
<1> QED
  BY <1>3, <1>7 DEF n

(* From one ladder to another by position.                                 *)
LEMMA MappedTo ==
    ASSUME ConsistentLadders, NEW s \in DOMAIN Ladders, NEW i \in 1 .. Len(Ladders[s]),
           NEW l \in DOMAIN Ladders
    PROVE  LET dst == Len(Ladders[l]) - 1
               src == Len(Ladders[s]) - 1
               at  == IF src < 1 THEN 0 ELSE RoundHalfEven((i - 1) * dst, src)
           IN  /\ at \in 0 .. dst
               /\ Mapped(Ladders[s][i], l) = Ladders[l][at + 1]
               /\ Rank(Mapped(Ladders[s][i], l)) = at
<1> DEFINE dst == Len(Ladders[l]) - 1
           src == Len(Ladders[s]) - 1
           at  == IF src < 1 THEN 0 ELSE RoundHalfEven((i - 1) * dst, src)
           t == Ladders[s][i]
<1>1. dst \in Nat /\ src \in Nat
  BY LadderTypes
<1>2. LadderOf(t) = Ladders[s] /\ Rank(t) = i - 1
  BY OnLadder, SomeLadder
<1>3. i - 1 \in Nat /\ i - 1 <= src
  BY <1>1
<1>4. at \in 0 .. dst
  <2>1. CASE src < 1
    BY <1>1, <2>1
  <2>2. CASE ~(src < 1)
    <3> DEFINE k == i - 1
    <3>1. src \in Nat \ {0} /\ k \in Nat /\ k <= src
      <4>1. k \in Nat /\ k <= src
        BY <1>3
      <4>2. src # 0
        <5> HIDE DEF src
        <5> QED
          BY <2>2
      <4> HIDE DEF src, k
      <4> QED
        BY <1>1, <4>1, <4>2
    <3>2. at = RoundHalfEven(k * dst, src)
      BY <2>2
    <3> HIDE DEF k, dst, src, at
    <3>3. k * dst \in Nat /\ dst * src \in Nat /\ k * dst <= dst * src
      BY <1>1, <3>1
    <3>4. RoundHalfEven(k * dst, src) <= RoundHalfEven(dst * src, src)
      BY <3>1, <3>3, RoundKeepsOrder
    <3>5. RoundHalfEven(dst * src, src) = dst
      BY <1>1, <3>1, RoundExact
    <3>6. RoundHalfEven(k * dst, src) \in Nat
      BY <3>1, <3>3, RoundCases
    <3> QED
      BY <1>1, <3>2, <3>4, <3>5, <3>6
  <2> QED
    BY <2>1, <2>2
<1>5. Mapped(t, l) = Ladders[l][at + 1]
  <2>1. CASE Len(Ladders[s]) < 2
    <3>1. src < 1
      BY <1>1, <2>1
    <3>2. at + 1 = 1
      BY <3>1
    <3>3. Mapped(t, l) = Ladders[l][1]
      BY <1>2, <2>1 DEF Mapped
    <3> QED
      BY <3>2, <3>3
  <2>2. CASE ~(Len(Ladders[s]) < 2)
    <3>1. ~(src < 1)
      BY <1>1, <2>2
    <3>2. at = RoundHalfEven((i - 1) * dst, src)
      BY <3>1
    <3> HIDE DEF t
    <3>3. Mapped(t, l) =
            Ladders[l][RoundHalfEven(Rank(t) * (Len(Ladders[l]) - 1), Len(Ladders[s]) - 1) + 1]
      BY <1>2, <2>2 DEF Mapped
    <3> QED
      BY <1>2, <3>2, <3>3
  <2> QED
    BY <2>1, <2>2
<1>6. at + 1 \in 1 .. Len(Ladders[l]) /\ (at + 1) - 1 = at
  <2> HIDE DEF at
  <2> QED
    BY <1>1, <1>4, LadderTypes
<1>7. Rank(Ladders[l][at + 1]) = (at + 1) - 1
  <2> HIDE DEF at
  <2> QED
    BY <1>6, OnLadder
<1> QED
  BY <1>4, <1>5, <1>6, <1>7

(* The tier a role asks for, before its bounds.                            *)
HomeOf(role) == LadderName(Roles[role].default)

AskedTier(role, classified) ==
    IF classified \notin Tiers THEN Roles[role].default
    ELSE IF LadderName(classified) = HomeOf(role) THEN classified
    ELSE Mapped(classified, HomeOf(role))

(* The bounds, as they act on ranks.                                       *)
Floored(role, k) ==
    IF Roles[role].min # NoTier /\ k < Rank(Roles[role].min) THEN Rank(Roles[role].min) ELSE k
Capped(role, k) ==
    IF Roles[role].max # NoTier /\ k > Rank(Roles[role].max) THEN Rank(Roles[role].max) ELSE k

OnHome(role, tier) == \E i \in 1 .. Len(Ladders[HomeOf(role)]) :
                         tier = Ladders[HomeOf(role)][i] /\ Rank(tier) = i - 1

LEMMA HomeIs ==
    ASSUME ConsistentLadders, NEW role \in DOMAIN Roles
    PROVE  /\ HomeOf(role) \in DOMAIN Ladders
           /\ LadderOf(Roles[role].default) = Ladders[HomeOf(role)]
           /\ \A i \in 1 .. Len(Ladders[HomeOf(role)]) : OnHome(role, Ladders[HomeOf(role)][i])
           /\ \A t \in Tiers : LadderName(t) = HomeOf(role) => OnHome(role, t)
           /\ \A bound \in {Roles[role].min, Roles[role].max} : bound # NoTier => OnHome(role, bound)
<1>1. HomeOf(role) \in DOMAIN Ladders /\ LadderOf(Roles[role].default) = Ladders[HomeOf(role)]
  BY SomeLadder DEF HomeOf
<1>2. ASSUME NEW i \in 1 .. Len(Ladders[HomeOf(role)])
      PROVE  OnHome(role, Ladders[HomeOf(role)][i])
  <2>1. Rank(Ladders[HomeOf(role)][i]) = i - 1
    BY <1>1, OnLadder
  <2> QED
    BY <2>1 DEF OnHome
<1>3. ASSUME NEW t \in ToSet(Ladders[HomeOf(role)]) PROVE OnHome(role, t)
  <2>1. PICK i \in 1 .. Len(Ladders[HomeOf(role)]) : t = Ladders[HomeOf(role)][i]
    BY <1>1, LadderTypes
  <2> QED
    BY <1>2, <2>1
<1>4. ASSUME NEW t \in Tiers, LadderName(t) = HomeOf(role) PROVE OnHome(role, t)
  <2>1. PICK l \in DOMAIN Ladders : t \in ToSet(Ladders[l])
    BY DEF ConsistentLadders
  <2>2. PICK i \in 1 .. Len(Ladders[l]) : t = Ladders[l][i]
    BY LadderTypes, <2>1
  <2>3. LadderName(t) = l
    BY <2>2, OnLadder
  <2> QED
    BY <1>3, <1>4, <2>1, <2>3
<1>5. ASSUME NEW bound \in {Roles[role].min, Roles[role].max}, bound # NoTier
      PROVE  OnHome(role, bound)
  <2>1. bound \in ToSet(LadderOf(Roles[role].default))
    BY <1>5 DEF ConsistentLadders
  <2> QED
    BY <1>1, <1>3, <2>1
<1> QED
  BY <1>1, <1>2, <1>3, <1>4, <1>5

LEMMA OnHomeTypes ==
    ASSUME ConsistentLadders, NEW role \in DOMAIN Roles, NEW t, OnHome(role, t)
    PROVE  /\ t \in Tiers /\ LadderName(t) = HomeOf(role)
           /\ Rank(t) \in Nat /\ Rank(t) <= Len(Ladders[HomeOf(role)]) - 1
<1>1. HomeOf(role) \in DOMAIN Ladders
  BY HomeIs
<1>2. PICK i \in 1 .. Len(Ladders[HomeOf(role)]) : t = Ladders[HomeOf(role)][i] /\ Rank(t) = i - 1
  BY DEF OnHome
<1>3. t \in Tiers /\ Len(Ladders[HomeOf(role)]) \in Nat
  BY <1>1, <1>2, LadderTypes
<1>4. LadderName(t) = HomeOf(role)
  BY <1>1, <1>2, OnLadder
<1> QED
  BY <1>2, <1>3, <1>4

LEMMA AskedIsHome ==
    ASSUME ConsistentLadders, NEW role \in DOMAIN Roles, NEW classified
    PROVE  OnHome(role, AskedTier(role, classified))
<1>1. HomeOf(role) \in DOMAIN Ladders /\ Roles[role].default \in Tiers
  BY HomeIs, RoutingAssumption
<1>2. CASE classified \notin Tiers
  <2>1. OnHome(role, Roles[role].default)
    BY <1>1, HomeIs DEF HomeOf
  <2> QED
    BY <1>2, <2>1 DEF AskedTier
<1>3. CASE classified \in Tiers /\ LadderName(classified) = HomeOf(role)
  BY <1>3, HomeIs DEF AskedTier
<1>4. CASE classified \in Tiers /\ LadderName(classified) # HomeOf(role)
  <2>1. PICK s \in DOMAIN Ladders : classified \in ToSet(Ladders[s])
    BY <1>4 DEF ConsistentLadders
  <2>2. PICK i \in 1 .. Len(Ladders[s]) : classified = Ladders[s][i]
    BY LadderTypes, <2>1
  <2> DEFINE dst == Len(Ladders[HomeOf(role)]) - 1
             src == Len(Ladders[s]) - 1
             at  == IF src < 1 THEN 0 ELSE RoundHalfEven((i - 1) * dst, src)
  <2>3. at \in 0 .. dst /\ Mapped(classified, HomeOf(role)) = Ladders[HomeOf(role)][at + 1]
    BY <1>1, <2>2, MappedTo
  <2> HIDE DEF at
  <2>4. at + 1 \in 1 .. Len(Ladders[HomeOf(role)])
    BY <1>1, <2>3, LadderTypes
  <2>5. OnHome(role, Ladders[HomeOf(role)][at + 1])
    BY <2>4, HomeIs
  <2> QED
    BY <1>4, <2>3, <2>5 DEF AskedTier
<1> QED
  BY <1>2, <1>3, <1>4

(* The first tier of a request is one of the role's ladder.                *)
LEMMA TierForIsHome ==
    ASSUME ConsistentLadders, NEW role \in DOMAIN Roles, NEW classified
    PROVE  /\ OnHome(role, TierForRole(role, classified))
           /\ Rank(TierForRole(role, classified))
                = Capped(role, Floored(role, Rank(AskedTier(role, classified))))
<1> DEFINE asked == AskedTier(role, classified)
           min == Roles[role].min
           max == Roles[role].max
           floored == IF min # NoTier /\ Rank(asked) < Rank(min) THEN min ELSE asked
           final == IF max # NoTier /\ Rank(floored) > Rank(max) THEN max ELSE floored
<1>1. TierForRole(role, classified) = final
  BY DEF TierForRole, AskedTier, HomeOf
<1>2. OnHome(role, asked)
  BY AskedIsHome
<1>3. (min # NoTier => OnHome(role, min)) /\ (max # NoTier => OnHome(role, max))
  BY HomeIs
<1> HIDE DEF asked
<1>4. OnHome(role, floored) /\ Rank(floored) = Floored(role, Rank(asked))
  BY <1>2, <1>3 DEF Floored
<1> HIDE DEF floored
<1>5. OnHome(role, final) /\ Rank(final) = Capped(role, Rank(floored))
  BY <1>3, <1>4 DEF Capped
<1> QED
  BY <1>1, <1>4, <1>5 DEF asked

(* Where the classifier's k-th rung lands on a role's ladder.              *)
Placed(role, k) ==
    IF HomeOf(role) = "default" THEN k
    ELSE RoundHalfEven(k * (Len(Ladders[HomeOf(role)]) - 1), Len(Ladders["default"]) - 1)

LEMMA AskedByPosition ==
    ASSUME ConsistentLadders, NEW role \in DOMAIN Roles, NEW i \in 1 .. Len(Ladders["default"])
    PROVE  Rank(AskedTier(role, Ladders["default"][i])) = Placed(role, i - 1)
<1> DEFINE t == Ladders["default"][i]
           l == HomeOf(role)
<1>1. "default" \in DOMAIN Ladders /\ l \in DOMAIN Ladders
  BY HomeIs, RoutingAssumption
<1>2. t \in Tiers /\ LadderName(t) = "default" /\ Rank(t) = i - 1
  BY <1>1, LadderTypes, OnLadder
<1>3. CASE l = "default"
  <2>1. Placed(role, i - 1) = i - 1
    BY <1>3 DEF Placed
  <2> HIDE DEF t
  <2>2. Rank(AskedTier(role, t)) = i - 1
    BY <1>2, <1>3 DEF AskedTier
  <2> QED
    BY <2>1, <2>2 DEF t
<1>4. CASE l # "default"
  <2> DEFINE dst == Len(Ladders[l]) - 1
             src == Len(Ladders["default"]) - 1
             at  == IF src < 1 THEN 0 ELSE RoundHalfEven((i - 1) * dst, src)
  <2>1. ~(src < 1)
    <3>1. Len(Ladders["default"]) \in Nat /\ Len(Ladders["default"]) > 1
      BY <1>1, LadderTypes DEF ConsistentLadders
    <3> QED
      BY <3>1
  <2>2. Rank(Mapped(t, l)) = at
    <3> HIDE DEF l
    <3> QED
      BY <1>1, MappedTo
  <2>3. AskedTier(role, t) = Mapped(t, l)
    <3> HIDE DEF t
    <3> QED
      BY <1>2, <1>4 DEF AskedTier
  <2> HIDE DEF t
  <2>4. Rank(AskedTier(role, t)) = RoundHalfEven((i - 1) * dst, src)
    BY <2>1, <2>2, <2>3
  <2> QED
    BY <1>4, <2>4 DEF Placed, t
<1> QED
  BY <1>3, <1>4

(* Placing keeps the order and the ends.                                   *)
LEMMA PlacedKeeps ==
    ASSUME ConsistentLadders, NEW role \in DOMAIN Roles
    PROVE  LET top == Len(Ladders["default"]) - 1
           IN  /\ Placed(role, 0) = 0
               /\ Placed(role, top) = Len(Ladders[HomeOf(role)]) - 1
               /\ \A j, k \in 0 .. top :
                     j <= k => /\ Placed(role, j) <= Placed(role, k)
                               /\ Placed(role, j) \in Nat /\ Placed(role, k) \in Nat
<1> DEFINE top == Len(Ladders["default"]) - 1
           dst == Len(Ladders[HomeOf(role)]) - 1
<1>1. HomeOf(role) \in DOMAIN Ladders /\ "default" \in DOMAIN Ladders
  BY HomeIs, RoutingAssumption
<1>2. top \in Nat \ {0} /\ dst \in Nat
  <2>1. /\ Len(Ladders["default"]) \in Nat /\ Len(Ladders["default"]) > 1
        /\ Len(Ladders[HomeOf(role)]) \in Nat \ {0}
    BY <1>1, LadderTypes DEF ConsistentLadders
  <2>2. ASSUME NEW k \in Nat, NEW m \in Nat \ {0}, k > 1
        PROVE  k - 1 \in Nat \ {0} /\ m - 1 \in Nat
    BY <2>2
  <2> QED
    BY <2>1, <2>2
<1>3. CASE HomeOf(role) = "default"
  <2>1. top = dst /\ \A k : Placed(role, k) = k
    BY <1>3 DEF Placed
  <2> HIDE DEF top, dst
  <2>2. /\ Placed(role, 0) = 0 /\ Placed(role, top) = dst
        /\ \A j, k \in 0 .. top :
              j <= k => /\ Placed(role, j) <= Placed(role, k)
                        /\ Placed(role, j) \in Nat /\ Placed(role, k) \in Nat
    BY <1>2, <2>1
  <2> QED
    BY <2>2 DEF top, dst
<1>4. CASE HomeOf(role) # "default"
  <2>1. \A k : Placed(role, k) = RoundHalfEven(k * dst, top)
    BY <1>4 DEF Placed
  <2> HIDE DEF top, dst
  <2>2. Placed(role, 0) = 0
    <3>1. 0 * dst = 0 * top
      BY <1>2
    <3>2. RoundHalfEven(0 * top, top) = 0
      BY <1>2, RoundExact
    <3> QED
      BY <2>1, <3>1, <3>2
  <2>3. Placed(role, top) = dst
    <3>1. top * dst = dst * top
      BY <1>2
    <3>2. RoundHalfEven(dst * top, top) = dst
      BY <1>2, RoundExact
    <3> QED
      BY <2>1, <3>1, <3>2
  <2>4. ASSUME NEW j \in 0 .. top, NEW k \in 0 .. top, j <= k
        PROVE  /\ Placed(role, j) <= Placed(role, k)
               /\ Placed(role, j) \in Nat /\ Placed(role, k) \in Nat
    <3>1. j \in Nat /\ k \in Nat
      BY <1>2
    <3>2. j * dst \in Nat /\ k * dst \in Nat /\ j * dst <= k * dst
      BY <1>2, <2>4, <3>1
    <3>3. RoundHalfEven(j * dst, top) <= RoundHalfEven(k * dst, top)
      BY <1>2, <3>2, RoundKeepsOrder
    <3>4. RoundHalfEven(j * dst, top) \in Nat /\ RoundHalfEven(k * dst, top) \in Nat
      BY <1>2, <3>2, RoundCases
    <3> QED
      BY <2>1, <3>3, <3>4
  <2> QED
    BY <2>2, <2>3, <2>4 DEF top, dst
<1> QED
  BY <1>3, <1>4

(* The bounds of a role keep order.                                        *)
LEMMA BoundsKeepOrder ==
    ASSUME ConsistentLadders, NEW role \in DOMAIN Roles, NEW j \in Nat, NEW k \in Nat, j <= k
    PROVE  Capped(role, Floored(role, j)) <= Capped(role, Floored(role, k))
<1> DEFINE a == Rank(Roles[role].min)
           b == Rank(Roles[role].max)
<1>1. a \in Nat /\ b \in Nat
  BY RankIsNumber
<1> HIDE DEF a, b
<1>2. Floored(role, j) <= Floored(role, k) /\ Floored(role, j) \in Nat /\ Floored(role, k) \in Nat
  BY <1>1 DEF Floored, a
<1> DEFINE u == Floored(role, j)
           v == Floored(role, k)
<1> HIDE DEF u, v
<1>3. u <= v /\ u \in Nat /\ v \in Nat
  BY <1>2 DEF u, v
<1>4. Capped(role, u) <= Capped(role, v)
  BY <1>1, <1>3 DEF Capped, b
<1> QED
  BY <1>4 DEF u, v

(* A harder verdict never lands lower, and without bounds ends are ends.   *)
LEMMA VerdictsKeepOrder ==
    ASSUME ConsistentLadders, NEW role \in DOMAIN Roles,
           NEW classified \in ToSet(Ladders["default"])
    PROVE  LET rungs == Ladders["default"]
               first == TierForRole(role, classified)
           IN  /\ \A t \in ToSet(rungs) :
                     Rank(t) <= Rank(classified) => Rank(TierForRole(role, t)) <= Rank(first)
               /\ (Roles[role].min = NoTier /\ classified = rungs[1]) => Rank(first) = 0
               /\ (Roles[role].max = NoTier /\ classified = rungs[Len(rungs)])
                     => Rank(first) = Len(LadderOf(first)) - 1
<1> DEFINE rungs == Ladders["default"]
           first == TierForRole(role, classified)
           top == Len(rungs) - 1
           dst == Len(Ladders[HomeOf(role)]) - 1
<1>1. "default" \in DOMAIN Ladders /\ HomeOf(role) \in DOMAIN Ladders
  BY HomeIs, RoutingAssumption
<1>2. Len(rungs) \in Nat \ {0} /\ Len(Ladders[HomeOf(role)]) \in Nat \ {0}
  BY <1>1, LadderTypes
<1>3. ASSUME NEW i \in 1 .. Len(rungs)
      PROVE  /\ Rank(rungs[i]) = i - 1 /\ i - 1 \in 0 .. top
             /\ Rank(TierForRole(role, rungs[i])) = Capped(role, Floored(role, Placed(role, i - 1)))
  <2>1. Rank(rungs[i]) = i - 1
    BY <1>1, OnLadder
  <2>2. i - 1 \in 0 .. top
    BY <1>2
  <2>3. Rank(TierForRole(role, rungs[i])) = Capped(role, Floored(role, Rank(AskedTier(role, rungs[i]))))
    BY TierForIsHome
  <2>4. Rank(AskedTier(role, rungs[i])) = Placed(role, i - 1)
    BY AskedByPosition
  <2> QED
    BY <2>1, <2>2, <2>3, <2>4
<1>4. PICK c \in 1 .. Len(rungs) : classified = rungs[c]
  BY <1>1, LadderTypes
<1>5. ASSUME NEW t \in ToSet(rungs), Rank(t) <= Rank(classified)
      PROVE  Rank(TierForRole(role, t)) <= Rank(first)
  <2>1. PICK i \in 1 .. Len(rungs) : t = rungs[i]
    BY <1>1, LadderTypes
  <2> DEFINE j == i - 1
             k == c - 1
  <2>2. j \in 0 .. top /\ k \in 0 .. top /\ j <= k
    BY <1>3, <1>4, <1>5, <2>1
  <2>3. /\ Rank(TierForRole(role, t)) = Capped(role, Floored(role, Placed(role, j)))
        /\ Rank(first) = Capped(role, Floored(role, Placed(role, k)))
    BY <1>3, <1>4, <2>1
  <2> HIDE DEF j, k, first
  <2>4. Placed(role, j) \in Nat /\ Placed(role, k) \in Nat /\ Placed(role, j) <= Placed(role, k)
    BY <2>2, PlacedKeeps
  <2> QED
    BY <2>3, <2>4, BoundsKeepOrder
<1>6. ASSUME Roles[role].min = NoTier, classified = rungs[1] PROVE Rank(first) = 0
  <2>1. 1 \in 1 .. Len(rungs) /\ 1 - 1 = 0
    BY <1>2
  <2>2. Rank(first) = Capped(role, Floored(role, Placed(role, 0)))
    BY <1>3, <1>6, <2>1
  <2>3. Placed(role, 0) = 0
    BY PlacedKeeps
  <2>4. Floored(role, 0) = 0
    BY <1>6 DEF Floored
  <2>5. Rank(Roles[role].max) \in Nat
    BY RankIsNumber
  <2>6. Capped(role, 0) = 0
    BY <2>5 DEF Capped
  <2> QED
    BY <2>2, <2>3, <2>4, <2>6
<1>7. ASSUME Roles[role].max = NoTier, classified = rungs[Len(rungs)]
      PROVE  Rank(first) = Len(LadderOf(first)) - 1
  <2>1. Len(rungs) \in 1 .. Len(rungs)
    BY <1>2
  <2>2. Rank(first) = Capped(role, Floored(role, Placed(role, top)))
    BY <1>3, <1>7, <2>1
  <2>3. Placed(role, top) = dst
    BY PlacedKeeps
  <2>4. Roles[role].min # NoTier => Rank(Roles[role].min) \in Nat /\ Rank(Roles[role].min) <= dst
    <3>1. Roles[role].min # NoTier => OnHome(role, Roles[role].min)
      BY HomeIs
    <3> QED
      BY <3>1, OnHomeTypes
  <2>5. Floored(role, dst) = dst
    <3>1. dst \in Nat
      BY <1>2
    <3> HIDE DEF dst
    <3> QED
      BY <2>4, <3>1 DEF Floored
  <2>6. Capped(role, dst) = dst
    BY <1>7 DEF Capped
  <2>7. LadderName(first) = HomeOf(role)
    BY TierForIsHome, OnHomeTypes
  <2>8. LadderOf(first) = Ladders[HomeOf(role)]
    BY <2>7, SomeLadder
  <2> QED
    BY <2>2, <2>3, <2>5, <2>6, <2>8
<1> QED
  BY <1>5, <1>6, <1>7

Plans ==
    [at: {"ring", "calling", "answered", "failed", "refused"}, role: DOMAIN Roles,
     classified: Tiers \cup {NoTier}, tier: Tiers, visited: Seq(Tiers),
     available: SUBSET ToSet(Instances), est: Estimates, left: Seq(ToSet(Instances)),
     awaited: ToSet(Instances) \cup {NoProvider}]

(* The candidates left and the one awaited are eligible for the tier, the  *)
(* last of those visited, each of which is one rung above the one before.  *)
CandidatesFit(p) ==
    /\ p.left \in Seq(Eligible(p.tier, p.available, p.est))
    /\ p.awaited # NoProvider => p.awaited \in Eligible(p.tier, p.available, p.est)

Climbs(p) ==
    /\ 1 <= Len(p.visited) /\ Len(p.visited) <= MaxEscalations + 1
    /\ p.tier = p.visited[Len(p.visited)]
    /\ p.visited[1] = TierForRole(p.role, p.classified)
    /\ \A i \in 1 .. Len(p.visited) :
          /\ LadderName(p.visited[i]) = HomeOf(p.role)
          /\ Rank(p.visited[i]) = Rank(p.visited[1]) + i - 1

Routed(p) == p \in Plans /\ CandidatesFit(p) /\ Climbs(p)
RoutingInv == plan = Unplanned \/ Routed(plan)

LEMMA EligibleAre ==
    ASSUME NEW tier \in Tiers, NEW among \in SUBSET ToSet(Instances), NEW est,
           NEW left, left = OrderFor(tier, Chosen(Instances, among), est)
    PROVE  left \in Seq(Eligible(tier, among, est)) /\ left \in Seq(ToSet(Instances))
<1>1. Chosen(Instances, among) \in Seq(ToSet(Instances) \cap among)
  BY ChosenIn, RoutingAssumption
<1>2. Chosen(Instances, among) \in Seq(among)
  <2>1. ToSet(Instances) \cap among \subseteq among
    OBVIOUS
  <2> QED
    BY <1>1, <2>1, SeqOfMore
<1>3. left \in Seq(Eligible(tier, among, est))
  BY <1>2, OrderForIn
<1>4. Eligible(tier, among, est) \subseteq ToSet(Instances)
  BY DEF Eligible
<1> QED
  BY <1>3, <1>4, SeqOfMore

LEMMA RoutesSound ==
    ASSUME ConsistentLadders, RoutingInv,
           NEW role \in DOMAIN Roles, NEW classified \in Tiers \cup {NoTier},
           NEW available \in SUBSET ToSet(Instances), NEW est \in Estimates,
           Route(role, classified, available, est)
    PROVE  Routed(plan')
<1> DEFINE tier == TierForRole(role, classified)
           left == OrderFor(tier, Chosen(Instances, available), est)
<1>1. plan' = [at |-> IF left = <<>> THEN "refused" ELSE "ring", role |-> role,
               classified |-> classified, tier |-> tier, visited |-> <<tier>>,
               available |-> available, est |-> est, left |-> left, awaited |-> NoProvider]
  BY DEF Route
<1>2. tier \in Tiers /\ LadderName(tier) = HomeOf(role) /\ Rank(tier) \in Nat
  BY TierForIsHome, OnHomeTypes
<1>t. tier = TierForRole(role, classified)
  OBVIOUS
<1> HIDE DEF tier
<1>3. left \in Seq(Eligible(tier, available, est)) /\ left \in Seq(ToSet(Instances))
  BY <1>2, EligibleAre
<1> HIDE DEF left
<1>4. plan' \in Plans
  BY <1>1, <1>2, <1>3 DEF Plans
<1>5. CandidatesFit(plan')
  BY <1>1, <1>3 DEF CandidatesFit
<1>6. Climbs(plan')
  <2>1. Len(<<tier>>) = 1 /\ <<tier>>[1] = tier /\ MaxEscalations \in Nat
    BY RoutingAssumption
  <2>2. \A i \in 1 .. 1 : i = 1 /\ Rank(tier) + i - 1 = Rank(tier)
    BY <1>2
  <2>3. plan'.visited = <<tier>> /\ plan'.tier = tier /\ plan'.role = role
        /\ plan'.classified = classified
    BY <1>1
  <2>4. 1 <= 1 /\ 1 <= MaxEscalations + 1
    BY <2>1
  <2> QED
    BY <1>2, <1>t, <2>1, <2>2, <2>3, <2>4 DEF Climbs
<1> QED
  BY <1>4, <1>5, <1>6 DEF Routed

(* The cascade's climb appends the next rung.                              *)
LEMMA ClimbsOn ==
    ASSUME ConsistentLadders, Routed(plan), NEW p, p \in Plans,
           p.role = plan.role, p.classified = plan.classified,
           p.tier = NextTier(plan.tier), p.visited = Append(plan.visited, p.tier),
           Len(plan.visited) - 1 < MaxEscalations, NextTier(plan.tier) # NoTier
    PROVE  Climbs(p)
<1> DEFINE v == plan.visited
           n == Len(v)
           w == p.visited
           up == NextTier(plan.tier)
<1>1. v \in Seq(Tiers) /\ n \in Nat /\ 1 <= n
  BY DEF Routed, Plans, Climbs
<1>2. plan.tier = v[n] /\ v[1] = TierForRole(plan.role, plan.classified)
      /\ \A i \in 1 .. n : LadderName(v[i]) = HomeOf(plan.role) /\ Rank(v[i]) = Rank(v[1]) + i - 1
  BY DEF Routed, Climbs
<1>3. up \in Tiers /\ LadderName(up) = LadderName(plan.tier) /\ Rank(up) = Rank(plan.tier) + 1
  BY NextTierUp
<1>4. w = Append(v, up) /\ p.tier = up
  OBVIOUS
<1> HIDE DEF v, w, up
<1>5. Len(w) = n + 1 /\ w[n + 1] = up /\ \A i \in 1 .. n : w[i] = v[i]
  BY <1>1, <1>3, <1>4
<1>6. MaxEscalations \in Nat /\ n - 1 < MaxEscalations
  BY RoutingAssumption DEF v
<1> HIDE DEF n
<1>7. 1 <= Len(w) /\ Len(w) <= MaxEscalations + 1
  BY <1>1, <1>5, <1>6
<1>8. p.tier = w[Len(w)] /\ w[1] = TierForRole(p.role, p.classified)
  <2>1. w[1] = v[1]
    BY <1>1, <1>5
  <2> QED
    BY <1>2, <1>4, <1>5, <2>1
<1>9. ASSUME NEW i \in 1 .. Len(w)
      PROVE  LadderName(w[i]) = HomeOf(p.role) /\ Rank(w[i]) = Rank(w[1]) + i - 1
  <2>1. n \in 1 .. n /\ 1 \in 1 .. n /\ w[1] = v[1] /\ Rank(v[1]) \in Nat
    BY <1>1, <1>5, RankIsNumber
  <2>2. CASE i \in 1 .. n
    BY <1>2, <1>5, <2>1, <2>2
  <2>3. CASE i = n + 1
    <3>1. Rank(v[n]) = Rank(v[1]) + n - 1 /\ LadderName(v[n]) = HomeOf(p.role)
      BY <1>2, <2>1
    <3>2. Rank(up) = Rank(v[1]) + n - 1 + 1 /\ LadderName(up) = HomeOf(p.role)
      BY <1>2, <1>3, <3>1
    <3>3. Rank(v[1]) + n - 1 + 1 = Rank(v[1]) + (n + 1) - 1
      BY <1>1, <2>1
    <3> QED
      BY <1>5, <2>1, <2>3, <3>2, <3>3
  <2>4. i \in 1 .. n \/ i = n + 1
    BY <1>1, <1>5
  <2> QED
    BY <2>2, <2>3, <2>4
<1> QED
  BY <1>7, <1>8, <1>9 DEF Climbs, w

LEMMA RoutingStep == ASSUME ConsistentLadders, RoutingInv, [RoutingNext]_plan PROVE RoutingInv'
<1>a. plan.at # "start" => Routed(plan)
  BY DEF RoutingInv, Unplanned
<1>1. ASSUME NEW role \in DOMAIN Roles, NEW classified \in Tiers \cup {NoTier},
             NEW available \in SUBSET ToSet(Instances), NEW est \in Estimates,
             Route(role, classified, available, est)
      PROVE  RoutingInv'
  <2>1. Routed(plan')
    BY <1>1, RoutesSound
  <2> QED
    BY <2>1 DEF RoutingInv
<1>2. CASE CallNext
  <2>1. plan.at = "ring" /\ plan.left # <<>>
        /\ plan' = [plan EXCEPT !.at = "calling", !.awaited = Head(plan.left), !.left = Tail(@)]
    BY <1>2 DEF CallNext
  <2>2. plan \in Plans /\ CandidatesFit(plan) /\ Climbs(plan)
    BY <1>a, <2>1 DEF Routed
  <2> DEFINE E == Eligible(plan.tier, plan.available, plan.est)
             I == ToSet(Instances)
  <2>3. plan.left \in Seq(E) /\ plan.left \in Seq(I)
    BY <2>2 DEF CandidatesFit, Plans
  <2>4. Head(plan.left) \in E /\ Tail(plan.left) \in Seq(E)
        /\ Head(plan.left) \in I /\ Tail(plan.left) \in Seq(I)
    <3> HIDE DEF E, I
    <3> QED
      BY <2>1, <2>3
  <2>5. plan' \in Plans /\ plan'.left = Tail(plan.left) /\ plan'.awaited = Head(plan.left)
    BY <2>1, <2>2, <2>4 DEF Plans
  <2>6. /\ plan'.tier = plan.tier /\ plan'.available = plan.available /\ plan'.est = plan.est
        /\ plan'.visited = plan.visited /\ plan'.role = plan.role
        /\ plan'.classified = plan.classified
    BY <2>1, <2>2 DEF Plans
  <2>7. CandidatesFit(plan')
    BY <2>4, <2>5, <2>6 DEF CandidatesFit
  <2>8. Climbs(plan')
    BY <2>2, <2>6 DEF Climbs
  <2> QED
    BY <2>5, <2>7, <2>8 DEF RoutingInv, Routed
<1>3. CASE NoneLeft
  <2>1. plan.at = "ring" /\ plan' = [plan EXCEPT !.at = "failed"]
    BY <1>3 DEF NoneLeft
  <2>2. plan \in Plans /\ CandidatesFit(plan) /\ Climbs(plan)
    BY <1>a, <2>1 DEF Routed
  <2>3. /\ plan' \in Plans /\ plan'.left = plan.left /\ plan'.awaited = plan.awaited
        /\ plan'.tier = plan.tier /\ plan'.available = plan.available /\ plan'.est = plan.est
        /\ plan'.visited = plan.visited /\ plan'.role = plan.role
        /\ plan'.classified = plan.classified
    BY <2>1, <2>2 DEF Plans
  <2>4. CandidatesFit(plan') /\ Climbs(plan')
    BY <2>2, <2>3 DEF CandidatesFit, Climbs
  <2> QED
    BY <2>3, <2>4 DEF RoutingInv, Routed
<1>4. CASE Unanswered
  <2>1. plan.at = "calling" /\ plan' = [plan EXCEPT !.at = "ring", !.awaited = NoProvider]
    BY <1>4 DEF Unanswered
  <2>2. plan \in Plans /\ CandidatesFit(plan) /\ Climbs(plan)
    BY <1>a, <2>1 DEF Routed
  <2>3. /\ plan' \in Plans /\ plan'.left = plan.left /\ plan'.awaited = NoProvider
        /\ plan'.tier = plan.tier /\ plan'.available = plan.available /\ plan'.est = plan.est
        /\ plan'.visited = plan.visited /\ plan'.role = plan.role
        /\ plan'.classified = plan.classified
    BY <2>1, <2>2 DEF Plans
  <2>4. CandidatesFit(plan') /\ Climbs(plan')
    BY <2>2, <2>3 DEF CandidatesFit, Climbs
  <2> QED
    BY <2>3, <2>4 DEF RoutingInv, Routed
<1>5. ASSUME NEW signals \in SUBSET DOMAIN ScoreOf, Judged(signals) PROVE RoutingInv'
  <2> DEFINE up == NextTier(plan.tier)
             left == OrderFor(up, Chosen(Instances, plan.available), plan.est)
             climbs == ShouldEscalate(plan, signals)
             at == IF left = <<>> THEN "failed" ELSE "ring"
  <2>1. /\ plan.at = "calling"
        /\ plan' = IF climbs
                   THEN [plan EXCEPT !.at = at, !.tier = up, !.left = left,
                                     !.visited = Append(@, up), !.awaited = NoProvider]
                   ELSE [plan EXCEPT !.at = "answered"]
    BY <1>5 DEF Judged, Available
  <2>2. Routed(plan) /\ plan \in Plans /\ CandidatesFit(plan) /\ Climbs(plan)
    BY <1>a, <2>1 DEF Routed
  <2>3. CASE climbs
    <3>1. up # NoTier /\ Len(plan.visited) - 1 < MaxEscalations
      BY <2>3 DEF ShouldEscalate
    <3>2. up \in Tiers
      BY <3>1, NextTierUp
    <3>3. plan.available \in SUBSET ToSet(Instances)
      BY <2>2 DEF Plans
    <3>4. left \in Seq(Eligible(up, plan.available, plan.est)) /\ left \in Seq(ToSet(Instances))
      BY <3>2, <3>3, EligibleAre
    <3>5. plan' = [plan EXCEPT !.at = at, !.tier = up, !.left = left,
                               !.visited = Append(@, up), !.awaited = NoProvider]
      BY <2>1, <2>3
    <3>6. up = NextTier(plan.tier) /\ at \in {"failed", "ring"}
      OBVIOUS
    <3> HIDE DEF up, left, climbs, at
    <3>7. Append(plan.visited, up) \in Seq(Tiers)
      BY <2>2, <3>2 DEF Plans
    <3>8. plan' \in Plans
      BY <2>2, <3>2, <3>4, <3>5, <3>6, <3>7 DEF Plans
    <3>9. /\ plan'.left = left /\ plan'.awaited = NoProvider /\ plan'.tier = up
          /\ plan'.available = plan.available /\ plan'.est = plan.est
          /\ plan'.visited = Append(plan.visited, up) /\ plan'.role = plan.role
          /\ plan'.classified = plan.classified
      BY <2>2, <3>5 DEF Plans
    <3>10. CandidatesFit(plan')
      BY <3>4, <3>9 DEF CandidatesFit
    <3>11. Climbs(plan')
      <4> DEFINE p == plan'
      <4>1. p \in Plans /\ p.role = plan.role /\ p.classified = plan.classified
            /\ p.tier = NextTier(plan.tier) /\ p.visited = Append(plan.visited, p.tier)
        BY <3>6, <3>8, <3>9
      <4>2. NextTier(plan.tier) # NoTier
        BY <3>1, <3>6
      <4> HIDE DEF p
      <4>3. Climbs(p)
        BY <2>2, <3>1, <4>1, <4>2, ClimbsOn
      <4> QED
        BY <4>3 DEF p
    <3> QED
      BY <3>8, <3>10, <3>11 DEF RoutingInv, Routed
  <2>4. CASE ~climbs
    <3>1. plan' = [plan EXCEPT !.at = "answered"]
      BY <2>1, <2>4
    <3>2. /\ plan' \in Plans /\ plan'.left = plan.left /\ plan'.awaited = plan.awaited
          /\ plan'.tier = plan.tier /\ plan'.available = plan.available /\ plan'.est = plan.est
          /\ plan'.visited = plan.visited /\ plan'.role = plan.role
          /\ plan'.classified = plan.classified
      BY <2>2, <3>1 DEF Plans
    <3>3. CandidatesFit(plan') /\ Climbs(plan')
      BY <2>2, <3>2 DEF CandidatesFit, Climbs
    <3> QED
      BY <3>2, <3>3 DEF RoutingInv, Routed
  <2> QED
    BY <2>3, <2>4
<1>6. CASE Over
  <2>1. plan' = Unplanned
    BY <1>6 DEF Over
  <2>2. (Unplanned)' = Unplanned
    BY DEF Unplanned
  <2> QED
    BY <2>1, <2>2 DEF RoutingInv
<1>7. CASE plan' = plan
  <2>1. (Unplanned)' = Unplanned
    BY DEF Unplanned
  <2>2. Routed(plan) => Routed(plan')
    BY <1>7
  <2> QED
    BY <1>7, <2>1, <2>2 DEF RoutingInv
<1> QED
  BY <1>1, <1>2, <1>3, <1>4, <1>5, <1>6, <1>7 DEF RoutingNext

(* What is promised of a routed request follows.                           *)
LEMMA RoutingKeeps == ASSUME ConsistentLadders, RoutingInv PROVE RoutingSound
<1>1. CASE plan = Unplanned
  <2>1. plan.awaited = NoProvider /\ plan.at = "start" /\ plan.classified = NoTier
    BY <1>1 DEF Unplanned
  <2>2. NoTier \notin ToSet(Ladders["default"])
    BY LadderTypes, RoutingAssumption
  <2> QED
    BY <2>1, <2>2 DEF RoutingSound, RungHonoured, ClimbsOwnLadder, VerdictKeepsOrder
<1>2. CASE Routed(plan)
  <2>1. plan \in Plans /\ CandidatesFit(plan) /\ Climbs(plan)
    BY <1>2 DEF Routed
  <2>2. RungHonoured
    <3> SUFFICES ASSUME plan.awaited # NoProvider PROVE RungHonoured
      BY DEF RungHonoured
    <3>1. plan.awaited \in Eligible(plan.tier, plan.available, plan.est)
      BY <2>1 DEF CandidatesFit
    <3> QED
      BY <3>1 DEF RungHonoured, Eligible, NamedBy
  <2>3. ClimbsOwnLadder
    BY <2>1 DEF ClimbsOwnLadder, Climbs, HomeOf
  <2>4. VerdictKeepsOrder
    <3> SUFFICES ASSUME plan.classified \in ToSet(Ladders["default"]) PROVE VerdictKeepsOrder
      BY DEF VerdictKeepsOrder
    <3>1. plan.role \in DOMAIN Roles /\ plan.visited[1] = TierForRole(plan.role, plan.classified)
      BY <2>1 DEF Plans, Climbs
    <3> QED
      BY <3>1, VerdictsKeepOrder DEF VerdictKeepsOrder
  <2> QED
    BY <2>2, <2>3, <2>4 DEF RoutingSound
<1> QED
  BY <1>1, <1>2 DEF RoutingInv

-----------------------------------------------------------------------------
(* The parts together, as the routes call them.                            *)

(* Each part either takes a step of its own or rests.                      *)
LEMMA EachPartSteps ==
    ASSUME [ServicesNext]_servicesVars
    PROVE  /\ [EmbedNext]_embedVars /\ [HealNext]_healVars /\ [GeminiCallNext]_geminiCallVars
           /\ [PolicyNext]_policyVars /\ [RoutingNext]_plan /\ [UrlNext]_urlVars
<1>1. CASE ServicesNext
  BY <1>1 DEF ServicesNext, Part
<1>2. CASE UNCHANGED servicesVars
  BY <1>2 DEF servicesVars
<1> QED
  BY <1>1, <1>2

(* What the clients promise follows from their invariants.                 *)
LEMMA ClientsKeep == ASSUME HealInv, GeminiCallInv PROVE ClientsSound
<1>1. HealedWhereAble
  BY DEF HealInv, HealedWhereAble
<1>2. AppliedIsTrue
  BY DEF HealInv, AppliedIsTrue
<1>3. EffortKept
  <2> SUFFICES ASSUME healAt = "answered", body.effort \in Range(Levels), body.effort # wanted.dial
               PROVE  /\ wanted.dial = "off" /\ "none" \notin server.efforts
                      /\ \A i, j \in 1 .. 3 :
                            Levels[i] = body.effort /\ Levels[j] \in server.efforts => i <= j
    BY DEF EffortKept
  <2>1. LeastInstead /\ ObjectsTo(server, body) = {}
    BY DEF HealInv
  <2>2. "reasoning_effort" \in KeysIn(body)
    BY LevelsAre DEF KeysIn, BodyKeys
  <2>3. "reasoning_effort" \in server.knows
    BY <2>1, <2>2 DEF ObjectsTo
  <2> QED
    BY <2>1, <2>3 DEF LeastInstead
<1>4. SystemReadOnce /\ ReportsTrue
  BY DEF GeminiCallInv, SystemReadOnce, ReportsTrue
<1> QED
  BY <1>1, <1>2, <1>3, <1>4 DEF ClientsSound

(* For any servers, requests and number of busy answers, and in whatever   *)
(* order a server names what it objects to: a client gives up no call that *)
(* the server could be brought to take, sends no effort that was not asked *)
(* for but the least instead of "off", and reports what was sent last; and *)
(* Gemini reads the system text once.                                      *)
THEOREM ClientsAlwaysSound == ServicesSpec => []ClientsSound
<1>1. ServicesInit => HealInv /\ GeminiCallInv
  BY HealStart, GeminiCallStart DEF ServicesInit
<1>2. (HealInv /\ GeminiCallInv) /\ [ServicesNext]_servicesVars => (HealInv /\ GeminiCallInv)'
  BY HealStep, GeminiCallStep, EachPartSteps
<1>3. HealInv /\ GeminiCallInv => ClientsSound
  BY ClientsKeep
<1> QED
  BY <1>1, <1>2, <1>3, PTL DEF ServicesSpec

(* The locks are free or held by a thread or the handler, and what is noted*)
(* of the file is a content of it.                                         *)
LocksHeld ==
    /\ {engineLock, rulesLock} \subseteq Threads \cup {Absent, "h"}
    /\ onDisk \subseteq RuleSets \cup {Unusable}

LEMMA LocksStep ==
    ASSUME LocksHeld, PolicyTypes, [PolicyNext]_policyVars PROVE LocksHeld'
<1>1. ASSUME NEW t \in Threads, NEW q \in ToolCalls, Ask(t, q) PROVE LocksHeld'
  BY <1>1 DEF Ask, LocksHeld
<1>2. ASSUME NEW t \in Threads, EvaluateStep(t) PROVE LocksHeld'
  BY <1>2 DEF EvaluateStep, TakeEngine, GetEngine, TakeRules, CopyRules, ScanRule, Decide, LocksHeld
<1>3. CASE Sighup
  BY <1>3 DEF Sighup, LocksHeld, PolicyTypes
<1>4. CASE HandlerStep
  BY <1>4 DEF HandlerStep, HandlerTakesEngine, HandlerGetsEngine, ReadPolicy, HandlerTakesRules,
              SwapRules, LocksHeld
<1>5. ASSUME NEW content \in RuleSets \cup {Unusable}, EditPolicy(content) PROVE LocksHeld'
  BY <1>5 DEF EditPolicy, LocksHeld
<1>6. CASE UNCHANGED policyVars
  BY <1>6 DEF policyVars, LocksHeld
<1> QED
  BY <1>1, <1>2, <1>3, <1>4, <1>5, <1>6 DEF PolicyNext

(* Where a scan stands lies within the rules it scans.                     *)
LEMMA PolicyTyped == ASSUME PolicyInv, LocksHeld PROVE PolicyTypeOK
<1>1. ASSUME NEW t \in Threads
      PROVE  /\ asking[t].at \in {"idle", "engine", "building", "rules", "copying", "scanning"}
             /\ asking[t].q \in ToolCalls \cup {Absent} /\ asking[t].rules \in AllRules \cup {<<>>}
             /\ {asking[t].deny, asking[t].first} \subseteq 0 .. Len(asking[t].rules)
             /\ inForce[t] \subseteq AllRules
  <2>1. asking[t] \in Asking /\ inForce[t] \in SUBSET AllRules /\ Governed(t)
    BY DEF PolicyInv, PolicyTypes
  <2>2. asking[t].rules \in AllRules /\ Len(asking[t].rules) \in Nat
    BY <2>1, RulesAreSequences DEF Asking
  <2>3. CASE asking[t].at = "scanning"
    <3>1. Scanned(asking[t])
      BY <2>1, <2>3 DEF Governed
    <3> DEFINE a == asking[t]
    <3>2. Hits(a.rules, a.q) \subseteq 1 .. Len(a.rules) /\ Denies(a.rules, a.q) \subseteq 1 .. Len(a.rules)
      BY DEF Hits, Denies
    <3>3. /\ a.first = 0 \/ a.first \in Hits(a.rules, a.q)
          /\ a.deny = 0 \/ a.deny \in Denies(a.rules, a.q)
      BY <3>1 DEF Scanned, FirstBelow
    <3>4. {a.deny, a.first} \subseteq 0 .. Len(a.rules)
      BY <2>2, <3>2, <3>3
    <3> QED
      BY <2>1, <2>2, <3>4 DEF Asking
  <2>4. CASE asking[t].at # "scanning"
    <3>1. asking[t].deny = 0 /\ asking[t].first = 0
      BY <2>1, <2>4 DEF Governed, Unscanned
    <3> QED
      BY <2>1, <2>2, <3>1 DEF Asking
  <2> QED
    BY <2>3, <2>4
<1>2. handler.at \in {"none", "engine", "building", "reading", "rules", "swapping"}
  BY DEF PolicyInv, PolicyTypes, Handling
<1> QED
  BY <1>1, <1>2 DEF PolicyInv, PolicyTypes, LocksHeld, PolicyTypeOK

Dialable == dialled \in Addresses \cup {NoAddress}

LEMMA UrlTyped ==
    ASSUME UrlInv
    PROVE  /\ Dialable => UrlTypeOK
           /\ Dialable /\ [UrlNext]_urlVars => Dialable'
<1> USE UrlGuardAssumption
<1>1. fetch \in Fetches /\ fetch.pin \in Addresses \cup {NoAddress}
      /\ fetch.hops \in 0 .. MaxRedirects + 1
  BY DEF UrlInv, Fetches
<1>2. Dialable => UrlTypeOK
  BY <1>1 DEF UrlInv, UrlTypeOK, Dialable, Fetches, UrlStates
<1>3. Dialable /\ [UrlNext]_urlVars => Dialable'
  BY <1>1, UrlStep DEF Dialable
<1> QED
  BY <1>2, <1>3

PartsInv ==
    /\ EmbedInv /\ HealInv /\ GeminiCallInv
    /\ PolicyInv /\ LocksHeld
    /\ UrlInv /\ Dialable

(* For every value of the constants the parts' states keep their types:    *)
(* budgets, positions in a scan and hops within their bounds, locks held   *)
(* by nobody but threads and the handler.                                  *)
THEOREM ServicesTypeCorrect == ServicesSpec => []ServicesTypeOK
<1>1. ServicesInit => PartsInv
  <2> SUFFICES ASSUME ServicesInit PROVE PartsInv
    OBVIOUS
  <2>1. EmbedInit /\ HealInit /\ GeminiCallInit /\ PolicyInit /\ UrlInit
    BY DEF ServicesInit
  <2>2. LocksHeld /\ Dialable
    BY <2>1 DEF PolicyInit, UrlInit, LocksHeld, Dialable
  <2> QED
    BY <2>1, <2>2, EmbedStart, HealStart, GeminiCallStart, PolicyStart, UrlStart DEF PartsInv
<1>2. PartsInv /\ [ServicesNext]_servicesVars => PartsInv'
  <2> SUFFICES ASSUME PartsInv, [ServicesNext]_servicesVars PROVE PartsInv'
    OBVIOUS
  <2>1. /\ [EmbedNext]_embedVars /\ [HealNext]_healVars /\ [GeminiCallNext]_geminiCallVars
        /\ [PolicyNext]_policyVars /\ [UrlNext]_urlVars
    BY EachPartSteps
  <2>2. EmbedInv' /\ HealInv' /\ GeminiCallInv' /\ UrlInv'
    BY <2>1, EmbedStep, HealStep, GeminiCallStep, UrlStep DEF PartsInv
  <2>3. PolicyInv'
    BY <2>1, EvaluateGoverned, OthersGoverned, ReloadStep DEF PartsInv, PolicyInv, PolicyNext
  <2>4. LocksHeld'
    BY <2>1, LocksStep DEF PartsInv, PolicyInv
  <2>5. Dialable'
    BY <2>1, UrlTyped DEF PartsInv
  <2> QED
    BY <2>2, <2>3, <2>4, <2>5 DEF PartsInv
<1>3. PartsInv => ServicesTypeOK
  BY PolicyTyped, UrlTyped DEF PartsInv, EmbedInv, HealInv, GeminiCallInv, ServicesTypeOK
<1> QED
  BY <1>1, <1>2, <1>3, PTL DEF ServicesSpec

(* For any ladders, roles, tiers and instances, with every tier once on a  *)
(* ladder, a role's bounds on its own ladder and two rungs or more for the *)
(* classifier: whoever is called is available, not benched, wide enough    *)
(* and on a strict tier named by it; a cascade climbs its own ladder rung  *)
(* by rung; a harder verdict never lands lower.                            *)
THEOREM RoutingAlwaysSound ==
    ASSUME ConsistentLadders
    PROVE  ServicesSpec => []RoutingSound
<1>1. ServicesInit => RoutingInv
  BY DEF ServicesInit, RoutingInit, RoutingInv
<1>2. RoutingInv /\ [ServicesNext]_servicesVars => RoutingInv'
  BY EachPartSteps, RoutingStep
<1>3. RoutingInv => RoutingSound
  BY RoutingKeeps
<1> QED
  BY <1>1, <1>2, <1>3, PTL DEF ServicesSpec
=============================================================================
