---------------------------- MODULE ChatPipeline ----------------------------
(***************************************************************************)
(* POST /v1/chat (glc/routes/chat.py): semantic cache, tier, failover ring,*)
(* budget admission, in-place retry, schema repair, cascade, ledger.       *)
(*                                                                         *)
(* Requests are tasks of one asyncio loop.  A step of a request runs from  *)
(* the end of one await to the start of the next, so what the code does    *)
(* after an answer -- book it, decide to escalate, walk the next ring,     *)
(* admit and record the next call -- is one action.  The locals of chat()  *)
(* that its loops carry are the record loop[r].                            *)
(*                                                                         *)
(* The rate states are the business of ProviderRing; here a provider is    *)
(* usable or not, and only that a failure can bench it and that time can   *)
(* change it is kept.  Tiers are positions 1..Top on the ladder; tier 0 is *)
(* a request that is not auto-routed.                                      *)
(***************************************************************************)
EXTENDS Integers, Sequences, FiniteSets

CONSTANTS
    Requests,
    Providers,
    None,               \* no provider: nothing pinned, nothing awaited
    Shapes,             \* the kinds of request that may arrive
    DefaultRing,        \* LLM_ORDER expanded: a sequence of providers
    TierRing,           \* 1..Top -> the candidates of a tier
    PinRing,            \* provider name -> its live instances
    Top,                \* length of the ladder
    MaxEscalations,
    Projection,         \* provider -> projected worst-case cost of one call
    Overrun,            \* how far a call may exceed its projection, which counts
                        \* four characters a token and no repair prompt
    CostCap,            \* a bound on every projection, for the overshoot bound
    Limit               \* limit_usd of the policy that governs the principal

ShapeSet ==
    [pin: Providers \cup {None}, auto: BOOLEAN, floor: 1 .. Top, cap: 1 .. Top,
     escalates: BOOLEAN, schema: {"none", "sane", "insane"}, stream: BOOLEAN]

ASSUME NoneAssumption == None \notin Providers
ASSUME ShapesAssumption == Shapes \subseteq ShapeSet
ASSUME RingAssumption ==
    /\ DefaultRing \in Seq(Providers)
    /\ TierRing \in [1 .. Top -> Seq(Providers)]
    /\ PinRing \in [Providers -> Seq(Providers)]
ASSUME PolicyAssumption == Top \in Nat \ {0} /\ MaxEscalations \in Nat
ASSUME MoneyAssumption ==
    /\ Limit \in Nat /\ CostCap \in Nat /\ Overrun \in Nat
    /\ Projection \in [Providers -> 0 .. CostCap]
ASSUME RequestsAssumption == IsFiniteSet(Requests) /\ Requests # {}

VARIABLES
    shape,      \* request -> its shape, fixed when it arrives
    stage,      \* request -> the await it is at
    loop,       \* request -> tier, escalations, candidates struck out, last_err, last_refusal
    cur,        \* request -> the provider whose answer it awaits
    reply,      \* request -> the status it was answered with, 0 before
    usable,     \* provider -> would can_use say yes
    spent,      \* SUM(usd) of the principal's ledger rows in this period
    rows,       \* request -> how many ok and error rows it wrote
    tried,      \* history: request -> the <<tier, provider>> pairs it called
    lost        \* history: request -> an answer's cost was never written

vars == <<shape, stage, loop, cur, reply, usable, spent, rows, tried, lost>>

Awaiting == {"first", "retry", "repair", "stream"}
Stages == {"new", "lookup", "classify", "done"} \cup Awaiting
Loops ==
    [tier: 0 .. Top, esc: Nat, dropped: SUBSET Providers, errored: BOOLEAN,
     refused: BOOLEAN]

TypeOK ==
    /\ shape \in [Requests -> ShapeSet]
    /\ stage \in [Requests -> Stages]
    /\ loop \in [Requests -> Loops]
    /\ cur \in [Requests -> Providers \cup {None}]
    /\ \A r \in Requests : cur[r] # None <=> stage[r] \in Awaiting
    /\ reply \in [Requests -> {0, 200, 400, 402, 502, 503}]
    /\ usable \in [Providers -> BOOLEAN]
    /\ spent \in Nat
    /\ rows \in [Requests -> [ok: Nat, error: Nat]]
    /\ tried \in [Requests -> SUBSET ((0 .. Top) \X Providers)]
    /\ lost \in [Requests -> BOOLEAN]

Entry == [tier |-> 0, esc |-> 0, dropped |-> {}, errored |-> FALSE, refused |-> FALSE]

Init ==
    /\ shape \in [Requests -> Shapes]
    /\ stage = [r \in Requests |-> "new"]
    /\ loop = [r \in Requests |-> Entry]
    /\ cur = [r \in Requests |-> None]
    /\ reply = [r \in Requests |-> 0]
    /\ usable = [p \in Providers |-> TRUE]
    /\ spent = 0
    /\ rows = [r \in Requests |-> [ok |-> 0, error |-> 0]]
    /\ tried = [r \in Requests |-> {}]
    /\ lost = [r \in Requests |-> FALSE]

-----------------------------------------------------------------------------
(* Tier policy, on ladder positions.                                       *)
TierFor(s, classified) ==
    LET floored == IF classified < s.floor THEN s.floor ELSE classified
    IN  IF floored > s.cap THEN s.cap ELSE floored

ShouldEscalate(s, l) ==
    /\ s.escalates
    /\ l.tier # 0
    /\ l.esc < MaxEscalations
    /\ l.tier < Top

(* Mutant of Admits: only what is spent already is held against the limit. *)
AdmitsOnBalance(sum, p) == sum <= Limit

(* The budget gate: everything the ledger knows, plus the worst case of    *)
(* this call, must fit under the limit.                                    *)
Admits(sum, p) == sum + Projection[p] <= Limit

Ring(s, l) ==
    IF s.pin # None THEN PinRing[s.pin]
    ELSE IF l.tier = 0 THEN DefaultRing
    ELSE TierRing[l.tier]

(* Positions of the candidates that are left and that pick would return.   *)
Pickable(s, l, us) ==
    {i \in 1 .. Len(Ring(s, l)) :
        /\ Ring(s, l)[i] \notin l.dropped
        /\ us[Ring(s, l)[i]]}

Affordable(s, l, us, sum) == {i \in Pickable(s, l, us) : Admits(sum, Ring(s, l)[i])}

-----------------------------------------------------------------------------
(* The ring walk, the tail of every step that leaves a request looking for *)
(* a provider: l, us and sum are the loop locals, the usability and the    *)
(* ledger sum that the step has established.                               *)

(* Candidates refused by the budget are struck out until one is admitted;  *)
(* its call is recorded, which may exhaust a window or start a cooldown.   *)
Call(r, l, us, sum, i) ==
    LET s == shape[r]
        p == Ring(s, l)[i]
        skipped == {Ring(s, l)[j] : j \in {k \in Pickable(s, l, us) : k < i}}
    IN  /\ i \in Affordable(s, l, us, sum)
        /\ \A j \in Affordable(s, l, us, sum) : i <= j
        /\ loop' = [loop EXCEPT ![r] =
                      [l EXCEPT !.dropped = @ \cup skipped,
                                !.refused = @ \/ skipped # {}]]
        /\ \E still \in BOOLEAN : usable' = [us EXCEPT ![p] = still]
        /\ stage' = [stage EXCEPT ![r] = IF s.stream THEN "stream" ELSE "first"]
        /\ cur' = [cur EXCEPT ![r] = p]
        /\ reply' = [reply EXCEPT ![r] = IF s.stream THEN 200 ELSE @]
        /\ tried' = [tried EXCEPT ![r] = @ \cup {<<l.tier, p>>}]

(* Mutant of Exhausted: a failure on the way does not turn 402 into 503.   *)
ExhaustedDespiteFailure(r, l, us, sum) ==
    LET refused == l.refused \/ Pickable(shape[r], l, us) # {}
    IN  /\ Affordable(shape[r], l, us, sum) = {}
        /\ loop' = [loop EXCEPT ![r] = [l EXCEPT !.refused = refused]]
        /\ stage' = [stage EXCEPT ![r] = "done"]
        /\ cur' = [cur EXCEPT ![r] = None]
        /\ reply' = [reply EXCEPT ![r] = IF refused THEN 402 ELSE 503]
        /\ usable' = us
        /\ UNCHANGED tried

(* No candidate is left: 402 when the budget refused one and none failed,  *)
(* 503 otherwise.                                                          *)
Exhausted(r, l, us, sum) ==
    LET refused == l.refused \/ Pickable(shape[r], l, us) # {}
    IN  /\ Affordable(shape[r], l, us, sum) = {}
        /\ loop' = [loop EXCEPT ![r] = [l EXCEPT !.refused = refused]]
        /\ stage' = [stage EXCEPT ![r] = "done"]
        /\ cur' = [cur EXCEPT ![r] = None]
        /\ reply' = [reply EXCEPT ![r] =
                       IF refused /\ ~l.errored THEN 402 ELSE 503]
        /\ usable' = us
        /\ UNCHANGED tried

Walk(r, l, us, sum) ==
    \/ \E i \in 1 .. Len(Ring(shape[r], l)) : Call(r, l, us, sum, i)
    \/ Exhausted(r, l, us, sum)

(* Mutant of Finish: the request is answered but still awaits a provider.  *)
FinishStillAwaiting(r, status) ==
    /\ stage' = [stage EXCEPT ![r] = "done"]
    /\ reply' = [reply EXCEPT ![r] = status]
    /\ UNCHANGED <<usable, tried, cur>>

Finish(r, status) ==
    /\ stage' = [stage EXCEPT ![r] = "done"]
    /\ cur' = [cur EXCEPT ![r] = None]
    /\ reply' = [reply EXCEPT ![r] = status]
    /\ UNCHANGED <<usable, tried>>

-----------------------------------------------------------------------------
Arrive(r) ==
    /\ stage[r] = "new"
    /\ stage' = [stage EXCEPT ![r] = "lookup"]
    /\ UNCHANGED <<shape, loop, cur, reply, usable, spent, rows, tried, lost>>

(* Mutant of CacheHit: the hit is answered before it is recorded.          *)
CacheHitUnrecorded(r) ==
    /\ stage[r] = "lookup" /\ ~shape[r].stream
    /\ Finish(r, 200)
    /\ UNCHANGED <<shape, loop, spent, rows, lost>>

(* The semantic cache, which streams do not consult, answers: a zero-cost  *)
(* ok row, no provider involved.                                           *)
CacheHit(r) ==
    /\ stage[r] = "lookup" /\ ~shape[r].stream
    /\ Finish(r, 200)
    /\ rows' = [rows EXCEPT ![r].ok = @ + 1]
    /\ UNCHANGED <<shape, loop, spent, lost>>

(* It does not: an auto-routed request awaits its classification, a pinned *)
(* name nobody serves is a 400, any other request walks its ring -- a      *)
(* pinned one after waiting up to 30 s for a cooldown, here the end of the *)
(* lookup await.                                                           *)
CacheMiss(r) ==
    /\ stage[r] = "lookup"
    /\ \/ /\ shape[r].auto /\ shape[r].pin = None
          /\ stage' = [stage EXCEPT ![r] = "classify"]
          /\ UNCHANGED <<loop, cur, reply, usable, tried>>
       \/ /\ shape[r].pin # None
          /\ PinRing[shape[r].pin] = <<>>
          /\ Finish(r, 400)
          /\ UNCHANGED loop
       \/ /\ ~(shape[r].auto /\ shape[r].pin = None)
          /\ Ring(shape[r], loop[r]) # <<>> \/ shape[r].pin = None
          /\ Walk(r, loop[r], usable, spent)
    /\ UNCHANGED <<shape, spent, rows, lost>>

(* The classifier (or the token-count fallback) named a tier; the role's   *)
(* floor and ceiling are applied.  The classifier's own cost is logged     *)
(* with no dollars and no principal, so the budget never sees it.          *)
Classify(r, classified) ==
    /\ stage[r] = "classify"
    /\ Walk(r, [loop[r] EXCEPT !.tier = TierFor(shape[r], classified)], usable, spent)
    /\ \E paid \in BOOLEAN : lost' = [lost EXCEPT ![r] = @ \/ paid]
    /\ UNCHANGED <<shape, spent, rows>>

(* An answer worth c dollars is booked, then judged: kept, or -- when it   *)
(* is weak and the policy allows -- discarded for the next tier's ring.    *)
Book(r, c) ==
    /\ spent' = spent + c
    /\ rows' = [rows EXCEPT ![r].ok = @ + 1]
    /\ UNCHANGED shape

Keep(r, c) ==
    /\ Book(r, c)
    /\ Finish(r, 200)
    /\ UNCHANGED loop

Escalate(r, c) ==
    /\ ShouldEscalate(shape[r], loop[r])
    /\ Book(r, c)
    /\ Walk(r, [loop[r] EXCEPT !.tier = @ + 1, !.esc = @ + 1, !.dropped = {}],
            usable, spent + c)

(* The answer is what was asked for, or calls tools and is not validated.  *)
Answered(r, c) ==
    /\ stage[r] \in {"first", "retry"}
    /\ Keep(r, c) \/ Escalate(r, c)
    /\ UNCHANGED lost

(* The answer does not match the schema: the same provider is asked to     *)
(* repair it, and the first answer's usage is overwritten.                 *)
Invalid(r, c) ==
    /\ stage[r] \in {"first", "retry"}
    /\ shape[r].schema = "sane"
    /\ stage' = [stage EXCEPT ![r] = "repair"]
    /\ lost' = [lost EXCEPT ![r] = @ \/ c > 0]
    /\ UNCHANGED <<shape, loop, cur, reply, usable, spent, rows, tried>>

(* The answer is there before anyone looks at the schema, which is too     *)
(* deep, too large or refers to itself: 400, and no row for the call.      *)
Rejected(r, c) ==
    /\ stage[r] \in {"first", "retry"}
    /\ shape[r].schema = "insane"
    /\ Finish(r, 400)
    /\ lost' = [lost EXCEPT ![r] = @ \/ c > 0]
    /\ UNCHANGED <<shape, loop, spent, rows>>

Repaired(r, c) ==
    /\ stage[r] = "repair"
    /\ Keep(r, c) \/ Escalate(r, c)
    /\ UNCHANGED lost

(* The repair is invalid too: escalate, or answer 503 without any row.     *)
RepairFailed(r, c) ==
    /\ stage[r] = "repair"
    /\ \/ /\ Escalate(r, c)
          /\ UNCHANGED lost
       \/ /\ ~ShouldEscalate(shape[r], loop[r])
          /\ Finish(r, 503)
          /\ lost' = [lost EXCEPT ![r] = @ \/ c > 0]
          /\ UNCHANGED <<shape, loop, spent, rows>>

(* Mutant of TransientError: the retry is retried like the first attempt.  *)
TransientErrorAgain(r) ==
    /\ stage[r] \in {"first", "retry"}
    /\ stage' = [stage EXCEPT ![r] = IF @ = "first" THEN "retry" ELSE "first"]
    /\ UNCHANGED <<shape, loop, cur, reply, usable, spent, rows, tried, lost>>

(* A 5xx, 408 or timeout on the first attempt: sleep, ask the same         *)
(* provider again.  Neither the budget nor the rate state is consulted.    *)
TransientError(r) ==
    /\ stage[r] = "first"
    /\ stage' = [stage EXCEPT ![r] = "retry"]
    /\ UNCHANGED <<shape, loop, cur, reply, usable, spent, rows, tried, lost>>

(* Mutant of ProviderFails: the candidate that failed stays in the ring.   *)
ProviderFailsKept(r, benches, fatal) ==
    LET us == [usable EXCEPT ![cur[r]] = @ /\ ~benches]
        l == [loop[r] EXCEPT !.errored = TRUE]
    IN  /\ stage[r] \in {"first", "retry", "repair"}
        /\ rows' = [rows EXCEPT ![r].error = @ + 1]
        /\ ~fatal /\ shape[r].pin = None
        /\ Walk(r, l, us, spent)
        /\ UNCHANGED <<shape, spent, lost>>

(* Any other failure: an error row, a bench when the class carries one,    *)
(* then 502 for a pinned provider or a fatal class, else the next          *)
(* candidate.  An answer on which the validator itself trips is one, and   *)
(* its cost goes unseen.                                                   *)
ProviderFails(r, benches, fatal) ==
    LET us == [usable EXCEPT ![cur[r]] = @ /\ ~benches]
        l == [loop[r] EXCEPT !.errored = TRUE, !.dropped = @ \cup {cur[r]}]
    IN  /\ stage[r] \in {"first", "retry", "repair"}
        /\ rows' = [rows EXCEPT ![r].error = @ + 1]
        /\ \/ /\ fatal \/ shape[r].pin # None
              /\ stage' = [stage EXCEPT ![r] = "done"]
              /\ cur' = [cur EXCEPT ![r] = None]
              /\ reply' = [reply EXCEPT ![r] = 502]
              /\ usable' = us
              /\ loop' = [loop EXCEPT ![r].errored = TRUE]
              /\ UNCHANGED tried
           \/ /\ ~fatal /\ shape[r].pin = None
              /\ Walk(r, l, us, spent)
        /\ \E paid \in {FALSE, shape[r].schema # "none"} :
              lost' = [lost EXCEPT ![r] = @ \/ paid]
        /\ UNCHANGED <<shape, spent>>

(* A stream ends, breaks, or is abandoned by its reader: a zero-usage row, *)
(* an error row, or none.  The status line went out when it started.       *)
StreamEnds(r, c, how) ==
    /\ stage[r] = "stream"
    /\ stage' = [stage EXCEPT ![r] = "done"]
    /\ cur' = [cur EXCEPT ![r] = None]
    /\ rows' = CASE how = "complete" -> [rows EXCEPT ![r].ok = @ + 1]
                 [] how = "broken" -> [rows EXCEPT ![r].error = @ + 1]
                 [] how = "abandoned" -> rows
    /\ lost' = [lost EXCEPT ![r] = @ \/ c > 0]
    /\ UNCHANGED <<shape, loop, reply, usable, spent, tried>>

(* Time passes: a window, a cooldown or a bench ends, or a window fills.   *)
Shift(p) ==
    /\ usable' = [usable EXCEPT ![p] = ~@]
    /\ UNCHANGED <<shape, stage, loop, cur, reply, spent, rows, tried, lost>>

(* A new budget period begins: the ledger sum starts over.                 *)
Rollover ==
    /\ spent' = 0
    /\ UNCHANGED <<shape, stage, loop, cur, reply, usable, rows, tried, lost>>

-----------------------------------------------------------------------------
Worst(p) == Projection[p] + Overrun
Costs(r) == 0 .. Worst(cur[r])

Resume(r) ==
    \/ CacheHit(r)
    \/ CacheMiss(r)
    \/ \E t \in 1 .. Top : Classify(r, t)
    \/ /\ stage[r] \in Awaiting
       /\ \/ \E c \in Costs(r) : Answered(r, c)
          \/ \E c \in Costs(r) : Invalid(r, c) \/ Rejected(r, c)
          \/ \E c \in Costs(r) : Repaired(r, c)
          \/ \E c \in Costs(r) : RepairFailed(r, c)
          \/ \E c \in Costs(r), how \in {"complete", "broken", "abandoned"} :
                StreamEnds(r, c, how)
          \/ TransientError(r)
          \/ \E benches, fatal \in BOOLEAN : ProviderFails(r, benches, fatal)

Next ==
    \/ \E r \in Requests : Arrive(r) \/ Resume(r)
    \/ \E p \in Providers : Shift(p)
    \/ Rollover

(* Every await returns: provider calls run under an HTTP client timeout    *)
(* and the event loop resumes whoever is ready.                            *)
Fairness == \A r \in Requests : WF_vars(Resume(r))

Spec == Init /\ [][Next]_vars /\ Fairness

-----------------------------------------------------------------------------
(* The budget controller admits on what the ledger knows and reserves      *)
(* nothing, so calls admitted together can take the ledger over the limit; *)
(* but never by more than one estimate's error and the worst case of all   *)
(* but one of the requests.  With one request at a time and an estimate    *)
(* that is a true worst case, the limit is a hard one.                     *)
OvershootBounded ==
    spent <= Limit + Overrun + (CostCap + Overrun) * (Cardinality(Requests) - 1)

(* Every candidate a request called has left exactly one ledger row, the   *)
(* one still awaited none, and no candidate was called twice at one tier;  *)
(* a cache hit has its zero-cost row before it is returned.  Two exits     *)
(* leave one answered call without a row: a repair that failed too (503,   *)
(* chat.py:911) and a schema that is not sane (400, chat.py:882).  Of a    *)
(* stream, which may be abandoned before its row, no row is asked.         *)
EveryCallHasItsRow ==
    \A r \in Requests :
        LET written == rows[r].ok + rows[r].error
            calls == Cardinality(tried[r])
        IN  /\ stage[r] \in {"first", "retry", "repair"} => calls = written + 1
            /\ reply[r] = 200 /\ ~shape[r].stream =>
                  rows[r].ok > 0 /\ written = IF calls = 0 THEN 1 ELSE calls
            /\ reply[r] \in {402, 502} => calls = written
            /\ reply[r] \in {400, 503} =>
                  \/ calls = written
                  \/ /\ shape[r].schema = (IF reply[r] = 400 THEN "insane" ELSE "sane")
                     /\ calls = written + 1

(* policy.py:10-12: "a `perception` call capped at LARGE cannot escalate   *)
(* into the frontier tier no matter what the classifier says".             *)
RoleCapHeld == \A r \in Requests : loop[r].tier <= shape[r].cap

(* Before any escalation a 402 means what its hint says, that no provider  *)
(* was called: a refusal after a failed, and maybe billed, call is a 503.  *)
UnescalatedRefusalUnbilled ==
    \A r \in Requests : reply[r] = 402 /\ loop[r].esc = 0 => tried[r] = {}

(* budget.py:156-160: "The call was refused before any provider was        *)
(* contacted, so nothing was billed."                                      *)
RefusalUnbilled ==
    \A r \in Requests : reply[r] = 402 => tried[r] = {}

(* db.py:251-253: "there is no way to spend without the budget seeing it". *)
NoUnseenSpend == \A r \in Requests : ~lost[r]

(* Whatever fails, is refused, retried, repaired or escalated, a request   *)
(* that has arrived is answered, and a stream ends.                        *)
EveryRequestEnds ==
    \A r \in Requests : stage[r] = "lookup" ~> stage[r] = "done"

=============================================================================
