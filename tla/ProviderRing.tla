---------------------------- MODULE ProviderRing ----------------------------
(***************************************************************************)
(* The failover ring over the providers' rate states: the Router of        *)
(* glc/routing/core.py as the chat route drives it.  Requests are callers  *)
(* on one asyncio loop.  Between two awaits a caller runs alone, so        *)
(* "pick a usable provider and record the call" is one step; everything    *)
(* after `await provider.chat(...)` is a later step that other callers'    *)
(* steps may precede.                                                      *)
(*                                                                         *)
(* Only the call that pick chose is recorded.  The retry in place and the  *)
(* schema repair call the same provider again without can_use and without  *)
(* record, so the calls that start and the calls that are counted are two  *)
(* histories here.                                                         *)
(***************************************************************************)
EXTENDS RateState, FiniteSets

CONSTANTS
    Providers,      \* live provider instances
    Callers,        \* concurrent requests
    Idle,           \* the value of calling for a caller that awaits nothing
    Limits,         \* LIMITS: provider -> limit set
    Order,          \* the ring, most preferred provider first
    Est,            \* tokens of a request as _est_tokens puts them: four
                    \* characters a token, no repair prompt
    Usage,          \* token counts an answered call may report
    Worst,          \* the most an answer reports, or Est if that is more
    Backoffs,       \* the benches _backoff_for may hand out, 0 for none
    Boot,           \* the time the gateway starts
    MaxTime         \* bound: the clock stops here

ASSUME LimitsAssumption == Limits \in [Providers -> LimitSets]
ASSUME OrderAssumption == Order \in Seq(Providers)
ASSUME IdleAssumption == Idle \notin Providers
ASSUME CallersAssumption == IsFiniteSet(Callers) /\ Callers # {}
ASSUME EstAssumption == Est \in Nat
ASSUME UsageAssumption == Usage \subseteq Nat
ASSUME WorstAssumption == Worst \in Nat /\ Est <= Worst /\ \A n \in Usage : n <= Worst
ASSUME BackoffsAssumption == Backoffs \subseteq Nat
ASSUME TimeAssumption == Boot \in Nat /\ MaxTime \in Nat

VARIABLES
    now,        \* time.time()
    state,      \* Router.state: provider -> rate state
    dropped,    \* caller -> the candidates its request has struck out
    calling,    \* caller -> the provider it is at, or Idle
    leg,        \* caller -> which call it awaits there, or that it pauses
    recorded,   \* history: provider -> the times of its recorded calls
    started,    \* history: provider -> all its calls, each with its time and
                \* the number of calls recorded before it
    promised    \* history: provider -> the latest end of a bench given it

vars == <<now, state, dropped, calling, leg, recorded, started, promised>>

Awaited == {"first", "again", "repair"}
Legs == {"none", "pause"} \cup Awaited

TypeOK ==
    /\ now \in Nat
    /\ state \in [Providers -> RateStates]
    /\ dropped \in [Callers -> SUBSET Providers]
    /\ calling \in [Callers -> Providers \cup {Idle}]
    /\ leg \in [Callers -> Legs]
    /\ \A c \in Callers : calling[c] = Idle <=> leg[c] = "none"
    /\ recorded \in [Providers -> Times]
    /\ started \in [Providers -> Seq([at: Nat, before: Nat])]
    /\ promised \in [Providers -> Nat]

Init ==
    /\ now = Boot
    /\ state = [p \in Providers |-> Fresh(Boot)]
    /\ dropped = [c \in Callers |-> {}]
    /\ calling = [c \in Callers |-> Idle]
    /\ leg = [c \in Callers |-> "none"]
    /\ recorded = [p \in Providers |-> <<>>]
    /\ started = [p \in Providers |-> <<>>]
    /\ promised = [p \in Providers |-> 0]

-----------------------------------------------------------------------------
(* Router.pick: the first candidate left that passes can_use.  Those left  *)
(* in front of it were examined, and examining one sweeps its state.       *)
IsUsable(p) == CanUse(state[p], now, Limits[p], Est)

Examined(c, upTo) ==
    {Order[i] : i \in 1 .. upTo} \ dropped[c]

Swept(ps) ==
    [p \in Providers |-> IF p \in ps THEN Gc(state[p], now) ELSE state[p]]

Picks(c, i) ==
    /\ Order[i] \notin dropped[c]
    /\ IsUsable(Order[i])
    /\ \A p \in Examined(c, i - 1) : ~IsUsable(p)

(* provider.chat is called: what goes out to p now.                        *)
Starts(p) ==
    started' = [started EXCEPT ![p] = Append(@, [at |-> now, before |-> Len(recorded[p])])]

Dispatch(c, i) ==
    LET name == Order[i]
    IN  /\ calling[c] = Idle
        /\ Picks(c, i)
        /\ state' = [Swept(Examined(c, i)) EXCEPT ![name] = Record(@, now, 0)]
        /\ calling' = [calling EXCEPT ![c] = name]
        /\ leg' = [leg EXCEPT ![c] = "first"]
        /\ recorded' = [recorded EXCEPT ![name] = Append(@, now)]
        /\ Starts(name)
        /\ UNCHANGED <<now, dropped, promised>>

(* The budget does not admit the call that pick would make: the candidate  *)
(* is struck out, swept but not recorded.                                  *)
Unaffordable(c, i) ==
    /\ calling[c] = Idle
    /\ Picks(c, i)
    /\ state' = Swept(Examined(c, i))
    /\ dropped' = [dropped EXCEPT ![c] = @ \cup {Order[i]}]
    /\ UNCHANGED <<now, calling, leg, recorded, started, promised>>

(* No candidate is usable: the request is refused and the caller's next    *)
(* request starts over with the whole ring.                                *)
GiveUp(c) ==
    /\ calling[c] = Idle
    /\ \A p \in Examined(c, Len(Order)) : ~IsUsable(p)
    /\ state' = Swept(Examined(c, Len(Order)))
    /\ dropped' = [dropped EXCEPT ![c] = {}]
    /\ UNCHANGED <<now, calling, leg, recorded, started, promised>>

(* Mutant of Stumble: the retry is retried like the first attempt.         *)
StumbleAgain(c) ==
    /\ leg[c] \in {"first", "again"}
    /\ leg' = [leg EXCEPT ![c] = "pause"]
    /\ UNCHANGED <<now, state, dropped, calling, recorded, started, promised>>

(* The first attempt fails in a way that may pass: the request sleeps for  *)
(* up to two seconds ...                                                   *)
Stumble(c) ==
    /\ leg[c] = "first"
    /\ leg' = [leg EXCEPT ![c] = "pause"]
    /\ UNCHANGED <<now, state, dropped, calling, recorded, started, promised>>

(* ... and calls the same provider again, whatever its limits say by then. *)
CallAgain(c) ==
    /\ leg[c] = "pause"
    /\ leg' = [leg EXCEPT ![c] = "again"]
    /\ Starts(calling[c])
    /\ UNCHANGED <<now, state, dropped, calling, recorded, promised>>

(* The answer does not match the schema: the same provider is asked to     *)
(* repair it at once.  The first answer's tokens are never booked.         *)
AskRepair(c) ==
    /\ leg[c] \in {"first", "again"}
    /\ leg' = [leg EXCEPT ![c] = "repair"]
    /\ Starts(calling[c])
    /\ UNCHANGED <<now, state, dropped, calling, recorded, promised>>

(* The awaited answer arrives: its tokens are booked, the request is over  *)
(* (or starts over with the next tier's ring).                             *)
Leaves(c) ==
    /\ leg[c] \in Awaited
    /\ calling' = [calling EXCEPT ![c] = Idle]
    /\ leg' = [leg EXCEPT ![c] = "none"]

Answer(c, n) ==
    /\ Leaves(c)
    /\ state' = [state EXCEPT ![calling[c]] = AddTokens(@, now, n)]
    /\ dropped' = [dropped EXCEPT ![c] = {}]
    /\ UNCHANGED <<now, recorded, started, promised>>

(* A stream, an answer whose schema is not sane, a repair that does not    *)
(* match either: the request is over and nothing is booked.                *)
Unbooked(c) ==
    /\ Leaves(c)
    /\ dropped' = [dropped EXCEPT ![c] = {}]
    /\ UNCHANGED <<now, state, recorded, started, promised>>

(* The awaited call fails: the provider is benched when the error class    *)
(* carries a cooldown, and the request goes on without that candidate, or  *)
(* ends in a 502.                                                          *)
Bench(p, secs) ==
    IF secs > 0
    THEN /\ state' = [state EXCEPT ![p] = MarkUnavailable(@, now, secs)]
         /\ promised' = [promised EXCEPT ![p] =
                           IF now + secs > @ THEN now + secs ELSE @]
    ELSE UNCHANGED <<state, promised>>

Fail(c, secs) ==
    /\ Leaves(c)
    /\ Bench(calling[c], secs)
    /\ \E goesOn \in BOOLEAN :
          dropped' = [dropped EXCEPT ![c] = IF goesOn THEN @ \cup {calling[c]} ELSE {}]
    /\ UNCHANGED <<now, recorded, started>>

(* A status page snapshots every provider, which sweeps every state.       *)
AllStatus ==
    /\ state' = Swept(Providers)
    /\ UNCHANGED <<now, dropped, calling, leg, recorded, started, promised>>

Tick ==
    /\ now < MaxTime
    /\ now' = now + 1
    /\ UNCHANGED <<state, dropped, calling, leg, recorded, started, promised>>

Next ==
    \/ \E c \in Callers, i \in 1 .. Len(Order) : Dispatch(c, i) \/ Unaffordable(c, i)
    \/ \E c \in Callers : \/ GiveUp(c) \/ Unbooked(c)
                          \/ Stumble(c) \/ CallAgain(c) \/ AskRepair(c)
    \/ \E c \in Callers, n \in Usage : Answer(c, n)
    \/ \E c \in Callers, secs \in Backoffs : Fail(c, secs)
    \/ AllStatus
    \/ Tick

Spec == Init /\ [][Next]_vars

-----------------------------------------------------------------------------
(* How many calls can start while n are recorded: each recorded call has   *)
(* at most a retry and a repair after it, and so have the calls that were  *)
(* in flight before.                                                       *)
Loose(n) == 3 * n + 2 * Cardinality(Callers)

(* The sliding minute holds for what is recorded, however requests         *)
(* interleave, although pick and record are two methods and no lock is     *)
(* ever taken (core.py:148): any rpm + 1 consecutive recorded calls span   *)
(* more than Window seconds.  Retries and repairs are not recorded         *)
(* (chat.py:864, 891), so more than rpm calls may start in a minute, but   *)
(* never more than Loose(rpm).                                             *)
RpmRespected ==
    \A p \in Providers :
        /\ \A i \in 1 .. Len(recorded[p]) :
              i + Limits[p].rpm <= Len(recorded[p]) =>
                  recorded[p][i + Limits[p].rpm] - recorded[p][i] > Window
        /\ \A i \in 1 .. Len(started[p]) :
              i + Loose(Limits[p].rpm) <= Len(started[p]) =>
                  started[p][i + Loose(Limits[p].rpm)].at - started[p][i].at > Window

(* Two recorded calls to one provider are never closer than its cooldown.  *)
(* A retry or repair does not wait for it; but less than a cooldown never  *)
(* sees more than Loose(1) calls start.                                    *)
CooldownRespected ==
    \A p \in Providers :
        /\ \A i \in 1 .. (Len(recorded[p]) - 1) :
              recorded[p][i + 1] - recorded[p][i] >= Limits[p].cooldown
        /\ \A i \in 1 .. Len(started[p]) :
              i + Loose(1) <= Len(started[p]) =>
                  started[p][i + Loose(1)].at - started[p][i].at >= Limits[p].cooldown

(* No calendar day records more than rpd calls: the lazy reset in gc never *)
(* hands one day two allowances, whenever the first call of a day comes.   *)
(* With retries and repairs, which calls_today does not count, no day sees *)
(* more than Loose(rpd) calls start.                                       *)
RpdRespected ==
    \A p \in Providers :
        /\ \A i, j \in 1 .. Len(recorded[p]) :
              (i <= j /\ recorded[p][i] \div Day = recorded[p][j] \div Day)
                  => j - i + 1 <= Limits[p].rpd
        /\ \A i, j \in 1 .. Len(started[p]) :
              (i <= j /\ started[p][i].at \div Day = started[p][j].at \div Day)
                  => j - i + 1 <= Loose(Limits[p].rpd)

(* The per-minute token cap is tested with the estimate before the call    *)
(* and charged with the report after it, so concurrent calls and estimates *)
(* that are too low can take the booked tokens over the cap; but by no     *)
(* more than what the callers' answers may report beyond one estimate.     *)
(* (What a repaired first answer or a failed attempt used is not booked.)  *)
TpmOvershootBounded ==
    \A p \in Providers :
        MinuteTokens(Gc(state[p], now))
            <= Limits[p].tpm + Cardinality(Callers) * Worst - Est

(* A benched provider stays benched: pick chooses it for no request before *)
(* the end of the longest cooldown any failure has earned it (chat.py:326- *)
(* 329, "A dead endpoint has to stay benched for much longer than it takes *)
(* to notice it is dead").                                                 *)
BenchHonoured ==
    [][\A p \in Providers :
          recorded'[p] # recorded[p] => now >= promised[p]]_vars

=============================================================================
