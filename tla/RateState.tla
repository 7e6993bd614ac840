----------------------------- MODULE RateState -----------------------------
(***************************************************************************)
(* The per-provider rate state of glc/routing/core.py: the sliding minute  *)
(* of calls and tokens, the daily counters, the cooldown and the backoff.  *)
(* Pure operators over one record; the modules that own such records       *)
(* (ProviderRing) EXTEND this one.  Time is a natural number of seconds    *)
(* since the epoch.                                                        *)
(***************************************************************************)
EXTENDS SlidingWindow

CONSTANT Day    \* 86400 in the code

ASSUME DayAssumption == Day \in Nat \ {0}

RateStates ==
    [calls_minute: Times,
     tokens_minute: Seq([at: Nat, n: Nat]),
     calls_today: Nat,
     tokens_today: Nat,
     day_start: Nat,
     last_call: Nat,
     unavailable_until: Nat]

LimitSets == [rpm: Nat, rpd: Nat, tpm: Nat, tpd: Nat, cooldown: Nat]

DayStart(now) == now - (now % Day)

Fresh(now) ==
    [calls_minute |-> <<>>, tokens_minute |-> <<>>, calls_today |-> 0,
     tokens_today |-> 0, day_start |-> DayStart(now), last_call |-> 0,
     unavailable_until |-> 0]

(* Mutant of Gc: the new day's start is not remembered, so every later     *)
(* sweep of that day resets the counters again.                            *)
GcForgetsDayStart(rs, now) ==
    LET newDay == now - rs.day_start >= Day
        stamps == [i \in 1 .. Len(rs.tokens_minute) |-> rs.tokens_minute[i].at]
    IN  [rs EXCEPT
           !.calls_today = IF newDay THEN 0 ELSE @,
           !.tokens_today = IF newDay THEN 0 ELSE @,
           !.calls_minute = FromCutoff(@, now - Window),
           !.tokens_minute =
               SubSeq(@, Stale(stamps, now - Window) + 1, Len(@))]

Gc(rs, now) ==
    LET newDay == now - rs.day_start >= Day
        stamps == [i \in 1 .. Len(rs.tokens_minute) |-> rs.tokens_minute[i].at]
    IN  [rs EXCEPT
           !.calls_today = IF newDay THEN 0 ELSE @,
           !.tokens_today = IF newDay THEN 0 ELSE @,
           !.day_start = IF newDay THEN DayStart(now) ELSE @,
           !.calls_minute = FromCutoff(@, now - Window),
           !.tokens_minute =
               SubSeq(@, Stale(stamps, now - Window) + 1, Len(@))]

MinuteTokens(rs) ==
    LET upTo[i \in 0 .. Len(rs.tokens_minute)] ==
            IF i = 0 THEN 0 ELSE upTo[i - 1] + rs.tokens_minute[i].n
    IN  upTo[Len(rs.tokens_minute)]

(* Mutant of Usable: the full window lets one more call in.                *)
UsableAtFullWindow(rs, now, limits, est) ==
    /\ now >= rs.unavailable_until
    /\ now - rs.last_call >= limits.cooldown
    /\ Len(rs.calls_minute) <= limits.rpm
    /\ rs.calls_today < limits.rpd
    /\ MinuteTokens(rs) + est <= limits.tpm
    /\ rs.tokens_today + est <= limits.tpd

(* The six tests of can_use, on a state that gc has just swept. *)
Usable(rs, now, limits, est) ==
    /\ now >= rs.unavailable_until
    /\ now - rs.last_call >= limits.cooldown
    /\ Len(rs.calls_minute) < limits.rpm
    /\ rs.calls_today < limits.rpd
    /\ MinuteTokens(rs) + est <= limits.tpm
    /\ rs.tokens_today + est <= limits.tpd

CanUse(rs, now, limits, est) == Usable(Gc(rs, now), now, limits, est)

(* Mutant of Record: the call is counted but not remembered as the last.   *)
RecordKeepsLastCall(rs, now, tokens) ==
    [rs EXCEPT
       !.calls_minute = Append(@, now),
       !.tokens_minute = Append(@, [at |-> now, n |-> tokens]),
       !.calls_today = @ + 1,
       !.tokens_today = @ + tokens]

Record(rs, now, tokens) ==
    [rs EXCEPT
       !.calls_minute = Append(@, now),
       !.tokens_minute = Append(@, [at |-> now, n |-> tokens]),
       !.calls_today = @ + 1,
       !.tokens_today = @ + tokens,
       !.last_call = now]

(* Mutant of AddTokens: the answer is added and recorded.                  *)
AddTokensTwice(rs, now, tokens) ==
    [rs EXCEPT
       !.tokens_minute = @ \o <<[at |-> now, n |-> tokens], [at |-> now, n |-> tokens]>>,
       !.tokens_today = @ + 2 * tokens]

(* What the chat route adds once the answer's token count is known: the    *)
(* tokens only, without counting a second call.                            *)
AddTokens(rs, now, tokens) ==
    [rs EXCEPT
       !.tokens_minute = Append(@, [at |-> now, n |-> tokens]),
       !.tokens_today = @ + tokens]

(* Mutant of MarkUnavailable: the deadline is counted backwards.           *)
MarkUnavailableBackwards(rs, now, seconds) ==
    [rs EXCEPT !.unavailable_until = seconds - now]

(* An assignment, not a maximum: a later, shorter bench replaces a longer. *)
MarkUnavailable(rs, now, seconds) ==
    [rs EXCEPT !.unavailable_until = now + seconds]

=============================================================================
