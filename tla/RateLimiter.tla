---------------------------- MODULE RateLimiter ----------------------------
(***************************************************************************)
(* The sender rate limiter of glc/security/rate_limits.py: one window of   *)
(* time stamps per (channel, channel_user_id) and kind of request, made on *)
(* first use and dropped by a sweep when it has aged out.  _check runs     *)
(* under the limiter's lock, so a check is one step.  The clock inside the *)
(* lock is assumed not to run backwards.                                   *)
(***************************************************************************)
EXTENDS SlidingWindow, FiniteSets

CONSTANTS
    Senders,        \* the (channel, channel_user_id) pairs that may appear
    Cap,            \* sender -> kind -> limit, as limits_for resolves it
    SweepInterval,  \* _SWEEP_INTERVAL_SECONDS, 60 in the code
    Boot,           \* the time the gateway starts
    MaxTime         \* bound: the clock stops here

Kinds == {"messages", "tool_calls"}

ASSUME CapAssumption == Cap \in [Senders -> [Kinds -> Nat]]
ASSUME SweepAssumption == SweepInterval \in Nat \ {0}
ASSUME ClockAssumption == Boot \in Nat /\ MaxTime \in Nat

VARIABLES
    now,
    state,      \* RateLimiter._state: the senders that have a window
    last_sweep,
    verdict,    \* the last answer of _check
    granted,    \* history: sender -> kind -> the times of its grants
    asked       \* history: sender -> the time it last asked

vars == <<now, state, last_sweep, verdict, granted, asked>>

Windows == [Kinds -> Times]

(* A deque never holds more than its limit.                                *)
TypeOK ==
    /\ now \in Nat
    /\ DOMAIN state \subseteq Senders
    /\ state \in [DOMAIN state -> Windows]
    /\ \A k \in DOMAIN state, d \in Kinds : Len(state[k][d]) <= Cap[k][d]
    /\ last_sweep \in Nat
    /\ verdict \in BOOLEAN
    /\ granted \in [Senders -> Windows]
    /\ asked \in [Senders -> Nat]

NewWindow == [d \in Kinds |-> <<>>]

Init ==
    /\ now = Boot
    /\ state = <<>>
    /\ last_sweep = 0
    /\ verdict = TRUE
    /\ granted = [k \in Senders |-> NewWindow]
    /\ asked = [k \in Senders |-> 0]

-----------------------------------------------------------------------------
SweepDue == now - last_sweep >= SweepInterval

Trimmed(win) == [d \in Kinds |-> FromCutoff(win[d], now - Window)]

(* Mutant of Live: only the messages keep a window alive.                  *)
LiveByMessages(win) == Trimmed(win)["messages"] # <<>>

Live(win) == \E d \in Kinds : Trimmed(win)[d] # <<>>

(* Mutant of Swept: windows are trimmed but never dropped.                 *)
SweptKeepingAll ==
    IF SweepDue THEN [k \in DOMAIN state |-> Trimmed(state[k])] ELSE state

(* _sweep_locked: every SweepInterval, trim every window and drop those    *)
(* that hold nothing any more.                                             *)
Swept ==
    IF SweepDue
    THEN [k \in {j \in DOMAIN state : Live(state[j])} |-> Trimmed(state[k])]
    ELSE state

(* The deque the limit is tested on: the sender's, trimmed, or a new one.  *)
Deque(k, d) ==
    FromCutoff(IF k \in DOMAIN Swept THEN Swept[k][d] ELSE <<>>, now - Window)

(* Mutant of Allows: a full window lets one more in.                       *)
AllowsOneMore(k, d) == Len(Deque(k, d)) <= Cap[k][d]

Allows(k, d) == Len(Deque(k, d)) < Cap[k][d]

(* _check: sweep if it is time, find or make the sender's window, trim the *)
(* deque in question, and either refuse or append the stamp.               *)
Check(k, d) ==
    LET win == IF k \in DOMAIN Swept THEN Swept[k] ELSE NewWindow
        kept == IF Allows(k, d) THEN Append(Deque(k, d), now) ELSE Deque(k, d)
    IN  /\ state' = [j \in DOMAIN Swept \cup {k} |->
                       IF j = k THEN [win EXCEPT ![d] = kept] ELSE Swept[j]]
        /\ last_sweep' = IF SweepDue THEN now ELSE last_sweep
        /\ verdict' = Allows(k, d)
        /\ granted' = IF Allows(k, d)
                      THEN [granted EXCEPT ![k][d] = Append(@, now)] ELSE granted
        /\ asked' = [asked EXCEPT ![k] = now]
        /\ UNCHANGED now

Tick ==
    /\ now < MaxTime
    /\ now' = now + 1
    /\ UNCHANGED <<state, last_sweep, verdict, granted, asked>>

Next ==
    \/ \E k \in Senders, d \in Kinds : Check(k, d)
    \/ Tick

Spec == Init /\ [][Next]_vars

-----------------------------------------------------------------------------
Promise == INSTANCE Quota WITH now <- now, granted <- granted, verdict <- verdict

(* Trimming deques and dropping windows never changes an answer: each one  *)
(* is the answer the sender's whole history calls for (test_rate_limit_    *)
(* bounded.py: "The cap must survive eviction, and still reset once the    *)
(* minute passes").                                                        *)
KeepsPromise == Promise!Spec

(* Any Cap + 1 consecutive grants to a sender span more than the window,   *)
(* whoever else asks in between and whenever the sweeps happen.            *)
QuotaHeld ==
    \A k \in Senders, d \in Kinds : \A i \in 1 .. Len(granted[k][d]) :
        i + Cap[k][d] <= Len(granted[k][d]) =>
            granted[k][d][i + Cap[k][d]] - granted[k][d][i] > Window

(* The table does not grow with the senders that ever appeared: one that   *)
(* has a window asked less than a window and a sweep interval before the   *)
(* most recent request of anybody.                                         *)
IdleForgotten ==
    \A k \in DOMAIN state, j \in Senders :
        asked[j] - asked[k] < Window + SweepInterval

=============================================================================
