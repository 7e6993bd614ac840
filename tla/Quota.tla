------------------------------- MODULE Quota -------------------------------
(***************************************************************************)
(* What a sender's quota promises, without deques and sweeps: every answer *)
(* follows from the whole history of what was granted.  A request of kind  *)
(* d by sender k is granted exactly when fewer than Cap[k][d] grants fall  *)
(* into the window that ends now.                                          *)
(***************************************************************************)
EXTENDS Integers, Sequences, FiniteSets

CONSTANTS
    Senders,
    Kinds,
    Cap,        \* sender -> kind -> grants per window
    Window,
    Boot,       \* the time of the first request
    MaxTime     \* bound: the clock stops here

VARIABLES
    now,
    granted,    \* sender -> kind -> the times of its grants
    verdict     \* the last answer

vars == <<now, granted, verdict>>

Recent(k, d) ==
    {i \in 1 .. Len(granted[k][d]) : granted[k][d][i] >= now - Window}

Init ==
    /\ now = Boot
    /\ granted = [k \in Senders |-> [d \in Kinds |-> <<>>]]
    /\ verdict = TRUE

Grant(k, d) ==
    /\ Cardinality(Recent(k, d)) < Cap[k][d]
    /\ granted' = [granted EXCEPT ![k][d] = Append(@, now)]
    /\ verdict' = TRUE
    /\ UNCHANGED now

Deny(k, d) ==
    /\ Cardinality(Recent(k, d)) >= Cap[k][d]
    /\ verdict' = FALSE
    /\ UNCHANGED <<now, granted>>

Tick ==
    /\ now < MaxTime
    /\ now' = now + 1
    /\ UNCHANGED <<granted, verdict>>

Next ==
    \/ \E k \in Senders, d \in Kinds : Grant(k, d) \/ Deny(k, d)
    \/ Tick

Spec == Init /\ [][Next]_vars

=============================================================================
