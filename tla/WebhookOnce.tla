---------------------------- MODULE WebhookOnce ----------------------------
(***************************************************************************)
(* The webhook adapter's redelivery check: a signed delivery is accepted   *)
(* when its timestamp is within the window of the adapter's clock and its  *)
(* signature is not remembered.  Deliveries can be late, repeated and      *)
(* reordered, and the sender's clock may run ahead of the adapter's.       *)
(* Whoever owns the adapter keeps it, or, like the gateway's webhook route *)
(* (routes/channels.py:245), makes a new one for every call.               *)
(***************************************************************************)
EXTENDS Integers, FiniteSets

CONSTANTS
    Deliveries,
    Leads,          \* by how much a sender's clock can be ahead
    ReplayWindow,   \* REPLAY_WINDOW_SECONDS, 300 in the code
    HookMaxTime     \* bound on the clock

ASSUME WebhookAssumption ==
    0 \in Leads /\ Leads \subseteq Nat /\ ReplayWindow \in Nat /\ HookMaxTime \in Nat

VARIABLES
    hookNow,
    adapterKept,    \* the owner keeps one adapter
    stamp,          \* the deliveries signed so far -> their timestamp
    lead,           \* the deliveries signed so far -> how far ahead the sender's clock was
    seenSigs,       \* _seen: delivery -> when it was accepted
    acceptedTimes   \* history: delivery -> times it was accepted

hookVars == <<hookNow, adapterKept, stamp, lead, seenSigs, acceptedTimes>>

HookTypeOK ==
    /\ hookNow \in 0 .. HookMaxTime
    /\ adapterKept \in BOOLEAN
    /\ DOMAIN stamp \subseteq Deliveries /\ DOMAIN lead = DOMAIN stamp
    /\ \A d \in DOMAIN stamp : stamp[d] \in Nat /\ lead[d] \in Leads
    /\ DOMAIN seenSigs \subseteq DOMAIN stamp
    /\ \A d \in DOMAIN seenSigs : seenSigs[d] \in 0 .. hookNow
    /\ acceptedTimes \in [Deliveries -> Nat]

HookInit ==
    /\ hookNow = 0 /\ adapterKept \in BOOLEAN
    /\ stamp = <<>> /\ lead = <<>> /\ seenSigs = <<>>
    /\ acceptedTimes = [d \in Deliveries |-> 0]

-----------------------------------------------------------------------------
(* A sender signs a delivery, to be sent any number of times from now on.  *)
Sign(d, ahead) ==
    /\ d \notin DOMAIN stamp
    /\ stamp' = [e \in DOMAIN stamp \cup {d} |-> IF e = d THEN hookNow + ahead ELSE stamp[e]]
    /\ lead' = [e \in DOMAIN lead \cup {d} |-> IF e = d THEN ahead ELSE lead[e]]
    /\ UNCHANGED <<hookNow, adapterKept, seenSigs, acceptedTimes>>

Distance(a, b) == IF a >= b THEN a - b ELSE b - a

Fresh(d) == Distance(hookNow, stamp[d]) <= ReplayWindow

(* Mutant of Swept: an entry goes one tick too early.                      *)
SweptEarly == [e \in {f \in DOMAIN seenSigs : hookNow - seenSigs[f] < ReplayWindow} |-> seenSigs[e]]

(* check_and_record first drops what is older than the window.             *)
Swept == [e \in {f \in DOMAIN seenSigs : hookNow - seenSigs[f] <= ReplayWindow} |-> seenSigs[e]]

(* A copy of the delivery arrives; one that is not fresh leaves no trace.  *)
ReceiveDelivery(d) ==
    /\ d \in DOMAIN stamp /\ Fresh(d)
    /\ acceptedTimes[d] < 2    \* bound: a third acceptance shows nothing new
    /\ LET kept == IF adapterKept THEN Swept ELSE <<>> IN
         IF d \in DOMAIN kept
         THEN seenSigs' = kept /\ UNCHANGED acceptedTimes
         ELSE /\ seenSigs' = [e \in DOMAIN kept \cup {d} |-> IF e = d THEN hookNow ELSE kept[e]]
              /\ acceptedTimes' = [acceptedTimes EXCEPT ![d] = @ + 1]
    /\ UNCHANGED <<hookNow, adapterKept, stamp, lead>>

HookTick ==
    /\ hookNow < HookMaxTime
    /\ hookNow' = hookNow + 1
    /\ UNCHANGED <<adapterKept, stamp, lead, seenSigs, acceptedTimes>>

HookNext ==
    \/ \E d \in Deliveries, ahead \in Leads : Sign(d, ahead)
    \/ \E d \in Deliveries : ReceiveDelivery(d)
    \/ HookTick

HookSpec == HookInit /\ [][HookNext]_hookVars

-----------------------------------------------------------------------------
(* A kept adapter accepts a delivery once, however often and late it comes *)
(* again, if its sender's clock is not ahead (webhook/adapter.py:38-40):   *)
(* the entry is swept no sooner than the timestamp turns stale.  An adapter*)
(* made for one request, as the gateway's route makes it, remembers nothing*)
(* and accepts every copy that is still fresh.                             *)
KeptAcceptsOnce ==
    adapterKept => \A d \in DOMAIN stamp : lead[d] = 0 => acceptedTimes[d] <= 1

(* What the code says without that condition: "Entries are only useful     *)
(* until the freshness check would reject them on its own".                *)
KeptAcceptsOnceWhenAhead ==
    adapterKept => \A d \in DOMAIN stamp : acceptedTimes[d] <= 1

=============================================================================
