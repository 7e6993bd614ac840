--------------------------- MODULE WhatsAppRoutes --------------------------
(***************************************************************************)
(* The WhatsApp adapter's two providers, Meta and Twilio.  A module-level  *)
(* table remembers by which of them a user was last reached; inbound       *)
(* messages write it, and a reply to a user it does not know tries Meta    *)
(* first.  A send awaits its provider, and inbound messages and other      *)
(* sends run in between.  The providers are external.                      *)
(***************************************************************************)
EXTENDS Integers, Sequences, FiniteSets, SequencesExt

CONSTANTS
    WaUsers,
    ProviderCacheMax,   \* _PROVIDER_CACHE_MAX, 100 in the code
    TwilioFrom,         \* TWILIO_WHATSAPP_FROM is set
    MaxReplies          \* bound on the replies sent

ASSUME WhatsAppAssumption == ProviderCacheMax \in Nat \ {0} /\ TwilioFrom \in BOOLEAN

Providers == {"meta", "twilio"}
(* What a provider's answer comes to.  "ok": it took the message.  "131030"*)
(* and "error": it did not, and its JSON says so under "error", as all of  *)
(* Meta's refusals do.  "refused": it did not, in JSON without that key, as*)
(* Twilio's refusals are (code, message and status at the top).  "unclear":*)
(* no JSON or no answer; the message may have gone out.                    *)
Results == {"ok", "131030", "error", "refused", "unclear"}

VARIABLES
    providerCache,  \* [user, provider] in the dictionary's order of insertion
    waPaired,       \* users with a pairing
    waSends,        \* reply -> [user, provider, known: the cache named the provider]
    waDelivered,    \* history: reply -> messages the user got for it
    waEvidence,     \* history: [user, provider] that a message came or went by
    waRefused,      \* history: users whose reply Meta could not deliver and Twilio then refused
    waHeard         \* history: users in the order they were last remembered

waVars == <<providerCache, waPaired, waSends, waDelivered, waEvidence, waRefused, waHeard>>

Replies == 1 .. MaxReplies

WaTypeOK ==
    /\ \A i \in DOMAIN providerCache :
          providerCache[i] \in [user: WaUsers, provider: Providers]
    /\ waPaired \subseteq WaUsers
    /\ DOMAIN waSends \subseteq Replies
    /\ \A r \in DOMAIN waSends :
          waSends[r] \in [user: WaUsers, provider: Providers \cup {"done"}, known: BOOLEAN]
    /\ waDelivered \in [Replies -> Nat]
    /\ waEvidence \subseteq [user: WaUsers, provider: Providers]
    /\ waRefused \subseteq WaUsers

WaInit ==
    /\ providerCache = <<>> /\ waPaired \in SUBSET WaUsers
    /\ waSends = <<>> /\ waDelivered = [r \in Replies |-> 0]
    /\ waEvidence = {} /\ waRefused = {} /\ waHeard = <<>>

-----------------------------------------------------------------------------
Cached(u) == {e.provider : e \in {f \in ToSet(providerCache) : f.user = u}}

(* A key is in a dictionary once, and gone when it is popped.              *)
Others(u) == RemoveFirstMatch(providerCache, LAMBDA e : e.user = u)

(* Mutant of Remembered: a user who is known keeps the old place.          *)
RememberedInPlace(u, p) ==
    IF Cached(u) # {}
    THEN [i \in DOMAIN providerCache |->
             IF providerCache[i].user = u THEN [user |-> u, provider |-> p] ELSE providerCache[i]]
    ELSE Append(IF Len(providerCache) >= ProviderCacheMax THEN Tail(providerCache)
                ELSE providerCache, [user |-> u, provider |-> p])

(* _remember_provider: a known user moves to the end; a new one pushes the *)
(* first out of a full table.                                              *)
Remembered(u, p) ==
    LET room == IF Cached(u) = {} /\ Len(providerCache) >= ProviderCacheMax
                THEN Tail(providerCache) ELSE Others(u)
    IN  Append(room, [user |-> u, provider |-> p])

Remember(u, p) ==
    /\ providerCache' = Remembered(u, p)
    /\ waHeard' = Append(RemoveFirst(waHeard, u), u)

(* on_message of a signed, parsed message that the gate lets through; all  *)
(* others leave no trace.                                                  *)
WaInbound(u, p) ==
    /\ Remember(u, p)
    /\ waEvidence' = waEvidence \cup {[user |-> u, provider |-> p]}
    /\ UNCHANGED <<waPaired, waSends, waDelivered, waRefused>>

(* send starts: nobody who is not paired is written to.  It reads the      *)
(* table once; without an entry it posts to Meta.                          *)
WaSend(r, u) ==
    /\ r \notin DOMAIN waSends /\ u \in waPaired
    /\ \A q \in 1 .. r - 1 : q \in DOMAIN waSends
    /\ \E p \in (IF Cached(u) = {} THEN {"meta"} ELSE Cached(u)) :
         LET refused == p = "twilio" /\ ~TwilioFrom IN
         waSends' = [q \in DOMAIN waSends \cup {r} |->
                        IF q = r THEN [user |-> u, provider |-> IF refused THEN "done" ELSE p,
                                       known |-> Cached(u) # {}]
                        ELSE waSends[q]]
    /\ UNCHANGED <<providerCache, waPaired, waDelivered, waEvidence, waRefused, waHeard>>

(* Mutant of FallsBack: any error of Meta's sends the reply by Twilio.     *)
FallsBackOnError(result) == result # "ok"

(* Only Meta's 131030, which says that the user was not written to.        *)
FallsBack(result) == result = "131030"

(* Mutant of Learns: the provider is remembered whatever came of it.       *)
LearnsAlways(result) == TRUE

(* Whatever carries no "error" key is taken for success.                   *)
Learns(result) == result \in {"ok", "refused"}

(* Messages that went out, by what came of the send.                       *)
Out(result) == IF result = "ok" THEN {1} ELSE IF result = "unclear" THEN {0, 1} ELSE {0}

WaResult(r, result) ==
    /\ r \in DOMAIN waSends /\ waSends[r].provider # "done"
    /\ LET u == waSends[r].user
           p == waSends[r].provider
           fallback == p = "meta" /\ ~waSends[r].known /\ FallsBack(result) /\ TwilioFrom
       IN  /\ result = "131030" => p = "meta"
           /\ result = "refused" => p = "twilio"
           /\ waSends' = [waSends EXCEPT ![r].provider = IF fallback THEN "twilio" ELSE "done"]
           /\ \E out \in Out(result) : waDelivered' = [waDelivered EXCEPT ![r] = @ + out]
           /\ waEvidence' = IF result = "ok"
                            THEN waEvidence \cup {[user |-> u, provider |-> p]} ELSE waEvidence
           /\ waRefused' = IF result = "refused" /\ ~waSends[r].known
                           THEN waRefused \cup {u} ELSE waRefused
           /\ IF ~waSends[r].known /\ ~fallback /\ Learns(result)
              THEN Remember(u, p)
              ELSE UNCHANGED <<providerCache, waHeard>>
    /\ UNCHANGED waPaired

WaUnpair(u) ==
    /\ u \in waPaired
    /\ waPaired' = waPaired \ {u}
    /\ UNCHANGED <<providerCache, waSends, waDelivered, waEvidence, waRefused, waHeard>>

WaNext ==
    \/ \E u \in WaUsers, p \in Providers : WaInbound(u, p)
    \/ \E r \in Replies, u \in WaUsers : WaSend(r, u)
    \/ \E r \in Replies, result \in Results : WaResult(r, result)
    \/ \E u \in WaUsers : WaUnpair(u)

WaSpec == WaInit /\ [][WaNext]_waVars

-----------------------------------------------------------------------------
(* A reply reaches its user at most once, although two providers may be    *)
(* tried and a provider's answer may be lost or unreadable after the       *)
(* message went out (whatsapp/adapter.py:359-388).                         *)
RepliedOnce == \A r \in Replies : waDelivered[r] <= 1

(* Meta is only remembered for a user after a message came from them or   *)
(* went to them by it, whatever sends were in flight meanwhile.  Twilio is *)
(* so too, or after it refused a reply that Meta could not deliver: the    *)
(* refusal is taken for success (adapter.py:382), and as long as the entry *)
(* stays the user's replies go to Twilio alone.                            *)
EntryHasEvidence ==
    \A i \in DOMAIN providerCache :
        \/ providerCache[i] \in waEvidence
        \/ providerCache[i].provider = "twilio" /\ providerCache[i].user \in waRefused

(* The table forgets only the users heard of longest ago, and keeps its    *)
(* bound (adapter.py:34-39).                                               *)
RecentRemembered ==
    /\ Len(providerCache) <= ProviderCacheMax
    /\ [i \in DOMAIN providerCache |-> providerCache[i].user]
         = SubSeq(waHeard, Len(waHeard) - Len(providerCache) + 1, Len(waHeard))

=============================================================================
