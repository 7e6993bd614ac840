----------------------------- MODULE ChannelGate -----------------------------
(***************************************************************************)
(* The doors by which a channel's messages reach the agent                 *)
(* (glc/routes/channels.py): WebSockets, which read the list of owners     *)
(* once, and webhooks, which read it for every message.  Behind both are   *)
(* the identity taken from the pairing store, the mention gate, the        *)
(* allowlist, the rate limiter, the audit log and the bridge.              *)
(*                                                                         *)
(* The gateway is one asyncio loop: from receiving a message to awaiting   *)
(* the bridge nothing else runs in it.  But another process may write the  *)
(* pairing file between the two reads a webhook makes of it.  One channel  *)
(* is modelled; the limiter's answer is free (RateLimiter is its module).  *)
(***************************************************************************)
EXTENDS PairingStore

CONSTANTS
    Sockets, Hooks,
    Gateway,            \* the client of the store that is the gateway
    AllowedSenders,     \* allowed_senders of channels.yaml
    IsPublic,           \* is_public of channels.yaml
    MentionOnly,        \* mention_only_in_public
    HasTokens,          \* some mention_tokens are configured
    Envelopes,          \* the messages that may arrive
    MaxMessages         \* bound: how many messages arrive

Doors == Sockets \cup Hooks
AnyTrust == Trusts \cup {"untrusted"}
(* What an envelope says of itself, and whether its text holds a token.    *)
EnvelopeSet ==
    [user: Users, trust: AnyTrust, public: BOOLEAN, mentioned: BOOLEAN, token: BOOLEAN]
Events ==
    {"mention_claim_ignored", "allowlist_drop", "rate_limit", "inbound_message",
     "agent_bridge_error"}

ASSUME GateAssumption ==
    /\ Gateway \in Clients
    /\ Sockets \cap Hooks = {} /\ IsFiniteSet(Sockets \cup Hooks)
    /\ AllowedSenders \subseteq Users
    /\ IsPublic \in BOOLEAN /\ MentionOnly \in BOOLEAN /\ HasTokens \in BOOLEAN
    /\ Envelopes \subseteq EnvelopeSet
    /\ None \notin EnvelopeSet
    /\ MaxMessages \in Nat

VARIABLES
    step,       \* door -> the await, or the read of the store, it is at
    env,        \* door -> the message it handles, None between messages
    owners,     \* socket -> the owners it read when it connected
    audit,      \* audit_log: event type -> number of rows
    received,   \* how many messages were received
    bridged     \* how many were sent to the agent

gateVars == <<step, env, owners, audit, received, bridged>>
vars == <<storeVars, gateVars>>

TypeOK ==
    /\ StoreTypeOK
    /\ step \in [Doors -> {"closed", "ready", "looked", "bridge", "send"}]
    /\ env \in [Doors -> EnvelopeSet \cup {None}]
    /\ owners \in [Sockets -> SUBSET Users]
    /\ audit \in [Events -> Nat]
    /\ received \in 0 .. MaxMessages /\ bridged \in Nat
    /\ \A d \in Doors : env[d] = None <=> step[d] \in {"closed", "ready"}

Init ==
    /\ StoreInit
    /\ step = [d \in Doors |-> IF d \in Sockets THEN "closed" ELSE "ready"]
    /\ env = [d \in Doors |-> None]
    /\ owners = [s \in Sockets |-> {}]
    /\ audit = [e \in Events |-> 0]
    /\ received = 0 /\ bridged = 0

-----------------------------------------------------------------------------
(* Nobody is in the middle of a stretch without awaits.                    *)
LoopFree ==
    /\ IsIdle(Gateway)
    /\ \A d \in Doors : step[d] # "looked"

Lookup(u) == IF pairings[u] = None THEN "untrusted" ELSE pairings[u].trust

OwnersNow == {u \in Users : Lookup(u) = "owner_paired"}

(* Mutant of VerifiedIdentity: the envelope's own claim is believed.       *)
ClaimedIdentity(e) == e

(* The trust an envelope claims is replaced by what the store says.        *)
VerifiedIdentity(e) == [e EXCEPT !.trust = Lookup(e.user)]

(* Mutant of WasMentioned: the claim counts next to the tokens.            *)
MentionedOrClaimed(e) == e.token \/ e.mentioned

Public(e) == IsPublic \/ e.public
WasMentioned(e) == IF HasTokens THEN e.token ELSE e.mentioned
ClaimIgnored(e) == HasTokens /\ e.mentioned # WasMentioned(e)

(* allowed(): the sender is an owner or listed, and mentioned in public.   *)
Allowed(e, ownerIds) ==
    /\ e.user \in ownerIds \cup AllowedSenders
    /\ Public(e) /\ MentionOnly => WasMentioned(e)

-----------------------------------------------------------------------------
Connect(s) ==
    /\ LoopFree
    /\ step[s] = "closed"
    /\ step' = [step EXCEPT ![s] = "ready"]
    /\ owners' = [owners EXCEPT ![s] = OwnersNow]
    /\ UNCHANGED <<storeVars, env, audit, received, bridged>>

Disconnect(s) ==
    /\ LoopFree
    /\ step[s] = "ready"
    /\ step' = [step EXCEPT ![s] = "closed"]
    /\ UNCHANGED <<storeVars, env, owners, audit, received, bridged>>

(* A well-formed message of this channel; its sender is looked up.         *)
Receive(d, e) ==
    /\ LoopFree
    /\ step[d] = "ready"
    /\ received < MaxMessages
    /\ step' = [step EXCEPT ![d] = "looked"]
    /\ env' = [env EXCEPT ![d] = VerifiedIdentity(e)]
    /\ received' = received + 1
    /\ UNCHANGED <<storeVars, owners, audit, bridged>>

(* Mutant of Release: the handler keeps the message it is done with.       *)
ReleaseKeepingMessage(d) ==
    /\ step' = [step EXCEPT ![d] = "ready"]
    /\ UNCHANGED <<env, bridged>>

Release(d) ==
    /\ step' = [step EXCEPT ![d] = "ready"]
    /\ env' = [env EXCEPT ![d] = None]
    /\ UNCHANGED bridged

(* Mutant of Audited: the ignored claim's row replaces the message's row.  *)
AuditedOnce(e, event) ==
    [audit EXCEPT ![IF ClaimIgnored(e) THEN "mention_claim_ignored" ELSE event] = @ + 1]

Audited(e, event) ==
    [x \in Events |-> audit[x]
        + (IF x = event THEN 1 ELSE 0)
        + (IF x = "mention_claim_ignored" /\ ClaimIgnored(e) THEN 1 ELSE 0)]

OwnerIds(d) == IF d \in Sockets THEN owners[d] ELSE OwnersNow

(* Gate, allowlist, limiter and audit, up to the await of the bridge.      *)
Admit(d) ==
    LET e == env[d] IN
    /\ step[d] = "looked"
    /\ \/ /\ ~Allowed(e, OwnerIds(d))
          /\ audit' = Audited(e, "allowlist_drop")
          /\ Release(d)
       \/ /\ Allowed(e, OwnerIds(d))
          /\ audit' = Audited(e, "rate_limit")
          /\ Release(d)
       \/ /\ Allowed(e, OwnerIds(d))
          /\ audit' = Audited(e, "inbound_message")
          /\ step' = [step EXCEPT ![d] = "bridge"]
          /\ bridged' = bridged + 1
          /\ UNCHANGED env
    /\ UNCHANGED <<storeVars, owners, received>>

(* The agent answered: a socket is sent the reply, a webhook's adapter     *)
(* awaits the channel's own service.                                       *)
Answered(d) ==
    /\ LoopFree
    /\ step[d] = "bridge"
    /\ \/ d \in Sockets /\ Release(d)
       \/ /\ d \in Hooks
          /\ step' = [step EXCEPT ![d] = "send"]
          /\ UNCHANGED <<env, bridged>>
    /\ UNCHANGED <<storeVars, owners, audit, received>>

(* The bridge failed or timed out: audited by a socket, a bare 503 from a  *)
(* webhook.                                                                *)
BridgeError(d) ==
    /\ LoopFree
    /\ step[d] = "bridge"
    /\ audit' = IF d \in Sockets THEN [audit EXCEPT !["agent_bridge_error"] = @ + 1]
                ELSE audit
    /\ Release(d)
    /\ UNCHANGED <<storeVars, owners, received>>

(* Mutant of Sent: the reply is asked for and sent again.                  *)
SentAgain(h) ==
    /\ LoopFree
    /\ step[h] = "send"
    /\ step' = [step EXCEPT ![h] = "bridge"]
    /\ UNCHANGED <<storeVars, env, owners, audit, received, bridged>>

(* adapter.send returned or raised; neither is audited.                    *)
Sent(h) ==
    /\ LoopFree
    /\ step[h] = "send"
    /\ Release(h)
    /\ UNCHANGED <<storeVars, owners, audit, received>>

(* The gateway's own store operations hold the loop as well; the processes *)
(* that may die in the middle of one are the others.                       *)
StoreStep ==
    /\ \/ \E c \in Clients \ {Gateway} : Operate(c) \/ Crash(c)
       \/ /\ \A d \in Doors : step[d] # "looked"
          /\ Operate(Gateway)
       \/ Tick
    /\ UNCHANGED gateVars

Handle(d) == Admit(d) \/ Answered(d) \/ BridgeError(d) \/ Sent(d)

Next ==
    \/ StoreStep
    \/ \E s \in Sockets : Connect(s) \/ Disconnect(s)
    \/ \E d \in Doors : (\E e \in Envelopes : Receive(d, e)) \/ Handle(d)

(* A confirm the gateway has begun runs to its end, which frees the loop.  *)
GatewayConfirm ==
    /\ JudgeExpiry(Gateway) \/ InsertPairing(Gateway) \/ DeleteCode(Gateway)
    /\ UNCHANGED gateVars

(* The bridge's HTTP client has a timeout.  Strong fairness: a handler     *)
(* whose answer is in waits for the loop again and again, but the loop's   *)
(* ready queue is first in, first out, so nobody is passed over for ever.  *)
Fairness ==
    /\ \A d \in Doors : SF_vars(Handle(d))
    /\ WF_vars(GatewayConfirm)

Spec == Init /\ [][Next]_vars /\ Fairness

-----------------------------------------------------------------------------
(* Whatever a message claims, the trust that reaches the agent with it was *)
(* asked for its sender, at that level, by someone who may write the store. *)
TrustFromStore ==
    \A d \in Doors :
        step[d] \in {"bridge", "send"} /\ env[d].trust # "untrusted" =>
            \E a \in asked : Explains(a, env[d].user, env[d].trust)

(* _derive_gate, "neither claim may relax the gate": in a channel that is  *)
(* public by configuration and has mention tokens, no message without one  *)
(* reaches the agent, from an owner or anyone, whatever it claims.         *)
ClaimNeverRelaxes ==
    \A d \in Doors :
        step[d] \in {"bridge", "send"} /\ IsPublic /\ MentionOnly /\ HasTokens =>
            env[d].token

Judged == {d \in Doors : step[d] = "looked"}

(* audit/store.py:3, "Every channel message [...] lands here": every       *)
(* message that was received and is not being judged has left exactly one  *)
(* row of its fate, and the agent got those with an inbound row.           *)
EveryMessageAudited ==
    /\ received = audit["allowlist_drop"] + audit["rate_limit"]
                    + audit["inbound_message"] + Cardinality(Judged)
    /\ bridged = audit["inbound_message"]

(* allowlists.py:5-6: "The owner is whichever `channel_user_id` is         *)
(* currently in the pairings table with trust_level == owner_paired".      *)
CurrentOwnersOnly ==
    [][\A d \in Doors :
          step[d] = "looked" /\ step'[d] = "bridge" =>
              env[d].user \in AllowedSenders \cup OwnersNow]_vars

(* A door that has received a message is ready for the next one in the end: *)
(* neither a failing agent nor writes to the store hold it up for ever.    *)
EveryMessageEnds == \A d \in Doors : step[d] = "looked" ~> env[d] = None

=============================================================================
