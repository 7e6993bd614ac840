----------------------------- MODULE LineBridge ----------------------------
(***************************************************************************)
(* LINE as catalogue/line/dev/live_bridge.py serves it: each webhook runs  *)
(* its events one after the other, and for each waits for the ack, the     *)
(* agent and the answer; webhooks run concurrently.  What they share is    *)
(* the table of reply tokens, one per user, and the pairings.  LINE and    *)
(* the agent are external.  LINE may deliver an event again, and a signed  *)
(* body may be posted again: neither live_bridge.py nor adapter.py tells   *)
(* such a delivery from a new event, and its token is the old one.  What a *)
(* webhook's body holds is therefore modelled as deliveries, and TokenOf   *)
(* says which of them bring the same token.                                *)
(***************************************************************************)
EXTENDS Integers, Sequences, FiniteSets

CONSTANTS
    Webhooks,
    EventsOf,       \* webhook -> the deliveries of text events in its body
    LineUsers,
    SenderOf,       \* delivery -> user
    TokenOf,        \* delivery -> its reply token, that of every delivery of the event
    TokenTtl,       \* ttl_s, 60 s in the code
    LineMaxTime     \* bound on the clock

LineEvents == UNION {{EventsOf[w][i] : i \in DOMAIN EventsOf[w]} : w \in Webhooks}

ASSUME LineAssumption ==
    /\ \A w \in Webhooks :
          EventsOf[w] \in Seq({EventsOf[w][i] : i \in DOMAIN EventsOf[w]}) /\ Len(EventsOf[w]) > 0
    /\ \A w, v \in Webhooks : \A i \in DOMAIN EventsOf[w], j \in DOMAIN EventsOf[v] :
          EventsOf[w][i] = EventsOf[v][j] => w = v /\ i = j
    /\ SenderOf \in [LineEvents -> LineUsers]
    /\ \A d, e \in LineEvents : TokenOf[d] = TokenOf[e] => SenderOf[d] = SenderOf[e]
    /\ TokenTtl \in Nat /\ LineMaxTime \in Nat

VARIABLES
    lineNow,
    linePublic,     \* is_public_channel, fixed for the adapter's life
    linePaired,     \* users with a pairing
    hook,           \* webhook -> the event it is at, and what it waits for
    tokens,         \* _reply_tokens: user -> the delivery whose token is kept, and its end
    lineReceived,   \* history: the deliveries on_message was called with
    lineSent,       \* history: [event, kind, token: the delivery it was kept from, or a push]
    refusedAcks,    \* history: events whose ack met a 429
    strangers,      \* history: events whose sender was untrusted when they came
    agentAsked      \* history: events the agent was asked about

lineVars ==
    <<lineNow, linePublic, linePaired, hook, tokens, lineReceived, lineSent, refusedAcks, strangers,
      agentAsked>>

Push == "push"
Kinds == {"ack", "answer", "not_paired"}
Waits == {"unread", "notice", "ack", "agent", "answer", "over"}

LineTypeOK ==
    /\ lineNow \in 0 .. LineMaxTime
    /\ linePublic \in BOOLEAN
    /\ linePaired \subseteq LineUsers
    /\ \A w \in Webhooks :
          hook[w].at \in 1 .. Len(EventsOf[w]) + 1 /\ hook[w].wait \in Waits
    /\ DOMAIN tokens \subseteq LineUsers
    /\ \A u \in DOMAIN tokens : tokens[u] \in [event: LineEvents, end: Nat]
    /\ lineSent \subseteq [event: LineEvents, kind: Kinds, token: LineEvents \cup {Push}]
    /\ lineReceived \subseteq LineEvents
    /\ refusedAcks \subseteq LineEvents /\ strangers \subseteq LineEvents /\ agentAsked \subseteq LineEvents

LineInit ==
    /\ lineNow = 0 /\ linePublic \in BOOLEAN /\ linePaired \in SUBSET LineUsers
    /\ hook = [w \in Webhooks |-> [at |-> 1, wait |-> "unread"]]
    /\ tokens = <<>> /\ lineReceived = {} /\ lineSent = {} /\ refusedAcks = {} /\ strangers = {} /\ agentAsked = {}

-----------------------------------------------------------------------------
Event(w) == EventsOf[w][hook[w].at]

At(w, wait) == hook[w].wait = wait

Go(w, wait) == hook' = [hook EXCEPT ![w].wait = wait]

(* The webhook's next event, or its end.                                   *)
NextEvent(w) ==
    hook' = [hook EXCEPT ![w] =
                [at |-> @.at + 1, wait |-> IF @.at < Len(EventsOf[w]) THEN "unread" ELSE "over"]]

(* Mutant of TokensAfter: the token is looked up and left where it is.     *)
TokensAfterLook(kept, u) == kept

(* consume_reply_token pops, whether or not the token is still good.       *)
TokensAfter(kept, u) == [v \in DOMAIN kept \ {u} |-> kept[v]]

(* send: by the token kept for the user if it has not expired, else a push.*)
SendFrom(kept, e, kind) ==
    LET u == SenderOf[e]
        good == u \in DOMAIN kept /\ kept[u].end >= lineNow
    IN  /\ lineSent' = lineSent \cup
              {[event |-> e, kind |-> kind, token |-> IF good THEN kept[u].event ELSE Push]}
        /\ tokens' = TokensAfter(kept, u)

(* on_message keeps the event's token and looks the sender up; the first   *)
(* send takes a token before it waits for LINE.                            *)
ReceiveEvent(w) ==
    /\ At(w, "unread")
    /\ LET e == Event(w)
           u == SenderOf[e]
           kept == [v \in DOMAIN tokens \cup {u} |->
                       IF v = u THEN [event |-> e, end |-> lineNow + TokenTtl] ELSE tokens[v]]
       IN  \/ /\ u \in linePaired
              /\ SendFrom(kept, e, "ack")
              /\ Go(w, "ack")
              /\ UNCHANGED strangers
           \/ /\ u \notin linePaired /\ ~linePublic
              /\ SendFrom(kept, e, "not_paired")
              /\ Go(w, "notice")
              /\ strangers' = strangers \cup {e}
           \/ /\ u \notin linePaired /\ linePublic      \* dropped before any reply
              /\ tokens' = kept
              /\ NextEvent(w)
              /\ strangers' = strangers \cup {e}
              /\ UNCHANGED lineSent
    /\ lineReceived' = lineReceived \cup {Event(w)}
    /\ UNCHANGED <<lineNow, linePublic, linePaired, refusedAcks, agentAsked>>

NoticeDone(w) ==
    /\ At(w, "notice")
    /\ NextEvent(w)
    /\ UNCHANGED <<lineNow, linePublic, linePaired, tokens, lineReceived, lineSent, refusedAcks, strangers, agentAsked>>

(* Mutant of GoesOn: the ack's status is not looked at.                    *)
GoesOnRegardless(status) == TRUE

(* Only a 429 stops the event; an ack that LINE refused otherwise does not.*)
GoesOn(status) == status # 429

AckDone(w) ==
    /\ At(w, "ack")
    /\ \E status \in {200, 400, 429} :
         /\ refusedAcks' = IF status = 429 THEN refusedAcks \cup {Event(w)} ELSE refusedAcks
         /\ IF GoesOn(status)
            THEN Go(w, "agent") /\ agentAsked' = agentAsked \cup {Event(w)}
            ELSE NextEvent(w) /\ UNCHANGED agentAsked
    /\ UNCHANGED <<lineNow, linePublic, linePaired, tokens, lineReceived, lineSent, strangers>>

(* The agent answers, or its failure is answered for it.                   *)
AgentDone(w) ==
    /\ At(w, "agent")
    /\ SendFrom(tokens, Event(w), "answer")
    /\ Go(w, "answer")
    /\ UNCHANGED <<lineNow, linePublic, linePaired, lineReceived, refusedAcks, strangers, agentAsked>>

AnswerDone(w) ==
    /\ At(w, "answer")
    /\ NextEvent(w)
    /\ UNCHANGED <<lineNow, linePublic, linePaired, tokens, lineReceived, lineSent, refusedAcks, strangers, agentAsked>>

(* A send raises: the webhook fails, and with it the events behind this one.*)
SendRaises(w) ==
    /\ hook[w].wait \in {"notice", "ack", "answer"}
    /\ hook' = [hook EXCEPT ![w] = [at |-> Len(EventsOf[w]) + 1, wait |-> "over"]]
    /\ UNCHANGED <<lineNow, linePublic, linePaired, tokens, lineReceived, lineSent, refusedAcks, strangers, agentAsked>>

LineElsewhere ==
    /\ \/ lineNow < LineMaxTime /\ lineNow' = lineNow + 1 /\ UNCHANGED linePaired
       \/ \E u \in LineUsers : linePaired' = linePaired \ {u} /\ UNCHANGED lineNow
    /\ UNCHANGED <<linePublic, hook, tokens, lineReceived, lineSent, refusedAcks, strangers, agentAsked>>

LineNext ==
    \/ \E w \in Webhooks : ReceiveEvent(w)
    \/ \E w \in Webhooks : NoticeDone(w)
    \/ \E w \in Webhooks : AckDone(w)
    \/ \E w \in Webhooks : AgentDone(w)
    \/ \E w \in Webhooks : AnswerDone(w)
    \/ \E w \in Webhooks : SendRaises(w)
    \/ LineElsewhere

LineSpec == LineInit /\ [][LineNext]_lineVars

-----------------------------------------------------------------------------
(* A reply token is one-shot (README: "Reply tokens are one-shot and       *)
(* expire fast"), and none is sent twice but by way of LINE: it goes out at*)
(* most as often as on_message was handed a delivery with it, and only to  *)
(* the user it came from, although the answers of one event may take the   *)
(* token of a later one and a second delivery of an event, which nothing   *)
(* recognises, brings a used token back (adapter.py:129-142, 173-183).     *)
TokenOncePerDelivery ==
    /\ \A m \in lineSent : m.token # Push => SenderOf[m.token] = SenderOf[m.event]
    /\ \A d \in LineEvents :
          Cardinality({m \in lineSent : m.token # Push /\ TokenOf[m.token] = TokenOf[d]})
            <= Cardinality({e \in lineReceived : TokenOf[e] = TokenOf[d]})

(* The agent hears only senders that were paired when they wrote, and      *)
(* nothing of a delivery whose ack was rate-limited: neither the agent call*)
(* nor a second message follows it (live_bridge.py:162-191).  An event that*)
(* LINE delivers again is asked about again.                               *)
AgentOnlyAfterAck ==
    /\ agentAsked \cap (strangers \cup refusedAcks) = {}
    /\ \A m \in lineSent : m.kind = "answer" => m.event \in agentAsked

=============================================================================
