----------------------------- MODULE TwilioSms -----------------------------
(***************************************************************************)
(* Text messages by Twilio: webhook.py receives a message, the adapter     *)
(* makes an envelope, server.py takes it through the gateway, sends the    *)
(* gateway's reply and only then answers Twilio.  Twilio waits a bounded   *)
(* time and posts again after a timeout or a 5xx, as webhook.py:140 has    *)
(* it; the earlier request keeps running.  Twilio and the gateway are      *)
(* external here.                                                          *)
(***************************************************************************)
EXTENDS Integers, Sequences, FiniteSets

CONSTANTS
    Texts,          \* messages that people send
    BotNumberOf,    \* message -> the number it was sent to
    MediaOf,        \* message -> the media items it carries
    NoNumber,
    MaxPosts,       \* times Twilio posts one message at most
    ConfiguredNumbers   \* what phone_number can be, NoNumber when it is not set

BotNumbers == {BotNumberOf[x] : x \in Texts}

ASSUME SmsAssumption ==
    /\ NoNumber \notin BotNumbers /\ MaxPosts \in Nat
    /\ ConfiguredNumbers \subseteq BotNumbers \cup {NoNumber}

VARIABLES
    botNumber,      \* _bot_number, fixed
    learnedNumber,  \* _learned_bot_number
    posts,          \* Twilio: message -> times posted
    patience,       \* Twilio: message -> "waiting", "gave_up", "content"
    requests,       \* [text, nth] -> where the request stands
    attached,       \* history: [text, nth] -> its media in the envelope, and those that failed
    smsReplies      \* history: [req, from, by] replies people got

smsVars == <<botNumber, learnedNumber, posts, patience, requests, attached, smsReplies>>

SmsPosts == Texts \X (1 .. MaxPosts)
Stages == {"media", "gateway", "sending", "responding", "raised", "done"}

SmsTypeOK ==
    /\ botNumber \in BotNumbers \cup {NoNumber} /\ learnedNumber \in BotNumbers \cup {NoNumber}
    /\ posts \in [Texts -> 0 .. MaxPosts]
    /\ patience \in [Texts -> {"waiting", "gave_up", "content"}]
    /\ DOMAIN requests \subseteq SmsPosts /\ \A q \in DOMAIN requests : requests[q] \in Stages
    /\ DOMAIN attached = DOMAIN requests
    /\ smsReplies \subseteq [req: SmsPosts, from: BotNumbers, by: {"send", "twiml"}]

SmsInit ==
    /\ botNumber \in ConfiguredNumbers /\ learnedNumber = NoNumber
    /\ posts = [x \in Texts |-> 0] /\ patience = [x \in Texts |-> "gave_up"]
    /\ requests = <<>> /\ attached = <<>> /\ smsReplies = {}

-----------------------------------------------------------------------------
With(f, q, v) == [r \in DOMAIN f \cup {q} |-> IF r = q THEN v ELSE f[r]]

(* Twilio posts the message, the first time or again; on_message notes the *)
(* number it came to when none is configured, and turns to the media.      *)
Post(x) ==
    /\ patience[x] = "gave_up" /\ posts[x] < MaxPosts
    /\ posts' = [posts EXCEPT ![x] = @ + 1]
    /\ patience' = [patience EXCEPT ![x] = "waiting"]
    /\ learnedNumber' = IF botNumber = NoNumber THEN BotNumberOf[x] ELSE learnedNumber
    /\ requests' = With(requests, <<x, posts[x] + 1>>, "media")
    /\ attached' = With(attached, <<x, posts[x] + 1>>, [got |-> {}, failed |-> {}])
    /\ UNCHANGED <<botNumber, smsReplies>>

(* Mutant of OnMediaError: a failed download ends the message.             *)
OnMediaErrorStop == "raised"

OnMediaError == "media"

(* One media item, fetched and stored or recorded as failed: the others    *)
(* are still tried.                                                        *)
MediaItem(q, i) ==
    /\ requests[q] = "media"
    /\ i \in MediaOf[q[1]] \ (attached[q].got \cup attached[q].failed)
    /\ \/ attached' = [attached EXCEPT ![q].got = @ \cup {i}] /\ UNCHANGED requests
       \/ /\ attached' = [attached EXCEPT ![q].failed = @ \cup {i}]
          /\ requests' = [requests EXCEPT ![q] = OnMediaError]
    /\ UNCHANGED <<botNumber, learnedNumber, posts, patience, smsReplies>>

EnvelopeMade(q) ==
    /\ requests[q] = "media"
    /\ attached[q].got \cup attached[q].failed = MediaOf[q[1]]
    /\ requests' = [requests EXCEPT ![q] = "gateway"]
    /\ UNCHANGED <<botNumber, learnedNumber, posts, patience, attached, smsReplies>>

(* The gateway replies, or drops the message, or cannot be reached.        *)
GatewayDone(q) ==
    /\ requests[q] = "gateway"
    /\ \E next \in {"sending", "responding"} : requests' = [requests EXCEPT ![q] = next]
    /\ UNCHANGED <<botNumber, learnedNumber, posts, patience, attached, smsReplies>>

FromNumber == IF botNumber # NoNumber THEN botNumber ELSE learnedNumber

(* adapter.send: the reply goes out, is refused (429 and the like come     *)
(* back as a result), or the post raises with the reply out or not.        *)
SendReplySms(q) ==
    /\ requests[q] = "sending"
    /\ \/ /\ smsReplies' = smsReplies \cup {[req |-> q, from |-> FromNumber, by |-> "send"]}
          /\ \E next \in {"responding", "raised"} : requests' = [requests EXCEPT ![q] = next]
       \/ /\ \E next \in {"responding", "raised"} : requests' = [requests EXCEPT ![q] = next]
          /\ UNCHANGED smsReplies
    /\ UNCHANGED <<botNumber, learnedNumber, posts, patience, attached>>

(* Mutant of TwimlReplies: the response carries the reply as well.         *)
TwimlRepliesToo(q) == {[req |-> q, from |-> BotNumberOf[q[1]], by |-> "twiml"]}

(* The TwiML is empty.                                                     *)
TwimlReplies(q) == {}

(* The response reaches Twilio; one that comes after Twilio gave up is     *)
(* not heard.                                                              *)
Respond(q) ==
    /\ requests[q] \in {"responding", "raised"}
    /\ requests' = [requests EXCEPT ![q] = "done"]
    /\ LET heard == q[2] = posts[q[1]] /\ patience[q[1]] = "waiting" IN
         /\ patience' = [patience EXCEPT ![q[1]] =
                            IF ~heard THEN @
                            ELSE IF requests[q] = "raised" THEN "gave_up" ELSE "content"]
         /\ smsReplies' = IF heard /\ requests[q] = "responding"
                          THEN smsReplies \cup TwimlReplies(q) ELSE smsReplies
    /\ UNCHANGED <<botNumber, learnedNumber, posts, attached>>

(* The request has taken longer than Twilio waits.                         *)
TwilioGivesUp(x) ==
    /\ patience[x] = "waiting"
    /\ patience' = [patience EXCEPT ![x] = "gave_up"]
    /\ UNCHANGED <<botNumber, learnedNumber, posts, requests, attached, smsReplies>>

SmsNext ==
    \/ \E x \in Texts : Post(x)
    \/ \E q \in DOMAIN requests : \E i \in MediaOf[q[1]] : MediaItem(q, i)
    \/ \E q \in DOMAIN requests : EnvelopeMade(q)
    \/ \E q \in DOMAIN requests : GatewayDone(q)
    \/ \E q \in DOMAIN requests : SendReplySms(q)
    \/ \E q \in DOMAIN requests : Respond(q)
    \/ \E x \in Texts : TwilioGivesUp(x)

SmsSpec == SmsInit /\ [][SmsNext]_smsVars

-----------------------------------------------------------------------------
RepliesTo(x) == {r \in smsReplies : r.req[1] = x}

(* Each posting of a message brings its sender at most one reply: the      *)
(* response to Twilio never carries one besides the one that was sent      *)
(* (webhook.py:140-141).  A message posted twice is answered twice: the    *)
(* acknowledgement that should keep Twilio from posting it again waits for *)
(* the whole exchange, and nothing recognises the second posting.          *)
OneReplyPerPost == \A x \in Texts : Cardinality(RepliesTo(x)) <= posts[x]

(* A message is never lost to its media: once a request is past them, every*)
(* item is either attached or listed as failed, whichever items failed,    *)
(* and no request fails before it has asked the gateway (adapter.py:151-154).*)
MediaAccounted ==
    \A q \in DOMAIN requests :
        /\ attached[q].got \cap attached[q].failed = {}
        /\ requests[q] # "media" => attached[q].got \cup attached[q].failed = MediaOf[q[1]]

(* What the code says (webhook.py:140): it acknowledges "fast so Twilio    *)
(* does not retry", so the sender gets one reply to one message.           *)
OneReplyPerText == \A x \in Texts : Cardinality(RepliesTo(x)) <= 1

=============================================================================
