----------------------------- MODULE AdapterProofs -----------------------------
(***************************************************************************)
(* Theorems about the channel adapters, their pollers, bridges and         *)
(* streams, for any people, mails, webhooks and streams.  Each has an      *)
(* inductive invariant of its own; at the end a behaviour of all of them   *)
(* is shown to be one of each, and what MCChannels says of them together   *)
(* follows.                                                                *)
(***************************************************************************)
EXTENDS MCChannels, ChannelGateProofs, SequenceTheorems, WellFoundedInduction

-----------------------------------------------------------------------------
(* What fifteen adapters let through on_message.                           *)

(* What local_mic sends to be transcribed passed its gate with the trust   *)
(* its speaker had then.                                                   *)
AdapterInv ==
    /\ AdapterTypeOK
    /\ StrangersUnheard
    /\ transcribing # Nothing =>
          /\ transcribing.msg.channel = "local_mic"
          /\ publicChannel =>
                transcribing.was = "owner_paired" \/ transcribing.msg.person \in ListedPersons

(* In public, who passes is known to the store or listed, but where there  *)
(* is no gate; and where all pass, a stranger loses his trust.             *)
LEMMA PassesPublic ==
    ASSUME AdapterTypeOK, publicChannel, NEW msg \in Incoming, Passes(msg)
    PROVE  \/ msg.channel = "webui"
           \/ standing[msg.person] = "owner_paired" \/ msg.person \in ListedPersons
           \/ msg.channel \in {"slack", "imap", "line"} /\ standing[msg.person] = "user_paired"
           \/ msg.channel \in {"twilio_sms", "twilio_voice"} /\ ~KeepsTrust(msg)
<1>1. msg.person \in Persons /\ standing[msg.person] \in Standing
  BY DEF Incoming, AdapterTypeOK
<1> USE <1>1
<1>2. CASE msg.channel = "matrix"
  BY <1>2 DEF Passes, MatrixGate, AllowedBy, IsOwner
<1>3. CASE msg.channel = "slack"
  BY <1>3 DEF Passes, SlackGate, Standing
<1>4. CASE msg.channel = "signal"
  BY <1>4 DEF Passes, SignalGate, AllowedBy, IsOwner
<1>5. CASE msg.channel = "webui"
  BY <1>5
<1>6. CASE msg.channel = "local_mic"
  BY <1>6 DEF Passes, MicGate, AllowedBy, IsOwner
<1>7. CASE msg.channel = "discord"
  BY <1>7 DEF Passes, DiscordGate, AllowedBy, IsOwner
<1>8. CASE msg.channel = "teams"
  BY <1>8 DEF Passes, TeamsGate, AllowedBy, IsOwner
<1>9. CASE msg.channel = "gmail"
  BY <1>9 DEF Passes, GmailGate, AllowedBy, IsOwner
<1>10. CASE msg.channel = "telegram"
  BY <1>10 DEF Passes, TelegramGate, AllowedBy, IsOwner
<1>11. CASE msg.channel = "line"
  BY <1>11 DEF Passes, LineGate, AllowedBy, Standing
<1>12. CASE msg.channel = "whatsapp"
  BY <1>12 DEF Passes, WhatsAppGate, AllowedBy, IsOwner
<1>13. CASE msg.channel = "webhook"
  BY <1>13 DEF Passes, WebhookGate, AllowedBy, IsOwner
<1>14. CASE msg.channel = "imap"
  BY <1>14 DEF Passes, ImapGate, Standing
<1>15. CASE msg.channel = "twilio_sms"
  BY <1>15 DEF KeepsTrust, KeepsTrustOfSms, AllowedBy, IsOwner
<1>16. CASE msg.channel = "twilio_voice"
  BY <1>16 DEF KeepsTrust, KeepsTrustOfCall, AllowedBy, IsOwner
<1>17. msg.channel \in GatedChannels
  BY DEF Incoming
<1> QED
  BY <1>2, <1>3, <1>4, <1>5, <1>6, <1>7, <1>8, <1>9, <1>10, <1>11, <1>12, <1>13, <1>14, <1>15,
     <1>16, <1>17 DEF GatedChannels

LEMMA EnvelopeIs ==
    ASSUME AdapterTypeOK, NEW msg \in Incoming
    PROVE  /\ Envelope(msg) \in Verdicts
           /\ Envelope(msg).msg = msg /\ Envelope(msg).was = standing[msg.person]
           /\ ~KeepsTrust(msg) => Envelope(msg).trust = "untrusted"
<1>1. msg.person \in Persons /\ standing[msg.person] \in Standing
  BY DEF Incoming, AdapterTypeOK
<1> QED BY <1>1 DEF Envelope, Verdicts, Standing

LEMMA AdapterStep == AdapterInv /\ [AdapterNext]_adapterVars => AdapterInv'
<1> SUFFICES ASSUME AdapterInv, [AdapterNext]_adapterVars PROVE AdapterInv'
  OBVIOUS
<1>0. AdapterTypeOK
  BY DEF AdapterInv
<1>1. ASSUME NEW msg \in Incoming, OnMessage(msg) PROVE AdapterInv'
  <2>1. /\ msg.channel # "local_mic" /\ UNCHANGED <<standing, publicChannel, discordConfig, transcribing>>
        /\ surfaced' = IF Passes(msg) THEN Envelope(msg) ELSE Nothing
    BY <1>1 DEF OnMessage
  <2>2. CASE Passes(msg)
    <3>1. surfaced' = Envelope(msg)
      BY <2>1, <2>2
    <3>2. StrangersUnheard'
      BY <1>0, <2>1, <2>2, <3>1, PassesPublic, EnvelopeIs DEF StrangersUnheard
    <3> QED BY <1>0, <2>1, <3>1, <3>2, EnvelopeIs DEF AdapterInv, AdapterTypeOK
  <2>3. CASE ~Passes(msg)
    BY <2>1, <2>3 DEF AdapterInv, AdapterTypeOK, StrangersUnheard
  <2> QED BY <2>2, <2>3
<1>2. ASSUME NEW msg \in Incoming, OnRecording(msg) PROVE AdapterInv'
  <2>1. /\ msg.channel = "local_mic" /\ UNCHANGED <<standing, publicChannel, discordConfig>>
        /\ IF Passes(msg) THEN transcribing' = Envelope(msg) /\ UNCHANGED surfaced
                          ELSE UNCHANGED <<surfaced, transcribing>>
    BY <1>2 DEF OnRecording
  <2>2. CASE Passes(msg)
    <3>1. transcribing' = Envelope(msg) /\ UNCHANGED surfaced
      BY <2>1, <2>2
    <3>2. publicChannel => standing[msg.person] = "owner_paired" \/ msg.person \in ListedPersons
      BY <1>0, <2>1, <2>2, PassesPublic
    <3> QED BY <1>0, <2>1, <3>1, <3>2, EnvelopeIs DEF AdapterInv, AdapterTypeOK, StrangersUnheard
  <2>3. CASE ~Passes(msg)
    BY <2>1, <2>3 DEF AdapterInv, AdapterTypeOK, StrangersUnheard
  <2> QED BY <2>2, <2>3
<1>3. CASE MicTranscribed
  BY <1>3 DEF MicTranscribed, AdapterInv, AdapterTypeOK, StrangersUnheard
<1>4. CASE EnvelopeTaken
  BY <1>4 DEF EnvelopeTaken, AdapterInv, AdapterTypeOK, StrangersUnheard
<1>5. ASSUME NEW p \in Persons, NEW s \in Standing, Pairing(p, s) PROVE AdapterInv'
  BY <1>5 DEF Pairing, AdapterInv, AdapterTypeOK, StrangersUnheard
<1>6. CASE UNCHANGED adapterVars
  BY <1>6 DEF adapterVars, AdapterInv, AdapterTypeOK, StrangersUnheard
<1> QED BY <1>1, <1>2, <1>3, <1>4, <1>5, <1>6 DEF AdapterNext

LEMMA AdapterStart == AdapterInit => AdapterInv
<1> SUFFICES ASSUME AdapterInit PROVE AdapterInv
  OBVIOUS
<1>1. AdapterTypeOK
  BY DEF AdapterInit, AdapterTypeOK, Standing
<1> QED BY <1>1 DEF AdapterInit, AdapterInv, StrangersUnheard

(* An owner who names the bot passes, with his trust.                      *)
LEMMA OwnersPass == OwnerPasses
<1> SUFFICES ASSUME publicChannel, NEW msg \in Incoming,
                    IsOwner(msg), msg.mention, msg.readable, ~msg.bot,
                    msg.channel \notin {"signal", "whatsapp", "twilio_voice"}
             PROVE  Passes(msg) /\ KeepsTrust(msg)
  BY DEF OwnerPasses
<1>1. \A p : AllowedBy(p, TRUE, TRUE, TRUE)
  BY DEF AllowedBy
<1>2. KeepsTrust(msg)
  <2>1. CASE msg.channel = "twilio_sms"
    BY <1>1, <2>1 DEF KeepsTrust, KeepsTrustOfSms
  <2>2. CASE msg.channel # "twilio_sms"
    BY <2>2 DEF KeepsTrust
  <2> QED BY <2>1, <2>2
<1>3. msg.channel \in GatedChannels /\ standing[msg.person] = "owner_paired"
  BY DEF Incoming, IsOwner
<1>4. Passes(msg)
  <2>1. /\ MatrixGate(msg) /\ TeamsGate(msg) /\ GmailGate(msg) /\ MicGate(msg) /\ TelegramGate(msg)
        /\ WebhookGate(msg) /\ LineGate(msg) /\ ImapGate(msg) /\ SlackGate(msg) /\ WebUiGate(msg)
        /\ DiscordGate(msg)
    BY <1>1, <1>3 DEF MatrixGate, TeamsGate, GmailGate, MicGate, TelegramGate, WebhookGate,
                      LineGate, ImapGate, SlackGate, WebUiGate, DiscordGate
  <2> QED BY <1>3, <2>1 DEF Passes, GatedChannels
<1> QED BY <1>2, <1>4


-----------------------------------------------------------------------------
(* The signatures and events of the generic webhook.                       *)

(* Whoever was accepted from a clock that is not ahead is remembered, from *)
(* no sooner than its timestamp, or its timestamp is stale.                *)
HookInv ==
    /\ HookTypeOK
    /\ \A d \in DOMAIN stamp : lead[d] = 0 => stamp[d] <= hookNow
    /\ \A d \in Deliveries \ DOMAIN stamp : acceptedTimes[d] = 0
    /\ adapterKept => \A d \in DOMAIN stamp : lead[d] = 0 =>
          /\ acceptedTimes[d] <= 1
          /\ acceptedTimes[d] = 1 => \/ d \in DOMAIN seenSigs /\ stamp[d] <= seenSigs[d]
                                     \/ hookNow > stamp[d] + ReplayWindow

LEMMA HookStep == HookInv /\ [HookNext]_hookVars => HookInv'
<1> SUFFICES ASSUME HookInv, [HookNext]_hookVars PROVE HookInv'
  OBVIOUS
<1> USE WebhookAssumption
<1>1. ASSUME NEW d \in Deliveries, NEW ahead \in Leads, Sign(d, ahead) PROVE HookInv'
  BY <1>1 DEF HookInv, HookTypeOK, Sign
<1>2. ASSUME NEW d \in Deliveries, ReceiveDelivery(d) PROVE HookInv'
  <2> DEFINE kept == IF adapterKept THEN Swept ELSE <<>>
  <2>1. /\ DOMAIN kept \subseteq DOMAIN seenSigs /\ \A e \in DOMAIN kept : kept[e] = seenSigs[e]
        /\ adapterKept => \A e \in DOMAIN seenSigs \ DOMAIN kept : hookNow - seenSigs[e] > ReplayWindow
    BY DEF Swept, HookInv, HookTypeOK
  <2>2. /\ UNCHANGED <<hookNow, adapterKept, stamp, lead>> /\ d \in DOMAIN stamp
        /\ hookNow <= stamp[d] + ReplayWindow
    BY <1>2 DEF ReceiveDelivery, Fresh, Distance, HookInv, HookTypeOK
  <2> HIDE DEF kept
  <2>3. CASE d \in DOMAIN kept
    <3>1. seenSigs' = kept /\ UNCHANGED acceptedTimes
      BY <1>2, <2>3 DEF ReceiveDelivery, kept
    <3> QED BY <2>1, <2>2, <3>1 DEF HookInv, HookTypeOK
  <2>4. CASE d \notin DOMAIN kept
    <3>1. /\ seenSigs' = [e \in DOMAIN kept \cup {d} |-> IF e = d THEN hookNow ELSE kept[e]]
          /\ acceptedTimes' = [acceptedTimes EXCEPT ![d] = @ + 1]
      BY <1>2, <2>4 DEF ReceiveDelivery, kept
    <3>2. adapterKept /\ lead[d] = 0 => acceptedTimes[d] = 0
      BY <2>1, <2>2, <2>4 DEF HookInv, HookTypeOK
    <3> QED BY <2>1, <2>2, <3>1, <3>2 DEF HookInv, HookTypeOK
  <2> QED BY <2>3, <2>4
<1>3. CASE HookTick
  BY <1>3 DEF HookInv, HookTypeOK, HookTick
<1>4. CASE UNCHANGED hookVars
  BY <1>4 DEF HookInv, HookTypeOK, hookVars
<1> QED BY <1>1, <1>2, <1>3, <1>4 DEF HookNext

LEMMA HookStart == HookInit => HookInv
BY WebhookAssumption DEF HookInit, HookInv, HookTypeOK
LEMMA HookKeeps == HookInv => HookTypeOK /\ KeptAcceptsOnce
BY DEF HookInv, KeptAcceptsOnce


-----------------------------------------------------------------------------
(* The conversations and replies of Teams.                                 *)

(* A reply is under way to a conversation its reader wrote in; a token was *)
(* issued no longer ago than a request takes when it was cached, and one   *)
(* that travels lives for as long as its post may take.                    *)
ReplyInv(reply) ==
    /\ reply.at # "idle" =>
          /\ reply.user \in TeamsUsers /\ reply.conv \in heardIn[reply.user]
          /\ reply.since <= teamsNow /\ teamsNow <= reply.since + RequestTimeout
    /\ reply.at = "minting" => reply.token = reply.since
    /\ reply.at = "posting" => reply.since + RequestTimeout < reply.token + TokenLife

TeamsInv ==
    /\ TeamsTypeOK
    /\ \A u \in TeamsUsers : convCache[u] # Elsewhere => convCache[u] \in heardIn[u]
    /\ tokenCache.expires <= tokenCache.issued + TokenLife + RequestTimeout
    /\ \A r \in TeamsReplies : ReplyInv(replyAt[r])
    /\ lastPost.at = "posting" => lastPost.user \in TeamsUsers
    /\ TokenAliveOnArrival /\ ReachesItsReader

LEMMA TeamsNumbers ==
    /\ TokenLife \in Nat /\ TokenMargin \in Nat /\ RequestTimeout \in Nat /\ TeamsMaxTime \in Nat
    /\ 2 * RequestTimeout <= TokenMargin /\ TokenMargin < TokenLife
BY TeamsAssumption

LEMMA TeamsStart == TeamsInit => TeamsInv
BY TeamsNumbers DEF TeamsInit, TeamsInv, TeamsTypeOK, NoReply, TeamsReply, Times, ReplyInv,
                    TokenAliveOnArrival, ReachesItsReader

(* One reply goes on.                                                      *)
LEMMA ReplyGoesOn ==
    ASSUME TeamsInv, NEW r \in TeamsReplies, NEW next \in TeamsReply, ReplyInv(next),
           replyAt' = [replyAt EXCEPT ![r] = next], UNCHANGED <<teamsNow, convCache, heardIn>>
    PROVE  /\ replyAt' \in [TeamsReplies -> TeamsReply]
           /\ \A q \in TeamsReplies : ReplyInv(replyAt[q])'
BY DEF TeamsInv, TeamsTypeOK, ReplyInv

LEMMA TeamsStep == TeamsInv /\ [TeamsNext]_teamsVars => TeamsInv'
<1> SUFFICES ASSUME TeamsInv, [TeamsNext]_teamsVars PROVE TeamsInv'
  OBVIOUS
<1> USE TeamsNumbers
<1>0. /\ TeamsTypeOK /\ teamsNow \in Nat /\ NoReply \in TeamsReply /\ ReplyInv(NoReply)
      /\ NoReply.at = "idle"
  BY DEF TeamsInv, TeamsTypeOK, Times, NoReply, TeamsReply, ReplyInv
<1>1. ASSUME NEW u \in TeamsUsers, NEW c \in Conversations, Activity(u, c) PROVE TeamsInv'
  <2>1. UNCHANGED <<teamsNow, tokenCache, replyAt, lastPost>>
    BY <1>1 DEF Activity
  <2>2. CASE c \in TrustedConversations
    <3>1. /\ convCache' = [v \in TeamsUsers |-> IF v = u THEN c ELSE convCache[v]]
          /\ heardIn' = [heardIn EXCEPT ![u] = @ \cup {c}]
      BY <1>1, <2>2 DEF Activity, CachedFor
    <3>2. \A v \in TeamsUsers : heardIn[v] \subseteq heardIn'[v]
      BY <1>0, <3>1 DEF TeamsTypeOK
    <3>3. \A q \in TeamsReplies : ReplyInv(replyAt[q])'
      BY <2>1, <3>2 DEF TeamsInv, ReplyInv
    <3> QED BY <1>0, <2>1, <3>1, <3>2, <3>3 DEF TeamsInv, TeamsTypeOK, TokenAliveOnArrival, ReachesItsReader
  <2>3. CASE c \notin TrustedConversations
    BY <1>1, <2>1, <2>3 DEF Activity, TeamsInv, TeamsTypeOK, ReplyInv, TokenAliveOnArrival, ReachesItsReader
  <2> QED BY <2>2, <2>3
<1>2. ASSUME NEW r \in TeamsReplies, NEW u \in TeamsUsers, StartReply(r, u) PROVE TeamsInv'
  <2> DEFINE next == [at |-> "context", user |-> u, conv |-> convCache[u], token |-> 0,
                      since |-> teamsNow]
  <2>1. /\ convCache[u] # Elsewhere /\ replyAt' = [replyAt EXCEPT ![r] = next]
        /\ UNCHANGED <<teamsNow, convCache, tokenCache, heardIn, lastPost>>
    BY <1>2 DEF StartReply
  <2>2. next \in TeamsReply /\ ReplyInv(next)
    BY <1>0, <2>1 DEF TeamsInv, TeamsTypeOK, TeamsReply, Times, ReplyInv
  <2> HIDE DEF next
  <2> QED BY <2>1, <2>2, ReplyGoesOn DEF TeamsInv, TeamsTypeOK, TokenAliveOnArrival, ReachesItsReader
<1>3. ASSUME NEW r \in TeamsReplies, TakeToken(r) PROVE TeamsInv'
  <2> DEFINE next == IF TokenUsable THEN Posting(r, tokenCache.issued)
                     ELSE [replyAt[r] EXCEPT !.at = "minting", !.token = teamsNow]
  <2>1. /\ replyAt[r].at = "context" /\ replyAt[r].since = teamsNow
        /\ replyAt' = [replyAt EXCEPT ![r] = next]
        /\ UNCHANGED <<teamsNow, convCache, tokenCache, heardIn, lastPost>>
    BY <1>3, <1>0 DEF TakeToken, TeamsTypeOK
  <2>2. replyAt[r] \in TeamsReply /\ ReplyInv(replyAt[r])
    BY DEF TeamsInv, TeamsTypeOK
  <2>3. next \in TeamsReply /\ ReplyInv(next)
    <3>1. CASE TokenUsable
      <4>1. next = [replyAt[r] EXCEPT !.at = "posting", !.token = tokenCache.issued, !.since = teamsNow]
        BY <3>1 DEF Posting
      <4>2. teamsNow + RequestTimeout < tokenCache.issued + TokenLife
        BY <1>0, <3>1 DEF TokenUsable, TeamsInv, TeamsTypeOK, Times
      <4>3. tokenCache.issued \in Times /\ teamsNow \in Times
        BY <1>0 DEF TeamsTypeOK
      <4> HIDE DEF next
      <4> QED BY <1>0, <2>1, <2>2, <4>1, <4>2, <4>3 DEF TeamsReply, ReplyInv
    <3>2. CASE ~TokenUsable
      <4>1. next = [replyAt[r] EXCEPT !.at = "minting", !.token = teamsNow]
        BY <3>2
      <4>2. teamsNow \in Times
        BY <1>0 DEF TeamsTypeOK
      <4> HIDE DEF next
      <4> QED BY <1>0, <2>1, <2>2, <4>1, <4>2 DEF TeamsReply, ReplyInv
    <3> QED BY <3>1, <3>2
  <2> HIDE DEF next
  <2> QED BY <2>1, <2>3, ReplyGoesOn DEF TeamsInv, TeamsTypeOK, TokenAliveOnArrival, ReachesItsReader
<1>4. ASSUME NEW r \in TeamsReplies, TokenArrives(r) PROVE TeamsInv'
  <2>1. /\ replyAt[r].at = "minting" /\ UNCHANGED <<teamsNow, convCache, heardIn, lastPost>>
    BY <1>4 DEF TokenArrives
  <2>2. replyAt[r] \in TeamsReply /\ ReplyInv(replyAt[r])
    BY DEF TeamsInv, TeamsTypeOK
  <2>3. CASE /\ tokenCache' = [issued |-> replyAt[r].token, expires |-> teamsNow + TokenLife]
             /\ replyAt' = [replyAt EXCEPT ![r] = Posting(r, @.token)]
    <3> DEFINE next == Posting(r, replyAt[r].token)
    <3>1. replyAt' = [replyAt EXCEPT ![r] = next]
      BY <1>0, <2>3 DEF TeamsTypeOK
    <3>2. next = [replyAt[r] EXCEPT !.at = "posting", !.token = replyAt[r].token, !.since = teamsNow]
      BY DEF Posting
    <3>3. /\ replyAt[r].token \in Times /\ teamsNow \in Times
          /\ teamsNow <= replyAt[r].token + RequestTimeout
      BY <1>0, <2>1, <2>2 DEF TeamsTypeOK, TeamsReply, ReplyInv
    <3> HIDE DEF next
    <3>4. next \in TeamsReply /\ ReplyInv(next)
      <4>1. next \in TeamsReply
        BY <2>2, <3>2, <3>3 DEF TeamsReply
      <4>2. /\ next.at = "posting" /\ next.since = teamsNow /\ next.token = replyAt[r].token
            /\ next.user = replyAt[r].user /\ next.conv = replyAt[r].conv
        BY <2>2, <3>2 DEF TeamsReply
      <4>3. teamsNow + RequestTimeout < replyAt[r].token + TokenLife
        BY <3>3 DEF Times
      <4> QED BY <1>0, <2>1, <2>2, <4>1, <4>2, <4>3 DEF ReplyInv
    <3>5. /\ tokenCache' \in [issued: Times, expires: 0 .. TeamsMaxTime + TokenLife]
          /\ tokenCache'.expires <= tokenCache'.issued + TokenLife + RequestTimeout
      BY <2>3, <3>3 DEF Times
    <3> QED BY <2>1, <3>1, <3>4, <3>5, ReplyGoesOn DEF TeamsInv, TeamsTypeOK, TokenAliveOnArrival, ReachesItsReader
  <2>4. CASE replyAt' = [replyAt EXCEPT ![r] = NoReply] /\ UNCHANGED tokenCache
    BY <1>0, <2>1, <2>4, ReplyGoesOn DEF TeamsInv, TeamsTypeOK, TokenAliveOnArrival, ReachesItsReader
  <2> QED BY <1>4, <2>3, <2>4 DEF TokenArrives
<1>5. ASSUME NEW r \in TeamsReplies, PostArrives(r) PROVE TeamsInv'
  <2>1. /\ replyAt[r].at = "posting" /\ replyAt' = [replyAt EXCEPT ![r] = NoReply]
        /\ lastPost' \in {replyAt[r], lastPost} /\ UNCHANGED <<teamsNow, convCache, tokenCache, heardIn>>
    BY <1>5 DEF PostArrives
  <2>2. replyAt[r] \in TeamsReply /\ ReplyInv(replyAt[r])
    BY DEF TeamsInv, TeamsTypeOK
  <2>3. /\ lastPost' \in TeamsReply /\ TokenAliveOnArrival' /\ ReachesItsReader'
        /\ lastPost'.at = "posting" => lastPost'.user \in TeamsUsers
    BY <1>0, <2>1, <2>2 DEF TeamsInv, TeamsTypeOK, TeamsReply, Times, ReplyInv, TokenAliveOnArrival, ReachesItsReader
  <2> QED BY <1>0, <2>1, <2>3, ReplyGoesOn DEF TeamsInv, TeamsTypeOK
<1>6. CASE TeamsTick
  <2>1. /\ teamsNow < TeamsMaxTime /\ teamsNow' = teamsNow + 1 /\ lastPost' = NoReply
        /\ UNCHANGED <<convCache, tokenCache, replyAt, heardIn>>
        /\ \A r \in TeamsReplies : replyAt[r].at # "idle" => teamsNow < replyAt[r].since + RequestTimeout
    BY <1>6 DEF TeamsTick
  <2>2. \A r \in TeamsReplies : replyAt[r] \in TeamsReply
    BY <1>0 DEF TeamsTypeOK
  <2>3. \A r \in TeamsReplies : ReplyInv(replyAt[r])'
    BY <1>0, <2>1, <2>2 DEF TeamsInv, ReplyInv, TeamsReply, Times
  <2> QED BY <1>0, <2>1, <2>3 DEF TeamsInv, TeamsTypeOK, Times, TokenAliveOnArrival, ReachesItsReader
<1>7. CASE UNCHANGED teamsVars
  BY <1>7 DEF teamsVars, TeamsInv, TeamsTypeOK, ReplyInv, TokenAliveOnArrival, ReachesItsReader
<1> QED BY <1>1, <1>2, <1>3, <1>4, <1>5, <1>6, <1>7 DEF TeamsNext


-----------------------------------------------------------------------------
(* The LINE bridge: a delivery is begun once, and its token used once.     *)

(* The events a webhook has come to, and what follows from being at one.   *)
Begun == {e \in LineEvents : \E w \in Webhooks : \E i \in 1 .. Len(EventsOf[w]) :
             /\ e = EventsOf[w][i]
             /\ i < hook[w].at \/ (i = hook[w].at /\ hook[w].wait # "unread")}

AtEvent(w) ==
    /\ hook[w].wait # "over" => hook[w].at \in 1 .. Len(EventsOf[w])
    /\ hook[w].wait = "ack" => Event(w) \notin strangers \cup refusedAcks \cup agentAsked
    /\ hook[w].wait \in {"agent", "answer"} => Event(w) \in agentAsked

(* A token in the table is its user's and no message carries it.           *)
KeptToken(u) ==
    /\ tokens[u] \in [event: lineReceived, end: Nat] /\ SenderOf[tokens[u].event] = u
    /\ \A m \in lineSent : m.token = tokens[u].event => m.token = Push

(* What a delivery brought is sent once at most, to the user it came from. *)
DeliveryTokenOnce ==
    \A m \in lineSent : m.token # Push =>
        /\ SenderOf[m.token] = SenderOf[m.event]
        /\ \A n \in lineSent : n.token = m.token => n = m

LineInv ==
    /\ lineNow \in 0 .. LineMaxTime /\ linePublic \in BOOLEAN /\ linePaired \subseteq LineUsers
    /\ hook \in [Webhooks -> [at: Nat \ {0}, wait: Waits]]
    /\ \A w \in Webhooks : hook[w].at <= Len(EventsOf[w]) + 1 /\ AtEvent(w)
    /\ DOMAIN tokens \subseteq LineUsers /\ \A u \in DOMAIN tokens : KeptToken(u)
    /\ lineReceived \subseteq Begun /\ IsFiniteSet(lineReceived)
    /\ lineSent \subseteq [event: LineEvents, kind: Kinds, token: lineReceived \cup {Push}]
    /\ strangers \cup refusedAcks \cup agentAsked \subseteq Begun
    /\ DeliveryTokenOnce /\ AgentOnlyAfterAck

LEMMA EventsAre ==
    ASSUME NEW w \in Webhooks
    PROVE  /\ Len(EventsOf[w]) \in Nat \ {0} /\ DOMAIN EventsOf[w] = 1 .. Len(EventsOf[w])
           /\ \A i \in 1 .. Len(EventsOf[w]) :
                /\ EventsOf[w][i] \in LineEvents
                /\ SenderOf[EventsOf[w][i]] \in LineUsers
           /\ \A v \in Webhooks : \A i \in 1 .. Len(EventsOf[w]), j \in 1 .. Len(EventsOf[v]) :
                EventsOf[w][i] = EventsOf[v][j] => w = v /\ i = j
<1>1. \A v \in Webhooks : /\ Len(EventsOf[v]) \in Nat \ {0}
                          /\ DOMAIN EventsOf[v] = 1 .. Len(EventsOf[v])
  <2> TAKE v \in Webhooks
  <2> DEFINE S == {EventsOf[v][i] : i \in DOMAIN EventsOf[v]}
  <2>1. EventsOf[v] \in Seq(S) /\ Len(EventsOf[v]) > 0
    BY LineAssumption
  <2> HIDE DEF S
  <2> QED BY <2>1
<1>2. \A i \in DOMAIN EventsOf[w] : EventsOf[w][i] \in LineEvents
  BY DEF LineEvents
<1>3. SenderOf \in [LineEvents -> LineUsers]
  BY LineAssumption
<1> QED BY <1>1, <1>2, <1>3, LineAssumption

LEMMA LineStart == LineInit => LineInv
<1> SUFFICES ASSUME LineInit PROVE LineInv
  OBVIOUS
<1>1. \A w \in Webhooks : hook[w] = [at |-> 1, wait |-> "unread"] /\ Len(EventsOf[w]) \in Nat \ {0}
  BY EventsAre DEF LineInit
<1>2. \A w \in Webhooks : hook[w].at <= Len(EventsOf[w]) + 1 /\ AtEvent(w)
  BY <1>1 DEF AtEvent
<1>3. DeliveryTokenOnce /\ AgentOnlyAfterAck
  BY DEF LineInit, DeliveryTokenOnce, AgentOnlyAfterAck
<1> QED BY <1>2, <1>3, LineAssumption, FS_EmptySet DEF LineInit, LineInv, Waits

WentOn(w, next) ==
    /\ Begun \subseteq Begun' /\ lineReceived \subseteq lineReceived' /\ lineReceived' \subseteq Begun'
    /\ IsFiniteSet(lineReceived')
    /\ strangers' \cup refusedAcks' \cup agentAsked' \subseteq Begun'
    /\ Event(w) = EventsOf[w][hook[w].at] /\ Event(w) \in Begun' /\ Event(w) \in LineEvents
    /\ SenderOf[Event(w)] \in LineUsers
    /\ hook[w].wait = "unread" => Event(w) \notin Begun
    /\ hook' \in [Webhooks -> [at: Nat \ {0}, wait: Waits]] /\ hook'[w] = next
    /\ \A v \in Webhooks : hook'[v].at <= Len(EventsOf[v]) + 1
    /\ \A v \in Webhooks \ {w} :
          /\ hook'[v] = hook[v] /\ Event(v)' = Event(v) /\ AtEvent(v)'
          /\ hook[v].wait # "over" => Event(v) # Event(w)

(* What is kept and what was sent after a step.                            *)
SentSoundly ==
    /\ DOMAIN tokens' \subseteq LineUsers /\ \A u \in DOMAIN tokens' : KeptToken(u)'
    /\ lineSent' \subseteq [event: LineEvents, kind: Kinds, token: lineReceived' \cup {Push}]
    /\ DeliveryTokenOnce' /\ \A m \in lineSent' : m.kind = "answer" => m.event \in agentAsked'

Moved(w, next) == hook' = [hook EXCEPT ![w] = next]
Following(w) ==
    [at |-> hook[w].at + 1, wait |-> IF hook[w].at < Len(EventsOf[w]) THEN "unread" ELSE "over"]
Waiting(w, wait) == [at |-> hook[w].at, wait |-> wait]
Fallen(w) == [at |-> Len(EventsOf[w]) + 1, wait |-> "over"]

LEMMA HookMoves ==
    ASSUME hook \in [Webhooks -> [at: Nat \ {0}, wait: Waits]], NEW w \in Webhooks, NEW wait \in Waits
    PROVE  /\ Following(w) \in [at: Nat \ {0}, wait: Waits]
           /\ Waiting(w, wait) \in [at: Nat \ {0}, wait: Waits]
           /\ NextEvent(w) => Moved(w, Following(w))
           /\ Go(w, wait) => Moved(w, Waiting(w, wait))
           /\ Fallen(w) \in [at: Nat \ {0}, wait: Waits]
           /\ Following(w).at = hook[w].at + 1
           /\ Following(w).wait = IF hook[w].at < Len(EventsOf[w]) THEN "unread" ELSE "over"
           /\ Waiting(w, wait).at = hook[w].at /\ Waiting(w, wait).wait = wait
           /\ Fallen(w).at = Len(EventsOf[w]) + 1 /\ Fallen(w).wait = "over"
<1>1. hook[w] \in [at: Nat \ {0}, wait: Waits] /\ Len(EventsOf[w]) \in Nat
  BY EventsAre
<1>2. Go(w, wait) => Moved(w, Waiting(w, wait))
  <2>1. [hook[w] EXCEPT !.wait = wait] = Waiting(w, wait)
    BY <1>1 DEF Waiting
  <2>2. Go(w, wait) => hook' = [hook EXCEPT ![w] = [hook[w] EXCEPT !.wait = wait]]
    BY DEF Go
  <2> QED BY <2>1, <2>2 DEF Moved
<1> QED BY <1>1, <1>2 DEF NextEvent, Following, Waiting, Fallen, Waits, Moved

(* A webhook that goes on passes no event by, and leaves the others where  *)
(* they are.                                                               *)
LEMMA HookGoesOn ==
    ASSUME LineInv, NEW w \in Webhooks, hook[w].wait # "over",
           NEW next \in [at: Nat \ {0}, wait: Waits],
           Moved(w, next),
           next.at > hook[w].at \/ (next.at = hook[w].at /\ next.wait # "unread"),
           next.at <= Len(EventsOf[w]) + 1,
           lineReceived' \in {lineReceived, lineReceived \cup {Event(w)}},
           strangers' \in {strangers, strangers \cup {Event(w)}},
           refusedAcks' \in {refusedAcks, refusedAcks \cup {Event(w)}},
           agentAsked' \in {agentAsked, agentAsked \cup {Event(w)}}
    PROVE  WentOn(w, next)
<1> USE DEF WentOn, Moved
<1>1. /\ hook \in [Webhooks -> [at: Nat \ {0}, wait: Waits]]
      /\ \A v \in Webhooks : hook[v].wait # "over" => hook[v].at \in 1 .. Len(EventsOf[v])
      /\ \A v \in Webhooks : hook[v].at <= Len(EventsOf[v]) + 1
  BY DEF LineInv, AtEvent
<1>2. hook'[w] = next /\ \A v \in Webhooks \ {w} : hook'[v] = hook[v]
  BY <1>1
<1>3. Begun \subseteq Begun'
  BY <1>1, <1>2 DEF Begun
<1>4. hook[w].at \in 1 .. Len(EventsOf[w])
  BY <1>1
<1>5. Event(w) \in Begun'
  BY <1>1, <1>2, <1>4, EventsAre DEF Begun, Event
<1>6. hook[w].wait = "unread" => Event(w) \notin Begun
  BY <1>1, <1>4, EventsAre DEF Begun, Event
<1>7. \A v \in Webhooks \ {w} : Event(v)' = Event(v) /\ (hook[v].wait # "over" => Event(v) # Event(w))
  BY <1>1, <1>2, <1>4, EventsAre DEF Event
<1>8. Event(w) \in LineEvents /\ SenderOf[Event(w)] \in LineUsers
  BY <1>4, EventsAre DEF Event
<1>9. \A v \in Webhooks \ {w} : AtEvent(v)'
  BY <1>1, <1>2, <1>7 DEF LineInv, AtEvent
<1>10. strangers' \cup refusedAcks' \cup agentAsked' \subseteq Begun'
  BY <1>3, <1>5 DEF LineInv
<1>11. lineReceived \subseteq lineReceived' /\ lineReceived' \subseteq Begun' /\ IsFiniteSet(lineReceived')
  <2>1. lineReceived \subseteq Begun /\ IsFiniteSet(lineReceived)
    BY DEF LineInv
  <2>2. IsFiniteSet(lineReceived \cup {Event(w)})
    BY <2>1, FS_AddElement
  <2> QED BY <1>3, <1>5, <2>1, <2>2
<1> QED BY <1>1, <1>2, <1>3, <1>5, <1>6, <1>7, <1>8, <1>9, <1>10, <1>11 DEF Event

(* What a send does to the tokens and the messages, from a table in which  *)
(* each token is its user's and unused.                                    *)
LEMMA SentOnce ==
    ASSUME LineInv, lineReceived \subseteq lineReceived', NEW kept, NEW e \in LineEvents, NEW kind \in Kinds,
           SendFrom(kept, e, kind), UNCHANGED agentAsked, kind = "answer" => e \in agentAsked,
           DOMAIN kept \subseteq LineUsers, SenderOf[e] \in LineUsers,
           \A u \in DOMAIN kept :
              /\ kept[u] \in [event: lineReceived', end: Nat] /\ SenderOf[kept[u].event] = u
              /\ \A m \in lineSent : m.token = kept[u].event => m.token = Push
    PROVE  SentSoundly
<1> USE DEF SentSoundly
<1> DEFINE user == SenderOf[e]
           good == user \in DOMAIN kept /\ kept[user].end >= lineNow
           new  == [event |-> e, kind |-> kind, token |-> IF good THEN kept[user].event ELSE Push]
<1>1. lineSent' = lineSent \cup {new} /\ tokens' = [v \in DOMAIN kept \ {user} |-> kept[v]]
  BY DEF SendFrom, TokensAfter
<1>2. /\ new \in [event: LineEvents, kind: Kinds, token: lineReceived' \cup {Push}]
      /\ new.event = e /\ new.kind = kind
      /\ new.token # Push => user \in DOMAIN kept /\ new.token = kept[user].event
  OBVIOUS
<1> HIDE DEF new, good
<1>3. lineSent' \subseteq [event: LineEvents, kind: Kinds, token: lineReceived' \cup {Push}]
  BY <1>1, <1>2 DEF LineInv
<1>4. DeliveryTokenOnce'
  BY <1>1, <1>2 DEF LineInv, DeliveryTokenOnce
<1>5. \A u \in DOMAIN tokens' : KeptToken(u)'
  BY <1>1, <1>2 DEF KeptToken
<1>6. \A m \in lineSent' : m.kind = "answer" => m.event \in agentAsked'
  BY <1>1, <1>2 DEF LineInv, AgentOnlyAfterAck
<1> QED BY <1>1, <1>3, <1>4, <1>5, <1>6

(* A step that sends nothing and keeps the table.                          *)
LEMMA NoneSent ==
    ASSUME LineInv, lineReceived \subseteq lineReceived', UNCHANGED <<tokens, lineSent>>, agentAsked \subseteq agentAsked'
    PROVE  SentSoundly
BY DEF SentSoundly, LineInv, KeptToken, DeliveryTokenOnce, AgentOnlyAfterAck

LEMMA LineStep == LineInv /\ [LineNext]_lineVars => LineInv'
<1> SUFFICES ASSUME LineInv, [LineNext]_lineVars PROVE LineInv'
  OBVIOUS
<1> USE DEF WentOn, SentSoundly
<1>0. /\ hook \in [Webhooks -> [at: Nat \ {0}, wait: Waits]]
      /\ agentAsked \cap (strangers \cup refusedAcks) = {}
      /\ \A v \in Webhooks : AtEvent(v) /\ (hook[v].wait # "over" => hook[v].at \in 1 .. Len(EventsOf[v]))
      /\ \A v \in Webhooks : Len(EventsOf[v]) \in Nat
  BY EventsAre DEF LineInv, AtEvent, AgentOnlyAfterAck
<1>1. ASSUME NEW w \in Webhooks, ReceiveEvent(w) PROVE LineInv'
  <2> DEFINE e == Event(w)
             u == SenderOf[e]
             kept == [v \in DOMAIN tokens \cup {u} |->
                        IF v = u THEN [event |-> e, end |-> lineNow + TokenTtl] ELSE tokens[v]]
  <2>1. /\ hook[w].wait = "unread"
        /\ lineReceived' = lineReceived \cup {Event(w)}
        /\ UNCHANGED <<lineNow, linePublic, linePaired, refusedAcks, agentAsked>>
    BY <1>1 DEF ReceiveEvent, At
  <2>2. ASSUME NEW x \in [at: Nat \ {0}, wait: Waits], Moved(w, x),
               x.at > hook[w].at \/ (x.at = hook[w].at /\ x.wait # "unread"), x.at <= Len(EventsOf[w]) + 1,
               x.wait # "over" => x.at \in 1 .. Len(EventsOf[w]),
               \/ x.wait = "ack" /\ x.at = hook[w].at /\ strangers' = strangers
               \/ x.wait \in {"notice", "unread", "over"} /\ strangers' = strangers \cup {e},
               \/ tokens' = kept /\ UNCHANGED lineSent
               \/ SendFrom(kept, e, "ack") \/ SendFrom(kept, e, "not_paired")
        PROVE  LineInv'
    <3>1. WentOn(w, x)
      BY <1>0, <2>1, <2>2, HookGoesOn
    <3>2. /\ DOMAIN kept \subseteq LineUsers
          /\ \A v \in DOMAIN kept :
                /\ kept[v] \in [event: lineReceived', end: Nat] /\ SenderOf[kept[v].event] = v
                /\ \A m \in lineSent : m.token = kept[v].event => m.token = Push
      <4>1. lineNow + TokenTtl \in Nat
        BY LineAssumption DEF LineInv
      <4>2. \A m \in lineSent : m.token # e \/ m.token = Push
        BY <2>1, <3>1 DEF LineInv
      <4> QED BY <2>1, <3>1, <4>1, <4>2 DEF LineInv, KeptToken
    <3> HIDE DEF kept
    <3>3. SentSoundly
      <4>1. CASE SendFrom(kept, e, "ack") \/ SendFrom(kept, e, "not_paired")
        BY <2>1, <3>1, <3>2, <4>1, SentOnce DEF Kinds
      <4>2. CASE tokens' = kept /\ UNCHANGED lineSent
        BY <2>1, <3>1, <3>2, <4>2 DEF LineInv, KeptToken, DeliveryTokenOnce, AgentOnlyAfterAck
      <4> QED BY <2>2, <4>1, <4>2
    <3>4. AtEvent(w)'
      BY <1>0, <2>1, <2>2, <3>1 DEF AtEvent, LineInv, Event
    <3>5. AgentOnlyAfterAck'
      BY <1>0, <2>1, <2>2, <3>1, <3>3 DEF LineInv, AgentOnlyAfterAck
    <3> QED BY <2>1, <3>1, <3>3, <3>4, <3>5 DEF LineInv
  <2>0. /\ Following(w) \in [at: Nat \ {0}, wait: Waits] /\ Fallen(w) \in [at: Nat \ {0}, wait: Waits]
        /\ NextEvent(w) => Moved(w, Following(w))
        /\ Following(w).at = hook[w].at + 1
        /\ Following(w).wait = IF hook[w].at < Len(EventsOf[w]) THEN "unread" ELSE "over"
        /\ Fallen(w).at = Len(EventsOf[w]) + 1 /\ Fallen(w).wait = "over"
    BY <1>0, HookMoves DEF Waits
  <2>4. hook[w].at \in 1 .. Len(EventsOf[w]) /\ Len(EventsOf[w]) \in Nat
    BY <1>0, <2>1
  <2> HIDE DEF kept, u, e
  <2>5. CASE SendFrom(kept, e, "ack") /\ Go(w, "ack") /\ UNCHANGED strangers
    BY <1>0, <2>1, <2>2, <2>4, <2>5, HookMoves DEF Waits
  <2>6. CASE SendFrom(kept, e, "not_paired") /\ Go(w, "notice") /\ strangers' = strangers \cup {e}
    BY <1>0, <2>1, <2>2, <2>4, <2>6, HookMoves DEF Waits
  <2>7. CASE tokens' = kept /\ NextEvent(w) /\ strangers' = strangers \cup {e} /\ UNCHANGED lineSent
    BY <2>0, <2>1, <2>2, <2>4, <2>7
  <2> QED BY <1>1, <2>5, <2>6, <2>7 DEF ReceiveEvent, kept, u, e
<1>2. ASSUME NEW w \in Webhooks, NoticeDone(w) \/ AnswerDone(w) \/ SendRaises(w) \/ AckDone(w) PROVE LineInv'
  <2>1. /\ hook[w].wait \in {"notice", "answer", "ack"}
        /\ UNCHANGED <<lineNow, linePublic, linePaired, tokens, lineReceived, lineSent, strangers>>
    BY <1>2 DEF NoticeDone, AnswerDone, SendRaises, AckDone, At
  <2>2. ASSUME NEW x \in [at: Nat \ {0}, wait: Waits], Moved(w, x),
               x.at <= Len(EventsOf[w]) + 1, x.wait # "over" => x.at \in 1 .. Len(EventsOf[w]),
               \/ /\ x.at > hook[w].at /\ x.wait \in {"unread", "over"} /\ UNCHANGED agentAsked
                  /\ refusedAcks' \in {refusedAcks, refusedAcks \cup {Event(w)}}
                  /\ refusedAcks' = refusedAcks \/ hook[w].wait = "ack"
               \/ /\ x.at = hook[w].at /\ x.wait = "agent" /\ hook[w].wait = "ack" /\ UNCHANGED refusedAcks
                  /\ agentAsked' = agentAsked \cup {Event(w)}
        PROVE  LineInv'
    <3>1. WentOn(w, x)
      BY <1>0, <2>1, <2>2, HookGoesOn
    <3>2. SentSoundly
      BY <2>1, <2>2, <3>1, NoneSent
    <3>3. AtEvent(w)'
      BY <1>0, <2>1, <2>2, <3>1 DEF AtEvent, LineInv, Event
    <3>4. AgentOnlyAfterAck'
      <4>1. hook[w].wait = "ack" => Event(w) \notin strangers \cup refusedAcks \cup agentAsked
        BY <1>0 DEF AtEvent
      <4> QED BY <1>0, <2>1, <2>2, <3>2, <4>1 DEF AgentOnlyAfterAck
    <3> QED BY <2>1, <3>1, <3>2, <3>3, <3>4 DEF LineInv
  <2>0. /\ Following(w) \in [at: Nat \ {0}, wait: Waits] /\ Fallen(w) \in [at: Nat \ {0}, wait: Waits]
        /\ NextEvent(w) => Moved(w, Following(w))
        /\ Following(w).at = hook[w].at + 1
        /\ Following(w).wait = IF hook[w].at < Len(EventsOf[w]) THEN "unread" ELSE "over"
        /\ Fallen(w).at = Len(EventsOf[w]) + 1 /\ Fallen(w).wait = "over"
    BY <1>0, HookMoves DEF Waits
  <2>4. hook[w].at \in 1 .. Len(EventsOf[w]) /\ Len(EventsOf[w]) \in Nat
    BY <1>0, <2>1
  <2>5. CASE /\ NextEvent(w) /\ agentAsked' = agentAsked
             /\ \/ refusedAcks' = refusedAcks
                \/ hook[w].wait = "ack" /\ refusedAcks' = refusedAcks \cup {Event(w)}
    BY <2>0, <2>2, <2>4, <2>5
  <2>6. CASE SendRaises(w)
    <3>1. Moved(w, Fallen(w)) /\ UNCHANGED <<refusedAcks, agentAsked>>
      BY <2>6 DEF SendRaises, Moved, Fallen
    <3> QED BY <1>0, <2>2, <2>4, <3>1, <2>0
  <2>7. CASE /\ hook[w].wait = "ack" /\ Go(w, "agent") /\ UNCHANGED refusedAcks
             /\ agentAsked' = agentAsked \cup {Event(w)}
    BY <1>0, <2>2, <2>4, <2>7, HookMoves DEF Waits
  <2>8. CASE AckDone(w)
    <3>1. PICK status \in {200, 400, 429} :
             /\ refusedAcks' = IF status = 429 THEN refusedAcks \cup {Event(w)} ELSE refusedAcks
             /\ IF GoesOn(status)
                THEN Go(w, "agent") /\ agentAsked' = agentAsked \cup {Event(w)}
                ELSE NextEvent(w) /\ UNCHANGED agentAsked
      BY <2>8 DEF AckDone
    <3> QED BY <2>5, <2>7, <2>8, <3>1 DEF GoesOn, AckDone, At
  <2>9. CASE NoticeDone(w) \/ AnswerDone(w)
    <3>1. NextEvent(w) /\ refusedAcks' = refusedAcks /\ agentAsked' = agentAsked
      BY <2>9 DEF NoticeDone, AnswerDone
    <3> QED BY <2>5, <3>1
  <2> QED BY <1>2, <2>6, <2>8, <2>9
<1>3. ASSUME NEW w \in Webhooks, AgentDone(w) PROVE LineInv'
  <2> DEFINE x == Waiting(w, "answer")
  <2>1. /\ hook[w].wait = "agent" /\ SendFrom(tokens, Event(w), "answer")
        /\ UNCHANGED <<lineNow, linePublic, linePaired, lineReceived, refusedAcks, strangers, agentAsked>>
        /\ x \in [at: Nat \ {0}, wait: Waits] /\ Moved(w, x)
        /\ x.at = hook[w].at /\ x.wait = "answer"
    BY <1>0, <1>3, HookMoves DEF AgentDone, At, Waits
  <2>0. hook[w].at \in 1 .. Len(EventsOf[w]) /\ Len(EventsOf[w]) \in Nat
    BY <1>0, <2>1
  <2> HIDE DEF x
  <2>2. WentOn(w, x)
    BY <1>0, <2>0, <2>1, HookGoesOn
  <2>3. Event(w) \in agentAsked
    BY <1>0, <2>1 DEF AtEvent
  <2>4. SentSoundly
    BY <2>1, <2>2, <2>3, SentOnce DEF LineInv, KeptToken, Kinds
  <2>5. AtEvent(w)'
    BY <1>0, <2>1, <2>2, <2>3 DEF AtEvent, Event
  <2>6. AgentOnlyAfterAck'
    BY <1>0, <2>1, <2>4 DEF AgentOnlyAfterAck
  <2> QED BY <2>1, <2>2, <2>4, <2>5, <2>6 DEF LineInv
<1>4. CASE LineElsewhere \/ UNCHANGED lineVars
  <2>1. /\ UNCHANGED <<linePublic, hook, tokens, lineReceived, lineSent, refusedAcks, strangers, agentAsked>>
        /\ lineNow' \in 0 .. LineMaxTime /\ linePaired' \subseteq LineUsers
    BY <1>4, LineAssumption DEF LineElsewhere, lineVars, LineInv
  <2>2. Begun' = Begun
    BY <2>1 DEF Begun
  <2> QED BY <2>1, <2>2 DEF LineInv, AtEvent, KeptToken, Event, DeliveryTokenOnce, AgentOnlyAfterAck
<1> QED BY <1>1, <1>2, <1>3, <1>4 DEF LineNext

(* Each use of a token stands for a delivery that brought it.              *)
LEMMA TokenUses == LineInv => TokenOncePerDelivery
<1> SUFFICES ASSUME LineInv, NEW d \in LineEvents
             PROVE  Cardinality({m \in lineSent : m.token # Push /\ TokenOf[m.token] = TokenOf[d]})
                      <= Cardinality({e \in lineReceived : TokenOf[e] = TokenOf[d]})
  BY DEF LineInv, DeliveryTokenOnce, TokenOncePerDelivery
<1> DEFINE sendings == {m \in lineSent : m.token # Push /\ TokenOf[m.token] = TokenOf[d]}
           from == {e \in lineReceived : TokenOf[e] = TokenOf[d]}
           f == [m \in sendings |-> m.token]
<1>1. f \in Injection(sendings, from)
  <2>1. \A m \in sendings : m.token \in from
    BY DEF LineInv
  <2>2. \A m, n \in sendings : m.token = n.token => m = n
    BY DEF LineInv, DeliveryTokenOnce
  <2> QED BY <2>1, <2>2 DEF Injection, IsInjective
<1>2. IsFiniteSet(from)
  BY FS_Subset DEF LineInv
<1> HIDE DEF sendings, from
<1>3. Cardinality(sendings) <= Cardinality(from)
  BY <1>1, <1>2, FS_Injection
<1> QED BY <1>3 DEF sendings, from

LEMMA LineKeeps == LineInv => LineTypeOK /\ TokenOncePerDelivery /\ AgentOnlyAfterAck
<1> SUFFICES ASSUME LineInv PROVE LineTypeOK
  BY TokenUses DEF LineInv
<1>1. Begun \subseteq LineEvents
  BY DEF Begun
<1>2. \A w \in Webhooks : hook[w].at \in 1 .. Len(EventsOf[w]) + 1 /\ hook[w].wait \in Waits
  BY EventsAre DEF LineInv
<1> QED BY <1>1, <1>2 DEF LineInv, LineTypeOK, KeptToken


-----------------------------------------------------------------------------
(* The texts of Twilio and their media.                                    *)

(* Each request got its sender one reply, and none before its last stages; *)
(* the bot's number is known once there is a request.                      *)
SmsInv ==
    /\ SmsTypeOK /\ MediaAccounted
    /\ \A q \in DOMAIN requests :
          /\ q[2] <= posts[q[1]] /\ attached[q] \in [got: SUBSET MediaOf[q[1]], failed: SUBSET MediaOf[q[1]]]
          /\ botNumber = NoNumber => learnedNumber # NoNumber
    /\ \A r, s \in smsReplies :
          /\ r.req \in DOMAIN requests /\ requests[r.req] \in {"responding", "raised", "done"}
          /\ r.req = s.req => r = s

LEMMA SmsStart == SmsInit => SmsInv
BY SmsAssumption DEF SmsInit, SmsInv, SmsTypeOK, MediaAccounted

LEMMA SmsStep == SmsInv /\ [SmsNext]_smsVars => SmsInv'
<1> SUFFICES ASSUME SmsInv, [SmsNext]_smsVars PROVE SmsInv'
  OBVIOUS
<1> USE SmsAssumption
<1>0. /\ DOMAIN requests \subseteq SmsPosts /\ posts \in [Texts -> 0 .. MaxPosts]
      /\ DOMAIN attached = DOMAIN requests /\ \A q \in DOMAIN requests : q[1] \in Texts /\ requests[q] \in Stages
  BY DEF SmsInv, SmsTypeOK, SmsPosts
<1>1. ASSUME NEW x \in Texts, Post(x) PROVE SmsInv'
  <2> DEFINE new == <<x, posts[x] + 1>>
  <2>1. /\ posts[x] < MaxPosts /\ posts' = [posts EXCEPT ![x] = @ + 1]
        /\ patience' = [patience EXCEPT ![x] = "waiting"]
        /\ learnedNumber' = IF botNumber = NoNumber THEN BotNumberOf[x] ELSE learnedNumber
        /\ requests' = [r \in DOMAIN requests \cup {new} |-> IF r = new THEN "media" ELSE requests[r]]
        /\ attached' = [r \in DOMAIN attached \cup {new} |->
                           IF r = new THEN [got |-> {}, failed |-> {}] ELSE attached[r]]
        /\ UNCHANGED <<botNumber, smsReplies>>
    BY <1>1 DEF Post, With
  <2>2. new \in SmsPosts /\ new[1] = x /\ new[2] = posts[x] + 1 /\ new \notin DOMAIN requests
    BY <1>0, <2>1 DEF SmsPosts, SmsInv
  <2> HIDE DEF new
  <2>3. posts' \in [Texts -> 0 .. MaxPosts] /\ \A y \in Texts : posts[y] <= posts'[y]
        /\ posts'[x] = posts[x] + 1
    BY <1>0, <2>1
  <2>4. /\ DOMAIN requests' = DOMAIN requests \cup {new} /\ requests'[new] = "media"
        /\ DOMAIN attached' = DOMAIN requests' /\ attached'[new] = [got |-> {}, failed |-> {}]
        /\ \A q \in DOMAIN requests : requests'[q] = requests[q] /\ attached'[q] = attached[q]
    BY <1>0, <2>1, <2>2
  <2>5. BotNumberOf[x] \in BotNumbers /\ BotNumberOf[x] # NoNumber
    BY DEF BotNumbers
  <2>6. \A q \in DOMAIN requests' : q[2] <= posts'[q[1]]
    BY <1>0, <2>2, <2>3, <2>4 DEF SmsInv, SmsPosts
  <2>7. SmsTypeOK'
    BY <1>0, <2>1, <2>2, <2>3, <2>4, <2>5 DEF SmsInv, SmsTypeOK, Stages
  <2>8. MediaAccounted'
    BY <2>2, <2>4 DEF SmsInv, MediaAccounted
  <2> QED BY <2>1, <2>2, <2>4, <2>5, <2>6, <2>7, <2>8 DEF SmsInv
<1>2. ASSUME NEW q \in DOMAIN requests, NEW i \in MediaOf[q[1]], MediaItem(q, i) PROVE SmsInv'
  <2>1. /\ requests[q] = "media" /\ UNCHANGED <<botNumber, learnedNumber, posts, patience, smsReplies>>
        /\ i \notin attached[q].got \cup attached[q].failed 
        /\ DOMAIN requests' = DOMAIN requests /\ \A p \in DOMAIN requests : requests'[p] = requests[p]
        /\ \/ attached' = [attached EXCEPT ![q].got = @ \cup {i}]
           \/ attached' = [attached EXCEPT ![q].failed = @ \cup {i}]
    BY <1>2 DEF MediaItem, OnMediaError, SmsInv, SmsTypeOK
  <2>2. /\ DOMAIN attached' = DOMAIN attached /\ \A p \in DOMAIN attached \ {q} : attached'[p] = attached[p]
        /\ attached'[q] \in [got: SUBSET MediaOf[q[1]], failed: SUBSET MediaOf[q[1]]]
        /\ attached'[q].got \cap attached'[q].failed = {}
    BY <1>0, <2>1 DEF SmsInv, MediaAccounted
  <2>3. MediaAccounted'
    BY <1>0, <2>1, <2>2 DEF SmsInv, MediaAccounted
  <2> QED BY <1>0, <2>1, <2>2, <2>3 DEF SmsInv, SmsTypeOK
<1>3. ASSUME NEW q \in DOMAIN requests, NEW next \in Stages, next # "media",
             requests' = [requests EXCEPT ![q] = next],
             UNCHANGED <<botNumber, learnedNumber, posts, attached>>,
             patience' \in [Texts -> {"waiting", "gave_up", "content"}],
             attached[q].got \cup attached[q].failed = MediaOf[q[1]],
             \/ smsReplies' = smsReplies /\ (requests[q] \in {"responding", "raised", "done"} =>
                                                  next \in {"responding", "raised", "done"})
             \/ /\ requests[q] \notin {"responding", "raised", "done"} /\ next \in {"responding", "raised"}
                /\ smsReplies' = smsReplies \cup {[req |-> q, from |-> FromNumber, by |-> "send"]}
      PROVE  SmsInv'
  <2>1. /\ DOMAIN requests' = DOMAIN requests /\ requests'[q] = next
        /\ \A p \in DOMAIN requests \ {q} : requests'[p] = requests[p]
    BY <1>3
  <2>2. FromNumber \in BotNumbers
    BY DEF FromNumber, SmsInv, SmsTypeOK
  <2>3. MediaAccounted'
    BY <1>3, <2>1 DEF SmsInv, MediaAccounted
  <2>4. SmsTypeOK'
    BY <1>0, <1>3, <2>1, <2>2 DEF SmsInv, SmsTypeOK
  <2>5. \A r, s \in smsReplies' :
           /\ r.req \in DOMAIN requests' /\ requests'[r.req] \in {"responding", "raised", "done"}
           /\ r.req = s.req => r = s
    BY <1>3, <2>1 DEF SmsInv
  <2> QED BY <1>3, <2>1, <2>3, <2>4, <2>5 DEF SmsInv
<1>4. ASSUME NEW q \in DOMAIN requests, EnvelopeMade(q) \/ GatewayDone(q) \/ SendReplySms(q) \/ Respond(q)
      PROVE  SmsInv'
  <2>1. requests[q] # "media" => attached[q].got \cup attached[q].failed = MediaOf[q[1]]
    BY DEF SmsInv, MediaAccounted
  <2>2. CASE EnvelopeMade(q) \/ GatewayDone(q)
    BY <1>3, <2>1, <2>2 DEF EnvelopeMade, GatewayDone, Stages, SmsInv, SmsTypeOK
  <2>3. CASE SendReplySms(q)
    BY <1>3, <2>1, <2>3 DEF SendReplySms, Stages, SmsInv, SmsTypeOK
  <2>4. CASE Respond(q)
    <3>1. patience' \in [Texts -> {"waiting", "gave_up", "content"}]
      BY <2>4 DEF Respond, SmsInv, SmsTypeOK
    <3>2. smsReplies' = smsReplies
      BY <2>4 DEF Respond, TwimlReplies
    <3> QED BY <1>3, <2>1, <2>4, <3>1, <3>2 DEF Respond, Stages
  <2> QED BY <1>4, <2>2, <2>3, <2>4
<1>5. CASE (\E x \in Texts : TwilioGivesUp(x)) \/ UNCHANGED smsVars
  <2>1. /\ UNCHANGED <<botNumber, learnedNumber, posts, requests, attached, smsReplies>>
        /\ patience' \in [Texts -> {"waiting", "gave_up", "content"}]
    BY <1>5 DEF TwilioGivesUp, smsVars, SmsInv, SmsTypeOK
  <2> QED BY <2>1 DEF SmsInv, SmsTypeOK, MediaAccounted
<1> QED BY <1>1, <1>2, <1>4, <1>5 DEF SmsNext

LEMMA SmsKeeps == SmsInv => SmsTypeOK /\ MediaAccounted /\ OneReplyPerPost
<1> SUFFICES ASSUME SmsInv, NEW x \in Texts PROVE Cardinality(RepliesTo(x)) <= posts[x]
  BY DEF SmsInv, OneReplyPerPost
<1> DEFINE nth == [r \in RepliesTo(x) |-> r.req[2]]
<1>1. posts[x] \in Nat
  BY SmsAssumption DEF SmsInv, SmsTypeOK
<1>2. \A r \in RepliesTo(x) : /\ r \in smsReplies /\ r.req \in Texts \X (1 .. MaxPosts) /\ r.req[1] = x
                              /\ r.req[2] \in 1 .. posts[x] /\ r.req = <<x, r.req[2]>>
  BY <1>1 DEF RepliesTo, SmsInv, SmsTypeOK, SmsPosts
<1>3. nth \in Injection(RepliesTo(x), 1 .. posts[x])
  BY <1>2 DEF SmsInv, Injection, IsInjective
<1>4. IsFiniteSet(1 .. posts[x]) /\ Cardinality(1 .. posts[x]) = posts[x]
  BY <1>1, FS_Interval
<1> QED BY <1>3, <1>4, FS_Injection


-----------------------------------------------------------------------------
(* Telegram's poller: what is ahead of the cursor is still to come.        *)

(* The first update that is neither confirmed nor passed by the offset.    *)
Ahead == Higher(tgOffset, confirmed)

(* The batch goes on where the offset is; what is still to be taken, or in *)
(* hand, reached the gateway at most once in each earlier run of the       *)
(* poller, and was exposed when it did.                                    *)
BatchInv ==
    /\ Ahead <= Len(updates) + 1
    /\ \A i \in 1 .. Len(tgBatch) : tgBatch[i] = Higher(Ahead, 1) + i - 1 /\ tgBatch[i] <= Len(updates)
    /\ inHand # 0 => confirmed <= inHand /\ inHand < tgOffset /\ inHand <= Len(updates)

ForwardsInv ==
    \A id \in UpdateIds :
        /\ forwards[id] <= 1 + tgRestarts /\ (forwards[id] > 1 => id \in exposed)
        /\ id > Len(updates) => forwards[id] = 0
        /\ id >= Ahead \/ id = inHand =>
              forwards[id] <= tgRestarts /\ (forwards[id] > 0 => id \in exposed)

OwnersInv ==
    /\ IsFiniteSet(tgOwners)
    /\ IF ownerEnv # NoOwner THEN tgOwners = {ownerEnv} /\ ownerId = ownerEnv
       ELSE Cardinality(tgOwners) <= tgRestarts + (IF ownerId = NoOwner THEN 0 ELSE 1)

TgInv == TelegramTypeOK /\ BatchInv /\ ForwardsInv /\ OwnersInv /\ NothingPassedOver

LEMMA TgNumbers ==
    ASSUME TelegramTypeOK
    PROVE  /\ TgPage \in Nat \ {0} /\ MaxUpdates \in Nat /\ MaxTgRestarts \in Nat
           /\ Len(updates) \in 0 .. MaxUpdates /\ Len(tgBatch) \in Nat
           /\ tgOffset \in 0 .. MaxUpdates + 1 /\ confirmed \in 0 .. MaxUpdates + 1
           /\ Ahead \in 0 .. MaxUpdates + 1 /\ Ahead >= tgOffset /\ Ahead >= confirmed
           /\ Ahead \in {tgOffset, confirmed} /\ tgRestarts \in 0 .. MaxTgRestarts
           /\ \A id \in 1 .. Len(updates) :
                 id \in UpdateIds /\ updates[id] \in [from: TgUsers, kind: {"message", "other", "malformed"}]
           /\ \A i \in 1 .. Len(tgBatch) : tgBatch[i] \in UpdateIds
           /\ UpdateIds = 1 .. MaxUpdates /\ forwards \in [UpdateIds -> Nat] /\ inHand \in UpdateIds \cup {0}
<1> USE TelegramAssumption DEF TelegramTypeOK
<1>1. Len(updates) \in Nat /\ Len(tgBatch) \in Nat
  BY LenProperties
<1>2. \A id \in 1 .. Len(updates) :
          id \in UpdateIds /\ updates[id] \in [from: TgUsers, kind: {"message", "other", "malformed"}]
  <2>1. \A id \in 1 .. Len(updates) : id \in UpdateIds
    BY <1>1 DEF UpdateIds
  <2>2. \A id \in 1 .. Len(updates) :
            updates[id] \in [from: TgUsers, kind: {"message", "other", "malformed"}]
    BY ElementOfSeq
  <2> QED BY <2>1, <2>2
<1>3. \A i \in 1 .. Len(tgBatch) : tgBatch[i] \in UpdateIds
  BY ElementOfSeq
<1> QED BY <1>1, <1>2, <1>3 DEF Ahead, Higher, UpdateIds

LEMMA TgStart == TelegramInit => TgInv
<1> SUFFICES ASSUME TelegramInit PROVE TgInv
  OBVIOUS
<1> USE TelegramAssumption
<1>1. TelegramTypeOK
  BY DEF TelegramInit, TelegramTypeOK
<1>2. OwnersInv
  <2>1. CASE ownerEnv = NoOwner
    <3>1. tgOwners = {} /\ ownerId = NoOwner /\ tgRestarts = 0
      BY <2>1 DEF TelegramInit
    <3>2. IsFiniteSet({}) /\ Cardinality({}) = 0
      BY FS_EmptySet
    <3> QED BY <2>1, <3>1, <3>2 DEF OwnersInv
  <2>2. CASE ownerEnv # NoOwner
    <3>1. tgOwners = {ownerEnv} /\ ownerId = ownerEnv
      BY <2>2 DEF TelegramInit
    <3>2. IsFiniteSet({ownerEnv})
      BY FS_Singleton
    <3> QED BY <2>2, <3>1, <3>2 DEF OwnersInv
  <2> QED BY <2>1, <2>2
<1>3. Len(tgBatch) = 0 /\ Len(updates) = 0
  BY DEF TelegramInit
<1> QED BY <1>1, <1>2, <1>3, TgNumbers DEF TelegramInit, TgInv, BatchInv, ForwardsInv, NothingPassedOver, UpdateIds

LEMMA TgStep == TgInv /\ [TelegramNext]_telegramVars => TgInv'
<1> SUFFICES ASSUME TgInv, [TelegramNext]_telegramVars PROVE TgInv'
  OBVIOUS
<1>0. TelegramTypeOK /\ BatchInv /\ ForwardsInv /\ OwnersInv /\ NothingPassedOver
  BY DEF TgInv
<1>1. ASSUME NEW u \in TgUsers, NEW kind \in {"message", "other", "malformed"}, UpdateArrives(u, kind)
      PROVE  TgInv'
  <2>1. /\ updates' = Append(updates, [from |-> u, kind |-> kind]) /\ Len(updates) < MaxUpdates
        /\ UNCHANGED <<tgPublic, ownerEnv, confirmed, tgOffset, tgBatch, inHand, ownerId, tgOwners,
                       socketUp, forwards, ended, exposed, tgRestarts>>
    BY <1>1 DEF UpdateArrives
  <2>2. /\ updates' \in Seq([from: TgUsers, kind: {"message", "other", "malformed"}])
        /\ Len(updates') = Len(updates) + 1
    BY <1>0, <2>1, AppendProperties DEF TelegramTypeOK
  <2>3. TelegramTypeOK'
    BY <1>0, <2>1, <2>2, TgNumbers DEF TelegramTypeOK
  <2>4. Ahead' = Ahead
    BY <2>1 DEF Ahead, Higher
  <2>5. BatchInv'
    <3>1. Ahead <= Len(updates') + 1
      BY <1>0, <2>2, TgNumbers DEF BatchInv
    <3>2. \A i \in 1 .. Len(tgBatch) : tgBatch[i] <= Len(updates')
      BY <1>0, <2>2, TgNumbers DEF BatchInv
    <3>3. inHand # 0 => inHand <= Len(updates')
      BY <1>0, <2>2, TgNumbers DEF BatchInv
    <3> QED BY <1>0, <2>1, <2>4, <3>1, <3>2, <3>3 DEF BatchInv
  <2>6. ForwardsInv'
    BY <1>0, <2>1, <2>2, <2>4, TgNumbers DEF ForwardsInv, UpdateIds
  <2>7. OwnersInv'
    BY <1>0, <2>1 DEF OwnersInv
  <2>8. NothingPassedOver'
    <3>1. \A id \in 1 .. Len(updates') : id < Ahead => id \in 1 .. Len(updates)
      BY <1>0, <2>2, TgNumbers DEF BatchInv
    <3> QED BY <1>0, <2>1, <3>1 DEF NothingPassedOver, Ahead
  <2> QED BY <2>3, <2>5, <2>6, <2>7, <2>8 DEF TgInv
<1>2. CASE GetUpdates
  <2> DEFINE first == Higher(confirmed', 1)
             last == IF Len(updates) < first + TgPage - 1 THEN Len(updates) ELSE first + TgPage - 1
             page == [i \in 1 .. Higher(last - first + 1, 0) |-> first + i - 1]
  <2>1. /\ tgBatch = <<>> /\ inHand = 0 /\ confirmed' = Ahead
        /\ UNCHANGED <<tgPublic, ownerEnv, updates, tgOffset, inHand, ownerId, tgOwners, socketUp,
                       forwards, ended, exposed, tgRestarts>>
    BY <1>2, <1>0, TgNumbers DEF GetUpdates, Ahead, Higher
  <2>2. Ahead' = Ahead
    BY <1>0, <2>1, TgNumbers DEF Ahead, Higher
  <2>3. tgBatch' \in {<<>>, page}
    BY <1>2 DEF GetUpdates
  <2>4. /\ tgBatch' \in Seq(UpdateIds)
        /\ \A i \in 1 .. Len(tgBatch') : tgBatch'[i] = Higher(Ahead, 1) + i - 1 /\ tgBatch'[i] <= Len(updates)
    <3>1. /\ first = Higher(Ahead, 1) /\ first \in 1 .. MaxUpdates + 1 /\ last \in Nat
          /\ last <= Len(updates) /\ Len(updates) <= MaxUpdates
          /\ Higher(last - first + 1, 0) \in Nat
          /\ \A i \in 1 .. Higher(last - first + 1, 0) : first + i - 1 \in first .. last
      <4>1. first = Higher(Ahead, 1)
        BY <2>1
      <4>2. Ahead \in 0 .. MaxUpdates + 1 /\ Len(updates) \in 0 .. MaxUpdates /\ TgPage \in Nat \ {0}
            /\ MaxUpdates \in Nat
        BY <1>0, TgNumbers
      <4>3. first \in 1 .. MaxUpdates + 1
        BY <4>1, <4>2 DEF Higher
      <4> HIDE DEF first
      <4>4. last \in Nat /\ last <= Len(updates)
        BY <4>2, <4>3
      <4> HIDE DEF last
      <4> QED BY <4>1, <4>2, <4>3, <4>4 DEF Higher
    <3> DEFINE n == Higher(last - first + 1, 0)
    <3> HIDE DEF first, last, n
    <3>2. CASE tgBatch' = <<>>
      BY <3>2
    <3>3. CASE tgBatch' = [i \in 1 .. n |-> first + i - 1]
      <4>1. \A i \in 1 .. n : first + i - 1 \in UpdateIds
        <5> TAKE i \in 1 .. n
        <5>1. first + i - 1 \in first .. last
          BY <3>1 DEF n
        <5>2. MaxUpdates \in Nat /\ UpdateIds = 1 .. MaxUpdates
          BY <1>0, TgNumbers
        <5> QED BY <3>1, <5>1, <5>2
      <4>2. tgBatch' \in Seq(UpdateIds) /\ Len(tgBatch') = n
        BY <3>1, <3>3, <4>1 DEF n
      <4> QED BY <3>1, <3>3, <4>1, <4>2 DEF n
    <3> QED BY <2>3, <3>2, <3>3 DEF n
  <2>5. BatchInv'
    BY <1>0, <2>1, <2>2, <2>4 DEF BatchInv
  <2>6. TelegramTypeOK'
    BY <1>0, <2>1, <2>4, TgNumbers DEF TelegramTypeOK
  <2>7. ForwardsInv' /\ OwnersInv'
    BY <1>0, <2>1, <2>2 DEF ForwardsInv, OwnersInv
  <2>8. NothingPassedOver'
    BY <1>0, <2>1, <2>2 DEF NothingPassedOver, Ahead
  <2> QED BY <2>5, <2>6, <2>7, <2>8 DEF TgInv
<1>3. CASE TakeUpdate
  <2> DEFINE id == Head(tgBatch)
             u == updates[id].from
  <2>1. /\ tgBatch # <<>> /\ inHand = 0 /\ tgOffset' = id + 1
        /\ ownerId' = IF PairsSender(id) THEN u ELSE ownerId
        /\ tgOwners' = IF PairsSender(id) THEN tgOwners \cup {u} ELSE tgOwners
        /\ \/ tgBatch' = <<>> /\ inHand' = 0 /\ ended' = ended \cup {id}
           \/ tgBatch' = Tail(tgBatch) /\ inHand' = 0 /\ ended' = ended \cup {id}
           \/ tgBatch' = Tail(tgBatch) /\ inHand' = id /\ UNCHANGED ended
        /\ UNCHANGED <<tgPublic, ownerEnv, updates, confirmed, socketUp, forwards, exposed, tgRestarts>>
    BY <1>3 DEF TakeUpdate, OffsetAfter
  <2>2. /\ Len(tgBatch) \in Nat \ {0} /\ id = tgBatch[1]
        /\ Tail(tgBatch) \in Seq(UpdateIds) /\ Len(Tail(tgBatch)) = Len(tgBatch) - 1
        /\ \A i \in 1 .. Len(tgBatch) - 1 : Tail(tgBatch)[i] = tgBatch[i + 1]
    BY <1>0, <2>1, HeadTailProperties, EmptySeq DEF TelegramTypeOK
  <2>3. id = Higher(Ahead, 1) /\ id \in 1 .. Len(updates) /\ id \in UpdateIds /\ u \in TgUsers
    <3>1. 1 \in 1 .. Len(tgBatch)
      BY <2>2
    <3>2. /\ tgBatch[1] = Higher(Ahead, 1) + 1 - 1 /\ tgBatch[1] <= Len(updates)
          /\ tgBatch[1] \in UpdateIds
      BY <1>0, <3>1, TgNumbers DEF BatchInv
    <3>3. Ahead \in Nat /\ Len(updates) \in Nat
      BY <1>0, TgNumbers
    <3>4. Higher(Ahead, 1) \in Nat \ {0}
      BY <3>3 DEF Higher
    <3>5. id = Higher(Ahead, 1) /\ id \in 1 .. Len(updates) /\ id \in UpdateIds
      <4> HIDE DEF id
      <4> QED BY <2>2, <3>2, <3>3, <3>4
    <3>6. updates[id] \in [from: TgUsers, kind: {"message", "other", "malformed"}]
      <4> HIDE DEF id
      <4> QED BY <1>0, <3>5, TgNumbers
    <3>7. u \in TgUsers
      <4> HIDE DEF id
      <4> QED BY <3>6
    <3> QED BY <3>5, <3>7
  <2> HIDE DEF id, u
  <2>4. Ahead' = id + 1 /\ Ahead <= id /\ id <= MaxUpdates
    <3>1. Ahead <= id /\ id <= MaxUpdates /\ id \in Nat
      BY <1>0, <2>3, TgNumbers DEF Higher
    <3>2. confirmed < id + 1
      BY <1>0, <3>1, TgNumbers
    <3> QED BY <2>1, <3>1, <3>2 DEF Ahead, Higher
  <2>5. /\ tgBatch' \in Seq(UpdateIds)
        /\ \A i \in 1 .. Len(tgBatch') : tgBatch'[i] = id + i /\ tgBatch'[i] <= Len(updates)
    <3>1. CASE tgBatch' = <<>>
      BY <3>1
    <3>2. CASE tgBatch' = Tail(tgBatch)
      <4>1. ASSUME NEW i \in 1 .. Len(tgBatch') PROVE tgBatch'[i] = id + i /\ tgBatch'[i] <= Len(updates)
        <5>1. i \in 1 .. Len(tgBatch) - 1 /\ i + 1 \in 1 .. Len(tgBatch)
          BY <2>2, <3>2
        <5>2. tgBatch[i + 1] = Higher(Ahead, 1) + (i + 1) - 1 /\ tgBatch[i + 1] <= Len(updates)
          BY <1>0, <5>1 DEF BatchInv
        <5> QED BY <2>2, <2>3, <3>2, <5>1, <5>2
      <4> QED BY <2>2, <3>2, <4>1
    <3> QED BY <2>1, <3>1, <3>2
  <2>6. BatchInv'
    <3>1. Ahead' <= Len(updates') + 1
      BY <1>0, <2>1, <2>3, <2>4, TgNumbers
    <3>2. \A i \in 1 .. Len(tgBatch') :
             tgBatch'[i] = Higher(Ahead', 1) + i - 1 /\ tgBatch'[i] <= Len(updates')
      <4>1. Higher(Ahead', 1) = id + 1
        BY <2>3, <2>4 DEF Higher
      <4> QED BY <2>1, <2>3, <2>5, <4>1
    <3>3. inHand' # 0 => confirmed' <= inHand' /\ inHand' < tgOffset' /\ inHand' <= Len(updates')
      <4>1. confirmed <= id /\ id < id + 1 /\ id <= Len(updates)
        BY <1>0, <2>3, <2>4, TgNumbers
      <4> QED BY <2>1, <4>1
    <3> QED BY <3>1, <3>2, <3>3 DEF BatchInv
  <2>7. TelegramTypeOK'
    <3>1. tgOwners' \subseteq TgUsers /\ ownerId' \in TgUsers \cup {NoOwner}
      BY <1>0, <2>1, <2>3 DEF TelegramTypeOK
    <3>2. inHand' \in UpdateIds \cup {0} /\ ended' \subseteq UpdateIds /\ tgOffset' \in 0 .. MaxUpdates + 1
      <4>1. id + 1 \in 0 .. MaxUpdates + 1
        BY <1>0, <2>3, TgNumbers
      <4> QED BY <1>0, <2>1, <2>3, <4>1 DEF TelegramTypeOK
    <3> QED BY <1>0, <2>1, <2>5, <3>1, <3>2 DEF TelegramTypeOK
  <2>8. ForwardsInv'
    <3>1. /\ forwards' = forwards /\ exposed' = exposed /\ tgRestarts' = tgRestarts /\ updates' = updates
          /\ inHand' \in {0, id} /\ UpdateIds \subseteq Nat \ {0} /\ Ahead \in Nat /\ id \in Nat
      BY <1>0, <2>1, <2>3, TgNumbers
    <3> SUFFICES ASSUME NEW k \in UpdateIds
                 PROVE  /\ forwards[k] <= 1 + tgRestarts /\ (forwards[k] > 1 => k \in exposed)
                        /\ k > Len(updates) => forwards[k] = 0
                        /\ k >= Ahead' \/ k = inHand' =>
                              forwards[k] <= tgRestarts /\ (forwards[k] > 0 => k \in exposed)
      BY <3>1 DEF ForwardsInv, UpdateIds
    <3>2. k >= Ahead' \/ k = inHand' => k >= Ahead
      BY <2>3, <2>4, <3>1
    <3> QED BY <1>0, <3>2 DEF ForwardsInv
  <2>9. OwnersInv'
    <3>1. CASE PairsSender(id)
      <4>1. ownerId = NoOwner /\ tgOwners' = tgOwners \cup {u} /\ ownerId' = u /\ u # NoOwner
        BY <2>1, <2>3, <3>1, TelegramAssumption DEF PairsSender
      <4>2. IsFiniteSet(tgOwners') /\ Cardinality(tgOwners') <= Cardinality(tgOwners) + 1
        <5>1. IsFiniteSet(tgOwners) /\ Cardinality(tgOwners) \in Nat
          BY <1>0, FS_CardinalityType DEF OwnersInv
        <5>2. /\ IsFiniteSet(tgOwners \cup {u})
              /\ Cardinality(tgOwners \cup {u}) \in {Cardinality(tgOwners), Cardinality(tgOwners) + 1}
          BY <5>1, FS_AddElement
        <5> QED BY <4>1, <5>1, <5>2
      <4>3. Cardinality(tgOwners') \in Nat /\ Cardinality(tgOwners) \in Nat
        BY <1>0, <4>2, FS_CardinalityType DEF OwnersInv
      <4> QED BY <1>0, <2>1, <4>1, <4>2, <4>3, TgNumbers DEF OwnersInv
    <3>2. CASE ~PairsSender(id)
      BY <1>0, <2>1, <3>2 DEF OwnersInv
    <3> QED BY <3>1, <3>2
  <2>10. NothingPassedOver'
    <3>1. \A i \in 1 .. Len(updates) : i < id => i < Ahead
      BY <2>3, TgNumbers, <1>0 DEF Higher
    <3>2. \A i \in 1 .. Len(updates) : i < Ahead => forwards[i] > 0 \/ i \in ended
      BY <1>0, <2>1, TgNumbers DEF NothingPassedOver, Ahead, UpdateIds
    <3>3. id = inHand' \/ id \in ended'
      BY <2>1
    <3>4. \A i \in 1 .. Len(updates) : i < Ahead' => i < id \/ i = id
      BY <2>3, <2>4
    <3>5. ended \subseteq ended'
      BY <2>1
    <3> QED BY <2>1, <3>1, <3>2, <3>3, <3>4, <3>5 DEF NothingPassedOver, Ahead
  <2> QED BY <2>6, <2>7, <2>8, <2>9, <2>10 DEF TgInv
<1>4. CASE ForwardUpdate
  <2>1. /\ inHand # 0 /\ inHand' = 0
        /\ \/ forwards' = [forwards EXCEPT ![inHand] = @ + 1] /\ UNCHANGED <<tgBatch, ended>>
           \/ tgBatch' = <<>> /\ ended' = ended \cup {inHand} /\ UNCHANGED forwards
        /\ UNCHANGED <<tgPublic, ownerEnv, updates, confirmed, tgOffset, ownerId, tgOwners, socketUp,
                       exposed, tgRestarts>>
    BY <1>4 DEF ForwardUpdate
  <2>2. /\ Ahead' = Ahead /\ inHand \in UpdateIds /\ inHand < Ahead /\ forwards[inHand] \in Nat
        /\ forwards \in [UpdateIds -> Nat] /\ inHand <= Len(updates)
    <3>1. Ahead' = Ahead
      BY <2>1 DEF Ahead, Higher
    <3>2. inHand \in UpdateIds /\ forwards \in [UpdateIds -> Nat]
      BY <1>0, <2>1, TgNumbers
    <3>3. inHand < Ahead /\ inHand <= Len(updates)
      BY <1>0, <2>1, <3>2, TgNumbers DEF BatchInv
    <3> QED BY <3>1, <3>2, <3>3
  <2>3. BatchInv'
    BY <1>0, <2>1, <2>2 DEF BatchInv
  <2>4. TelegramTypeOK'
    <3>1. forwards' \in [UpdateIds -> Nat] /\ ended' \subseteq UpdateIds /\ tgBatch' \in Seq(UpdateIds)
      <4>1. CASE forwards' = [forwards EXCEPT ![inHand] = @ + 1] /\ UNCHANGED <<tgBatch, ended>>
        BY <1>0, <2>2, <4>1 DEF TelegramTypeOK
      <4>2. CASE tgBatch' = <<>> /\ ended' = ended \cup {inHand} /\ UNCHANGED forwards
        BY <1>0, <2>2, <4>2 DEF TelegramTypeOK
      <4> QED BY <2>1, <4>1, <4>2
    <3> QED BY <1>0, <2>1, <3>1 DEF TelegramTypeOK
  <2>5. ForwardsInv'
    <3>1. \A id \in UpdateIds : forwards'[id] = forwards[id] \/ (id = inHand /\ forwards'[id] = forwards[id] + 1)
      BY <2>1, <2>2
    <3>2. inHand' # inHand /\ \A id \in UpdateIds : id # inHand'
      BY <1>0, <2>1, TgNumbers
    <3> SUFFICES ASSUME NEW id \in UpdateIds
                 PROVE  /\ forwards'[id] <= 1 + tgRestarts' /\ (forwards'[id] > 1 => id \in exposed')
                        /\ id > Len(updates') => forwards'[id] = 0
                        /\ id >= Ahead' \/ id = inHand' =>
                              forwards'[id] <= tgRestarts' /\ (forwards'[id] > 0 => id \in exposed')
      BY DEF ForwardsInv
    <3>3. /\ forwards[id] <= 1 + tgRestarts /\ (forwards[id] > 1 => id \in exposed)
          /\ id > Len(updates) => forwards[id] = 0
          /\ id >= Ahead \/ id = inHand =>
                forwards[id] <= tgRestarts /\ (forwards[id] > 0 => id \in exposed)
      BY <1>0 DEF ForwardsInv
    <3>4. id \in Nat /\ forwards[id] \in Nat /\ Len(updates) \in Nat /\ Ahead \in Nat /\ tgRestarts \in Nat
      BY <1>0, TgNumbers
    <3>5. CASE id # inHand
      BY <2>1, <2>2, <3>1, <3>2, <3>3, <3>4, <3>5
    <3>6. CASE id = inHand
      BY <2>1, <2>2, <3>1, <3>2, <3>3, <3>4, <3>6
    <3> QED BY <3>5, <3>6
  <2>6. OwnersInv'
    BY <1>0, <2>1 DEF OwnersInv
  <2>7. NothingPassedOver'
    <3>1. /\ \A id \in 1 .. Len(updates) : id \in UpdateIds /\ forwards[id] \in Nat
          /\ \A id \in 1 .. Len(updates) : id < Ahead => forwards[id] > 0 \/ id \in ended \/ id = inHand
      BY <1>0, TgNumbers DEF NothingPassedOver, Ahead
    <3>2. \A id \in 1 .. Len(updates) : id < Ahead => forwards'[id] > 0 \/ id \in ended'
      BY <2>1, <2>2, <3>1
    <3> QED BY <2>1, <2>2, <3>2 DEF NothingPassedOver, Ahead
  <2> QED BY <2>3, <2>4, <2>5, <2>6, <2>7 DEF TgInv
<1>5. CASE SocketCloses \/ UNCHANGED telegramVars
  <2>1. /\ UNCHANGED <<tgPublic, ownerEnv, updates, confirmed, tgOffset, tgBatch, inHand, ownerId,
                       tgOwners, forwards, ended, exposed, tgRestarts>>
        /\ socketUp' \in BOOLEAN
    BY <1>0, <1>5 DEF SocketCloses, telegramVars, TelegramTypeOK
  <2> QED BY <1>0, <2>1 DEF TgInv, TelegramTypeOK, BatchInv, ForwardsInv, OwnersInv, NothingPassedOver, Ahead
<1>6. CASE TgRestart
  <2>1. /\ tgRestarts < MaxTgRestarts /\ tgRestarts' = tgRestarts + 1
        /\ exposed' = exposed \cup {i \in 1 .. Len(updates) : i >= confirmed}
        /\ tgOffset' = 0 /\ tgBatch' = <<>> /\ inHand' = 0 /\ socketUp' = TRUE /\ ownerId' = ownerEnv
        /\ tgOwners' = tgOwners \cup ({ownerEnv} \ {NoOwner})
        /\ UNCHANGED <<tgPublic, ownerEnv, updates, confirmed, forwards, ended>>
    BY <1>6 DEF TgRestart
  <2>2. Ahead' = confirmed
    BY <1>0, <2>1, TgNumbers DEF Ahead, Higher
  <2>3. BatchInv'
    BY <1>0, <2>1, <2>2, TgNumbers DEF BatchInv
  <2>4. TelegramTypeOK'
    <3>1. {i \in 1 .. Len(updates) : i >= confirmed} \subseteq UpdateIds
      BY <1>0, TgNumbers
    <3>2. tgOwners' \subseteq TgUsers /\ exposed' \subseteq UpdateIds
      BY <1>0, <2>1, <3>1 DEF TelegramTypeOK
    <3>3. tgOffset' \in 0 .. MaxUpdates + 1 /\ tgRestarts' \in 0 .. MaxTgRestarts
      BY <1>0, <2>1, TgNumbers
    <3>4. tgBatch' \in Seq(UpdateIds) /\ inHand' \in UpdateIds \cup {0} /\ socketUp' \in BOOLEAN
      BY <2>1
    <3> QED BY <1>0, <2>1, <3>2, <3>3, <3>4 DEF TelegramTypeOK
  <2>5. ForwardsInv'
    <3>2. \A id \in UpdateIds : id # inHand'
      BY <1>0, <2>1, TgNumbers
    <3> SUFFICES ASSUME NEW id \in UpdateIds
                 PROVE  /\ forwards'[id] <= 1 + tgRestarts' /\ (forwards'[id] > 1 => id \in exposed')
                        /\ id > Len(updates') => forwards'[id] = 0
                        /\ id >= Ahead' \/ id = inHand' =>
                              forwards'[id] <= tgRestarts' /\ (forwards'[id] > 0 => id \in exposed')
      BY DEF ForwardsInv
    <3>3. /\ forwards[id] <= 1 + tgRestarts /\ (forwards[id] > 1 => id \in exposed)
          /\ id > Len(updates) => forwards[id] = 0
      BY <1>0 DEF ForwardsInv
    <3>4. id \in Nat \ {0} /\ forwards[id] \in Nat /\ Len(updates) \in Nat /\ tgRestarts \in Nat
      BY <1>0, TgNumbers
    <3>5. id >= confirmed => forwards[id] = 0 \/ id \in exposed'
      BY <2>1, <3>3, <3>4
    <3> QED BY <2>1, <2>2, <3>2, <3>3, <3>4, <3>5
  <2>6. OwnersInv'
    <3>1. CASE ownerEnv = NoOwner
      <4>1. tgOwners' = tgOwners /\ Cardinality(tgOwners) \in Nat
        BY <1>0, <2>1, <3>1, FS_CardinalityType DEF OwnersInv
      <4>2. Cardinality(tgOwners) <= tgRestarts + 1 /\ tgRestarts \in Nat
        BY <1>0, <3>1, <4>1, TgNumbers DEF OwnersInv
      <4>3. Cardinality(tgOwners') <= tgRestarts' /\ ownerId' = NoOwner
        <5>1. tgRestarts' = tgRestarts + 1 /\ ownerId' = NoOwner
          BY <2>1, <3>1
        <5> QED BY <4>1, <4>2, <5>1
      <4>4. tgRestarts' \in Nat
        BY <2>1, <4>2
      <4>5. IsFiniteSet(tgOwners') /\ ownerEnv' = NoOwner /\ Cardinality(tgOwners') \in Nat
        BY <1>0, <2>1, <3>1, <4>1 DEF OwnersInv
      <4>6. Cardinality(tgOwners') <= tgRestarts' + (IF ownerId' = NoOwner THEN 0 ELSE 1)
        BY <4>3, <4>4, <4>5
      <4> QED BY <4>5, <4>6 DEF OwnersInv
    <3>2. CASE ownerEnv # NoOwner
      BY <1>0, <2>1, <3>2 DEF OwnersInv
    <3> QED BY <3>1, <3>2
  <2>7. NothingPassedOver'
    <3>1. \A i \in 1 .. Len(updates) : i < confirmed => i < Ahead /\ i # 0
      BY <1>0, TgNumbers
    <3>2. \A i \in 1 .. Len(updates) : i < confirmed => i # inHand
      BY <1>0, TgNumbers DEF BatchInv
    <3> QED BY <1>0, <2>1, <2>2, <3>1, <3>2 DEF NothingPassedOver, Ahead
  <2> QED BY <2>3, <2>4, <2>5, <2>6, <2>7 DEF TgInv
<1> QED BY <1>1, <1>2, <1>3, <1>4, <1>5, <1>6 DEF TelegramNext

LEMMA TgKeeps == TgInv => TelegramTypeOK /\ NothingPassedOver /\ TwiceOnlyWhenExposed /\ OneOwnerPerRun
<1> SUFFICES ASSUME TgInv PROVE TwiceOnlyWhenExposed /\ OneOwnerPerRun
  BY DEF TgInv
<1>1. TwiceOnlyWhenExposed
  BY DEF TgInv, ForwardsInv, TwiceOnlyWhenExposed
<1>2. Cardinality(tgOwners) \in Nat
  BY FS_CardinalityType DEF TgInv, OwnersInv
<1> QED BY <1>1, <1>2, TgNumbers DEF TgInv, OwnersInv, OneOwnerPerRun


-----------------------------------------------------------------------------
(* WhatsApp's memory of providers.  Its table keeps the order of writing.  *)

Entry == [user: WaUsers, provider: Providers]

(* The table holds the last users of waHeard, in its order.                *)
EndOf(cache, heard) ==
    /\ Len(cache) <= Len(heard)
    /\ \A i \in 1 .. Len(cache) : cache[i].user = heard[Len(heard) - Len(cache) + i]

Distinct(heard) == \A i, j \in 1 .. Len(heard) : heard[i] = heard[j] => i = j

(* A reply was delivered once, and then is over.                           *)
WaInv ==
    /\ WaTypeOK /\ waHeard \in Seq(WaUsers) /\ providerCache \in Seq(Entry)
    /\ Distinct(waHeard) /\ EndOf(providerCache, waHeard) /\ Len(providerCache) <= ProviderCacheMax
    /\ EntryHasEvidence
    /\ \A r \in Replies :
          /\ waDelivered[r] <= 1
          /\ (r \in DOMAIN waSends => waSends[r].provider # "done") => waDelivered[r] = 0

LEMMA LeastIs ==
    ASSUME NEW I \in SUBSET Nat, I # {}
    PROVE  Min(I) \in I /\ \A i \in I : Min(I) <= i
<1>1. PICK m \in I : \A i \in I : <<i, m>> \notin OpToRel(<, Nat)
  BY WFMin, NatLessThanWellFounded
<1>2. \A i \in I : m \in Nat /\ i \in Nat /\ ~(i < m)
  BY <1>1 DEF OpToRel
<1>3. \A i \in I : m <= i
  BY <1>2
<1> QED BY <1>3 DEF Min

LEMMA RemovedAt ==
    ASSUME NEW S, NEW s \in Seq(S), NEW k \in 1 .. Len(s)
    PROVE  /\ RemoveAt(s, k) \in Seq(S) /\ Len(RemoveAt(s, k)) = Len(s) - 1
           /\ \A j \in 1 .. Len(s) - 1 : RemoveAt(s, k)[j] = IF j < k THEN s[j] ELSE s[j + 1]
<1> DEFINE a == SubSeq(s, 1, k - 1)
           b == SubSeq(s, k + 1, Len(s))
<1>1. /\ a \in Seq(S) /\ Len(a) = k - 1 /\ \A j \in 1 .. k - 1 : a[j] = s[j]
      /\ b \in Seq(S) /\ Len(b) = Len(s) - k /\ \A j \in 1 .. Len(s) - k : b[j] = s[k + j]
  <2>1. \A i \in 1 .. Len(s) : s[i] \in S
    OBVIOUS
  <2> QED BY <2>1, SubSeqProperties
<1>2. RemoveAt(s, k) = a \o b
  BY DEF RemoveAt
<1> HIDE DEF a, b
<1> QED BY <1>1, <1>2, ConcatProperties

LEMMA TableIs ==
    ASSUME providerCache \in Seq(Entry)
    PROVE  /\ \A i \in 1 .. Len(providerCache) :
                providerCache[i] \in Entry /\ providerCache[i] \in ToSet(providerCache)
           /\ \A e \in ToSet(providerCache) : \E i \in 1 .. Len(providerCache) : e = providerCache[i]
           /\ \A u \in WaUsers :
                /\ Cached(u) \subseteq Providers
                /\ Cached(u) = {} => \A i \in 1 .. Len(providerCache) : providerCache[i].user # u
                /\ Cached(u) # {} => \E i \in 1 .. Len(providerCache) : providerCache[i].user = u
<1>1. /\ \A i \in 1 .. Len(providerCache) :
           providerCache[i] \in Entry /\ providerCache[i] \in ToSet(providerCache)
      /\ \A e \in ToSet(providerCache) : \E i \in 1 .. Len(providerCache) : e = providerCache[i]
  BY DEF ToSet
<1>2. \A u \in WaUsers, e \in ToSet(providerCache) :
          e.user = u => e.provider \in Cached(u) /\ e.provider \in Providers
  BY <1>1 DEF Cached, Entry
<1>3. \A u \in WaUsers : \A p \in Cached(u) : \E e \in ToSet(providerCache) : p = e.provider /\ e.user = u
  BY DEF Cached
<1> QED BY <1>1, <1>2, <1>3

LEMMA FirstOf ==
    ASSUME NEW s \in Seq(WaUsers), NEW u \in WaUsers
    PROVE  \/ RemoveFirst(s, u) = s /\ \A i \in 1 .. Len(s) : s[i] # u
           \/ \E k \in 1 .. Len(s) : s[k] = u /\ RemoveFirst(s, u) = RemoveAt(s, k)
<1>1. CASE \E i \in 1 .. Len(s) : s[i] = u
  <2> DEFINE I == {i \in 1 .. Len(s) : s[i] = u}
  <2>1. I # {} /\ I \subseteq Nat
    BY <1>1
  <2>2. Min(I) \in I
    BY <2>1, LeastIs
  <2>3. RemoveFirst(s, u) = RemoveAt(s, Min(I))
    BY <1>1, <2>1 DEF RemoveFirst, SelectInSeq
  <2> QED BY <2>2, <2>3
<1>2. CASE ~ \E i \in 1 .. Len(s) : s[i] = u
  BY <1>2 DEF RemoveFirst
<1> QED BY <1>1, <1>2

LEMMA OthersAre ==
    ASSUME providerCache \in Seq(Entry), NEW u \in WaUsers
    PROVE  \/ Cached(u) = {} /\ Others(u) = providerCache
           \/ \E k \in 1 .. Len(providerCache) :
                 Cached(u) # {} /\ providerCache[k].user = u /\ Others(u) = RemoveAt(providerCache, k)
<1>1. CASE \E i \in 1 .. Len(providerCache) : providerCache[i].user = u
  <2> DEFINE I == {i \in 1 .. Len(providerCache) : providerCache[i].user = u}
  <2>1. I # {} /\ I \subseteq Nat
    BY <1>1
  <2>2. Min(I) \in I
    BY <2>1, LeastIs
  <2>3. Others(u) = RemoveAt(providerCache, Min(I))
    BY <1>1, <2>1 DEF Others, RemoveFirstMatch, SelectInSeq
  <2>4. Cached(u) # {}
    BY <1>1, TableIs
  <2> QED BY <2>2, <2>3, <2>4
<1>2. CASE ~ \E i \in 1 .. Len(providerCache) : providerCache[i].user = u
  BY <1>2, TableIs DEF Others, RemoveFirstMatch
<1> QED BY <1>1, <1>2

(* What is removed before the user goes to the end of both.                *)
LEMMA RememberedAtEnd ==
    ASSUME NEW room \in Seq(Entry), NEW rest \in Seq(WaUsers), NEW e \in Entry,
           Distinct(rest), EndOf(room, rest), \A i \in 1 .. Len(rest) : rest[i] # e.user
    PROVE  /\ Append(room, e) \in Seq(Entry) /\ Append(rest, e.user) \in Seq(WaUsers)
           /\ Distinct(Append(rest, e.user)) /\ EndOf(Append(room, e), Append(rest, e.user))
           /\ ToSet(Append(room, e)) = ToSet(room) \cup {e}
           /\ Len(Append(room, e)) = Len(room) + 1
<1> DEFINE r == Append(room, e)
           h == Append(rest, e.user)
<1>1. /\ r \in Seq(Entry) /\ Len(r) = Len(room) + 1 /\ r[Len(room) + 1] = e
      /\ \A i \in 1 .. Len(room) : r[i] = room[i]
  BY AppendProperties
<1>2. /\ h \in Seq(WaUsers) /\ Len(h) = Len(rest) + 1 /\ h[Len(rest) + 1] = e.user
      /\ \A i \in 1 .. Len(rest) : h[i] = rest[i]
  <2>1. e.user \in WaUsers
    BY DEF Entry
  <2> QED BY <2>1, AppendProperties
<1>3. Len(room) \in Nat /\ Len(rest) \in Nat /\ Len(room) <= Len(rest)
  BY DEF EndOf
<1> HIDE DEF r, h
<1>4. Distinct(h)
  BY <1>2, <1>3 DEF Distinct
<1>5. EndOf(r, h)
  <2>1. Len(h) - Len(r) = Len(rest) - Len(room)
    BY <1>1, <1>2, <1>3
  <2>2. ASSUME NEW i \in 1 .. Len(r), NEW j, j = Len(h) - Len(r) + i PROVE r[i].user = h[j]
    <3>1. CASE i = Len(room) + 1
      <4>1. j = Len(rest) + 1
        BY <1>3, <2>1, <2>2, <3>1
      <4> QED BY <1>1, <1>2, <3>1, <4>1
    <3>2. CASE i \in 1 .. Len(room)
      <4> DEFINE d == Len(rest) - Len(room)
      <4>a. d \in Nat /\ Len(room) + d = Len(rest)
        BY <1>3
      <4>b. j = d + i
        BY <2>1, <2>2
      <4> HIDE DEF d
      <4>c. j \in 1 .. Len(rest)
        BY <1>3, <3>2, <4>a, <4>b
      <4>1. j = Len(rest) - Len(room) + i /\ j \in 1 .. Len(rest)
        BY <4>b, <4>c DEF d
      <4>2. room[i].user = rest[j]
        BY <3>2, <4>1 DEF EndOf
      <4> QED BY <1>1, <1>2, <3>2, <4>1, <4>2
    <3> QED BY <1>1, <1>3, <3>1, <3>2
  <2> QED BY <1>1, <1>2, <1>3, <2>2 DEF EndOf
<1>6. ToSet(r) = ToSet(room) \cup {e}
  <2>1. DOMAIN r = 1 .. Len(room) + 1 /\ DOMAIN room = 1 .. Len(room)
    BY <1>1
  <2> QED BY <1>1, <1>3, <2>1 DEF ToSet
<1> QED BY <1>1, <1>2, <1>4, <1>5, <1>6 DEF r, h

LEMMA RemembersRightly ==
    ASSUME WaInv, NEW u \in WaUsers, NEW p \in Providers, Remember(u, p)
    PROVE  /\ waHeard' \in Seq(WaUsers) /\ providerCache' \in Seq(Entry)
           /\ Distinct(waHeard') /\ EndOf(providerCache', waHeard') /\ Len(providerCache') <= ProviderCacheMax
           /\ ToSet(providerCache') \subseteq ToSet(providerCache) \cup {[user |-> u, provider |-> p]}
<1> DEFINE room == IF Cached(u) = {} /\ Len(providerCache) >= ProviderCacheMax
                   THEN Tail(providerCache) ELSE Others(u)
           rest == RemoveFirst(waHeard, u)
           e == [user |-> u, provider |-> p]
<1>0. /\ providerCache \in Seq(Entry) /\ waHeard \in Seq(WaUsers) /\ Distinct(waHeard)
      /\ EndOf(providerCache, waHeard) /\ Len(providerCache) <= ProviderCacheMax
      /\ Cached(u) = {} => \A i \in 1 .. Len(providerCache) : providerCache[i].user # u
      /\ ProviderCacheMax \in Nat \ {0}
  BY WhatsAppAssumption, TableIs DEF WaInv
<1>1. /\ room \in Seq(Entry) /\ ToSet(room) \subseteq ToSet(providerCache)
      /\ rest \in Seq(WaUsers) /\ Len(room) < ProviderCacheMax
      /\ Distinct(rest) /\ EndOf(room, rest) /\ \A i \in 1 .. Len(rest) : rest[i] # u
  <2>1. CASE rest = waHeard /\ \A i \in 1 .. Len(waHeard) : waHeard[i] # u
    <3>1. Cached(u) = {}
      BY <1>0, <2>1, OthersAre DEF EndOf
    <3>2. Others(u) = providerCache
      BY <1>0, <3>1, OthersAre
    <3> QED BY <1>0, <2>1, <3>1, <3>2 DEF EndOf, ToSet
  <2>2. ASSUME NEW k \in 1 .. Len(waHeard), waHeard[k] = u, rest = RemoveAt(waHeard, k)
        PROVE  /\ room \in Seq(Entry) /\ ToSet(room) \subseteq ToSet(providerCache)
               /\ rest \in Seq(WaUsers) /\ Len(room) < ProviderCacheMax
               /\ Distinct(rest) /\ EndOf(room, rest) /\ \A i \in 1 .. Len(rest) : rest[i] # u
    <3> HIDE DEF rest
    <3>1. /\ rest \in Seq(WaUsers) /\ Len(rest) = Len(waHeard) - 1
          /\ \A j \in 1 .. Len(waHeard) - 1 : rest[j] = IF j < k THEN waHeard[j] ELSE waHeard[j + 1]
      BY <1>0, <2>2, RemovedAt
    <3> DEFINE Was(i) == IF i < k THEN i ELSE i + 1
    <3>0. \A i, j \in 1 .. Len(rest) :
             /\ Was(i) \in 1 .. Len(waHeard) /\ Was(i) # k /\ (Was(i) = Was(j) => i = j)
             /\ rest[i] = waHeard[Was(i)]
      BY <1>0, <2>2, <3>1
    <3> HIDE DEF Was
    <3>2. Distinct(rest) /\ \A i \in 1 .. Len(rest) : rest[i] # u
      <4>1. \A i, j \in 1 .. Len(waHeard) : waHeard[i] = waHeard[j] => i = j
        BY <1>0 DEF Distinct
      <4> QED BY <2>2, <3>0, <4>1 DEF Distinct
    <3> DEFINE n == Len(providerCache)
               h == Len(waHeard)
               Put(i) == h - n + i
    <3>n. /\ n \in Nat /\ h \in Nat /\ n <= h /\ Len(rest) = h - 1
          /\ \A i, j \in 1 .. n : Put(i) \in 1 .. h /\ (Put(i) = Put(j) => i = j)
          /\ \A i \in 1 .. n : providerCache[i].user = waHeard[Put(i)]
          /\ k > h - n => k - (h - n) \in 1 .. n /\ Put(k - (h - n)) = k
      BY <1>0, <3>1 DEF EndOf
    <3>3. CASE Cached(u) = {}
      <4>1. Others(u) = providerCache
        BY <1>0, <3>3, OthersAre
      <4>2. k <= h - n /\ Len(rest) >= n
        <5> HIDE DEF Put
        <5>1. ~ (k > h - n)
          BY <1>0, <2>2, <3>3, <3>n
        <5> QED BY <3>n, <5>1
      <4>3. CASE n < ProviderCacheMax
        <5>1. room = providerCache
          BY <3>3, <4>1, <4>3, <1>0
        <5>2. \A i \in 1 .. n : rest[Len(rest) - n + i] = waHeard[Put(i)]
          <6> TAKE i \in 1 .. n
          <6> DEFINE at == h - 1 - n + i
          <6>1. Len(rest) - n + i = at /\ at \in 1 .. h - 1
            BY <3>n, <4>2
          <6>2. rest[at] = waHeard[IF at < k THEN at ELSE at + 1]
            BY <3>1, <6>1
          <6> QED BY <3>n, <4>2, <6>1, <6>2
        <5> HIDE DEF Put, room
        <5>3. EndOf(room, rest)
          BY <3>n, <4>2, <5>1, <5>2 DEF EndOf
        <5> QED BY <1>0, <3>1, <3>2, <3>n, <4>3, <5>1, <5>3
      <4>4. CASE n = ProviderCacheMax
        <5>1. room = Tail(providerCache) /\ providerCache # <<>>
          BY <3>3, <4>4, <1>0
        <5>2. /\ room \in Seq(Entry) /\ Len(room) = n - 1
              /\ \A i \in 1 .. n - 1 : room[i] = providerCache[i + 1]
          BY <1>0, <5>1, HeadTailProperties
        <5>3. \A i \in 1 .. n - 1 : rest[Len(rest) - (n - 1) + i] = waHeard[Put(i + 1)]
          BY <3>1, <3>n, <4>2
        <5>4. \A i \in 1 .. n - 1 : i + 1 \in 1 .. n
          BY <3>n
        <5> HIDE DEF Put, room
        <5>5. EndOf(room, rest)
          BY <3>n, <4>2, <5>2, <5>3, <5>4 DEF EndOf
        <5>6. ToSet(room) \subseteq ToSet(providerCache)
          <6>1. ASSUME NEW x \in ToSet(room) PROVE x \in ToSet(providerCache)
            <7>1. PICK i \in 1 .. n - 1 : x = room[i]
              BY <5>2, LenProperties DEF ToSet
            <7> QED BY <1>0, <5>2, <5>4, <7>1, TableIs
          <6> QED BY <6>1
        <5> QED BY <1>0, <3>1, <3>2, <3>n, <4>4, <5>2, <5>5, <5>6
      <4> QED BY <1>0, <3>n, <4>3, <4>4
    <3>4. CASE Cached(u) # {}
      <4>1. PICK i \in 1 .. Len(providerCache) :
                   providerCache[i].user = u /\ Others(u) = RemoveAt(providerCache, i)
        BY <1>0, <3>4, OthersAre
      <4>2. k = Put(i)
        <5> HIDE DEF Put
        <5>1. waHeard[Put(i)] = waHeard[k] /\ Put(i) \in 1 .. h
          BY <2>2, <3>n, <4>1
        <5> QED BY <1>0, <5>1 DEF Distinct
      <4>3. /\ room \in Seq(Entry) /\ Len(room) = n - 1
            /\ \A j \in 1 .. n - 1 :
                  room[j] = IF j < i THEN providerCache[j] ELSE providerCache[j + 1]
        BY <1>0, <3>4, <4>1, RemovedAt
      <4> DEFINE Kept(j) == IF j < i THEN j ELSE j + 1
      <4>4. \A j \in 1 .. n - 1 : Kept(j) \in 1 .. n /\ room[j] = providerCache[Kept(j)]
        <5> TAKE j \in 1 .. n - 1
        <5>1. room[j] = IF j < i THEN providerCache[j] ELSE providerCache[j + 1]
          BY <4>3
        <5>2. n \in Nat /\ i \in 1 .. n /\ j \in 1 .. n - 1
          BY <3>n
        <5> HIDE DEF room, n
        <5>3. CASE j < i
          BY <5>1, <5>2, <5>3
        <5>4. CASE ~(j < i)
          BY <5>1, <5>2, <5>4
        <5> QED BY <5>3, <5>4
      <4>5. \A j \in 1 .. n - 1 : rest[Len(rest) - Len(room) + j] = waHeard[Put(Kept(j))]
        <5> TAKE j \in 1 .. n - 1
        <5> DEFINE at == h - n + j
        <5>1. at \in 1 .. h - 1 /\ (at < k <=> j < i) /\ Len(rest) - Len(room) + j = at
          <6> HIDE DEF room
          <6>1. k = h - n + i /\ Len(rest) = h - 1 /\ Len(room) = n - 1
            BY <3>n, <4>2, <4>3
          <6> HIDE DEF n, h
          <6> QED BY <3>n, <6>1
        <5>2. Put(Kept(j)) = IF at < k THEN at ELSE at + 1
          BY <3>n, <4>2, <5>1
        <5> HIDE DEF at, Put, Kept
        <5> QED BY <3>1, <5>1, <5>2
      <4> HIDE DEF room, Put, Kept
      <4>6. ToSet(room) \subseteq ToSet(providerCache)
        <5>1. ASSUME NEW x \in ToSet(room) PROVE x \in ToSet(providerCache)
          <6>1. PICK j \in 1 .. n - 1 : x = room[j]
            BY <4>3, LenProperties DEF ToSet
          <6> QED BY <1>0, <4>4, <6>1, TableIs
        <5> QED BY <5>1
      <4>7. EndOf(room, rest)
        <5>1. \A j \in 1 .. n - 1 : room[j].user = rest[Len(rest) - Len(room) + j]
          BY <3>n, <4>4, <4>5
        <5> QED BY <3>n, <4>3, <5>1 DEF EndOf
      <4> QED BY <1>0, <3>1, <3>2, <3>n, <4>3, <4>6, <4>7
    <3> QED BY <3>3, <3>4
  <2> QED BY <1>0, <2>1, <2>2, FirstOf
<1>2. providerCache' = Append(room, e) /\ waHeard' = Append(rest, u) /\ e \in Entry /\ e.user = u
  BY DEF Remember, Remembered, Entry
<1> HIDE DEF room, rest, e
<1>3. /\ waHeard' \in Seq(WaUsers) /\ providerCache' \in Seq(Entry)
      /\ Distinct(waHeard') /\ EndOf(providerCache', waHeard')
      /\ ToSet(providerCache') = ToSet(room) \cup {e} /\ Len(providerCache') = Len(room) + 1
  BY <1>1, <1>2, RememberedAtEnd
<1>4. Len(room) + 1 <= ProviderCacheMax
  BY <1>0, <1>1
<1> QED BY <1>1, <1>3, <1>4 DEF e

(* What is remembered has its evidence, said of the table as a set.        *)
Shown(e) == e \in waEvidence \/ (e.provider = "twilio" /\ e.user \in waRefused)

LEMMA TableHolds ==
    /\ EntryHasEvidence <=> \A e \in ToSet(providerCache) : Shown(e)
    /\ EntryHasEvidence' <=> \A e \in ToSet(providerCache') : Shown(e)'
BY DEF EntryHasEvidence, Shown, ToSet

LEMMA WaStart == WaInit => WaInv
BY WhatsAppAssumption DEF WaInit, WaInv, WaTypeOK, Replies, Distinct, EndOf, EntryHasEvidence, ToSet

LEMMA WaStep == WaInv /\ [WaNext]_waVars => WaInv'
<1> SUFFICES ASSUME WaInv, [WaNext]_waVars PROVE WaInv'
  OBVIOUS
<1>1. ASSUME NEW u \in WaUsers, NEW p \in Providers, WaInbound(u, p) PROVE WaInv'
  <2>1. /\ Remember(u, p) /\ waEvidence' = waEvidence \cup {[user |-> u, provider |-> p]}
        /\ UNCHANGED <<waPaired, waSends, waDelivered, waRefused>>
    BY <1>1 DEF WaInbound
  <2>2. /\ waHeard' \in Seq(WaUsers) /\ providerCache' \in Seq(Entry)
        /\ Distinct(waHeard') /\ EndOf(providerCache', waHeard') /\ Len(providerCache') <= ProviderCacheMax
        /\ EntryHasEvidence' /\ waEvidence' \subseteq Entry
    <3>1. [user |-> u, provider |-> p] \in Entry
      BY DEF Entry
    <3>2. /\ waHeard' \in Seq(WaUsers) /\ providerCache' \in Seq(Entry)
          /\ Distinct(waHeard') /\ EndOf(providerCache', waHeard') /\ Len(providerCache') <= ProviderCacheMax
          /\ ToSet(providerCache') \subseteq ToSet(providerCache) \cup {[user |-> u, provider |-> p]}
      BY <2>1, RemembersRightly
    <3>3. EntryHasEvidence' /\ waEvidence' \subseteq Entry
      BY <2>1, <3>1, <3>2, TableHolds DEF WaInv, WaTypeOK, Shown, Entry
    <3> QED BY <3>2, <3>3
  <2>3. \A i \in DOMAIN providerCache' : providerCache'[i] \in Entry
    BY <2>2
  <2> QED BY <2>1, <2>2, <2>3 DEF WaInv, WaTypeOK, Entry
<1>2. ASSUME NEW r \in Replies, NEW u \in WaUsers, WaSend(r, u) PROVE WaInv'
  <2> DEFINE refused(p) == p = "twilio" /\ ~TwilioFrom
             new(p) == [user |-> u, provider |-> IF refused(p) THEN "done" ELSE p, known |-> Cached(u) # {}]
  <2>1. /\ r \notin DOMAIN waSends
        /\ UNCHANGED <<providerCache, waPaired, waDelivered, waEvidence, waRefused, waHeard>>
    BY <1>2 DEF WaSend
  <2>2. Cached(u) \subseteq Providers
    BY TableIs DEF WaInv
  <2>3. PICK p \in Providers : waSends' = [q \in DOMAIN waSends \cup {r} |-> IF q = r THEN new(p) ELSE waSends[q]]
    BY <1>2, <2>2 DEF WaSend, Providers
  <2>4. new(p) \in [user: WaUsers, provider: Providers \cup {"done"}, known: BOOLEAN]
    OBVIOUS
  <2> HIDE DEF new
  <2> QED BY <2>1, <2>3, <2>4 DEF WaInv, WaTypeOK, EntryHasEvidence
<1>3. ASSUME NEW r \in Replies, NEW result \in Results, WaResult(r, result) PROVE WaInv'
  <2> DEFINE u == waSends[r].user
             p == waSends[r].provider
             fallback == p = "meta" /\ ~waSends[r].known /\ FallsBack(result) /\ TwilioFrom
             next == IF fallback THEN "twilio" ELSE "done"
  <2>1. /\ r \in DOMAIN waSends /\ p # "done" /\ UNCHANGED waPaired
        /\ waSends' = [waSends EXCEPT ![r].provider = next]
        /\ waEvidence' = IF result = "ok" THEN waEvidence \cup {[user |-> u, provider |-> p]} ELSE waEvidence
        /\ waRefused \subseteq waRefused' /\ waRefused' \subseteq waRefused \cup {u}
        /\ \/ Remember(u, p) /\ (result = "ok" \/ (p = "twilio" /\ u \in waRefused'))
           \/ UNCHANGED <<providerCache, waHeard>>
    BY <1>3 DEF WaResult, Learns
  <2>2. PICK out \in Out(result) : waDelivered' = [waDelivered EXCEPT ![r] = @ + out]
    BY <1>3 DEF WaResult
  <2>3. waSends[r] \in [user: WaUsers, provider: Providers \cup {"done"}, known: BOOLEAN] /\ p \in Providers /\ u \in WaUsers
    BY <2>1 DEF WaInv, WaTypeOK
  <2>4. waDelivered[r] = 0 /\ out \in {0, 1} /\ (fallback => out = 0)
    BY <2>1, <2>2 DEF WaInv, Out, FallsBack
  <2>5. /\ DOMAIN waSends' = DOMAIN waSends
        /\ \A q \in DOMAIN waSends : q # r => waSends'[q] = waSends[q]
        /\ waSends'[r] \in [user: WaUsers, provider: Providers \cup {"done"}, known: BOOLEAN]
        /\ waSends'[r].provider = next
    BY <2>1, <2>3 DEF Providers
  <2>6. /\ waDelivered' \in [Replies -> Nat] /\ \A q \in Replies \ {r} : waDelivered'[q] = waDelivered[q]
        /\ waDelivered'[r] = out
    BY <2>2, <2>4 DEF WaInv, WaTypeOK
  <2>7. /\ waHeard' \in Seq(WaUsers) /\ providerCache' \in Seq(Entry)
        /\ Distinct(waHeard') /\ EndOf(providerCache', waHeard') /\ Len(providerCache') <= ProviderCacheMax
        /\ EntryHasEvidence' /\ waEvidence' \subseteq Entry
    <3>1. [user |-> u, provider |-> p] \in Entry
      BY <2>3 DEF Entry
    <3> HIDE DEF u, p
    <3>2. CASE Remember(u, p) /\ (result = "ok" \/ (p = "twilio" /\ u \in waRefused'))
      <4>1. /\ waHeard' \in Seq(WaUsers) /\ providerCache' \in Seq(Entry)
            /\ Distinct(waHeard') /\ EndOf(providerCache', waHeard') /\ Len(providerCache') <= ProviderCacheMax
            /\ ToSet(providerCache') \subseteq ToSet(providerCache) \cup {[user |-> u, provider |-> p]}
        BY <2>3, <3>2, RemembersRightly
      <4>2. EntryHasEvidence' /\ waEvidence' \subseteq Entry
        BY <2>1, <3>1, <3>2, <4>1, TableHolds DEF WaInv, WaTypeOK, Shown, Entry
      <4> QED BY <4>1, <4>2
    <3>3. CASE UNCHANGED <<providerCache, waHeard>>
      BY <2>1, <3>1, <3>3 DEF WaInv, WaTypeOK, EntryHasEvidence, Entry
    <3> QED BY <2>1, <3>2, <3>3
  <2>8. \A q \in Replies :
          /\ waDelivered'[q] <= 1
          /\ (q \in DOMAIN waSends' => waSends'[q].provider # "done") => waDelivered'[q] = 0
    BY <2>1, <2>4, <2>5, <2>6 DEF WaInv
  <2>9. \A i \in DOMAIN providerCache' : providerCache'[i] \in Entry
    BY <2>7
  <2>10. /\ waPaired' = waPaired /\ waRefused' \subseteq WaUsers /\ DOMAIN waSends' \subseteq Replies
         /\ \A q \in DOMAIN waSends' :
               waSends'[q] \in [user: WaUsers, provider: Providers \cup {"done"}, known: BOOLEAN]
    BY <2>1, <2>3, <2>5 DEF WaInv, WaTypeOK
  <2> HIDE DEF u, p, fallback, next
  <2> QED BY <2>6, <2>7, <2>8, <2>9, <2>10 DEF WaInv, WaTypeOK, Entry
<1>4. ASSUME NEW u \in WaUsers, WaUnpair(u) PROVE WaInv'
  BY <1>4 DEF WaUnpair, WaInv, WaTypeOK, EntryHasEvidence
<1>5. CASE UNCHANGED waVars
  BY <1>5 DEF waVars, WaInv, WaTypeOK, EntryHasEvidence
<1> QED BY <1>1, <1>2, <1>3, <1>4, <1>5 DEF WaNext

LEMMA WaKeeps == WaInv => WaTypeOK /\ RepliedOnce /\ EntryHasEvidence /\ RecentRemembered
<1> SUFFICES ASSUME WaInv PROVE RecentRemembered
  BY DEF WaInv, RepliedOnce
<1> QED BY DEF WaInv, RecentRemembered, EndOf


-----------------------------------------------------------------------------
(* The IMAP bridge: a round visits what its search found.                  *)

(* The lists of a round, by its stage: what was sought is unseen, what was *)
(* fetched is seen, and only the mail being marked is an envelope already. *)
RoundInv ==
    /\ \A i \in 1 .. Len(sought) : flag[sought[i]] = "unseen"
    /\ \A i \in 1 .. Len(fetched) : flag[fetched[i]] = "seen"
    /\ Distinct(sought) /\ Distinct(fetched)
    /\ stage = "fetching" <=> sought # <<>>
    /\ stage = "idle" => fetched = <<>>
    /\ stage \in {"processing", "marking"} => fetched # <<>>

EnvelopesInv ==
    \A x \in Mails :
        /\ delivered[x] <= 1
        /\ delivered[x] > 0 =>
              flag[x] = "seen" /\ \A i \in 1 .. Len(fetched) : fetched[i] = x => i = 1 /\ stage = "marking"

ImapInv ==
    /\ ImapTypeOK /\ RoundInv /\ EnvelopesInv /\ SubjectOfThread
    /\ \A t \in DOMAIN subjects : subjects[t] \in Mails /\ ThreadOf[subjects[t]] = t
    /\ IsFiniteSet({x \in Mails : flag[x] # "absent"})

LEMMA ListsAre ==
    ASSUME NEW s \in Seq(Mails)
    PROVE  /\ Len(s) \in Nat /\ \A i \in 1 .. Len(s) : s[i] \in Mails
           /\ s # <<>> => /\ Len(s) \in Nat \ {0} /\ Head(s) = s[1] /\ Head(s) \in Mails
                          /\ Tail(s) \in Seq(Mails) /\ Len(Tail(s)) = Len(s) - 1
                          /\ \A i \in 1 .. Len(s) - 1 : Tail(s)[i] = s[i + 1]
           /\ s = <<>> <=> Len(s) = 0
BY HeadTailProperties, EmptySeq, ElementOfSeq

LEMMA ListedOnce ==
    ASSUME NEW S \in SUBSET Mails, IsFiniteSet(S)
    PROVE  /\ SetToSeq(S) \in Seq(Mails) /\ Distinct(SetToSeq(S))
           /\ \A i \in 1 .. Len(SetToSeq(S)) : SetToSeq(S)[i] \in S
<1> DEFINE n == Cardinality(S)
           f == SetToSeq(S)
<1>1. n \in Nat /\ ExistsBijection(1 .. n, S)
  BY FS_CountingElements, FS_CardinalityType
<1>2. PICK g \in Bijection(1 .. n, S) : TRUE
  BY <1>1 DEF ExistsBijection
<1>3. g \in [1 .. n -> S] /\ IsInjective(g)
  BY <1>2 DEF Bijection, Injection, IsInjective
<1>4. f \in [1 .. n -> S] /\ IsInjective(f)
  BY <1>3 DEF SetToSeq
<1> HIDE DEF f, n
<1>5. f \in Seq(Mails) /\ Len(f) = n /\ DOMAIN f = 1 .. n
  <2>1. \A i \in 1 .. n : f[i] \in Mails
    BY <1>4
  <2>2. f = [i \in 1 .. n |-> f[i]]
    BY <1>4
  <2> QED BY <1>1, <1>4, <2>1
<1>6. Distinct(f)
  BY <1>4, <1>5 DEF IsInjective, Distinct
<1> QED BY <1>4, <1>5, <1>6 DEF f

LEMMA ImapStart == ImapInit => ImapInv
<1> SUFFICES ASSUME ImapInit PROVE ImapInv
  OBVIOUS
<1>1. {x \in Mails : flag[x] # "absent"} = {}
  BY DEF ImapInit
<1>2. IsFiniteSet({x \in Mails : flag[x] # "absent"})
  BY <1>1, FS_EmptySet
<1>3. Len(sought) = 0 /\ Len(fetched) = 0 /\ sought \in Seq(Mails) /\ fetched \in Seq(Mails)
  BY DEF ImapInit
<1> QED BY <1>2, <1>3, ImapAssumption
        DEF ImapInit, ImapInv, ImapTypeOK, RoundInv, EnvelopesInv, SubjectOfThread, Distinct

LEMMA ImapStep == ImapInv /\ [ImapNext]_imapVars => ImapInv'
<1> SUFFICES ASSUME ImapInv, [ImapNext]_imapVars PROVE ImapInv'
  OBVIOUS
<1> USE ImapAssumption
<1> DEFINE Come == {x \in Mails : flag[x] # "absent"}
<1>0. /\ ImapTypeOK /\ RoundInv /\ EnvelopesInv /\ SubjectOfThread /\ IsFiniteSet(Come)
      /\ sought \in Seq(Mails) /\ fetched \in Seq(Mails) /\ delivered \in [Mails -> Nat]
      /\ flag \in [Mails -> {"absent", "unseen", "seen"}]
      /\ \A t \in DOMAIN subjects : subjects[t] \in Mails /\ ThreadOf[subjects[t]] = t
  BY DEF ImapInv, ImapTypeOK
<1>1. ASSUME NEW x \in Mails, MailArrives(x) PROVE ImapInv'
  <2>1. /\ flag[x] = "absent" /\ flag' = [flag EXCEPT ![x] = "unseen"]
        /\ UNCHANGED <<session, attempt, sought, fetched, stage, uidSeen, subjects, delivered,
                       gated, mailed, drops>>
    BY <1>1 DEF MailArrives
  <2>2. /\ flag' \in [Mails -> {"absent", "unseen", "seen"}] /\ flag'[x] = "unseen"
        /\ \A y \in Mails \ {x} : flag'[y] = flag[y]
    BY <1>0, <2>1
  <2>3. Come' = Come \cup {x}
    BY <2>2
  <2>4. IsFiniteSet(Come')
    <3> HIDE DEF Come
    <3> QED BY <1>0, <2>3, FS_AddElement
  <2>5. RoundInv'
    BY <1>0, <2>1, <2>2, ListsAre DEF RoundInv
  <2>6. EnvelopesInv'
    BY <1>0, <2>1, <2>2 DEF EnvelopesInv
  <2> QED BY <1>0, <2>1, <2>2, <2>4, <2>5, <2>6 DEF ImapInv, ImapTypeOK, SubjectOfThread
<1>2. ASSUME UNCHANGED <<flag, sought, fetched, stage, uidSeen, subjects, delivered, gated, mailed>>,
             session' \in {"none", "raw", "ready"}, attempt' \in 0 .. BackoffLength
      PROVE  ImapInv'
  BY <1>0, <1>2 DEF ImapInv, ImapTypeOK, RoundInv, EnvelopesInv, SubjectOfThread
<1>3. CASE ReconnectAttempt \/ SearchRaises \/ UNCHANGED imapVars
  <2>1. session \in {"none", "raw", "ready"} /\ attempt \in 0 .. BackoffLength
    BY <1>0 DEF ImapTypeOK
  <2>2. CASE ReconnectAttempt
    BY <1>2, <2>1, <2>2 DEF ReconnectAttempt
  <2>3. CASE SearchRaises
    BY <1>2, <2>3 DEF SearchRaises
  <2>4. CASE UNCHANGED imapVars
    BY <1>2, <2>1, <2>4 DEF imapVars
  <2> QED BY <1>3, <2>2, <2>3, <2>4
<1>4. CASE SearchUnseen
  <2> DEFINE S == {x \in Mails : flag[x] = "unseen"}
  <2>1. /\ stage = "idle" /\ sought' = SetToSeq(S) /\ sought' # <<>> /\ stage' = "fetching"
        /\ UNCHANGED <<flag, session, attempt, fetched, uidSeen, subjects, delivered, gated, mailed, drops>>
    BY <1>4 DEF SearchUnseen
  <2>2. IsFiniteSet(S)
    <3>1. S \subseteq Come
      OBVIOUS
    <3> QED BY <1>0, <3>1, FS_Subset
  <2>3. sought' \in Seq(Mails) /\ Distinct(sought') /\ \A i \in 1 .. Len(sought') : flag[sought'[i]] = "unseen"
    BY <2>1, <2>2, ListedOnce
  <2>4. fetched = <<>> /\ Len(fetched) = 0
    BY <1>0, <2>1 DEF RoundInv
  <2>5. RoundInv' /\ EnvelopesInv'
    BY <1>0, <2>1, <2>3, <2>4 DEF RoundInv, EnvelopesInv
  <2> QED BY <1>0, <2>1, <2>3, <2>5 DEF ImapInv, ImapTypeOK, SubjectOfThread
<1>5. CASE FetchOne
  <2> DEFINE x == Head(sought)
  <2>1. /\ stage = "fetching" /\ fetched' = Append(fetched, x) /\ flag' = [flag EXCEPT ![x] = "seen"]
        /\ sought' = Tail(sought) /\ stage' = IF Len(sought) = 1 THEN "processing" ELSE stage
        /\ UNCHANGED <<session, attempt, uidSeen, subjects, delivered, gated, mailed, drops>>
    BY <1>5 DEF FetchOne, AfterFetch
  <2>2. sought # <<>> /\ Len(sought) \in Nat \ {0} /\ x = sought[1] /\ x \in Mails /\ flag[x] = "unseen"
    BY <1>0, <2>1, ListsAre DEF RoundInv
  <2> HIDE DEF x
  <2>3. /\ sought' \in Seq(Mails) /\ Len(sought') = Len(sought) - 1
        /\ \A i \in 1 .. Len(sought) - 1 : sought'[i] = sought[i + 1]
        /\ sought' = <<>> <=> Len(sought) = 1
    <3>1. /\ sought' \in Seq(Mails) /\ Len(sought') = Len(sought) - 1
          /\ \A i \in 1 .. Len(sought) - 1 : sought'[i] = sought[i + 1]
      BY <1>0, <2>1, <2>2, ListsAre
    <3>2. sought' = <<>> <=> Len(sought') = 0
      BY <3>1, ListsAre
    <3> QED BY <2>2, <3>1, <3>2
  <2>4. /\ fetched' \in Seq(Mails) /\ Len(fetched') = Len(fetched) + 1 /\ Len(fetched) \in Nat
        /\ fetched'[Len(fetched) + 1] = x /\ \A i \in 1 .. Len(fetched) : fetched'[i] = fetched[i]
        /\ fetched' # <<>>
    <3>1. fetched \in Seq(Mails) /\ x \in Mails
      BY <1>0, <2>2
    <3>2. Len(fetched) \in Nat
      BY <3>1, ListsAre
    <3>3. /\ Append(fetched, x) \in Seq(Mails) /\ Len(Append(fetched, x)) = Len(fetched) + 1
          /\ Append(fetched, x)[Len(fetched) + 1] = x /\ Append(fetched, x) # <<>>
          /\ \A i \in 1 .. Len(fetched) : Append(fetched, x)[i] = fetched[i]
      BY <3>1, AppendProperties
    <3>4. fetched' = Append(fetched, x)
      BY <2>1
    <3> QED BY <3>2, <3>3, <3>4
  <2>5. /\ flag' \in [Mails -> {"absent", "unseen", "seen"}] /\ flag'[x] = "seen"
        /\ \A y \in Mails \ {x} : flag'[y] = flag[y]
    BY <1>0, <2>1, <2>2
  <2>6. Come' = Come
    BY <2>2, <2>5
  <2>7. \A i \in 1 .. Len(sought') : sought'[i] # x /\ sought'[i] \in Mails /\ flag[sought'[i]] = "unseen"
    <3> TAKE i \in 1 .. Len(sought')
    <3>1. i + 1 \in 1 .. Len(sought) /\ 1 \in 1 .. Len(sought) /\ i + 1 # 1 /\ sought'[i] = sought[i + 1]
      BY <2>2, <2>3
    <3>2. sought[i + 1] # sought[1] /\ sought[i + 1] \in Mails /\ flag[sought[i + 1]] = "unseen"
      BY <1>0, <3>1, ListsAre DEF RoundInv, Distinct
    <3> QED BY <2>2, <3>1, <3>2
  <2>8. \A i \in 1 .. Len(fetched) : fetched[i] # x /\ fetched[i] \in Mails /\ flag[fetched[i]] = "seen"
    <3> TAKE i \in 1 .. Len(fetched)
    <3>1. flag[fetched[i]] = "seen" /\ fetched[i] \in Mails
      BY <1>0, ListsAre DEF RoundInv
    <3> QED BY <2>2, <3>1
  <2>0. \A i \in 1 .. Len(fetched') : fetched'[i] = x \/ (i \in 1 .. Len(fetched) /\ fetched'[i] = fetched[i])
    BY <2>4
  <2>9. RoundInv'
    <3>1. \A i \in 1 .. Len(fetched') : flag'[fetched'[i]] = "seen"
      BY <2>0, <2>5, <2>8
    <3>2. Distinct(fetched')
      <4>1. \A i, j \in 1 .. Len(fetched) : fetched[i] = fetched[j] => i = j
        BY <1>0 DEF RoundInv, Distinct
      <4>2. \A i \in 1 .. Len(fetched') : i \in 1 .. Len(fetched) \/ i = Len(fetched) + 1
        BY <2>4
      <4> QED BY <2>4, <2>8, <4>1, <4>2 DEF Distinct
    <3>3. Distinct(sought')
      <4>1. \A i, j \in 1 .. Len(sought) : sought[i] = sought[j] => i = j
        BY <1>0 DEF RoundInv, Distinct
      <4>2. \A i \in 1 .. Len(sought') : i + 1 \in 1 .. Len(sought) /\ sought'[i] = sought[i + 1]
        BY <2>2, <2>3
      <4>3. ASSUME NEW i \in 1 .. Len(sought'), NEW j \in 1 .. Len(sought'), sought'[i] = sought'[j]
            PROVE  i = j
        <5>1. i + 1 = j + 1
          BY <4>1, <4>2, <4>3
        <5> QED BY <2>2, <2>3, <5>1
      <4> QED BY <4>3 DEF Distinct
    <3> QED BY <2>1, <2>3, <2>4, <2>5, <2>7, <3>1, <3>2, <3>3 DEF RoundInv
  <2>10. EnvelopesInv'
    <3>1. delivered[x] = 0 /\ \A i \in 1 .. Len(fetched) : delivered[fetched[i]] = 0
      <4>1. \A y \in Mails : delivered[y] \in Nat /\ (delivered[y] > 0 =>
                 flag[y] = "seen" /\ \A i \in 1 .. Len(fetched) : fetched[i] # y)
        BY <1>0, <2>1 DEF EnvelopesInv
      <4> QED BY <2>2, <2>8, <4>1
    <3>2. \A i \in 1 .. Len(fetched') : delivered[fetched'[i]] = 0
      BY <2>0, <3>1
    <3> QED BY <1>0, <2>1, <2>2, <2>5, <3>1, <3>2 DEF EnvelopesInv
  <2> QED BY <1>0, <2>1, <2>3, <2>4, <2>5, <2>6, <2>9, <2>10 DEF ImapInv, ImapTypeOK, SubjectOfThread
<1>6. CASE ProcessMail
  <2> DEFINE x == Head(fetched)
  <2>1. /\ stage = "processing" /\ stage' = "marking"
        /\ UNCHANGED <<flag, session, attempt, sought, fetched, mailed, drops>>
        /\ subjects' \in {subjects, Subjects(x)}
        /\ \/ uidSeen' = uidSeen \cup {x} /\ delivered' = [delivered EXCEPT ![x] = @ + 1] /\ gated' = gated
           \/ gated' = gated \cup {x} /\ uidSeen' = uidSeen /\ delivered' = delivered
    BY <1>6 DEF ProcessMail
  <2>2. fetched # <<>> /\ Len(fetched) \in Nat \ {0} /\ x = fetched[1] /\ x \in Mails /\ flag[x] = "seen"
        /\ delivered[x] = 0
    BY <1>0, <2>1, ListsAre DEF RoundInv, EnvelopesInv
  <2> HIDE DEF x
  <2>3. /\ DOMAIN subjects' \subseteq Threads
        /\ \A t \in DOMAIN subjects' : subjects'[t] \in Mails /\ ThreadOf[subjects'[t]] = t
    BY <1>0, <2>1, <2>2 DEF Subjects, ImapTypeOK
  <2>4. RoundInv'
    BY <1>0, <2>1 DEF RoundInv
  <2>5. /\ delivered' \in [Mails -> Nat] /\ delivered'[x] \in {0, 1}
        /\ \A y \in Mails \ {x} : delivered'[y] = delivered[y]
    BY <1>0, <2>1, <2>2
  <2>6. \A i \in 1 .. Len(fetched) : fetched[i] = x => i = 1
    BY <1>0, <2>2 DEF RoundInv, Distinct
  <2>7. EnvelopesInv'
    BY <1>0, <2>1, <2>2, <2>5, <2>6 DEF EnvelopesInv
  <2>8. uidSeen' \subseteq Mails /\ gated' \subseteq Mails
    BY <1>0, <2>1, <2>2 DEF ImapTypeOK
  <2> QED BY <1>0, <2>1, <2>3, <2>4, <2>5, <2>7, <2>8 DEF ImapInv, ImapTypeOK, SubjectOfThread
<1>7. ASSUME NEW x \in Mails, SendReply(x) PROVE ImapInv'
  <2> DEFINE t == ThreadOf[x]
             m == [thread |-> t, subject |-> IF t \in DOMAIN subjects THEN subjects[t] ELSE NoMail]
  <2>1. /\ mailed' = mailed \cup {m}
        /\ UNCHANGED <<flag, session, attempt, sought, fetched, stage, uidSeen, subjects, delivered, gated, drops>>
    BY <1>7 DEF SendReply
  <2>2. m \in [thread: Threads, subject: Mails \cup {NoMail}] /\ (m.subject = NoMail \/ ThreadOf[m.subject] = m.thread)
    BY <1>0
  <2> HIDE DEF m
  <2>3. SubjectOfThread' /\ mailed' \subseteq [thread: Threads, subject: Mails \cup {NoMail}]
    BY <1>0, <2>1, <2>2 DEF SubjectOfThread, ImapTypeOK
  <2> QED BY <1>0, <2>1, <2>3 DEF ImapInv, ImapTypeOK, RoundInv, EnvelopesInv
<1>8. CASE MarkSeen
  <2> DEFINE x == Head(fetched)
  <2>1. /\ stage = "marking" /\ flag' = [flag EXCEPT ![x] = "seen"] /\ fetched' = Tail(fetched)
        /\ stage' = IF Len(fetched) = 1 THEN "idle" ELSE "processing"
        /\ UNCHANGED <<session, attempt, sought, uidSeen, subjects, delivered, gated, mailed, drops>>
    BY <1>8 DEF MarkSeen
  <2>2. fetched # <<>> /\ Len(fetched) \in Nat \ {0} /\ x = fetched[1] /\ x \in Mails /\ flag[x] = "seen"
        /\ sought = <<>> /\ Len(sought) = 0
    BY <1>0, <2>1, ListsAre DEF RoundInv
  <2> HIDE DEF x
  <2>3. flag' = flag
    BY <1>0, <2>1, <2>2
  <2>4. /\ fetched' \in Seq(Mails) /\ Len(fetched') = Len(fetched) - 1
        /\ \A i \in 1 .. Len(fetched) - 1 : fetched'[i] = fetched[i + 1]
        /\ fetched' = <<>> <=> Len(fetched) = 1
    <3>1. /\ fetched' \in Seq(Mails) /\ Len(fetched') = Len(fetched) - 1
          /\ \A i \in 1 .. Len(fetched) - 1 : fetched'[i] = fetched[i + 1]
      BY <1>0, <2>1, <2>2, ListsAre
    <3>2. fetched' = <<>> <=> Len(fetched') = 0
      BY <3>1, ListsAre
    <3> QED BY <2>2, <3>1, <3>2
  <2>0. \A i \in 1 .. Len(fetched') :
           i + 1 \in 1 .. Len(fetched) /\ i + 1 # 1 /\ fetched'[i] = fetched[i + 1]
    BY <2>2, <2>4
  <2>5. RoundInv'
    <3>1. Distinct(fetched') /\ \A i \in 1 .. Len(fetched') : flag[fetched'[i]] = "seen"
      <4>1. \A i, j \in 1 .. Len(fetched) : fetched[i] = fetched[j] => i = j
        BY <1>0 DEF RoundInv, Distinct
      <4>2. ASSUME NEW i \in 1 .. Len(fetched'), NEW j \in 1 .. Len(fetched'), fetched'[i] = fetched'[j]
            PROVE  i = j
        <5>1. i + 1 = j + 1
          BY <2>0, <4>1, <4>2
        <5> QED BY <2>2, <2>4, <5>1
      <4>3. \A i \in 1 .. Len(fetched') : flag[fetched'[i]] = "seen"
        <5>1. \A i \in 1 .. Len(fetched) : flag[fetched[i]] = "seen"
          BY <1>0 DEF RoundInv
        <5> QED BY <2>0, <5>1
      <4> QED BY <4>2, <4>3 DEF Distinct
    <3>2. /\ stage' \in {"idle", "processing"} /\ (stage' = "idle" => fetched' = <<>>)
          /\ stage' = "processing" => fetched' # <<>>
      BY <2>1, <2>4
    <3>3. sought' = <<>> /\ Len(sought') = 0
      BY <2>1, <2>2
    <3> QED BY <2>3, <3>1, <3>2, <3>3 DEF RoundInv, Distinct
  <2>6. EnvelopesInv'
    <3>1. \A i \in 1 .. Len(fetched') : fetched'[i] \in Mails /\ delivered[fetched'[i]] = 0
      <4> TAKE i \in 1 .. Len(fetched')
      <4>1. fetched[i + 1] \in Mails
        BY <1>0, <2>0, ListsAre
      <4>2. ~ delivered[fetched[i + 1]] > 0
        BY <1>0, <2>0, <4>1 DEF EnvelopesInv
      <4> QED BY <1>0, <2>0, <4>1, <4>2
    <3> QED BY <1>0, <2>1, <2>3, <3>1 DEF EnvelopesInv
  <2>7. stage' \in {"idle", "fetching", "processing", "marking"}
    BY <2>1
  <2>8. ImapTypeOK'
    BY <1>0, <2>1, <2>3, <2>4, <2>7 DEF ImapTypeOK
  <2>9. Come' = Come
    BY <2>3
  <2> HIDE DEF Come
  <2>10. IsFiniteSet(Come')
    BY <1>0, <2>9
  <2> QED BY <1>0, <2>1, <2>5, <2>6, <2>8, <2>10 DEF ImapInv, SubjectOfThread, Come
<1>9. CASE RoundFails \/ ImapRestarts
  <2>1. /\ session' = "none" /\ attempt' = 1 /\ sought' = <<>> /\ fetched' = <<>> /\ stage' = "idle"
        /\ UNCHANGED <<flag, uidSeen, delivered, gated, mailed>> /\ subjects' \in {subjects, <<>>}
    BY <1>9 DEF RoundFails, ImapRestarts
  <2>2. Len(sought') = 0 /\ Len(fetched') = 0
    BY <2>1
  <2>3. RoundInv' /\ EnvelopesInv'
    BY <1>0, <2>1, <2>2 DEF RoundInv, EnvelopesInv, Distinct
  <2>4. DOMAIN subjects' \subseteq DOMAIN subjects /\ \A t \in DOMAIN subjects' : subjects'[t] = subjects[t]
    BY <2>1
  <2> QED BY <1>0, <2>1, <2>3, <2>4 DEF ImapInv, ImapTypeOK, SubjectOfThread
<1> QED BY <1>1, <1>3, <1>4, <1>5, <1>6, <1>7, <1>8, <1>9 DEF ImapNext

LEMMA ImapKeeps == ImapInv => ImapTypeOK /\ NoMailTwice /\ SubjectOfThread
BY DEF ImapInv, EnvelopesInv, NoMailTwice


-----------------------------------------------------------------------------
(* Gmail's poller and the files it shares with IMAP.                       *)

(* A file is no older than the last reference given to it.                 *)
ArtInv ==
    /\ ArtTypeOK /\ FreshRefLives
    /\ \A h \in handedOut : h.at <= artNow /\ (h.blob \in DOMAIN created => h.at <= created[h.blob])

LEMMA ArtKept ==
    ASSUME ArtInv,
           \/ \E bs \in SUBSET Blobs : StoreAll(bs)
           \/ Sweep \/ ArtTick \/ UNCHANGED artVars
           \/ \E b \in Blobs : ImapStore(b)
    PROVE  ArtInv'
<1> USE ArtifactsAssumption
<1>0. /\ artNow \in 0 .. ArtMaxTime /\ present \subseteq Blobs /\ DOMAIN created \subseteq Blobs
      /\ \A b \in DOMAIN created : created[b] \in 0 .. artNow
      /\ handedOut \subseteq [blob: Blobs, at: 0 .. ArtMaxTime]
      /\ \A h \in handedOut : /\ h.at \in 0 .. ArtMaxTime /\ h.at <= artNow
                              /\ h.blob \in DOMAIN created => h.at <= created[h.blob]
                              /\ artNow - h.at <= MaxAge => h.blob \in present
  BY DEF ArtInv, ArtTypeOK, FreshRefLives
<1>1. ASSUME NEW bs \in SUBSET Blobs, StoreAll(bs) PROVE ArtInv'
  BY <1>0, <1>1 DEF StoreAll, ArtInv, ArtTypeOK, FreshRefLives
<1>2. CASE Sweep
  BY <1>0, <1>2 DEF Sweep, Expired, ArtInv, ArtTypeOK, FreshRefLives
<1>3. CASE ArtTick
  BY <1>0, <1>3 DEF ArtTick, ArtInv, ArtTypeOK, FreshRefLives
<1>4. ASSUME NEW b \in Blobs, ImapStore(b) PROVE ArtInv'
  BY <1>0, <1>4 DEF ImapStore, ArtInv, ArtTypeOK, FreshRefLives
<1>5. CASE UNCHANGED artVars
  BY <1>0, <1>5 DEF artVars, ArtInv, ArtTypeOK, FreshRefLives
<1> QED BY <1>1, <1>2, <1>3, <1>4, <1>5

(* What is still to be visited lies past the cursor; what was answered is  *)
(* remembered, or the cursor is past it; what the listing went up to was   *)
(* visited, lies in the batch, or was beyond the page.                     *)
MailInv ==
    /\ Len(history) <= MaxMails
    /\ history \in Seq({"peer", "own", "reply"})
    /\ gmCursor \in 0 .. Len(history)
    /\ processed \subseteq Ids /\ handling \in Ids \cup {0} /\ unpaged \subseteq Ids
    /\ batch \in Seq(Ids) /\ batchEnd \in 0 .. Len(history)
    /\ gmPolling \in BOOLEAN
    /\ answers \in [1 .. MaxMails -> Nat]

VisitsInv ==
    /\ \A i \in 1 .. Len(batch) : batch[i] > gmCursor
    /\ handling # 0 => handling > gmCursor /\ handling \in processed /\ answers[handling] = 0
    /\ \A i \in 1 .. MaxMails :
          /\ answers[i] <= 1
          /\ answers[i] > 0 => /\ i <= Len(history) /\ history[i] = "peer"
                               /\ i \in processed \/ i <= gmCursor
    /\ CursorBehindVisits
    /\ \A i \in 1 .. batchEnd : i \in processed \cup unpaged \/ \E j \in 1 .. Len(batch) : batch[j] = i

GmailInv == ArtInv /\ MailInv /\ VisitsInv

LEMMA GmailStart == GmailInit => GmailInv
<1> SUFFICES ASSUME GmailInit PROVE GmailInv
  OBVIOUS
<1>1. ArtInv
  BY ArtifactsAssumption DEF GmailInit, ArtInit, ArtInv, ArtTypeOK, FreshRefLives
<1>2. Len(history) = 0 /\ Len(batch) = 0 /\ history = <<>> /\ batch = <<>>
  BY DEF GmailInit
<1>3. MailInv
  <2>1. history \in Seq({"peer", "own", "reply"}) /\ batch \in Seq(Ids)
    BY <1>2
  <2>2. /\ gmCursor = 0 /\ processed = {} /\ batchEnd = 0 /\ handling = 0 /\ gmPolling \in BOOLEAN
        /\ unpaged = {} /\ answers \in [1 .. MaxMails -> Nat]
    BY GmailAssumption DEF GmailInit
  <2>3. Len(history) = 0 /\ MaxMails \in Nat
    BY <1>2, GmailAssumption
  <2>4. /\ Len(history) <= MaxMails /\ gmCursor \in 0 .. Len(history) /\ batchEnd \in 0 .. Len(history)
        /\ processed \subseteq Ids /\ handling \in Ids \cup {0} /\ unpaged \subseteq Ids
    BY <2>2, <2>3
  <2> QED BY <2>1, <2>2, <2>4 DEF MailInv
<1>4. VisitsInv
  BY <1>2, GmailAssumption DEF GmailInit, VisitsInv, CursorBehindVisits
<1> QED BY <1>1, <1>3, <1>4 DEF GmailInv

(* The mailbox gets one mail more.                                         *)
LEMMA OneMore ==
    ASSUME MailInv, NEW kind \in {"peer", "own", "reply"}, history' = Append(history, kind),
           Len(history) < MaxMails
    PROVE  /\ history' \in Seq({"peer", "own", "reply"}) /\ Len(history) \in Nat
           /\ Len(history') = Len(history) + 1 /\ Len(history') <= MaxMails
           /\ \A i \in Ids : history'[i] = history[i] /\ i \in Ids'
           /\ Len(history) + 1 \in Ids'
<1>1. Len(history) \in Nat /\ MaxMails \in Nat /\ history \in Seq({"peer", "own", "reply"})
  BY GmailAssumption DEF MailInv
<1>2. /\ history' \in Seq({"peer", "own", "reply"}) /\ Len(history') = Len(history) + 1
      /\ \A i \in 1 .. Len(history) : history'[i] = history[i]
  <2>1. \A S : \A s \in Seq(S) : \A e \in S :
           /\ Append(s, e) \in Seq(S) /\ Len(Append(s, e)) = Len(s) + 1
           /\ \A i \in 1 .. Len(s) : Append(s, e)[i] = s[i]
    BY AppendProperties
  <2> DEFINE K == {"peer", "own", "reply"}
             h == Append(history, kind)
  <2>2. history \in Seq(K) /\ kind \in K /\ history' = h
    BY <1>1
  <2> HIDE DEF K
  <2>3. h \in Seq(K) /\ Len(h) = Len(history) + 1 /\ \A i \in 1 .. Len(history) : h[i] = history[i]
    BY <2>1, <2>2
  <2> HIDE DEF h
  <2> QED BY <2>2, <2>3 DEF K
<1>3. Ids = 1 .. Len(history) /\ Ids' = 1 .. Len(history')
  BY DEF Ids
<1> QED BY <1>1, <1>2, <1>3

(* What MailInv says of one state is what it says of the next, when the    *)
(* mailbox does not change.                                                *)
LEMMA SameIds == history' = history => Ids' = Ids
BY DEF Ids

LEMMA GmailStep == GmailInv /\ [GmailNext]_gmailVars => GmailInv'
<1> SUFFICES ASSUME GmailInv, [GmailNext]_gmailVars PROVE GmailInv'
  OBVIOUS
<1> USE GmailAssumption
<1>0. /\ ArtInv /\ MailInv /\ VisitsInv /\ Len(history) \in Nat /\ Len(batch) \in Nat /\ MaxMails \in Nat
      /\ history \in Seq({"peer", "own", "reply"}) /\ batch \in Seq(Ids)
      /\ Ids \subseteq 1 .. MaxMails /\ 0 \notin Ids /\ handling \in Ids \cup {0}
      /\ answers \in [1 .. MaxMails -> Nat] /\ Ids = 1 .. Len(history)
  BY DEF GmailInv, MailInv, Ids
<1>1. ArtInv'
  <2>1. \A bs \in AttachmentSets : bs \in SUBSET Blobs
    OBVIOUS
  <2> QED BY <1>0, <2>1, ArtKept DEF GmailNext, gmailVars, GmailArrives, ListHistory, TakeMail, PassOver, Answer,
               AnswerRefused, IterationRaises, EndPoll, RestartPoller, ElsewhereInGmail
<1> SUFFICES MailInv' /\ VisitsInv'
  BY <1>1 DEF GmailInv
<1>2. ASSUME NEW from \in {"peer", "own"}, GmailArrives(from) PROVE MailInv' /\ VisitsInv'
  <2>1. /\ history' = Append(history, from) /\ Len(history) < MaxMails
        /\ UNCHANGED <<gmCursor, processed, batch, batchEnd, handling, gmPolling, answers, unpaged>>
    BY <1>2 DEF GmailArrives, loopVars
  <2>2. /\ history' \in Seq({"peer", "own", "reply"}) /\ Len(history') = Len(history) + 1
        /\ Len(history') <= MaxMails /\ \A i \in Ids : history'[i] = history[i] /\ i \in Ids'
    BY <1>0, <2>1, OneMore
  <2>3. batch \in Seq(Ids')
    BY <1>0, <2>2
  <2>4. MailInv'
    BY <1>0, <2>1, <2>2, <2>3, SameIds DEF MailInv
  <2>5. VisitsInv'
    BY <1>0, <2>1, <2>2 DEF VisitsInv, CursorBehindVisits
  <2> QED BY <2>4, <2>5
<1>3. CASE ListHistory
  <2> DEFINE added == [i \in 1 .. Len(history) - gmCursor |-> gmCursor + i]
             n == IF Len(added) < PageSize THEN Len(added) ELSE PageSize
             page == SubSeq(added, 1, n)
  <2>1. /\ gmPolling' = TRUE /\ UNCHANGED <<history, gmCursor, processed, handling, answers>>
        /\ \/ batch' = page /\ batchEnd' = Len(history) /\ unpaged' = unpaged \cup (ToSet(added) \ ToSet(page))
           \/ batch' = <<>> /\ batchEnd' = 0 /\ UNCHANGED unpaged
    BY <1>3 DEF ListHistory
  <2>2. CASE batch' = <<>> /\ batchEnd' = 0 /\ UNCHANGED unpaged
    <3>1. Len(batch') = 0
      BY <2>2
    <3> QED BY <1>0, <2>1, <2>2, <3>1, SameIds DEF MailInv, VisitsInv, CursorBehindVisits
  <2>3. CASE batch' = page /\ batchEnd' = Len(history) /\ unpaged' = unpaged \cup (ToSet(added) \ ToSet(page))
    <3> DEFINE m == Len(history) - gmCursor
    <3>1. gmCursor \in Nat /\ m \in Nat /\ gmCursor + m = Len(history)
      BY <1>0, SameIds DEF MailInv
    <3>2. added \in Seq(Ids) /\ Len(added) = m /\ DOMAIN added = 1 .. m /\ \A i \in 1 .. m : added[i] = gmCursor + i
      <4>1. \A i \in 1 .. m : gmCursor + i \in Ids
        BY <3>1, <1>0
      <4> HIDE DEF m
      <4>2. DEFINE a == [i \in 1 .. m |-> gmCursor + i]
      <4>3. a \in Seq(Ids) /\ Len(a) = m /\ DOMAIN a = 1 .. m
        BY <3>1, <4>1
      <4> QED BY <4>3 DEF m
    <3> HIDE DEF added, m
    <3>3. n \in 0 .. m
      BY <3>1, <3>2
    <3> HIDE DEF n
    <3>4. page \in Seq(Ids) /\ Len(page) = n /\ DOMAIN page = 1 .. n /\ \A i \in 1 .. n : page[i] = gmCursor + i
      <4>1. \A i \in 1 .. n : added[i] \in Ids
        BY <3>1, <3>2, <3>3
      <4>2. page \in Seq(Ids) /\ Len(page) = n /\ \A i \in 1 .. n : page[i] = added[i]
        BY <3>3, <4>1, SubSeqProperties
      <4> QED BY <3>1, <3>2, <3>3, <4>2
    <3> HIDE DEF page
    <3>5. unpaged' \subseteq Ids
      <4>1. ToSet(added) \subseteq Ids
        BY <1>0, <3>1, <3>2 DEF ToSet
      <4> QED BY <1>0, <2>3, <4>1 DEF MailInv
    <3>6. \A i \in 1 .. Len(history) :
             i \in processed \cup unpaged' \/ \E j \in 1 .. n : page[j] = i
      <4> TAKE i \in 1 .. Len(history)
      <4>1. CASE i <= gmCursor
        BY <1>0, <2>3, <3>1, <4>1 DEF VisitsInv, CursorBehindVisits
      <4>2. CASE i > gmCursor /\ i <= gmCursor + n
        <5>1. i - gmCursor \in 1 .. n /\ gmCursor + (i - gmCursor) = i
          BY <3>1, <3>3, <4>2
        <5> QED BY <3>4, <5>1
      <4>3. CASE i > gmCursor + n
        <5>1. i - gmCursor \in 1 .. m /\ gmCursor + (i - gmCursor) = i
          BY <3>1, <3>3, <4>3
        <5>2. i \in ToSet(added)
          BY <3>2, <5>1 DEF ToSet
        <5>3. \A j \in 1 .. n : page[j] # i
          BY <3>1, <3>3, <3>4, <4>3
        <5>4. i \notin ToSet(page)
          BY <3>4, <5>3 DEF ToSet
        <5> QED BY <2>3, <5>2, <5>4
      <4> QED BY <3>1, <3>3, <4>1, <4>2, <4>3
    <3>7. MailInv'
      BY <1>0, <2>1, <2>3, <3>4, <3>5, SameIds DEF MailInv
    <3>8. VisitsInv'
      <4>1. \A i \in 1 .. Len(batch') : batch'[i] > gmCursor
        BY <2>3, <3>1, <3>3, <3>4
      <4>2. CursorBehindVisits'
        BY <1>0, <2>1, <2>3 DEF VisitsInv, CursorBehindVisits
      <4> QED BY <1>0, <2>1, <2>3, <3>4, <3>6, <4>1, <4>2 DEF VisitsInv
    <3> QED BY <3>7, <3>8
  <2> QED BY <2>1, <2>2, <2>3
<1>4. CASE TakeMail
  <2> DEFINE x == Head(batch)
  <2>1. /\ handling = 0 /\ batch # <<>> /\ batch' = Tail(batch)
        /\ UNCHANGED <<history, gmCursor, batchEnd, gmPolling, answers, unpaged>>
        /\ \/ x \in processed /\ processed' = processed /\ handling' = 0
           \/ x \notin processed /\ processed' = processed \cup {x} /\ handling' = x
    BY <1>4 DEF TakeMail
  <2>2. /\ x = batch[1] /\ x \in Ids /\ Len(batch) \in Nat \ {0} /\ batch' \in Seq(Ids)
        /\ Len(batch') = Len(batch) - 1 /\ \A i \in 1 .. Len(batch) - 1 : batch'[i] = batch[i + 1]
    BY <1>0, <2>1, HeadTailProperties, EmptySeq
  <2> HIDE DEF x
  <2>3. x > gmCursor /\ (x \notin processed => answers[x] = 0)
    <3>1. batch[1] > gmCursor /\ gmCursor \in Nat /\ answers[x] \in Nat /\ x \in 1 .. MaxMails
      BY <1>0, <2>2 DEF VisitsInv, MailInv
    <3> QED BY <1>0, <2>2, <3>1 DEF VisitsInv
  <2>4. x \in processed'
    BY <2>1
  <2>5. MailInv'
    BY <1>0, <2>1, <2>2, SameIds DEF MailInv
  <2>6. \A i \in 1 .. Len(batch') : batch'[i] > gmCursor
    <3> TAKE i \in 1 .. Len(batch')
    <3>1. i + 1 \in 1 .. Len(batch) /\ batch'[i] = batch[i + 1]
      BY <2>2
    <3> QED BY <1>0, <3>1 DEF VisitsInv
  <2>7. \A i \in 1 .. batchEnd : i \in processed' \cup unpaged \/ \E j \in 1 .. Len(batch') : batch'[j] = i
    <3> TAKE i \in 1 .. batchEnd
    <3>1. CASE i \in processed \cup unpaged
      BY <2>1, <3>1
    <3>2. ASSUME NEW j \in 1 .. Len(batch), batch[j] = i PROVE i \in processed' \/ \E k \in 1 .. Len(batch') : batch'[k] = i
      <4>1. CASE j = 1
        BY <2>2, <2>4, <3>2, <4>1
      <4>2. CASE j # 1
        <5>1. j - 1 \in 1 .. Len(batch') /\ batch'[j - 1] = batch[(j - 1) + 1] /\ (j - 1) + 1 = j
          BY <2>2, <4>2
        <5> QED BY <3>2, <5>1
      <4> QED BY <4>1, <4>2
    <3> QED BY <1>0, <3>1, <3>2 DEF VisitsInv
  <2>8. VisitsInv'
    BY <1>0, <2>1, <2>2, <2>3, <2>6, <2>7 DEF VisitsInv, CursorBehindVisits
  <2> QED BY <2>5, <2>8
<1>5. CASE PassOver \/ AnswerRefused
  <2>1. /\ handling' = 0
        /\ UNCHANGED <<history, gmCursor, processed, batch, batchEnd, gmPolling, answers, unpaged>>
    BY <1>5 DEF PassOver, AnswerRefused
  <2> QED BY <1>0, <2>1, SameIds DEF MailInv, VisitsInv, CursorBehindVisits
<1>6. CASE Answer \/ IterationRaises
  <2>1. /\ handling # 0 /\ history[handling] = "peer" /\ handling' = 0
        /\ UNCHANGED <<gmCursor, unpaged>>
        /\ \/ UNCHANGED <<batch, batchEnd>>
           \/ batch' = <<>> /\ batchEnd' = 0
        /\ processed' \in {processed, processed \cup {Len(history) + 1}} /\ gmPolling' \in BOOLEAN
        /\ \/ UNCHANGED <<history, answers>> /\ processed' = processed
           \/ /\ Len(history) < MaxMails /\ history' = Append(history, "reply")
              /\ answers' = [answers EXCEPT ![handling] = @ + 1]
    BY <1>0, <1>6 DEF Answer, IterationRaises, FromSelf, Replied, MailInv
  <2>2. handling \in Ids /\ handling \in 1 .. MaxMails /\ answers[handling] = 0 /\ handling \in processed
    BY <1>0, <2>1 DEF VisitsInv
  <2>3. /\ batch' \in Seq(Ids) /\ batchEnd' \in 0 .. Len(history)
        /\ \A i \in 1 .. Len(batch') : batch'[i] > gmCursor
        /\ \A i \in 1 .. batchEnd' : i \in processed \cup unpaged \/ \E j \in 1 .. Len(batch') : batch'[j] = i
    <3>1. CASE UNCHANGED <<batch, batchEnd>>
      BY <1>0, <3>1 DEF MailInv, VisitsInv
    <3>2. CASE batch' = <<>> /\ batchEnd' = 0
      <4>1. Len(batch') = 0 /\ batch' \in Seq(Ids)
        BY <3>2
      <4> QED BY <1>0, <3>2, <4>1
    <3> QED BY <2>1, <3>1, <3>2
  <2>4. CASE UNCHANGED <<history, answers>> /\ processed' = processed
    <3>1. MailInv'
      BY <1>0, <2>1, <2>3, <2>4, SameIds DEF MailInv
    <3>2. VisitsInv'
      BY <1>0, <2>1, <2>3, <2>4 DEF VisitsInv, CursorBehindVisits
    <3> QED BY <3>1, <3>2
  <2>5. CASE /\ Len(history) < MaxMails /\ history' = Append(history, "reply")
             /\ answers' = [answers EXCEPT ![handling] = @ + 1]
    <3>1. /\ history' \in Seq({"peer", "own", "reply"}) /\ Len(history') = Len(history) + 1
          /\ Len(history') <= MaxMails /\ \A i \in Ids : history'[i] = history[i] /\ i \in Ids'
          /\ Len(history) + 1 \in Ids'
      BY <1>0, <2>5, OneMore
    <3>2. batch' \in Seq(Ids')
      BY <2>3, <3>1
    <3>3. /\ answers' \in [1 .. MaxMails -> Nat] /\ answers'[handling] = 1
          /\ \A i \in 1 .. MaxMails : i # handling => answers'[i] = answers[i]
      BY <1>0, <2>2, <2>5
    <3>4. MailInv'
      <4>1. /\ gmCursor \in 0 .. Len(history) /\ gmCursor' = gmCursor /\ unpaged' = unpaged
            /\ processed \subseteq Ids /\ unpaged \subseteq Ids
        BY <1>0, <2>1 DEF MailInv
      <4>2. processed' \subseteq Ids' /\ unpaged' \subseteq Ids'
        BY <2>1, <3>1, <4>1
      <4>3. gmCursor' \in 0 .. Len(history') /\ batchEnd' \in 0 .. Len(history')
        BY <1>0, <2>3, <3>1, <4>1
      <4>4. handling' \in Ids' \cup {0} /\ gmPolling' \in BOOLEAN
        BY <2>1
      <4> QED BY <3>1, <3>2, <3>3, <4>2, <4>3, <4>4 DEF MailInv
    <3>5. VisitsInv'
      <4>1. /\ gmCursor' = gmCursor /\ unpaged' = unpaged /\ handling' = 0
            /\ processed \subseteq processed' /\ gmCursor \in Nat
        BY <1>0, <2>1 DEF MailInv
      <4>2. CursorBehindVisits'
        BY <1>0, <4>1 DEF VisitsInv, CursorBehindVisits
      <4>3. ASSUME NEW i \in 1 .. MaxMails
            PROVE  /\ answers'[i] <= 1
                   /\ answers'[i] > 0 => /\ i <= Len(history') /\ history'[i] = "peer"
                                         /\ i \in processed' \/ i <= gmCursor'
        <5>1. CASE i = handling
          BY <1>0, <2>1, <2>2, <3>1, <3>3, <4>1, <5>1
        <5>2. CASE i # handling
          <6>1. answers'[i] = answers[i] /\ answers[i] \in Nat
            BY <1>0, <3>3, <5>2
          <6>2. answers[i] <= 1 /\ (answers[i] > 0 => i <= Len(history) /\ history[i] = "peer"
                                                      /\ (i \in processed \/ i <= gmCursor))
            BY <1>0 DEF VisitsInv
          <6> QED BY <1>0, <3>1, <4>1, <6>1, <6>2
        <5> QED BY <5>1, <5>2
      <4> QED BY <2>3, <4>1, <4>2, <4>3 DEF VisitsInv
    <3> QED BY <3>4, <3>5
  <2> QED BY <2>1, <2>4, <2>5
<1>7. CASE EndPoll
  <2>1. /\ handling = 0 /\ batch = <<>> /\ batchEnd' = 0 /\ gmPolling' = FALSE
        /\ gmCursor' = IF batchEnd > gmCursor THEN batchEnd ELSE gmCursor
        /\ UNCHANGED <<history, processed, batch, handling, answers, unpaged>>
    BY <1>7 DEF EndPoll, NextCursor
  <2>2. Len(batch) = 0 /\ gmCursor \in 0 .. Len(history) /\ batchEnd \in 0 .. Len(history)
    BY <1>0, <2>1, SameIds DEF MailInv
  <2>3. gmCursor <= gmCursor' /\ gmCursor' \in 0 .. Len(history)
    BY <2>1, <2>2
  <2>4. MailInv'
    <3>1. /\ processed' \subseteq Ids /\ unpaged' \subseteq Ids /\ handling' \in Ids \cup {0}
          /\ batch' \in Seq(Ids)
      BY <1>0, <2>1 DEF MailInv
    <3>2. Len(history') = Len(history) /\ Len(history) <= MaxMails /\ gmPolling' \in BOOLEAN
      BY <1>0, <2>1 DEF MailInv
    <3> QED BY <1>0, <2>1, <2>3, <3>1, <3>2, SameIds DEF MailInv
  <2>5. CursorBehindVisits'
    <3>1. \A i \in 1 .. batchEnd : i \in processed \cup unpaged
      BY <1>0, <2>2 DEF VisitsInv
    <3> QED BY <1>0, <2>1, <3>1 DEF VisitsInv, CursorBehindVisits
  <2>6. VisitsInv'
    BY <1>0, <2>1, <2>2, <2>3, <2>5 DEF VisitsInv
  <2> QED BY <2>4, <2>6
<1>8. CASE RestartPoller
  <2>1. /\ gmCursor' = Len(history) /\ processed' = {} /\ batch' = <<>> /\ batchEnd' = 0
        /\ handling' = 0 /\ gmPolling' = FALSE /\ unpaged' = unpaged \cup Ids
        /\ UNCHANGED <<history, answers>>
    BY <1>8 DEF RestartPoller, FirstCursor
  <2>2. Len(batch') = 0 /\ batch' \in Seq(Ids)
    BY <2>1
  <2>3. MailInv'
    <3>1. /\ processed' \subseteq Ids /\ unpaged' \subseteq Ids /\ handling' \in Ids \cup {0}
          /\ gmPolling' \in BOOLEAN
      BY <1>0, <2>1 DEF MailInv
    <3>2. gmCursor' \in 0 .. Len(history) /\ batchEnd' \in 0 .. Len(history)
      BY <1>0, <2>1
    <3>3. Len(history') = Len(history) /\ Len(history) <= MaxMails
      BY <1>0, <2>1 DEF MailInv
    <3> QED BY <1>0, <2>1, <2>2, <3>1, <3>2, <3>3, SameIds DEF MailInv
  <2>4. VisitsInv'
    BY <1>0, <2>1, <2>2 DEF VisitsInv, CursorBehindVisits
  <2> QED BY <2>3, <2>4
<1>9. CASE ElsewhereInGmail \/ UNCHANGED gmailVars
  <2>1. UNCHANGED <<history, gmCursor, processed, batch, batchEnd, handling, gmPolling, answers, unpaged>>
    BY <1>9 DEF ElsewhereInGmail, gmailVars, loopVars
  <2> QED BY <1>0, <2>1, SameIds DEF MailInv, VisitsInv, CursorBehindVisits
<1> QED BY <1>2, <1>3, <1>4, <1>5, <1>6, <1>7, <1>8, <1>9 DEF GmailNext

LEMMA GmailKeeps ==
    GmailInv => GmailTypeOK /\ AnsweredOnce /\ NoEchoLoop /\ CursorBehindVisits /\ FreshRefLives
BY DEF GmailInv, ArtInv, MailInv, VisitsInv, GmailTypeOK, AnsweredOnce, NoEchoLoop


-----------------------------------------------------------------------------
(* The streams of Twilio voice: where each frame of audio is.              *)

(* The frames a message carries, and those a buffer waits with.            *)
Carried(h) == Range(h.frames)
Unflushed(s) == Range(Numbers(Held(s)))
Messages == hearing \cup utterances
Frame == [n: 1 .. MaxFrames, size: FrameSizes \ {0}]

(* A frame is in one place only, and no place holds one before it is sent. *)
OnePlace ==
    /\ \A h \in Messages : Carried(h) \subseteq 1 .. sentFrames[h.stream]
    /\ \A s \in Streams : Unflushed(s) \subseteq 1 .. sentFrames[s]
    /\ \A h \in Messages : Carried(h) \cap Unflushed(h.stream) = {}
    /\ \A g, h \in Messages : g.stream = h.stream /\ Carried(g) \cap Carried(h) # {} => g = h

Covered ==
    \A s \in Streams : \A n \in lostUpTo[s] + 1 .. sentFrames[s] :
        n \in Unflushed(s) \/ \E h \in Messages : h.stream = s /\ n \in Carried(h)

(* The caller of a stream goes after its last handler only.                *)
CallersInv ==
    /\ \A s \in DOMAIN callers : callers[s] = CallerOf[s]
    /\ \A s \in Streams : call[s] = "open" => s \in DOMAIN callers \/ renewed \/ s \in headless
    /\ \A h \in hearing : h.last => call[h.stream] = "ended"
    /\ OwnCaller
    /\ \A s \in stopped : call[s] = "ended"
    /\ \A s \in DOMAIN buffers : call[s] # "new"
    /\ StoppedLeavesNothing

VoiceInv ==
    /\ VoiceTypeOK /\ OnePlace /\ Covered /\ CallersInv
    /\ ~bufferAudio => buffers = <<>>

LEMMA VoiceStart == VoiceInit => VoiceInv
<1> SUFFICES ASSUME VoiceInit PROVE VoiceInv
  OBVIOUS
<1>1. DOMAIN callers = {} /\ DOMAIN buffers = {}
  BY DEF VoiceInit
<1>2. \A s : Unflushed(s) = {}
  BY <1>1 DEF Unflushed, Held, Numbers, Range
<1>3. VoiceTypeOK
  <2>1. bufferAudio \in BOOLEAN /\ renewed \in BOOLEAN
    BY DEF VoiceInit
  <2> QED BY <1>1, <2>1, VoiceAssumption DEF VoiceInit, VoiceTypeOK
<1>4. OnePlace /\ Covered
  BY <1>2 DEF VoiceInit, OnePlace, Covered, Messages
<1>5. CallersInv
  BY <1>1 DEF VoiceInit, CallersInv, OwnCaller, StoppedLeavesNothing
<1> QED BY <1>3, <1>4, <1>5 DEF VoiceInv, VoiceInit

LEMMA NumbersAre ==
    ASSUME NEW f \in Seq(Frame)
    PROVE  /\ Numbers(f) \in Seq(1 .. MaxFrames)
           /\ \A n : n \in Range(Numbers(f)) <=> \E i \in 1 .. Len(f) : f[i].n = n
<1>1. Len(f) \in Nat /\ DOMAIN f = 1 .. Len(f) /\ \A i \in 1 .. Len(f) : f[i] \in Frame
  BY LenProperties, ElementOfSeq
<1> DEFINE m == Len(f)
           g == [i \in 1 .. m |-> f[i].n]
<1>2. \A i \in 1 .. m : f[i].n \in 1 .. MaxFrames
  BY <1>1 DEF Frame
<1>3. g = Numbers(f)
  BY <1>1 DEF Numbers
<1> HIDE DEF m
<1>4. g \in Seq(1 .. MaxFrames)
  BY <1>1, <1>2 DEF m
<1>5. \A n : n \in Range(g) <=> \E i \in 1 .. m : f[i].n = n
  BY DEF Range
<1> HIDE DEF g
<1> QED BY <1>3, <1>4, <1>5 DEF m

(* A frame more in the buffer is a number more.                            *)
LEMMA NumbersJoin ==
    ASSUME NEW f \in Seq(Frame), NEW g \in Seq(Frame)
    PROVE  /\ f \o g \in Seq(Frame)
           /\ Range(Numbers(f \o g)) = Range(Numbers(f)) \cup Range(Numbers(g))
<1> DEFINE h == f \o g
<1>1. /\ h \in Seq(Frame) /\ Len(h) = Len(f) + Len(g) /\ Len(f) \in Nat /\ Len(g) \in Nat
      /\ \A i \in 1 .. Len(h) : h[i] = IF i <= Len(f) THEN f[i] ELSE g[i - Len(f)]
  BY ConcatProperties, LenProperties
<1> HIDE DEF h
<1>2. \A i \in 1 .. Len(f) : i \in 1 .. Len(h) /\ h[i] = f[i]
  BY <1>1
<1>3. \A i \in 1 .. Len(g) : Len(f) + i \in 1 .. Len(h) /\ h[Len(f) + i] = g[i]
  <2> TAKE i \in 1 .. Len(g)
  <2>1. Len(f) + i \in 1 .. Len(h) /\ ~(Len(f) + i <= Len(f)) /\ (Len(f) + i) - Len(f) = i
    BY <1>1
  <2> QED BY <1>1, <2>1
<1>4. \A i \in 1 .. Len(h) : \/ i \in 1 .. Len(f) /\ h[i] = f[i]
                             \/ i - Len(f) \in 1 .. Len(g) /\ h[i] = g[i - Len(f)]
  BY <1>1
<1>5. \A n : n \in Range(Numbers(h)) <=> n \in Range(Numbers(f)) \/ n \in Range(Numbers(g))
  <2> TAKE n
  <2>0. /\ n \in Range(Numbers(h)) <=> \E i \in 1 .. Len(h) : h[i].n = n
        /\ n \in Range(Numbers(f)) <=> \E i \in 1 .. Len(f) : f[i].n = n
        /\ n \in Range(Numbers(g)) <=> \E i \in 1 .. Len(g) : g[i].n = n
    BY <1>1, NumbersAre
  <2>1. n \in Range(Numbers(h)) => n \in Range(Numbers(f)) \/ n \in Range(Numbers(g))
    BY <1>1, <1>4, <2>0
  <2>2. n \in Range(Numbers(f)) => n \in Range(Numbers(h))
    BY <1>1, <1>2, <2>0
  <2>3. n \in Range(Numbers(g)) => n \in Range(Numbers(h))
    BY <1>1, <1>3, <2>0
  <2> QED BY <2>1, <2>2, <2>3
<1> QED BY <1>1, <1>5 DEF h

(* The frames of stream s that wait, with those that come now, go into the *)
(* message x or wait on.                                                   *)
Brought(s, x, new) ==
    /\ lostUpTo' = lostUpTo
    /\ \A t \in Streams : t # s => sentFrames'[t] = sentFrames[t] /\ Unflushed(t)' = Unflushed(t)
    /\ sentFrames'[s] \in Nat /\ sentFrames[s] <= sentFrames'[s]
    /\ new \cup Unflushed(s)' = Unflushed(s) \cup (sentFrames[s] + 1 .. sentFrames'[s])
    /\ new \cap Unflushed(s)' = {}
    /\ \/ Messages' = Messages /\ new = {}
       \/ Messages' = Messages \cup {x} /\ x.stream = s /\ Carried(x) = new

LEMMA Placed ==
    ASSUME VoiceInv, NEW s \in Streams, NEW x, NEW new, Brought(s, x, new)
    PROVE  OnePlace' /\ Covered'
<1>a. /\ OnePlace /\ Covered /\ \A t \in Streams : sentFrames[t] \in Nat /\ lostUpTo[t] \in Nat
      /\ \A h \in Messages : h.stream \in Streams
  BY VoiceAssumption DEF VoiceInv, VoiceTypeOK, Messages, Handler
<1>b. /\ lostUpTo' = lostUpTo
      /\ \A t \in Streams : t # s => sentFrames'[t] = sentFrames[t] /\ Unflushed(t)' = Unflushed(t)
      /\ sentFrames'[s] \in Nat /\ sentFrames[s] <= sentFrames'[s]
      /\ new \cup Unflushed(s)' = Unflushed(s) \cup (sentFrames[s] + 1 .. sentFrames'[s])
      /\ new \cap Unflushed(s)' = {}
      /\ \/ Messages' = Messages /\ new = {}
         \/ Messages' = Messages \cup {x} /\ x.stream = s /\ Carried(x) = new
  BY DEF Brought
<1> USE <1>a, <1>b
<1> DEFINE later == sentFrames[s] + 1 .. sentFrames'[s]
<1>1. /\ \A h \in Messages : Carried(h) \subseteq 1 .. sentFrames[h.stream]
      /\ \A h \in Messages : Carried(h) \cap Unflushed(h.stream) = {}
      /\ \A t \in Streams : Unflushed(t) \subseteq 1 .. sentFrames[t]
      /\ \A g, h \in Messages : g.stream = h.stream /\ Carried(g) \cap Carried(h) # {} => g = h
  BY DEF OnePlace
<1>2. \A n \in 1 .. sentFrames[s] : n \in 1 .. sentFrames'[s] /\ n \notin later
  OBVIOUS
<1>3. later \subseteq 1 .. sentFrames'[s]
  OBVIOUS
<1>4. new \subseteq 1 .. sentFrames'[s] /\ Unflushed(s)' \subseteq 1 .. sentFrames'[s]
  BY <1>1, <1>2, <1>3
<1>5. \A h : Carried(h)' = Carried(h)
  BY DEF Carried
<1>6. \A h \in Messages : h.stream = s => Carried(h) \cap (Unflushed(s) \cup later) = {}
  BY <1>1, <1>2
<1>7. \A h \in Messages : h.stream = s => Carried(h) \cap new = {} /\ Carried(h) \cap Unflushed(s)' = {}
  BY <1>6
<1>8. \A h \in Messages' : h \in Messages \/ (h = x /\ h.stream = s /\ Carried(h) = new)
  OBVIOUS
<1> HIDE DEF later
<1>9. OnePlace'
  <2>1. ASSUME NEW h \in Messages'
        PROVE Carried(h) \subseteq 1 .. sentFrames'[h.stream] /\ Carried(h) \cap Unflushed(h.stream)' = {}
    <3>1. CASE h \in Messages /\ h.stream # s
      BY <1>1, <3>1
    <3>2. CASE h \in Messages /\ h.stream = s
      BY <1>1, <1>2, <1>7, <3>2
    <3>3. CASE h = x /\ h.stream = s /\ Carried(h) = new
      BY <1>4, <3>3
    <3> QED BY <1>8, <3>1, <3>2, <3>3
  <2>2. ASSUME NEW g \in Messages', NEW h \in Messages', g.stream = h.stream, Carried(g) \cap Carried(h) # {}
        PROVE g = h
    BY <1>1, <1>7, <1>8, <2>2
  <2>3. \A t \in Streams : Unflushed(t)' \subseteq 1 .. sentFrames'[t]
    BY <1>1, <1>4
  <2> QED BY <1>5, <2>1, <2>2, <2>3 DEF OnePlace
<1>10. ASSUME NEW t \in Streams, NEW n \in lostUpTo[t] + 1 .. sentFrames'[t]
       PROVE n \in Unflushed(t)' \/ \E h \in Messages' : h.stream = t /\ n \in Carried(h)
  <2>1. CASE t # s
    BY <2>1 DEF Covered
  <2>2. CASE t = s
    <3>1. n \in later \/ n \in lostUpTo[s] + 1 .. sentFrames[s]
      BY <2>2 DEF later
    <3>2. n \in Unflushed(s) \cup later => n \in Unflushed(s)' \cup new
      BY DEF later
    <3> QED BY <2>2, <3>1, <3>2 DEF Covered
  <2> QED BY <2>1, <2>2
<1> QED BY <1>5, <1>9, <1>10 DEF Covered

LEMMA VoiceStep == VoiceInv /\ [VoiceNext]_voiceVars => VoiceInv'
<1> SUFFICES ASSUME VoiceInv, [VoiceNext]_voiceVars PROVE VoiceInv'
  OBVIOUS
<1> USE VoiceAssumption
<1>0. /\ VoiceTypeOK /\ OnePlace /\ Covered /\ CallersInv /\ (~bufferAudio => buffers = <<>>)
  BY DEF VoiceInv
<1>T. /\ call \in [Streams -> {"new", "open", "ended"}]
      /\ sentFrames \in [Streams -> 0 .. MaxFrames] /\ lostUpTo \in [Streams -> 0 .. MaxFrames]
      /\ DOMAIN callers \subseteq Streams /\ DOMAIN buffers \subseteq Streams
      /\ \A s \in DOMAIN buffers : buffers[s] \in Seq(Frame)
      /\ hearing \subseteq Handler /\ utterances \subseteq Handler
      /\ stopped \subseteq Streams /\ MaxFrames \in Nat
  BY <1>0 DEF VoiceTypeOK, Frame
<1>H. \A s \in Streams : Held(s) \in Seq(Frame) /\ Numbers(Held(s)) \in Seq(1 .. MaxFrames)
  BY <1>T, EmptySeq, NumbersAre DEF Held
<1>C. \A s \in Streams :
          /\ CallerAt(s) \in Range(CallerOf) \cup {Unknown}
          /\ call[s] = "open" =>
                CallerAt(s) = CallerOf[s] \/ (CallerAt(s) = Unknown /\ (renewed \/ s \in headless))
  <2> SUFFICES ASSUME NEW s \in Streams
               PROVE  /\ CallerAt(s) \in Range(CallerOf) \cup {Unknown}
                      /\ call[s] = "open" =>
                            \/ CallerAt(s) = CallerOf[s]
                            \/ CallerAt(s) = Unknown /\ (renewed \/ s \in headless)
    OBVIOUS
  <2>1. CASE s \in DOMAIN callers
    <3>1. CallerAt(s) = CallerOf[s] /\ CallerOf[s] \in Range(CallerOf)
      BY <1>0, <2>1 DEF CallersInv, CallerAt, Range
    <3> QED BY <3>1
  <2>2. CASE s \notin DOMAIN callers
    <3>1. CallerAt(s) = Unknown /\ (call[s] = "open" => renewed \/ s \in headless)
      BY <1>0, <2>2 DEF CallersInv, CallerAt
    <3> QED BY <3>1
  <2> QED BY <2>1, <2>2
<1>M. \A h \in Messages : h \in Handler /\ h.stream \in Streams
  BY <1>T DEF Messages, Handler
<1>1. ASSUME NEW s \in Streams, StreamStart(s) PROVE VoiceInv'
  <2>1. /\ call[s] = "new" /\ call' = [call EXCEPT ![s] = "open"]
        /\ callers' = [t \in DOMAIN callers \cup {s} |-> IF t = s THEN CallerOf[s] ELSE callers[t]]
        /\ UNCHANGED <<bufferAudio, sentFrames, buffers, hearing, utterances, stopped, renewed, headless, lostUpTo>>
    BY <1>1 DEF StreamStart
  <2>2. \A t : Unflushed(t)' = Unflushed(t)
    BY <2>1 DEF Unflushed, Held, Numbers
  <2>3. VoiceTypeOK'
    BY <1>0, <2>1 DEF VoiceTypeOK, Handler
  <2>4. OnePlace' /\ Covered'
    BY <1>0, <2>1, <2>2 DEF OnePlace, Covered, Messages, Carried
  <2>5. CallersInv'
    <3>1. /\ DOMAIN callers' = DOMAIN callers \cup {s} /\ callers'[s] = CallerOf[s]
          /\ \A t \in DOMAIN callers : t # s => callers'[t] = callers[t]
          /\ call'[s] = "open" /\ \A t \in Streams : t # s => call'[t] = call[t]
          /\ s \notin stopped /\ \A h \in hearing : h.last => h.stream # s
      BY <1>0, <1>T, <2>1 DEF CallersInv
    <3> QED BY <1>0, <1>T, <2>1, <3>1 DEF CallersInv, OwnCaller, StoppedLeavesNothing, Handler
  <2> QED BY <1>0, <2>1, <2>3, <2>4, <2>5 DEF VoiceInv
<1>2. ASSUME NEW s \in Streams, NEW size \in FrameSizes, MediaFrame(s, size) PROVE VoiceInv'
  <2> DEFINE heard == IF size > 0 THEN <<[n |-> sentFrames[s] + 1, size |-> size]>> ELSE <<>>
             frames == Held(s) \o heard
             x == [stream |-> s, caller |-> CallerAt(s), frames |-> Numbers(heard), last |-> FALSE]
             y == [stream |-> s, caller |-> CallerAt(s), frames |-> Numbers(frames), last |-> FALSE]
  <2>1. /\ call[s] = "open" /\ (size > 0 => sentFrames[s] < MaxFrames)
        /\ sentFrames' = [sentFrames EXCEPT ![s] = IF size > 0 THEN @ + 1 ELSE @]
        /\ UNCHANGED <<bufferAudio, call, callers, utterances, stopped, renewed, headless, lostUpTo>>
        /\ \/ ~bufferAudio /\ hearing' = hearing \cup {x} /\ buffers' = buffers
           \/ bufferAudio /\ hearing' = hearing \cup {y} /\ buffers' = Without(buffers, s)
           \/ /\ bufferAudio /\ hearing' = hearing
              /\ buffers' = [t \in DOMAIN buffers \cup {s} |-> IF t = s THEN frames ELSE buffers[t]]
    BY <1>2 DEF MediaFrame, Await, Flushed
  <2>2. /\ heard \in Seq(Frame)
        /\ Range(Numbers(heard)) = sentFrames[s] + 1 .. sentFrames'[s]
        /\ sentFrames'[s] \in 0 .. MaxFrames /\ sentFrames[s] <= sentFrames'[s]
        /\ sentFrames' \in [Streams -> 0 .. MaxFrames]
        /\ \A t \in Streams : t # s => sentFrames'[t] = sentFrames[t]
    <3>1. CASE size > 0
      <4> DEFINE f == [n |-> sentFrames[s] + 1, size |-> size]
      <4>1. sentFrames[s] \in Nat /\ sentFrames'[s] = sentFrames[s] + 1 /\ size \in FrameSizes \ {0}
            /\ sentFrames[s] + 1 \in 1 .. MaxFrames
        BY <1>T, <2>1, <3>1
      <4>2. f \in Frame /\ f.n = sentFrames[s] + 1
        BY <4>1 DEF Frame
      <4> HIDE DEF f
      <4>3. <<f>> \in Seq(Frame) /\ Len(<<f>>) = 1 /\ <<f>>[1] = f
        BY <4>2
      <4>4. heard = <<f>>
        BY <3>1 DEF f
      <4>5. \A n : n \in Range(Numbers(heard)) <=> n = sentFrames[s] + 1
        <5> HIDE DEF heard
        <5>1. \A n : n \in Range(Numbers(heard)) <=> \E i \in 1 .. Len(heard) : heard[i].n = n
          BY <4>3, <4>4, NumbersAre
        <5> QED BY <4>2, <4>3, <4>4, <5>1
      <4> HIDE DEF heard
      <4>6. Range(Numbers(heard)) = sentFrames[s] + 1 .. sentFrames'[s]
        BY <4>1, <4>5
      <4> QED BY <1>T, <2>1, <3>1, <4>1, <4>3, <4>4, <4>6
    <3>2. CASE ~(size > 0)
      <4>1. heard = <<>> /\ sentFrames' = sentFrames /\ sentFrames[s] \in Nat
        BY <1>T, <2>1, <3>2
      <4>2. Range(Numbers(heard)) = {} /\ heard \in Seq(Frame)
        <5> HIDE DEF heard
        <5>1. DOMAIN heard = {} /\ heard \in Seq(Frame)
          BY <4>1
        <5> QED BY <5>1 DEF Numbers, Range
      <4> HIDE DEF heard
      <4>3. sentFrames[s] + 1 .. sentFrames'[s] = {} /\ sentFrames'[s] \in 0 .. MaxFrames
        BY <1>T, <4>1
      <4>4. Range(Numbers(heard)) = sentFrames[s] + 1 .. sentFrames'[s]
        BY <4>2, <4>3
      <4>5. /\ sentFrames[s] <= sentFrames'[s] /\ sentFrames' \in [Streams -> 0 .. MaxFrames]
            /\ \A t \in Streams : t # s => sentFrames'[t] = sentFrames[t]
        BY <1>T, <4>1
      <4> QED BY <4>2, <4>3, <4>4, <4>5
    <3> QED BY <3>1, <3>2
  <2> HIDE DEF heard
  <2>3. /\ frames \in Seq(Frame)
        /\ Range(Numbers(frames)) = Unflushed(s) \cup (sentFrames[s] + 1 .. sentFrames'[s])
        /\ Numbers(frames) \in Seq(1 .. MaxFrames) /\ Numbers(heard) \in Seq(1 .. MaxFrames)
    <3>1. frames \in Seq(Frame) /\ Range(Numbers(frames)) = Range(Numbers(Held(s))) \cup Range(Numbers(heard))
      BY <1>H, <2>2, NumbersJoin
    <3> HIDE DEF frames
    <3> QED BY <2>2, <3>1, NumbersAre DEF Unflushed
  <2> HIDE DEF frames
  <2>4. /\ x \in Handler /\ y \in Handler /\ ~x.last /\ ~y.last /\ x.stream = s /\ y.stream = s
        /\ x.caller = CallerAt(s) /\ y.caller = CallerAt(s)
        /\ x.frames = Numbers(heard) /\ y.frames = Numbers(frames)
    BY <1>C, <2>3 DEF Handler
  <2> HIDE DEF x, y
  <2>5. \/ buffers' = buffers
        \/ /\ DOMAIN buffers' = DOMAIN buffers \ {s}
           /\ \A t \in DOMAIN buffers' : buffers'[t] = buffers[t]
        \/ /\ DOMAIN buffers' = DOMAIN buffers \cup {s} /\ buffers'[s] = frames
           /\ \A t \in DOMAIN buffers : t # s => buffers'[t] = buffers[t]
    BY <2>1 DEF Without
  <2>6. VoiceTypeOK'
    <3>1. DOMAIN buffers' \subseteq Streams /\ \A t \in DOMAIN buffers' : buffers'[t] \in Seq(Frame)
      BY <1>T, <2>3, <2>5
    <3>2. hearing' \subseteq Handler
      BY <1>T, <2>1, <2>4
    <3>3. renewed' \in BOOLEAN /\ bufferAudio' \in BOOLEAN /\ headless' \subseteq Streams
      BY <1>0, <2>1 DEF VoiceTypeOK
    <3> QED BY <1>T, <2>1, <2>2, <3>1, <3>2, <3>3 DEF VoiceTypeOK, Frame, Handler
  <2>7. OnePlace' /\ Covered'
    <3>0. /\ \A t \in Streams : sentFrames[t] \in Nat /\ lostUpTo[t] \in Nat
          /\ sentFrames'[s] \in Nat
      BY <1>T, <2>2
    <3>1. CASE ~bufferAudio /\ hearing' = hearing \cup {x} /\ buffers' = buffers
      <4>1. \A t : Unflushed(t) = {} /\ Unflushed(t)' = {}
        BY <1>0, <3>1 DEF Unflushed, Held, Numbers, Range
      <4>2. Carried(x) = sentFrames[s] + 1 .. sentFrames'[s]
        BY <2>2, <2>4 DEF Carried
      <4>3. Messages' = Messages \cup {x}
        BY <2>1, <3>1 DEF Messages
      <4>4. Brought(s, x, sentFrames[s] + 1 .. sentFrames'[s])
        BY <2>1, <2>2, <2>4, <3>0, <4>1, <4>2, <4>3 DEF Brought
      <4> QED BY <4>4, Placed
    <3>2. CASE bufferAudio /\ hearing' = hearing \cup {y} /\ buffers' = Without(buffers, s)
      <4>1. Unflushed(s)' = {} /\ \A t \in Streams : t # s => Unflushed(t)' = Unflushed(t)
        BY <3>2 DEF Unflushed, Held, Numbers, Range, Without
      <4>2. Carried(y) = Unflushed(s) \cup (sentFrames[s] + 1 .. sentFrames'[s])
        BY <2>3, <2>4 DEF Carried
      <4>3. Messages' = Messages \cup {y}
        BY <2>1, <3>2 DEF Messages
      <4>4. Brought(s, y, Unflushed(s) \cup (sentFrames[s] + 1 .. sentFrames'[s]))
        BY <2>1, <2>2, <2>4, <3>0, <4>1, <4>2, <4>3 DEF Brought
      <4> QED BY <4>4, Placed
    <3>3. CASE /\ bufferAudio /\ hearing' = hearing
               /\ buffers' = [t \in DOMAIN buffers \cup {s} |-> IF t = s THEN frames ELSE buffers[t]]
      <4>1. Unflushed(s)' = Range(Numbers(frames)) /\ \A t \in Streams : t # s => Unflushed(t)' = Unflushed(t)
        BY <3>3 DEF Unflushed, Held, Numbers, Range
      <4>2. Messages' = Messages
        BY <2>1, <3>3 DEF Messages
      <4>3. Brought(s, x, {})
        BY <2>1, <2>2, <2>3, <3>0, <4>1, <4>2 DEF Brought
      <4> QED BY <4>3, Placed
    <3> QED BY <2>1, <3>1, <3>2, <3>3
  <2>8. CallersInv'
    <3>1. \A h \in hearing' : h \in hearing \/ (~h.last /\ h.stream = s /\ h.caller = CallerAt(s))
      BY <2>1, <2>4
    <3>2. hearing \subseteq hearing' /\ s \notin stopped
      BY <1>0, <2>1 DEF CallersInv
    <3>3. DOMAIN buffers' \subseteq DOMAIN buffers \cup {s}
      BY <2>5
    <3>4. CallerAt(s) = CallerOf[s] \/ (CallerAt(s) = Unknown /\ (renewed \/ s \in headless))
      BY <1>C, <2>1
    <3>5. OwnCaller'
      BY <1>0, <2>1, <3>1, <3>4 DEF CallersInv, OwnCaller
    <3>6. StoppedLeavesNothing'
      BY <1>0, <2>1, <3>2, <3>3 DEF CallersInv, StoppedLeavesNothing
    <3> QED BY <1>0, <2>1, <3>1, <3>3, <3>5, <3>6 DEF CallersInv
  <2> QED BY <1>0, <2>1, <2>6, <2>7, <2>8 DEF VoiceInv
<1>3. ASSUME NEW h \in hearing, Transcribed(h) PROVE VoiceInv'
  <2>1. /\ hearing' = hearing \ {h} /\ utterances' = utterances \cup {h} /\ callers' = Evicted(h)
        /\ UNCHANGED <<bufferAudio, call, sentFrames, buffers, stopped, renewed, headless, lostUpTo>>
    BY <1>3 DEF Transcribed
  <2>2. /\ DOMAIN callers' \subseteq DOMAIN callers /\ \A t \in DOMAIN callers' : callers'[t] = callers[t]
        /\ h.last => h.stream \notin DOMAIN callers'
        /\ ~h.last => callers' = callers
        /\ \A t \in DOMAIN callers : t # h.stream => t \in DOMAIN callers'
    BY <2>1 DEF Evicted, Without
  <2>3. \A t : Unflushed(t)' = Unflushed(t)
    BY <2>1 DEF Unflushed, Held, Numbers
  <2>4. Messages' = Messages
    BY <2>1 DEF Messages
  <2>5. VoiceTypeOK'
    BY <1>0, <1>T, <2>1, <2>2 DEF VoiceTypeOK, Handler
  <2>6. OnePlace' /\ Covered'
    BY <1>0, <2>1, <2>3, <2>4 DEF OnePlace, Covered, Carried
  <2>7. CallersInv'
    <3>1. \A t \in Streams : call[t] = "open" /\ t \in DOMAIN callers => t \in DOMAIN callers'
      BY <1>0, <2>2 DEF CallersInv
    <3>2. OwnCaller'
      BY <1>0, <2>1, <2>4 DEF CallersInv, OwnCaller, Messages
    <3>3. StoppedLeavesNothing'
      BY <1>0, <2>1, <2>2 DEF CallersInv, StoppedLeavesNothing
    <3> QED BY <1>0, <2>1, <2>2, <3>1, <3>2, <3>3 DEF CallersInv
  <2> QED BY <1>0, <2>1, <2>5, <2>6, <2>7 DEF VoiceInv
<1>4. ASSUME NEW s \in Streams, StreamStop(s) PROVE VoiceInv'
  <2> DEFINE x == [stream |-> s, caller |-> CallerAt(s), frames |-> Numbers(Held(s)), last |-> TRUE]
  <2>1. /\ call[s] = "open" /\ call' = [call EXCEPT ![s] = "ended"] /\ stopped' = stopped \cup {s}
        /\ UNCHANGED <<bufferAudio, sentFrames, utterances, renewed, headless, lostUpTo>>
        /\ buffers' = Without(buffers, s)
        /\ \/ hearing' = hearing \cup {x} /\ callers' = callers
           \/ /\ hearing' = hearing /\ callers' = Without(callers, s)
              /\ ~bufferAudio \/ Held(s) = <<>>
    BY <1>4 DEF StreamStop, Await, Flushed
  <2>2. /\ x \in Handler /\ x.last /\ x.stream = s /\ x.caller = CallerAt(s) /\ x.frames = Numbers(Held(s))
    BY <1>C, <1>H DEF Handler
  <2> HIDE DEF x
  <2>3. /\ DOMAIN buffers' = DOMAIN buffers \ {s}
        /\ \A t \in DOMAIN buffers' : buffers'[t] = buffers[t]
        /\ \/ callers' = callers
           \/ DOMAIN callers' = DOMAIN callers \ {s} /\ \A t \in DOMAIN callers' : callers'[t] = callers[t]
    BY <2>1 DEF Without
  <2>4. call' \in [Streams -> {"new", "open", "ended"}] /\ \A t \in Streams : call'[t] = IF t = s THEN "ended" ELSE call[t]
    BY <1>T, <2>1
  <2>5. VoiceTypeOK'
    <3>1. /\ hearing' \subseteq Handler /\ DOMAIN buffers' \subseteq Streams /\ DOMAIN callers' \subseteq Streams
          /\ \A t \in DOMAIN buffers' : buffers'[t] \in Seq(Frame)
      BY <1>T, <2>1, <2>2, <2>3
    <3>2. renewed' \in BOOLEAN /\ bufferAudio' \in BOOLEAN /\ headless' \subseteq Streams
      BY <1>0, <2>1 DEF VoiceTypeOK
    <3> QED BY <1>T, <2>1, <2>4, <3>1, <3>2 DEF VoiceTypeOK, Frame, Handler
  <2>6. OnePlace' /\ Covered'
    <3>0. /\ \A t \in Streams : sentFrames[t] \in Nat /\ lostUpTo[t] \in Nat
          /\ sentFrames'[s] \in Nat /\ sentFrames[s] + 1 .. sentFrames'[s] = {}
      BY <1>T, <2>1
    <3>1. Unflushed(s)' = {} /\ \A t \in Streams : t # s => Unflushed(t)' = Unflushed(t)
      BY <2>1 DEF Unflushed, Held, Numbers, Range, Without
    <3>2. CASE hearing' = hearing \cup {x}
      <4>1. Carried(x) = Unflushed(s)
        BY <2>2 DEF Carried, Unflushed
      <4>2. Messages' = Messages \cup {x}
        BY <2>1, <3>2 DEF Messages
      <4>3. Brought(s, x, Unflushed(s))
        BY <2>1, <2>2, <3>0, <3>1, <4>1, <4>2 DEF Brought
      <4> QED BY <4>3, Placed
    <3>3. CASE hearing' = hearing /\ (~bufferAudio \/ Held(s) = <<>>)
      <4>1. Unflushed(s) = {}
        <5>1. DOMAIN Held(s) = {}
          BY <1>0, <3>3 DEF Held
        <5> QED BY <5>1 DEF Unflushed, Numbers, Range
      <4>2. Messages' = Messages
        BY <2>1, <3>3 DEF Messages
      <4>3. Brought(s, x, {})
        BY <2>1, <3>0, <3>1, <4>1, <4>2 DEF Brought
      <4> QED BY <4>3, Placed
    <3> QED BY <2>1, <3>2, <3>3
  <2>7. CallersInv'
    <3>1. \A h \in hearing' : h \in hearing \/ (h = x /\ h.stream = s /\ h.caller = CallerAt(s))
      BY <2>1, <2>2
    <3>2. CallerAt(s) = CallerOf[s] \/ (CallerAt(s) = Unknown /\ (renewed \/ s \in headless))
      BY <1>C, <2>1
    <3>3. OwnCaller'
      BY <1>0, <2>1, <3>1, <3>2 DEF CallersInv, OwnCaller
    <3>4. s \in DOMAIN callers' => \E h \in hearing' : h.stream = s /\ h.last
      BY <2>1, <2>2 DEF Without
    <3>5. hearing \subseteq hearing' /\ DOMAIN callers' \subseteq DOMAIN callers
      BY <2>1, <2>3
    <3>6. StoppedLeavesNothing'
      BY <1>0, <2>1, <2>3, <3>4, <3>5 DEF CallersInv, StoppedLeavesNothing
    <3>7. \A h \in hearing : h.stream \in Streams
      BY <1>M DEF Messages
    <3>8. \A t \in Streams : call'[t] = "open" => t # s /\ call[t] = "open"
      BY <2>4
    <3>9. \A t \in DOMAIN callers' : callers'[t] = callers[t] /\ t \in DOMAIN callers
      BY <2>3
    <3>10. \A t \in DOMAIN callers : t # s => t \in DOMAIN callers'
      BY <2>3
    <3> QED BY <1>0, <1>T, <2>1, <2>3, <2>4, <3>1, <3>3, <3>6, <3>7, <3>8, <3>9, <3>10 DEF CallersInv
  <2> QED BY <1>0, <2>1, <2>3, <2>5, <2>6, <2>7 DEF VoiceInv, Without
<1>5. ASSUME NEW s \in Streams, StreamVanishes(s) PROVE VoiceInv'
  <2>1. /\ call[s] = "open" /\ call' = [call EXCEPT ![s] = "ended"]
        /\ UNCHANGED <<bufferAudio, sentFrames, callers, buffers, hearing, utterances, stopped, renewed, headless, lostUpTo>>
    BY <1>5 DEF StreamVanishes
  <2>2. \A t : Unflushed(t)' = Unflushed(t)
    BY <2>1 DEF Unflushed, Held, Numbers
  <2>3. VoiceTypeOK'
    BY <1>0, <2>1 DEF VoiceTypeOK, Handler
  <2>4. OnePlace' /\ Covered'
    BY <1>0, <2>1, <2>2 DEF OnePlace, Covered, Messages, Carried
  <2>5. CallersInv'
    <3>1. \A t \in Streams : call'[t] = IF t = s THEN "ended" ELSE call[t]
      BY <1>T, <2>1
    <3>2. \A h \in hearing : h.stream \in Streams
      BY <1>M DEF Messages
    <3> QED BY <1>0, <1>T, <2>1, <3>1, <3>2 DEF CallersInv, OwnCaller, StoppedLeavesNothing
  <2> QED BY <1>0, <2>1, <2>3, <2>4, <2>5 DEF VoiceInv
<1>6. CASE AdapterRestarts
  <2>1. /\ renewed' = TRUE /\ callers' = <<>> /\ buffers' = <<>> /\ hearing' = {} /\ lostUpTo' = sentFrames
        /\ UNCHANGED <<bufferAudio, call, sentFrames, utterances, stopped, headless>>
    BY <1>6 DEF AdapterRestarts
  <2>2. DOMAIN callers' = {} /\ DOMAIN buffers' = {}
    BY <2>1
  <2>3. \A t : Unflushed(t)' = {}
    BY <2>2 DEF Unflushed, Held, Numbers, Range
  <2>4. VoiceTypeOK'
    BY <1>0, <1>T, <2>1, <2>2 DEF VoiceTypeOK, Handler
  <2>5. OnePlace'
    BY <1>0, <2>1, <2>3 DEF OnePlace, Messages, Carried
  <2>6. Covered'
    BY <1>T, <2>1 DEF Covered
  <2>7. CallersInv'
    BY <1>0, <2>1, <2>2 DEF CallersInv, OwnCaller, StoppedLeavesNothing
  <2> QED BY <2>1, <2>4, <2>5, <2>6, <2>7 DEF VoiceInv
<1>7. CASE UNCHANGED voiceVars
  <2>1. UNCHANGED <<bufferAudio, call, sentFrames, callers, buffers, hearing, utterances, stopped, renewed, headless, lostUpTo>>
    BY <1>7 DEF voiceVars
  <2>2. \A t : Unflushed(t)' = Unflushed(t)
    BY <2>1 DEF Unflushed, Held, Numbers
  <2>3. VoiceTypeOK'
    BY <1>0, <2>1 DEF VoiceTypeOK, Handler
  <2>4. OnePlace' /\ Covered'
    BY <1>0, <2>1, <2>2 DEF OnePlace, Covered, Messages, Carried
  <2>5. CallersInv'
    BY <1>0, <2>1 DEF CallersInv, OwnCaller, StoppedLeavesNothing
  <2> QED BY <1>0, <2>1, <2>3, <2>4, <2>5 DEF VoiceInv
<1>8. ASSUME NEW s \in Streams, StartMalformed(s) PROVE VoiceInv'
  <2>1. /\ call[s] = "new" /\ call' = [call EXCEPT ![s] = "open"] /\ headless' = headless \cup {s}
        /\ UNCHANGED <<bufferAudio, sentFrames, callers, buffers, hearing, utterances, stopped, renewed, lostUpTo>>
    BY <1>8 DEF StartMalformed
  <2>2. \A t : Unflushed(t)' = Unflushed(t)
    BY <2>1 DEF Unflushed, Held, Numbers
  <2>3. VoiceTypeOK'
    BY <1>0, <2>1 DEF VoiceTypeOK, Handler
  <2>4. OnePlace' /\ Covered'
    BY <1>0, <2>1, <2>2 DEF OnePlace, Covered, Messages, Carried
  <2>5. CallersInv'
    <3>1. /\ call'[s] = "open" /\ \A t \in Streams : t # s => call'[t] = call[t]
          /\ s \notin stopped /\ \A h \in hearing : h.last => h.stream # s
      BY <1>0, <1>T, <2>1 DEF CallersInv
    <3> QED BY <1>0, <1>T, <2>1, <3>1 DEF CallersInv, OwnCaller, StoppedLeavesNothing, Handler
  <2> QED BY <1>0, <2>1, <2>3, <2>4, <2>5 DEF VoiceInv
<1> QED BY <1>1, <1>2, <1>3, <1>4, <1>5, <1>6, <1>7, <1>8 DEF VoiceNext

(* In one message, or in the buffer, and not in both.                      *)
LEMMA VoiceKeeps == VoiceInv => VoiceTypeOK /\ OwnCaller /\ AudioConserved /\ StoppedLeavesNothing
<1> SUFFICES ASSUME VoiceInv PROVE AudioConserved
  BY DEF VoiceInv, CallersInv
<1> SUFFICES ASSUME NEW s \in Streams, NEW n \in lostUpTo[s] + 1 .. sentFrames[s]
             PROVE  1 = Cardinality({h \in Spoken(s) : n \in Range(h.frames)})
                        + (IF n \in Range(Numbers(Held(s))) THEN 1 ELSE 0)
  BY DEF AudioConserved
<1> DEFINE H == {h \in Spoken(s) : n \in Range(h.frames)}
<1>1. \A h \in H : h \in Messages /\ h.stream = s /\ n \in Carried(h)
  BY DEF Spoken, Messages, Carried
<1>2. \A g, h \in H : g = h
  BY <1>1 DEF VoiceInv, OnePlace
<1>3. n \in Unflushed(s) => H = {}
  BY <1>1 DEF VoiceInv, OnePlace
<1>4. n \in Unflushed(s) \/ H # {}
  BY DEF VoiceInv, Covered, Messages, Spoken, Carried
<1> HIDE DEF H
<1>5. CASE n \in Unflushed(s)
  <2>1. Cardinality(H) = 0
    BY <1>3, <1>5, FS_EmptySet
  <2> QED BY <1>5, <2>1 DEF H, Unflushed
<1>6. CASE n \notin Unflushed(s)
  <2>1. PICK h \in H : TRUE
    BY <1>4, <1>6
  <2>2. H = {h}
    BY <1>2, <2>1
  <2>3. Cardinality(H) = 1
    BY <2>2, FS_Singleton
  <2> QED BY <1>6, <2>3 DEF H, Unflushed
<1> QED BY <1>5, <1>6


-----------------------------------------------------------------------------
(* Transcriptions: the fields of a transcript and the files of a run.      *)

Fields == {"outputTranscription", "inputTranscription", "modelTurn"}

(* A request's transcript follows the field it is locked to: nothing was   *)
(* sent before the lock, what is written was sent, in the order in which   *)
(* it was sent, and outputTranscription is written as a whole.             *)
Follows(r) ==
    /\ r.sent \in [Fields -> Nat] /\ r.transcript \in Seq(Fields \X Nat)
    /\ r.locked \in Fields \cup {"none"}
    /\ r.locked = "none" => r.transcript = <<>> /\ \A f \in Fields : r.sent[f] = 0
    /\ r.locked # "none" =>
          /\ r.transcript # <<>>
          /\ \A i \in DOMAIN r.transcript :
                r.transcript[i][1] = r.locked /\ r.transcript[i][2] <= r.sent[r.locked]
          /\ \A i, j \in DOMAIN r.transcript :
                i < j => r.transcript[i][2] < r.transcript[j][2]
    /\ r.locked = "outputTranscription" =>
          r.transcript = [n \in 1 .. r.sent["outputTranscription"] |-> <<"outputTranscription", n>>]

(* Where a request is, what it asked for and what came of it.              *)
Ats == {"idle", "groq", "starting", "running", "reading", "session"}
Prefers == {"none", "default", "local", "streaming"}
Outcomes == {"none", "text", "error"}
Hearings ==
    [at: Ats, prefer: Prefers, clip: Nat,
     transcript: Seq(Fields \X Nat), locked: Fields \cup {"none"},
     sent: [Fields -> Nat], frames: Nat, outcome: Outcomes]

HearInv ==
    /\ clips \in Nat /\ tempFiles \in SUBSET ({"audio", "json"} \X Nat)
    /\ hear \in [Listeners -> Hearings]
    /\ \A c \in Listeners : Follows(hear[c])
    /\ AudioCleared

LEMMA FieldNames ==
    /\ ToSet(Sources) = Fields
    /\ Sources[1] = "outputTranscription" /\ Sources[2] = "inputTranscription"
    /\ Sources[3] = "modelTurn" /\ DOMAIN Sources = 1 .. 3
<1>1. /\ Sources[1] = "outputTranscription" /\ Sources[2] = "inputTranscription"
      /\ Sources[3] = "modelTurn" /\ DOMAIN Sources = 1 .. 3
  BY DEF Sources
<1>2. ToSet(Sources) = {Sources[i] : i \in 1 .. 3}
  BY <1>1 DEF ToSet
<1>3. {Sources[i] : i \in 1 .. 3} = {Sources[1], Sources[2], Sources[3]}
  <2>1. 1 .. 3 = {1, 2, 3}
    OBVIOUS
  <2> QED
    BY <2>1
<1> QED
  BY <1>1, <1>2, <1>3 DEF Fields

(* The first field with text, in the order of the frame.                   *)
LEMMA FirstFieldIs ==
    ASSUME NEW fields \in SUBSET Fields, fields # {}
    PROVE  /\ FirstField(fields) \in fields
           /\ "outputTranscription" \in fields => FirstField(fields) = "outputTranscription"
<1> DEFINE First(i) == Sources[i] \in fields /\ \A j \in 1 .. i - 1 : Sources[j] \notin fields
           first == CHOOSE i \in 1 .. 3 : First(i)
<1>1. \E i \in 1 .. 3 : First(i)
  <2>1. CASE "outputTranscription" \in fields
    <3>1. First(1)
      BY <2>1, FieldNames
    <3> QED
      BY <3>1
  <2>2. CASE "outputTranscription" \notin fields /\ "inputTranscription" \in fields
    <3>1. \A j \in 1 .. 2 - 1 : j = 1
      OBVIOUS
    <3>2. First(2)
      BY <2>2, <3>1, FieldNames
    <3> QED
      BY <3>2
  <2>3. CASE "outputTranscription" \notin fields /\ "inputTranscription" \notin fields
    <3>1. \A j \in 1 .. 3 - 1 : j = 1 \/ j = 2
      OBVIOUS
    <3>2. "modelTurn" \in fields
      BY <2>3 DEF Fields
    <3>3. First(3)
      BY <2>3, <3>1, <3>2, FieldNames
    <3> QED
      BY <3>3
  <2> QED
    BY <2>1, <2>2, <2>3
<1>2. first \in 1 .. 3 /\ First(first)
  BY <1>1
<1>3. FirstField(fields) = Sources[first]
  BY DEF FirstField
<1> HIDE DEF first
<1>4. ASSUME "outputTranscription" \in fields PROVE Sources[first] = "outputTranscription"
  <2>1. first # 1 => 1 \in 1 .. first - 1
    BY <1>2
  <2> QED
    BY <1>2, <1>4, <2>1, FieldNames
<1> QED
  BY <1>2, <1>3, <1>4
LEMMA NamesOf ==
    /\ {"idle", "groq", "starting", "running", "reading", "session"} = Ats
    /\ "idle" \in Ats /\ "groq" \in Ats /\ "starting" \in Ats /\ "running" \in Ats
    /\ "reading" \in Ats /\ "session" \in Ats
    /\ "none" \in Prefers /\ "default" \in Prefers /\ "local" \in Prefers /\ "streaming" \in Prefers
    /\ "none" \in Outcomes /\ "text" \in Outcomes /\ "error" \in Outcomes
  BY DEF Ats, Prefers, Outcomes

(* Parts of a request written anew.                                        *)
LEMMA RequestRewritten ==
    ASSUME NEW r \in Hearings, NEW t \in Seq(Fields \X Nat), NEW l \in Fields \cup {"none"},
           NEW s \in [Fields -> Nat], NEW m \in Nat
    PROVE  [r EXCEPT !.transcript = t, !.sent = s, !.frames = m, !.locked = l] \in Hearings
<1> DEFINE Pieces == Seq(Fields \X Nat)
           Counts == [Fields -> Nat]
           Locks == Fields \cup {"none"}
<1>1. Hearings = [at: Ats,
     prefer: Prefers, clip: Nat,
     transcript: Pieces, locked: Locks,
     sent: Counts, frames: Nat, outcome: Outcomes]
  BY DEF Hearings
<1>2. t \in Pieces /\ l \in Locks /\ s \in Counts
  OBVIOUS
<1> HIDE DEF Pieces, Counts, Locks
<1> QED
  BY <1>1, <1>2

(* What a frame leaves of a request.                                       *)
LEMMA FrameFollows ==
    ASSUME NEW r \in Hearings, Follows(r), NEW fields \in SUBSET Fields, NEW h,
           h = [Heard(r, fields) EXCEPT
                    !.sent = [f \in DOMAIN @ |-> IF f \in fields THEN @[f] + 1 ELSE @[f]],
                    !.frames = @ + 1]
    PROVE  h \in Hearings /\ Follows(h) /\ h.at = r.at /\ h.clip = r.clip
<1> DEFINE field == FirstField(fields)
           out == "outputTranscription"
<1>1. /\ r.sent \in [Fields -> Nat] /\ r.transcript \in Seq(Fields \X Nat)
      /\ r.locked \in Fields \cup {"none"} /\ r.frames \in Nat /\ "none" \notin Fields
      /\ DOMAIN r.transcript = 1 .. Len(r.transcript) /\ Len(r.transcript) \in Nat
      /\ out \in Fields
  <2>1. r.sent \in [Fields -> Nat] /\ r.transcript \in Seq(Fields \X Nat)
        /\ r.locked \in Fields \cup {"none"} /\ r.frames \in Nat
    BY DEF Hearings
  <2>2. DOMAIN r.transcript = 1 .. Len(r.transcript) /\ Len(r.transcript) \in Nat
    BY <2>1
  <2>3. "none" \notin Fields /\ out \in Fields
    BY DEF Fields
  <2> QED
    BY <2>1, <2>2, <2>3
<1> DEFINE sent == [f \in Fields |-> IF f \in fields THEN r.sent[f] + 1 ELSE r.sent[f]]
<1>2. /\ sent \in [Fields -> Nat]
      /\ \A f \in Fields : r.sent[f] <= sent[f]
      /\ \A f \in fields : sent[f] = r.sent[f] + 1
      /\ \A f \in Fields \ fields : sent[f] = r.sent[f]
  BY <1>1
<1> HIDE DEF sent
<1>3. CASE fields = {} \/ ~Taken(r, field)
  <2>1. h = [r EXCEPT !.sent = sent, !.frames = r.frames + 1]
    <3>1. Heard(r, fields) = r
      BY <1>3 DEF Heard
    <3> QED
      BY <1>1, <3>1 DEF Hearings, sent
  <2>2. /\ h.sent = sent /\ h.transcript = r.transcript /\ h.locked = r.locked
        /\ h.at = r.at /\ h.clip = r.clip
    BY <2>1 DEF Hearings
  <2>3. h \in Hearings
    <3>1. r.frames + 1 \in Nat
      BY <1>1
    <3>2. [r EXCEPT !.transcript = r.transcript, !.sent = sent, !.frames = r.frames + 1,
                    !.locked = r.locked] \in Hearings
      BY <1>1, <1>2, <3>1, RequestRewritten
    <3> QED
      BY <2>1, <3>2 DEF Hearings
  <2>4. r.locked = "none" => \A f \in Fields : sent[f] = 0
    <3> SUFFICES ASSUME r.locked = "none" PROVE \A f \in Fields : sent[f] = 0
      OBVIOUS
    <3>1. fields = {}
      BY <1>3 DEF Taken
    <3> QED
      BY <1>2, <3>1 DEF Follows
  <2>5. r.locked = out => sent[out] = r.sent[out]
    <3> SUFFICES ASSUME r.locked = out, out \in fields PROVE FALSE
      BY <1>1, <1>2
    <3>1. field = out
      BY FirstFieldIs
    <3> QED
      BY <1>3, <3>1 DEF Taken
  <2>6. r.locked # "none" =>
           \A i \in DOMAIN r.transcript : r.transcript[i][2] <= sent[r.locked]
    <3> SUFFICES ASSUME r.locked # "none", NEW i \in DOMAIN r.transcript
                 PROVE  r.transcript[i][2] <= sent[r.locked]
      OBVIOUS
    <3> DEFINE n == r.transcript[i][2]
               a == r.sent[r.locked]
               b == sent[r.locked]
    <3>1. r.transcript[i] \in Fields \X Nat
      BY <1>1
    <3>2. n \in Nat /\ a \in Nat /\ b \in Nat /\ n <= a /\ a <= b
      BY <1>1, <1>2, <3>1 DEF Follows
    <3> HIDE DEF n, a, b
    <3>3. n <= b
      BY <3>2
    <3> QED
      BY <3>3 DEF n, b
  <2>7. Follows(h)
    BY <1>1, <1>2, <2>2, <2>4, <2>5, <2>6 DEF Follows
  <2> QED
    BY <2>2, <2>3, <2>7
<1>4. CASE fields # {} /\ Taken(r, field)
  <2> DEFINE t == r.transcript
             n == r.sent[field] + 1
             new == Append(t, <<field, n>>)
  <2>1. field \in fields /\ field \in Fields /\ (out \in fields => field = out)
    BY <1>4, FirstFieldIs
  <2>2. n \in Nat /\ n = sent[field] /\ r.sent[field] \in Nat
    BY <1>1, <1>2, <2>1
  <2>3. h = [r EXCEPT !.transcript = new, !.sent = sent, !.frames = r.frames + 1,
                      !.locked = IF r.locked = "none" THEN field ELSE r.locked]
    <3> DEFINE w == [r EXCEPT !.transcript = Append(@, <<field, r.sent[field] + 1>>),
                              !.locked = IF @ = "none" THEN field ELSE @]
    <3>1. Heard(r, fields) = w
      BY <1>4 DEF Heard
    <3>2. h = [w EXCEPT !.sent = [f \in DOMAIN @ |-> IF f \in fields THEN @[f] + 1 ELSE @[f]],
                        !.frames = @ + 1]
      BY <3>1
    <3>3. w.sent = r.sent /\ w.frames = r.frames
      BY DEF Hearings
    <3>4. DOMAIN r.sent = Fields
      BY <1>1
    <3> HIDE DEF w
    <3>5. h = [w EXCEPT !.sent = sent, !.frames = r.frames + 1]
      BY <3>2, <3>3, <3>4 DEF sent
    <3> QED
      BY <3>5 DEF Hearings, w
  <2>4. field = r.locked \/ r.locked = "none"
    BY <1>4 DEF Taken
  <2>5. /\ h.transcript = new /\ h.sent = sent /\ h.locked = field
        /\ h.at = r.at /\ h.clip = r.clip
    BY <2>3, <2>4 DEF Hearings
  <2>6. /\ new \in Seq(Fields \X Nat) /\ Len(new) = Len(t) + 1 /\ DOMAIN new = 1 .. Len(t) + 1
        /\ new[Len(t) + 1] = <<field, n>> /\ \A i \in DOMAIN t : new[i] = t[i]
    BY <1>1, <2>1, <2>2
  <2>7. h \in Hearings
    <3> DEFINE l == IF r.locked = "none" THEN field ELSE r.locked
    <3>1. r.frames + 1 \in Nat /\ l \in Fields \cup {"none"}
      BY <1>1, <2>1
    <3>2. new \in Seq(Fields \X Nat)
      BY <2>6
    <3> HIDE DEF l, new
    <3>3. [r EXCEPT !.transcript = new, !.sent = sent, !.frames = r.frames + 1, !.locked = l]
            \in Hearings
      BY <1>2, <3>1, <3>2, RequestRewritten
    <3> QED
      BY <2>3, <3>3 DEF l
  <2>8. /\ \A i \in DOMAIN t : t[i][1] = field /\ t[i][2] \in Nat /\ t[i][2] < n
        /\ \A i, j \in DOMAIN t : i < j => t[i][2] < t[j][2]
    <3>1. CASE r.locked = "none"
      BY <1>1, <3>1 DEF Follows
    <3>2. CASE r.locked = field
      <4>1. /\ \A i \in DOMAIN t : t[i][1] = field /\ t[i][2] <= r.sent[field]
            /\ \A i, j \in DOMAIN t : i < j => t[i][2] < t[j][2]
        BY <1>1, <2>1, <3>2 DEF Follows
      <4>2. \A i \in DOMAIN t : t[i][2] \in Nat
        BY <1>1
      <4> QED
        BY <2>2, <4>1, <4>2
    <3> QED
      BY <2>4, <3>1, <3>2
  <2> DEFINE k == Len(t) + 1
  <2>9. \A i \in DOMAIN new : new[i][1] = field /\ new[i][2] <= n
    <3> SUFFICES ASSUME NEW i \in DOMAIN new PROVE new[i][1] = field /\ new[i][2] <= n
      OBVIOUS
    <3>1. CASE i = k
      BY <2>2, <2>6, <3>1
    <3>2. CASE i # k
      <4>1. i \in DOMAIN t
        BY <1>1, <2>6, <3>2
      <4>2. new[i] = t[i] /\ t[i][1] = field /\ t[i][2] \in Nat /\ t[i][2] < n
        BY <2>6, <2>8, <4>1
      <4> HIDE DEF t, n, new
      <4> QED
        BY <2>2, <4>2
    <3> QED
      BY <3>1, <3>2
  <2>10. \A i, j \in DOMAIN new : i < j => new[i][2] < new[j][2]
    <3> SUFFICES ASSUME NEW i \in DOMAIN new, NEW j \in DOMAIN new, i < j
                 PROVE  new[i][2] < new[j][2]
      OBVIOUS
    <3>1. i \in DOMAIN t
      BY <1>1, <2>6
    <3>2. CASE j = k
      BY <2>6, <2>8, <3>1, <3>2
    <3>3. CASE j # k
      <4>1. j \in DOMAIN t
        BY <1>1, <2>6, <3>3
      <4> QED
        BY <2>6, <2>8, <3>1, <4>1
    <3> QED
      BY <3>2, <3>3
  <2>11. field = out => new = [m \in 1 .. sent[out] |-> <<out, m>>]
    <3> SUFFICES ASSUME field = out PROVE new = [m \in 1 .. n |-> <<out, m>>]
      BY <2>2
    <3>1. t = [m \in 1 .. r.sent[out] |-> <<out, m>>]
      <4>1. CASE r.locked = "none"
        <5>1. t = <<>> /\ r.sent[out] = 0
          BY <1>1, <4>1 DEF Follows
        <5>2. [m \in 1 .. 0 |-> <<out, m>>] = <<>>
          OBVIOUS
        <5> QED
          BY <5>1, <5>2
      <4>2. CASE r.locked = out
        BY <4>2 DEF Follows
      <4> QED
        BY <2>4, <4>1, <4>2
    <3>2. Len(t) = r.sent[out] /\ n = Len(t) + 1
      BY <1>1, <2>2, <3>1
    <3>3. \A m \in 1 .. n : new[m] = <<out, m>>
      <4> SUFFICES ASSUME NEW m \in 1 .. n PROVE new[m] = <<out, m>>
        OBVIOUS
      <4>1. CASE m = n
        BY <2>6, <3>2, <4>1
      <4>2. CASE m # n
        <5>1. m \in 1 .. r.sent[out]
          BY <2>2, <4>2
        <5>2. m \in DOMAIN t /\ t[m] = <<out, m>>
          BY <3>1, <5>1
        <5> QED
          BY <2>6, <5>2
      <4> QED
        BY <4>1, <4>2
    <3>4. new = [m \in 1 .. n |-> new[m]]
      BY <2>6, <3>2
    <3> QED
      BY <3>3, <3>4
  <2>12. Follows(h)
    <3>1. new # <<>>
      <4>1. Len(new) # 0
        BY <1>1, <2>6
      <4> HIDE DEF new
      <4> QED
        BY <4>1
    <3>2. field # "none"
      BY <1>1, <2>1
    <3>3. n = sent[field] /\ new \in Seq(Fields \X Nat) /\ field \in Fields
      BY <2>1, <2>2, <2>6
    <3>4. \A i \in DOMAIN new : new[i][1] = field /\ new[i][2] <= sent[field]
      BY <2>9, <3>3
    <3>5. field = "outputTranscription" =>
             new = [m \in 1 .. sent["outputTranscription"] |-> <<"outputTranscription", m>>]
      BY <2>11
    <3> HIDE DEF new, field, out, n
    <3>6. h.transcript = new /\ h.sent = sent /\ h.locked = field /\ sent \in [Fields -> Nat]
      BY <1>2, <2>5
    <3>7. /\ h.sent \in [Fields -> Nat] /\ h.transcript \in Seq(Fields \X Nat)
          /\ h.locked \in Fields \cup {"none"} /\ h.locked # "none" /\ h.transcript # <<>>
      BY <3>1, <3>2, <3>3, <3>6
    <3>8. /\ \A i \in DOMAIN h.transcript :
                h.transcript[i][1] = h.locked /\ h.transcript[i][2] <= h.sent[h.locked]
          /\ \A i, j \in DOMAIN h.transcript :
                i < j => h.transcript[i][2] < h.transcript[j][2]
      BY <2>10, <3>4, <3>6
    <3>9. h.locked = "outputTranscription" =>
          h.transcript = [m \in 1 .. h.sent["outputTranscription"] |-> <<"outputTranscription", m>>]
      BY <3>5, <3>6
    <3> QED
      BY <3>7, <3>8, <3>9 DEF Follows
  <2> QED
    BY <2>5, <2>7, <2>12
<1> QED
  BY <1>3, <1>4
(* Where a request goes does not touch what it has heard.                  *)
LEMMA RequestMoved ==
    ASSUME NEW r \in Hearings, Follows(r),
           NEW at \in Ats,
           NEW outcome \in Outcomes
    PROVE  /\ [r EXCEPT !.at = at] \in Hearings /\ Follows([r EXCEPT !.at = at])
           /\ [r EXCEPT !.at = at, !.outcome = outcome] \in Hearings
           /\ Follows([r EXCEPT !.at = at, !.outcome = outcome])
<1> DEFINE Pieces == Seq(Fields \X Nat)
           Counts == [Fields -> Nat]
           Locks == Fields \cup {"none"}
<1>1. Hearings = [at: Ats,
     prefer: Prefers, clip: Nat,
     transcript: Pieces, locked: Locks,
     sent: Counts, frames: Nat, outcome: Outcomes]
  BY DEF Hearings
<1> HIDE DEF Pieces, Counts, Locks
<1>2. /\ [r EXCEPT !.at = at] \in Hearings
      /\ [r EXCEPT !.at = at, !.outcome = outcome] \in Hearings
  BY <1>1
<1>3. ASSUME NEW h, h.sent = r.sent, h.transcript = r.transcript, h.locked = r.locked
      PROVE  Follows(h)
  BY <1>3 DEF Follows
<1>4. Follows([r EXCEPT !.at = at]) /\ Follows([r EXCEPT !.at = at, !.outcome = outcome])
  BY <1>1, <1>3
<1> QED
  BY <1>2, <1>4

(* A new request has heard nothing.                                        *)
LEMMA RequestNew ==
    ASSUME NEW at \in Ats,
           NEW prefer \in Prefers, NEW clip \in Nat,
           NEW outcome \in Outcomes, NEW h,
           h = [Deaf EXCEPT !.at = at, !.prefer = prefer, !.clip = clip, !.outcome = outcome]
    PROVE  h \in Hearings /\ Follows(h) /\ Deaf \in Hearings /\ Follows(Deaf)
<1> DEFINE Pieces == Seq(Fields \X Nat)
           Counts == [Fields -> Nat]
           Locks == Fields \cup {"none"}
           silence == [f \in ToSet(Sources) |-> 0]
<1>1. Hearings = [at: Ats,
     prefer: Prefers, clip: Nat,
     transcript: Pieces, locked: Locks,
     sent: Counts, frames: Nat, outcome: Outcomes]
  BY DEF Hearings
<1>2. /\ silence \in Counts /\ \A f \in Fields : silence[f] = 0
      /\ <<>> \in Pieces /\ "none" \in Locks /\ "outputTranscription" # "none"
  BY FieldNames
<1>3. Deaf = [at |-> "idle", prefer |-> "none", clip |-> 0, transcript |-> <<>>, locked |-> "none",
              sent |-> silence, frames |-> 0, outcome |-> "none"]
  BY DEF Deaf
<1>4. ASSUME NEW r, r.sent = silence, r.transcript = <<>>, r.locked = "none"
      PROVE  Follows(r)
  BY <1>2, <1>4 DEF Follows
<1> HIDE DEF Pieces, Counts, Locks, silence
<1>5. Deaf \in Hearings /\ h \in Hearings
  BY NamesOf, <1>1, <1>2, <1>3
<1>6. /\ h.sent = silence /\ h.transcript = <<>> /\ h.locked = "none"
      /\ Deaf.sent = silence /\ Deaf.transcript = <<>> /\ Deaf.locked = "none"
  BY <1>3
<1>7. Follows(h) /\ Follows(Deaf)
  BY <1>4, <1>6
<1> QED
  BY <1>5, <1>7

(* One request's step, which leaves only its own audio, while it runs.     *)
LEMMA OneHears ==
    ASSUME HearInv, NEW c \in Listeners, NEW h \in Hearings, Follows(h),
           hear' = [hear EXCEPT ![c] = h], clips' \in Nat, orphans' = orphans,
           tempFiles' \in SUBSET ({"audio", "json"} \X Nat),
           \A f \in tempFiles' : f[1] = "audio" =>
               \/ h.at = "running" /\ h.clip = f[2]
               \/ f \in tempFiles /\ ~(hear[c].at = "running" /\ hear[c].clip = f[2])
    PROVE  HearInv'
<1>1. hear \in [Listeners -> Hearings] /\ \A d \in Listeners : Follows(hear[d])
  BY DEF HearInv
<1>2. hear' \in [Listeners -> Hearings] /\ hear'[c] = h
      /\ \A d \in Listeners : d # c => hear'[d] = hear[d]
  BY <1>1
<1>3. AudioCleared'
  <2> SUFFICES ASSUME NEW f \in tempFiles' \ orphans', f[1] = "audio"
               PROVE  \E d \in Listeners : hear'[d].clip = f[2] /\ hear'[d].at = "running"
    BY DEF AudioCleared
  <2>1. CASE h.at = "running" /\ h.clip = f[2]
    BY <1>2, <2>1
  <2>2. CASE f \in tempFiles /\ ~(hear[c].at = "running" /\ hear[c].clip = f[2])
    <3>1. PICK d \in Listeners : hear[d].clip = f[2] /\ hear[d].at = "running"
      BY <2>2 DEF HearInv, AudioCleared
    <3> QED
      BY <1>2, <2>2, <3>1
  <2> QED
    BY <2>1, <2>2
<1>4. \A d \in Listeners : Follows(hear'[d])
  BY <1>1, <1>2
<1>5. \A d \in Listeners : Follows(hear[d])'
  BY <1>4 DEF Follows
<1> QED
  BY <1>2, <1>3, <1>5 DEF HearInv
(* Every step keeps the invariant.                                         *)
LEMMA HearStep ==
    ASSUME HearInv, [TranscribeNext]_sttVars
    PROVE  HearInv'
<1>a. /\ clips \in Nat /\ hear \in [Listeners -> Hearings]
      /\ tempFiles \in SUBSET ({"audio", "json"} \X Nat)
      /\ \A c \in Listeners : hear[c] \in Hearings /\ Follows(hear[c])
  BY DEF HearInv
<1>b. ASSUME NEW c \in Listeners, hear[c].at # "running", clips' = clips, orphans' = orphans,
             NEW outcome \in Outcomes, Told(c, outcome),
             tempFiles' \in SUBSET tempFiles
      PROVE  HearInv'
  <2> DEFINE h == [hear[c] EXCEPT !.at = "idle", !.outcome = outcome]
  <2>1. hear' = [hear EXCEPT ![c] = h]
    BY <1>a, <1>b DEF Told
  <2>2. h \in Hearings /\ Follows(h)
    BY NamesOf, <1>a, RequestMoved
  <2> HIDE DEF h
  <2> QED
    BY <1>a, <1>b, <2>1, <2>2, OneHears
<1>c. ASSUME NEW c \in Listeners,
             NEW prefer \in Prefers,
             NEW at \in Ats,
             NEW outcome \in Outcomes, Listen(c, prefer, at, outcome)
      PROVE  HearInv'
  <2> DEFINE clip == clips + 1
             h == [Deaf EXCEPT !.at = at, !.prefer = prefer, !.clip = clip, !.outcome = outcome]
  <2>1. /\ hear[c].at = "idle" /\ clips' = clips + 1 /\ hear' = [hear EXCEPT ![c] = h]
        /\ UNCHANGED <<tempFiles, orphans, sttCrashes>>
    BY <1>c DEF Listen
  <2>2. clip \in Nat /\ clips' \in Nat
    BY <1>a, <2>1
  <2> HIDE DEF clip
  <2>a. h = [Deaf EXCEPT !.at = at, !.prefer = prefer, !.clip = clip, !.outcome = outcome]
    OBVIOUS
  <2> HIDE DEF h
  <2>3. h \in Hearings /\ Follows(h)
    BY <2>2, <2>a, RequestNew
  <2> QED
    BY <1>a, <2>1, <2>2, <2>3, OneHears
<1>1. ASSUME NEW c \in Listeners, HearDefault(c) PROVE HearInv'
  BY NamesOf, <1>1, <1>c DEF HearDefault
<1>2. ASSUME NEW c \in Listeners, GroqAnswers(c) PROVE HearInv'
  BY NamesOf, <1>2, <1>b DEF GroqAnswers
<1>3. ASSUME NEW c \in Listeners, NEW silent \in BOOLEAN, HearLocal(c, silent) PROVE HearInv'
  BY NamesOf, <1>3, <1>c DEF HearLocal
<1>4. ASSUME NEW c \in Listeners, WhisperStarts(c) PROVE HearInv'
  <2>1. CASE Told(c, "error") /\ UNCHANGED tempFiles
    BY NamesOf, <1>4, <1>b, <2>1 DEF WhisperStarts
  <2>2. CASE /\ hear' = [hear EXCEPT ![c].at = "running"]
             /\ tempFiles' = tempFiles \cup {<<"audio", hear[c].clip>>}
    <3> DEFINE h == [hear[c] EXCEPT !.at = "running"]
    <3>1. hear' = [hear EXCEPT ![c] = h]
      BY <1>a, <2>2
    <3>2. h \in Hearings /\ Follows(h)
      BY NamesOf, <1>a, RequestMoved
    <3>3. h.at = "running" /\ h.clip = hear[c].clip /\ hear[c].at = "starting"
      BY <1>4, <1>a DEF WhisperStarts, Hearings
    <3>4. clips' = clips /\ orphans' = orphans
      BY <1>4 DEF WhisperStarts
    <3>5. /\ tempFiles' \in SUBSET ({"audio", "json"} \X Nat)
          /\ \A f \in tempFiles' : f \in tempFiles \/ f[2] = h.clip
      <4>1. hear[c].clip \in Nat
        BY <1>a DEF Hearings
      <4> QED
        BY <1>a, <2>2, <3>3, <4>1
    <3> HIDE DEF h
    <3> QED
      BY <1>a, <3>1, <3>2, <3>3, <3>4, <3>5, OneHears
  <2> QED
    BY <1>4, <2>1, <2>2 DEF WhisperStarts
<1>5. ASSUME NEW c \in Listeners, NEW works \in BOOLEAN, NEW writes \in BOOLEAN,
             WhisperEnds(c, works, writes)
      PROVE  HearInv'
  <2>1. /\ hear[c].at = "running" /\ clips' = clips /\ orphans' = orphans
        /\ tempFiles' = (tempFiles \ {<<"audio", hear[c].clip>>})
                           \cup (IF writes THEN {<<"json", hear[c].clip>>} ELSE {})
    BY <1>5 DEF WhisperEnds, AfterRun
  <2>2. PICK h \in Hearings : Follows(h) /\ hear' = [hear EXCEPT ![c] = h]
    <3>1. CASE works
      <4>1. hear' = [hear EXCEPT ![c] = [hear[c] EXCEPT !.at = "reading"]]
        BY <1>5, <1>a, <3>1 DEF WhisperEnds
      <4> QED
        BY NamesOf, <1>a, <4>1, RequestMoved
    <3>2. CASE ~works
      <4>1. hear' = [hear EXCEPT ![c] = [hear[c] EXCEPT !.at = "idle", !.outcome = "error"]]
        BY <1>5, <1>a, <3>2 DEF WhisperEnds, Told
      <4> QED
        BY NamesOf, <1>a, <4>1, RequestMoved
    <3> QED
      BY <3>1, <3>2
  <2>3. tempFiles' \in SUBSET ({"audio", "json"} \X Nat)
    <3>1. hear[c].clip \in Nat
      BY <1>a DEF Hearings
    <3> QED
      BY <1>a, <2>1, <3>1
  <2>4. \A f \in tempFiles' : f[1] = "audio" =>
            f \in tempFiles /\ ~(hear[c].at = "running" /\ hear[c].clip = f[2])
    <3> SUFFICES ASSUME NEW f \in tempFiles', f[1] = "audio"
                 PROVE  f \in tempFiles /\ hear[c].clip # f[2]
      OBVIOUS
    <3>1. f # <<"json", hear[c].clip>>
      OBVIOUS
    <3>2. f \in tempFiles /\ f # <<"audio", hear[c].clip>>
      BY <2>1, <3>1
    <3>3. f = <<f[1], f[2]>>
      BY <2>3
    <3> QED
      BY <3>2, <3>3
  <2>5. clips' \in Nat /\ h \in Hearings /\ orphans' = orphans
    BY <1>a, <2>1
  <2>6. \A f \in tempFiles' : f[1] = "audio" =>
            \/ h.at = "running" /\ h.clip = f[2]
            \/ f \in tempFiles /\ ~(hear[c].at = "running" /\ hear[c].clip = f[2])
    BY <2>4
  <2> QED
    BY <2>2, <2>3, <2>5, <2>6, OneHears
<1>6. ASSUME NEW c \in Listeners, WhisperReads(c) PROVE HearInv'
  <2>1. /\ hear[c].at # "running" /\ clips' = clips /\ orphans' = orphans
        /\ tempFiles' \in SUBSET tempFiles
    BY <1>6 DEF WhisperReads
  <2>2. Told(c, "text") \/ Told(c, "error")
    BY <1>6 DEF WhisperReads
  <2> QED
    BY NamesOf, <1>b, <2>1, <2>2
<1>7. ASSUME NEW c \in Listeners, HearStreaming(c) PROVE HearInv'
  BY NamesOf, <1>7, <1>c DEF HearStreaming
<1>8. ASSUME NEW c \in Listeners, HearingEnds(c) PROVE HearInv'
  BY NamesOf, <1>8, <1>b DEF HearingEnds
<1>9. ASSUME NEW c \in Listeners, NEW fields \in SUBSET ToSet(Sources), NEW done \in BOOLEAN,
             HearFrame(c, fields, done)
      PROVE  HearInv'
  <2> DEFINE r == hear[c]
             h == [Heard(r, fields) EXCEPT
                    !.sent = [f \in DOMAIN @ |-> IF f \in fields THEN @[f] + 1 ELSE @[f]],
                    !.frames = @ + 1]
             last == [h EXCEPT !.at = "idle", !.outcome = "text"]
  <2>1. /\ r.at = "session" /\ UNCHANGED <<tempFiles, orphans, clips, sttCrashes>>
        /\ hear' = [hear EXCEPT ![c] = IF done THEN last ELSE h]
    BY <1>9 DEF HearFrame
  <2>2. fields \in SUBSET Fields /\ r \in Hearings /\ Follows(r)
    BY <1>a, FieldNames
  <2>3. h \in Hearings /\ Follows(h)
    <3> HIDE DEF r
    <3> QED
      BY <2>2, FrameFollows
  <2> HIDE DEF h
  <2>4. last \in Hearings /\ Follows(last)
    BY NamesOf, <2>3, RequestMoved
  <2> HIDE DEF last
  <2>5. PICK g \in Hearings : Follows(g) /\ hear' = [hear EXCEPT ![c] = g]
    <3>1. CASE done
      BY <2>1, <2>4, <3>1
    <3>2. CASE ~done
      BY <2>1, <2>3, <3>2
    <3> QED
      BY <3>1, <3>2
  <2> QED
    BY <1>a, <2>1, <2>5, OneHears
<1>10. CASE SttCrash
  <2>1. /\ hear' = [c \in Listeners |-> Deaf] /\ UNCHANGED <<tempFiles, clips>>
        /\ orphans' = orphans \cup {f \in tempFiles : \E c \in Listeners :
                                   f[2] = hear[c].clip /\ hear[c].at \in {"running", "reading"}}
    BY <1>10 DEF SttCrash
  <2>2. Deaf \in Hearings /\ Follows(Deaf)
    <3>1. 0 \in Nat
      OBVIOUS
    <3> QED
      BY NamesOf, <3>1, RequestNew
  <2>3. hear' \in [Listeners -> Hearings] /\ \A c \in Listeners : hear'[c] = Deaf
    BY <2>1, <2>2
  <2>4. \A c \in Listeners : Follows(hear[c])'
    BY <2>2, <2>3 DEF Follows
  <2>5. AudioCleared'
    <3> SUFFICES ASSUME NEW f \in tempFiles' \ orphans', f[1] = "audio" PROVE FALSE
      BY DEF AudioCleared
    <3>1. PICK c \in Listeners : hear[c].clip = f[2] /\ hear[c].at = "running"
      BY <2>1 DEF HearInv, AudioCleared
    <3> QED
      BY <2>1, <3>1
  <2> QED
    BY <1>a, <2>1, <2>3, <2>4, <2>5 DEF HearInv
<1>11. CASE UNCHANGED sttVars
  BY <1>11 DEF sttVars, HearInv, AudioCleared, Follows
<1> QED
  BY <1>1, <1>2, <1>3, <1>4, <1>5, <1>6, <1>7, <1>8, <1>9, <1>10, <1>11 DEF TranscribeNext

(* Files belong to the clip of a request that was made: a crashed one's    *)
(* are touched by no request that comes later.                             *)
FilesInv ==
    /\ clips \in 0 .. MaxClips
    /\ tempFiles \in SUBSET ({"audio", "json"} \X (1 .. MaxClips)) /\ orphans \in SUBSET tempFiles
    /\ \A f \in tempFiles : f[2] <= clips
    /\ \A c \in Listeners : hear[c].at # "idle" => hear[c].clip \in 1 .. clips
    /\ \A c \in Listeners, f \in orphans : hear[c].at # "idle" => hear[c].clip # f[2]

OwnFiles(c) ==
    /\ \A f \in tempFiles : f[2] # hear[c].clip => f \in tempFiles'
    /\ \A f \in tempFiles' :
          f \in tempFiles \/ (f \in {"audio", "json"} \X Nat /\ f[2] = hear[c].clip)

(* A request goes on, removes or adds files of its own clip, or is a new   *)
(* one with a clip of its own.                                             *)
OneWorks(c) ==
    /\ \A d \in Listeners : d # c => hear'[d] = hear[d]
    /\ \/ hear'[c].at = "idle" \/ (hear[c].at # "idle" /\ hear'[c].clip = hear[c].clip)
       \/ clips' = clips + 1 /\ hear'[c].clip = clips + 1
    /\ clips' \in {clips, clips + 1} /\ clips' \in 0 .. MaxClips /\ orphans' = orphans
    /\ tempFiles' = tempFiles \/ (hear[c].at # "idle" /\ OwnFiles(c))

LEMMA FilesKept == ASSUME HearInv, FilesInv, NEW c \in Listeners, OneWorks(c) PROVE FilesInv'
<1> USE TranscribeAssumption
<1>0. /\ clips \in 0 .. MaxClips /\ MaxClips \in Nat /\ clips' \in {clips, clips + 1} /\ clips' \in 0 .. MaxClips
      /\ tempFiles \in SUBSET ({"audio", "json"} \X (1 .. MaxClips)) /\ orphans \in SUBSET tempFiles
      /\ \A f \in tempFiles : f[2] <= clips /\ f[2] \in Nat
      /\ \A d \in Listeners : hear[d].at # "idle" => hear[d].clip \in 1 .. clips
      /\ \A d \in Listeners, f \in orphans : hear[d].at # "idle" => hear[d].clip # f[2]
  BY DEF FilesInv, OneWorks
<1>1. \A f \in tempFiles' : f \in {"audio", "json"} \X (1 .. MaxClips) /\ f[2] <= clips'
  <2> TAKE f \in tempFiles'
  <2>1. CASE f \in tempFiles
    BY <1>0, <2>1
  <2>2. CASE f \in {"audio", "json"} \X Nat /\ f[2] = hear[c].clip /\ hear[c].at # "idle"
    <3>1. f = <<f[1], f[2]>> /\ f[1] \in {"audio", "json"} /\ f[2] \in 1 .. clips
      BY <1>0, <2>2
    <3> QED BY <1>0, <3>1
  <2> QED BY <2>1, <2>2 DEF OneWorks, OwnFiles
<1>2. orphans' \in SUBSET tempFiles'
  BY <1>0 DEF OneWorks, OwnFiles
<1>3. ASSUME NEW d \in Listeners, hear'[d].at # "idle"
      PROVE  hear'[d].clip \in 1 .. clips' /\ \A f \in orphans : hear'[d].clip # f[2]
  <2>1. CASE d # c
    <3>1. hear'[d] = hear[d]
      BY <2>1 DEF OneWorks
    <3> QED BY <1>0, <1>3, <3>1
  <2>2. CASE d = c /\ hear[c].at # "idle" /\ hear'[c].clip = hear[c].clip
    BY <1>0, <2>2
  <2>3. CASE d = c /\ clips' = clips + 1 /\ hear'[c].clip = clips + 1
    BY <1>0, <2>3
  <2> QED BY <1>3, <2>1, <2>2, <2>3 DEF OneWorks
<1>4. orphans' = orphans
  BY DEF OneWorks
<1> QED BY <1>0, <1>1, <1>2, <1>3, <1>4 DEF FilesInv

LEMMA FilesStep ==
    ASSUME HearInv, FilesInv, [TranscribeNext]_sttVars PROVE FilesInv'
<1> USE TranscribeAssumption
<1>0. /\ hear \in [Listeners -> Hearings] /\ clips \in 0 .. MaxClips /\ MaxClips \in Nat
      /\ \A c \in Listeners : hear[c] \in Hearings /\ hear[c].clip \in Nat
  BY DEF HearInv, FilesInv, Hearings
<1>1. ASSUME NEW c \in Listeners, NEW outcome, Told(c, outcome), hear[c].at # "idle",
             clips' = clips, orphans' = orphans,
             tempFiles' = tempFiles \/ OwnFiles(c)
      PROVE  FilesInv'
  <2>1. hear'[c].at = "idle" /\ \A d \in Listeners : d # c => hear'[d] = hear[d]
    BY <1>0, <1>1 DEF Told, Hearings
  <2>2. OneWorks(c)
    BY <1>0, <1>1, <2>1 DEF OneWorks
  <2> QED BY <2>2, FilesKept
<1>2. ASSUME NEW c \in Listeners, NEW prefer, NEW at, NEW outcome, Listen(c, prefer, at, outcome)
      PROVE  FilesInv'
  <2>1. /\ hear[c].at = "idle" /\ clips < MaxClips /\ clips' = clips + 1 /\ UNCHANGED <<tempFiles, orphans>>
        /\ hear' = [hear EXCEPT ![c] =
                      [Deaf EXCEPT !.at = at, !.prefer = prefer, !.clip = clips + 1, !.outcome = outcome]]
    BY <1>2 DEF Listen
  <2>2. hear'[c].clip = clips + 1 /\ \A d \in Listeners : d # c => hear'[d] = hear[d]
    BY <1>0, <2>1 DEF Deaf
  <2>3. OneWorks(c)
    BY <1>0, <2>1, <2>2 DEF OneWorks
  <2> QED BY <2>3, FilesKept
<1>3. ASSUME NEW c \in Listeners, NEW h, hear' = [hear EXCEPT ![c] = h], hear[c].at # "idle",
             h.clip = hear[c].clip, clips' = clips, orphans' = orphans,
             tempFiles' = tempFiles \/ OwnFiles(c)
      PROVE  FilesInv'
  <2>1. hear'[c] = h /\ \A d \in Listeners : d # c => hear'[d] = hear[d]
    BY <1>0, <1>3
  <2>2. OneWorks(c)
    BY <1>0, <1>3, <2>1 DEF OneWorks
  <2> QED BY <2>2, FilesKept
<1>4. ASSUME NEW c \in Listeners, HearDefault(c) \/ HearStreaming(c) PROVE FilesInv'
  BY <1>2, <1>4 DEF HearDefault, HearStreaming
<1>5. ASSUME NEW c \in Listeners, NEW silent \in BOOLEAN, HearLocal(c, silent) PROVE FilesInv'
  BY <1>2, <1>5 DEF HearLocal
<1>6. ASSUME NEW c \in Listeners, GroqAnswers(c) PROVE FilesInv'
  BY <1>1, <1>6 DEF GroqAnswers
<1>7. ASSUME NEW c \in Listeners, HearingEnds(c) PROVE FilesInv'
  BY <1>1, <1>7 DEF HearingEnds
<1>8. ASSUME NEW c \in Listeners, WhisperStarts(c) PROVE FilesInv'
  <2>1. hear[c].at = "starting" /\ UNCHANGED <<orphans, clips>>
    BY <1>8 DEF WhisperStarts
  <2>2. CASE Told(c, "error") /\ UNCHANGED tempFiles
    BY <1>1, <2>1, <2>2
  <2>3. CASE /\ hear' = [hear EXCEPT ![c].at = "running"]
             /\ tempFiles' = tempFiles \cup {<<"audio", hear[c].clip>>}
    <3> DEFINE h == [hear[c] EXCEPT !.at = "running"]
               new == <<"audio", hear[c].clip>>
    <3>1. hear' = [hear EXCEPT ![c] = h] /\ h.clip = hear[c].clip
      BY <1>0, <2>3 DEF Hearings
    <3>2. new \in {"audio", "json"} \X Nat /\ new[2] = hear[c].clip
      BY <1>0
    <3> HIDE DEF h, new
    <3>3. tempFiles' = tempFiles \cup {new}
      BY <2>3 DEF new
    <3>4. OwnFiles(c)
      BY <3>2, <3>3 DEF OwnFiles
    <3> QED BY <1>3, <2>1, <3>1, <3>4
  <2> QED BY <1>8, <2>2, <2>3 DEF WhisperStarts
<1>9. ASSUME NEW c \in Listeners, NEW works \in BOOLEAN, NEW writes \in BOOLEAN, WhisperEnds(c, works, writes)
      PROVE  FilesInv'
  <2> DEFINE audio == <<"audio", hear[c].clip>>
             json == <<"json", hear[c].clip>>
             h == [hear[c] EXCEPT !.at = "reading"]
  <2>1. /\ hear[c].at = "running" /\ orphans' = orphans /\ clips' = clips
        /\ tempFiles' = (tempFiles \ {audio}) \cup (IF writes THEN {json} ELSE {})
        /\ (works /\ hear' = [hear EXCEPT ![c].at = "reading"]) \/ Told(c, "error")
    BY <1>9 DEF WhisperEnds, AfterRun
  <2>2. /\ audio[2] = hear[c].clip /\ json[2] = hear[c].clip /\ json \in {"audio", "json"} \X Nat
    BY <1>0
  <2> HIDE DEF audio, json
  <2>3. OwnFiles(c)
    BY <2>1, <2>2 DEF OwnFiles
  <2>4. CASE works /\ hear' = [hear EXCEPT ![c].at = "reading"]
    <3>1. hear' = [hear EXCEPT ![c] = h] /\ h.clip = hear[c].clip
      BY <1>0, <2>4 DEF Hearings
    <3> HIDE DEF h
    <3> QED BY <1>3, <2>1, <2>3, <3>1
  <2>5. CASE Told(c, "error")
    BY <1>1, <2>1, <2>3, <2>5
  <2> QED BY <2>1, <2>4, <2>5
<1>10. ASSUME NEW c \in Listeners, WhisperReads(c) PROVE FilesInv'
  <2> DEFINE json == <<"json", hear[c].clip>>
  <2>1. /\ hear[c].at = "reading" /\ orphans' = orphans /\ clips' = clips
        /\ Told(c, "text") \/ Told(c, "error")
        /\ tempFiles' = tempFiles \ {json} \/ tempFiles' = tempFiles
    BY <1>10 DEF WhisperReads
  <2>2. json[2] = hear[c].clip
    OBVIOUS
  <2> HIDE DEF json
  <2>3. tempFiles' = tempFiles \/ OwnFiles(c)
    BY <2>1, <2>2 DEF OwnFiles
  <2> QED BY <1>1, <2>1, <2>3
<1>11. ASSUME NEW c \in Listeners, NEW fields \in SUBSET ToSet(Sources), NEW done \in BOOLEAN,
              HearFrame(c, fields, done)
       PROVE  FilesInv'
  <2> DEFINE r == hear[c]
             g == Heard(r, fields)
             h == [g EXCEPT !.sent = [f \in DOMAIN @ |-> IF f \in fields THEN @[f] + 1 ELSE @[f]],
                            !.frames = @ + 1]
             last == [h EXCEPT !.at = "idle", !.outcome = "text"]
  <2>1. /\ r.at = "session" /\ UNCHANGED <<tempFiles, orphans, clips>>
        /\ hear' = [hear EXCEPT ![c] = IF done THEN last ELSE h]
    BY <1>11 DEF HearFrame
  <2>2. "clip" \in DOMAIN r /\ DOMAIN g = DOMAIN r /\ g.clip = r.clip
    BY <1>0 DEF Heard, Hearings
  <2> HIDE DEF g
  <2>3. h.clip = r.clip /\ last.clip = r.clip
    BY <2>2
  <2> HIDE DEF h, last
  <2>4. CASE done
    BY <1>3, <2>1, <2>3, <2>4
  <2>5. CASE ~done
    BY <1>3, <2>1, <2>3, <2>5
  <2> QED BY <2>4, <2>5
<1>12. CASE SttCrash
  <2>1. /\ hear' = [c \in Listeners |-> Deaf] /\ UNCHANGED <<tempFiles, clips>>
        /\ orphans' = orphans \cup {f \in tempFiles : \E c \in Listeners :
                                   f[2] = hear[c].clip /\ hear[c].at \in {"running", "reading"}}
    BY <1>12 DEF SttCrash
  <2>2. \A c \in Listeners : hear'[c].at = "idle"
    BY <2>1 DEF Deaf
  <2> QED BY <2>1, <2>2 DEF FilesInv
<1>13. CASE UNCHANGED sttVars
  BY <1>13 DEF sttVars, FilesInv
<1> QED BY <1>4, <1>5, <1>6, <1>7, <1>8, <1>9, <1>10, <1>11, <1>12, <1>13 DEF TranscribeNext

LEMMA HearStart == TranscribeInit => HearInv /\ FilesInv
<1> SUFFICES ASSUME TranscribeInit PROVE HearInv /\ FilesInv
  OBVIOUS
<1>1. HearInv
  <2>1. Deaf \in Hearings /\ Follows(Deaf)
    <3>1. 0 \in Nat
      OBVIOUS
    <3> QED BY NamesOf, <3>1, RequestNew
  <2>2. hear \in [Listeners -> Hearings] /\ \A c \in Listeners : hear[c] = Deaf
    BY <2>1 DEF TranscribeInit
  <2> QED BY <2>1, <2>2 DEF TranscribeInit, HearInv, AudioCleared
<1>2. \A c \in Listeners : hear[c].at = "idle"
  BY DEF TranscribeInit, Deaf
<1>3. FilesInv
  BY <1>2, TranscribeAssumption DEF TranscribeInit, FilesInv
<1> QED BY <1>1, <1>3

LEMMA HearKeeps == HearInv /\ FilesInv => TranscribeTypeOK
BY FieldNames DEF HearInv, FilesInv, TranscribeTypeOK, Hearings, Ats, Prefers, Outcomes

(* For any requests and any number of deaths of the process: no run of     *)
(* whisper that ended leaves its audio on the disk, and a transcript of    *)
(* the live session has one source and repeats nothing, in whatever frames *)
(* the fields arrive.                                                      *)
THEOREM TranscriptsAlwaysSound == TranscribeSpec => []TranscriptsSound
<1>1. TranscribeInit => HearInv
  <2> SUFFICES ASSUME TranscribeInit PROVE HearInv
    OBVIOUS
  <2>1. Deaf \in Hearings /\ Follows(Deaf)
    <3>1. 0 \in Nat
      OBVIOUS
    <3> QED
      BY NamesOf, <3>1, RequestNew
  <2>2. hear \in [Listeners -> Hearings] /\ \A c \in Listeners : hear[c] = Deaf
    BY <2>1 DEF TranscribeInit
  <2> QED
    BY <2>1, <2>2 DEF TranscribeInit, HearInv, AudioCleared
<1>2. HearInv /\ [TranscribeNext]_sttVars => HearInv'
  BY HearStep
<1>3. HearInv => TranscriptsSound
  <2> SUFFICES ASSUME HearInv, NEW c \in Listeners
               PROVE  LET t == hear[c].transcript IN
                      /\ \A i, j \in DOMAIN t : i < j => t[i][1] = t[j][1] /\ t[i][2] < t[j][2]
                      /\ t # <<>> /\ t[1][1] = "outputTranscription" =>
                            t = [n \in 1 .. hear[c].sent["outputTranscription"] |->
                                    <<"outputTranscription", n>>]
    BY DEF TranscriptsSound, OneSource, HearInv
  <2> DEFINE t == hear[c].transcript
  <2>1. Follows(hear[c]) /\ t \in Seq(Fields \X Nat)
    BY DEF HearInv, Follows
  <2>2. \A i, j \in DOMAIN t : i < j => t[i][1] = t[j][1] /\ t[i][2] < t[j][2]
    <3>1. CASE hear[c].locked = "none"
      <4>1. t = <<>>
        BY <2>1, <3>1 DEF Follows
      <4>2. DOMAIN t = {}
        BY <4>1
      <4> QED
        BY <4>2
    <3>2. CASE hear[c].locked # "none"
      BY <2>1, <3>2 DEF Follows
    <3> QED
      BY <3>1, <3>2
  <2>3. ASSUME t # <<>>, t[1][1] = "outputTranscription"
        PROVE  t = [n \in 1 .. hear[c].sent["outputTranscription"] |->
                       <<"outputTranscription", n>>]
    <3>1. 1 \in DOMAIN t
      BY <2>1, <2>3
    <3>2. hear[c].locked = "outputTranscription"
      BY <2>1, <2>3, <3>1 DEF Follows
    <3> QED
      BY <2>1, <3>2 DEF Follows
  <2> QED
    BY <2>2, <2>3
<1> QED
  BY <1>1, <1>2, <1>3, PTL DEF TranscribeSpec

-----------------------------------------------------------------------------
(* All of them: a behaviour of the whole is one of each part.              *)

ChannelsInv ==
    /\ GmailInv /\ ImapInv /\ VoiceInv /\ LineInv /\ HookInv /\ WaInv /\ SmsInv /\ TgInv /\ TeamsInv
    /\ AdapterInv /\ HearInv /\ FilesInv

(* A step of the whole is for every part a step of its own or none.        *)
LEMMA PartsStep ==
    ASSUME [ChannelsNext]_channelsVars
    PROVE  /\ [StoreNext]_storeVars /\ [GmailNext]_gmailVars /\ [ImapNext]_imapVars /\ [VoiceNext]_voiceVars
           /\ [LineNext]_lineVars /\ [HookNext]_hookVars /\ [WaNext]_waVars /\ [SmsNext]_smsVars
           /\ [TelegramNext]_telegramVars /\ [TeamsNext]_teamsVars /\ [AdapterNext]_adapterVars
           /\ [TranscribeNext]_sttVars
<1>1. CASE UNCHANGED channelsVars
  BY <1>1 DEF channelsVars
<1>2. CASE ChannelsNext
  BY <1>2 DEF ChannelsNext, Part
<1> QED BY <1>1, <1>2

LEMMA ChannelsInvariant == ChannelsSpec => []ChannelsInv
<1>1. ChannelsInit => ChannelsInv
  BY GmailStart, ImapStart, VoiceStart, LineStart, HookStart, WaStart, SmsStart, TgStart, TeamsStart,
     AdapterStart, HearStart DEF ChannelsInit, ChannelsInv
<1>2. ChannelsInv /\ [ChannelsNext]_channelsVars => ChannelsInv'
  BY PartsStep, GmailStep, ImapStep, VoiceStep, LineStep, HookStep, WaStep, SmsStep, TgStep, TeamsStep,
     AdapterStep, HearStep, FilesStep DEF ChannelsInv
<1> QED BY <1>1, <1>2, PTL DEF ChannelsSpec

(* A behaviour of the whole is one of the store and one of the             *)
(* transcriptions, so what those promise holds of it too.                  *)
LEMMA StoreFollowed == ChannelsSpec => StoreSpec
<1>1. ChannelsInit => StoreInit
  BY DEF ChannelsInit
<1>2. [ChannelsNext]_channelsVars => [StoreNext]_storeVars
  BY PartsStep
<1> QED BY <1>1, <1>2, PTL DEF ChannelsSpec, StoreSpec

(* The state of the store, of every adapter and of the transcriptions      *)
(* keeps its type, for any people, mails, streams, texts and posts.        *)
THEOREM ChannelsTypeCorrect == ChannelsSpec => []ChannelsTypeOK
<1>1. ChannelsInv /\ StoreTypeOK => ChannelsTypeOK
  BY GmailKeeps, ImapKeeps, VoiceKeeps, LineKeeps, HookKeeps, WaKeeps, SmsKeeps, TgKeeps, HearKeeps
     DEF ChannelsInv, TeamsInv, AdapterInv, ChannelsTypeOK
<1> QED BY <1>1, ChannelsInvariant, StoreFollowed, StoreTypeCorrect, PTL

(* Over any redeliveries, failed iterations, restarts and second           *)
(* providers, what comes again takes effect no oftener than RepeatsBounded *)
(* says: once for mails, for replies over two providers and for a kept     *)
(* webhook adapter, once per delivery for LINE's tokens, once per posting  *)
(* for texts, and again for updates that a restart left unconfirmed.       *)
THEOREM RepeatsAlwaysBounded == ChannelsSpec => []RepeatsBounded
<1>1. ChannelsInv => RepeatsBounded
  BY GmailKeeps, ImapKeeps, LineKeeps, HookKeeps, WaKeeps, SmsKeeps, TgKeeps DEF ChannelsInv, RepeatsBounded
<1> QED BY <1>1, ChannelsInvariant, PTL

(* Cursors and offsets pass nothing by, audio is in one place at a time,   *)
(* media are accounted for, and a fresh file outlives the sweep.           *)
THEOREM NothingEverLost == ChannelsSpec => []NothingLost
<1>1. ChannelsInv => NothingLost
  BY GmailKeeps, VoiceKeeps, SmsKeeps, TgKeeps DEF ChannelsInv, NothingLost
<1> QED BY <1>1, ChannelsInvariant, PTL

(* No adapter mixes up two conversations, whoever wrote in between.        *)
THEOREM AlwaysRightParty == ChannelsSpec => []RightParty
<1>1. ChannelsInv => RightParty
  BY ImapKeeps, VoiceKeeps, WaKeeps DEF ChannelsInv, TeamsInv, RightParty
<1> QED BY <1>1, ChannelsInvariant, PTL

(* The gates let pass whom they are to let pass, and nobody else.          *)
THEOREM GatesAlwaysHold == ChannelsSpec => []GatesHold
<1>1. ChannelsInv => GatesHold
  BY OwnersPass, LineKeeps, TgKeeps, GmailKeeps DEF ChannelsInv, AdapterInv, GatesHold
<1> QED BY <1>1, ChannelsInvariant, PTL

(* A token lives when its post arrives, and a stopped call leaves nothing. *)
THEOREM NothingEverOutlived == ChannelsSpec => []NothingOutlived
<1>1. ChannelsInv => NothingOutlived
  BY VoiceKeeps DEF ChannelsInv, TeamsInv, NothingOutlived
<1> QED BY <1>1, ChannelsInvariant, PTL
================================================================================
