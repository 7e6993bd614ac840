----------------------------- MODULE MCChannels -----------------------------
(* One run over the channel adapters, their bridges, the pairing store and *)
(* the transcripts of what is said.  They share no state with one another, *)
(* so each behaviour follows one of them (adapter) and leaves the others   *)
(* as they started.                                                        *)
EXTENDS PairingStore, GmailPoller, ImapBridge, VoiceStreams, LineBridge, WebhookOnce, WhatsAppRoutes, TwilioSms,
        TelegramPoller, TeamsConnector, AdapterGate, Transcribe, TLC

VARIABLE adapter
channelsVars ==
    <<adapter, storeVars, gmailVars, imapVars, voiceVars, lineVars, hookVars, waVars, smsVars, telegramVars,
      teamsVars, adapterVars, sttVars>>

ChannelsInit ==
    /\ adapter \in {"gmail", "imap", "voice", "line", "webhook", "whatsapp", "sms", "telegram",
                    "teams", "gate", "pairing", "transcribe"}
    /\ StoreInit /\ GmailInit /\ ImapInit /\ TeamsInit /\ TranscribeInit
    /\ VoiceInit
    /\ adapter # "voice"    => bufferAudio
    /\ LineInit
    /\ adapter # "line"     => ~linePublic /\ linePaired = {}
    /\ HookInit
    /\ adapter # "webhook"  => adapterKept
    /\ WaInit
    /\ adapter # "whatsapp" => waPaired = {}
    /\ SmsInit
    /\ adapter # "sms"      => botNumber = NoNumber
    /\ TelegramInit
    /\ adapter # "telegram" => ~tgPublic /\ ownerEnv = NoOwner
    /\ AdapterInit
    /\ discordConfig.ignoreBots = discordConfig.gateDms
    /\ adapter # "gate"     => ~publicChannel /\ ~discordConfig.gateDms

(* The part that the behaviour follows takes its step; the others do not.  *)
Part(name, next, vars) == IF adapter = name THEN next ELSE UNCHANGED vars

ChannelsNext ==
    /\ UNCHANGED adapter
    /\ Part("pairing", StoreNext, storeVars)
    /\ Part("gmail", GmailNext, gmailVars)
    /\ Part("imap", ImapNext, imapVars)
    /\ Part("voice", VoiceNext, voiceVars)
    /\ Part("line", LineNext, lineVars)
    /\ Part("webhook", HookNext, hookVars)
    /\ Part("whatsapp", WaNext, waVars)
    /\ Part("sms", SmsNext, smsVars)
    /\ Part("telegram", TelegramNext, telegramVars)
    /\ Part("teams", TeamsNext, teamsVars)
    /\ Part("gate", AdapterNext, adapterVars)
    /\ Part("transcribe", TranscribeNext, sttVars)

ChannelsSpec == ChannelsInit /\ [][ChannelsNext]_channelsVars

(* The state of the store and of every adapter keeps its type.             *)
ChannelsTypeOK ==
    /\ StoreTypeOK /\ GmailTypeOK /\ ImapTypeOK /\ VoiceTypeOK /\ LineTypeOK /\ HookTypeOK /\ WaTypeOK
    /\ SmsTypeOK /\ TelegramTypeOK /\ TeamsTypeOK /\ AdapterTypeOK /\ TranscribeTypeOK

(* What comes again takes effect no oftener than is said here, part by     *)
(* part.  Gmail and IMAP: no mail is answered or enveloped twice, whatever *)
(* is polled again after a failed iteration or a restart.  LINE: a reply   *)
(* token goes out once for each delivery that brought it, and a delivery   *)
(* repeated is answered again.  Signed webhooks: accepted once, by an      *)
(* adapter that is kept; the gateway's route makes one per request         *)
(* (routes/channels.py:245), whose memory is empty.  WhatsApp: a reply goes*)
(* out once over two providers.  SMS: one reply for each posting of a      *)
(* message; a message that Twilio posts twice is answered twice.  Telegram:*)
(* forwarded again only if it was unconfirmed at a restart.                *)
RepeatsBounded ==
    AnsweredOnce /\ NoMailTwice /\ TokenOncePerDelivery /\ KeptAcceptsOnce /\ RepliedOnce
    /\ OneReplyPerPost /\ TwiceOnlyWhenExposed

(* What came is handled or in hand: cursors and offsets pass nothing by,   *)
(* audio and media are kept across awaits and failures, and what was just  *)
(* stored outlives the sweep.                                              *)
NothingLost ==
    CursorBehindVisits /\ NothingPassedOver /\ AudioConserved /\ MediaAccounted /\ FreshRefLives

(* What the adapters remember of one conversation is not mixed up with     *)
(* another one's: subjects, callers, conversations and providers are those *)
(* of the person they are used for, whoever wrote in between.  A caller    *)
(* whose start frame was lost or unreadable is unknown; and Twilio is also *)
(* remembered where it refused the reply that Meta could not deliver.      *)
RightParty ==
    SubjectOfThread /\ OwnCaller /\ ReachesItsReader /\ EntryHasEvidence /\ RecentRemembered

(* The agent hears whom the gates let pass, and no gate shuts out those it *)
(* is to serve: strangers, revoked and refused senders and the bridge's    *)
(* own echo stay outside, over every adapter and its pairing by itself.    *)
GatesHold == StrangersUnheard /\ OwnerPasses /\ OneOwnerPerRun /\ AgentOnlyAfterAck /\ NoEchoLoop

(* Nothing is used after its end nor kept beyond it: a token still lives   *)
(* when its post arrives, and a call that stopped leaves no state behind.  *)
NothingOutlived == TokenAliveOnArrival /\ StoppedLeavesNothing

-----------------------------------------------------------------------------
MCThreadOf == [x \in Mails |-> IF x = "m3" THEN "t2" ELSE "t1"]
MCCallerOf == [s \in Streams |-> IF s = "s1" THEN "ann" ELSE "bob"]
MCEventsOf == [w \in Webhooks |-> IF w = "w1" THEN <<"e1", "e2">> ELSE <<"e1_again">>]
MCSenderOf == [d \in LineEvents |-> IF d = "e2" THEN "u2" ELSE "u1"]
(* The second webhook delivers the first one's event again.                *)
MCTokenOf == [d \in LineEvents |-> IF d = "e2" THEN "token2" ELSE "token1"]
MCNumberOf == [x \in Texts |-> "n1"]
MCMediaOf == [x \in Texts |-> {"i1", "i2"}]
=============================================================================
