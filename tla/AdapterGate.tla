---------------------------- MODULE AdapterGate ----------------------------
(***************************************************************************)
(* Whom the adapters let through: on_message, which each of the            *)
(* catalogue's adapters writes for itself, from the event to the envelope  *)
(* or to None.  They differ in what they can read and in what they ask:    *)
(* the allowlist with the owners, the trust alone, or nothing; and the     *)
(* Twilio ones let the refused through without their trust.  What the      *)
(* envelope says besides the sender and its trust is left out; of          *)
(* twilio_voice the call's webhook is meant, not its media frames.         *)
(* One adapter runs at a time; the owner may change the pairings between   *)
(* messages, and while local_mic awaits a transcript.                      *)
(***************************************************************************)
EXTENDS Integers, FiniteSets

CONSTANTS
    Persons,
    ListedPersons,      \* allowed_senders of channels.yaml
    Nothing,            \* no message
    MentionsOnly        \* mention_only_in_public

ASSUME AdapterAssumption ==
    /\ ListedPersons \subseteq Persons /\ Nothing \notin Persons /\ MentionsOnly \in BOOLEAN

GatedChannels == {"matrix", "slack", "signal", "webui", "local_mic", "discord", "teams", "gmail",
                  "telegram", "line", "whatsapp", "webhook", "imap", "twilio_sms", "twilio_voice"}
Standing == {"owner_paired", "user_paired", "untrusted"}
(* Of the adapters only discord looks at whether a bot wrote, and slack    *)
(* and the Twilio ones take whatever comes for a message.  What another    *)
(* kind of event, an empty message, a wrong signature or a mail that       *)
(* cannot be fetched makes of an adapter is readable = FALSE.              *)
Incoming ==
    {msg \in [channel: GatedChannels, person: Persons, mention: BOOLEAN, bot: BOOLEAN,
              readable: BOOLEAN] :
        /\ msg.bot => msg.channel = "discord"
        /\ msg.channel \in {"slack", "twilio_sms", "twilio_voice"} => msg.readable}

VARIABLES
    standing,       \* pairing store: what classify says of each person
    publicChannel,  \* is_public_channel
    discordConfig,  \* ignore_bots, enforce_allowlist_in_dm
    transcribing,   \* local_mic's message that awaits its transcript, with its trust
    surfaced        \* the envelope that on_message has returned, until its caller takes it

adapterVars == <<standing, publicChannel, discordConfig, transcribing, surfaced>>

Verdicts == [msg: Incoming, was: Standing, trust: Standing]

AdapterTypeOK ==
    /\ standing \in [Persons -> Standing] /\ publicChannel \in BOOLEAN
    /\ discordConfig \in [ignoreBots: BOOLEAN, gateDms: BOOLEAN]
    /\ transcribing \in Verdicts \cup {Nothing} /\ surfaced \in Verdicts \cup {Nothing}

AdapterInit ==
    /\ standing = [p \in Persons |-> "untrusted"]
    /\ publicChannel \in BOOLEAN /\ discordConfig \in [ignoreBots: BOOLEAN, gateDms: BOOLEAN]
    /\ transcribing = Nothing /\ surfaced = Nothing

-----------------------------------------------------------------------------
(* allowed() of security/allowlists.py.                                    *)
AllowedBy(person, isOwner, inPublic, mention) ==
    /\ isOwner \/ person \in ListedPersons
    /\ inPublic /\ MentionsOnly => mention

IsOwner(msg) == standing[msg.person] = "owner_paired"

(* Mutants of MatrixGate: whoever is paired counts as an owner; no owner is*)
(* passed to allowed().                                                    *)
MatrixGatePaired(msg) ==
    /\ msg.readable
    /\ publicChannel => AllowedBy(msg.person, standing[msg.person] # "untrusted", TRUE, msg.mention)
MatrixGateNoOwners(msg) ==
    msg.readable /\ (publicChannel => AllowedBy(msg.person, FALSE, TRUE, msg.mention))

(* The mention is the bot's own id in the event's list.                    *)
MatrixGate(msg) ==
    msg.readable /\ (publicChannel => AllowedBy(msg.person, IsOwner(msg), TRUE, msg.mention))

TeamsGate(msg) ==
    msg.readable /\ (publicChannel => AllowedBy(msg.person, IsOwner(msg), TRUE, msg.mention))

(* A mail names nobody: being paired is taken for a mention.               *)
GmailGate(msg) ==
    /\ msg.readable
    /\ publicChannel =>
          AllowedBy(msg.person, IsOwner(msg), TRUE, standing[msg.person] # "untrusted")

(* A recording, and then not a silent one.                                 *)
MicGate(msg) ==
    msg.readable /\ (publicChannel => AllowedBy(msg.person, IsOwner(msg), TRUE, msg.mention))

(* Signal has no mention to report.                                        *)
SignalGate(msg) ==
    msg.readable /\ (publicChannel => AllowedBy(msg.person, IsOwner(msg), TRUE, FALSE))

(* The mention is a setting of the adapter.                                *)
TelegramGate(msg) ==
    msg.readable /\ (publicChannel => AllowedBy(msg.person, IsOwner(msg), TRUE, msg.mention))
WebhookGate(msg) ==
    msg.readable /\ (publicChannel => AllowedBy(msg.person, IsOwner(msg), TRUE, msg.mention))

(* Only strangers are asked about, so that owners need not be named.       *)
LineGate(msg) ==
    /\ msg.readable
    /\ publicChannel /\ standing[msg.person] = "untrusted"
          => AllowedBy(msg.person, FALSE, TRUE, msg.mention)

(* The mention is never passed on, so mention_only_in_public closes it.    *)
WhatsAppGate(msg) ==
    msg.readable /\ (publicChannel => AllowedBy(msg.person, IsOwner(msg), TRUE, FALSE))

ImapGate(msg) ==
    msg.readable /\ (publicChannel => standing[msg.person] # "untrusted")

(* Slack asks whether the sender is paired, the list and mentions not.     *)
SlackGate(msg) == publicChannel => standing[msg.person] # "untrusted"

(* The web page asks nothing.                                              *)
WebUiGate(msg) == msg.readable

(* An SMS and a call always make an envelope: it is the trust that goes.   *)
KeepsTrustOfSms(msg) ==
    publicChannel => AllowedBy(msg.person, IsOwner(msg), TRUE, msg.mention)
KeepsTrustOfCall(msg) ==
    publicChannel => AllowedBy(msg.person, IsOwner(msg), TRUE, FALSE)

(* Discord may gate direct messages too, and may drop what bots write.     *)
DiscordGate(msg) ==
    /\ msg.readable
    /\ ~(discordConfig.ignoreBots /\ msg.bot)
    /\ publicChannel \/ discordConfig.gateDms
          => AllowedBy(msg.person, IsOwner(msg), publicChannel, msg.mention)

Passes(msg) ==
    CASE msg.channel = "matrix"    -> MatrixGate(msg)
      [] msg.channel = "slack"     -> SlackGate(msg)
      [] msg.channel = "signal"    -> SignalGate(msg)
      [] msg.channel = "webui"     -> WebUiGate(msg)
      [] msg.channel = "local_mic" -> MicGate(msg)
      [] msg.channel = "discord"   -> DiscordGate(msg)
      [] msg.channel = "teams"     -> TeamsGate(msg)
      [] msg.channel = "gmail"     -> GmailGate(msg)
      [] msg.channel = "telegram"  -> TelegramGate(msg)
      [] msg.channel = "webhook"   -> WebhookGate(msg)
      [] msg.channel = "line"      -> LineGate(msg)
      [] msg.channel = "whatsapp"  -> WhatsAppGate(msg)
      [] msg.channel = "imap"      -> ImapGate(msg)
      [] msg.channel \in {"twilio_sms", "twilio_voice"} -> TRUE

KeepsTrust(msg) ==
    CASE msg.channel = "twilio_sms"   -> KeepsTrustOfSms(msg)
      [] msg.channel = "twilio_voice" -> KeepsTrustOfCall(msg)
      [] OTHER -> TRUE

(* The trust is the store's, whatever the message says.                    *)
Envelope(msg) ==
    [msg |-> msg, was |-> standing[msg.person],
     trust |-> IF KeepsTrust(msg) THEN standing[msg.person] ELSE "untrusted"]

OnMessage(msg) ==
    /\ msg.channel # "local_mic" /\ surfaced = Nothing
    /\ surfaced' = IF Passes(msg) THEN Envelope(msg) ELSE Nothing
    /\ UNCHANGED <<standing, publicChannel, discordConfig, transcribing>>

(* local_mic sends the recording of whoever passes to be transcribed.      *)
OnRecording(msg) ==
    /\ msg.channel = "local_mic" /\ transcribing = Nothing
    /\ IF Passes(msg)
       THEN transcribing' = Envelope(msg) /\ UNCHANGED surfaced
       ELSE UNCHANGED <<surfaced, transcribing>>
    /\ UNCHANGED <<standing, publicChannel, discordConfig>>

(* The transcript has text, has none, or the transcription raised.         *)
MicTranscribed ==
    /\ transcribing # Nothing /\ surfaced = Nothing
    /\ surfaced' \in {transcribing, Nothing}
    /\ transcribing' = Nothing
    /\ UNCHANGED <<standing, publicChannel, discordConfig>>

(* Whoever called on_message takes the envelope on to the gateway.         *)
EnvelopeTaken ==
    /\ surfaced # Nothing
    /\ surfaced' = Nothing
    /\ UNCHANGED <<standing, publicChannel, discordConfig, transcribing>>

(* The owner pairs a person, or unpairs one.                               *)
Pairing(p, s) ==
    /\ s # standing[p]
    /\ standing' = [standing EXCEPT ![p] = s]
    /\ UNCHANGED <<publicChannel, discordConfig, transcribing, surfaced>>

AdapterNext ==
    \/ \E msg \in Incoming : OnMessage(msg)
    \/ \E msg \in Incoming : OnRecording(msg)
    \/ MicTranscribed
    \/ EnvelopeTaken
    \/ \E p \in Persons, s \in Standing : Pairing(p, s)

AdapterSpec == AdapterInit /\ [][AdapterNext]_adapterVars

-----------------------------------------------------------------------------
(* A stranger stays unheard in public: except on webui, which has no gate, *)
(* an envelope from a public channel is of somebody who was owner or       *)
(* listed, or on slack, imap and line paired, as the message came in,      *)
(* whatever became of his pairing since; of anybody else Twilio's          *)
(* envelopes carry no trust.                                               *)
StrangersUnheard ==
    surfaced # Nothing /\ publicChannel =>
        \/ surfaced.msg.channel = "webui"
        \/ surfaced.was = "owner_paired" \/ surfaced.msg.person \in ListedPersons
        \/ surfaced.msg.channel \in {"slack", "imap", "line"} /\ surfaced.was = "user_paired"
        \/ surfaced.msg.channel \in {"twilio_sms", "twilio_voice"} /\ surfaced.trust = "untrusted"

(* An owner who names the bot in public passes with his trust every gate   *)
(* but signal's, whatsapp's and twilio_voice's, where nothing counts as a  *)
(* mention; a bot may be dropped for being one.                            *)
OwnerPasses ==
    publicChannel =>
        \A msg \in Incoming :
            (/\ IsOwner(msg) /\ msg.mention /\ msg.readable /\ ~msg.bot
             /\ msg.channel \notin {"signal", "whatsapp", "twilio_voice"})
                => Passes(msg) /\ KeepsTrust(msg)

=============================================================================
