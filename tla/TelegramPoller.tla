--------------------------- MODULE TelegramPoller ---------------------------
(***************************************************************************)
(* Telegram's long poll (telegram/dev/live_poll.py with adapter.py): one   *)
(* task fetches updates and forwards them to the gateway over a WebSocket, *)
(* another sends the gateway's replies.  The offset lives in memory;       *)
(* Telegram forgets an update once a request names a higher offset, and    *)
(* serves the rest again to a poller that starts over.  Telegram and the   *)
(* gateway's end of the socket are external.                               *)
(***************************************************************************)
EXTENDS Integers, Sequences, SequencesExt, FiniteSets

CONSTANTS
    TgUsers,
    NoOwner,        \* TELEGRAM_OWNER_ID is not set
    ListedUsers,    \* allowed_senders of channels.yaml
    TgPage,         \* updates one request returns at most
    MaxUpdates, MaxTgRestarts   \* bounds

ASSUME TelegramAssumption ==
    /\ NoOwner \notin TgUsers /\ ListedUsers \subseteq TgUsers
    /\ TgPage \in Nat \ {0} /\ MaxUpdates \in Nat /\ MaxTgRestarts \in Nat

VARIABLES
    tgPublic,       \* is_public_channel, with was_mentioned set
    ownerEnv,       \* TELEGRAM_OWNER_ID
    updates,        \* Telegram: the updates it has received, by update_id
    confirmed,      \* Telegram: it serves updates from here on
    tgOffset,       \* offset
    tgBatch,          \* data["result"], what is left of it
    inHand,         \* the update being processed, 0 for none, and its stage
    ownerId,        \* owner_id
    tgOwners,       \* pairing store: the owners of "telegram"
    socketUp,       \* the WebSocket is open
    forwards,       \* history: update -> times it reached the gateway
    ended,          \* history: updates dropped by the adapter, or lost to an exception
    exposed,        \* history: updates that were unconfirmed at a restart
    tgRestarts

telegramVars ==
    <<tgPublic, ownerEnv, updates, confirmed, tgOffset, tgBatch, inHand, ownerId, tgOwners, socketUp,
      forwards, ended, exposed, tgRestarts>>

UpdateIds == 1 .. MaxUpdates

TelegramTypeOK ==
    /\ tgPublic \in BOOLEAN /\ ownerEnv \in TgUsers \cup {NoOwner}
    /\ updates \in Seq([from: TgUsers, kind: {"message", "other", "malformed"}])
    /\ Len(updates) <= MaxUpdates
    /\ confirmed \in 0 .. MaxUpdates + 1 /\ tgOffset \in 0 .. MaxUpdates + 1
    /\ tgBatch \in Seq(UpdateIds) /\ inHand \in UpdateIds \cup {0}
    /\ ownerId \in TgUsers \cup {NoOwner} /\ tgOwners \subseteq TgUsers
    /\ socketUp \in BOOLEAN
    /\ forwards \in [UpdateIds -> Nat] /\ ended \subseteq UpdateIds /\ exposed \subseteq UpdateIds
    /\ tgRestarts \in 0 .. MaxTgRestarts

(* A poller that has just started: the owner of the environment is paired. *)
TelegramInit ==
    /\ tgPublic \in BOOLEAN /\ ownerEnv \in TgUsers \cup {NoOwner}
    /\ updates = <<>> /\ confirmed = 0 /\ tgOffset = 0 /\ tgBatch = <<>> /\ inHand = 0
    /\ ownerId = ownerEnv /\ tgOwners = {ownerEnv} \ {NoOwner} /\ socketUp = TRUE
    /\ forwards = [i \in UpdateIds |-> 0] /\ ended = {} /\ exposed = {} /\ tgRestarts = 0

-----------------------------------------------------------------------------
Higher(a, b) == IF a > b THEN a ELSE b

(* Telegram receives an update: a message, something else (an edit, a      *)
(* reaction), or a message that the adapter's schema refuses.              *)
UpdateArrives(u, kind) ==
    /\ Len(updates) < MaxUpdates
    /\ updates' = Append(updates, [from |-> u, kind |-> kind])
    /\ UNCHANGED <<tgPublic, ownerEnv, confirmed, tgOffset, tgBatch, inHand, ownerId, tgOwners,
                   socketUp, forwards, ended, exposed, tgRestarts>>

(* getUpdates: the request confirms what is below its offset, whether or   *)
(* not the answer arrives; an error or a timeout leaves the poller as it   *)
(* was.                                                                    *)
GetUpdates ==
    /\ tgBatch = <<>> /\ inHand = 0
    /\ confirmed' = Higher(confirmed, tgOffset)
    /\ LET first == Higher(confirmed', 1)
           last == IF Len(updates) < first + TgPage - 1 THEN Len(updates) ELSE first + TgPage - 1
       IN  tgBatch' \in {<<>>, [i \in 1 .. Higher(last - first + 1, 0) |-> first + i - 1]}
    /\ UNCHANGED <<tgPublic, ownerEnv, updates, tgOffset, inHand, ownerId, tgOwners, socketUp,
                   forwards, ended, exposed, tgRestarts>>

(* Mutants of OffsetAfter: the whole batch is passed at its first update;  *)
(* the offset names the update itself.                                     *)
OffsetAfterBatch(id) == Last(tgBatch) + 1
OffsetAtUpdate(id) == id

OffsetAfter(id) == id + 1

(* Mutant of PairsSender: whoever writes is paired.                        *)
PairsAnySender(id) == TRUE

PairsSender(id) == updates[id].kind # "other" /\ ownerId = NoOwner

(* allowed(), in a public channel where the bot is taken as mentioned.     *)
MayWrite(u) == ~tgPublic \/ u \in tgOwners' \cup ListedUsers

(* The next update: the offset moves first, then the sender may become the *)
(* owner, then on_message.  An update that raises ends the batch.          *)
TakeUpdate ==
    /\ tgBatch # <<>> /\ inHand = 0
    /\ LET id == Head(tgBatch) u == updates[id].from IN
         /\ tgOffset' = OffsetAfter(id)
         /\ ownerId' = IF PairsSender(id) THEN u ELSE ownerId
         /\ tgOwners' = IF PairsSender(id) THEN tgOwners \cup {u} ELSE tgOwners
         /\ CASE updates[id].kind = "malformed" ->
                     tgBatch' = <<>> /\ inHand' = 0 /\ ended' = ended \cup {id}
              [] updates[id].kind = "other" \/ ~MayWrite(u) ->
                     tgBatch' = Tail(tgBatch) /\ inHand' = 0 /\ ended' = ended \cup {id}
              [] OTHER -> tgBatch' = Tail(tgBatch) /\ inHand' = id /\ UNCHANGED ended
    /\ UNCHANGED <<tgPublic, ownerEnv, updates, confirmed, socketUp, forwards, exposed, tgRestarts>>

(* ws.send, after the photo was looked up: over a closed socket it raises, *)
(* and the rest of the batch is left for the next request.                 *)
ForwardUpdate ==
    /\ inHand # 0
    /\ inHand' = 0
    /\ \/ /\ socketUp
          /\ forwards' = [forwards EXCEPT ![inHand] = @ + 1]
          /\ UNCHANGED <<tgBatch, ended>>
       \/ /\ ~socketUp
          /\ tgBatch' = <<>> /\ ended' = ended \cup {inHand} /\ UNCHANGED forwards
    /\ UNCHANGED <<tgPublic, ownerEnv, updates, confirmed, tgOffset, ownerId, tgOwners, socketUp,
                   exposed, tgRestarts>>

(* The gateway closes the socket: receive_from_gateway ends, and           *)
(* poll_telegram goes on.                                                  *)
SocketCloses ==
    /\ socketUp /\ socketUp' = FALSE
    /\ UNCHANGED <<tgPublic, ownerEnv, updates, confirmed, tgOffset, tgBatch, inHand, ownerId,
                   tgOwners, forwards, ended, exposed, tgRestarts>>

(* The poller is stopped and started: what it kept in memory is gone.      *)
TgRestart ==
    /\ tgRestarts < MaxTgRestarts
    /\ tgRestarts' = tgRestarts + 1
    /\ exposed' = exposed \cup {i \in 1 .. Len(updates) : i >= confirmed}
    /\ tgOffset' = 0 /\ tgBatch' = <<>> /\ inHand' = 0 /\ socketUp' = TRUE /\ ownerId' = ownerEnv
    /\ tgOwners' = tgOwners \cup ({ownerEnv} \ {NoOwner})
    /\ UNCHANGED <<tgPublic, ownerEnv, updates, confirmed, forwards, ended>>

TelegramNext ==
    \/ \E u \in TgUsers, kind \in {"message", "other", "malformed"} : UpdateArrives(u, kind)
    \/ GetUpdates
    \/ TakeUpdate
    \/ ForwardUpdate
    \/ SocketCloses
    \/ TgRestart

TelegramSpec == TelegramInit /\ [][TelegramNext]_telegramVars

-----------------------------------------------------------------------------
(* No update is passed over: one that Telegram will not serve again, or    *)
(* that the poller will not ask for again, has reached the gateway, was    *)
(* refused or raised itself, or is in hand; an exception at one update     *)
(* costs no other (live_poll.py:81-82, 109-110).                           *)
NothingPassedOver ==
    \A id \in 1 .. Len(updates) :
        id < Higher(tgOffset, confirmed) => forwards[id] > 0 \/ id \in ended \/ id = inHand

(* An update reaches the gateway twice only over a restart, and then only  *)
(* one that no request had confirmed: an exception never replays the       *)
(* updates before it.                                                      *)
TwiceOnlyWhenExposed ==
    \A id \in UpdateIds : forwards[id] > 1 => id \in exposed /\ forwards[id] <= 1 + tgRestarts

(* Each run of the poller pairs at most one owner by itself, and none when *)
(* the environment names one (live_poll.py:87-91).  Over a restart that    *)
(* can be a second one.                                                    *)
OneOwnerPerRun ==
    IF ownerEnv # NoOwner THEN tgOwners = {ownerEnv} ELSE Cardinality(tgOwners) <= 1 + tgRestarts

=============================================================================
