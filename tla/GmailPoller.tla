---------------------------- MODULE GmailPoller ----------------------------
(***************************************************************************)
(* The Gmail server of catalogue/gmail: a loop that lists the mailbox's    *)
(* history past its cursor, hands each mail to the adapter and echoes it.  *)
(* The mailbox is external: mails arrive, listing, fetching and sending    *)
(* can fail, an answer can be lost after the mail went out, and the        *)
(* process can be restarted at any time with nothing kept.                 *)
(***************************************************************************)
EXTENDS Artifacts, Sequences, SequencesExt

CONSTANTS
    PageSize,       \* entries in one page of history.list; no other is read
    AttachmentSets, \* the sets of attachments a mail can carry
    MaxMails,       \* bounds: the mailbox's history, listings and restarts
    MaxGmailPolls,
    MaxGmailRestarts

ASSUME GmailAssumption ==
    /\ PageSize \in Nat \ {0} /\ MaxMails \in Nat
    /\ AttachmentSets \subseteq SUBSET Blobs

VARIABLES
    history,    \* the mailbox: what each added mail is; its index is its id
    gmCursor,   \* last_history_id
    processed,  \* processed_ids
    batch,      \* ids of the listing still to visit
    batchEnd,   \* historyId of the listing, 0 when it has none
    handling,   \* the mail being handled, 0 for none
    gmPolling,  \* inside an iteration of the loop
    gmPolls, gmRestarts,
    answers,    \* history: mail -> replies that went out for it
    unpaged     \* history: mails beyond the first page of some listing

gmailVars == <<history, gmCursor, processed, batch, batchEnd, handling, gmPolling,
               gmPolls, gmRestarts, answers, unpaged, artVars>>
loopVars == <<gmCursor, processed, batch, batchEnd, handling, gmPolling>>

Ids == 1 .. Len(history)

GmailTypeOK ==
    /\ ArtTypeOK
    /\ history \in Seq({"peer", "own", "reply"})
    /\ gmCursor \in 0 .. Len(history)
    /\ processed \subseteq Ids /\ handling \in Ids \cup {0} /\ unpaged \subseteq Ids
    /\ batch \in Seq(Ids) /\ batchEnd \in 0 .. Len(history)
    /\ gmPolling \in BOOLEAN
    /\ answers \in [1 .. MaxMails -> Nat]

GmailInit ==
    /\ ArtInit
    /\ history = <<>> /\ gmCursor = 0 /\ processed = {} /\ batch = <<>> /\ batchEnd = 0
    /\ handling = 0 /\ gmPolling = FALSE /\ gmPolls = 0 /\ gmRestarts = 0
    /\ answers = [i \in 1 .. MaxMails |-> 0] /\ unpaged = {}

-----------------------------------------------------------------------------
(* A correspondent writes, or the owner of the mailbox to themselves.      *)
GmailArrives(from) ==
    /\ Len(history) < MaxMails
    /\ history' = Append(history, from)
    /\ UNCHANGED <<loopVars, gmPolls, gmRestarts, answers, unpaged, artVars>>

(* history_list: one page, and the mailbox's newest id; any error is an    *)
(* empty history without one.                                              *)
ListHistory ==
    /\ ~gmPolling /\ gmPolls < MaxGmailPolls
    /\ gmPolling' = TRUE /\ gmPolls' = gmPolls + 1
    /\ \/ LET added == [i \in 1 .. Len(history) - gmCursor |-> gmCursor + i]
              page == SubSeq(added, 1, IF Len(added) < PageSize THEN Len(added) ELSE PageSize)
          IN  /\ batch' = page
              /\ batchEnd' = Len(history)
              /\ unpaged' = unpaged \cup (ToSet(added) \ ToSet(page))
       \/ batch' = <<>> /\ batchEnd' = 0 /\ UNCHANGED unpaged
    /\ UNCHANGED <<history, gmCursor, processed, handling, gmRestarts, answers, artVars>>

(* The next mail of the batch: skipped when it has been seen, else marked  *)
(* before anything can fail.                                               *)
TakeMail ==
    /\ gmPolling /\ handling = 0 /\ batch # <<>>
    /\ batch' = Tail(batch)
    /\ IF Head(batch) \in processed
       THEN UNCHANGED <<processed, handling>>
       ELSE processed' = processed \cup {Head(batch)} /\ handling' = Head(batch)
    /\ UNCHANGED <<history, gmCursor, batchEnd, gmPolling, gmPolls, gmRestarts, answers,
                   unpaged, artVars>>

(* Mutant of FromSelf: own mail is not recognised.                         *)
FromSelfNever(id) == FALSE

FromSelf(id) == history[id] # "peer"

(* The fetch fails, the mail has no content, or it is from the mailbox's   *)
(* own address: nothing more happens to it.                                *)
PassOver ==
    /\ handling # 0
    /\ handling' = 0
    /\ UNCHANGED <<history, gmCursor, processed, batch, batchEnd, gmPolling, gmPolls,
                   gmRestarts, answers, unpaged, artVars>>

Replied(id) == answers' = [answers EXCEPT ![id] = @ + 1]

(* The adapter makes the envelope (storing the attachments) and the reply  *)
(* goes out; its own id is marked, so that it is not taken for a mail.     *)
Answer ==
    /\ handling # 0 /\ ~FromSelf(handling)
    /\ Len(history) < MaxMails
    /\ \E bs \in AttachmentSets : StoreAll(bs)
    /\ history' = Append(history, "reply")
    /\ processed' = processed \cup {Len(history) + 1}
    /\ Replied(handling)
    /\ handling' = 0
    /\ UNCHANGED <<gmCursor, batch, batchEnd, gmPolling, gmPolls, gmRestarts, unpaged>>

(* A refusal (429) comes back as a result without an id: no reply, no      *)
(* retry.                                                                  *)
AnswerRefused ==
    /\ handling # 0 /\ ~FromSelf(handling)
    /\ \E bs \in AttachmentSets : StoreAll(bs)
    /\ handling' = 0
    /\ UNCHANGED <<history, gmCursor, processed, batch, batchEnd, gmPolling, gmPolls,
                   gmRestarts, answers, unpaged>>

(* The adapter or the send raises: the iteration ends here, without the    *)
(* sweep and without moving the cursor.  The reply may have gone out all   *)
(* the same, its id unknown.                                               *)
IterationRaises ==
    /\ handling # 0 /\ ~FromSelf(handling)
    /\ \E bs \in AttachmentSets : StoreAll(bs)
    /\ \/ UNCHANGED <<history, answers>>
       \/ /\ Len(history) < MaxMails
          /\ history' = Append(history, "reply")
          /\ Replied(handling)
    /\ batch' = <<>> /\ batchEnd' = 0 /\ handling' = 0 /\ gmPolling' = FALSE
    /\ UNCHANGED <<gmCursor, processed, gmPolls, gmRestarts, unpaged>>

(* Mutant of NextCursor: the cursor follows the mailbox, whatever the      *)
(* listing held.                                                           *)
NextCursorAhead == Len(history)

NextCursor == IF batchEnd > gmCursor THEN batchEnd ELSE gmCursor

EndPoll ==
    /\ gmPolling /\ handling = 0 /\ batch = <<>>
    /\ Sweep
    /\ gmCursor' = NextCursor
    /\ batchEnd' = 0 /\ gmPolling' = FALSE
    /\ UNCHANGED <<history, processed, batch, handling, gmPolls, gmRestarts, answers, unpaged>>

(* Mutant of FirstCursor: a restart goes over the mailbox again.           *)
FirstCursorZero == 0

(* Mutant of FirstCursor: the cursor is set past the last change.          *)
FirstCursorBeyond == Len(history) + 1

(* The process starts at the mailbox's newest id, with nothing remembered. *)
FirstCursor == Len(history)

RestartPoller ==
    /\ gmRestarts < MaxGmailRestarts
    /\ gmRestarts' = gmRestarts + 1
    /\ gmCursor' = FirstCursor
    /\ processed' = {} /\ batch' = <<>> /\ batchEnd' = 0 /\ handling' = 0 /\ gmPolling' = FALSE
    /\ unpaged' = unpaged \cup Ids    \* nothing up to here will be listed any more
    /\ UNCHANGED <<history, gmPolls, answers, artVars>>

ElsewhereInGmail ==
    /\ ArtTick \/ \E b \in Blobs : ImapStore(b)
    /\ UNCHANGED <<history, loopVars, gmPolls, gmRestarts, answers, unpaged>>

GmailNext ==
    \/ \E from \in {"peer", "own"} : GmailArrives(from)
    \/ ListHistory
    \/ TakeMail
    \/ PassOver
    \/ Answer
    \/ AnswerRefused
    \/ IterationRaises
    \/ EndPoll
    \/ RestartPoller
    \/ ElsewhereInGmail

GmailSpec == GmailInit /\ [][GmailNext]_gmailVars

-----------------------------------------------------------------------------
(* No mail is answered twice, although an iteration that raises is listed  *)
(* again from the same cursor and a restart forgets every processed id     *)
(* (server.py:245-247, 221, 455-460).                                      *)
AnsweredOnce == \A i \in DOMAIN answers : answers[i] <= 1

(* The echo never answers itself: a reply whose id was lost with its       *)
(* answer comes back as a new mail and is still passed over.               *)
NoEchoLoop == \A i \in DOMAIN answers : answers[i] > 0 => history[i] = "peer"

(* The cursor passes no mail that has not been visited, but for those of a *)
(* later page and those of before the process started (server.py:455-458). *)
CursorBehindVisits == 1 .. gmCursor \subseteq processed \cup unpaged

=============================================================================
