----------------------------- MODULE ImapBridge ----------------------------
(***************************************************************************)
(* The IMAP side of catalogue/imap: a connection that reads unseen mail,   *)
(* the adapter that turns one mail into an envelope, and the seen-UID      *)
(* table.  The loop around them is external: src/ only gives it as the     *)
(* usage of connection.py:43-50 (fetch, process each, mark_seen).  The     *)
(* mail server is external too; a FETCH of RFC822 sets \Seen on it.        *)
(***************************************************************************)
EXTENDS Integers, Sequences, FiniteSets, SequencesExt

CONSTANTS
    Mails,
    Threads,        \* Message-IDs
    ThreadOf,       \* mail -> its Message-ID
    NoMail,         \* where no cached subject is found: the default one
    PublicImap,     \* is_public_channel
    BackoffLength,  \* Len(_BACKOFF), 7 in the code
    MaxDrops        \* bound on dropped connections and restarts

ASSUME ImapAssumption ==
    ThreadOf \in [Mails -> Threads] /\ NoMail \notin Mails /\ BackoffLength \in Nat \ {0}

VARIABLES
    flag,       \* the server: mail -> "absent", "unseen" or "seen"
    session,    \* _conn: "none", "raw" (connected, not logged in), "ready"
    attempt,    \* place in _BACKOFF while reconnect() runs, 0 outside
    sought,     \* mails that SEARCH UNSEEN found and FETCH has not read yet
    fetched,    \* fetch_unseen's list, and what is left of it in the loop
    stage,      \* the loop: "idle", "fetching", "processing", "marking"
    uidSeen,    \* the seen_uids table
    subjects,   \* _subject_cache: Message-ID -> the mail its subject is from
    delivered,  \* history: mail -> envelopes made of it
    gated,      \* history: mails on_message made no envelope of
    mailed,     \* history: replies, each with its thread and the mail its subject is from
    drops

imapVars == <<flag, session, attempt, sought, fetched, stage, uidSeen, subjects, delivered,
              gated, mailed, drops>>

ImapTypeOK ==
    /\ flag \in [Mails -> {"absent", "unseen", "seen"}]
    /\ session \in {"none", "raw", "ready"}
    /\ attempt \in 0 .. BackoffLength
    /\ sought \in Seq(Mails) /\ fetched \in Seq(Mails)
    /\ stage \in {"idle", "fetching", "processing", "marking"}
    /\ uidSeen \subseteq Mails /\ gated \subseteq Mails
    /\ DOMAIN subjects \subseteq Threads
    /\ mailed \subseteq [thread: Threads, subject: Mails \cup {NoMail}]
    /\ delivered \in [Mails -> Nat]

ImapInit ==
    /\ flag = [x \in Mails |-> "absent"]
    /\ session = "none" /\ attempt = 1
    /\ sought = <<>> /\ fetched = <<>> /\ stage = "idle"
    /\ uidSeen = {} /\ subjects = <<>>
    /\ delivered = [x \in Mails |-> 0] /\ gated = {} /\ mailed = {} /\ drops = 0

-----------------------------------------------------------------------------
MailArrives(x) ==
    /\ flag[x] = "absent"
    /\ flag' = [flag EXCEPT ![x] = "unseen"]
    /\ UNCHANGED <<session, attempt, sought, fetched, stage, uidSeen, subjects, delivered,
                   gated, mailed, drops>>

(* One delay of reconnect() and the connect() after it.  A login that fails*)
(* leaves the raw connection in _conn; after the last delay reconnect()    *)
(* returns as if it had succeeded.                                         *)
ReconnectAttempt ==
    /\ attempt > 0
    /\ \/ session' = "ready" /\ attempt' = 0
       \/ /\ session' \in {session, "raw"}
          /\ attempt' = IF attempt < BackoffLength THEN attempt + 1 ELSE 0
    /\ UNCHANGED <<flag, sought, fetched, stage, uidSeen, subjects, delivered, gated, mailed, drops>>

(* Without a session the search raises, and the loop reconnects.           *)
SearchRaises ==
    /\ attempt = 0 /\ session # "ready" /\ stage = "idle"
    /\ session' = "none" /\ attempt' = 1
    /\ UNCHANGED <<flag, sought, fetched, stage, uidSeen, subjects, delivered, gated, mailed, drops>>

SearchUnseen ==
    /\ session = "ready" /\ stage = "idle"
    /\ sought' = SetToSeq({x \in Mails : flag[x] = "unseen"})
    /\ sought' # <<>>
    /\ stage' = "fetching"
    /\ UNCHANGED <<flag, session, attempt, fetched, uidSeen, subjects, delivered, gated, mailed, drops>>

(* Mutant of AfterFetch: the mail is read with PEEK.                       *)
AfterFetchPeek(x) == flag[x]

(* The server's doing: FETCH (RFC822) sets \Seen.                          *)
AfterFetch(x) == "seen"

FetchOne ==
    /\ stage = "fetching"
    /\ fetched' = Append(fetched, Head(sought))
    /\ flag' = [flag EXCEPT ![Head(sought)] = AfterFetch(Head(sought))]
    /\ sought' = Tail(sought)
    /\ stage' = IF Len(sought) = 1 THEN "processing" ELSE stage
    /\ UNCHANGED <<session, attempt, uidSeen, subjects, delivered, gated, mailed, drops>>

(* Mutant of Subjects: one subject for all threads.                        *)
SubjectsOfLast(x) == [t \in DOMAIN subjects \cup {ThreadOf[x]} |-> x]

Subjects(x) ==
    [t \in DOMAIN subjects \cup {ThreadOf[x]} |-> IF t = ThreadOf[x] THEN x ELSE subjects[t]]

(* on_message: the subject is remembered for the thread before the gate;   *)
(* the table is written for mail that becomes an envelope, and never read. *)
ProcessMail ==
    /\ stage = "processing"
    /\ LET x == Head(fetched) IN
         \/ /\ subjects' = Subjects(x)
            /\ \/ /\ uidSeen' = uidSeen \cup {x}
                  /\ delivered' = [delivered EXCEPT ![x] = @ + 1]
                  /\ UNCHANGED gated
               \/ /\ PublicImap
                  /\ gated' = gated \cup {x}
                  /\ UNCHANGED <<uidSeen, delivered>>
         \/ gated' = gated \cup {x} /\ UNCHANGED <<subjects, uidSeen, delivered>>  \* empty mail
    /\ stage' = "marking"
    /\ UNCHANGED <<flag, session, attempt, sought, fetched, mailed, drops>>

(* send of a reply to a mail that became an envelope, at any later time.   *)
(* SMTP's 421 comes back as a 429 and is not tried again.                  *)
SendReply(x) ==
    /\ delivered[x] > 0
    /\ LET t == ThreadOf[x] IN
         mailed' = mailed \cup
             {[thread |-> t, subject |-> IF t \in DOMAIN subjects THEN subjects[t] ELSE NoMail]}
    /\ UNCHANGED <<flag, session, attempt, sought, fetched, stage, uidSeen, subjects, delivered,
                   gated, drops>>

(* conn.mark_seen after the mail was processed.                            *)
MarkSeen ==
    /\ stage = "marking" /\ session = "ready"
    /\ flag' = [flag EXCEPT ![Head(fetched)] = "seen"]
    /\ fetched' = Tail(fetched)
    /\ stage' = IF Len(fetched) = 1 THEN "idle" ELSE "processing"
    /\ UNCHANGED <<session, attempt, sought, uidSeen, subjects, delivered, gated, mailed, drops>>

(* The connection drops under a command, or processing raises: the list of *)
(* this round is gone and the loop reconnects.                             *)
RoundFails ==
    /\ stage # "idle" /\ drops < MaxDrops
    /\ drops' = drops + 1
    /\ session' = "none" /\ attempt' = 1
    /\ sought' = <<>> /\ fetched' = <<>> /\ stage' = "idle"
    /\ UNCHANGED <<flag, uidSeen, subjects, delivered, gated, mailed>>

(* The process starts again: the caches go, the table and the flags stay.  *)
ImapRestarts ==
    /\ drops < MaxDrops
    /\ drops' = drops + 1
    /\ session' = "none" /\ attempt' = 1
    /\ sought' = <<>> /\ fetched' = <<>> /\ stage' = "idle" /\ subjects' = <<>>
    /\ UNCHANGED <<flag, uidSeen, delivered, gated, mailed>>

ImapNext ==
    \/ \E x \in Mails : MailArrives(x)
    \/ ReconnectAttempt
    \/ SearchRaises
    \/ SearchUnseen
    \/ FetchOne
    \/ ProcessMail
    \/ \E x \in Mails : SendReply(x)
    \/ MarkSeen
    \/ RoundFails
    \/ ImapRestarts

ImapSpec == ImapInit /\ [][ImapNext]_imapVars

-----------------------------------------------------------------------------
(* No mail becomes two envelopes, over any number of dropped connections   *)
(* and restarts (uid_tracker.py:3-7 names the danger).  The table that is  *)
(* meant to prevent it is never consulted: it holds because the server     *)
(* marks a mail when it is fetched.                                        *)
NoMailTwice == \A x \in Mails : delivered[x] <= 1

(* What the code says: \Seen is set after successful processing            *)
(* (connection.py:9), so a mail that is seen has been processed, or is in  *)
(* the loop's hands.                                                       *)
NoMailLost ==
    \A x \in Mails : flag[x] = "seen" => delivered[x] > 0 \/ x \in gated \/ x \in ToSet(fetched)

(* A reply carries the subject of its own thread or the default one, while *)
(* the mails of several threads come in between (adapter.py:71-74).        *)
SubjectOfThread == \A r \in mailed : r.subject = NoMail \/ ThreadOf[r.subject] = r.thread

=============================================================================
