----------------------------- MODULE Artifacts -----------------------------
(***************************************************************************)
(* The attachment stores of the Gmail and IMAP adapters: one directory,    *)
(* files named by the hash of their bytes.  Gmail's keeps a .meta file     *)
(* with the time of creation and sweeps by it; IMAP's keeps its times in   *)
(* memory, and nothing in src/ calls its sweep or its remove.  The two     *)
(* adapters run in different processes and share only the directory.       *)
(***************************************************************************)
EXTENDS Integers, FiniteSets

CONSTANTS
    Blobs,          \* distinct contents, hence distinct files
    MaxAge,         \* MAX_AGE, 300 s in the code
    ArtMaxTime      \* bound on the clock

ASSUME ArtifactsAssumption == MaxAge \in Nat /\ ArtMaxTime \in Nat

VARIABLES
    artNow,
    present,    \* contents with a file in the directory
    created,    \* .meta files: content -> time of creation
    handedOut   \* history: references given to the agent to files made for them, and when

artVars == <<artNow, present, created, handedOut>>

ArtTypeOK ==
    /\ artNow \in 0 .. ArtMaxTime
    /\ present \subseteq Blobs
    /\ DOMAIN created \subseteq Blobs
    /\ \A b \in DOMAIN created : created[b] \in 0 .. artNow
    /\ handedOut \subseteq [blob: Blobs, at: 0 .. ArtMaxTime]

ArtInit == artNow = 0 /\ present = {} /\ created = <<>> /\ handedOut = {}

-----------------------------------------------------------------------------
(* artifacts.store of every attachment of one mail: a file that exists     *)
(* keeps its .meta, or its lack of one.                                    *)
StoreAll(bs) ==
    /\ present' = present \cup bs
    /\ created' = [b \in DOMAIN created \cup (bs \ present) |->
                      IF b \in bs \ present THEN artNow ELSE created[b]]
    /\ handedOut' = handedOut \cup
          {[blob |-> b, at |-> artNow] : b \in bs \ present}
    /\ UNCHANGED artNow

(* Mutant of Expired: the age is compared with >=.                         *)
ExpiredEarly == {b \in DOMAIN created : artNow - created[b] >= MaxAge}

Expired == {b \in DOMAIN created : artNow - created[b] > MaxAge}

(* cleanup_expired: only what has a .meta is ever looked at.               *)
Sweep ==
    /\ present' = present \ Expired
    /\ created' = [b \in DOMAIN created \ Expired |-> created[b]]
    /\ UNCHANGED <<artNow, handedOut>>

(* ArtifactStore.store of the IMAP process: the file, never a .meta.       *)
ImapStore(b) ==
    /\ present' = present \cup {b}
    /\ UNCHANGED <<artNow, created, handedOut>>

ArtTick ==
    /\ artNow < ArtMaxTime
    /\ artNow' = artNow + 1
    /\ UNCHANGED <<present, created, handedOut>>

-----------------------------------------------------------------------------
(* A reference to bytes the directory did not hold before can be resolved  *)
(* for the five minutes the server promises (server.py: "the agent may     *)
(* still need them"), whatever else is stored, swept or rewritten between. *)
(* A reference to bytes that were already there gets what is left of them. *)
FreshRefLives ==
    \A h \in handedOut : artNow - h.at <= MaxAge => h.blob \in present

=============================================================================
