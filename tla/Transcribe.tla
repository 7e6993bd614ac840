----------------------------- MODULE Transcribe -----------------------------
(***************************************************************************)
(* POST /v1/transcribe (glc/routes/transcribe.py, glc/voice/stt): the      *)
(* route, the dispatcher and the three providers.  groq is one HTTP call;  *)
(* whisper.cpp runs a program in a worker thread, over files of its own;   *)
(* gemini_live reads a session's frames, which may carry the same words in *)
(* three fields.  The upstreams and the program are external.              *)
(***************************************************************************)
EXTENDS Integers, Sequences, FiniteSets, SequencesExt

CONSTANTS
    Listeners,                              \* requests at a time
    MaxClips, MaxSttFrames, MaxSttCrashes   \* bounds

ASSUME TranscribeAssumption ==
    IsFiniteSet(Listeners) /\ {MaxClips, MaxSttFrames, MaxSttCrashes} \subseteq Nat

VARIABLES
    hear,           \* request -> its progress
    tempFiles,      \* <<kind, clip>>: what whisper's files hold the disk
    orphans,        \* history: the files of runs that a crash cut off
    clips, sttCrashes

sttVars == <<hear, tempFiles, orphans, clips, sttCrashes>>

(* The fields of a frame, in the order in which they are looked at.        *)
Sources == <<"outputTranscription", "inputTranscription", "modelTurn">>

(* transcript holds pieces <<source, n>>; sent is what each field has      *)
(* carried so far.                                                         *)
Deaf ==
    [at |-> "idle", prefer |-> "none", clip |-> 0, transcript |-> <<>>, locked |-> "none",
     sent |-> [f \in ToSet(Sources) |-> 0], frames |-> 0, outcome |-> "none"]

TranscribeTypeOK ==
    /\ \A c \in Listeners :
         /\ hear[c].at \in {"idle", "groq", "starting", "running", "reading", "session"}
         /\ hear[c].prefer \in {"none", "default", "local", "streaming"}
         /\ hear[c].locked \in ToSet(Sources) \cup {"none"}
         /\ hear[c].outcome \in {"none", "text", "error"}
    /\ tempFiles \subseteq {"audio", "json"} \X (1 .. MaxClips) /\ orphans \subseteq tempFiles

TranscribeInit ==
    /\ hear = [c \in Listeners |-> Deaf] /\ tempFiles = {} /\ orphans = {}
    /\ clips = 0 /\ sttCrashes = 0

Told(c, outcome) == hear' = [hear EXCEPT ![c].at = "idle", ![c].outcome = outcome]

(* A request: invalid base64 is refused before any provider is loaded.     *)
Listen(c, prefer, at, outcome) ==
    /\ hear[c].at = "idle" /\ clips < MaxClips /\ clips' = clips + 1
    /\ hear' = [hear EXCEPT ![c] =
                  [Deaf EXCEPT !.at = at, !.prefer = prefer, !.clip = clips + 1, !.outcome = outcome]]
    /\ UNCHANGED <<tempFiles, orphans, sttCrashes>>

-----------------------------------------------------------------------------
(* groq_whisper: no MIME type, no audio, no key are settled at once.       *)
HearDefault(c) ==
    \/ \E outcome \in {"text", "error"} : Listen(c, "default", "idle", outcome)
    \/ Listen(c, "default", "groq", "none")

(* Groq's own status, a reply that is no transcript, a timeout.            *)
GroqAnswers(c) ==
    /\ hear[c].at = "groq"
    /\ \E outcome \in {"text", "error"} : Told(c, outcome)
    /\ UNCHANGED <<tempFiles, orphans, clips, sttCrashes>>

(* whisper_cpp: silence is answered without the program.                   *)
HearLocal(c, silent) ==
    Listen(c, "local", IF silent THEN "idle" ELSE "starting", IF silent THEN "text" ELSE "none")

(* Without the program or the model nothing is written.                    *)
WhisperStarts(c) ==
    /\ hear[c].at = "starting"
    /\ \/ Told(c, "error") /\ UNCHANGED tempFiles
       \/ /\ hear' = [hear EXCEPT ![c].at = "running"]
          /\ tempFiles' = tempFiles \cup {<<"audio", hear[c].clip>>}
    /\ UNCHANGED <<orphans, clips, sttCrashes>>

(* Mutant of AfterRun: the audio is removed once the program succeeded.    *)
AfterRunIfItWorked(c, works) == IF works THEN tempFiles \ {<<"audio", hear[c].clip>>} ELSE tempFiles

AfterRun(c, works) == tempFiles \ {<<"audio", hear[c].clip>>}

(* The program ends, having written its JSON or not.                       *)
WhisperEnds(c, works, writes) ==
    /\ hear[c].at = "running"
    /\ tempFiles' = AfterRun(c, works) \cup (IF writes THEN {<<"json", hear[c].clip>>} ELSE {})
    /\ IF works THEN hear' = [hear EXCEPT ![c].at = "reading"] ELSE Told(c, "error")
    /\ UNCHANGED <<orphans, clips, sttCrashes>>

(* The JSON is read, then removed: one that cannot be parsed stays.        *)
WhisperReads(c) ==
    LET json == <<"json", hear[c].clip>> IN
    /\ hear[c].at = "reading"
    /\ \/ Told(c, "text") /\ tempFiles' = tempFiles \ {json}
       \/ json \in tempFiles /\ Told(c, "error") /\ UNCHANGED tempFiles
    /\ UNCHANGED <<orphans, clips, sttCrashes>>

SttCrash ==
    /\ sttCrashes < MaxSttCrashes /\ sttCrashes' = sttCrashes + 1
    /\ hear' = [c \in Listeners |-> Deaf]
    /\ orphans' = orphans \cup {f \in tempFiles : \E c \in Listeners :
                                   f[2] = hear[c].clip /\ hear[c].at \in {"running", "reading"}}
    /\ UNCHANGED <<tempFiles, clips>>

-----------------------------------------------------------------------------
(* gemini_live: every error of this provider is a 400 to the caller.       *)
HearStreaming(c) ==
    Listen(c, "streaming", "session", "none") \/ Listen(c, "streaming", "idle", "error")

(* Mutant of Taken: no source is held to.                                  *)
TakenFromAny(r, field) == TRUE

(* The first field to produce text is held to; modelTurn only until then.  *)
Taken(r, field) == r.locked = "none" \/ (r.locked = field /\ field # "modelTurn")

(* Of the fields with text in a frame only the first one is looked at.     *)
FirstField(fields) == Sources[CHOOSE i \in 1 .. 3 :
                         Sources[i] \in fields /\ \A j \in 1 .. i - 1 : Sources[j] \notin fields]

Heard(r, fields) ==
    IF fields = {} \/ ~Taken(r, FirstField(fields)) THEN r
    ELSE LET field == FirstField(fields) IN
         [r EXCEPT !.transcript = Append(@, <<field, r.sent[field] + 1>>),
                   !.locked = IF @ = "none" THEN field ELSE @]

HearFrame(c, fields, done) ==
    LET r == hear[c]
        heard == [Heard(r, fields) EXCEPT
                    !.sent = [f \in DOMAIN @ |-> IF f \in fields THEN @[f] + 1 ELSE @[f]],
                    !.frames = @ + 1]
    IN  /\ r.at = "session" /\ r.frames < MaxSttFrames
        /\ hear' = [hear EXCEPT ![c] = IF done THEN [heard EXCEPT !.at = "idle", !.outcome = "text"] ELSE heard]
        /\ UNCHANGED <<tempFiles, orphans, clips, sttCrashes>>

(* Closed by the other side, with or without an error.                     *)
HearingEnds(c) ==
    /\ hear[c].at = "session"
    /\ \E outcome \in {"text", "error"} : Told(c, outcome)
    /\ UNCHANGED <<tempFiles, orphans, clips, sttCrashes>>

TranscribeNext ==
    \/ \E c \in Listeners :
          \/ HearDefault(c) \/ GroqAnswers(c)
          \/ \E silent \in BOOLEAN : HearLocal(c, silent)
          \/ WhisperStarts(c) \/ WhisperReads(c)
          \/ \E works \in BOOLEAN, writes \in BOOLEAN : WhisperEnds(c, works, writes)
          \/ HearStreaming(c) \/ HearingEnds(c)
          \/ \E fields \in SUBSET ToSet(Sources), done \in BOOLEAN : HearFrame(c, fields, done)
    \/ SttCrash

TranscribeSpec == TranscribeInit /\ [][TranscribeNext]_sttVars

-----------------------------------------------------------------------------
(* However a run of whisper ends, its audio is gone from the disk; only    *)
(* the JSON of one that failed stays, and what a crash cut off             *)
(* (run_whisper_cpp).                                                      *)
AudioCleared ==
    \A f \in tempFiles \ orphans :
        f[1] = "audio" => \E c \in Listeners : hear[c].clip = f[2] /\ hear[c].at = "running"

(* A transcript has one source and repeats nothing, in whatever frames the *)
(* fields arrive, and what outputTranscription starts it carries whole     *)
(* (_transcribe_via_websocket).                                            *)
OneSource ==
    \A c \in Listeners :
        LET t == hear[c].transcript IN
        /\ \A i, j \in DOMAIN t : i < j => t[i][1] = t[j][1] /\ t[i][2] < t[j][2]
        /\ t # <<>> /\ t[1][1] = "outputTranscription" =>
              t = [n \in 1 .. hear[c].sent["outputTranscription"] |-> <<"outputTranscription", n>>]

(* A transcription leaves no audio behind and says nothing twice, over     *)
(* failing programs, crashes and frames in any order.                      *)
TranscriptsSound == AudioCleared /\ OneSource
=============================================================================
