---------------------------- MODULE VoiceStreams ---------------------------
(***************************************************************************)
(* The media streams of catalogue/twilio_voice: one adapter holds every    *)
(* call's caller and, in buffered mode, its audio.  A handler runs without *)
(* interruption up to its one await, the transcription; there the frames   *)
(* of any call may be handled, so handlers overlap within a call as well.  *)
(* Frames of a call reach the adapter in the order they were sent; a call  *)
(* can end without a stop frame, and a start or a stop frame can be        *)
(* malformed; a malformed media frame leaves no trace.                     *)
(***************************************************************************)
EXTENDS Integers, Sequences, FiniteSets, Functions

CONSTANTS
    Streams,        \* streamSids
    Unknown,        \* no caller
    CallerOf,       \* stream -> the caller its start frame names
    FrameSizes,     \* bytes of audio in a media frame, 0 for a corrupt payload
    MaxBufferBytes,
    MaxFrames       \* bound on the media frames of a stream

ASSUME VoiceAssumption ==
    /\ Unknown \notin Streams /\ DOMAIN CallerOf = Streams
    /\ FrameSizes \subseteq Nat /\ MaxBufferBytes \in Nat /\ MaxFrames \in Nat

VARIABLES
    bufferAudio,    \* the configuration: fixed for the adapter's life
    call,       \* Twilio: stream -> "new", "open", "ended"
    sentFrames, \* stream -> media frames with audio sent so far
    callers,    \* _stream_callers
    buffers,    \* _stream_buffers: stream -> the frames it holds, [n, size] each
    hearing,    \* handlers that await a transcription
    utterances, \* history: what messages carried audio: [stream, caller, frames]
    stopped,    \* history: streams whose stop frame was understood
    headless,   \* history: streams whose start frame could not be read
    renewed,    \* the process was started again (once at most)
    lostUpTo    \* history: stream -> frames sent before that

voiceVars == <<bufferAudio, call, sentFrames, callers, buffers, hearing, utterances, stopped, renewed, headless, lostUpTo>>

Handler == [stream: Streams, caller: Range(CallerOf) \cup {Unknown},
            frames: Seq(1 .. MaxFrames), last: BOOLEAN]

VoiceTypeOK ==
    /\ bufferAudio \in BOOLEAN
    /\ call \in [Streams -> {"new", "open", "ended"}]
    /\ sentFrames \in [Streams -> 0 .. MaxFrames]
    /\ DOMAIN callers \subseteq Streams /\ DOMAIN buffers \subseteq Streams
    /\ \A s \in DOMAIN buffers : buffers[s] \in Seq([n: 1 .. MaxFrames, size: FrameSizes \ {0}])
    /\ hearing \subseteq Handler /\ utterances \subseteq Handler
    /\ stopped \subseteq Streams /\ headless \subseteq Streams /\ renewed \in BOOLEAN
    /\ lostUpTo \in [Streams -> 0 .. MaxFrames]

VoiceInit ==
    /\ bufferAudio \in BOOLEAN
    /\ call = [s \in Streams |-> "new"] /\ sentFrames = [s \in Streams |-> 0]
    /\ callers = <<>> /\ buffers = <<>> /\ hearing = {} /\ utterances = {} /\ stopped = {}
    /\ headless = {} /\ renewed = FALSE /\ lostUpTo = [s \in Streams |-> 0]

-----------------------------------------------------------------------------
(* Mutant of CallerAt: one caller for the whole adapter, the latest.       *)
CallerAtLatest(s) == IF callers = <<>> THEN Unknown ELSE callers[CHOOSE t \in DOMAIN callers : TRUE]

CallerAt(s) == IF s \in DOMAIN callers THEN callers[s] ELSE Unknown

Held(s) == IF s \in DOMAIN buffers THEN buffers[s] ELSE <<>>

Bytes(frames) == FoldFunction(LAMBDA f, sum : f.size + sum, 0, frames)

Without(f, s) == [t \in DOMAIN f \ {s} |-> f[t]]

Numbers(frames) == [i \in DOMAIN frames |-> frames[i].n]

(* _handle_stream_start.                                                   *)
StreamStart(s) ==
    /\ call[s] = "new"
    /\ call' = [call EXCEPT ![s] = "open"]
    /\ callers' = [t \in DOMAIN callers \cup {s} |-> IF t = s THEN CallerOf[s] ELSE callers[t]]
    /\ UNCHANGED <<bufferAudio, sentFrames, buffers, hearing, utterances, stopped, renewed, headless, lostUpTo>>

(* The same of a frame that does not validate: the call goes on without a  *)
(* caller.                                                                 *)
StartMalformed(s) ==
    /\ call[s] = "new"
    /\ call' = [call EXCEPT ![s] = "open"]
    /\ headless' = headless \cup {s}
    /\ UNCHANGED <<bufferAudio, sentFrames, callers, buffers, hearing, utterances, stopped, renewed, lostUpTo>>

(* Mutant of Flushed: the buffer is cleared only once it is transcribed.   *)
FlushedLater(s, frames) == [t \in DOMAIN buffers \cup {s} |-> IF t = s THEN frames ELSE buffers[t]]

(* _flush_buffer takes the buffer before it awaits.                        *)
Flushed(s, frames) == Without(buffers, s)

Await(s, numbers, last) ==
    hearing' = hearing \cup
        {[stream |-> s, caller |-> CallerAt(s), frames |-> numbers, last |-> last]}

(* _handle_media_frame: each frame on its own, or kept until the stop      *)
(* frame or until the buffer is full.  A corrupt payload is empty audio.   *)
MediaFrame(s, size) ==
    /\ call[s] = "open" /\ (size > 0 => sentFrames[s] < MaxFrames)
    /\ sentFrames' = [sentFrames EXCEPT ![s] = IF size > 0 THEN @ + 1 ELSE @]
    /\ LET heard == IF size > 0 THEN <<[n |-> sentFrames[s] + 1, size |-> size]>> ELSE <<>>
           frames == Held(s) \o heard
       IN  IF ~bufferAudio
           THEN Await(s, Numbers(heard), FALSE) /\ UNCHANGED buffers
           ELSE IF Bytes(frames) >= MaxBufferBytes
           THEN Await(s, Numbers(frames), FALSE) /\ buffers' = Flushed(s, frames)
           ELSE /\ buffers' = [t \in DOMAIN buffers \cup {s} |->
                                  IF t = s THEN frames ELSE buffers[t]]
                /\ UNCHANGED hearing
    /\ UNCHANGED <<bufferAudio, call, callers, utterances, stopped, renewed, headless, lostUpTo>>

(* Mutant of Evicted: the caller stays after the last utterance.           *)
EvictedNever(h) == callers

(* What a finished handler leaves of the callers: the one of a stop frame  *)
(* that flushed goes after the await.                                      *)
Evicted(h) == IF h.last THEN Without(callers, h.stream) ELSE callers

(* The transcription ends, well or with an error that the message carries. *)
Transcribed(h) ==
    /\ h \in hearing
    /\ hearing' = hearing \ {h}
    /\ utterances' = utterances \cup {h}
    /\ callers' = Evicted(h)
    /\ UNCHANGED <<bufferAudio, call, sentFrames, buffers, stopped, renewed, headless, lostUpTo>>

(* _handle_stream_stop: the rest of the audio, if its buffer holds a byte, *)
(* which it does as soon as it holds a frame.                              *)
StreamStop(s) ==
    /\ call[s] = "open"
    /\ call' = [call EXCEPT ![s] = "ended"]
    /\ stopped' = stopped \cup {s}
    /\ IF bufferAudio /\ Held(s) # <<>>
       THEN /\ Await(s, Numbers(Held(s)), TRUE)
            /\ buffers' = Flushed(s, Held(s))
            /\ UNCHANGED callers
       ELSE /\ buffers' = Without(buffers, s)
            /\ callers' = Without(callers, s)
            /\ UNCHANGED hearing
    /\ UNCHANGED <<bufferAudio, sentFrames, utterances, renewed, headless, lostUpTo>>

(* The call ends with a malformed stop frame or with none at all.          *)
StreamVanishes(s) ==
    /\ call[s] = "open"
    /\ call' = [call EXCEPT ![s] = "ended"]
    /\ UNCHANGED <<bufferAudio, sentFrames, callers, buffers, hearing, utterances, stopped, renewed, headless, lostUpTo>>

(* The process starts again under running calls: their media frames now    *)
(* belong to streams it has never seen.                                    *)
AdapterRestarts ==
    /\ ~renewed /\ renewed' = TRUE
    /\ callers' = <<>> /\ buffers' = <<>> /\ hearing' = {}
    /\ lostUpTo' = sentFrames
    /\ UNCHANGED <<bufferAudio, call, sentFrames, utterances, stopped, headless>>

VoiceNext ==
    \/ \E s \in Streams : StreamStart(s)
    \/ \E s \in Streams : StartMalformed(s)
    \/ \E s \in Streams, size \in FrameSizes : MediaFrame(s, size)
    \/ \E h \in hearing : Transcribed(h)
    \/ \E s \in Streams : StreamStop(s)
    \/ \E s \in Streams : StreamVanishes(s)
    \/ AdapterRestarts

VoiceSpec == VoiceInit /\ [][VoiceNext]_voiceVars

-----------------------------------------------------------------------------
(* Audio is attributed to the caller of its own stream, while other calls  *)
(* start, speak and stop around every await; a stream whose start was lost *)
(* in a restart or could not be read has no caller and never another       *)
(* call's (adapter.py:248-251, 354-357).                                   *)
OwnCaller ==
    \A h \in hearing \cup utterances :
        \/ h.caller = CallerOf[h.stream]
        \/ h.caller = Unknown /\ (renewed \/ h.stream \in headless)

Spoken(s) == {h \in hearing \cup utterances : h.stream = s}

(* All audio that came is in exactly one message or still in the buffer,   *)
(* however early flushes, their awaits, the stop frame and further frames  *)
(* interleave (adapter.py:310).                                            *)
AudioConserved ==
    \A s \in Streams : call[s] = "open" \/ s \in stopped =>
        \A n \in lostUpTo[s] + 1 .. sentFrames[s] :
            1 = Cardinality({h \in Spoken(s) : n \in Range(h.frames)})
                + (IF n \in Range(Numbers(Held(s))) THEN 1 ELSE 0)

(* A stopped stream leaves nothing behind once its handlers have ended:    *)
(* the maps do not grow with the calls (adapter.py:267-268).               *)
StoppedLeavesNothing ==
    \A s \in stopped :
        /\ s \notin DOMAIN buffers
        /\ s \in DOMAIN callers => \E h \in hearing : h.stream = s /\ h.last

=============================================================================
