------------------------------- MODULE Speak --------------------------------
(***************************************************************************)
(* POST /v1/speak (glc/routes/speak.py, glc/voice/tts): the route, the     *)
(* dispatcher and the five providers.  Each request makes its provider     *)
(* anew; they share the month's counter of ElevenLabs in a file and, from  *)
(* worker threads, the loaded Kokoro model.  The system's voice blocks the *)
(* event loop, so its call is one step.  The upstreams and the calendar    *)
(* are external.                                                           *)
(***************************************************************************)
EXTENDS Integers, Sequences, FiniteSets, SequencesExt

CONSTANTS
    Speakers,                       \* requests at a time
    Texts,                          \* what is to be said: the lengths of its sentences
    QuotaLimit, MaxChars,           \* characters a month, and in one chunk
    MaxAudio,                       \* output_audio_max_size, in pieces
    MaxSpeaks, MaxMonths, MaxFrames, MaxTtsCrashes     \* bounds

ASSUME SpeakAssumption ==
    /\ IsFiniteSet(Speakers) /\ {QuotaLimit, MaxChars, MaxAudio} \subseteq Nat
    /\ {MaxSpeaks, MaxMonths, MaxFrames, MaxTtsCrashes} \subseteq Nat
    /\ Texts \subseteq Seq(Nat)

VARIABLES
    speak,          \* request -> its progress
    counted,        \* elevenlabs_quota.json: the characters of this month
    pipeline,       \* kokoro's _pipeline is loaded
    spoken,         \* history: characters that ElevenLabs voiced this month
    unbooked,       \* history: of those, the ones no request will book any more
    modelLoads,          \* history: models that this process has loaded
    month, speaks, ttsCrashes

ttsVars == <<speak, counted, pipeline, spoken, unbooked, modelLoads, month, speaks, ttsCrashes>>

(* usage and audio are what the session's reader holds; told and sent are  *)
(* what Gemini has reported and delivered.                                 *)
Quiet ==
    [at |-> "idle", prefer |-> "none", text |-> <<>>, chunks |-> <<>>, said |-> <<>>,
     audio |-> 0, usage |-> 0, sent |-> 0, told |-> 0, frames |-> 0, outcome |-> "none"]

Chars(sentences) == FoldLeft(LAMBDA total, n : total + n, 0, sentences)

SpeakTypeOK ==
    /\ \A s \in Speakers :
         /\ speak[s].at \in {"idle", "upstream", "starting", "loading", "voicing", "stream", "session"}
         /\ speak[s].prefer \in {"none", "default", "quality", "streaming", "realtime", "fallback"}
         /\ speak[s].text \in Texts \cup {<<>>}
         /\ speak[s].outcome \in {"none", "audio", "error"}
    /\ counted \in Nat /\ pipeline \in BOOLEAN /\ {spoken, unbooked, modelLoads} \subseteq Nat

SpeakInit ==
    /\ speak = [s \in Speakers |-> Quiet] /\ counted = 0 /\ pipeline = FALSE
    /\ spoken = 0 /\ unbooked = 0 /\ modelLoads = 0 /\ month = 1 /\ speaks = 0 /\ ttsCrashes = 0

Answer(s, outcome) == speak' = [speak EXCEPT ![s].at = "idle", ![s].outcome = outcome]

(* A request comes in and its provider takes it up at, or answers at once. *)
Begin(s, request) ==
    /\ speak[s].at = "idle" /\ speaks < MaxSpeaks
    /\ speak' = [speak EXCEPT ![s] = request] /\ speaks' = speaks + 1
    /\ UNCHANGED <<counted, pipeline, spoken, unbooked, modelLoads, month, ttsCrashes>>
Request(prefer, at, outcome) == [Quiet EXCEPT !.at = at, !.prefer = prefer, !.outcome = outcome]

-----------------------------------------------------------------------------
(* elevenlabs.  Mutant of WithinQuota: the text to come does not count.    *)
WithinQuotaSoFar(text) == counted < QuotaLimit

WithinQuota(text) == counted + Chars(text) <= QuotaLimit

(* Mutant of ChunkText: a long sentence takes the place of what was        *)
(* collected before it.                                                    *)
ChunkTextLosing(text) ==
    LET put(acc, n) ==
            IF n > MaxChars THEN [chunks |-> Append(acc.chunks, <<n>>), current |-> <<>>]
            ELSE [chunks |-> acc.chunks, current |-> Append(acc.current, n)]
        last == FoldLeft(put, [chunks |-> <<>>, current |-> <<>>], text)
    IN  last.chunks \o (IF last.current = <<>> THEN <<>> ELSE <<last.current>>)

(* Whole sentences, as many to a chunk as fit; one that is too long stands *)
(* alone.                                                                  *)
ChunkText(text) ==
    LET flush(chunk) == IF chunk = <<>> THEN <<>> ELSE <<chunk>>
        put(acc, n) ==
            IF n > MaxChars
            THEN [chunks |-> acc.chunks \o flush(acc.current) \o <<<<n>>>>, current |-> <<>>]
            ELSE IF Chars(acc.current) + n > MaxChars
            THEN [chunks |-> Append(acc.chunks, acc.current), current |-> <<n>>]
            ELSE [acc EXCEPT !.current = Append(@, n)]
        last == FoldLeft(put, [chunks |-> <<>>, current |-> <<>>], text)
    IN  last.chunks \o flush(last.current)

SpeakQuality(s, text) ==
    Begin(s,
        IF text = <<>> THEN Request("quality", "idle", "audio")
        ELSE IF ~WithinQuota(text) THEN Request("quality", "idle", "error")
        ELSE [Request("quality", "upstream", "none") EXCEPT !.text = text, !.chunks = ChunkText(text)])

(* _call_upstream returns a chunk's audio; the last chunk is followed by   *)
(* _persist_real_quota before any other request can run.                   *)
ChunkVoiced(s) ==
    LET r == speak[s] IN
    /\ r.at = "upstream"
    /\ spoken' = spoken + Chars(Head(r.chunks))
    /\ LET further == [r EXCEPT !.said = @ \o Head(r.chunks), !.chunks = Tail(@)] IN
       IF Tail(r.chunks) = <<>>
       THEN /\ speak' = [speak EXCEPT ![s] = [further EXCEPT !.at = "idle", !.outcome = "audio"]]
            /\ counted' = counted + Chars(r.text)
       ELSE speak' = [speak EXCEPT ![s] = further] /\ UNCHANGED counted
    /\ UNCHANGED <<pipeline, unbooked, modelLoads, month, speaks, ttsCrashes>>

(* Refused, or nothing came back: the earlier chunks are never booked; a   *)
(* request that timed out may have been voiced all the same.               *)
ChunkFails(s, voiced) ==
    LET r == speak[s]
        lost == IF voiced THEN Chars(Head(r.chunks)) ELSE 0
    IN  /\ r.at = "upstream"
        /\ Answer(s, "error")
        /\ spoken' = spoken + lost /\ unbooked' = unbooked + Chars(r.said) + lost
        /\ UNCHANGED <<counted, pipeline, modelLoads, month, speaks, ttsCrashes>>

(* The file's key is the month: the new one starts at nothing.             *)
MonthTurns ==
    /\ month < MaxMonths /\ month' = month + 1
    /\ counted' = 0 /\ spoken' = 0 /\ unbooked' = 0
    /\ UNCHANGED <<speak, pipeline, modelLoads, speaks, ttsCrashes>>

(* The gateway dies.  If it was writing the counter (torn), the file is    *)
(* left unreadable, which counts as empty.                                 *)
TtsCrash(torn) ==
    LET writers == {s \in Speakers : speak[s].at = "upstream" /\ Len(speak[s].chunks) = 1}
        said == {s \in Speakers : speak[s].at = "upstream"}
        inFlight == FoldSet(LAMBDA s, sum : Chars(speak[s].said) + sum, 0, said)
    IN  /\ ttsCrashes < MaxTtsCrashes /\ ttsCrashes' = ttsCrashes + 1
        /\ IF torn
           THEN \E s \in writers :
                   LET last == Chars(Head(speak[s].chunks)) IN
                   /\ spoken' = spoken + last /\ counted' = 0
                   /\ unbooked' = unbooked + inFlight + last + counted
           ELSE UNCHANGED <<spoken, counted>> /\ unbooked' = unbooked + inFlight
        /\ speak' = [s \in Speakers |-> Quiet] /\ pipeline' = FALSE /\ modelLoads' = 0
        /\ UNCHANGED <<month, speaks>>

-----------------------------------------------------------------------------
(* kokoro, in a worker thread: numpy first, then the model, then the voice.*)
SpeakDefault(s) == Begin(s, Request("default", "starting", "none"))

KokoroStarts(s) ==
    /\ speak[s].at = "starting"
    /\ \/ speak' = [speak EXCEPT ![s].at = IF pipeline THEN "voicing" ELSE "loading"]
       \/ Answer(s, "error")
    /\ UNCHANGED <<counted, pipeline, spoken, unbooked, modelLoads, month, speaks, ttsCrashes>>

(* Mutant of ModelKept: the loaded model is not remembered.                *)
ModelKeptNot == FALSE

ModelKept == TRUE

KokoroLoads(s) ==
    /\ speak[s].at = "loading"
    /\ \/ /\ pipeline' = ModelKept /\ modelLoads' = modelLoads + 1
          /\ speak' = [speak EXCEPT ![s].at = "voicing"]
       \/ Answer(s, "error") /\ UNCHANGED <<pipeline, modelLoads>>
    /\ UNCHANGED <<counted, spoken, unbooked, month, speaks, ttsCrashes>>

(* No audio at all is an error too, and so is a crash of the inference.    *)
KokoroVoices(s) ==
    /\ speak[s].at = "voicing"
    /\ \E outcome \in {"audio", "error"} : Answer(s, outcome)
    /\ UNCHANGED <<counted, pipeline, spoken, unbooked, modelLoads, month, speaks, ttsCrashes>>

(* cartesia: nothing to say is answered at once, and so is a missing key;  *)
(* the stream is read to its end before anything is answered.              *)
SpeakStreaming(s) ==
    \/ \E outcome \in {"audio", "error"} : Begin(s, Request("streaming", "idle", outcome))
    \/ Begin(s, Request("streaming", "stream", "none"))

StreamEnds(s) ==
    /\ speak[s].at = "stream"
    /\ \E outcome \in {"audio", "error"} : Answer(s, outcome)
    /\ UNCHANGED <<counted, pipeline, spoken, unbooked, modelLoads, month, speaks, ttsCrashes>>

(* system_fallback: there may be no voice, and what the subprocess raises  *)
(* is not caught.                                                          *)
SpeakFallback(s) ==
    \E outcome \in {"audio", "error"} : Begin(s, Request("fallback", "idle", outcome))

-----------------------------------------------------------------------------
(* gemini_live: too long a text and a missing key are refused.             *)
SpeakRealtime(s) ==
    \/ Begin(s, Request("realtime", "session", "none"))
    \/ Begin(s, Request("realtime", "idle", "error"))

(* A frame delivers pieces of audio, reports cumulative usage, completes.  *)
HasContent(frame) == frame.pieces > 0 \/ frame.done

(* Mutant of UsageAfter: frames without content are skipped first.         *)
UsageAfterSkipping(r, frame) ==
    IF frame.reports /\ HasContent(frame) THEN r.told + 1 ELSE r.usage

UsageAfter(r, frame) == IF frame.reports THEN r.told + 1 ELSE r.usage

(* The audio is measured when the session is over.                         *)
Measured(r) ==
    [r EXCEPT !.at = "idle", !.frames = 0, !.outcome = IF r.audio > MaxAudio THEN "error" ELSE "audio"]

SpeakFrame(s) ==
    LET r == speak[s] IN
    /\ r.at = "session" /\ r.frames < MaxFrames
    /\ \E frame \in [pieces : 0 .. 1, reports : BOOLEAN, done : BOOLEAN] :
          LET next == [r EXCEPT !.frames = @ + 1, !.usage = UsageAfter(r, frame),
                                !.audio = @ + frame.pieces, !.sent = @ + frame.pieces,
                                !.told = IF frame.reports THEN @ + 1 ELSE @]
          IN  speak' = [speak EXCEPT ![s] = IF frame.done THEN Measured(next) ELSE next]
    /\ UNCHANGED <<counted, pipeline, spoken, unbooked, modelLoads, month, speaks, ttsCrashes>>

(* A connection that breaks is an error; one that the other side closes    *)
(* only ends the loop, and what came until then is the answer.             *)
SessionEnds(s) ==
    /\ speak[s].at = "session"
    /\ \/ Answer(s, "error")
       \/ speak[s].frames > 0 /\ speak' = [speak EXCEPT ![s] = Measured(speak[s])]
    /\ UNCHANGED <<counted, pipeline, spoken, unbooked, modelLoads, month, speaks, ttsCrashes>>

SpeakNext ==
    \/ \E s \in Speakers :
          \/ \E text \in Texts : SpeakQuality(s, text)
          \/ ChunkVoiced(s) \/ ChunkFails(s, TRUE) \/ ChunkFails(s, FALSE)
          \/ SpeakDefault(s) \/ KokoroStarts(s) \/ KokoroLoads(s) \/ KokoroVoices(s)
          \/ SpeakStreaming(s) \/ StreamEnds(s)
          \/ SpeakFallback(s)
          \/ SpeakRealtime(s) \/ SpeakFrame(s) \/ SessionEnds(s)
    \/ MonthTurns
    \/ TtsCrash(TRUE) \/ TtsCrash(FALSE)

SpeakSpec == SpeakInit /\ [][SpeakNext]_ttsVars

-----------------------------------------------------------------------------
(* The month's quota is overshot by no more than what the other requests   *)
(* had under way when they were checked, and what failures and crashes     *)
(* kept from being booked (_check_quota reads before the awaits,           *)
(* _persist_real_quota writes after them).                                 *)
MonthOvershootBounded ==
    spoken <= QuotaLimit + unbooked
              + (Cardinality(Speakers) - 1) * (CHOOSE n \in {Chars(t) : t \in Texts} :
                                                  \A t \in Texts : Chars(t) <= n)

(* Whatever is asked for is said: the chunks that are done and those that  *)
(* are left make up the text, sentence by sentence, and a chunk is beyond  *)
(* the limit only when it is one sentence (_chunk_text).                   *)
NothingUnsaid ==
    \A s \in Speakers :
        LET r == speak[s] IN
        r.prefer = "quality" /\ (r.at = "upstream" \/ r.outcome = "audio") =>
            /\ r.said \o FlattenSeq(r.chunks) = r.text
            /\ \A i \in DOMAIN r.chunks : Chars(r.chunks[i]) <= MaxChars \/ Len(r.chunks[i]) = 1

(* The model is loaded by those alone who found it missing at the same     *)
(* time: however many requests follow, no further copy is loaded (_load).  *)
LoadsBounded == modelLoads <= Cardinality(Speakers)

(* An answered session is charged the last usage that Gemini reported,     *)
(* on whatever frame, and carries all the audio it delivered               *)
(* (_synthesize_live).                                                     *)
SessionAccounted ==
    \A s \in Speakers :
        LET r == speak[s] IN
        r.prefer = "realtime" /\ r.outcome = "audio" => r.usage = r.told /\ r.audio = r.sent

(* What is spoken is all that was asked for and is accounted for, by every *)
(* provider, over failures, crashes and requests that overlap.             *)
SpeechAccounted == MonthOvershootBounded /\ NothingUnsaid /\ LoadsBounded /\ SessionAccounted
=============================================================================
