---------------------------- MODULE GeminiClient ----------------------------
(***************************************************************************)
(* One call of GeminiProvider.chat (glc/providers.py): the system text is  *)
(* sent in the body, or stands in a cached content that the body names, or *)
(* is split over the two; thinking is asked for in the dialect of the      *)
(* model.  A 400 is met by taking out what the server may have objected    *)
(* to, and one more post.  The prompt cache is GeminiCache; the server is  *)
(* external.                                                               *)
(***************************************************************************)
EXTENDS Integers, FiniteSets

CONSTANTS
    Blocks,         \* the system text's blocks
    MaxGeminiBusy   \* bound on the answers that are no objection (429, 5xx)

ASSUME GeminiClientAssumption == MaxGeminiBusy \in Nat

VARIABLES
    wish,       \* the request: [marked, cacheAll, long, thinks, knob]
    mint,       \* what get_or_create returned: "none", "reused", "minted"
    sends,      \* the body: [cached, system, thinking]
    reports,    \* [thinking, read, created]: what chat will return
    refuses,    \* the server: what it refuses; "other" is none of what can be taken out
    geminiAt,   \* where chat is
    gemBusy     \* how often the server was busy

geminiCallVars == <<wish, mint, sends, reports, refuses, geminiAt, gemBusy>>

(* marked: the blocks with a cache marker; cacheAll: cache_system; long:   *)
(* the cacheable text has more than 1000 characters; knob: the model's     *)
(* thinking dialect, "none" where it has none.  read and created are what  *)
(* chat counts itself; the count of cached tokens that the server adds to  *)
(* them is left out.                                                       *)
Wish == [marked: SUBSET Blocks, cacheAll: BOOLEAN, long: BOOLEAN, thinks: BOOLEAN,
         knob: {"none", "level", "budget"}]
Sends == [cached: SUBSET Blocks, system: SUBSET Blocks, thinking: {"none", "level", "budget"}]
Reports == [thinking: BOOLEAN, read: BOOLEAN, created: BOOLEAN]

GeminiCallTypeOK ==
    /\ wish \in Wish /\ mint \in {"none", "reused", "minted"}
    /\ sends \in Sends /\ reports \in Reports
    /\ refuses \subseteq {"cache", "thinking", "other"}
    /\ geminiAt \in {"cache", "post", "repost", "answered", "raised"}
    /\ gemBusy \in 0 .. MaxGeminiBusy

GeminiCallInit ==
    /\ wish \in Wish /\ refuses \in SUBSET {"cache", "thinking", "other"}
    /\ mint = "none" /\ sends = [cached |-> {}, system |-> {}, thinking |-> "none"]
    /\ reports = [thinking |-> FALSE, read |-> FALSE, created |-> FALSE]
    /\ geminiAt = "cache" /\ gemBusy = 0

-----------------------------------------------------------------------------
(* What is cached of the system text: the marked blocks, or all of it.     *)
Cacheable ==
    IF wish.marked # {} THEN wish.marked ELSE IF wish.cacheAll THEN Blocks ELSE {}

(* Mutant of SystemBeside: the whole text goes along with the cache.       *)
SystemBesideAll == Blocks

(* What is left for the body beside a cached content.                      *)
SystemBeside == IF wish.marked # {} THEN Blocks \ wish.marked ELSE {}

(* get_or_create, where there is something long to cache, and the body.    *)
BuildBody ==
    /\ geminiAt = "cache"
    /\ mint' \in IF Cacheable # {} /\ wish.long THEN {"none", "reused", "minted"} ELSE {"none"}
    /\ sends' =
          [cached |-> IF mint' = "none" THEN {} ELSE Cacheable,
           system |-> IF mint' = "none" THEN Blocks ELSE SystemBeside,
           thinking |-> IF wish.thinks THEN wish.knob ELSE "none"]
    /\ reports' = [thinking |-> sends'.thinking # "none", read |-> mint' = "reused",
                   created |-> mint' = "minted"]
    /\ geminiAt' = "post"
    /\ UNCHANGED <<wish, refuses, gemBusy>>

Refused ==
    (refuses \cap {"other"})
        \cup (IF sends.cached # {} THEN refuses \cap {"cache"} ELSE {})
        \cup (IF sends.thinking # "none" THEN refuses \cap {"thinking"} ELSE {})

(* Mutant of ReadAfter: the hit that was undone is still reported.         *)
ReadAfterAll(named) == reports.read

(* On a 400 thinking goes in any case, the cached content when the text    *)
(* speaks of a cache; then the whole system text goes into the body.       *)
Stripped(named) ==
    [sends EXCEPT !.thinking = "none",
                  !.cached = IF "cache" \in named THEN {} ELSE @,
                  !.system = IF "cache" \in named /\ sends.cached # {} THEN Blocks ELSE @]

ReadAfter(named) == reports.read /\ "cache" \notin named

(* A post is answered, refused for what it names, or finds the server busy.*)
GeminiPost ==
    /\ geminiAt = "post"
    /\ \/ Refused = {} /\ geminiAt' = "answered" /\ UNCHANGED <<sends, reports, gemBusy>>
       \/ \E named \in (SUBSET Refused) \ {{}} :
             /\ sends' = Stripped(named)
             /\ reports' = [reports EXCEPT !.thinking = FALSE, !.read = ReadAfter(named)]
             /\ geminiAt' = "repost"
             /\ UNCHANGED gemBusy
       \/ /\ gemBusy < MaxGeminiBusy /\ gemBusy' = gemBusy + 1
          /\ geminiAt' = "raised" /\ UNCHANGED <<sends, reports>>
    /\ UNCHANGED <<wish, mint, refuses>>

(* The second post, whatever it meets, is the last; an answer without      *)
(* candidates raises as well.                                              *)
GeminiRepost ==
    /\ geminiAt = "repost"
    /\ geminiAt' \in IF Refused = {} THEN {"answered", "raised"} ELSE {"raised"}
    /\ UNCHANGED <<wish, mint, sends, reports, refuses, gemBusy>>

GeminiCallNext == BuildBody \/ GeminiPost \/ GeminiRepost

GeminiCallSpec == GeminiCallInit /\ [][GeminiCallNext]_geminiCallVars

-----------------------------------------------------------------------------
(* The model reads every block of the system text once, in the cached      *)
(* content or in the body, however the call was healed.                    *)
SystemReadOnce ==
    geminiAt = "answered" =>
        sends.cached \cup sends.system = Blocks /\ sends.cached \cap sends.system = {}

(* What is reported is what the accepted body holds: a cache read only     *)
(* where the body still names the cached content, thinking only where it   *)
(* asks for it; a mint that was paid stays reported (providers.py:856-867).*)
ReportsTrue ==
    geminiAt = "answered" =>
        /\ reports.thinking = (sends.thinking # "none")
        /\ reports.read => sends.cached # {}
        /\ reports.created = (mint = "minted")

=============================================================================
