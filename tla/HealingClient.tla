---------------------------- MODULE HealingClient ----------------------------
(***************************************************************************)
(* One call of an OpenAI-compatible provider (glc/providers.py:            *)
(* OpenAICompatProvider.chat and stream).  What the request asks for is    *)
(* put on the wire in dialects that no server knows all of; chat changes   *)
(* the body by what the server objects to and posts again.  The server is  *)
(* external: it answers a body it accepts, and names some of what it       *)
(* objects to in one it does not.                                          *)
(***************************************************************************)
EXTENDS Integers, Sequences, SequencesExt, FiniteSets

CONSTANTS
    Dials,          \* what `reasoning` can be in a request
    Formats,        \* and response_format
    Servers,        \* [knows: SUBSET BodyKeys, efforts: SUBSET Efforts, schema, wantsWord: BOOLEAN]
    MaxBusy         \* bound on the answers that are no objection (429, 5xx)

BodyKeys == {"reasoning_effort", "chat_template_kwargs"}
Levels == <<"low", "medium", "high">>
Efforts == Range(Levels) \cup {"none"}
FormatKinds == {"text", "json_object", "json_schema"}

ASSUME HealingAssumption ==
    /\ Dials \subseteq {"unset", "off"} \cup Range(Levels) /\ Formats \subseteq FormatKinds
    /\ Servers \subseteq [knows: SUBSET BodyKeys, efforts: SUBSET Efforts, schema: BOOLEAN,
                          wantsWord: BOOLEAN]
    /\ MaxBusy \in Nat

VARIABLES
    wanted,      \* the request: [dial, format, thinker, supports, streams]
    server,     \* the server it goes to
    body,       \* [effort, kwargs, format, word]: what matters of the body
    applied,    \* reasoning_applied
    answer,     \* the last answer: [status, names, low]: what its text contains
    healAt,     \* where chat is: "heal", "schema", "word", "answered", "raised", or the next post
    budget,     \* budget of the loop
    busy        \* how often the server was busy

healVars == <<wanted, server, body, applied, answer, healAt, budget, busy>>

(* The model thinks by default, is known to reason; the call streams.      *)
Asked == [dial: Dials, format: Formats, thinker: BOOLEAN, supports: BOOLEAN, streams: BOOLEAN]
Body == [effort: Efforts \cup {"absent"}, kwargs: BOOLEAN, format: FormatKinds, word: BOOLEAN]
Objections == BodyKeys \cup {"levels", "json_schema", "json"}

HealTypeOK ==
    /\ wanted \in Asked /\ server \in Servers /\ body \in Body /\ applied \in BOOLEAN
    /\ answer \in [status: {0, 200, 400, 503}, names: SUBSET Objections, low: BOOLEAN]
    /\ healAt \in {"first", "heal", "healing", "schema", "downgraded", "word", "reworded",
                   "answered", "raised"}
    /\ budget \in 0 .. 3 /\ busy \in 0 .. MaxBusy

-----------------------------------------------------------------------------
(* _apply_reasoning: what the dial puts into the body; "off" is stated in  *)
(* both dialects, and only to a model that thinks by default.              *)
ReasoningBody(q) ==
    CASE q.dial = "off" /\ q.thinker -> [effort |-> "none", kwargs |-> TRUE]
      [] q.dial \in Range(Levels) /\ q.supports -> [effort |-> q.dial, kwargs |-> FALSE]
      [] OTHER -> [effort |-> "absent", kwargs |-> FALSE]

KeysIn(b) ==
    {k \in BodyKeys : IF k = "reasoning_effort" THEN b.effort # "absent" ELSE b.kwargs}

(* The messages of a request may hold the word "json" or not.              *)
HealInit ==
    /\ wanted \in Asked /\ server \in Servers
    /\ \E word \in BOOLEAN :
          body = [effort |-> ReasoningBody(wanted).effort, kwargs |-> ReasoningBody(wanted).kwargs,
                  format |-> wanted.format, word |-> word]
    /\ applied = (KeysIn(body) # {})
    /\ answer = [status |-> 0, names |-> {}, low |-> FALSE] /\ healAt = "first" /\ budget = 0 /\ busy = 0

-----------------------------------------------------------------------------
(* What the server objects to in a body; "levels" stands for a text that   *)
(* lists the efforts it accepts.                                           *)
ObjectsTo(s, b) ==
    (KeysIn(b) \ s.knows)
        \cup (IF b.effort \in Efforts \ s.efforts /\ "reasoning_effort" \in s.knows
              THEN {"levels"} ELSE {})
        \cup (IF b.format = "json_schema" /\ ~s.schema THEN {"json_schema"} ELSE {})
        \cup (IF b.format = "json_object" /\ s.wantsWord /\ ~b.word THEN {"json"} ELSE {})

(* An answer: 200, or 400 naming one objection or more, or a failure that  *)
(* names none.  A text may hold "low" by accident, as "not allowed" does.  *)
Answers(b) ==
    LET wrong == ObjectsTo(server, b) IN
    (IF wrong = {} THEN {[status |-> 200, names |-> {}, low |-> FALSE]}
     ELSE [status: {400}, names: (SUBSET wrong) \ {{}}, low: BOOLEAN])
        \cup (IF busy < MaxBusy THEN {[status |-> 503, names |-> {}, low |-> FALSE]} ELSE {})

(* The text of an answer: a list of efforts comes with the field's name,   *)
(* and a complaint about the schema says "json" too.                       *)
Says(key) ==
    CASE key = "reasoning_effort" -> {"reasoning_effort", "levels"} \cap answer.names # {}
      [] key = "json" -> {"json_schema", "json"} \cap answer.names # {}
      [] OTHER -> key \in answer.names

Posted(b) ==
    /\ answer' \in Answers(b)
    /\ busy' = IF answer'.status = 503 THEN busy + 1 ELSE busy

(* Mutants of HealBudget: one pass for each key; two passes more than that.*)
HealBudgetPassPerKey == Cardinality(BodyKeys)
HealBudgetTwoMore == Cardinality(BodyKeys) + 2

HealBudget == Cardinality(BodyKeys) + 1

FirstPost ==
    /\ healAt = "first"
    /\ Posted(body)
    /\ healAt' = IF answer'.status = 200 THEN "answered"
                 ELSE IF wanted.streams THEN "raised" ELSE "heal"
    /\ budget' = IF healAt' = "heal" THEN HealBudget ELSE 0
    /\ UNCHANGED <<wanted, server, body, applied>>

(* allowed: the efforts that the text seems to list.                       *)
Listed ==
    {l \in Range(Levels) : \/ "levels" \in answer.names /\ l \in server.efforts
                           \/ answer.low /\ l = "low"}

(* Mutant of LeastLevel: the greatest of the efforts that are listed.      *)
LeastLevelGreatest(listed) ==
    Levels[CHOOSE i \in DOMAIN Levels :
              Levels[i] \in listed /\ \A j \in i + 1 .. Len(Levels) : Levels[j] \notin listed]

LeastLevel(listed) ==
    Levels[CHOOSE i \in DOMAIN Levels :
              Levels[i] \in listed /\ \A j \in 1 .. i - 1 : Levels[j] \notin listed]

Named(b) == {k \in KeysIn(b) : Says(k)}

(* What the loop makes of the body: "none" becomes the least effort that   *)
(* is listed, and else what is named is taken out.                         *)
Healed(b) ==
    IF b.effort = "none" /\ Says("reasoning_effort") /\ Listed # {}
    THEN [b EXCEPT !.effort = LeastLevel(Listed)]
    ELSE [b EXCEPT !.effort = IF "reasoning_effort" \in Named(b) THEN "absent" ELSE @,
                   !.kwargs = @ /\ "chat_template_kwargs" \notin Named(b)]

(* Mutant of AppliedAfter: what was applied first is still reported.       *)
AppliedAfterAsBefore(b) == applied

AppliedAfter(b) == KeysIn(b) # {}

(* One round of the loop: it ends when the server is content, nothing is   *)
(* left to take out, nothing changed, or the budget is spent.              *)
Heal ==
    /\ healAt = "heal"
    /\ IF answer.status # 200 /\ applied /\ budget > 0 /\ Healed(body) # body
       THEN /\ body' = Healed(body) /\ applied' = AppliedAfter(body')
            /\ budget' = budget - 1 /\ healAt' = "healing"
       ELSE /\ healAt' = IF answer.status = 200 THEN "answered" ELSE "schema"
            /\ UNCHANGED <<body, applied, budget>>
    /\ UNCHANGED <<wanted, server, answer, busy>>

(* Any failure at all drops the schema, once.                              *)
DropSchema ==
    /\ healAt = "schema"
    /\ IF body.format = "json_schema"
       THEN body' = [body EXCEPT !.format = "json_object"] /\ healAt' = "downgraded"
       ELSE healAt' = "word" /\ UNCHANGED body
    /\ UNCHANGED <<wanted, server, applied, answer, budget, busy>>

AddWord ==
    /\ healAt = "word"
    /\ IF answer.status = 400 /\ Says("json") /\ body.format = "json_object"
       THEN body' = [body EXCEPT !.word = TRUE] /\ healAt' = "reworded"
       ELSE healAt' = "raised" /\ UNCHANGED body
    /\ UNCHANGED <<wanted, server, applied, answer, budget, busy>>

(* The changed body is posted.                                             *)
Repost ==
    /\ healAt \in {"healing", "downgraded", "reworded"}
    /\ Posted(body)
    /\ healAt' = IF healAt = "healing" THEN "heal"
                 ELSE IF answer'.status = 200 THEN "answered"
                 ELSE IF healAt = "downgraded" THEN "word" ELSE "raised"
    /\ UNCHANGED <<wanted, server, body, applied, budget>>

HealNext == FirstPost \/ Heal \/ DropSchema \/ AddWord \/ Repost

HealSpec == HealInit /\ [][HealNext]_healVars

-----------------------------------------------------------------------------
(* The server objects to nothing but reasoning fields, and was never busy. *)
OnlyReasoning == busy = 0 /\ server.schema /\ ~server.wantsWord

(* A call is healed of every objection to its reasoning fields, whichever  *)
(* of them the server knows, whether it names them one by one or at once,  *)
(* in any order (providers.py:481-487, "One pass is not enough").          *)
HealedWhereAble == healAt = "raised" /\ OnlyReasoning => wanted.streams

(* What is reported of reasoning is what the body that was accepted says.  *)
AppliedIsTrue == healAt = "answered" => applied = (KeysIn(body) # {})

(* A level that was asked for is kept or dropped, never exchanged for      *)
(* another; "off" may become a level only where the server does not take   *)
(* "none", and then its least (providers.py:492-500).                      *)
EffortKept ==
    healAt = "answered" /\ body.effort \in Range(Levels) =>
        \/ body.effort = wanted.dial
        \/ /\ wanted.dial = "off" /\ "none" \notin server.efforts
           /\ \A i, j \in 1 .. 3 : Levels[i] = body.effort /\ Levels[j] \in server.efforts => i <= j

(* What the code says (providers.py:292-293): "Anything the server rejects *)
(* is stripped on the 400 and the call is retried, so sending both is      *)
(* safe."                                                                  *)
SendingBothIsSafe == healAt = "raised" /\ OnlyReasoning => wanted.dial # "off"

=============================================================================
