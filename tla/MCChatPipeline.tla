--------------------------- MODULE MCChatPipeline ---------------------------
(* Two tiers and two providers of different price: "cheap" serves the      *)
(* lower tier, both serve the upper one, "dear" first.                     *)
EXTENDS ChatPipeline, TLC

CONSTANTS cheap, dear, first, second

MCDefaultRing == <<cheap, dear>>
MCTierRing == <<<<cheap>>, <<dear, cheap>>>>

MCPinRing == (cheap :> <<cheap>>) @@ (dear :> <<>>)
MCProjection == (cheap :> 1) @@ (dear :> 2)

Plain ==
    [pin |-> None, auto |-> FALSE, floor |-> 1, cap |-> 2, escalates |-> FALSE,
     schema |-> "none", stream |-> FALSE]
Pinned == [Plain EXCEPT !.pin = cheap]
Unserved == [Plain EXCEPT !.pin = dear]
Typed == [Plain EXCEPT !.schema = "sane"]
Streaming == [Plain EXCEPT !.stream = TRUE]
Routed == [Plain EXCEPT !.auto = TRUE]
Floored == [Routed EXCEPT !.floor = 2]
Cascading == [Routed EXCEPT !.escalates = TRUE]
Capped == [Cascading EXCEPT !.cap = 1]
Structured == [Cascading EXCEPT !.schema = "sane"]
Insane == [Cascading EXCEPT !.schema = "insane"]

AllShapes ==
    {Plain, Pinned, Unserved, Typed, Streaming, Floored, Cascading, Capped, Structured,
     Insane}
CappedShapes == {Capped}
TypedShapes == {Typed}

(* The first request is of any shape, the second one is plain; where they  *)
(* compete hardest, both cascade.                                          *)
ChatInit ==
    /\ Init
    /\ shape[second] # Plain => shape[first] = Cascading /\ shape[second] = Cascading

ChatSpec == ChatInit /\ [][Next]_vars /\ Fairness
=============================================================================
