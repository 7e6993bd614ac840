--------------------------- MODULE MCProviderRing ---------------------------
(* One second is one unit.  RingPair: a minute is one, a day is five and a *)
(* midnight lies inside; p1 reaches its minute, its day and its tokens, p2 *)
(* its cooldown.  RingBench: both may be called twice a minute, and two    *)
(* failed calls bench a provider for different times.                      *)
EXTENDS ProviderRing, TLC

CONSTANTS p1, p2

MCSymmetry == Permutations(Callers)

MCLimits ==
    (p1 :> [rpm |-> 1, rpd |-> 1, tpm |-> 2, tpd |-> 20, cooldown |-> 0]) @@
    (p2 :> [rpm |-> 2, rpd |-> 2, tpm |-> 9, tpd |-> 3, cooldown |-> 6])

BenchLimits == [p \in {p1, p2} |-> [MCLimits[p2] EXCEPT !.cooldown = 0]]

MCOrder == <<p1, p2>>
=============================================================================
