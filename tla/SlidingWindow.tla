--------------------------- MODULE SlidingWindow ---------------------------
(***************************************************************************)
(* A deque of time stamps that is swept from its old end, as every rate    *)
(* limit of the gateway keeps its calls of the last minute: RateState in   *)
(* glc/routing/core.py, RateLimiter in glc/security/rate_limits.py.  Time  *)
(* is a natural number of seconds since the epoch.                         *)
(***************************************************************************)
EXTENDS Integers, Sequences

CONSTANT Window     \* 60 in the code: the length of the sliding minute

ASSUME WindowAssumption == Window \in Nat \ {0}

Times == Seq(Nat)

(***************************************************************************)
(* What `while q and q[0] < cutoff: q.popleft()` leaves of a deque: the    *)
(* longest prefix of too-old entries goes, the rest stays in order.        *)
(***************************************************************************)
Stale(times, cutoff) ==
    CHOOSE k \in 0 .. Len(times) :
        /\ \A i \in 1 .. k : times[i] < cutoff
        /\ k < Len(times) => times[k + 1] >= cutoff

(* Mutant of FromCutoff: an entry exactly one window old is dropped too.   *)
AfterCutoff(times, cutoff) ==
    SubSeq(times, Stale(times, cutoff + 1) + 1, Len(times))

FromCutoff(times, cutoff) ==
    SubSeq(times, Stale(times, cutoff) + 1, Len(times))

=============================================================================
