---------------------------- MODULE PairingStore ----------------------------
(***************************************************************************)
(* The pairing store (glc/security/pairing.py): a SQLite file that the     *)
(* gateway's control routes and the operator's command line write at the   *)
(* same time.                                                              *)
(*                                                                         *)
(* Every connection is opened with isolation_level=None, so each statement *)
(* commits by itself and confirm_code is three of them with a look at the  *)
(* clock in between; the store's own lock is never taken.  A client is one *)
(* process: it runs one operation at a time and may die inside it.  A user *)
(* is a (channel, channel_user_id) pair.                                   *)
(***************************************************************************)
EXTENDS Integers, FiniteSets

CONSTANTS
    Clients,        \* the processes that have the file open
    Users,
    Codes,          \* the six-digit codes; randbelow may draw one twice
    CodeTTL,        \* CODE_TTL_SECONDS
    None,           \* no row
    MaxTime,        \* bound: the last clock value
    MaxCrashes,     \* bound: how many operations may be cut short
    MaxAsked        \* bound: how many different requests are made

Trusts == {"user_paired", "owner_paired"}
Time == 0 .. MaxTime

ASSUME PairingAssumption ==
    /\ CodeTTL \in Nat /\ MaxTime \in Nat /\ MaxCrashes \in Nat
    /\ MaxAsked \in Nat
    /\ IsFiniteSet(Clients)

Requests == [user: Users, trust: Trusts, at: Time]
PendingRows == [user: Users, trust: Trusts, expires: Nat]
PairingRows == [trust: Trusts, paired_at: Time]

ASSUME NoneAssumption == None \notin PendingRows \cup PairingRows \cup Codes

VARIABLES
    now,            \* time.time()
    pending,        \* table pending_codes: code -> row or None
    pairings,       \* table pairings: user -> row or None
    op,             \* client -> where its confirm_code is, and the row it read
    crashes,        \* bound: how many crashes there were
    asked,          \* history: the trust that was asked for, and when
    uses            \* history: code -> pairings made from it since it was issued

storeVars == <<now, pending, pairings, op, crashes, asked, uses>>

Idle == [step |-> "idle", code |-> None, row |-> None, paired_at |-> 0]
Confirming ==
    [step: {"read", "valid", "expired", "inserted"}, code: Codes,
     row: PendingRows, paired_at: Time]

StoreTypeOK ==
    /\ now \in Time
    /\ pending \in [Codes -> PendingRows \cup {None}]
    /\ pairings \in [Users -> PairingRows \cup {None}]
    /\ op \in [Clients -> Confirming \cup {Idle}]
    /\ crashes \in 0 .. MaxCrashes
    /\ asked \subseteq Requests
    /\ uses \in [Codes -> Nat]

StoreInit ==
    /\ now = 0
    /\ pending = [k \in Codes |-> None]
    /\ pairings = [u \in Users |-> None]
    /\ op = [c \in Clients |-> Idle]
    /\ crashes = 0
    /\ asked = {}
    /\ uses = [k \in Codes |-> 0]

-----------------------------------------------------------------------------
IsIdle(c) == op[c] = Idle
MayAsk == Cardinality(asked) < MaxAsked

(* INSERT OR REPLACE: a code drawn a second time takes the first one's row. *)
IssueCode(c, k, u, t) ==
    /\ IsIdle(c) /\ MayAsk
    /\ pending' = [pending EXCEPT ![k] = [user |-> u, trust |-> t, expires |-> now + CodeTTL]]
    /\ asked' = asked \cup {[user |-> u, trust |-> t, at |-> now]}
    /\ uses' = [uses EXCEPT ![k] = 0]
    /\ UNCHANGED <<now, pairings, op, crashes>>

(* confirm_code, first statement; an unknown code changes nothing.         *)
SelectCode(c, k) ==
    /\ IsIdle(c)
    /\ pending[k] # None
    /\ op' = [op EXCEPT ![c] =
                [step |-> "read", code |-> k, row |-> pending[k], paired_at |-> 0]]
    /\ UNCHANGED <<now, pending, pairings, crashes, asked, uses>>

(* Mutant of JudgeExpiry: an expired code is judged one tick late.         *)
JudgeExpiryLate(c) ==
    /\ op[c].step = "read"
    /\ op' = [op EXCEPT ![c].step = IF op[c].row.expires + 1 < now THEN "expired" ELSE "valid",
                        ![c].paired_at = now]
    /\ UNCHANGED <<now, pending, pairings, crashes, asked, uses>>

(* The clock decides: a code is still good at the instant it expires.      *)
JudgeExpiry(c) ==
    /\ op[c].step = "read"
    /\ op' = [op EXCEPT ![c].step = IF op[c].row.expires < now THEN "expired" ELSE "valid",
                        ![c].paired_at = now]
    /\ UNCHANGED <<now, pending, pairings, crashes, asked, uses>>

(* INSERT OR REPLACE INTO pairings, from the row that was read.            *)
InsertPairing(c) ==
    /\ op[c].step = "valid"
    /\ pairings' = [pairings EXCEPT ![op[c].row.user] =
                      [trust |-> op[c].row.trust, paired_at |-> op[c].paired_at]]
    /\ op' = [op EXCEPT ![c].step = "inserted"]
    /\ uses' = [uses EXCEPT ![op[c].code] = @ + 1]
    /\ UNCHANGED <<now, pending, crashes, asked>>

(* Mutant of DeleteCode: only an expired code is deleted.                  *)
DeleteExpiredOnly(c) ==
    /\ op[c].step \in {"expired", "inserted"}
    /\ pending' = IF op[c].step = "expired" THEN [pending EXCEPT ![op[c].code] = None]
                  ELSE pending
    /\ op' = [op EXCEPT ![c] = Idle]
    /\ UNCHANGED <<now, pairings, crashes, asked, uses>>

(* Last statement, by code: a row that has replaced the one read goes too. *)
DeleteCode(c) ==
    /\ op[c].step \in {"expired", "inserted"}
    /\ pending' = [pending EXCEPT ![op[c].code] = None]
    /\ op' = [op EXCEPT ![c] = Idle]
    /\ UNCHANGED <<now, pairings, crashes, asked, uses>>

Revoke(c, u) ==
    /\ IsIdle(c)
    /\ pairings' = [pairings EXCEPT ![u] = None]
    /\ UNCHANGED <<now, pending, op, crashes, asked, uses>>

ForcePairOwner(c, u) ==
    /\ IsIdle(c) /\ MayAsk
    /\ pairings' = [pairings EXCEPT ![u] = [trust |-> "owner_paired", paired_at |-> now]]
    /\ asked' = asked \cup {[user |-> u, trust |-> "owner_paired", at |-> now]}
    /\ UNCHANGED <<now, pending, op, crashes, uses>>

(* The process dies between two statements; what it committed stays.       *)
Crash(c) ==
    /\ ~IsIdle(c)
    /\ crashes < MaxCrashes
    /\ op' = [op EXCEPT ![c] = Idle]
    /\ crashes' = crashes + 1
    /\ UNCHANGED <<now, pending, pairings, asked, uses>>

Tick ==
    /\ now < MaxTime
    /\ now' = now + 1
    /\ UNCHANGED <<pending, pairings, op, crashes, asked, uses>>

Operate(c) ==
    \/ \E k \in Codes, u \in Users, t \in Trusts : IssueCode(c, k, u, t)
    \/ \E k \in Codes : SelectCode(c, k)
    \/ JudgeExpiry(c)
    \/ InsertPairing(c)
    \/ DeleteCode(c)
    \/ \E u \in Users : Revoke(c, u) \/ ForcePairOwner(c, u)

StoreNext ==
    \/ \E c \in Clients : Operate(c) \/ Crash(c)
    \/ Tick

StoreSpec == StoreInit /\ [][StoreNext]_storeVars

-----------------------------------------------------------------------------
Explains(a, u, trust) == a.user = u /\ a.trust = trust

(* Whatever two processes, crashes and colliding codes do, every row of    *)
(* the trust table answers one request, for that very user and that very   *)
(* trust level, that was no older than CODE_TTL_SECONDS when the row was    *)
(* granted: nobody becomes owner by a code that asked for less.            *)
EveryPairingAsked ==
    \A u \in Users : pairings[u] # None =>
        \E a \in asked :
            /\ Explains(a, u, pairings[u].trust)
            /\ a.at <= pairings[u].paired_at
            /\ pairings[u].paired_at <= a.at + CodeTTL

(* A code is not single-use, because SELECT and DELETE are two statements; *)
(* but it pairs at most once for every process that could have read it     *)
(* before the first of them deleted it, and once more for each crash.      *)
CodeUseBounded ==
    \A k \in Codes : uses[k] <= Cardinality(Clients) + crashes

=============================================================================
