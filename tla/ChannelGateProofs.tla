--------------------------- MODULE ChannelGateProofs ---------------------------
(***************************************************************************)
(* The trust table, and the doors composed with it, for every set of       *)
(* sockets, webhooks, processes, users and codes.  A row of the table      *)
(* travels from the pending table into a client's confirm and from there   *)
(* into the pairings, so the store's invariant follows it on the way: that *)
(* every row answers a request, and how often one code can pair.  The      *)
(* doors' invariant contains it; there it says where a message's trust     *)
(* comes from.                                                             *)
(***************************************************************************)
EXTENDS ChannelGate, FiniteSetTheorems, TLAPS

-----------------------------------------------------------------------------
(* The pairing store.                                                      *)

(* Some request made no later than now explains the row and its expiry.    *)
Backed(S, t, row) ==
    \E a \in S :
        /\ Explains(a, row.user, row.trust)
        /\ a.at <= t
        /\ row.expires = a.at + CodeTTL

(* Some request explains a pairing of u at that trust granted at time t.   *)
Granted(S, u, trust, t) ==
    \E a \in S :
        /\ Explains(a, u, trust)
        /\ a.at <= t
        /\ t <= a.at + CodeTTL

PendingBacked == \A k \in Codes : pending[k] # None => Backed(asked, now, pending[k])

ConfirmBacked ==
    \A c \in Clients :
        /\ op[c] # Idle => Backed(asked, now, op[c].row)
        /\ op[c].step = "valid" =>
              Granted(asked, op[c].row.user, op[c].row.trust, op[c].paired_at)

PairingsGranted ==
    \A u \in Users : pairings[u] # None =>
        Granted(asked, u, pairings[u].trust, pairings[u].paired_at)

StoreInv == StoreTypeOK /\ PendingBacked /\ ConfirmBacked /\ PairingsGranted

-----------------------------------------------------------------------------
(* The store starts with empty tables and no operation under way.          *)
LEMMA StoreInitHolds == StoreInit => StoreInv
<1> SUFFICES ASSUME StoreInit PROVE StoreInv
  OBVIOUS
<1>1. StoreTypeOK
  BY PairingAssumption DEF StoreInit, StoreTypeOK, Time
<1>2. PendingBacked /\ PairingsGranted
  BY DEF StoreInit, PendingBacked, PairingsGranted
<1>3. ConfirmBacked
  BY DEF StoreInit, ConfirmBacked, Idle
<1> QED BY <1>1, <1>2, <1>3 DEF StoreInv

(* Requests are never withdrawn and the clock never runs backwards, so     *)
(* what backs a row or a grant goes on backing it.                         *)
LEMMA BackingLasts ==
    ASSUME StoreTypeOK, asked \subseteq asked', now' \in Time, now <= now'
    PROVE  /\ \A row : Backed(asked, now, row) => Backed(asked', now', row)
           /\ \A u, trust, t : Granted(asked, u, trust, t) => Granted(asked', u, trust, t)
<1>1. \A a \in asked : a.at \in Time /\ (a.at <= now => a.at <= now')
  BY PairingAssumption DEF StoreTypeOK, Requests, Time
<1>2. ASSUME NEW row, Backed(asked, now, row) PROVE Backed(asked', now', row)
  BY <1>1, <1>2 DEF Backed
<1>3. ASSUME NEW u, NEW trust, NEW t, Granted(asked, u, trust, t)
      PROVE  Granted(asked', u, trust, t)
  BY <1>3 DEF Granted
<1> QED BY <1>2, <1>3

(* A client in the middle of confirm_code holds a code and a row.          *)
LEMMA ConfirmingClient ==
    ASSUME StoreTypeOK, NEW c \in Clients, op[c].step # "idle"
    PROVE  op[c] \in Confirming /\ op[c] # Idle
BY DEF StoreTypeOK, Idle

-----------------------------------------------------------------------------
(* issue_code: the new row is backed by the request that is made with it.  *)
LEMMA IssueKeeps ==
    ASSUME StoreInv, NEW c \in Clients, NEW k \in Codes, NEW u \in Users,
           NEW t \in Trusts, IssueCode(c, k, u, t)
    PROVE  StoreInv'
<1> DEFINE a0 == [user |-> u, trust |-> t, at |-> now]
           row0 == [user |-> u, trust |-> t, expires |-> now + CodeTTL]
<1>0. StoreTypeOK /\ now \in Nat /\ CodeTTL \in Nat
  BY PairingAssumption DEF StoreInv, StoreTypeOK, Time
<1>1. a0 \in Requests /\ row0 \in PendingRows /\ row0 # None
  BY <1>0, NoneAssumption DEF StoreTypeOK, Requests, PendingRows
<1>2. /\ pending' = [pending EXCEPT ![k] = row0]
      /\ asked' = asked \cup {a0}
      /\ UNCHANGED <<now, pairings, op, crashes>>
      /\ uses' = [uses EXCEPT ![k] = 0]
  BY DEF IssueCode
<1>3. StoreTypeOK'
  BY <1>0, <1>1, <1>2 DEF StoreTypeOK
<1>4. /\ \A row : Backed(asked, now, row) => Backed(asked', now', row)
      /\ \A v, trust, at : Granted(asked, v, trust, at) => Granted(asked', v, trust, at)
  <2>1. asked \subseteq asked' /\ now' \in Time /\ now <= now'
    BY <1>0, <1>2 DEF StoreTypeOK
  <2> QED BY <2>1, <1>0, BackingLasts
<1>5. Backed(asked', now', row0)
  BY <1>0, <1>1, <1>2 DEF Backed, Explains
<1>6. PendingBacked'
  <2> SUFFICES ASSUME NEW j \in Codes, pending'[j] # None PROVE Backed(asked', now', pending'[j])
    BY DEF PendingBacked
  <2>1. CASE j = k
    BY <2>1, <1>0, <1>2, <1>5 DEF StoreTypeOK
  <2>2. CASE j # k
    BY <2>2, <1>0, <1>2, <1>4 DEF StoreTypeOK, StoreInv, PendingBacked
  <2> QED BY <2>1, <2>2
<1>7. ConfirmBacked' /\ PairingsGranted'
  BY <1>2, <1>4 DEF StoreInv, ConfirmBacked, PairingsGranted
<1> QED BY <1>3, <1>6, <1>7 DEF StoreInv

(* SELECT: the client's copy is backed like the row it was copied from.    *)
LEMMA SelectKeeps ==
    ASSUME StoreInv, NEW c \in Clients, NEW k \in Codes, SelectCode(c, k)
    PROVE  StoreInv'
<1> DEFINE new == [step |-> "read", code |-> k, row |-> pending[k], paired_at |-> 0]
<1>0. StoreTypeOK /\ pending[k] # None
  BY DEF StoreInv, SelectCode
<1>1. pending[k] \in PendingRows /\ Backed(asked, now, pending[k])
  BY <1>0 DEF StoreInv, StoreTypeOK, PendingBacked
<1>2. new \in Confirming
  BY <1>1, PairingAssumption DEF Confirming, Time
<1>3. /\ op' = [op EXCEPT ![c] = new]
      /\ UNCHANGED <<now, pending, pairings, crashes, asked, uses>>
  BY DEF SelectCode
<1>4. StoreTypeOK'
  BY <1>0, <1>2, <1>3 DEF StoreTypeOK
<1>5. ConfirmBacked'
  BY <1>0, <1>1, <1>3 DEF StoreInv, StoreTypeOK, ConfirmBacked, Backed, Granted, Explains
<1>6. PendingBacked' /\ PairingsGranted'
  BY <1>3 DEF StoreInv, PendingBacked, PairingsGranted, Backed, Granted, Explains
<1> QED BY <1>4, <1>5, <1>6 DEF StoreInv

(* The clock: what is judged valid was asked for at most CODE_TTL ago.     *)
LEMMA JudgeKeeps ==
    ASSUME StoreInv, NEW c \in Clients, JudgeExpiry(c)
    PROVE  StoreInv'
<1> DEFINE verdict == IF op[c].row.expires < now THEN "expired" ELSE "valid"
           new == [op[c] EXCEPT !.step = verdict, !.paired_at = now]
<1>0. /\ StoreTypeOK
      /\ op[c] \in Confirming
      /\ Backed(asked, now, op[c].row)
      /\ now \in Nat /\ CodeTTL \in Nat /\ now \in Time
  BY ConfirmingClient, PairingAssumption
  DEF StoreInv, StoreTypeOK, ConfirmBacked, JudgeExpiry, Time
<1>1. /\ op' = [op EXCEPT ![c] = new]
      /\ UNCHANGED <<now, pending, pairings, crashes, asked, uses>>
  BY DEF JudgeExpiry
<1>2. new \in Confirming /\ new.row = op[c].row /\ new.step = verdict /\ new.paired_at = now
  BY <1>0 DEF Confirming
<1>3. StoreTypeOK'
  BY <1>0, <1>1, <1>2 DEF StoreTypeOK
<1>4. verdict = "valid" => Granted(asked, op[c].row.user, op[c].row.trust, now)
  <2> SUFFICES ASSUME verdict = "valid"
               PROVE  Granted(asked, op[c].row.user, op[c].row.trust, now)
    OBVIOUS
  <2>1. PICK a \in asked :
            /\ Explains(a, op[c].row.user, op[c].row.trust)
            /\ a.at <= now
            /\ op[c].row.expires = a.at + CodeTTL
    BY <1>0 DEF Backed
  <2>2. a.at \in Nat
    BY <1>0, PairingAssumption DEF StoreTypeOK, Requests, Time
  <2>3. now <= a.at + CodeTTL
    BY <1>0, <2>1, <2>2
  <2> QED BY <2>1, <2>3 DEF Granted
<1>5. ConfirmBacked'
  <2> SUFFICES ASSUME NEW d \in Clients
               PROVE  /\ op'[d] # Idle => Backed(asked', now', op'[d].row)
                      /\ op'[d].step = "valid" =>
                            Granted(asked', op'[d].row.user, op'[d].row.trust, op'[d].paired_at)
    BY <1>1 DEF ConfirmBacked, Backed, Granted
  <2>1. CASE d = c
    <3>1. op'[d] = new
      BY <2>1, <1>0, <1>1 DEF StoreTypeOK
    <3>2. /\ op'[d].row = op[c].row /\ op'[d].step = verdict /\ op'[d].paired_at = now
          /\ asked' = asked /\ now' = now
      BY <3>1, <1>1, <1>2
    <3> HIDE DEF new, verdict
    <3> QED BY <3>2, <1>0, <1>4
  <2>2. CASE d # c
    <3>1. op'[d] = op[d] /\ asked' = asked /\ now' = now
      BY <2>2, <1>0, <1>1 DEF StoreTypeOK
    <3> QED BY <3>1 DEF StoreInv, ConfirmBacked
  <2> QED BY <2>1, <2>2
<1>6. PendingBacked' /\ PairingsGranted'
  BY <1>1 DEF StoreInv, PendingBacked, PairingsGranted, Backed, Granted, Explains
<1> QED BY <1>3, <1>5, <1>6 DEF StoreInv

(* INSERT: the grant moves from the client into the table.                 *)
LEMMA InsertKeeps ==
    ASSUME StoreInv, NEW c \in Clients, InsertPairing(c)
    PROVE  StoreInv'
<1> DEFINE v == op[c].row.user
           new == [trust |-> op[c].row.trust, paired_at |-> op[c].paired_at]
<1>0. /\ StoreTypeOK
      /\ op[c] \in Confirming
      /\ Backed(asked, now, op[c].row)
      /\ Granted(asked, op[c].row.user, op[c].row.trust, op[c].paired_at)
  BY ConfirmingClient DEF StoreInv, ConfirmBacked, InsertPairing
<1>1. /\ pairings' = [pairings EXCEPT ![v] = new]
      /\ op' = [op EXCEPT ![c].step = "inserted"]
      /\ uses' = [uses EXCEPT ![op[c].code] = @ + 1]
      /\ UNCHANGED <<now, pending, crashes, asked>>
  BY DEF InsertPairing
<1>2. v \in Users /\ new \in PairingRows
  BY <1>0 DEF Confirming, PendingRows, PairingRows
<1>3. [op[c] EXCEPT !.step = "inserted"] \in Confirming
  BY <1>0 DEF Confirming
<1>4. StoreTypeOK'
  <2>1. uses' \in [Codes -> Nat]
    <3>1. op[c].code \in Codes
      BY <1>0 DEF Confirming
    <3>2. uses \in [Codes -> Nat] /\ uses[op[c].code] + 1 \in Nat
      BY <1>0, <3>1 DEF StoreTypeOK
    <3> QED BY <1>1, <3>1, <3>2
  <2>2. op' \in [Clients -> Confirming \cup {Idle}]
    BY <1>0, <1>1, <1>3 DEF StoreTypeOK
  <2>3. pairings' \in [Users -> PairingRows \cup {None}]
    BY <1>0, <1>1, <1>2 DEF StoreTypeOK
  <2> QED BY <1>0, <1>1, <2>1, <2>2, <2>3 DEF StoreTypeOK
<1>5. PairingsGranted'
  <2> SUFFICES ASSUME NEW u \in Users, pairings'[u] # None
               PROVE  Granted(asked', u, pairings'[u].trust, pairings'[u].paired_at)
    BY <1>1 DEF PairingsGranted, Granted
  <2>1. CASE u = v
    BY <2>1, <1>0, <1>1 DEF StoreTypeOK
  <2>2. CASE u # v
    BY <2>2, <1>0, <1>1 DEF StoreTypeOK, StoreInv, PairingsGranted
  <2> QED BY <2>1, <2>2
<1>6. ConfirmBacked'
  <2> SUFFICES ASSUME NEW d \in Clients
               PROVE  /\ op'[d] # Idle => Backed(asked', now', op'[d].row)
                      /\ op'[d].step = "valid" =>
                            Granted(asked', op'[d].row.user, op'[d].row.trust, op'[d].paired_at)
    BY <1>1 DEF ConfirmBacked, Backed, Granted
  <2>1. CASE d = c
    <3>1. op'[d] = [op[c] EXCEPT !.step = "inserted"]
      BY <2>1, <1>0, <1>1 DEF StoreTypeOK
    <3>2. op'[d].row = op[c].row /\ op'[d].step = "inserted"
      BY <3>1, <1>0 DEF Confirming
    <3> QED BY <3>2, <1>0, <1>1
  <2>2. CASE d # c
    <3>1. op'[d] = op[d] /\ asked' = asked /\ now' = now
      BY <2>2, <1>0, <1>1 DEF StoreTypeOK
    <3> QED BY <3>1 DEF StoreInv, ConfirmBacked
  <2> QED BY <2>1, <2>2
<1>7. PendingBacked'
  BY <1>1 DEF StoreInv, PendingBacked, Backed, Explains
<1> QED BY <1>4, <1>5, <1>6, <1>7 DEF StoreInv

(* DELETE, and a crash: a client becomes idle and rows only disappear.     *)
LEMMA EndKeeps ==
    ASSUME StoreInv, NEW c \in Clients, DeleteCode(c) \/ Crash(c)
    PROVE  StoreInv'
<1>0. /\ StoreTypeOK
      /\ op' = [op EXCEPT ![c] = Idle]
      /\ UNCHANGED <<now, pairings, asked, uses>>
  BY DEF StoreInv, DeleteCode, Crash
<1>1. /\ pending' \in [Codes -> PendingRows \cup {None}]
      /\ \A k \in Codes : pending'[k] # None => pending'[k] = pending[k]
      /\ crashes' \in 0 .. MaxCrashes
  <2>1. CASE DeleteCode(c)
    BY <2>1, <1>0 DEF DeleteCode, StoreTypeOK
  <2>2. CASE Crash(c)
    BY <2>2, <1>0, PairingAssumption DEF Crash, StoreTypeOK
  <2> QED BY <2>1, <2>2
<1>2. StoreTypeOK'
  BY <1>0, <1>1 DEF StoreTypeOK
<1>3. PendingBacked'
  BY <1>0, <1>1 DEF StoreInv, PendingBacked, Backed
<1>4. ConfirmBacked'
  <2> SUFFICES ASSUME NEW d \in Clients
               PROVE  /\ op'[d] # Idle => Backed(asked', now', op'[d].row)
                      /\ op'[d].step = "valid" =>
                            Granted(asked', op'[d].row.user, op'[d].row.trust, op'[d].paired_at)
    BY <1>0 DEF ConfirmBacked, Backed, Granted
  <2>1. CASE d = c
    BY <2>1, <1>0 DEF StoreTypeOK, Idle
  <2>2. CASE d # c
    BY <2>2, <1>0 DEF StoreInv, StoreTypeOK, ConfirmBacked
  <2> QED BY <2>1, <2>2
<1>5. PairingsGranted'
  BY <1>0 DEF StoreInv, PairingsGranted, Granted
<1> QED BY <1>2, <1>3, <1>4, <1>5 DEF StoreInv

(* revoke: a row disappears.                                               *)
LEMMA RevokeKeeps ==
    ASSUME StoreInv, NEW c \in Clients, NEW u \in Users, Revoke(c, u)
    PROVE  StoreInv'
<1>0. /\ StoreTypeOK
      /\ pairings' = [pairings EXCEPT ![u] = None]
      /\ UNCHANGED <<now, pending, op, crashes, asked, uses>>
  BY DEF StoreInv, Revoke
<1>1. StoreTypeOK'
  BY <1>0 DEF StoreTypeOK
<1>2. PairingsGranted'
  BY <1>0 DEF StoreInv, StoreTypeOK, PairingsGranted, Granted
<1>3. PendingBacked' /\ ConfirmBacked'
  BY <1>0 DEF StoreInv, PendingBacked, ConfirmBacked, Backed, Granted
<1> QED BY <1>1, <1>2, <1>3 DEF StoreInv

(* force_pair_owner: the request and the grant are the same moment.        *)
LEMMA ForceKeeps ==
    ASSUME StoreInv, NEW c \in Clients, NEW u \in Users, ForcePairOwner(c, u)
    PROVE  StoreInv'
<1> DEFINE a0 == [user |-> u, trust |-> "owner_paired", at |-> now]
           new == [trust |-> "owner_paired", paired_at |-> now]
<1>0. StoreTypeOK /\ now \in Nat /\ CodeTTL \in Nat
  BY PairingAssumption DEF StoreInv, StoreTypeOK, Time
<1>1. a0 \in Requests /\ new \in PairingRows
  BY <1>0 DEF StoreTypeOK, Requests, PairingRows, Trusts
<1>2. /\ pairings' = [pairings EXCEPT ![u] = new]
      /\ asked' = asked \cup {a0}
      /\ UNCHANGED <<now, pending, op, crashes, uses>>
  BY DEF ForcePairOwner
<1>3. StoreTypeOK'
  BY <1>0, <1>1, <1>2 DEF StoreTypeOK
<1>4. /\ \A row : Backed(asked, now, row) => Backed(asked', now', row)
      /\ \A v, trust, t : Granted(asked, v, trust, t) => Granted(asked', v, trust, t)
  <2>1. asked \subseteq asked' /\ now' \in Time /\ now <= now'
    BY <1>0, <1>2 DEF StoreTypeOK
  <2> QED BY <2>1, <1>0, BackingLasts
<1>5. Granted(asked', u, "owner_paired", now)
  <2>1. a0 \in asked' /\ a0.at <= now /\ now <= a0.at + CodeTTL
    BY <1>0, <1>2
  <2>2. a0.user = u /\ a0.trust = "owner_paired"
    OBVIOUS
  <2> QED BY <2>1, <2>2 DEF Granted, Explains
<1>6. PairingsGranted'
  <2> SUFFICES ASSUME NEW v \in Users, pairings'[v] # None
               PROVE  Granted(asked', v, pairings'[v].trust, pairings'[v].paired_at)
    BY DEF PairingsGranted
  <2>1. CASE v = u
    BY <2>1, <1>0, <1>2, <1>5 DEF StoreTypeOK
  <2>2. CASE v # u
    BY <2>2, <1>0, <1>2, <1>4 DEF StoreTypeOK, StoreInv, PairingsGranted
  <2> QED BY <2>1, <2>2
<1>7. PendingBacked' /\ ConfirmBacked'
  BY <1>2, <1>4 DEF StoreInv, PendingBacked, ConfirmBacked
<1> QED BY <1>3, <1>6, <1>7 DEF StoreInv

(* The clock advances and what was backed stays backed.                    *)
LEMMA TickKeeps == ASSUME StoreInv, Tick PROVE StoreInv'
<1>0. /\ StoreTypeOK
      /\ now' \in Time /\ now <= now'
      /\ UNCHANGED <<pending, pairings, op, crashes, asked, uses>>
  BY PairingAssumption DEF StoreInv, StoreTypeOK, Tick, Time
<1>1. StoreTypeOK'
  BY <1>0 DEF StoreTypeOK
<1>2. /\ \A row : Backed(asked, now, row) => Backed(asked', now', row)
      /\ \A v, trust, t : Granted(asked, v, trust, t) => Granted(asked', v, trust, t)
  BY <1>0, BackingLasts
<1>3. PendingBacked' /\ ConfirmBacked' /\ PairingsGranted'
  BY <1>0, <1>2 DEF StoreInv, PendingBacked, ConfirmBacked, PairingsGranted
<1> QED BY <1>1, <1>3 DEF StoreInv

(* Every statement of every client, and a step that leaves the store alone. *)
LEMMA OperateKeeps ==
    ASSUME StoreInv, NEW c \in Clients, Operate(c) \/ Crash(c)
    PROVE  StoreInv'
BY IssueKeeps, SelectKeeps, JudgeKeeps, InsertKeeps, EndKeeps, RevokeKeeps, ForceKeeps
DEF Operate

(* A step that leaves the store alone keeps its invariant.                 *)
LEMMA StutterKeeps == ASSUME StoreInv, UNCHANGED storeVars PROVE StoreInv'
BY DEF storeVars, StoreInv, StoreTypeOK, PendingBacked, ConfirmBacked, PairingsGranted,
       Backed, Granted

(* The invariant of the store, by induction over its steps.                *)
LEMMA StoreInvariant == StoreSpec => []StoreInv
<1>1. StoreInv /\ [StoreNext]_storeVars => StoreInv'
  BY OperateKeeps, TickKeeps, StutterKeeps DEF StoreNext
<1> QED BY StoreInitHolds, <1>1, PTL DEF StoreSpec

(* The tables and the operations under way keep their types.               *)
THEOREM StoreTypeCorrect == StoreSpec => []StoreTypeOK
<1>1. StoreInv => StoreTypeOK
  BY DEF StoreInv
<1> QED BY StoreInvariant, <1>1, PTL

(* For any number of processes, users, codes and crashes, every row of the *)
(* trust table answers a request for that user and that trust level, made  *)
(* no more than CODE_TTL_SECONDS before the row was granted.               *)
THEOREM PairingsAlwaysAsked == StoreSpec => []EveryPairingAsked
<1>1. StoreInv => EveryPairingAsked
  BY DEF StoreInv, PairingsGranted, Granted, EveryPairingAsked
<1> QED BY StoreInvariant, <1>1, PTL

-----------------------------------------------------------------------------
(* How often one code pairs.  While its row stands, nobody has deleted it  *)
(* since it was issued: every use is by a client that is still about to,   *)
(* or that crashed instead.  Once the row is gone, only those that read it *)
(* before can add to the uses.                                             *)
Holding(k) == {c \in Clients : op[c].step \in {"read", "valid"} /\ op[c].code = k}
Deleting(k) == {c \in Clients : op[c].step = "inserted" /\ op[c].code = k}

UsesOf(k) ==
    IF pending[k] # None
    THEN uses[k] <= Cardinality(Deleting(k)) + crashes
    ELSE uses[k] + Cardinality(Holding(k)) <= Cardinality(Clients) + crashes

UseInv == \A k \in Codes : UsesOf(k)

(* Nobody is in both sets, and there are finitely many clients.            *)
LEMMA ClientSets ==
    ASSUME NEW k
    PROVE  /\ IsFiniteSet(Clients) /\ Cardinality(Clients) \in Nat
           /\ IsFiniteSet(Holding(k)) /\ Cardinality(Holding(k)) \in Nat
           /\ IsFiniteSet(Deleting(k)) /\ Cardinality(Deleting(k)) \in Nat
           /\ Cardinality(Holding(k)) <= Cardinality(Clients)
           /\ Cardinality(Holding(k)) + Cardinality(Deleting(k)) <= Cardinality(Clients)
<1>1. IsFiniteSet(Clients)
  BY PairingAssumption
<1>2. /\ Holding(k) \in SUBSET Clients /\ Deleting(k) \in SUBSET Clients
      /\ Holding(k) \cup Deleting(k) \in SUBSET Clients
      /\ Holding(k) \cap Deleting(k) = {}
  BY DEF Holding, Deleting
<1>3. /\ IsFiniteSet(Holding(k)) /\ IsFiniteSet(Deleting(k))
      /\ Cardinality(Holding(k) \cup Deleting(k)) <= Cardinality(Clients)
      /\ Cardinality(Holding(k)) <= Cardinality(Clients)
  BY <1>1, <1>2, FS_Subset
<1>4. Cardinality(Holding(k) \cup Deleting(k))
        = Cardinality(Holding(k)) + Cardinality(Deleting(k)) - Cardinality({})
  BY <1>2, <1>3, FS_Union
<1>5. Cardinality({}) = 0
  BY FS_EmptySet
<1>6. /\ Cardinality(Clients) \in Nat /\ Cardinality(Holding(k)) \in Nat
      /\ Cardinality(Deleting(k)) \in Nat
  BY <1>1, <1>3, FS_CardinalityType
<1> QED BY <1>1, <1>3, <1>4, <1>5, <1>6

(* Taking one away takes one member at most.                               *)
LEMMA OneAway ==
    ASSUME NEW S, IsFiniteSet(S), NEW c
    PROVE  /\ Cardinality(S \ {c}) \in Nat
           /\ Cardinality(S \ {c}) >= Cardinality(S) - 1
<1>1. Cardinality(S) \in Nat
  BY FS_CardinalityType
<1>2. CASE c \in S
  <2>1. IsFiniteSet(S \ {c}) /\ Cardinality(S \ {c}) = Cardinality(S) - 1
    BY <1>2, FS_RemoveElement
  <2>2. Cardinality(S \ {c}) \in Nat
    BY <2>1, FS_CardinalityType
  <2> QED BY <1>1, <2>1, <2>2
<1>3. CASE c \notin S
  <2>1. S \ {c} = S
    BY <1>3
  <2> QED BY <1>1, <2>1
<1> QED BY <1>2, <1>3

(* Both cases of the strengthening give the bound.                         *)
LEMMA UseBound == StoreTypeOK /\ UseInv => CodeUseBounded
<1> SUFFICES ASSUME StoreTypeOK, UseInv, NEW k \in Codes
             PROVE  uses[k] <= Cardinality(Clients) + crashes
  BY DEF CodeUseBounded
<1>1. uses[k] \in Nat /\ crashes \in Nat
  BY PairingAssumption DEF StoreTypeOK
<1> QED BY <1>1, ClientSets DEF UseInv, UsesOf

(* A step after which a code is held by nobody new and that changes neither*)
(* its row nor its uses.                                                   *)
LEMMA UsesKept ==
    ASSUME StoreTypeOK, StoreTypeOK', NEW k \in Codes, UsesOf(k),
           uses'[k] = uses[k], pending'[k] = pending[k], crashes' = crashes,
           pending[k] # None => Deleting(k)' = Deleting(k),
           pending[k] = None => Holding(k)' \subseteq Holding(k)
    PROVE  UsesOf(k)'
<1>1. uses[k] \in Nat /\ crashes \in Nat
  BY PairingAssumption DEF StoreTypeOK
<1>2. CASE pending[k] # None
  BY <1>2 DEF UsesOf
<1>3. CASE pending[k] = None
  <2>1. Cardinality(Holding(k)') <= Cardinality(Holding(k)) /\ Cardinality(Holding(k)') \in Nat
    BY <1>3, ClientSets, FS_Subset, FS_CardinalityType
  <2> QED BY <1>1, <1>3, <2>1, ClientSets DEF UsesOf
<1> QED BY <1>2, <1>3

(* One step of one client.                                                 *)
LEMMA OperateUses ==
    ASSUME StoreTypeOK, StoreTypeOK', UseInv, NEW c \in Clients, Operate(c) \/ Crash(c)
    PROVE  UseInv'
<1> SUFFICES ASSUME NEW k \in Codes PROVE UsesOf(k)'
  BY DEF UseInv
<1>a. /\ UsesOf(k) /\ uses[k] \in Nat /\ crashes \in Nat
      /\ Cardinality(Holding(k)) \in Nat /\ Cardinality(Deleting(k)) \in Nat
      /\ Cardinality(Clients) \in Nat
  BY ClientSets, PairingAssumption DEF UseInv, StoreTypeOK
<1>b. /\ op \in [Clients -> Confirming \cup {Idle}] /\ pending \in [Codes -> PendingRows \cup {None}]
      /\ uses \in [Codes -> Nat]
  BY DEF StoreTypeOK
<1>c. ASSUME UNCHANGED op PROVE Holding(k)' = Holding(k) /\ Deleting(k)' = Deleting(k)
  BY <1>c DEF Holding, Deleting
<1>d. ASSUME NEW j, op[c].code # j, NEW x, op' = [op EXCEPT ![c] = x], x.code # j
      PROVE  Holding(j)' = Holding(j) /\ Deleting(j)' = Deleting(j)
  BY <1>b, <1>d DEF Holding, Deleting
<1>1. ASSUME NEW j \in Codes, NEW u \in Users, NEW t \in Trusts, IssueCode(c, j, u, t)
      PROVE  UsesOf(k)'
  <2>1. UNCHANGED <<op, crashes>>
    BY <1>1 DEF IssueCode
  <2>2. CASE k = j
    <3>1. uses'[k] = 0 /\ pending'[k] # None
      <4>1. [user |-> u, trust |-> t, expires |-> now + CodeTTL] \in PendingRows
        BY PairingAssumption DEF PendingRows, StoreTypeOK, Time
      <4> QED BY <1>1, <2>2, <1>b, <4>1, NoneAssumption DEF IssueCode
    <3> QED BY <1>a, <1>c, <2>1, <3>1 DEF UsesOf
  <2>3. CASE k # j
    <3>1. uses'[k] = uses[k] /\ pending'[k] = pending[k]
      BY <1>1, <2>3, <1>b DEF IssueCode
    <3> QED BY <1>a, <1>c, <2>1, <3>1, UsesKept
  <2> QED BY <2>2, <2>3
<1>2. ASSUME NEW j \in Codes, SelectCode(c, j) PROVE UsesOf(k)'
  <2>1. /\ UNCHANGED <<pending, crashes, uses>>
        /\ op[c] = Idle /\ pending[j] # None
        /\ op' = [op EXCEPT ![c] =
                    [step |-> "read", code |-> j, row |-> pending[j], paired_at |-> 0]]
    BY <1>2 DEF SelectCode, IsIdle
  <2>2. Deleting(k)' = Deleting(k)
    BY <1>b, <2>1 DEF Deleting, Idle
  <2>3. pending[k] = None => Holding(k)' = Holding(k)
    BY <1>b, <2>1 DEF Holding, Idle
  <2> QED BY <1>a, <2>1, <2>2, <2>3, UsesKept
<1>3. CASE JudgeExpiry(c)
  <2>1. /\ UNCHANGED <<pending, crashes, uses>>
        /\ op[c].step = "read"
        /\ op' = [op EXCEPT ![c].step =
                    IF op[c].row.expires < now THEN "expired" ELSE "valid",
                            ![c].paired_at = now]
    BY <1>3 DEF JudgeExpiry
  <2>2. /\ op'[c].step \in {"expired", "valid"} /\ op'[c].code = op[c].code
        /\ \A d \in Clients \ {c} : op'[d] = op[d]
    <3>1. op[c] \in Confirming
      BY <2>1, ConfirmingClient
    <3> QED BY <1>b, <2>1, <3>1 DEF Confirming
  <2>3. Deleting(k)' = Deleting(k) /\ Holding(k)' \subseteq Holding(k)
    BY <2>1, <2>2 DEF Deleting, Holding
  <2> QED BY <1>a, <2>1, <2>3, UsesKept
<1>4. CASE InsertPairing(c)
  <2>1. /\ UNCHANGED <<pending, crashes>>
        /\ op[c].step = "valid"
        /\ op' = [op EXCEPT ![c].step = "inserted"]
        /\ uses' = [uses EXCEPT ![op[c].code] = @ + 1]
        /\ op[c] \in Confirming
    BY <1>4, ConfirmingClient DEF InsertPairing
  <2>2. /\ op'[c].step = "inserted" /\ op'[c].code = op[c].code
        /\ \A d \in Clients \ {c} : op'[d] = op[d]
    BY <1>b, <2>1 DEF Confirming
  <2>3. CASE op[c].code # k
    <3>1. Deleting(k)' = Deleting(k) /\ Holding(k)' = Holding(k)
      BY <2>2, <2>3 DEF Deleting, Holding
    <3>2. uses'[k] = uses[k]
      BY <1>b, <2>1, <2>3
    <3> QED BY <1>a, <2>1, <3>1, <3>2, UsesKept
  <2>4. CASE op[c].code = k
    <3>1. Deleting(k)' = Deleting(k) \cup {c} /\ Holding(k)' = Holding(k) \ {c}
      BY <2>2, <2>4 DEF Deleting, Holding
    <3>2. c \notin Deleting(k) /\ c \in Holding(k)
      BY <2>1, <2>4 DEF Deleting, Holding
    <3>3. /\ Cardinality(Deleting(k)') = Cardinality(Deleting(k)) + 1
          /\ Cardinality(Holding(k)') = Cardinality(Holding(k)) - 1
      <4>1. IsFiniteSet(Deleting(k)) /\ IsFiniteSet(Holding(k))
        BY ClientSets
      <4>2. Cardinality(Deleting(k) \cup {c}) = Cardinality(Deleting(k)) + 1
        BY <3>2, <4>1, FS_AddElement
      <4>3. Cardinality(Holding(k) \ {c}) = Cardinality(Holding(k)) - 1
        BY <3>2, <4>1, FS_RemoveElement
      <4> QED BY <3>1, <4>2, <4>3
    <3>4. uses'[k] = uses[k] + 1
      BY <1>b, <2>1, <2>4
    <3> QED BY <1>a, <2>1, <3>3, <3>4 DEF UsesOf
  <2> QED BY <2>3, <2>4
<1>5. CASE DeleteCode(c)
  <2>1. /\ UNCHANGED <<crashes, uses>>
        /\ op[c].step \in {"expired", "inserted"}
        /\ op' = [op EXCEPT ![c] = Idle]
        /\ pending' = [pending EXCEPT ![op[c].code] = None]
    BY <1>5 DEF DeleteCode
  <2>2. op'[c] = Idle /\ \A d \in Clients \ {c} : op'[d] = op[d]
    BY <1>b, <2>1
  <2>3. Holding(k)' = Holding(k)
    BY <2>1, <2>2 DEF Holding, Idle
  <2>4. CASE op[c].code # k
    <3>1. Deleting(k)' = Deleting(k) /\ pending'[k] = pending[k]
      BY <1>b, <2>1, <2>2, <2>4 DEF Deleting, Idle
    <3> QED BY <1>a, <2>1, <2>3, <3>1, UsesKept
  <2>5. CASE op[c].code = k
    <3>1. pending'[k] = None
      BY <1>b, <2>1, <2>5
    <3> QED BY <1>a, <2>1, <2>3, <3>1, ClientSets DEF UsesOf
  <2> QED BY <2>4, <2>5
<1>6. ASSUME NEW u \in Users, Revoke(c, u) \/ ForcePairOwner(c, u) PROVE UsesOf(k)'
  BY <1>6, <1>a, <1>c, UsesKept DEF Revoke, ForcePairOwner
<1>7. CASE Crash(c)
  <2>1. /\ UNCHANGED <<pending, uses>>
        /\ op' = [op EXCEPT ![c] = Idle] /\ crashes' = crashes + 1
    BY <1>7 DEF Crash
  <2>2. op'[c] = Idle /\ \A d \in Clients \ {c} : op'[d] = op[d]
    BY <1>b, <2>1
  <2>3. /\ Holding(k)' \subseteq Holding(k)
        /\ Deleting(k)' = Deleting(k) \ {c}
    BY <2>2 DEF Holding, Deleting, Idle
  <2>4. /\ IsFiniteSet(Holding(k)) /\ IsFiniteSet(Deleting(k))
        /\ Cardinality(Holding(k)) \in Nat /\ Cardinality(Deleting(k)) \in Nat
        /\ Cardinality(Clients) \in Nat
    BY ClientSets
  <2>5. /\ IsFiniteSet(Holding(k)')
        /\ Cardinality(Holding(k)') <= Cardinality(Holding(k))
    BY <2>3, <2>4, FS_Subset
  <2>6. Cardinality(Holding(k)') \in Nat
    BY <2>5, FS_CardinalityType
  <2>7. /\ Cardinality(Deleting(k)') \in Nat
        /\ Cardinality(Deleting(k)') >= Cardinality(Deleting(k)) - 1
    BY <2>3, <2>4, OneAway
  <2> QED BY <1>a, <2>1, <2>4, <2>5, <2>6, <2>7 DEF UsesOf
<1> QED BY <1>1, <1>2, <1>3, <1>4, <1>5, <1>6, <1>7 DEF Operate

(* However many processes race on a code, whichever of them crash and      *)
(* however often the generator draws it again, it pairs at most once per   *)
(* process and once more per crash (pairing.py's SELECT, INSERT, DELETE).  *)
THEOREM CodeUseAlwaysBounded == StoreSpec => []CodeUseBounded
<1>1. StoreInit => UseInv
  <2> SUFFICES ASSUME StoreInit, NEW k \in Codes PROVE UsesOf(k)
    BY DEF UseInv
  <2>1. /\ uses[k] = 0 /\ crashes = 0 /\ pending[k] = None
    BY DEF StoreInit
  <2> QED BY <2>1, ClientSets DEF UsesOf
<1>2. StoreTypeOK /\ StoreTypeOK' /\ UseInv /\ [StoreNext]_storeVars => UseInv'
  <2> SUFFICES ASSUME StoreTypeOK, StoreTypeOK', UseInv, [StoreNext]_storeVars PROVE UseInv'
    OBVIOUS
  <2>1. CASE \E c \in Clients : Operate(c) \/ Crash(c)
    BY <2>1, OperateUses
  <2>2. ASSUME UNCHANGED <<pending, op, crashes, uses>> PROVE UseInv'
    BY <2>2 DEF UseInv, UsesOf, Holding, Deleting
  <2> QED BY <2>1, <2>2 DEF StoreNext, Tick, storeVars
<1>3. StoreSpec => []UseInv
  BY <1>1, <1>2, StoreTypeCorrect, PTL DEF StoreSpec
<1> QED BY <1>3, StoreTypeCorrect, UseBound, PTL

-----------------------------------------------------------------------------
(* The doors.                                                              *)

GateTypes ==
    /\ step \in [Doors -> {"closed", "ready", "looked", "bridge", "send"}]
    /\ env \in [Doors -> EnvelopeSet \cup {None}]
    /\ owners \in [Sockets -> SUBSET Users]
    /\ audit \in [Events -> Nat]
    /\ received \in 0 .. MaxMessages /\ bridged \in Nat
    /\ \A d \in Doors : env[d] = None <=> step[d] \in {"closed", "ready"}

(* From the moment its sender is looked up a message carries a trust that  *)
(* was asked for.                                                          *)
Labelled ==
    \A d \in Doors : step[d] \notin {"closed", "ready"} /\ env[d].trust # "untrusted" =>
        \E a \in asked : Explains(a, env[d].user, env[d].trust)

GateInv == StoreInv /\ GateTypes /\ Labelled /\ ClaimNeverRelaxes /\ EveryMessageAudited

-----------------------------------------------------------------------------
(* The doors that are judging form a finite set.                           *)
LEMMA JudgedFinite == IsFiniteSet(Judged) /\ Cardinality(Judged) \in Nat
<1>1. Judged \in SUBSET Doors /\ IsFiniteSet(Doors)
  BY GateAssumption DEF Judged, Doors
<1> QED BY <1>1, FS_Subset, FS_CardinalityType

(* Everything is closed or empty at the start.                             *)
LEMMA GateInitHolds == Init => GateInv
<1> SUFFICES ASSUME Init PROVE GateInv
  OBVIOUS
<1>1. StoreInv
  BY StoreInitHolds DEF Init
<1>2. GateTypes /\ Labelled /\ ClaimNeverRelaxes
  BY GateAssumption DEF Init, GateTypes, Labelled, ClaimNeverRelaxes
<1>3. EveryMessageAudited
  <2>1. Judged = {}
    BY DEF Init, Judged
  <2> QED BY <2>1, FS_EmptySet DEF Init, EveryMessageAudited, Events
<1> QED BY <1>1, <1>2, <1>3 DEF GateInv

(* No statement of the store withdraws a request.                          *)
LEMMA AskedGrows == ASSUME StoreNext PROVE asked \subseteq asked'
BY DEF StoreNext, Operate, IssueCode, SelectCode, JudgeExpiry, InsertPairing, DeleteCode,
       Revoke, ForcePairOwner, Crash, Tick

(* The store moves on under the doors.                                     *)
LEMMA StoreStepKeeps == ASSUME GateInv, StoreStep PROVE GateInv'
<1>1. StoreNext /\ UNCHANGED gateVars
  BY GateAssumption DEF StoreStep, StoreNext
<1>2. StoreInv'
  BY <1>1, OperateKeeps, TickKeeps DEF GateInv, StoreNext
<1>3. GateTypes' /\ ClaimNeverRelaxes' /\ EveryMessageAudited'
  BY <1>1 DEF gateVars, GateInv, GateTypes, ClaimNeverRelaxes, EveryMessageAudited, Judged
<1>4. Labelled'
  BY <1>1, AskedGrows DEF gateVars, GateInv, Labelled
<1> QED BY <1>2, <1>3, <1>4 DEF GateInv

(* A socket opens or closes.                                               *)
LEMMA SocketKeeps ==
    ASSUME GateInv, NEW s \in Sockets, Connect(s) \/ Disconnect(s)
    PROVE  GateInv'
<1>1. /\ s \in Doors
      /\ UNCHANGED <<storeVars, env, audit, received, bridged>>
      /\ step[s] \in {"closed", "ready"}
      /\ \E x \in {"closed", "ready"} : step' = [step EXCEPT ![s] = x]
  BY DEF Connect, Disconnect, Doors
<1>2. StoreInv' /\ asked' = asked
  BY <1>1, StutterKeeps DEF GateInv, storeVars
<1>3. owners' \in [Sockets -> SUBSET Users]
  BY DEF GateInv, GateTypes, Connect, Disconnect, OwnersNow
<1>4. GateTypes'
  BY <1>1, <1>3 DEF GateInv, GateTypes
<1>5. Labelled' /\ ClaimNeverRelaxes'
  BY <1>1, <1>2 DEF GateInv, GateTypes, Labelled, ClaimNeverRelaxes
<1>6. Judged' = Judged
  BY <1>1 DEF GateInv, GateTypes, Judged
<1>7. EveryMessageAudited'
  BY <1>1, <1>6 DEF GateInv, EveryMessageAudited
<1> QED BY <1>2, <1>4, <1>5, <1>7 DEF GateInv

(* A message enters: its trust is the store's, and the store's was asked   *)
(* for.                                                                    *)
LEMMA ReceiveKeeps ==
    ASSUME GateInv, NEW d \in Doors, NEW e \in Envelopes, Receive(d, e)
    PROVE  GateInv'
<1>1. /\ step' = [step EXCEPT ![d] = "looked"]
      /\ env' = [env EXCEPT ![d] = VerifiedIdentity(e)]
      /\ step[d] = "ready" /\ received < MaxMessages /\ received' = received + 1
      /\ UNCHANGED <<storeVars, owners, audit, bridged>>
  BY DEF Receive
<1>2. StoreInv' /\ asked' = asked
  BY <1>1, StutterKeeps DEF GateInv, storeVars
<1>3. e \in EnvelopeSet /\ e.user \in Users
  BY GateAssumption DEF EnvelopeSet
<1>4. /\ Lookup(e.user) \in AnyTrust
      /\ Lookup(e.user) # "untrusted" =>
            \E a \in asked : Explains(a, e.user, Lookup(e.user))
  BY <1>3 DEF GateInv, StoreInv, StoreTypeOK, PairingsGranted, Granted, Lookup,
              PairingRows, AnyTrust
<1>5. /\ VerifiedIdentity(e) \in EnvelopeSet
      /\ VerifiedIdentity(e).trust = Lookup(e.user)
      /\ VerifiedIdentity(e).user = e.user
  BY <1>3, <1>4 DEF VerifiedIdentity, EnvelopeSet
<1>6. GateTypes'
  <2>1. VerifiedIdentity(e) # None
    BY <1>5, GateAssumption
  <2>2. received' \in 0 .. MaxMessages
    BY <1>1, GateAssumption DEF GateInv, GateTypes
  <2>3. /\ step' \in [Doors -> {"closed", "ready", "looked", "bridge", "send"}]
        /\ env' \in [Doors -> EnvelopeSet \cup {None}]
    BY <1>1, <1>5 DEF GateInv, GateTypes
  <2>4. \A x \in Doors : env'[x] = None <=> step'[x] \in {"closed", "ready"}
    BY <1>1, <2>1 DEF GateInv, GateTypes
  <2> QED BY <1>1, <2>2, <2>3, <2>4 DEF GateInv, GateTypes
<1>7. Labelled'
  <2> SUFFICES ASSUME NEW x \in Doors, step'[x] \notin {"closed", "ready"},
                      env'[x].trust # "untrusted"
               PROVE  \E a \in asked : Explains(a, env'[x].user, env'[x].trust)
    BY <1>2 DEF Labelled
  <2>1. CASE x = d
    BY <2>1, <1>1, <1>4, <1>5 DEF GateInv, GateTypes
  <2>2. CASE x # d
    BY <2>2, <1>1 DEF GateInv, GateTypes, Labelled
  <2> QED BY <2>1, <2>2
<1>8. ClaimNeverRelaxes'
  BY <1>1 DEF GateInv, GateTypes, ClaimNeverRelaxes
<1>9. EveryMessageAudited'
  <2>1. Judged' = Judged \cup {d} /\ d \notin Judged
    BY <1>1 DEF GateInv, GateTypes, Judged
  <2>2. Cardinality(Judged') = Cardinality(Judged) + 1
    BY <2>1, JudgedFinite, FS_AddElement
  <2>3. /\ audit["allowlist_drop"] \in Nat /\ audit["rate_limit"] \in Nat
        /\ audit["inbound_message"] \in Nat /\ received \in Nat
    BY GateAssumption DEF GateInv, GateTypes, Events
  <2> QED BY <1>1, <2>2, <2>3, JudgedFinite DEF GateInv, EveryMessageAudited
<1> QED BY <1>2, <1>6, <1>7, <1>8, <1>9 DEF GateInv

(* One row of fate is written, whatever the verdict.                       *)
LEMMA AuditedCounts ==
    ASSUME GateTypes, NEW e, NEW event \in {"allowlist_drop", "rate_limit", "inbound_message"},
           audit' = Audited(e, event)
    PROVE  /\ audit' \in [Events -> Nat]
           /\ \A x \in {"allowlist_drop", "rate_limit", "inbound_message"} :
                 audit'[x] = audit[x] + (IF x = event THEN 1 ELSE 0)
BY DEF GateTypes, Events, Audited

(* A message is judged: dropped, limited or sent to the agent.             *)
LEMMA AdmitKeeps == ASSUME GateInv, NEW d \in Doors, Admit(d) PROVE GateInv'
<1>1. PICK event \in {"allowlist_drop", "rate_limit", "inbound_message"} :
        /\ audit' = Audited(env[d], event)
        /\ event = "inbound_message" =>
              /\ Allowed(env[d], OwnerIds(d))
              /\ step' = [step EXCEPT ![d] = "bridge"]
              /\ bridged' = bridged + 1 /\ env' = env
        /\ event # "inbound_message" => Release(d)
  BY DEF Admit
<1>2. step[d] = "looked" /\ UNCHANGED <<storeVars, owners, received>>
  BY DEF Admit
<1>3. StoreInv' /\ asked' = asked
  BY <1>2, StutterKeeps DEF GateInv, storeVars
<1>4. /\ audit' \in [Events -> Nat]
      /\ \A x \in {"allowlist_drop", "rate_limit", "inbound_message"} :
            audit'[x] = audit[x] + (IF x = event THEN 1 ELSE 0)
  BY <1>1, AuditedCounts DEF GateInv
<1>5. /\ \A x \in Doors \ {d} : step'[x] = step[x] /\ env'[x] = env[x]
      /\ step'[d] = IF event = "inbound_message" THEN "bridge" ELSE "ready"
      /\ env'[d] = IF event = "inbound_message" THEN env[d] ELSE None
      /\ step' \in [Doors -> {"closed", "ready", "looked", "bridge", "send"}]
      /\ env' \in [Doors -> EnvelopeSet \cup {None}]
  BY <1>1 DEF GateInv, GateTypes, Release
<1>6. GateTypes'
  <2>1. bridged' \in Nat
    BY <1>1 DEF GateInv, GateTypes, Release
  <2>2. \A x \in Doors : env'[x] = None <=> step'[x] \in {"closed", "ready"}
    BY <1>2, <1>5 DEF GateInv, GateTypes
  <2> QED BY <1>2, <1>4, <1>5, <2>1, <2>2 DEF GateInv, GateTypes
<1>7. Labelled'
  BY <1>2, <1>3, <1>5 DEF GateInv, Labelled
<1>8. ClaimNeverRelaxes'
  <2>1. event = "inbound_message" /\ IsPublic /\ MentionOnly /\ HasTokens => env[d].token
    BY <1>1 DEF Allowed, Public, WasMentioned
  <2> QED BY <1>5, <2>1 DEF GateInv, ClaimNeverRelaxes
<1>9. EveryMessageAudited'
  <2>1. Judged' = Judged \ {d} /\ d \in Judged
    BY <1>2, <1>5 DEF Judged
  <2>2. Cardinality(Judged') = Cardinality(Judged) - 1
    BY <2>1, JudgedFinite, FS_RemoveElement
  <2>3. /\ audit["allowlist_drop"] \in Nat /\ audit["rate_limit"] \in Nat
        /\ audit["inbound_message"] \in Nat /\ received \in Nat /\ bridged \in Nat
    BY GateAssumption DEF GateInv, GateTypes, Events
  <2>4. bridged' = bridged + (IF event = "inbound_message" THEN 1 ELSE 0)
    BY <1>1, <2>3 DEF Release
  <2>5. CASE event = "inbound_message"
    BY <2>5, <1>2, <1>4, <2>2, <2>3, <2>4, JudgedFinite DEF GateInv, EveryMessageAudited
  <2>6. CASE event # "inbound_message"
    BY <2>6, <1>1, <1>2, <1>4, <2>2, <2>3, <2>4, JudgedFinite DEF GateInv, EveryMessageAudited
  <2> QED BY <2>5, <2>6
<1> QED BY <1>3, <1>6, <1>7, <1>8, <1>9 DEF GateInv

(* After the bridge: a reply, an error, or the adapter's delivery.         *)
LEMMA AfterBridgeKeeps ==
    ASSUME GateInv, NEW d \in Doors, Answered(d) \/ BridgeError(d) \/ Sent(d)
    PROVE  GateInv'
<1>1. /\ step[d] \in {"bridge", "send"}
      /\ UNCHANGED <<storeVars, owners, received, bridged>>
      /\ \/ Release(d)
         \/ step[d] = "bridge" /\ step' = [step EXCEPT ![d] = "send"] /\ env' = env
      /\ audit' \in {audit, [audit EXCEPT !["agent_bridge_error"] = @ + 1]}
  BY DEF Answered, BridgeError, Sent, Release
<1>2. StoreInv' /\ asked' = asked
  BY <1>1, StutterKeeps DEF GateInv, storeVars
<1>3. /\ audit' \in [Events -> Nat]
      /\ \A x \in {"allowlist_drop", "rate_limit", "inbound_message"} : audit'[x] = audit[x]
  BY <1>1 DEF GateInv, GateTypes, Events
<1>4. /\ \A x \in Doors \ {d} : step'[x] = step[x] /\ env'[x] = env[x]
      /\ \/ step'[d] = "ready" /\ env'[d] = None
         \/ step'[d] = "send" /\ env'[d] = env[d]
      /\ step' \in [Doors -> {"closed", "ready", "looked", "bridge", "send"}]
      /\ env' \in [Doors -> EnvelopeSet \cup {None}]
  BY <1>1 DEF GateInv, GateTypes, Release
<1>5. GateTypes'
  <2>1. \A x \in Doors : env'[x] = None <=> step'[x] \in {"closed", "ready"}
    BY <1>1, <1>4 DEF GateInv, GateTypes
  <2> QED BY <1>1, <1>3, <1>4, <2>1 DEF GateInv, GateTypes
<1>6. Labelled' /\ ClaimNeverRelaxes'
  BY <1>1, <1>2, <1>4 DEF GateInv, Labelled, ClaimNeverRelaxes
<1>7. Judged' = Judged
  BY <1>1, <1>4 DEF Judged
<1>8. EveryMessageAudited'
  BY <1>1, <1>3, <1>7 DEF GateInv, EveryMessageAudited
<1> QED BY <1>2, <1>5, <1>6, <1>8 DEF GateInv

(* Every step keeps the invariant.                                         *)
LEMMA GateInvariant == Spec => []GateInv
<1>1. GateInv /\ Next => GateInv'
  BY StoreStepKeeps, SocketKeeps, ReceiveKeeps, AdmitKeeps, AfterBridgeKeeps DEF Next, Handle
<1>2. GateInv /\ UNCHANGED vars => GateInv'
  <2> SUFFICES ASSUME GateInv, UNCHANGED vars PROVE GateInv'
    OBVIOUS
  <2>1. StoreInv' /\ asked' = asked
    BY StutterKeeps DEF GateInv, vars, storeVars
  <2> QED BY <2>1 DEF vars, gateVars, GateInv, GateTypes, Labelled, ClaimNeverRelaxes,
                      EveryMessageAudited, Judged
<1> QED BY GateInitHolds, <1>1, <1>2, PTL DEF Spec

(* The gate's and the store's variables keep their types.                  *)
THEOREM GateTypeCorrect == Spec => []TypeOK
<1>1. GateInv => TypeOK
  BY DEF GateInv, StoreInv, GateTypes, TypeOK
<1> QED BY GateInvariant, <1>1, PTL

(* The trust that reaches the agent with a message was asked for, for its  *)
(* sender and at that level, whatever the message claims.                  *)
THEOREM TrustAlwaysFromStore == Spec => []TrustFromStore
<1>1. GateInv => TrustFromStore
  BY DEF GateInv, Labelled, TrustFromStore
<1> QED BY GateInvariant, <1>1, PTL

(* Neither claim of a message relaxes the mention gate.                    *)
THEOREM ClaimsNeverRelax == Spec => []ClaimNeverRelaxes
<1>1. GateInv => ClaimNeverRelaxes
  BY DEF GateInv
<1> QED BY GateInvariant, <1>1, PTL

(* Every message leaves one row of its fate in the audit log.              *)
THEOREM EveryMessageIsAudited == Spec => []EveryMessageAudited
<1>1. GateInv => EveryMessageAudited
  BY DEF GateInv
<1> QED BY GateInvariant, <1>1, PTL

=============================================================================
