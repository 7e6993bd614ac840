---------------------------- MODULE GeminiCache ----------------------------
(***************************************************************************)
(* The prompt cache of glc/cache/gemini.py: the name and the expiry of the *)
(* cached content the service holds for a (model, system text) key.  The   *)
(* lock covers the look-up and the final write, not the minting request    *)
(* between them, so callers can mint the same key at the same time.        *)
(***************************************************************************)
EXTENDS Integers, FiniteSets

CONSTANTS
    GeminiCallers,
    Keys,
    NoKey,
    MintTtl,        \* ttl: 300 s in the code
    Margin,         \* 5 s in the code: an entry this close to its end is dropped
    MintTimeout,    \* the HTTP client's timeout, 60 s in the code
    GeminiMaxTime,  \* bounds: the clock and the contents ever minted
    MaxMints

ASSUME GeminiAssumption ==
    /\ NoKey \notin Keys
    /\ {MintTtl, Margin, MintTimeout, GeminiMaxTime, MaxMints} \subseteq Nat
    /\ MintTimeout < MintTtl

VARIABLES
    gNow,
    gStore,     \* _store: key -> the name and expiry it holds
    minting,    \* caller -> the key it mints and the time it looked it up
    contents,   \* the service: every content minted, with its own expiry
    handed,     \* history: the latest name returned, when, from the store or not
    paid        \* history: the names whose creation tokens were reported

geminiVars == <<gNow, gStore, minting, contents, handed, paid>>

Waiting == [key |-> NoKey, now |-> 0]

Contents == [name: 1 .. MaxMints, key: Keys, until: Nat]

GeminiTypeOK ==
    /\ gNow \in Nat
    /\ DOMAIN gStore \subseteq Keys
    /\ \A k \in DOMAIN gStore : gStore[k] \in [name: 1 .. MaxMints, exp: Nat]
    /\ minting \in [GeminiCallers -> [key: Keys \cup {NoKey}, now: Nat]]
    /\ contents \subseteq Contents
    /\ handed \subseteq [name: 1 .. MaxMints, at: Nat]

GeminiInit ==
    /\ gNow = 0 /\ gStore = <<>> /\ contents = {} /\ handed = {} /\ paid = {}
    /\ minting = [c \in GeminiCallers |-> Waiting]

-----------------------------------------------------------------------------
(* Mutant of Valid: the margin is taken the wrong way round.               *)
ValidPastEnd(k) == k \in DOMAIN gStore /\ gStore[k].exp + Margin > gNow

Valid(k) == k \in DOMAIN gStore /\ gStore[k].exp > gNow + Margin

GetCached(c, k) ==
    /\ minting[c].key = NoKey
    /\ Valid(k)
    /\ handed' = {[name |-> gStore[k].name, at |-> gNow]}
    /\ UNCHANGED <<gNow, gStore, minting, contents, paid>>

StartMint(c, k) ==
    /\ minting[c].key = NoKey
    /\ ~Valid(k)
    /\ gStore' = [j \in DOMAIN gStore \ {k} |-> gStore[j]]
    /\ minting' = [minting EXCEPT ![c] = [key |-> k, now |-> gNow]]
    /\ UNCHANGED <<gNow, contents, handed, paid>>

(* Mutant of Remember: the new name is not stored.                         *)
RememberNothing(k, name, exp) == gStore

Remember(k, name, exp) ==
    [j \in DOMAIN gStore \cup {k} |->
        IF j = k THEN [name |-> name, exp |-> exp] ELSE gStore[j]]

(* The service answers: it has made the content at some time since the     *)
(* request, and the entry's expiry counts from the time of the look-up.    *)
MintSucceeds(c) ==
    LET k == minting[c].key
        name == Cardinality(contents) + 1
    IN  /\ k # NoKey
        /\ name <= MaxMints
        /\ \E made \in minting[c].now .. gNow :
              contents' = contents \cup {[name |-> name, key |-> k, until |-> made + MintTtl]}
        /\ gStore' = Remember(k, name, minting[c].now + MintTtl)
        /\ minting' = [minting EXCEPT ![c] = Waiting]
        /\ handed' = {[name |-> name, at |-> gNow]}
        /\ paid' = paid \cup {name}
        /\ UNCHANGED gNow

(* Any error: no name, no tokens; or the content was made and the answer   *)
(* got lost on its way.                                                    *)
MintFails(c) ==
    /\ minting[c].key # NoKey
    /\ \/ UNCHANGED contents
       \/ /\ Cardinality(contents) < MaxMints
          /\ contents' = contents \cup
               {[name |-> Cardinality(contents) + 1, key |-> minting[c].key,
                 until |-> gNow + MintTtl]}
    /\ minting' = [minting EXCEPT ![c] = Waiting]
    /\ UNCHANGED <<gNow, gStore, handed, paid>>

(* Time passes, but no request outlives the client's timeout.              *)
GeminiTick ==
    /\ gNow < GeminiMaxTime
    /\ \A c \in GeminiCallers : minting[c].key # NoKey => gNow - minting[c].now < MintTimeout
    /\ gNow' = gNow + 1
    /\ UNCHANGED <<gStore, minting, contents, handed, paid>>

GeminiNext ==
    \/ \E c \in GeminiCallers, k \in Keys : GetCached(c, k)
    \/ \E c \in GeminiCallers, k \in Keys : StartMint(c, k)
    \/ \E c \in GeminiCallers : MintSucceeds(c)
    \/ \E c \in GeminiCallers : MintFails(c)
    \/ GeminiTick

GeminiSpec == GeminiInit /\ [][GeminiNext]_geminiVars

-----------------------------------------------------------------------------
(* A name is only handed out while the service still holds its content,    *)
(* although the service's clock for it starts at some unknown time within  *)
(* the minting request and other callers may have replaced the entry since:*)
(* the entry's expiry counts from before the request (gemini.py:46).       *)
HandedOutAlive ==
    \A h \in handed : \E d \in contents : d.name = h.name /\ h.at < d.until

(* Concurrent callers mint the same key, each its own content, and the     *)
(* last answer wins (gemini.py:48).  The waste is bounded: of one key no   *)
(* more contents whose creation was paid live at a time than two per       *)
(* caller, those of one round and of the round before it.                  *)
MintsBounded ==
    \A k \in Keys :
        Cardinality({d \in contents : d.key = k /\ d.until > gNow /\ d.name \in paid})
            <= 2 * Cardinality(GeminiCallers)

(* Minting outside the lock costs money, never a dead name (gemini.py:37). *)
ContentsSound == HandedOutAlive /\ MintsBounded
=============================================================================
