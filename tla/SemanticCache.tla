--------------------------- MODULE SemanticCache ---------------------------
(***************************************************************************)
(* The semantic response cache of glc/cache/semantic.py, as the chat route *)
(* uses it: consult (embed, then compare with the stored embeddings of the *)
(* same namespace and scope), call a provider on a miss, store its answer. *)
(* Each embedding is an await; between awaits a request runs alone, but    *)
(* its SQLite commits are separate and the process may die between two.    *)
(*                                                                         *)
(* A question stands for the text that is embedded.  Like(q, r) is the     *)
(* cosine of their embeddings, in units in which the threshold is a        *)
(* number; namespaces and scopes are values that are equal or not.         *)
(***************************************************************************)
EXTENDS Integers, FiniteSets, FiniteSetsExt

CONSTANTS
    CacheCallers,   \* concurrent requests
    Questions,
    Spaces,         \* [ns, scope]: namespace hash and principal scope
    Like,           \* [Questions \X Questions -> Nat], symmetric
    Threshold,
    Ttl,            \* ttl_seconds, 0 for never
    MaxEntries,     \* max_entries, 0 for unbounded
    Tokens,         \* input + output tokens of an answer
    CacheMaxTime,   \* bounds: the clock, the rows ever stored, the requests, the crashes
    MaxRows,
    MaxConsults,
    MaxCacheCrashes

ASSUME CacheAssumption ==
    /\ Questions # {} /\ Spaces # {}
    /\ Like \in [Questions \X Questions -> Nat]
    /\ {Threshold, Ttl, MaxEntries, Tokens, CacheMaxTime, MaxRows, MaxConsults, MaxCacheCrashes} \subseteq Nat

VARIABLES
    cNow,
    entries,    \* table semantic_cache
    cStats,     \* table semantic_cache_stats
    nextId,
    asking,     \* caller -> where its request is, and its fields
    served,     \* history: what the latest hit returned to whom, and when
    cCrashes    \* history

cacheVars == <<cNow, entries, cStats, nextId, asking, served, cCrashes>>

Stages == {"idle", "embedding", "calling", "storing"}
NotAsking ==
    [q |-> CHOOSE q \in Questions : TRUE, space |-> CHOOSE x \in Spaces : TRUE,
     at |-> "idle", cacheable |-> FALSE]
Asks == [q: Questions, space: Spaces, at: Stages, cacheable: BOOLEAN]

(* Mutant of Entry: the next row's number.                                 *)
EntryAhead(id, q, space) ==
    [id |-> id + 1, created_at |-> cNow, q |-> q, space |-> space, hits |-> 0, answered |-> q]

(* answered is the question a provider was asked: history, beside the      *)
(* columns of the table.                                                   *)
Entry(id, q, space) ==
    [id |-> id, created_at |-> cNow, q |-> q, space |-> space, hits |-> 0, answered |-> q]

StatNames == {"lookups", "hits", "misses", "skipped", "stores", "embed_failures",
              "tokens_saved"}

CacheTypeOK ==
    /\ cNow \in Nat /\ nextId \in Nat /\ cCrashes \in Nat
    /\ \A r \in entries : /\ r.id < nextId /\ r.created_at <= cNow
                          /\ r.q \in Questions /\ r.space \in Spaces /\ r.hits \in Nat
    /\ cStats \in [StatNames -> Nat]
    /\ asking \in [CacheCallers -> Asks]

CacheInit ==
    /\ cNow = 0 /\ entries = {} /\ nextId = 1 /\ served = {} /\ cCrashes = 0
    /\ cStats = [s \in StatNames |-> 0]
    /\ asking = [c \in CacheCallers |-> NotAsking]

-----------------------------------------------------------------------------
Bump(names) == [s \in StatNames |-> IF s \in names THEN cStats[s] + 1 ELSE cStats[s]]

GoTo(c, stage) ==
    asking' = [asking EXCEPT ![c] = IF stage = "idle" THEN NotAsking ELSE [@ EXCEPT !.at = stage]]

(* Mutant of Alive: the scope left out.                                    *)
AliveInAnyScope(space) ==
    {r \in entries : /\ r.space.ns = space.ns
                     /\ Ttl # 0 => r.created_at >= cNow - Ttl}

(* _live_rows. *)
Alive(space) ==
    {r \in entries : /\ r.space = space
                     /\ Ttl # 0 => r.created_at >= cNow - Ttl}

(* The first row of the greatest cosine, when that reaches the threshold.  *)
Best(c) ==
    LET rows == Alive(asking[c].space)
        close(r) == Like[asking[c].q, r.q]
    IN  {r \in rows : /\ close(r) >= Threshold
                      /\ \A s \in rows : \/ close(s) < close(r)
                                         \/ close(s) = close(r) /\ s.id >= r.id}

(* Bound: no more requests than MaxConsults.                               *)
Admissible(c) ==
    /\ asking[c].at = "idle"
    /\ cStats["lookups"] + cStats["skipped"]
         + Cardinality({d \in CacheCallers : asking[d].at = "embedding"}) < MaxConsults

(* lookup: a request that may use the cache goes on to its embedding, any  *)
(* other (not opted in, tools, streaming, too warm) is counted as skipped  *)
(* and will not be stored either.                                          *)
Consult(c, q, space) ==
    /\ Admissible(c)
    /\ asking' = [asking EXCEPT ![c] =
                    [q |-> q, space |-> space, at |-> "embedding", cacheable |-> TRUE]]
    /\ UNCHANGED <<cNow, entries, cStats, nextId, served, cCrashes>>

Bypass(c) ==
    /\ Admissible(c)
    /\ cStats' = Bump({"skipped"})
    /\ asking' = [asking EXCEPT ![c].at = "calling", ![c].cacheable = FALSE]
    /\ UNCHANGED <<cNow, entries, nextId, served, cCrashes>>

NotEmbedded(c, raised) ==
    /\ asking[c].at = "embedding"
    /\ cStats' = Bump(IF raised THEN {"embed_failures", "skipped"} ELSE {"skipped"})
    /\ asking' = [asking EXCEPT ![c].at = "calling", ![c].cacheable = FALSE]
    /\ UNCHANGED <<cNow, entries, nextId, served, cCrashes>>

Hit(c) ==
    \E r \in Best(c) :
        /\ asking[c].at = "embedding"
        /\ entries' = (entries \ {r}) \cup {[r EXCEPT !.hits = @ + 1]}
        /\ cStats' = [Bump({"lookups", "hits"}) EXCEPT !.tokens_saved = @ + Tokens]
        /\ served' = {[q |-> asking[c].q, space |-> asking[c].space, entry |-> r, at |-> cNow]}
        /\ GoTo(c, "idle")
        /\ UNCHANGED <<cNow, nextId, cCrashes>>

(* Mutant of Miss: only the lookup is counted.                             *)
MissUncounted(c) ==
    /\ asking[c].at = "embedding"
    /\ Best(c) = {}
    /\ cStats' = Bump({"lookups"})
    /\ GoTo(c, "calling")
    /\ UNCHANGED <<cNow, entries, nextId, served, cCrashes>>

Miss(c) ==
    /\ asking[c].at = "embedding"
    /\ Best(c) = {}
    /\ cStats' = Bump({"lookups", "misses"})
    /\ GoTo(c, "calling")
    /\ UNCHANGED <<cNow, entries, nextId, served, cCrashes>>

(* The provider answers, and an answer to a consulted question goes on to  *)
(* be embedded for its row; or the provider fails.                         *)
Respond(c) ==
    /\ asking[c].at = "calling"
    /\ GoTo(c, IF asking[c].cacheable THEN "storing" ELSE "idle")
    /\ UNCHANGED <<cNow, entries, cStats, nextId, served, cCrashes>>

CallFails(c) ==
    /\ asking[c].at = "calling"
    /\ GoTo(c, "idle")
    /\ UNCHANGED <<cNow, entries, cStats, nextId, served, cCrashes>>

(* What the DELETE of store keeps: the MaxEntries newest rows, ties        *)
(* falling either way.                                                     *)
Kept(rows) ==
    IF MaxEntries = 0 \/ Cardinality(rows) <= MaxEntries THEN {rows}
    ELSE {k \in SUBSET rows : /\ Cardinality(k) = MaxEntries
                              /\ \A r \in k, s \in rows \ k : r.created_at >= s.created_at}

(* Mutant of Store: eviction starts when one row too many is there.        *)
StoreThenEvict(c) ==
    /\ asking[c].at = "storing"
    /\ nextId <= MaxRows
    /\ \E k \in Kept(entries) : entries' = k \cup {Entry(nextId, asking[c].q, asking[c].space)}
    /\ nextId' = nextId + 1
    /\ cStats' = Bump({"stores"})
    /\ GoTo(c, "idle")
    /\ UNCHANGED <<cNow, served, cCrashes>>

Store(c) ==
    /\ asking[c].at = "storing"
    /\ nextId <= MaxRows
    /\ entries' \in Kept(entries \cup {Entry(nextId, asking[c].q, asking[c].space)})
    /\ nextId' = nextId + 1
    /\ cStats' = Bump({"stores"})
    /\ GoTo(c, "idle")
    /\ UNCHANGED <<cNow, served, cCrashes>>

NotStored(c, raised) ==
    /\ asking[c].at = "storing"
    /\ cStats' = Bump(IF raised THEN {"embed_failures"} ELSE {})
    /\ GoTo(c, "idle")
    /\ UNCHANGED <<cNow, entries, nextId, served, cCrashes>>

Purge(expiredOnly) ==
    /\ entries' = IF ~expiredOnly THEN {}
                  ELSE IF Ttl = 0 THEN entries
                  ELSE {r \in entries : r.created_at >= cNow - Ttl}
    /\ UNCHANGED <<cNow, cStats, nextId, asking, served, cCrashes>>

(* The process dies.  What is committed stays: when it dies within a       *)
(* lookup, the count of lookups, and of a hit also the row's own; when it  *)
(* dies within a store, the row.                                           *)
TornLookup(c) ==
    /\ asking[c].at = "embedding"
    /\ cStats' = Bump({"lookups"})
    /\ \/ UNCHANGED entries
       \/ \E r \in Best(c) : entries' = (entries \ {r}) \cup {[r EXCEPT !.hits = @ + 1]}
    /\ UNCHANGED nextId

TornStore(c) ==
    /\ asking[c].at = "storing"
    /\ nextId <= MaxRows
    /\ entries' \in Kept(entries \cup {Entry(nextId, asking[c].q, asking[c].space)})
    /\ nextId' = nextId + 1
    /\ UNCHANGED cStats

CacheCrash ==
    /\ cCrashes < MaxCacheCrashes
    /\ cCrashes' = cCrashes + 1
    /\ \/ UNCHANGED <<entries, cStats, nextId>>
       \/ \E c \in CacheCallers : TornLookup(c)
       \/ \E c \in CacheCallers : TornStore(c)
    /\ asking' = [c \in CacheCallers |-> NotAsking]
    /\ UNCHANGED <<cNow, served>>

CacheTick ==
    /\ cNow < CacheMaxTime
    /\ cNow' = cNow + 1
    /\ UNCHANGED <<entries, cStats, nextId, asking, served, cCrashes>>

CacheNext ==
    \/ \E c \in CacheCallers, q \in Questions, x \in Spaces : Consult(c, q, x)
    \/ \E c \in CacheCallers : Bypass(c)
    \/ \E c \in CacheCallers, raised \in BOOLEAN : NotEmbedded(c, raised)
    \/ \E c \in CacheCallers : Hit(c)
    \/ \E c \in CacheCallers : Miss(c)
    \/ \E c \in CacheCallers : Respond(c)
    \/ \E c \in CacheCallers : CallFails(c)
    \/ \E c \in CacheCallers : Store(c)
    \/ \E c \in CacheCallers, raised \in BOOLEAN : NotStored(c, raised)
    \/ \E expiredOnly \in BOOLEAN : Purge(expiredOnly)
    \/ CacheCrash
    \/ CacheTick

CacheSpec == CacheInit /\ [][CacheNext]_cacheVars

-----------------------------------------------------------------------------
(* An answer is served only to a request of its own namespace and scope,   *)
(* while it is young enough, and it is an answer to a question within the  *)
(* threshold of the one asked: hits are not stored again, so a chain of    *)
(* near matches cannot drift away (semantic.py: "a cached answer can never *)
(* leak across those boundaries no matter how similar the text is").       *)
NoLeakNoDrift ==
    \A s \in served :
        /\ s.entry.space = s.space
        /\ Ttl # 0 => s.at - s.entry.created_at <= Ttl
        /\ Like[s.q, s.entry.answered] >= Threshold

(* The table never outgrows its cap, whatever stores interleave.           *)
CapHeld == MaxEntries # 0 => Cardinality(entries) <= MaxEntries

(* The statistics are separate commits and still add up: a lookup is a hit *)
(* or a miss, the tokens saved are those of the hits, and no row has more  *)
(* hits, and the table no more rows, than were counted, all but for one    *)
(* per death of the process.                                               *)
StatsAddUp ==
    /\ cStats["hits"] + cStats["misses"] <= cStats["lookups"]
    /\ cStats["lookups"] <= cStats["hits"] + cStats["misses"] + cCrashes
    /\ cStats["tokens_saved"] = Tokens * cStats["hits"]
    /\ MapThenSumSet(LAMBDA r : r.hits, entries) <= cStats["hits"] + cCrashes
    /\ nextId - 1 <= cStats["stores"] + cCrashes

(* The cache as a whole: what it serves, what it holds and what it counts  *)
(* stay right together, whatever lookups, stores, purges and deaths of the *)
(* process interleave (semantic.py:257-394).                               *)
CacheSound == NoLeakNoDrift /\ CapHeld /\ StatsAddUp
=============================================================================
