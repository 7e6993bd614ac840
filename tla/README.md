# Verification of the GLC gateway

GLC is a gateway between messaging channels, an agent, and LLM providers. It is one
Python process (FastAPI on one asyncio loop) with three durable SQLite files -- the
ledger, the pairings and the audit log -- and rate states that live in memory only.
This directory holds TLA+ models of its stateful parts, TLC runs on small instances,
and proofs for every value of the constants. Paths below are relative to `src/`.

## 1. The system

| Component | State it keeps | Operations | Hard behaviour | What makes it correct |
|---|---|---|---|---|
| **Provider ring** `glc/routing/core.py` | per provider: call and token deques, day counters, last call, bench | `can_use`, `record`, `add_tokens`, `mark_unavailable`, `pick`, `all_status` | pick and record are two methods and no lock is taken; tokens are charged after the await; the day is reset lazily | per-minute, per-day and cooldown limits hold; the token limit is overshot only by calls in flight; a bench is not shortened |
| **Chat pipeline** `glc/routes/chat.py` | locals of one request, across many awaits | cache lookup, classify, ring walk, admission, call, retry, repair, cascade, stream, reply | 2 nested loops, 6 failure classes, money tested before and booked after an await | every call has one ledger row, spending is bounded, every request ends, 402 and 503 mean what they say |
| **Routing policy** `glc/routing/policy.py` | none (yaml) | `tier_for`, `should_escalate`, `order_for`, `assess` | floors, ceilings and cascade in different places | a role's ceiling holds |
| **Budget** `glc/economics/budget.py` | overrides (SQLite) | `admit`, `project`, `affordable_usd` | reads the ledger, reserves nothing | the limit is exceeded by a bounded amount |
| **Meter and ledger** `glc/economics/meter.py`, `glc/db.py` | table of calls | `record`, period sums | the row comes after the answer | no answer without its row |
| **Sender rate limiter** `glc/security/rate_limits.py` | per sender two deques, last sweep | `check_message`, `check_tool_call` | a sweep deletes windows while senders come back | no sender gets a second quota; the table does not grow for ever |
| **Pairing store** `glc/security/pairing.py` | tables `pending_codes`, `pairings` | `issue_code`, `confirm_code`, `revoke`, `force_pair_owner`, `lookup`, `owners` | autocommitted statements, two processes on one file, colliding codes, expiry | every trust row answers a request for that user at that level |
| **Channel gate** `glc/routes/channels.py`, `glc/security/allowlists.py` | open sockets with the owners they read | connect, message, webhook, bridge, reply | stale owners, claims inside messages, failing agent | trust comes from the store, claims never relax the gate, every message is audited |
| **Audit** `glc/audit/store.py` | append-only table | `append` | several writers | one row of fate per message |
| **Pricing** `glc/economics/pricing.py` | none (yaml) | `price_for`, `project_usd`, `cost` | patterns, cache multipliers, batch discounts | the worst case covers the call |
| **Semantic cache** `glc/cache/semantic.py` | tables of entries and counters | consult, lookup, store, evict, purge | embeddings are awaits, each statement commits alone | no answer crosses a scope or outlives its time; the cap holds |
| **Gemini context cache** `glc/cache/gemini.py` | name and expiry per content | `get_or_create` | lock released while minting | a name handed out is alive; mints are bounded |
| **Embedders** `glc/embedders.py` | a second kind of rate state | `embed_with_failover` | recorded after the await | the minute's limit is overshot by calls in flight only |
| **Provider clients** `glc/providers.py` | locals of one call | heal, retry, report | refused bodies are changed and posted again | every server that can be served is; the report is true |
| **Policy engine** `glc/policy/engine.py`, `glc/main.py` | rules, two locks | `evaluate`, `reload`, SIGHUP | the handler runs in the frame it interrupts | a verdict is of one configuration |
| **URL guard** `glc/security/ssrf.py` | locals of one fetch | `fetch_bytes` | names change between check and dial | only judged addresses are dialled |
| **Channel adapters** `glc/channels/catalogue/*` | cursors, tokens, buffers, signatures, caches | poll, webhook, send | redelivery, restarts, expiry, awaits | once, by the right person, nothing lost |
| **Voice** `glc/voice`, `glc/routes/speak.py`, `transcribe.py` | quota file, loaded model, temporary files | speak, transcribe | quota read before and written after awaits; worker threads | bounded overshoot; no audio left behind |

`PROJECT.json` lists every component with what is modelled of it, and 40 hazards at
their lines with the properties that are about them.

How they interact:

```
 channel adapters --WS / webhook--> ChannelGate --bridge--> agent (external)
                                      |   |  |
                      PairingStore <--+   |  +--> audit log
                      (2 processes)       +--> RateLimiter
 agent --POST /v1/chat--> ChatPipeline --> semantic cache, policy, budget --> ledger
                               |
                               +--> ProviderRing (rate states) --> provider (external)
```

Two facts about scheduling shape every model. First, all handlers run on one event
loop, so a stretch of code without an `await` is one step and everything after an
`await` is a later step that other requests may precede. The threading locks in the
code protect nothing more than that. Second, SQLite is opened with
`isolation_level=None`: each statement commits by itself, and a second process (the
Teams set-up command line) writes the same pairing file.

## 2. Modules

| Module | Models | Notes |
|---|---|---|
| `SlidingWindow` | sweeping a deque of time stamps | shared by all rate limits |
| `RateState`, `ProviderRing` | the `RateState` record, and `Router` as the chat route drives it | proved about |
| `ChatPipeline` | `POST /v1/chat`, with policy, budget, meter and ledger | a provider is usable or not |
| `RoutingPolicy` | `tier_for`, `order_for`, `assess`, `should_escalate`, `next_tier` for one routed request | the yaml is its constants |
| `Pricing`, `Budget` | rates, costs and projections; limits from file and table, admission, rows, restarts | `Budget` extends `Pricing` |
| `SemanticCache`, `GeminiCache` | the two caches, statement by statement and await by await | |
| `EmbedRing` | the embedders' rate states and failover | extends `SlidingWindow` |
| `HealingClient`, `GeminiClient` | one call of an OpenAI-compatible provider, one of Gemini | the server is external |
| `PolicyEngine` | evaluation by two threads, the reload and the signal handler | |
| `UrlGuard` | fetching the images a chat names | names and servers are external |
| `Quota`, `RateLimiter` | what a per-sender limit promises; `_check`, `_gc`, `_sweep_locked` | refinement |
| `PairingStore`, `ChannelGate` | the pairing file, statement by statement; the doors over it | `ChannelGate` composes |
| `AdapterGate` | whom each of fifteen adapters lets through | |
| `GmailPoller`, `ImapBridge`, `Artifacts` | mail: cursor, echo, marks, the shared store of attachments | `GmailPoller` extends `Artifacts` |
| `TelegramPoller` | offset, pairing of the first sender | |
| `TeamsConnector`, `WhatsAppRoutes` | where a reply goes, with which token or by which provider | |
| `LineBridge`, `WebhookOnce`, `TwilioSms` | reply tokens, remembered signatures, repeated posts and media | |
| `VoiceStreams` | Twilio's audio per call and its flushes | |
| `Speak`, `Transcribe` | the two voice routes with their eight providers | |
| `MCMoney`, `MCServices`, `MCChannels` | compositions for one run each, see below | |
| `ProviderRingProofs`, `ChatPipelineProofs` | theorems about the module of that name | |
| `ChannelGateProofs` | theorems about the pairing store and the doors over it | |
| `StoresProofs` | theorems about the budgets and the two caches | |
| `ServicesProofs` | theorems about the policy engine, image fetches, embedders, provider clients and routing, and the types of `MCServices` | |
| `MoneyProofs` | theorems about the sender limits and speech, and the types of `MCMoney` | extends `StoresProofs` |
| `AdapterProofs` | theorems about the adapters and transcription, for `MCChannels` as a whole | extends `ChannelGateProofs` |
| `SharedLemmas` | lemmas on suffixes, time stamps and folds | shared by the rings, the limiter, the stores and routing |

How states and actions correspond to the code:

* **ProviderRing.** `Dispatch` is `pick` followed by `record` (no await in between);
  the providers examined on the way are swept, as `can_use` does. `Unaffordable` is a
  pick that the budget refuses, which is not recorded. A call may be followed by a retry
  in place (`Stumble`, `CallAgain`) and by a schema repair (`AskRepair`): both call the
  same provider again with neither `can_use` nor `record`. So there are two histories,
  `recorded` for the calls the limits count and `started` for every call that goes out.
  `Answer` books the tokens of the last answer, `Unbooked` ends a request without
  booking, `Fail` is the except-branch with the cooldown its error class carries,
  `GiveUp` a walk that finds nobody, `AllStatus` the status page.
  `dropped` is the request's list of remaining candidates, complemented.
* **ChatPipeline.** `stage[r]` names the await a request is at. `CacheMiss`,
  `Classify`, `Escalate` and `ProviderFails` end in `Walk`, which is the inner loop:
  strike out what the budget refuses, then call the first candidate left or answer
  402/503. Rate states are abstracted to `usable`, which a failure may bench, a call
  may exhaust and time may change (`Shift`): every behaviour of `ProviderRing` is
  allowed. A request with a pinned provider may wait up to 30 s for its cooldown; that
  wait is folded into the end of the lookup await. `Projection` is the code's own
  estimate (four characters a token, no repair prompt), so a call may cost up to
  `Overrun` more. `tried` and `lost` are history.
  A request's schema is absent, sane or not sane: `assert_schema_sane` runs after the
  provider has answered, and what it refuses ends in a 400 without a row (`Rejected`).
* **RateLimiter.** One `Check` is one call of `_check`, atomic under the limiter's
  lock: sweep when it is due, trim the sender's deque, refuse or stamp.
* **PairingStore.** `confirm_code` is `SelectCode`, `JudgeExpiry`, `InsertPairing`,
  `DeleteCode`; the other operations are one statement each. `op[c]` holds the row a
  process has read. `revoke-all` of the command line is a series of `Revoke`s. A
  `Crash` loses `op[c]` and nothing else.
* **ChannelGate.** `Receive` looks the sender up, `Admit` is the rest up to the bridge
  (gate, allowlist, limiter, audit), `Answered`, `BridgeError` and `Sent` follow. The
  two are separate because another process can write between the two reads a webhook
  makes; inside the gateway nothing can (`LoopFree`). The limiter's answer is free
  here. Messages that do not parse or name another channel are answered with an error
  and change nothing, so they are not actions; a gateway crash is not modelled.

* **SemanticCache.** `Consult`, `Miss`/`Hit` and `Store` lie on the two sides of the
  embedding; `Store` is insert and eviction, which a crash may tear apart. Two questions
  are alike or not by a cosine that is a constant (`Like`).
* **GeminiCache.** The first locked section, the mint and the second locked section are
  three steps.
* **Budget.** `Admit` reads the ledger and reserves nothing; `Record` is the row.
  `rule` is the most generous limit a principal was admitted under, for the bound. A row
  books the provider's own counts (`UsageOf`: up to `prompt` and `answer`, beside what a
  cache read or wrote), which may differ from the estimate `est` that the projection
  prices. Its model is the admitted one: every client reports the model it was asked for
  or else its own (`providers.py:457, 596, 789, 1108`).
* **RoutingPolicy.** `Judged` climbs before the next tier's candidates are known, as the
  code does: when there are none the request fails, with its answer paid for and lost.
* **EmbedRing.** Test and start are one step, the bookkeeping another.
* **HealingClient, GeminiClient.** A body is the set of fields that servers disagree
  about; each refusal is one step that changes it as the code does.
* **PolicyEngine.** One step per lock and per statement of `evaluate`. `Sighup` stops the
  main thread until the handler's own steps have ended, as CPython runs it.
* **Adapters.** Each await of a handler ends a step; what the outside does (a mail
  arrives, a post is repeated, a name is changed, the process restarts) is an action
  marked external in the map. `AdapterGate` repeats no format: a message is its sender,
  whether it names the bot and whether the adapter can read it. In `LineBridge` a webhook
  holds deliveries, and `TokenOf` says which of them are the same event with the same
  token, because nothing in the code recognises a second delivery. `WhatsAppRoutes` has
  the results a provider gives and takes for success whatever has no "error" key
  (`Learns`), Twilio's refusals included. `VoiceStreams` has streams whose start frame is
  lost or does not validate (`StartMalformed`), which go on without a caller.
* **Speak, Transcribe.** The quota file is read before and written after the chunks'
  awaits; Kokoro's loads are steps of worker threads; temporary files are a set.

## 3. Runs

| Run | Question | Instance |
|---|---|---|
| `ring_pair` | Can two interleaved requests break a provider's limits? Not for the calls that are recorded; retries and repairs, which are not, start past them by a bounded factor. | 2 callers, 2 providers, window 1, day 5 with a midnight inside, answers that report twice the estimate, every limit reached |
| `ring_bench` | Is a bench honoured? **No**: the later failure's shorter bench replaces the longer. | 2 callers |
| `chat` | Ten shapes of request, streams and a schema that is not sane included, beside a plain one or both cascading: how far over the limit, is a row lost, is an unescalated 402 unbilled, does every request end? Bounded, no, yes, yes. | 2 requests, 2 tiers |
| `chat_refused_after_billing` | Does 402 always mean nothing was billed? **No**, after an escalation. | 1 request |
| `chat_role_cap` | Is a role's ceiling kept by the cascade? **No.** | 1 request |
| `chat_unseen_spend` | Does the budget see everything spent? **No**: a repair overwrites the first usage. | 1 request |
| `channel_gate` | Can a message's claims, or the two doors interleaved with a second process, get past the gate or the audit log? No; and every message ends. | 1 socket, 1 webhook |
| `gate_stale_owner` | Is an owner whoever is in the table now? **Not for a socket.** | the same |
| `money` | Do the caches, the budgets, the sender limits and the voices keep their bounds under concurrency, expiry, restarts? Yes; and the limiter implements `Quota`. | 2 callers of each, 1 crash or restart |
| `services` | Do routing, embedding, healing, policy and fetching follow their rules in every interleaving, and end? Yes. | 5 tiers, 4 instances; 48 servers; 2 threads and 1 signal; 2 redirects |
| `channels` | How often does what is redelivered or replayed take effect, and is interleaving kept from mixing up persons? Once for mails, for replies over two providers and for webhooks of an adapter that is kept; once per delivery for LINE tokens and per posting for texts; and no person is mixed up with another. | 2 to 4 messages per adapter, 1 restart |
| `imap_lost` | Is every mail marked seen processed? **No**: fetching marks it. | 3 mails, 2 drops |

`money`, `services` and `channels` each check several parts that share no state. A
variable that never changes (`part`, `adapter`) says which of them a behaviour follows;
the others stay as they started, so no case is lost and the product of their state
spaces is avoided. An invariant of such a run is a conjunction whose parts are named in
the modules (`CacheSound` is `NoLeakNoDrift`, `CapHeld` and `StatsAddUp`; `RepeatsBounded`
is seven adapters' properties), and every part has a mutant of its own where the code
can break it.

The six runs with an expected violation are disagreements of the code with a sentence
in the repository; `PROJECT.json` quotes each under `findings`.

What the properties say:

* `RpmRespected`, `CooldownRespected`, `RpdRespected` read histories, not the deques the
  code decides on. Each has two halves: the limit holds for the calls that are recorded,
  and of the calls that start, unrecorded retries and repairs included, no more than
  `Loose(n)` = 3n + 2 per caller fall where n may be recorded. `TpmOvershootBounded`
  states how far calls in flight and answers longer than their estimate (up to `Worst`
  tokens each) take the booked tokens over the limit. `BenchHonoured` compares with the
  longest bench a failure has ever earned.
* `OvershootBounded`: `Limit + Overrun + (CostCap + Overrun) * (requests - 1)`. With
  one request and a true worst-case estimate the limit is hard. `EveryCallHasItsRow`
  relates the calls made with the rows written at every await and every reply; two exits
  leave one answered call without a row, a failed repair (503) and a schema that is not
  sane (400).
  `EveryRequestEnds` is the liveness of the two loops.
* `QuotaHeld` and `IdleForgotten` pull against each other: forgetting early breaks the
  first, never forgetting the second. `KeepsPromise` is refinement: each answer of the
  limiter is the one the whole history calls for.
* `EveryPairingAsked` relates the trust table to requests made up to `CODE_TTL` before
  it; `CodeUseBounded` counts how often a code is used when it is *not* single-use.
* `TrustFromStore` follows a trust label from a request through the store to the
  agent. `EveryMessageAudited` is a conservation law over received messages, rows and
  messages under judgement.

* `CacheSound`: no hit crosses a namespace or scope or outlives its time, no chain of
  near questions drifts (what is served was answered for a question that is near), the
  cap holds between a store's two commits but for the store under way, the counters add
  up over crashes. `ContentsSound`: a name is handed out only while the service still has it.
* `SpendBounded`: with several principals per request, moved limits and ending periods,
  the excess over the most generous limit is bounded by the dearest cost of each other
  caller's call plus one call's excess over its projection (`Excess`: tokens the estimate
  missed, a repair's longer prompt, the cache's surcharge). `PostedLimitsBind`: a posted limit shadows the
  file until it is deleted, over restarts.
* `SpeechAccounted`: how far concurrent requests take the month's quota, that no sentence
  is dropped by the chunking, how often the model is loaded, that usage is counted
  wherever its frame comes. `TranscriptsSound`: no audio is left on disk but by a crash,
  one source of a transcript's words.
* `RoutingSound`: a strict rung never leaks, a cascade climbs its own ladder, a harder
  verdict never lands lower. `ClientsSound`: whatever a server that can be served refuses,
  it is served; what is reported as applied was in the accepted body; Gemini reads the
  system text once. `PolicySound`: no verdict mixes two configurations, and a reload takes
  effect. `FetchGuarded`: only addresses that were judged are dialled, and no body grows
  beyond its cap. `ServicesEnd` is the liveness of all of these; of the policy engine it
  names the one state in which the process hangs (a signal that catches a lock's holder).
* `RepeatsBounded`, `NothingLost`, `RightParty`, `GatesHold`, `NothingOutlived`: what the
  adapters owe a conversation; the comments in `MCChannels` list the parts, and say of
  each how often it may repeat, or whom it may not know.

**Bounds, and why they are enough.** The clocks (`MaxTime`) run for longer than a
window and over one day or sweep boundary, which is where a lazy trim or reset can go
wrong; limits are one to three, so that a full window, a
window that is not full and an empty one all occur. `ring_pair` has a minute of one second
and a cooldown of six that outlasts the day; two callers with their retries and repairs
start so many calls that a retry that may itself be retried exceeds `Loose(1)`. Two actors are enough for every
interleaving hazard listed: each is between one actor that has read and another that
writes; the overshoot bound, which depends on the number of actors, is proved for any
number. Costs are 1 and 2 against limits of 1 to 3, so that a call is free, affordable
or not. `MaxAsked`, `MaxCrashes` and `MaxMessages` cap the histories; `channel_gate`
explores the store in less depth than `channels`, because the store's behaviour is
proved separately. The adapters see two or three messages: one in hand, one behind it,
and one of another person; caches hold two entries of three, so that eviction happens;
one restart separates a before from an after. The servers of `services` are all
combinations of the fields they know, the efforts they name and whether they take
schemas. `channel_gate`, `money`, `services` and `channels` stop at their bounds, so
deadlock is not checked there; that work once begun ends is then a liveness property
where it is claimed. The other models always have a step.

**Fairness.** `ChatPipeline` assumes weak fairness of `Resume(r)` for each request:
provider calls run under an HTTP client timeout, the classifier and cache awaits
likewise, and the loop resumes whoever is ready. Which outcome an await has is never
fair: providers may fail for ever. A stream is read by a client that may leave, which
also ends it. `ChannelGate` assumes strong fairness of a door's handler: while other
code holds the loop the handler is not enabled, but the loop's ready queue is first-in
first-out, so it is not passed over for ever; the bridge's client has a timeout
(`GLC_S16_TIMEOUT`). `EveryMessageEnds` also takes the adapter's own send to return.
In `services` the awaits of a routed request, an embedding and a fetch return (each runs
under a client timeout), and a thread that can take its next step does; a thread that
waits for a lock cannot. The retries inside one provider call are counted, not timed, so
they need no fairness. `money` and `channels` check safety only.
No fairness is assumed of clocks, other processes, signals or arriving messages.

## 4. Proofs

Every theorem holds for every value of the constants that satisfies the named assumptions
of the modules (natural limits, sequences over the declared sets, a reserved `None`) and
the hypotheses named below, which the theorem itself states. Each invariant that a run
checks and a theorem states was model-checked first; what makes it inductive is the
second half of each entry.

* **Provider ring**: `TypeOK`; `RpmRespected` and `CooldownRespected`. They are not
  inductive: the deque forgets. `PaceInv` adds that each deque is a suffix of the
  provider's history and that what is missing from it is older than the window. A call
  that finds fewer than `rpm` stamps then has its `rpm`-th predecessor in the missing
  part. `SharedLemmas` holds the lemmas on suffixes. `RpdRespected` rests on
  `DayInv`: `day_start` begins a day that is not over before the last call was recorded,
  and `calls_today` counts exactly the recorded calls since. The halves about started
  calls follow from the recorded ones by `StartsInv`: every started call knows how many
  calls were recorded before it, and what has started since, with the retries and repairs
  that callers may still make (`Owed`), is at most three times what was recorded since
  and two for each caller; so a call that `Loose(n)` others follow has n + 1 recorded ones
  behind it (`LooseLeavesRecorded`). `TpmOvershootBounded` holds for answers that report
  anything up to `Worst`, which may lie above the estimate `can_use` was asked with:
  `TokenInv` says that the tokens booked within the window and `Worst` for each call in
  flight are together at most the cap and `Worst` for each caller, less one estimate. What
  a repaired first answer used is never booked, and not bounded. Callers are finitely many.
* **Chat pipeline**: `TypeOK`; `OvershootBounded`. The strengthening `SpendInv` says
  that either the slack already covers all calls in flight but one, or some call in
  flight was admitted with the ledger as it is now at most (`Vouched`). Every step is
  first classified (`Holds`, `Renews`, or one request `Moves`, by landing or
  launching), and the arithmetic is done once per class. `EveryCallHasItsRow` and
  `UnescalatedRefusalUnbilled` rest on `LedgerInv`, which relates, for each request, the
  stage it awaits at to the candidates tried and the rows written, for the two exits without
  a row too.
* **Rate limiter**: `TypeOK`, `QuotaHeld`, `IdleForgotten`, and that the limiter
  implements `Quota` (`Promise == INSTANCE Quota`; run `money`). `LimiterInv` adds that
  deques are suffixes of the history and that a sender without a window has nothing recent.
* **Pairing store**: `StoreTypeOK`; `EveryPairingAsked` (run `channels`), where `StoreInv`
  follows a row from `pending_codes` into the client that has read it and from there into
  `pairings`; `CodeUseBounded`, where `UsesOf` says of one code that while its row is
  there it was used at most once per process that has yet to delete it and per crash, and
  once it is gone, that uses and processes still holding it are at most the processes
  and crashes.
* **Channel gate**: `TypeOK`, `TrustFromStore`, `ClaimNeverRelaxes`,
  `EveryMessageAudited`, for the composition with the store, whose lemmas are reused.
* **Budget**: `PostedLimitsBind`, an action property, needs only the types. `SpendBounded`
  takes finitely many payers and kinds of call, and budget files that project the worst
  case with a safety factor of at least 1 (the default mode; the ratio mode promises no
  bound). `BudgetTypes` are the types, `Covered` says that a call in flight was
  projected at no less than its estimated prompt and full answer cost (`Full`), and
  `SpendInv` is the chat pipeline's
  argument per principal (`Room`): either all calls in flight fit at the price of the
  dearest, or one of them fits at its own projection and the others at that price.
* **Semantic cache**: `CacheSound`. `TableInv` says that every row answers its own question,
  `CountInv` bounds each counter by another and the deaths so far, and the sum of the
  rows' hits by the counted hits and the deaths.
* **Gemini's cached contents**: `ContentsSound`. That a name is handed out alive needs no
  hypothesis; that at most two paid contents of a key per caller live at a time takes
  finitely many callers and a lifetime of twice the client's timeout and margin
  (`gemini.py` has 300 s against 60 s and 5 s). `GeminiInv` carries a witness, who
  paid for each content: two that one caller paid for the same key lie a lifetime apart but
  for the slack (`MintedBy`).
* **Transcription**: `TranscriptsSound`; `HearInv` says which temporary files exist at
  each await, `Follows` which part of a transcript has been kept.
* **Speech**: `SpeechAccounted`, for a finite set of texts and at least one text and one
  request. `SpeakInv` says that what the file counts and the others have under way stays
  within the quota but for a longest text per other request; that what was spoken is what
  was booked, given up or is under way; and that the chunks make up the text.
* **Policy engine**: `PolicySound`. `PolicyInv` says what each thread has read at each of
  its lines; `Governed` that the rules it judges by were the engine's at some time since it asked.
* **Image fetches**: `FetchGuarded`; `UrlInv` says that the address about to be dialled
  was judged when the hop was resolved and stays judged whatever becomes of the name, and
  bounds hops and buffer.
* **Embedder ring**: `EmbedRpmBounded`. A stamp is written only after the answer, so
  `rpm` alone can be overshot; `EmbedInv` says that among the stamps kept (`KeptOf`)
  there is room (`RoomFor`) for the callers under way.
* **Provider clients**: `ClientsSound`. `HealInv` says that the budget of retries is at
  least the number of dialects the body still has that the server might refuse, that the
  error in hand is one the server gives for that body (`Heard`), and that "off" was
  replaced by the least effort only (`LeastInstead`). `GeminiCallInv` does the same for Gemini.
* **Routing policy**: `RoutingSound`, under `ConsistentLadders`: every tier is once on some
  ladder, a role's bounds are on the ladder of its default, and the classifier has at least
  two rungs. The loader refuses a tier on two ladders and undeclared names, but does not
  check these; routing.yaml meets them. `RoutingInv` says that all candidates left are
  `Eligible` for the current tier and that the n-th tier visited is n - 1 rungs above the
  first, one without candidates included. That a harder verdict never lands lower comes down to rounding: `RoundKeepsOrder`,
  `RoundExact` (the last rung stays the last), and that floors and ceilings keep order.
* **Adapters** (run `channels`): `RepeatsBounded`, `NothingLost`, `RightParty`, `GatesHold`,
  `NothingOutlived` and `ChannelsTypeOK`, each a conjunction over the adapters, from one
  inductive invariant per adapter:
  * *Gmail*: `MailInv` and `VisitsInv`. What is still to be visited lies past the cursor,
    what was answered is remembered or the cursor is past it, and what the listing went up
    to was visited, is in the batch, or was beyond the page. `ArtInv`: a file is no older
    than the last reference given to it.
  * *IMAP*: `RoundInv` ties the lists of a round to the flags of their mails,
    `EnvelopesInv` says that only the mail being marked is an envelope already.
  * *Twilio voice*: `OnePlace` puts every frame in one message or in the buffer, `Covered`
    leaves none out, `CallersInv` lets a stream's caller go after its last handler only, and
    knows none of a stream whose start was lost in a restart or did not validate.
  * *LINE*: a token that is kept (`KeptToken`) is its user's and, as this delivery brought
    it, not sent before; what a delivery brought is sent once at most (`DeliveryTokenOnce`),
    and an injection from the sendings of a token into its deliveries gives the bound.
    `AtEvent` says what each webhook's loop has done at its position.
  * *Webhook* (an adapter that is kept): whoever was accepted from a clock that is not ahead is remembered from no
    sooner than its timestamp, or the timestamp is stale.
  * *WhatsApp*: what is remembered is `Shown` by a message by that provider or, for Twilio,
    by its refusal; `EndOf` says that the table holds the users heard of last, in order; a reply
    that was delivered is over.
  * *Twilio SMS*: each request got its sender one reply, and none before its last stages.
  * *Telegram*: `BatchInv` says that the batch goes on where the offset is, `ForwardsInv`
    that what is still to be taken reached the gateway at most once per earlier run, and
    was exposed when it did; `OwnersInv` counts the owners by the restarts.
  * *Teams*: a token was issued no longer ago than a request takes when it was cached, and
    one that travels lives for as long as its post may take (`ReplyInv`).
  * *Gates*: `AdapterInv`; what is sent to be transcribed passed its gate.

  `ChannelsInv` conjoins them, and `StoreFollowed` shows that the composition follows the
  pairing store's own specification, so that its theorems carry over.
* **Types of the compositions**: `ServicesTypeOK`, `MoneyTypeOK` (with finitely many texts)
  and `ChannelsTypeOK`. `PartsInv`, `MoneyInv` and `ChannelsInv` conjoin the parts'
  invariants; a step of the whole is for each part a step of its own or none.

Sums and folds. The models count with `MapThenSumSet`, `FoldSet`, `FoldLeft` and
`FlattenSeq`. Induction over the data is not available, but most facts about a sum are
reached by a least counterexample: the sums of all prefixes (or of all sizes of subset)
form a function on the naturals whose defining equation is known, and if it ever
differed from the fold there would be a least place where it does. `Total`, `Summed`,
`FoldedSets`, `CharsUpto` and `FlatUpto` are these functions. Routing's filter of the
candidates and its stable sort are folds from the left too: `FoldStays` carries what every
prefix of such a fold has in common.

Time is taken not to run backwards: the code reads `time.time()`, which an
administrator can set back.

Every invariant and action property that a passing run checks is stated by a theorem.
Only model-checked are

* liveness (`EveryRequestEnds`, `EveryMessageEnds`, `ServicesEnd`), out of the prover's reach;
* the six disagreements, which are counterexamples.

## 5. Disagreements seen but without a run

Of a sentence in the repository with what the models, or the code as read for them, do:

* `glc/routing/routing.yaml` has `prefer_affordable` (267-270) and
  `block_escalation_on_breach` (272-273); no code reads either.
* A streamed answer is sent before `meter.record` runs, with zero usage, and an
  abandoned stream leaves no row; `glc/economics/meter.py:15-16` says otherwise of
  every result. `EveryCallHasItsRow` therefore speaks of requests that do not stream.
* `glc/economics/pricing.py:222-226` calls the projection the "Worst-case cost of a call
  that has not happened yet"; it prices the input at the input rate, while a call that
  writes a provider's cache pays more (192-195).
* `glc/providers.py:292-293` says that some servers reject the reasoning key they do not
  know; streams send both (615) and never heal.
* `glc/policy/engine.py:4` says the first matching rule wins; any deny wins. A mistyped
  argument makes a conditional rule match, allow rules included (152-157).
* `glc/channels/catalogue/webhook/adapter.py:50` forgets a signature by the adapter's
  clock, while a timestamp ahead of it is accepted for longer (38-40). And
  `tests/test_webhook_replay.py:1` says that a signed webhook is accepted "once, not once
  per replay", which holds of an adapter that is kept, while the
  gateway's route makes one per request (`channels.py:245`), whose memory is empty.
* The limits of `glc/routing/core.py:10-25` hold for recorded calls only: the retry in place
  (`chat.py:864`) and the schema repair (891) call the provider without testing or recording.
* `assert_schema_sane` (`chat.py:470`, called at 882) refuses a schema only after the
  provider has answered: 400, a billed call and no row (1053).
* A cascade moves up before it knows the next tier's candidates (`chat.py:962-979`); when
  there are none the paid answer is lost and the request refused (1083-1091).
* `glc/channels/catalogue/whatsapp/adapter.py:368, 382` remembers a provider after any JSON
  without an "error" key. Twilio's refusals have none, so after one the user's replies go
  to Twilio alone.
* LINE's events are not deduplicated (`live_bridge.py:236-281`, `line/adapter.py:137-142`):
  a redelivered event is answered again and sends its used token again.
* `glc/channels/catalogue/twilio_sms/webhook.py:139` says "acknowledge fast so Twilio does
  not retry"; the gateway and the reply are awaited before that (136-137), and a post that
  Twilio repeats meanwhile is answered again.
* `voice/tts/providers/kokoro` says the model loads exactly once; worker threads that find
  it missing together load it each. Where kokoro is not installed the answer is 502 where
  a comment promises 501.
* Gemini Live's transcription drops everything after the first modelTurn frame once that is
  its source, and words that share a frame with the output's transcription; a normal close
  returns a partial answer as if complete. whisper.cpp's exit code is used as an HTTP
  status. The system's voice blocks the event loop.
* `tests/test_pairing.py:70` says that of two codes for one user the latest wins; the
  older one stays good until it expires. A revocation does not cancel pending codes.
* A bridge error is audited by the WebSocket and not by the webhook handler.
* A restarted Telegram poller pairs the first sender it then hears as an owner.
* Nothing calls the sweeps of the IMAP and SMS artifact stores; a Twilio call that ends
  without its stop frame leaves its state; Gmail reads only the first page of a history.

Hazards that no property reaches:
a crash between a provider's answer and its ledger row loses the cost (`chat.py:921`);
`scache.store` inside the ring's `try` could bill a second provider (1011); classifier
calls carry no dollars (211); `RouterPool` and the ring do not see each other's calls
(`core.py:213`); overrides are dropped when SQLite fails (`budget.py:286`); a malformed
`budgets.yaml` makes every chat a 500 (`chat.py:559`); the webhook route makes an adapter
for each call, so that its memory of signatures is empty (`channels.py:245`, in
`WebhookOnce` the case `~adapterKept`, of which `KeptAcceptsOnce` claims nothing);
updates that the Telegram poller reads after its gateway socket has closed count as
handled (`live_poll.py:82`); a webhook's trust and list of owners may be of two moments
(`channels.py:260`); a code issued before a revocation confirms after it
(`pairing.py:98`).

## 6. Not modelled

The Ollama client, streaming and the conversion of messages between dialects; MIME,
attachments' formats and rich texts of the adapters; the classification of an IP address
(`Forbidden` is a constant) and URL syntax; `allowed`'s test of the channel's `enabled`
switch in the adapters' gates; the text signals of `assess` and the globs and
regular expressions of the policy's conditions (inputs); burn rates, price lists and cost
pages (reads); batch, vision and embedding routes apart from the embedder ring; the send
route and the administration routes; trace ring, refusal log, metrics and spans, whose
loss changes no answer; loading and saving of configuration, set-up, boot, scripts and
deployment. Schemas are data.

## 7. Plan

1. A restart of the chat pipeline between an answer and its row.
2. `RouterPool` as a second owner of the ring's rate states.
3. The send route of the gateway, which passes neither gate nor limiter.
