--------------------------- MODULE TeamsConnector ---------------------------
(***************************************************************************)
(* Replies to Microsoft Teams (teams/adapter.py): where they go, which the *)
(* adapter learns from what comes in, and the token they carry, which is   *)
(* cached for the process.  Replies overlap at the two requests each makes,*)
(* for a token and for the post.  Login service and Connector are external.*)
(***************************************************************************)
EXTENDS Integers, FiniteSets

CONSTANTS
    TeamsUsers, Conversations,
    TrustedConversations,   \* those whose serviceUrl is on an allowed host
    Elsewhere,              \* no conversation
    TeamsReplies,           \* replies that may be under way at once
    TokenLife,              \* expires_in
    TokenMargin,            \* 60 seconds
    RequestTimeout,         \* how long a request takes at most
    TeamsMaxTime

ASSUME TeamsAssumption ==
    /\ TrustedConversations \subseteq Conversations /\ Elsewhere \notin Conversations
    /\ {TokenLife, TokenMargin, RequestTimeout, TeamsMaxTime} \subseteq Nat
    /\ 2 * RequestTimeout <= TokenMargin /\ TokenMargin < TokenLife

VARIABLES
    teamsNow,       \* seconds
    convCache,      \* _conv_cache: user -> conversation, with its serviceUrl
    tokenCache,     \* _TOKEN_CACHE: [issued, expires]; issued is the token's identity
    replyAt,        \* reply -> where it is: [at, user, conv, token, since]
    heardIn,        \* history: user -> the trusted conversations he wrote in
    lastPost        \* history: the post that reached the Connector last

teamsVars == <<teamsNow, convCache, tokenCache, replyAt, heardIn, lastPost>>

NoReply == [at |-> "idle", user |-> Elsewhere, conv |-> Elsewhere, token |-> 0, since |-> 0]
Times == 0 .. TeamsMaxTime
TeamsReply == [at: {"idle", "context", "minting", "posting"}, user: TeamsUsers \cup {Elsewhere},
          conv: Conversations \cup {Elsewhere}, token: Times, since: Times]

TeamsTypeOK ==
    /\ teamsNow \in Times
    /\ convCache \in [TeamsUsers -> Conversations \cup {Elsewhere}]
    /\ tokenCache \in [issued: Times, expires: 0 .. TeamsMaxTime + TokenLife]
    /\ replyAt \in [TeamsReplies -> TeamsReply]
    /\ heardIn \in [TeamsUsers -> SUBSET Conversations]
    /\ lastPost \in TeamsReply

TeamsInit ==
    /\ teamsNow = 0
    /\ convCache = [u \in TeamsUsers |-> Elsewhere]
    /\ tokenCache = [issued |-> 0, expires |-> 0]
    /\ replyAt = [r \in TeamsReplies |-> NoReply]
    /\ heardIn = [u \in TeamsUsers |-> {}] /\ lastPost = NoReply

-----------------------------------------------------------------------------
(* Mutant of CachedFor: one context for the adapter, not one per sender.   *)
CachedForAll(u) == TeamsUsers

(* The senders whose context an activity of u sets.                        *)
CachedFor(u) == {u}

(* A message that passed the adapter's gate; a serviceUrl on another host  *)
(* is not cached, and what was cached stays.                               *)
Activity(u, c) ==
    /\ IF c \in TrustedConversations
       THEN /\ convCache' = [v \in TeamsUsers |-> IF v \in CachedFor(u) THEN c ELSE convCache[v]]
            /\ heardIn' = [heardIn EXCEPT ![u] = @ \cup {c}]
       ELSE UNCHANGED <<convCache, heardIn>>
    /\ UNCHANGED <<teamsNow, tokenCache, replyAt, lastPost>>

(* send reads the context; without one it raises.                          *)
StartReply(r, u) ==
    /\ replyAt[r].at = "idle" /\ convCache[u] # Elsewhere
    /\ replyAt' = [replyAt EXCEPT ![r] =
                      [at |-> "context", user |-> u, conv |-> convCache[u], token |-> 0,
                       since |-> teamsNow]]
    /\ UNCHANGED <<teamsNow, convCache, tokenCache, heardIn, lastPost>>

(* Mutant of TokenUsable: the token is used to its end.                    *)
TokenUsableToTheEnd == tokenCache.expires > teamsNow

TokenUsable == tokenCache.expires > teamsNow + TokenMargin

Posting(r, token) == [replyAt[r] EXCEPT !.at = "posting", !.token = token, !.since = teamsNow]

(* The cached token, or a request for a new one; the login service issues  *)
(* it as the request reaches it.                                           *)
TakeToken(r) ==
    /\ replyAt[r].at = "context" /\ replyAt[r].since = teamsNow
    /\ replyAt' = [replyAt EXCEPT ![r] =
                      IF TokenUsable THEN Posting(r, tokenCache.issued)
                      ELSE [@ EXCEPT !.at = "minting", !.token = teamsNow]]
    /\ UNCHANGED <<teamsNow, convCache, tokenCache, heardIn, lastPost>>

(* The answer: its lifetime is counted from its arrival.  Or the request   *)
(* fails and send raises.                                                  *)
TokenArrives(r) ==
    /\ replyAt[r].at = "minting"
    /\ \/ /\ tokenCache' = [issued |-> replyAt[r].token, expires |-> teamsNow + TokenLife]
          /\ replyAt' = [replyAt EXCEPT ![r] = Posting(r, @.token)]
       \/ /\ replyAt' = [replyAt EXCEPT ![r] = NoReply] /\ UNCHANGED tokenCache
    /\ UNCHANGED <<teamsNow, convCache, heardIn, lastPost>>

(* The post reaches the Connector, or does not; 429 and errors end the     *)
(* reply alike.                                                            *)
PostArrives(r) ==
    /\ replyAt[r].at = "posting"
    /\ replyAt' = [replyAt EXCEPT ![r] = NoReply]
    /\ lastPost' \in {replyAt[r], lastPost}
    /\ UNCHANGED <<teamsNow, convCache, tokenCache, heardIn>>

(* Nothing is under way for longer than a request may take.                *)
TeamsTick ==
    /\ teamsNow < TeamsMaxTime
    /\ \A r \in TeamsReplies :
          /\ replyAt[r].at # "context"
          /\ replyAt[r].at # "idle" => teamsNow < replyAt[r].since + RequestTimeout
    /\ teamsNow' = teamsNow + 1
    /\ lastPost' = NoReply
    /\ UNCHANGED <<convCache, tokenCache, replyAt, heardIn>>

TeamsNext ==
    \/ \E u \in TeamsUsers, c \in Conversations : Activity(u, c)
    \/ \E r \in TeamsReplies, u \in TeamsUsers : StartReply(r, u)
    \/ \E r \in TeamsReplies : TakeToken(r)
    \/ \E r \in TeamsReplies : TokenArrives(r)
    \/ \E r \in TeamsReplies : PostArrives(r)
    \/ TeamsTick

TeamsSpec == TeamsInit /\ [][TeamsNext]_teamsVars

-----------------------------------------------------------------------------
(* A post never carries a token that has run out on its way: the margin of *)
(* 60 seconds covers both the answer that was late when its lifetime was   *)
(* counted and the post itself, also when two replies mint at once and the *)
(* older token is cached last (adapter.py:99-118).                         *)
TokenAliveOnArrival == lastPost.at = "posting" => teamsNow < lastPost.token + TokenLife

(* A reply reaches a conversation in which its receiver has written,       *)
(* whoever else wrote in between (adapter.py:185-189, 221-242).            *)
ReachesItsReader == lastPost.at = "posting" => lastPost.conv \in heardIn[lastPost.user]

=============================================================================
