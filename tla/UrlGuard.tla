------------------------------ MODULE UrlGuard ------------------------------
(***************************************************************************)
(* The fetch of the images that a chat names by URL                        *)
(* (_resolve_image_urls in glc/routes/chat.py, fetch_bytes in              *)
(* glc/security/ssrf.py): every hop resolves its host once, judges what it *)
(* got, and dials the address it judged.  The domain name system and the   *)
(* servers are external: a name may change between any two steps.          *)
(***************************************************************************)
EXTENDS Integers, Sequences, FiniteSets

CONSTANTS
    Hosts, Addresses, Forbidden,    \* Forbidden: private, loopback, reserved
    NoAddress,
    MaxRedirects, BodyCap,          \* MAX_REDIRECTS; MAX_IMAGE_BYTES, in chunks
    MaxImages, MaxRenames           \* bounds

ASSUME UrlGuardAssumption ==
    /\ Forbidden \subseteq Addresses /\ NoAddress \notin Addresses
    /\ {MaxRedirects, BodyCap, MaxImages, MaxRenames} \subseteq Nat

VARIABLES
    zone,       \* host -> the addresses that its name has now
    fetch,      \* [at, host, hops, pin, buffered]
    dialled,    \* the address last connected to
    images, renames

urlVars == <<zone, fetch, dialled, images, renames>>

Unfetched == [at |-> "idle", host |-> NoAddress, hops |-> 0, pin |-> NoAddress, buffered |-> 0]
AddressLists == {<<>>} \cup {<<a>> : a \in Addresses} \cup {<<a, b>> : a \in Addresses, b \in Addresses}

UrlTypeOK ==
    /\ zone \in [Hosts -> AddressLists]
    /\ fetch.at \in {"idle", "resolving", "connecting", "asking", "reading", "refused"}
    /\ fetch.hops \in 0 .. MaxRedirects + 1 /\ fetch.pin \in Addresses \cup {NoAddress}
    /\ dialled \in Addresses \cup {NoAddress}

UrlInit ==
    /\ zone \in [Hosts -> {<<a>> : a \in Addresses}]
    /\ fetch = Unfetched /\ dialled = NoAddress /\ images = 0 /\ renames = 0

Go(at) == fetch' = [fetch EXCEPT !.at = at]

-----------------------------------------------------------------------------
(* The next image of the request; a refusal ends the request.              *)
FetchImage(host) ==
    /\ fetch.at = "idle" /\ images < MaxImages
    /\ fetch' = [Unfetched EXCEPT !.at = "resolving", !.host = host]
    /\ images' = images + 1 /\ UNCHANGED <<zone, dialled, renames>>

(* Mutant of Safe: the address to be dialled is the only one judged.       *)
SafeFirst(ips) == ips # <<>> /\ ips[1] \notin Forbidden

Safe(ips) == ips # <<>> /\ \A i \in DOMAIN ips : ips[i] \notin Forbidden

(* prepare_safe_target                                                     *)
ResolveHop ==
    LET ips == zone[fetch.host] IN
    /\ fetch.at = "resolving"
    /\ IF Safe(ips) THEN fetch' = [fetch EXCEPT !.at = "connecting", !.pin = ips[1]] ELSE Go("refused")
    /\ UNCHANGED <<zone, dialled, images, renames>>

(* Mutant of DialAddress: the name is looked up once more.                 *)
DialAddressAgain == IF zone[fetch.host] = <<>> THEN fetch.pin ELSE zone[fetch.host][1]

DialAddress == fetch.pin

(* connect_tcp of the pinning backend.                                     *)
Connect ==
    /\ fetch.at = "connecting"
    /\ \/ dialled' = DialAddress /\ Go("asking")
       \/ Go("refused") /\ UNCHANGED dialled
    /\ UNCHANGED <<zone, images, renames>>

(* Mutant of NextHop: redirects are followed without counting them.        *)
NextHopUncounted(host) == [Unfetched EXCEPT !.at = "resolving", !.host = host, !.hops = fetch.hops]

NextHop(host) ==
    [Unfetched EXCEPT !.at = IF fetch.hops = MaxRedirects THEN "refused" ELSE "resolving",
                      !.host = host, !.hops = fetch.hops + 1]

(* A redirect, with or without a location, an error, too much announced,   *)
(* or a body.                                                              *)
ServerAnswers ==
    /\ fetch.at = "asking"
    /\ \/ \E host \in Hosts : fetch' = NextHop(host)
       \/ \E at \in {"refused", "reading"} : Go(at)
    /\ UNCHANGED <<zone, dialled, images, renames>>

(* Mutant of Fits: measured after the chunk was kept.                      *)
FitsLate == fetch.buffered <= BodyCap

Fits == fetch.buffered + 1 <= BodyCap

ReadBodyChunk ==
    /\ fetch.at = "reading"
    /\ IF Fits THEN fetch' = [fetch EXCEPT !.buffered = @ + 1] ELSE Go("refused")
    /\ UNCHANGED <<zone, dialled, images, renames>>

BodyEnds ==
    /\ fetch.at = "reading" /\ \E at \in {"idle", "refused"} : Go(at)
    /\ UNCHANGED <<zone, dialled, images, renames>>

Rename(host, ips) ==
    /\ renames < MaxRenames /\ renames' = renames + 1
    /\ zone' = [zone EXCEPT ![host] = ips] /\ UNCHANGED <<fetch, dialled, images>>

FetchStep == ResolveHop \/ Connect \/ ServerAnswers \/ ReadBodyChunk \/ BodyEnds

UrlNext ==
    \/ \E host \in Hosts : FetchImage(host)
    \/ FetchStep
    \/ \E host \in Hosts, ips \in AddressLists : Rename(host, ips)

(* Every await of a hop returns: FETCH_TIMEOUT sees to it.                 *)
UrlFairness == WF_urlVars(FetchStep)

UrlSpec == UrlInit /\ [][UrlNext]_urlVars /\ UrlFairness

-----------------------------------------------------------------------------
(* Whatever becomes of the name after it was judged, on the first hop or   *)
(* after a redirect, the address that is dialled is the one that was       *)
(* judged with all its siblings (the pin of prepare_safe_target).          *)
DialsOnlyJudged ==
    [][/\ dialled' # dialled => dialled' = fetch.pin /\ dialled' \notin Forbidden
       /\ fetch'.at = "connecting" /\ fetch.at = "resolving" =>
            \A i \in DOMAIN zone[fetch.host] : zone[fetch.host][i] \notin Forbidden]_urlVars

(* No more than the cap is ever held, however the body arrives: it is      *)
(* measured before a chunk is kept (fetch_bytes).                          *)
BodyNeverBeyondCap == fetch.buffered <= BodyCap

(* Every fetch ends, in an answer or a refusal, even between servers that  *)
(* redirect to one another for ever.                                       *)
EveryFetchEnds == fetch.at = "resolving" ~> fetch.at \in {"idle", "refused"}

(* What is fetched comes from a judged address and is never held beyond    *)
(* the cap, on whatever hop (fetch_bytes).                                 *)
FetchGuarded == DialsOnlyJudged /\ []BodyNeverBeyondCap
=============================================================================
