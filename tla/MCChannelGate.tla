---------------------------- MODULE MCChannelGate ----------------------------
(* A stranger who claims to be the owner, with and without a mention, and  *)
(* a listed sender, at one socket and one webhook of a public channel.     *)
EXTENDS ChannelGate

CONSTANTS ann, bob

Says(u, mentioned, token) ==
    [user |-> u, trust |-> "owner_paired", public |-> FALSE, mentioned |-> mentioned,
     token |-> token]
MCEnvelopes == {Says(ann, TRUE, TRUE), Says(ann, TRUE, FALSE), Says(bob, FALSE, TRUE)}
=============================================================================
