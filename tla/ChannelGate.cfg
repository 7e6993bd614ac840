SPECIFICATION Spec
CONSTANTS
    ann = ann
    bob = bob
    Clients = {gateway, cli}
    Gateway = gateway
    Users = {ann, bob}
    Codes = {k1}
    CodeTTL = 1
    None = None
    MaxTime = 1
    MaxCrashes = 1
    MaxAsked = 1
    Sockets = {ws}
    Hooks = {hook}
    AllowedSenders = {bob}
    IsPublic = TRUE
    MentionOnly = TRUE
    HasTokens = TRUE
    Envelopes <- MCEnvelopes
    MaxMessages = 2
CHECK_DEADLOCK FALSE
INVARIANTS
    TypeOK
    TrustFromStore
    ClaimNeverRelaxes
    EveryMessageAudited
PROPERTIES
    EveryMessageEnds
