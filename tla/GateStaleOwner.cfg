SPECIFICATION Spec
CONSTANTS
    ann = ann
    bob = bob
    Clients = {gateway, cli}
    Gateway = gateway
    Users = {ann, bob}
    Codes = {k1}
    CodeTTL = 1
    None = None
    MaxTime = 0
    MaxCrashes = 0
    MaxAsked = 1
    Sockets = {ws}
    Hooks = {hook}
    AllowedSenders = {bob}
    IsPublic = TRUE
    MentionOnly = TRUE
    HasTokens = TRUE
    Envelopes <- MCEnvelopes
    MaxMessages = 1
CHECK_DEADLOCK FALSE
PROPERTIES
    CurrentOwnersOnly
