SPECIFICATION ServicesSpec
CONSTANTS
    Tiers = {"tiny", "large", "huge", "r1", "r2"}
    Ladders <- MCLadders
    TierSpec <- MCTierSpec
    Roles <- MCRoles
    NoTier = "none"
    NoProvider = NoProvider
    Instances <- MCInstances
    InstancesOf <- MCInstancesOf
    Unavailable = {"g_2"}
    MaxCtx <- MCMaxCtx
    BlendedCost <- MCBlendedCost
    Quality <- MCQuality
    PinFirst = {"o"}
    Tradeoff = 50
    EscalationOn = TRUE
    MaxEscalations = 1
    Triggers = {"empty_response", "low_confidence"}
    ScoreOf <- MCScoreOf
    ConfidenceThreshold = 40
    Estimates = {0, 3}
    Embedders = {"ollama", "gemini"}
    EmbedCallers = {x, y}
    NoEmbedder = NoEmbedder
    EmbedOrder <- MCEmbedOrder
    EmbedRpm <- MCEmbedRpm
    EmbedCooldown <- MCEmbedCooldown
    BackoffSteps <- MCBackoffSteps
    EmbedBoot = 3
    EmbedMaxTime = 6
    Window = 2
    Dials = {"unset", "off", "low", "high"}
    Formats = {"text", "json_object", "json_schema"}
    Servers <- MCServers
    MaxBusy = 1
    Blocks = {"a", "b"}
    MaxGeminiBusy = 1
    Threads = {"main", "worker"}
    Main = "main"
    ToolCalls <- MCToolCalls
    RuleSets <- MCRuleSets
    Unusable = Unusable
    Absent = Absent
    MaxSignals = 1
    MaxEdits = 1
    MaxAsks = 2
    Hosts = {h, k}
    Addresses = {"public", "other", "private"}
    Forbidden = {"private"}
    NoAddress = "none"
    MaxRedirects = 2
    BodyCap = 2
    MaxImages = 2
    MaxRenames = 1
INVARIANTS
    ServicesTypeOK
    RoutingSound
    EmbedRpmBounded
    ClientsSound
    PolicySound
PROPERTIES
    FetchGuarded
    ServicesEnd
CHECK_DEADLOCK FALSE
