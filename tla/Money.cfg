SPECIFICATION MoneySpec
CONSTANTS
    CacheCallers = {c1, c2}
    Questions = {"q1", "q2", "q3"}
    Spaces <- MCSpaces
    Like <- MCLike
    Threshold = 2
    Ttl = 1
    MaxEntries = 2
    Tokens = 5
    CacheMaxTime = 2
    MaxRows = 3
    MaxConsults = 3
    MaxCacheCrashes = 1
    GeminiCallers = {g1, g2}
    Keys = {k}
    NoKey = NoKey
    MintTtl = 4
    Margin = 1
    MintTimeout = 1
    GeminiMaxTime = 5
    MaxMints = 5
    ModelRates <- MCModelRates
    PatternRates <- MCPatternRates
    ProviderRates <- MCProviderRates
    Unpriced <- MCUnpriced
    BaseOf <- MCBaseOf
    SuffixOf <- MCSuffixOf
    Payers = {p1, p2}
    Values = {"a:x", "s:r"}
    Principals = {{"a:x", "s:r"}}
    Patterns = {"a:*", "a:x", "s:r"}
    Governs <- MCGoverns
    Specificity <- MCSpecificity
    BudgetFiles <- MCFiles
    Limits <- MCLimits
    PeriodLength <- MCPeriods
    Calls <- MCCalls
    BudgetMaxTime = 1
    MaxBooked = 2
    MaxRestarts = 1
    Window = 2
    Senders = {"alice", "bob"}
    Cap <- MCCap
    SweepInterval = 2
    Boot = 3
    MaxTime = 7
    Speakers = {s1, s2}
    Texts <- MCTexts
    QuotaLimit = 6
    MaxChars = 2
    MaxAudio = 1
    MaxSpeaks = 3
    MaxMonths = 2
    MaxFrames = 2
    MaxTtsCrashes = 1
INVARIANTS
    MoneyTypeOK
    CacheSound
    ContentsSound
    SpendBounded
    QuotaHeld
    IdleForgotten
    SpeechAccounted
PROPERTIES
    PostedLimitsBind
    KeepsPromise
CHECK_DEADLOCK FALSE
