SPECIFICATION ChannelsSpec
CONSTANTS
    Clients = {gateway, cli}
    Users = {user1, user2}
    Codes = {k1}
    CodeTTL = 1
    None = None
    MaxTime = 2
    MaxCrashes = 1
    MaxAsked = 2
    Blobs = {"x"}
    MaxAge = 1
    ArtMaxTime = 2
    PageSize = 2
    AttachmentSets = {{}, {"x"}}
    MaxMails = 3
    MaxGmailPolls = 3
    MaxGmailRestarts = 1
    Mails = {"m1", "m2", "m3"}
    Threads = {"t1", "t2"}
    ThreadOf <- MCThreadOf
    NoMail = NoMail
    PublicImap = TRUE
    BackoffLength = 2
    MaxDrops = 2
    Streams = {"s1", "s2"}
    Unknown = Unknown
    CallerOf <- MCCallerOf
    FrameSizes = {0, 1, 2}
    MaxBufferBytes = 2
    MaxFrames = 2
    Webhooks = {"w1", "w2"}
    EventsOf <- MCEventsOf
    LineUsers = {"u1", "u2"}
    SenderOf <- MCSenderOf
    TokenOf <- MCTokenOf
    TokenTtl = 1
    LineMaxTime = 3
    Deliveries = {"d1", "d2"}
    Leads = {0, 1}
    ReplayWindow = 2
    HookMaxTime = 6
    WaUsers = {"u1", "u2", "u3"}
    ProviderCacheMax = 2
    TwilioFrom = TRUE
    MaxReplies = 1
    Texts = {"x1"}
    BotNumberOf <- MCNumberOf
    MediaOf <- MCMediaOf
    NoNumber = NoNumber
    MaxPosts = 2
    ConfiguredNumbers = {"n1", NoNumber}
    TgUsers = {"u1", "u2"}
    NoOwner = NoOwner
    ListedUsers = {"u2"}
    TgPage = 2
    MaxUpdates = 2
    MaxTgRestarts = 1
    TeamsUsers = {"u1", "u2"}
    Conversations = {"a", "x"}
    TrustedConversations = {"a"}
    Elsewhere = Elsewhere
    TeamsReplies = {"r1", "r2"}
    TokenLife = 3
    TokenMargin = 2
    RequestTimeout = 1
    TeamsMaxTime = 4
    Persons = {"p1", "p2"}
    ListedPersons = {"p2"}
    Nothing = Nothing
    MentionsOnly = TRUE
    Listeners = {l1, l2}
    MaxClips = 2
    MaxSttFrames = 2
    MaxSttCrashes = 1
INVARIANTS
    ChannelsTypeOK
    RepeatsBounded
    NothingLost
    RightParty
    GatesHold
    NothingOutlived
    TranscriptsSound
    EveryPairingAsked
    CodeUseBounded
CHECK_DEADLOCK FALSE
