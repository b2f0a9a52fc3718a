SPECIFICATION Spec
SYMMETRY EdgeSymmetry
CONSTANTS
    x1 = x1
    x2 = x2
    x3 = x3
    Txns = {x1, x2, x3}
    Accounts = {"a", "b"}
    WithBalance = {"a"}
    MaxChunks = 2
    Arrivals = {x1, x2, x3}
    Addresses = {"a1", "a2"}
    Subnet <- MCSubnet
    RateLimit <- MCRate
    ActiveLimit <- MCActive
    Window = 1
    MaxEntries = 5
    IngressMaxClock = 1
    Bodies <- MCBodies
    Globs = {"m*"}
    KeyIds = {"k1", "k2"}
    BootKeys = {"k1", "k2"}
    Caps = {"rot", "rev", "far"}
    CapInfo <- MCCapInfo
    Uses = {1, 2}
    Deployment = "primary"
    Provider = "venice"
    Signers = {"s1"}
    Grace = 1
    MaxLog = 2
    AdminMaxClock = 2
    WorkerProviders = {"near-ai", "chutes", "aws-bedrock"}
    PoolLists = {{"near-ai", "chutes"}}
    Enclaves = {"enc1", "enc2"}
    PinnedHost <- MCPinned
    NearModels = {"m1"}
    ForeignHosts = {"elsewhere"}
    Calls = {1}
    TlsRequests = {1, 2}
    EvidenceRequests = {2}
    Loads = {1, 2, 3}
    VerificationTtl = 1
    MaxKey = 2
    TlsMaxClock = 3
    BootRoles = {"api", "migrate", "control", "relay", "compat", "gateway-attestation", "release-collateral", "pool-worker", "venice-worker", "tinfoil-worker", "fireworks-worker", "bedrock-worker", "deepinfra-worker"}
    KeyProviders = {"venice", "tinfoil", "fireworks", "deepinfra"}
    PoolChoices = {{"venice", "tinfoil"}, {}}
    Switches = {"production", "dotenv", "database", "signing-key", "connect", "stripe-live"}
    TokenValues = {"none", "weak", "tinfoil", "worker"}
    MaxEdits = 2
    AuthorityFetchers <- MCAuthorityFetchers
    Askers = {1}
    CallsPerLoad = 1
    FreshFor = 1
    SwrFor = 1
    MaxStale = 1
    ErrorBackoff = 1
    MaxErrorBackoff = 2
    MaxRetryAfter = 1
    LoadTimeout = 1
    CacheEntries = 1
    HostBurst = 1
    TokenTicks = 3
    MaxVersion = 2
    AuthorityMaxClock = 3
    Lookups = {x1, x2, x3}
    Files = {"f1", "f2"}
    Apps = {"a1", "a2"}
    Questions <- MCQuestions
    KnownImageApps = {"a1"}
    MaxClaims = 2
    MaxOpen = 1
    MaxConcurrent = 1
    RequestBurst = 2
    NovelBurst = 1
    MaxSubjects = 1
    NovelTicks = 1
    CollateralMaxClock = 1
INVARIANT NoDeadlock
INVARIANT DoneMeansComplete
INVARIANT NoLostWakeup
INVARIANT CountsAreTrue
INVARIANT ChargedOnce
INVARIANT AuthorisationsAreKept
INVARIANT CredentialStaysHome
INVARIANT EvidenceIsCurrent
INVARIANT AuthorityIsConfined
INVARIANT ServedAgeIsTrue
INVARIANT OutboundIsAdmitted
CHECK_DEADLOCK FALSE
