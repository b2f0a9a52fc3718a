SPECIFICATION Spec
SYMMETRY RoutingSymmetry
CONSTANTS
    x1 = x1
    x2 = x2
    x3 = x3
    y1 = y1
    y2 = y2
    SyncPools = {{"venice"}, {"aws-bedrock"}}
    Callers = {y1, y2}
    MaxRetries = 1
    GateLimit = 1
    LaneLimit = 1
    MaxTargets = 2
    MaxKeyEdits = 1
    MaxPolls = 1
    Published <- MCPublished
    RelayRoutes <- MCRelayRoutes
    NearReviewed <- MCNearReviewed
    DefaultSampling = {"gpt"}
    TieredUpstream = {"gemini-pro"}
    UpstreamBase = 3
    NearApproved <- MCNearApproved
    DeepInfraReviewed <- MCDeepReviewed
    DeepInfraBlocks = {}
    IntermittentTools = {}
    PhalaHolds <- MCPhalaHolds
    ChutesApproved <- MCChutesApproved
    TinfoilApproved <- MCTinfoilApproved
    FireworksApproved <- MCFireworksApproved
    BedrockApproved <- MCBedrockApproved
    OutputCeiling = 4
    PerMillion = 2
    MaxUsage = 2
    CatalogRows = {1, 2, 3}
    RowInfo <- MCRowInfo
    ModelIds = {"m", "near-ai/m"}
    IdNamespace <- MCIdNs
    GovernedClass <- MCGoverned
    VerifiedRoutes = {}
    StaleAfter = 0
    CriticalAfter = 1
    ListedClasses = {"anonymous", "tee"}
    PriceCeiling <- MCCeiling
    CatalogMaxClock = 2
    MaxWrites = 2
    PlanRoutes = {1, 2, 3, 4, 5}
    RouteInfo <- MCRouteInfo
    PolicyInputs <- MCInputs
    Workspaces <- MCWorkspaces
    RequestFacts <- MCFacts
    MaxProviderAttempts = 3
    MaxHealthChanges = 1
    AutoRequests = {x1, x2, x3}
    AutoBodies <- MCAutoBodies
    Preferences <- MCPreferences
    Votes <- MCVotes
    AutoRows = {1, 2, 3, 4}
    Listings <- MCListings
    AutoInfo <- MCAutoInfo
    MatchedNames <- MCMatchedNames
    Held = {"fireworks"}
    MaxQueue = 2
    CacheTtl = 1
    AutoMaxClock = 1
    MaxListings = 1
    Letters = {"a", "b"}
    MaxGlob = 4
    MaxValue = 4
    MaxGlobWildcards = 3
    Clients = {y1, y2}
    Builds <- MCBuilds
    Pinned <- MCGatewayPolicy
    GatewayOrigins <- MCOrigins
    Transport = "in-tee-tls"
    Chains = {"good"}
    Connections <- MCConnections
    TlsTtl = 1
    GatewayMaxClock = 1
    MaxRenewals = 1
    MaxDeploys = 1
INVARIANT SyncIsSound
INVARIANT CatalogServesSoundly
INVARIANT PlanKeepsPolicy
INVARIANT GlobIsExact
INVARIANT QueueIsServed
INVARIANT SelectionIsComplete
INVARIANT AcceptanceIsExact
INVARIANT ListingIsSound
CHECK_DEADLOCK FALSE
