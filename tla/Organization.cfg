\* The queues of an organization, its members, and its end.
SPECIFICATION Spec
CONSTANTS
    Members = {"ann"}
    Administrators = {"bob"}
    Windows = {"cycle", "week"}
    MaxTurns = 1
    MaxTopUpCalls = 6
    Amount = 1
    RequestSize = 4
    GrantSize = 5
    ValueLimit = 13
    KeysPerOrg = 3
    Askers = {"ann", "eve"}
    Handlers = {"bob"}
    Catalogue <- MCCatalogue
    Totals = {1, 2}
    Days = 1
    MaxAsks = 6
    AskLimit = 9
    TopUpScenes <- MCTopUpScenes
    AskScenes <- MCAskScenes
    Orgs = {"here", "there"}
    People = {"ann", "bob", "cyd"}
    Actors = {"a1", "a2"}
    Model <- MCModel
    MaxCalls = 4
    Home = "here"
    Subscriptions = {"s1", "s2"}
    Closers = {"k1"}
    MaxCloses = 2
    Readers = {"r1", "r2"}
    MaxReads = 4
    MaxMade = 3
    Claims = {"c1", "c2"}
    Desks = {"d1", "d2"}
    MaxRequests = 6
    Served = {"q1", "q2"}
    Trips = {"t1", "t2"}
    ClaimScenes <- MCClaimScenes
    ConnectorScenes <- MCConnectorScenes
    MemberScenes <- MCMemberScenes
    MirrorScenes <- MCMirrorScenes
    Scenes <- MCScenes
INVARIANTS
    GrantsAreKept
    SettledOnce
    AdminRemains
    NothingLeftBehind
    OneOrganization
    AccessIsKept
PROPERTIES
    AsksAreKept
    NothingGivenAway
CHECK_DEADLOCK FALSE
