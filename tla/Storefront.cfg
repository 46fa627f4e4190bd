\* Sessions, their payment and completion, and the workspace's first customer; and,
\* apart from them, the customer's account and the tax its charges carry.
SPECIFICATION StorefrontSpec
CONSTANTS
    Buyers = {"b1", "b2"}
    Processes = {"p1", "p2"}
    Finishers = {"f1", "f2"}
    Welcomers = {"w1", "w2"}
    Model <- MCModel
    Asks <- MCAsks
    Counts <- MCCounts
    MaxSessions = 2
    MaxCustomers = 3
    MaxChanges = 2
    MaxCalls = 3
    Scenes <- MCScenes
    EUMembers = {"FR", "DE", "GR"}
    StandardRate <- MCRate
    Countries = {"FR", "DE", "GR", "GB", "US"}
    States = {"CA"}
    Holders = {"h1", "h2"}
    Cards <- MCCards
    Numbers <- MCNumbers
    MaxCards = 1
    MaxChores = 3
    AccountScenes <- MCAccountScenes
    Sales = {"x1", "x2", "x3"}
    Servers = {"p1", "p2"}
    ServedBy <- MCServedBy
    Ttl = 2
    MaxTime = 2
    MaxCharges = 3
    TaxScenes <- MCTaxScenes
    Deployments <- MCDeployments
INVARIANTS
    BoughtIsRecorded
    AccountIsKept
    ChargedAsRegistered
    SessionFollows
PROPERTIES
    CustomerIsKept
    ReverseIsConfirmed
CHECK_DEADLOCK FALSE
