SPECIFICATION SetUpSpec
CONSTANTS
    Processes = {"a", "b", "c"}
    Catalogs <- MCCatalogs
    PriceSpecs <- MCSpecs
    Subscribers = {"s1", "s2"}
    MaxPrices = 5
    MaxProducts = 4
    CatScenes <- MCScenes
    LocalTaxOrigins = {"FR", "IT", "DE", "GB"}
    FirstSale = {"GB"}
    FromThreshold = {"NO", "AU"}
INVARIANTS
    ReconciledAlone
    MovedAsBought
    HealthyMeansDone
    HooksSurvive
    PassedPlansServe
    PagesAreTrue
    SurfacesAgree
PROPERTIES
    SalesRecover
CHECK_DEADLOCK FALSE
