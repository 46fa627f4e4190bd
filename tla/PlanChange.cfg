\* Moves up, down, off and back of one subscription, in turn and racing.
SPECIFICATION FairSpec
CONSTANTS
    Plans = {"free", "basic", "pro", "max"}
    Free = "free"
    Rank <- Ladder
    MaxSeats = 2
    Calls = {"cancel", "stay", "seat", "down", "up", "click1", "click2"}
    Want <- Wanted
    Now = {"click1", "click2"}
    Start <- OnPro
    Scenes <- Situations
    MaxPeriods = 2
INVARIANTS
    GrantedWasBilled
    PlanStands
    OneInvoice
PROPERTIES
    MirrorSettles
