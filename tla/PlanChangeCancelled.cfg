\* A cancellation followed by an upgrade, nothing failing.
SPECIFICATION Spec
CONSTANTS
    Plans = {"free", "basic", "pro", "max"}
    Free = "free"
    Rank <- Ladder
    MaxSeats = 2
    Calls = {"cancel", "stay", "seat", "down", "up", "click1", "click2"}
    Want <- Wanted
    Now = {"click1", "click2"}
    Start <- OnPro
    Scenes <- ChangedMind
    MaxPeriods = 2
INVARIANTS
    UpgradeOutlivesPeriod
