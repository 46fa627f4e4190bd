\* Overlapping, restarted and ageing sweeps, and a provider that is down.
SPECIFICATION FairSpec
CONSTANTS
    Sweepers = {"cron", "replica"}
    Page = 2
    MaxPerPoll = 3
    MaxEvents = 4
    Scenes <- Situations
INVARIANTS
    PassedIsAccounted
PROPERTIES
    SweepKeepsUp
