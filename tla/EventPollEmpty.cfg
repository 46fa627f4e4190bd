\* A first sweep of an account that has no event yet, nothing failing.
SPECIFICATION Spec
CONSTANTS
    Sweepers = {"cron"}
    Page = 2
    MaxPerPoll = 3
    MaxEvents = 4
    Scenes <- NewAccount
INVARIANTS
    FirstRunIsBaseline
