\* Reloads, repayments, purchases, bills and quotes of one customer, racing with
\* every fault or one after the other; invoice.paid is handled in the end.
SPECIFICATION FairSpec
CONSTANTS
    Calls = {"reload1", "reload2", "buy", "buyAgain", "webhook", "poller", "click1", "click2", "bill"}
    Keys <- AllKeys
    KeyOf <- Keyed
    Kind <- Kinded
    Credits <- Amounts
    Scenes <- Situations
INVARIANTS
    OneGrantRequest
    BillsItsOwnItem
PROPERTIES
    KeepsPromise
    PaidIsCredited
