\* Renewals and sales of one customer, alone, together and in turn, with and
\* without faults; every operation runs to its end.
SPECIFICATION FairSpec
CONSTANTS
    Ops = {"saleA", "saleAagain", "webhook", "poller"}
    Invoices = {"invA", "renewal"}
    InvoiceOf <- IssuedBy
    Rechecks = {"webhook", "poller"}
    Total <- Totals
    Opening = 3
    Scenes <- Situations
    MaxCalls = 1
    MaxGrant = 1
INVARIANTS
    NoCreditMinted
    ShortOnlyIfLogged
    NothingEaten
PROPERTIES
    WindowCloses
