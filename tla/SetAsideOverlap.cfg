\* Two sales finalized at the same time, nothing failing.
SPECIFICATION Spec
CONSTANTS
    Ops = {"saleA", "saleB"}
    Invoices = {"invA", "invB"}
    InvoiceOf <- IssuedBy
    Rechecks = {}
    Total <- Totals
    Opening = 3
    Scenes <- AtOnce
    MaxCalls = 0
    MaxGrant = 0
INVARIANTS
    OutsideWallet
