----------------------------- MODULE MCSetAside -----------------------------
(* Small instances of SetAside: the callers, their invoices and the amounts. *)
EXTENDS SetAside

\* Two sales with an invoice each, a second caller of the first sale, and the
\* webhook and the poller both delivering invoice.created for a renewal draft.
IssuedBy == [o \in Ops |-> CASE o = "saleB" -> "invB"
                             [] o \in Rechecks -> "renewal"
                             [] OTHER -> "invA"]

\* Invoices smaller than the wallet and one larger.
Totals == [i \in Invoices |-> IF i = "renewal" THEN 4 ELSE 2]

\* One renewal delivered twice, with every fault and with all but a lost debit
\* answer; a sale beside a renewal, with requests that fail cleanly; and one
\* finalization at a time, nothing failing.
Delivered == [ops |-> {"webhook", "poller"}, faults |-> FaultKinds, serial |-> FALSE]
Answered  == [Delivered EXCEPT !.faults = @ \ {"lost_aside"}]
Sales     == [ops |-> {"saleA", "webhook"}, faults |-> {"error", "grant"}, serial |-> FALSE]
InTurn    == [ops |-> {"saleA", "saleAagain", "webhook"}, faults |-> {"grant"}, serial |-> TRUE]
Situations == {Delivered, Answered, Sales, InTurn}

\* Two sales at once, nothing failing.
AtOnce == {[ops |-> {"saleA", "saleB"}, faults |-> {}, serial |-> FALSE]}
=============================================================================
