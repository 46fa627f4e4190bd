---------------------------- MODULE MCCreditSale ----------------------------
(* Small instances of CreditSale: who calls what, under which key. *)
EXTENDS CreditSale

\* Two reload triggers of one hour that read the balance a credit apart; card
\* purchases, whose keys carry the clock; a shortfall repaid by the webhook and
\* the poller; a quote approved twice by a double click; an emailed bill.
Keyed == [c \in Calls |-> CASE c \in {"reload1", "reload2"} -> "kHour"
                            [] c \in {"webhook", "poller"} -> "kRepay"
                            [] c \in {"click1", "click2"} -> "kQuote"
                            [] c = "bill" -> "kBill"
                            [] c = "buy" -> "kBuy"
                            [] OTHER -> "kBuy2"]

Kinded == [c \in Calls |-> CASE Keyed[c] = "kHour" -> "reload"
                             [] Keyed[c] = "kRepay" -> "repay"
                             [] Keyed[c] = "kQuote" -> "sell"
                             [] Keyed[c] = "kBill" -> "bill"
                             [] OTHER -> "saved_card"]

Amounts == [c \in Calls |-> IF c = "reload2" THEN 2 ELSE 1]

AllKeys == {"kHour", "kRepay", "kQuote", "kBill", "kBuy", "kBuy2"}

Reloads  == [calls |-> {"reload1", "reload2", "buy"}, faults |-> FaultKinds, serial |-> FALSE]
Repays   == [calls |-> {"webhook", "poller", "bill"}, faults |-> FaultKinds, serial |-> FALSE]
Quotes   == [calls |-> {"click1", "click2", "reload1"}, faults |-> FaultKinds, serial |-> FALSE]
InTurn   == [calls |-> {"bill", "buy", "buyAgain"}, faults |-> {"decline"}, serial |-> TRUE]
Busy     == [calls |-> {"reload1", "reload2", "webhook", "poller"}, faults |-> FaultKinds, serial |-> FALSE]
Situations == {Reloads, Repays, Quotes, InTurn, Busy}

\* Two card purchases at the same time, nothing failing.
AtOnce == {[calls |-> {"buy", "buyAgain"}, faults |-> {}, serial |-> FALSE]}
=============================================================================
