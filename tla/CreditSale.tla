----------------------------- MODULE CreditSale -----------------------------
(***************************************************************************)
(* Selling credits to one customer: purchaseCredits, sellCredits,          *)
(* tryAutoReload and repayWalletShortfall issue an invoice through the     *)
(* same requests (item, invoice, finalize, pay), and the credits are       *)
(* granted by the caller or by whoever handles invoice.paid, all under one *)
(* idempotency key.  A step is one Stripe request; calls interleave, fail, *)
(* lose answers and crash between requests.                                *)
(*                                                                         *)
(* finalizeOutsideWallet is one step here: SetAside models its inside.     *)
(***************************************************************************)
EXTENDS Integers

CONSTANTS
    Calls,        \* executions of the four functions
    Keys,         \* idempotency keys; the invoice a key creates has its name
    KeyOf,        \* [Calls -> Keys]
    Kind,         \* [Calls -> Kinds]
    Credits,      \* [Calls -> Nat \ {0}], what the call means to sell
    Scenes        \* the situations considered, see SceneType

Kinds == {"saved_card", "bill", "sell", "repay", "reload"}
FaultKinds == {"error", "lost", "decline", "crash"}

\* Which calls are made, what the environment may do to them, and whether the
\* customer's calls are kept from overlapping (the code does not).
SceneType == [calls : SUBSET Calls, faults : SUBSET FaultKinds, serial : BOOLEAN]

\* Callers that share an idempotency key run the same function.
ASSUME CreditSaleAssumption ==
    /\ KeyOf \in [Calls -> Keys]
    /\ Kind \in [Calls -> Kinds]
    /\ Credits \in [Calls -> Nat \ {0}]
    /\ Scenes \subseteq SceneType
    /\ \A c, d \in Calls : KeyOf[c] = KeyOf[d] => Kind[c] = Kind[d]

NoRequest == [credits |-> 0, reload |-> FALSE]
Requests  == [credits : Nat, reload : BOOLEAN]

VARIABLES
    scene,        \* the situation, chosen once
    itemAmount,   \* [Keys -> Nat] amount recorded under <key>:item, 0 if none
    pending,      \* SUBSET Keys: items on no invoice yet
    invoice,      \* [Keys -> "none" | "draft" | "open" | "paid"]
    lines,        \* [Keys -> SUBSET Keys] the items an invoice swept up
    meta,         \* [Keys -> Requests] the invoice's metadata (credits, auto_reload)
    grantKey,     \* [Keys -> Requests] request recorded under credit:invoice:<id>
    granted,      \* [Keys -> Nat] credits added to the wallet for the invoice
    pc            \* [Calls -> Steps]

stripeVars == <<itemAmount, pending, invoice, lines, meta, grantKey, granted>>
vars       == <<scene, stripeVars, pc>>

Faults == scene.faults
Serial == scene.serial

Steps    == {"item", "invoice", "fresh", "finalize", "pay", "settled", "grant",
             "done", "refused", "failed", "crashed"}
Terminal == {"done", "refused", "failed", "crashed"}

TypeOK ==
    /\ scene \in Scenes
    /\ itemAmount \in [Keys -> Nat]
    /\ pending \subseteq Keys
    /\ invoice \in [Keys -> {"none", "draft", "open", "paid"}]
    /\ lines \in [Keys -> SUBSET Keys]
    /\ meta \in [Keys -> Requests]
    /\ grantKey \in [Keys -> Requests]
    /\ granted \in [Keys -> Nat]
    /\ pc \in [Calls -> Steps]

Init ==
    /\ scene \in Scenes
    /\ itemAmount = [k \in Keys |-> 0]
    /\ pending = {}
    /\ invoice = [k \in Keys |-> "none"]
    /\ lines = [k \in Keys |-> {}]
    /\ meta = [k \in Keys |-> NoRequest]
    /\ grantKey = [k \in Keys |-> NoRequest]
    /\ granted = [k \in Keys |-> 0]
    /\ pc = [c \in Calls |-> IF c \in scene.calls THEN "item" ELSE "done"]

Goto(c, step) == pc' = [pc EXCEPT ![c] = step]

\* What an exception does: a reload swallows it, a card purchase answers
\* "refused" once its invoice exists, anything else throws to the caller.
Thrown(c, issued) ==
    CASE Kind[c] = "reload" -> "done"
      [] Kind[c] = "saved_card" /\ issued -> "refused"
      [] OTHER -> "failed"

MayStart(c) == Serial => \A d \in Calls \ {c} : pc[d] \in {"item"} \cup Terminal

-----------------------------------------------------------------------------
(* Issuing: invoiceItems.create and invoices.create, each under its key. *)

\* The metadata the call writes on its invoice.
MetaOf(c) == [credits |-> Credits[c], reload |-> Kind[c] = "reload"]

RecordItem(c) ==
    /\ itemAmount' = [itemAmount EXCEPT ![KeyOf[c]] = Credits[c]]
    /\ pending' = IF itemAmount[KeyOf[c]] = 0 THEN pending \cup {KeyOf[c]} ELSE pending
    /\ UNCHANGED <<invoice, lines, meta, grantKey, granted>>

ItemAccepted(c) == itemAmount[KeyOf[c]] \in {0, Credits[c]}

CreateItem(c) ==
    /\ pc[c] = "item"
    /\ MayStart(c)
    /\ ItemAccepted(c)
    /\ RecordItem(c)
    /\ Goto(c, "invoice")

CreateItemThrows(c) ==
    /\ pc[c] = "item"
    /\ MayStart(c)
    /\ \/ /\ "error" \in Faults \/ ~ItemAccepted(c)
          /\ UNCHANGED stripeVars
       \/ /\ "lost" \in Faults /\ ItemAccepted(c)
          /\ RecordItem(c)
    /\ Goto(c, Thrown(c, FALSE))

\* (mutant of RecordInvoice: pending_invoice_items_behavior left at its default)
RecordInvoiceExcluding(c) ==
    LET k == KeyOf[c] IN
    IF invoice[k] = "none"
    THEN /\ invoice' = [invoice EXCEPT ![k] = "draft"]
         /\ meta' = [meta EXCEPT ![k] = MetaOf(c)]
         /\ UNCHANGED <<itemAmount, pending, lines, grantKey, granted>>
    ELSE UNCHANGED stripeVars

\* pending_invoice_items_behavior "include": every pending item of the customer
\* goes onto the new invoice, whoever created it.
RecordInvoice(c) ==
    LET k == KeyOf[c] IN
    IF invoice[k] = "none"
    THEN /\ invoice' = [invoice EXCEPT ![k] = "draft"]
         /\ lines' = [lines EXCEPT ![k] = pending]
         /\ meta' = [meta EXCEPT ![k] = MetaOf(c)]
         /\ pending' = {}
         /\ UNCHANGED <<itemAmount, grantKey, granted>>
    ELSE UNCHANGED stripeVars

InvoiceAccepted(c) == invoice[KeyOf[c]] # "none" => meta[KeyOf[c]] = MetaOf(c)

\* repayWalletShortfall reads the invoice again before finalizing it.
CreateInvoice(c) ==
    /\ pc[c] = "invoice"
    /\ InvoiceAccepted(c)
    /\ RecordInvoice(c)
    /\ Goto(c, IF Kind[c] = "repay" THEN "fresh" ELSE "finalize")

CreateInvoiceThrows(c) ==
    /\ pc[c] = "invoice"
    /\ \/ /\ "error" \in Faults \/ ~InvoiceAccepted(c)
          /\ UNCHANGED stripeVars
       \/ /\ "lost" \in Faults /\ InvoiceAccepted(c)
          /\ RecordInvoice(c)
    /\ Goto(c, Thrown(c, FALSE))

\* "const fresh = await stripe.invoices.retrieve(draft.id)"
RetrieveFresh(c) ==
    /\ pc[c] = "fresh"
    /\ Goto(c, CASE invoice[KeyOf[c]] = "draft" -> "finalize"
                 [] invoice[KeyOf[c]] = "open" -> "pay"
                 [] OTHER -> "settled")
    /\ UNCHANGED stripeVars

-----------------------------------------------------------------------------
(* Collecting: finalizeOutsideWallet, then invoices.pay for a card. *)

\* An invoice with nothing on it has nothing to pay: Stripe marks it paid.
FinalizeAtStripe(k) ==
    /\ invoice' = [invoice EXCEPT ![k] = IF lines[k] = {} THEN "paid" ELSE "open"]
    /\ UNCHANGED <<itemAmount, pending, lines, meta, grantKey, granted>>

\* A bill is sent to be paid later; a repayment only pays an open invoice.
Finalize(c) ==
    /\ pc[c] = "finalize"
    /\ invoice[KeyOf[c]] = "draft"
    /\ FinalizeAtStripe(KeyOf[c])
    /\ Goto(c, CASE Kind[c] = "bill" -> "done"
                 [] Kind[c] = "repay" /\ lines[KeyOf[c]] = {} -> "settled"
                 [] OTHER -> "pay")

FinalizeThrows(c) ==
    /\ pc[c] = "finalize"
    /\ \/ /\ "error" \in Faults \/ invoice[KeyOf[c]] # "draft"
          /\ UNCHANGED stripeVars
       \/ /\ "lost" \in Faults /\ invoice[KeyOf[c]] = "draft"
          /\ FinalizeAtStripe(KeyOf[c])
    /\ Goto(c, Thrown(c, TRUE))

PayAtStripe(k) ==
    /\ invoice' = [invoice EXCEPT ![k] = "paid"]
    /\ UNCHANGED <<itemAmount, pending, lines, meta, grantKey, granted>>

\* sellCredits leaves the grant to invoice.paid; the others grant themselves.
Pay(c) ==
    /\ pc[c] = "pay"
    /\ invoice[KeyOf[c]] = "open"
    /\ PayAtStripe(KeyOf[c])
    /\ Goto(c, IF Kind[c] = "sell" THEN "done" ELSE "grant")

\* A decline, a bank asking for the cardholder, an invoice already paid, a lost
\* answer: sellCredits answers "invoiced", a repayment looks again.
PayThrows(c) ==
    /\ pc[c] = "pay"
    /\ \/ /\ Faults \cap {"error", "decline"} # {} \/ invoice[KeyOf[c]] # "open"
          /\ UNCHANGED stripeVars
       \/ /\ "lost" \in Faults /\ invoice[KeyOf[c]] = "open"
          /\ PayAtStripe(KeyOf[c])
    /\ Goto(c, CASE Kind[c] = "sell" -> "done"
                 [] Kind[c] = "repay" -> "settled"
                 [] OTHER -> Thrown(c, TRUE))

\* (mutant of RepaySettled: the status of the settled invoice is not looked at)
RepaySettledUnchecked(c) ==
    /\ pc[c] = "settled"
    /\ Goto(c, "grant")
    /\ UNCHANGED stripeVars

\* "if (settled.status !== 'paid') return { status: 'open', ... }"
RepaySettled(c) ==
    /\ pc[c] = "settled"
    /\ Goto(c, IF invoice[KeyOf[c]] = "paid" THEN "grant" ELSE "done")
    /\ UNCHANGED stripeVars

\* The customer pays an open invoice from its hosted page.
CustomerPays(k) ==
    /\ invoice[k] = "open"
    /\ PayAtStripe(k)
    /\ UNCHANGED pc

-----------------------------------------------------------------------------
(* Granting: grantInvoiceCredits, from the caller or from invoice.paid. *)

\* (mutant of CallerRequest: one description for purchases and reloads)
CallerRequestPlain(c) == [credits |-> Credits[c], reload |-> FALSE]

\* Both legs build the request from the invoice alone; the caller has the
\* metadata it wrote, the event handler the metadata it receives.
CallerRequest(c) == MetaOf(c)
EventRequest(k)  == meta[k]

\* A balance transaction under credit:invoice:<id>: first request, replay, or
\* a different request under a used key, which Stripe refuses.
GrantAccepted(k, request) == grantKey[k] \in {NoRequest, request}

GrantAtStripe(k, request) ==
    /\ grantKey' = [grantKey EXCEPT ![k] = request]
    /\ granted' = IF grantKey[k] = NoRequest
                  THEN [granted EXCEPT ![k] = @ + request.credits] ELSE granted
    /\ UNCHANGED <<itemAmount, pending, invoice, lines, meta>>

CallerGrants(c) ==
    /\ pc[c] = "grant"
    /\ GrantAccepted(KeyOf[c], CallerRequest(c))
    /\ GrantAtStripe(KeyOf[c], CallerRequest(c))
    /\ Goto(c, "done")

\* The grant is outside the purchase's try, inside the reload's.
CallerGrantThrows(c) ==
    /\ pc[c] = "grant"
    /\ \/ /\ "error" \in Faults \/ ~GrantAccepted(KeyOf[c], CallerRequest(c))
          /\ UNCHANGED stripeVars
       \/ /\ "lost" \in Faults /\ GrantAccepted(KeyOf[c], CallerRequest(c))
          /\ GrantAtStripe(KeyOf[c], CallerRequest(c))
    /\ Goto(c, Thrown(c, FALSE))

\* (mutant of EventGrants: a reason filter that drops manual purchase invoices)
EventGrantsReloads(k) ==
    /\ invoice[k] = "paid"
    /\ EventRequest(k).reload
    /\ GrantAccepted(k, EventRequest(k))
    /\ GrantAtStripe(k, EventRequest(k))
    /\ UNCHANGED pc

\* The webhook or the poller handles invoice.paid, any number of times.
EventGrants(k) ==
    /\ invoice[k] = "paid"
    /\ EventRequest(k).credits > 0
    /\ GrantAccepted(k, EventRequest(k))
    /\ GrantAtStripe(k, EventRequest(k))
    /\ UNCHANGED pc

Crash(c) ==
    /\ "crash" \in Faults
    /\ pc[c] \notin Terminal \cup {"item"}
    /\ Goto(c, "crashed")
    /\ UNCHANGED stripeVars

Step(c) ==
    \/ CreateItem(c)
    \/ CreateItemThrows(c)
    \/ CreateInvoice(c)
    \/ CreateInvoiceThrows(c)
    \/ RetrieveFresh(c)
    \/ Finalize(c)
    \/ FinalizeThrows(c)
    \/ Pay(c)
    \/ PayThrows(c)
    \/ RepaySettled(c)
    \/ CallerGrants(c)
    \/ CallerGrantThrows(c)
    \/ Crash(c)

\* Every call has answered; what is left unpaid may stay so.
Finished ==
    /\ \A c \in Calls : pc[c] \in Terminal
    /\ UNCHANGED vars

Next ==
    /\ \/ \E c \in Calls : Step(c)
       \/ \E k \in Keys : CustomerPays(k) \/ EventGrants(k)
       \/ Finished
    /\ UNCHANGED scene

Spec == Init /\ [][Next]_vars

\* Stripe re-delivers invoice.paid until it is acknowledged, so handling it is
\* fair; nothing else needs to be (a caller may crash, a customer may not pay).
FairSpec == Spec /\ \A k \in Keys : WF_vars(EventGrants(k) /\ UNCHANGED scene)

-----------------------------------------------------------------------------
(* Properties. *)

\* The promise: an invoice's sale is credited when it is settled, once, with
\* what the invoice sold.
Stage(k) == IF granted[k] > 0 THEN "credited"
            ELSE CASE invoice[k] = "paid" -> "settled"
                   [] invoice[k] = "none" -> "unsold"
                   [] OTHER -> "owed"

P == INSTANCE CreditPromise WITH
        Sales <- Keys, stage <- [k \in Keys |-> Stage(k)],
        sold <- [k \in Keys |-> meta[k].credits], credited <- granted

KeepsPromise == P!Promise

\* Whichever caller reaches the grant first, the other's request is identical,
\* so Stripe replays it instead of refusing it on every delivery
\* (billing.ts:727-737).
OneGrantRequest == \A c \in Calls : pc[c] = "grant" => CallerRequest(c) = EventRequest(KeyOf[c])

\* While the customer's calls follow one another and are answered, an invoice
\* bills the item its own call created and nothing else, whoever pays it.
BillsItsOwnItem ==
    Serial /\ Faults \subseteq {"decline"} =>
        \A k \in Keys : invoice[k] # "none" => lines[k] = {k}

\* "without this ... the purchase comes back paid, numbered and totalling zero"
\* (billing.ts:1314-1315): with pending items included, a paid sale billed its item.
PaidSaleBilledItsItem == \A k \in Keys : invoice[k] = "paid" => k \in lines[k]

\* Paid credits arrive, whatever happened to the call that sold them.
PaidIsCredited == \A k \in Keys : invoice[k] = "paid" ~> granted[k] > 0
=============================================================================
