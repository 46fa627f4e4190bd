-------------------------- MODULE CreditSaleProofs --------------------------
(***************************************************************************)
(* CreditSale implements CreditPromise for every set of calls and keys.    *)
(***************************************************************************)
EXTENDS CreditSale, TLAPS

\* What Stripe holds for one invoice: nothing before it is issued; its grant,
\* once made, is the one its metadata asks for, and only after it was paid.
InvoiceOK(k) ==
    /\ invoice[k] = "none" => meta[k] = NoRequest
    /\ invoice[k] # "none" => meta[k].credits > 0
    /\ grantKey[k] = NoRequest => granted[k] = 0
    /\ grantKey[k] # NoRequest => /\ invoice[k] = "paid"
                                  /\ grantKey[k] = meta[k]
                                  /\ granted[k] = meta[k].credits

\* A call past invoices.create holds an invoice carrying its own metadata, and
\* grants it only once it is paid.
CallOK(c) ==
    /\ pc[c] \in {"fresh", "finalize", "pay", "settled", "grant"}
          => invoice[KeyOf[c]] # "none" /\ meta[KeyOf[c]] = MetaOf(c)
    /\ pc[c] = "grant" => invoice[KeyOf[c]] = "paid"

SaleInv ==
    /\ TypeOK
    /\ \A k \in Keys : InvoiceOK(k)
    /\ \A c \in Calls : CallOK(c)

-----------------------------------------------------------------------------
(* Every step moves one invoice along, or none. *)

Quiet == UNCHANGED <<invoice, meta, grantKey, granted>>

Issued(k) ==
    /\ invoice[k] = "none"
    /\ invoice' = [invoice EXCEPT ![k] = "draft"]
    /\ \E r \in Requests : r.credits > 0 /\ meta' = [meta EXCEPT ![k] = r]
    /\ UNCHANGED <<grantKey, granted>>

Moved(k) ==
    /\ invoice[k] \in {"draft", "open"}
    /\ \E status \in {"open", "paid"} : invoice' = [invoice EXCEPT ![k] = status]
    /\ UNCHANGED <<meta, grantKey, granted>>

GrantedNow(k) ==
    /\ invoice[k] = "paid"
    /\ grantKey[k] \in {NoRequest, meta[k]}
    /\ grantKey' = [grantKey EXCEPT ![k] = meta[k]]
    /\ granted' = IF grantKey[k] = NoRequest
                  THEN [granted EXCEPT ![k] = @ + meta[k].credits] ELSE granted
    /\ UNCHANGED <<invoice, meta>>

Moves == Quiet \/ \E k \in Keys : Issued(k) \/ Moved(k) \/ GrantedNow(k)

USE DEF Steps, Terminal

LEMMA CallTypes ==
    ASSUME NEW c \in Calls
    PROVE  /\ KeyOf[c] \in Keys
           /\ MetaOf(c) \in Requests /\ MetaOf(c).credits > 0 /\ MetaOf(c) # NoRequest
           /\ Thrown(c, TRUE) \in Terminal /\ Thrown(c, FALSE) \in Terminal
  BY CreditSaleAssumption DEF MetaOf, Requests, NoRequest, Thrown

LEMMA StepMoves ==
    ASSUME SaleInv, NEW c \in Calls, Step(c)
    PROVE  Moves
<1> DEFINE k == KeyOf[c]
<1>0. /\ k \in Keys /\ MetaOf(c) \in Requests /\ MetaOf(c).credits > 0
      /\ TypeOK /\ CallOK(c) /\ InvoiceOK(k)
  BY CallTypes DEF SaleInv
<1>1. CASE CreateItem(c) \/ CreateItemThrows(c)
  BY <1>1 DEF CreateItem, CreateItemThrows, RecordItem, stripeVars, Moves, Quiet
<1>2. CASE CreateInvoice(c) \/ CreateInvoiceThrows(c)
  <2>1. RecordInvoice(c) \/ UNCHANGED stripeVars
    BY <1>2 DEF CreateInvoice, CreateInvoiceThrows
  <2>2. QED
    BY <1>0, <2>1 DEF RecordInvoice, stripeVars, Moves, Quiet, Issued
<1>3. CASE RetrieveFresh(c) \/ RepaySettled(c) \/ Crash(c)
  BY <1>3 DEF RetrieveFresh, RepaySettled, Crash, stripeVars, Moves, Quiet
<1>4. CASE Finalize(c) \/ FinalizeThrows(c)
  <2>1. UNCHANGED stripeVars \/ (invoice[k] = "draft" /\ FinalizeAtStripe(k))
    BY <1>4 DEF Finalize, FinalizeThrows
  <2>2. QED
    BY <1>0, <2>1 DEF FinalizeAtStripe, stripeVars, Moves, Quiet, Moved
<1>5. CASE Pay(c) \/ PayThrows(c)
  <2>1. UNCHANGED stripeVars \/ (invoice[k] = "open" /\ PayAtStripe(k))
    BY <1>5 DEF Pay, PayThrows
  <2>2. QED
    BY <1>0, <2>1 DEF PayAtStripe, stripeVars, Moves, Quiet, Moved
<1>6. CASE CallerGrants(c) \/ CallerGrantThrows(c)
  <2>1. /\ invoice[k] = "paid" /\ CallerRequest(c) = meta[k]
        /\ UNCHANGED stripeVars
           \/ (GrantAccepted(k, CallerRequest(c)) /\ GrantAtStripe(k, CallerRequest(c)))
    BY <1>0, <1>6 DEF CallerGrants, CallerGrantThrows, CallOK, CallerRequest
  <2>2. QED
    BY <1>0, <2>1 DEF GrantAccepted, GrantAtStripe, stripeVars, Moves, Quiet, GrantedNow
<1>7. QED
  BY <1>1, <1>2, <1>3, <1>4, <1>5, <1>6 DEF Step

LEMMA NextMoves ==
    ASSUME SaleInv, [Next]_vars
    PROVE  Moves
<1>1. CASE \E c \in Calls : Step(c)
  BY <1>1, StepMoves
<1>2. CASE \E k \in Keys : CustomerPays(k)
  BY <1>2 DEF CustomerPays, PayAtStripe, Moves, Moved
<1>3. CASE \E k \in Keys : EventGrants(k)
  BY <1>3 DEF EventGrants, EventRequest, GrantAccepted, GrantAtStripe, Moves, GrantedNow
<1>4. CASE Finished \/ UNCHANGED vars
  BY <1>4 DEF Finished, vars, stripeVars, Moves, Quiet
<1>5. QED
  BY <1>1, <1>2, <1>3, <1>4 DEF Next

-----------------------------------------------------------------------------
(* The invariant. *)

LEMMA SaleInit == Init => SaleInv
  BY CreditSaleAssumption
  DEF Init, SaleInv, TypeOK, InvoiceOK, CallOK, NoRequest, Requests

LEMMA TypeStep ==
    ASSUME SaleInv, [Next]_vars
    PROVE  TypeOK'
<1> USE CallTypes DEF TypeOK
<1>0. TypeOK /\ UNCHANGED scene
  BY DEF SaleInv, Next, vars
<1>1. ASSUME NEW c \in Calls, Step(c) PROVE TypeOK'
  <2>0. /\ KeyOf[c] \in Keys /\ Credits[c] \in Nat
        /\ MetaOf(c) \in Requests /\ MetaOf(c).credits \in Nat
        /\ Thrown(c, TRUE) \in Terminal /\ Thrown(c, FALSE) \in Terminal
    BY CreditSaleAssumption DEF Requests
  <2>1. CASE CreateItem(c) \/ CreateItemThrows(c)
    <3>1. UNCHANGED stripeVars \/ RecordItem(c)
      BY <2>1 DEF CreateItem, CreateItemThrows
    <3>2. pc' \in [Calls -> Steps]
      BY <1>0, <2>0, <2>1 DEF CreateItem, CreateItemThrows, Goto
    <3>3. QED
      BY <1>0, <2>0, <3>1, <3>2 DEF RecordItem, stripeVars
  <2>2. CASE CreateInvoice(c) \/ CreateInvoiceThrows(c)
    <3>1. RecordInvoice(c) \/ UNCHANGED stripeVars
      BY <2>2 DEF CreateInvoice, CreateInvoiceThrows
    <3>2. pc' \in [Calls -> Steps]
      BY <1>0, <2>0, <2>2 DEF CreateInvoice, CreateInvoiceThrows, Goto
    <3>3. QED
      BY <1>0, <2>0, <3>1, <3>2 DEF RecordInvoice, stripeVars
  <2>3. CASE RetrieveFresh(c) \/ RepaySettled(c) \/ Crash(c)
    BY <1>0, <2>3 DEF RetrieveFresh, RepaySettled, Crash, Goto, stripeVars
  <2>4. CASE Finalize(c) \/ FinalizeThrows(c)
    <3>1. UNCHANGED stripeVars \/ FinalizeAtStripe(KeyOf[c])
      BY <2>4 DEF Finalize, FinalizeThrows
    <3>2. pc' \in [Calls -> Steps]
      BY <1>0, <2>0, <2>4 DEF Finalize, FinalizeThrows, Goto
    <3>3. QED
      BY <1>0, <2>0, <3>1, <3>2 DEF FinalizeAtStripe, stripeVars
  <2>5. CASE Pay(c) \/ PayThrows(c)
    <3>1. UNCHANGED stripeVars \/ PayAtStripe(KeyOf[c])
      BY <2>5 DEF Pay, PayThrows
    <3>2. pc' \in [Calls -> Steps]
      BY <1>0, <2>0, <2>5 DEF Pay, PayThrows, Goto
    <3>3. QED
      BY <1>0, <2>0, <3>1, <3>2 DEF PayAtStripe, stripeVars
  <2>6. CASE CallerGrants(c) \/ CallerGrantThrows(c)
    <3>1. UNCHANGED stripeVars \/ GrantAtStripe(KeyOf[c], MetaOf(c))
      BY <2>6 DEF CallerGrants, CallerGrantThrows, CallerRequest
    <3>2. pc' \in [Calls -> Steps]
      BY <1>0, <2>0, <2>6 DEF CallerGrants, CallerGrantThrows, Goto
    <3>3. QED
      BY <1>0, <2>0, <3>1, <3>2 DEF GrantAtStripe, stripeVars
  <2>7. QED
    BY <1>1, <2>1, <2>2, <2>3, <2>4, <2>5, <2>6 DEF Step
<1>2. ASSUME NEW k \in Keys, CustomerPays(k) \/ EventGrants(k)
      PROVE  TypeOK'
  <2>1. meta[k] \in Requests /\ meta[k].credits \in Nat /\ NoRequest \in Requests
    BY <1>0 DEF Requests, NoRequest
  <2>2. QED
    BY <1>0, <1>2, <2>1
    DEF CustomerPays, PayAtStripe, EventGrants, EventRequest, GrantAtStripe
<1>3. CASE Finished \/ UNCHANGED vars
  BY <1>0, <1>3 DEF Finished, vars, stripeVars
<1>4. QED
  BY <1>1, <1>2, <1>3 DEF Next

LEMMA MovesInvoice ==
    ASSUME SaleInv, Moves, NEW k \in Keys
    PROVE  /\ InvoiceOK(k)'
           /\ invoice[k] # "none" => invoice'[k] # "none" /\ meta'[k] = meta[k]
           /\ invoice[k] = "paid" => invoice'[k] = "paid"
<1>0. TypeOK /\ InvoiceOK(k) /\ meta[k] \in Requests /\ granted[k] \in Nat
      /\ meta[k].credits \in Nat
  BY DEF SaleInv, TypeOK, Requests
<1>1. CASE Quiet
  BY <1>0, <1>1 DEF Quiet, InvoiceOK
<1>2. ASSUME NEW j \in Keys, Issued(j) \/ Moved(j) \/ GrantedNow(j), j # k
      PROVE  InvoiceOK(k)' /\ invoice'[k] = invoice[k] /\ meta'[k] = meta[k]
  BY <1>0, <1>2 DEF Issued, Moved, GrantedNow, InvoiceOK, TypeOK
<1>3. CASE Issued(k)
  BY <1>0, <1>3 DEF Issued, InvoiceOK, TypeOK
<1>4. CASE Moved(k)
  BY <1>0, <1>4 DEF Moved, InvoiceOK, TypeOK
<1>5. CASE GrantedNow(k)
  BY <1>0, <1>5 DEF GrantedNow, InvoiceOK, TypeOK, NoRequest
<1>6. QED
  BY <1>1, <1>2, <1>3, <1>4, <1>5 DEF Moves

\* A call's own step establishes what CallOK asks of the next one.
LEMMA StepCallOK ==
    ASSUME SaleInv, Moves, NEW c \in Calls, Step(c)
    PROVE  CallOK(c)'
<1> DEFINE k == KeyOf[c]
<1>0. /\ k \in Keys /\ TypeOK /\ CallOK(c)
      /\ Thrown(c, TRUE) \in Terminal /\ Thrown(c, FALSE) \in Terminal
      /\ invoice[k] # "none" => invoice'[k] # "none" /\ meta'[k] = meta[k]
      /\ invoice[k] = "paid" => invoice'[k] = "paid"
  BY CallTypes, MovesInvoice DEF SaleInv
<1>1. SUFFICES \/ pc'[c] \in Terminal \cup {"invoice"}
               \/ /\ pc'[c] \in {"fresh", "finalize", "pay", "settled", "grant"}
                  /\ invoice'[k] # "none" /\ meta'[k] = MetaOf(c)
                  /\ pc'[c] = "grant" => invoice'[k] = "paid"
  BY DEF CallOK, MetaOf
<1>2. CASE CreateItem(c) \/ CreateItemThrows(c) \/ CreateInvoiceThrows(c) \/ FinalizeThrows(c)
           \/ CallerGrants(c) \/ CallerGrantThrows(c) \/ Crash(c)
  BY <1>0, <1>2 DEF CreateItem, CreateItemThrows, CreateInvoiceThrows, FinalizeThrows,
     CallerGrants, CallerGrantThrows, Crash, Goto, TypeOK
<1>3. CASE CreateInvoice(c)
  BY <1>0, <1>3 DEF CreateInvoice, InvoiceAccepted, RecordInvoice, stripeVars, Goto, TypeOK
<1>4. CASE RetrieveFresh(c) \/ RepaySettled(c)
  BY <1>0, <1>4 DEF RetrieveFresh, RepaySettled, stripeVars, Goto, TypeOK, CallOK
<1>5. CASE Finalize(c)
  BY <1>0, <1>5 DEF Finalize, FinalizeAtStripe, Goto, TypeOK, CallOK
<1>6. CASE Pay(c)
  BY <1>0, <1>6 DEF Pay, PayAtStripe, Goto, TypeOK, CallOK
<1>7. CASE PayThrows(c)
  BY <1>0, <1>7 DEF PayThrows, Goto, TypeOK, CallOK
<1>8. QED
  BY <1>2, <1>3, <1>4, <1>5, <1>6, <1>7 DEF Step

LEMMA OthersCallOK ==
    ASSUME SaleInv, Moves, NEW c \in Calls, pc'[c] = pc[c]
    PROVE  CallOK(c)'
<1>1. KeyOf[c] \in Keys /\ CallOK(c)
  BY CallTypes DEF SaleInv
<1>2. /\ invoice[KeyOf[c]] # "none" => invoice'[KeyOf[c]] # "none"
                                       /\ meta'[KeyOf[c]] = meta[KeyOf[c]]
      /\ invoice[KeyOf[c]] = "paid" => invoice'[KeyOf[c]] = "paid"
  BY <1>1, MovesInvoice
<1>3. QED
  BY <1>1, <1>2 DEF CallOK, MetaOf

LEMMA SaleStep == SaleInv /\ [Next]_vars => SaleInv'
<1> SUFFICES ASSUME SaleInv, [Next]_vars PROVE SaleInv'
  OBVIOUS
<1>1. Moves /\ TypeOK' /\ TypeOK
  BY NextMoves, TypeStep DEF SaleInv
<1>2. \A k \in Keys : InvoiceOK(k)'
  BY <1>1, MovesInvoice
<1>3. ASSUME NEW d \in Calls PROVE CallOK(d)'
  <2>1. CASE \E c \in Calls : Step(c)
    <3>1. PICK c \in Calls : Step(c)
      BY <2>1
    <3>2. CASE c = d
      BY <1>1, <3>1, <3>2, StepCallOK
    <3>3. CASE c # d
      <4>1. \E step : Goto(c, step)
        BY <3>1 DEF Step, CreateItem, CreateItemThrows, CreateInvoice, CreateInvoiceThrows,
           RetrieveFresh, Finalize, FinalizeThrows, Pay, PayThrows, RepaySettled,
           CallerGrants, CallerGrantThrows, Crash
      <4>2. pc'[d] = pc[d]
        BY <1>1, <3>3, <4>1 DEF Goto, TypeOK
      <4>3. QED
        BY <1>1, <4>2, OthersCallOK
    <3>4. QED
      BY <3>2, <3>3
  <2>2. CASE UNCHANGED pc
    BY <1>1, <2>2, OthersCallOK
  <2>3. QED
    BY <2>1, <2>2 DEF Next, CustomerPays, EventGrants, Finished, vars
<1>4. QED
  BY <1>1, <1>2, <1>3 DEF SaleInv

-----------------------------------------------------------------------------
(* The theorems. *)

\* Every state the calls and Stripe reach has the declared types.
THEOREM TypeCorrect == Spec => []TypeOK
<1>1. SaleInv => TypeOK
  BY DEF SaleInv
<1>2. SaleInv /\ [Next]_vars => SaleInv'
  BY SaleStep
<1>3. QED
  BY <1>1, <1>2, SaleInit, PTL DEF Spec

\* The request each leg sends for one invoice is the same request, so whichever
\* grants second is replayed and not refused.
THEOREM GrantsAgree == Spec => []OneGrantRequest
<1>1. SaleInv => OneGrantRequest
  BY DEF SaleInv, CallOK, OneGrantRequest, CallerRequest, EventRequest
<1>2. SaleInv /\ [Next]_vars => SaleInv'
  BY SaleStep
<1>3. QED
  BY <1>1, <1>2, SaleInit, PTL DEF Spec

\* An invoice's promise is kept by one move of it: it is issued, settled or
\* credited, in that order, and only once each.
LEMMA MovesPromise ==
    ASSUME SaleInv, SaleInv', Moves
    PROVE  [P!PromiseNext]_P!promiseVars
<1> USE DEF P!PromiseNext, P!promiseVars, P!Sell, P!Collect, P!Credit
<1>0. TypeOK /\ TypeOK' /\ \A j \in Keys : InvoiceOK(j) /\ InvoiceOK(j)'
  BY DEF SaleInv
<1>1. CASE Quiet
  BY <1>1 DEF Quiet, Stage
<1>2. ASSUME NEW k \in Keys, Issued(k) PROVE P!PromiseNext
  <2>1. PICK r \in Requests : r.credits > 0 /\ meta' = [meta EXCEPT ![k] = r]
    BY <1>2 DEF Issued
  <2>2. r.credits \in Nat \ {0} /\ meta'[k] = r /\ invoice'[k] = "draft" /\ granted' = granted
    BY <1>0, <1>2, <2>1 DEF Issued, TypeOK, Requests
  <2>3. granted[k] = 0
    BY <1>0, <1>2 DEF InvoiceOK, Issued, NoRequest
  <2>4. \A j \in Keys \ {k} : Stage(j)' = Stage(j) /\ meta'[j] = meta[j]
    BY <1>0, <1>2, <2>1 DEF Issued, Stage, TypeOK
  <2>5. Stage(k) = "unsold" /\ Stage(k)' = "owed"
    BY <1>2, <2>2, <2>3 DEF Stage, Issued
  <2>6. P!Sell(k)
    BY <2>2, <2>4, <2>5
  <2>7. QED
    BY <2>6
<1>3. ASSUME NEW k \in Keys, Moved(k) PROVE P!PromiseNext \/ UNCHANGED P!promiseVars
  <2>1. /\ invoice[k] \in {"draft", "open"} /\ invoice'[k] \in {"open", "paid"}
        /\ meta' = meta /\ granted' = granted
    BY <1>0, <1>3 DEF Moved, TypeOK
  <2>2. granted[k] = 0
    BY <1>0, <2>1 DEF InvoiceOK
  <2>3. \A j \in Keys \ {k} : Stage(j)' = Stage(j)
    BY <1>0, <1>3 DEF Moved, Stage, TypeOK
  <2>4. CASE invoice'[k] = "open"
    <3>1. Stage(k)' = Stage(k)
      BY <2>1, <2>2, <2>4 DEF Stage
    <3>2. QED
      BY <2>1, <2>3, <3>1
  <2>5. CASE invoice'[k] = "paid"
    <3>1. Stage(k) = "owed" /\ Stage(k)' = "settled"
      BY <2>1, <2>2, <2>5 DEF Stage
    <3>2. P!Collect(k)
      BY <2>1, <2>3, <3>1
    <3>3. QED
      BY <3>2
  <2>6. QED
    BY <2>1, <2>4, <2>5
<1>4. ASSUME NEW k \in Keys, GrantedNow(k) PROVE P!PromiseNext \/ UNCHANGED P!promiseVars
  <2>1. /\ invoice[k] = "paid" /\ invoice' = invoice /\ meta' = meta
        /\ meta[k].credits \in Nat /\ meta[k].credits > 0 /\ granted[k] \in Nat
    BY <1>0, <1>4 DEF GrantedNow, InvoiceOK, TypeOK, Requests
  <2>2. CASE grantKey[k] # NoRequest
    <3>1. granted' = granted
      BY <1>4, <2>2 DEF GrantedNow
    <3>2. QED
      BY <2>1, <3>1 DEF Stage
  <2>3. CASE grantKey[k] = NoRequest
    <3>0. granted[k] = 0
      BY <1>0, <2>3 DEF InvoiceOK
    <3>a. granted' = [granted EXCEPT ![k] = granted[k] + meta[k].credits]
      BY <1>4, <2>3 DEF GrantedNow
    <3>b. granted[k] + meta[k].credits = meta[k].credits
      BY <2>1, <3>0
    <3>1. granted' = [granted EXCEPT ![k] = meta[k].credits]
      BY <3>a, <3>b
    <3>2. Stage(k) = "settled" /\ Stage(k)' = "credited"
      <4>1. granted'[k] = meta[k].credits
        BY <1>0, <3>1 DEF TypeOK
      <4>2. QED
        BY <2>1, <3>0, <4>1 DEF Stage
    <3>3. \A j \in Keys \ {k} : Stage(j)' = Stage(j)
      BY <1>0, <2>1, <3>1 DEF Stage, TypeOK
    <3>4. P!Credit(k)
      BY <2>1, <3>1, <3>2, <3>3
    <3>5. QED
      BY <3>4
  <2>4. QED
    BY <2>2, <2>3
<1>5. QED
  BY <1>1, <1>2, <1>3, <1>4 DEF Moves

\* Every interleaving of callers, webhook and poller, with failing and lost
\* requests and crashes, credits each sale once, with what it sold, after its
\* invoice was paid.
THEOREM SaleKeepsPromise == Spec => KeepsPromise
<1>1. Init => P!PromiseInit
  BY DEF Init, P!PromiseInit, Stage, NoRequest
<1>2. SaleInv /\ SaleInv' /\ [Next]_vars => [P!PromiseNext]_P!promiseVars
  BY NextMoves, MovesPromise
<1>3. SaleInv /\ [Next]_vars => SaleInv'
  BY SaleStep
<1>4. QED
  BY <1>1, <1>2, <1>3, SaleInit, PTL DEF Spec, KeepsPromise, P!Promise
-----------------------------------------------------------------------------
(* Calls that follow one another and are answered. *)

Alone   == Serial /\ Faults \subseteq {"decline"}
Busy(c) == pc[c] \notin {"item"} \cup Terminal

\* An item waits for an invoice exactly while the one call that created it is
\* between its two requests; an invoice that was issued took that item alone.
BillInv ==
    /\ \A k \in Keys : invoice[k] # "none" => lines[k] = {k} /\ itemAmount[k] # 0
    /\ \A k \in Keys : k \in pending <=> itemAmount[k] # 0 /\ invoice[k] = "none"
    /\ \A k \in pending : \E c \in Calls : pc[c] = "invoice" /\ KeyOf[c] = k
    /\ \A c \in Calls : pc[c] = "invoice" => itemAmount[KeyOf[c]] # 0
    /\ \A c, d \in Calls : Busy(c) /\ Busy(d) => c = d

\* A step after the two issuing requests, or of the customer or the event
\* handler, leaves items, lines and whether an invoice exists as they are.
Collects == /\ UNCHANGED <<itemAmount, pending, lines>>
            /\ \A k \in Keys : invoice'[k] = "none" <=> invoice[k] = "none"

LEMMA BillQuiet ==
    ASSUME TypeOK, BillInv, Collects,
           \A c \in Calls : pc'[c] = "invoice" <=> pc[c] = "invoice",
           \A c \in Calls : Busy(c)' => Busy(c)
    PROVE  BillInv'
  BY CallTypes DEF BillInv, Collects, TypeOK

LEMMA BillItem ==
    ASSUME SaleInv, Alone, BillInv, NEW c \in Calls, CreateItem(c)
    PROVE  BillInv'
<1> DEFINE k == KeyOf[c]
<1>0. TypeOK /\ k \in Keys /\ Credits[c] \in Nat \ {0}
  BY CallTypes, CreditSaleAssumption DEF SaleInv
<1>1. /\ pc[c] = "item" /\ itemAmount[k] \in {0, Credits[c]}
      /\ pc' = [pc EXCEPT ![c] = "invoice"]
      /\ itemAmount' = [itemAmount EXCEPT ![k] = Credits[c]]
      /\ pending' = IF itemAmount[k] = 0 THEN pending \cup {k} ELSE pending
      /\ invoice' = invoice /\ lines' = lines
  BY DEF CreateItem, ItemAccepted, RecordItem, Goto
<1>2. \A d \in Calls : ~Busy(d)
  BY <1>1 DEF CreateItem, MayStart, Alone, Busy
<1>3. \A j \in Keys : itemAmount'[j] = IF j = k THEN Credits[c] ELSE itemAmount[j]
  BY <1>0, <1>1 DEF TypeOK
<1>4. \A d \in Calls : pc'[d] = IF d = c THEN "invoice" ELSE pc[d]
  BY <1>0, <1>1 DEF TypeOK
<1>5. pending = {}
  BY <1>2 DEF BillInv, Busy
<1>6. \A j \in Keys : invoice'[j] # "none" => lines'[j] = {j} /\ itemAmount'[j] # 0
  BY <1>0, <1>1, <1>3 DEF BillInv
<1>7. \A j \in Keys : j \in pending' <=> itemAmount'[j] # 0 /\ invoice'[j] = "none"
  BY <1>0, <1>1, <1>3 DEF BillInv
<1>8. \A j \in pending' : \E d \in Calls : pc'[d] = "invoice" /\ KeyOf[d] = j
  BY <1>1, <1>4, <1>5
<1>9. \A d \in Calls : pc'[d] = "invoice" => itemAmount'[KeyOf[d]] # 0
  BY <1>0, <1>2, <1>3, <1>4 DEF Busy
<1>10. \A d, e \in Calls : Busy(d)' /\ Busy(e)' => d = e
  BY <1>2, <1>4 DEF Busy
<1>11. QED
  BY <1>6, <1>7, <1>8, <1>9, <1>10 DEF BillInv

LEMMA BillInvoice ==
    ASSUME SaleInv, Alone, BillInv, NEW c \in Calls, CreateInvoice(c)
    PROVE  BillInv'
<1> DEFINE k == KeyOf[c]
<1>0. TypeOK /\ k \in Keys
  BY CallTypes DEF SaleInv
<1>1. /\ pc[c] = "invoice" /\ RecordInvoice(c)
      /\ pc' = [pc EXCEPT ![c] = IF Kind[c] = "repay" THEN "fresh" ELSE "finalize"]
  BY DEF CreateInvoice, Goto
<1>2. \A d \in Calls : /\ d # c => pc'[d] = pc[d] /\ pc[d] # "invoice"
                       /\ Busy(d)' => Busy(d)
                       /\ pc'[d] # "invoice"
  BY <1>0, <1>1 DEF TypeOK, BillInv, Busy
<1>3. pending \subseteq {k}
  BY <1>0, <1>1, <1>2 DEF BillInv, TypeOK
<1>4. pending' = {}
  BY <1>0, <1>1, <1>3 DEF BillInv, RecordInvoice, stripeVars
<1>5. /\ itemAmount' = itemAmount
      /\ \A j \in Keys : /\ invoice'[j] = "none" <=> invoice[j] = "none" /\ j # k
                         /\ invoice[j] # "none" => lines'[j] = lines[j]
  BY <1>0, <1>1 DEF RecordInvoice, stripeVars, TypeOK
<1>6. itemAmount[k] # 0 /\ (invoice[k] = "none" => lines'[k] = {k})
  BY <1>0, <1>1, <1>3 DEF BillInv, RecordInvoice, TypeOK
<1>7. \A j \in Keys : invoice'[j] # "none" => lines'[j] = {j} /\ itemAmount'[j] # 0
  BY <1>0, <1>5, <1>6 DEF BillInv
<1>8. \A j \in Keys : j \in pending' <=> itemAmount'[j] # 0 /\ invoice'[j] = "none"
  BY <1>0, <1>3, <1>4, <1>5 DEF BillInv
<1>9. \A d, e \in Calls : Busy(d)' /\ Busy(e)' => d = e
  BY <1>2 DEF BillInv
<1>10. QED
  BY <1>2, <1>4, <1>7, <1>8, <1>9 DEF BillInv

\* The other steps of a call, when nothing is lost and no process stops.
LEMMA BillStep ==
    ASSUME SaleInv, Alone, BillInv, NEW c \in Calls, Step(c)
    PROVE  BillInv'
<1>0. TypeOK /\ KeyOf[c] \in Keys /\ CallOK(c)
      /\ Thrown(c, TRUE) \in Terminal /\ Thrown(c, FALSE) \in Terminal
  BY CallTypes DEF SaleInv
<1>1. CASE CreateItem(c)
  BY <1>1, BillItem
<1>2. CASE CreateInvoice(c)
  BY <1>2, BillInvoice
<1>3. CASE CreateItemThrows(c)
  <2>1. UNCHANGED stripeVars /\ pc[c] = "item" /\ pc' = [pc EXCEPT ![c] = Thrown(c, FALSE)]
    BY <1>3 DEF CreateItemThrows, Alone, Goto
  <2>2. \A d \in Calls : pc'[d] = IF d = c THEN Thrown(c, FALSE) ELSE pc[d]
    BY <1>0, <2>1 DEF TypeOK
  <2>3. QED
    BY <1>0, <2>1, <2>2, BillQuiet DEF Collects, stripeVars, Busy
<1>4. CASE CreateInvoiceThrows(c)
  <2>1. /\ UNCHANGED stripeVars /\ pc[c] = "invoice" /\ invoice[KeyOf[c]] # "none"
        /\ pc' = [pc EXCEPT ![c] = Thrown(c, FALSE)]
    BY <1>4 DEF CreateInvoiceThrows, InvoiceAccepted, Alone, Goto
  <2>2. \A d \in Calls : pc'[d] = IF d = c THEN Thrown(c, FALSE) ELSE pc[d]
    BY <1>0, <2>1 DEF TypeOK
  <2>3. pending = {}
    BY <1>0, <2>1 DEF BillInv, Busy, TypeOK
  <2>4. /\ itemAmount' = itemAmount /\ pending' = {} /\ lines' = lines /\ invoice' = invoice
        /\ \A d \in Calls : /\ pc'[d] = "invoice" => pc[d] = "invoice"
                            /\ Busy(d)' => Busy(d)
    BY <1>0, <2>1, <2>2, <2>3 DEF stripeVars, Busy
  <2>5. QED
    BY <2>3, <2>4 DEF BillInv
<1>5. CASE \/ RetrieveFresh(c) \/ Finalize(c) \/ FinalizeThrows(c) \/ Pay(c) \/ PayThrows(c)
           \/ RepaySettled(c) \/ CallerGrants(c) \/ CallerGrantThrows(c) \/ Crash(c)
  <2>1. Collects
    BY <1>0, <1>5 DEF RetrieveFresh, Finalize, FinalizeThrows, FinalizeAtStripe, Pay, PayThrows,
       PayAtStripe, RepaySettled, CallerGrants, CallerGrantThrows, GrantAtStripe, Crash,
       Collects, stripeVars, TypeOK
  <2>2. /\ pc[c] \in {"fresh", "finalize", "pay", "settled", "grant"}
        /\ \E step \in Steps \ {"item", "invoice"} : Goto(c, step)
    BY <1>0, <1>5 DEF RetrieveFresh, Finalize, FinalizeThrows, Pay, PayThrows, RepaySettled,
       CallerGrants, CallerGrantThrows, Crash, Alone
  <2>3. PICK step \in Steps \ {"item", "invoice"} : pc' = [pc EXCEPT ![c] = step]
    BY <2>2 DEF Goto
  <2>4. \A d \in Calls : pc'[d] = IF d = c THEN step ELSE pc[d]
    BY <1>0, <2>3 DEF TypeOK
  <2>5. QED
    BY <1>0, <2>1, <2>2, <2>4, BillQuiet DEF Busy
<1>6. QED
  BY <1>1, <1>2, <1>3, <1>4, <1>5 DEF Step

\* While the customer's calls follow one another and are answered, whatever is
\* declined and whoever pays, an invoice bills its own call's item and no other.
THEOREM OwnItemBilled == Spec => []BillsItsOwnItem
<1> DEFINE Inv == SaleInv /\ (Alone => BillInv)
<1>1. Init => BillInv
  BY DEF Init, BillInv, Busy
<1>2. Inv /\ [Next]_vars => Inv'
  <2> SUFFICES ASSUME Inv, [Next]_vars, Alone PROVE BillInv'
    <3>0. [Next]_vars => scene' = scene
      BY DEF Next, vars
    <3>1. [Next]_vars => (Alone' <=> Alone)
      BY <3>0 DEF Alone, Serial, Faults
    <3>2. QED
      BY <3>1, SaleStep
  <2>1. CASE \E c \in Calls : Step(c)
    BY <2>1, BillStep
  <2>2. CASE \E k \in Keys : CustomerPays(k) \/ EventGrants(k)
    BY <2>2, BillQuiet
    DEF CustomerPays, PayAtStripe, EventGrants, GrantAtStripe, Collects, SaleInv, TypeOK, Busy
  <2>3. CASE Finished \/ UNCHANGED vars
    BY <2>3, BillQuiet DEF Finished, vars, stripeVars, Collects, SaleInv, Busy
  <2>4. QED
    BY <2>1, <2>2, <2>3 DEF Next
<1>3. Inv => BillsItsOwnItem
  BY DEF BillInv, BillsItsOwnItem, Alone
<1>4. QED
  BY <1>1, <1>2, <1>3, SaleInit, PTL DEF Spec
=============================================================================
