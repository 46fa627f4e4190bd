------------------------------ MODULE SetAside ------------------------------
(***************************************************************************)
(* The wallet of one customer and the window withWalletSetAside opens      *)
(* around the finalization of an invoice.                                  *)
(*                                                                         *)
(* Stripe pays an invoice out of the customer's credit balance when it     *)
(* finalizes it, and that balance is the prepaid wallet.  The code         *)
(* therefore reads the balance, debits all of it, finalizes, and credits   *)
(* the same amount back, each call a separate request.  A step of an       *)
(* operation below is one such request; metered calls, other credits and   *)
(* Stripe's own automatic finalization run between any two of them.        *)
(***************************************************************************)
EXTENDS Integers

CONSTANTS
    Ops,          \* executions of withWalletSetAside (one per caller or retry)
    Invoices,     \* invoices being issued; an invoice id is the window's key
    InvoiceOf,    \* [Ops -> Invoices]
    Rechecks,     \* the Ops entered through finalizeSubscriptionDraft
    Total,        \* [Invoices -> Nat \ {0}], in credits (1 credit = 1 cent)
    Opening,      \* the wallet at the start, in credits
    Scenes,       \* the situations considered, see SceneType
    MaxCalls,     \* bound: metered calls made
    MaxGrant      \* bound: credits granted by other purchases

FaultKinds == {"error", "lost", "lost_aside", "auto_finalize", "grant"}

\* Which operations run, what the environment may do to them, and whether the
\* customer's finalizations are kept from overlapping (the code does not).
SceneType == [ops : SUBSET Ops, faults : SUBSET FaultKinds, serial : BOOLEAN]

ASSUME SetAsideAssumption ==
    /\ InvoiceOf \in [Ops -> Invoices]
    /\ Rechecks \subseteq Ops
    /\ Total \in [Invoices -> Nat \ {0}]
    /\ Opening \in Nat
    /\ Scenes \subseteq SceneType
    /\ MaxCalls \in Nat
    /\ MaxGrant \in Nat

\* "for (let attempt = 0; attempt < 3 && !restored; attempt++)"
RestoreAttempts == 3

VARIABLES
    scene,        \* the situation, chosen once
    wallet,       \* the credit balance Stripe holds (negative: money owed)
    status,       \* [Invoices -> "draft" | "open" | "paid"]
    applied,      \* [Invoices -> Int] what finalization took from the wallet
    aside,        \* [Invoices -> Nat] amount recorded under wallet-aside:<key>
    restored,     \* [Invoices -> Nat] amount recorded under wallet-restore:<key>
    pc,           \* [Ops -> Steps]
    held,         \* [Ops -> Int] the balance the operation read
    attempt,      \* [Ops -> 0..RestoreAttempts] failed restores
    outcome,      \* [Ops -> "none" | "ok" | "error"] how fn() ended
    meter,        \* the metered call in flight: "idle" or "allowed"
    calls,        \* metered calls begun
    granted       \* credits granted by other purchases

stripeVars == <<wallet, status, applied, aside, restored>>
opVars     == <<pc, held, attempt, outcome>>
meterVars  == <<meter, calls>>
vars       == <<scene, stripeVars, opVars, meterVars, granted>>

Faults == scene.faults
Serial == scene.serial

Steps    == {"start", "read", "aside", "finalize", "restore", "recheck", "done", "failed"}
Terminal == {"done", "failed"}

TypeOK ==
    /\ scene \in Scenes
    /\ wallet \in Int
    /\ status \in [Invoices -> {"draft", "open", "paid"}]
    /\ applied \in [Invoices -> Int]
    /\ aside \in [Invoices -> Nat]
    /\ restored \in [Invoices -> Nat]
    /\ pc \in [Ops -> Steps]
    /\ held \in [Ops -> Int]
    /\ attempt \in [Ops -> 0..RestoreAttempts]
    /\ outcome \in [Ops -> {"none", "ok", "error"}]
    /\ meter \in {"idle", "allowed"}
    /\ calls \in 0..MaxCalls
    /\ granted \in 0..MaxGrant

Init ==
    /\ scene \in Scenes
    /\ wallet = Opening
    /\ status = [i \in Invoices |-> "draft"]
    /\ applied = [i \in Invoices |-> 0]
    /\ aside = [i \in Invoices |-> 0]
    /\ restored = [i \in Invoices |-> 0]
    /\ pc = [o \in Ops |-> CASE o \notin scene.ops -> "done"
                             [] o \in Rechecks -> "start"
                             [] OTHER -> "read"]
    /\ held = [o \in Ops |-> 0]
    /\ attempt = [o \in Ops |-> 0]
    /\ outcome = [o \in Ops |-> "none"]
    /\ meter = "idle"
    /\ calls = 0
    /\ granted = 0

-----------------------------------------------------------------------------
(* What Stripe does. *)

Lesser(a, b) == IF a < b THEN a ELSE b

\* The part of an invoice the credit balance pays.  A negative wallet is money
\* the customer owes, which Stripe adds to the invoice instead.
TakenFrom(w, total) == IF w >= 0 THEN Lesser(w, total) ELSE w

\* Finalizing invoice i: the balance is applied; nothing left to pay settles it.
Settle(i) ==
    LET taken == TakenFrom(wallet, Total[i]) IN
    /\ wallet' = wallet - taken
    /\ applied' = [applied EXCEPT ![i] = taken]
    /\ status' = [status EXCEPT ![i] = IF taken = Total[i] THEN "paid" ELSE "open"]
    /\ UNCHANGED <<aside, restored>>

\* A balance transaction under an idempotency key: the first request takes
\* effect, an identical one is replayed, a different one is refused.
KeyAccepts(recorded, amount) == recorded \in {0, amount}
KeyEffect(recorded, amount)  == IF recorded = 0 THEN amount ELSE 0

-----------------------------------------------------------------------------
(* withWalletSetAside, one request at a time.  A request that "errors" never   *)
(* executed (refused, or never reached Stripe); one whose answer is "lost"     *)
(* executed, and the caller saw an error all the same.                         *)

Underway(o) == pc[o] \notin {"start", "read"} \cup Terminal

MayEnter(o) == Serial => \A p \in Ops \ {o} : ~Underway(p)

\* Where an operation goes when the finalization (or the set-aside) threw:
\* finalizeSubscriptionDraft catches it and looks at the invoice again.
Thrown(o) == IF o \in Rechecks THEN "recheck" ELSE "failed"

\* finalizeSubscriptionDraft: "const fresh = await stripe.invoices.retrieve".
CheckDraft(o) ==
    /\ pc[o] = "start"
    /\ pc' = [pc EXCEPT ![o] = IF status[InvoiceOf[o]] = "draft" THEN "read" ELSE "done"]
    /\ UNCHANGED <<stripeVars, held, attempt, outcome, meterVars, granted>>

\* "const held = await getCreditBalance(...); if (held <= 0) return fn();"
ReadBalance(o) ==
    /\ pc[o] = "read"
    /\ MayEnter(o)
    /\ held' = [held EXCEPT ![o] = wallet]
    /\ pc' = [pc EXCEPT ![o] = IF wallet <= 0 THEN "finalize" ELSE "aside"]
    /\ UNCHANGED <<stripeVars, attempt, outcome, meterVars, granted>>

\* The debit under wallet-aside:<key>, and its effect at Stripe.
RecordAside(i, amount) ==
    /\ wallet' = wallet - KeyEffect(aside[i], amount)
    /\ aside' = [aside EXCEPT ![i] = amount]
    /\ UNCHANGED <<status, applied, restored>>

\* (mutant of SetWalletAside: only what the invoice costs is set aside)
SetInvoiceAside(o) ==
    /\ pc[o] = "aside"
    /\ KeyAccepts(aside[InvoiceOf[o]], Lesser(held[o], Total[InvoiceOf[o]]))
    /\ RecordAside(InvoiceOf[o], Lesser(held[o], Total[InvoiceOf[o]]))
    /\ pc' = [pc EXCEPT ![o] = "finalize"]
    /\ UNCHANGED <<held, attempt, outcome, meterVars, granted>>

SetWalletAside(o) ==
    /\ pc[o] = "aside"
    /\ KeyAccepts(aside[InvoiceOf[o]], held[o])
    /\ RecordAside(InvoiceOf[o], held[o])
    /\ pc' = [pc EXCEPT ![o] = "finalize"]
    /\ UNCHANGED <<held, attempt, outcome, meterVars, granted>>

\* The debit is outside the try: an error leaves the operation before fn().
SetWalletAsideThrows(o) ==
    /\ pc[o] = "aside"
    /\ \/ /\ "error" \in Faults \/ ~KeyAccepts(aside[InvoiceOf[o]], held[o])
          /\ UNCHANGED stripeVars
       \/ /\ "lost_aside" \in Faults       \* it took effect, the answer was lost
          /\ KeyAccepts(aside[InvoiceOf[o]], held[o])
          /\ RecordAside(InvoiceOf[o], held[o])
    /\ pc' = [pc EXCEPT ![o] = Thrown(o)]
    /\ UNCHANGED <<held, attempt, outcome, meterVars, granted>>

\* (mutant of AfterFinalize: the restore follows only a successful fn())
NoFinallyBlock(o, ok) ==
    /\ outcome' = [outcome EXCEPT ![o] = IF ok THEN "ok" ELSE "error"]
    /\ pc' = [pc EXCEPT ![o] = IF ~ok THEN Thrown(o)
                               ELSE IF held[o] > 0 THEN "restore" ELSE "done"]
    /\ UNCHANGED <<held, attempt, meterVars, granted>>

\* "finally": a window that was opened is closed whether fn() returned or threw.
AfterFinalize(o, ok) ==
    /\ outcome' = [outcome EXCEPT ![o] = IF ok THEN "ok" ELSE "error"]
    /\ pc' = [pc EXCEPT ![o] = IF held[o] > 0 THEN "restore"
                               ELSE IF ok THEN "done" ELSE Thrown(o)]
    /\ UNCHANGED <<held, attempt, meterVars, granted>>

\* "return await fn()", fn being invoices.finalizeInvoice.
Finalize(o) ==
    /\ pc[o] = "finalize"
    /\ status[InvoiceOf[o]] = "draft"
    /\ Settle(InvoiceOf[o])
    /\ AfterFinalize(o, TRUE)

FinalizeThrows(o) ==
    /\ pc[o] = "finalize"
    /\ \/ /\ "error" \in Faults \/ status[InvoiceOf[o]] # "draft"
          /\ UNCHANGED stripeVars
       \/ /\ "lost" \in Faults
          /\ status[InvoiceOf[o]] = "draft"
          /\ Settle(InvoiceOf[o])
    /\ AfterFinalize(o, FALSE)

AfterRestore(o) ==
    pc' = [pc EXCEPT ![o] = IF outcome[o] = "ok" THEN "done" ELSE Thrown(o)]

\* (mutant of RecordRestore: no idempotency key on the restore)
RestoreUnkeyed(i, amount) ==
    /\ wallet' = wallet + amount
    /\ restored' = [restored EXCEPT ![i] = @ + amount]
    /\ UNCHANGED <<status, applied, aside>>

\* The credit under wallet-restore:<key>, in the finally block.
RecordRestore(i, amount) ==
    /\ wallet' = wallet + KeyEffect(restored[i], amount)
    /\ restored' = [restored EXCEPT ![i] = amount]
    /\ UNCHANGED <<status, applied, aside>>

Restore(o) ==
    /\ pc[o] = "restore"
    /\ KeyAccepts(restored[InvoiceOf[o]], held[o])
    /\ RecordRestore(InvoiceOf[o], held[o])
    /\ AfterRestore(o)
    /\ UNCHANGED <<held, attempt, outcome, meterVars, granted>>

\* The loop condition, "attempt < 3 && !restored", after the n-th failure.
TriesAgain(n) == n < RestoreAttempts

\* A failed restore is tried again; after the third it is only logged.
RestoreThrows(o) ==
    /\ pc[o] = "restore"
    /\ \/ /\ "error" \in Faults \/ ~KeyAccepts(restored[InvoiceOf[o]], held[o])
          /\ UNCHANGED stripeVars
       \/ /\ "lost" \in Faults
          /\ KeyAccepts(restored[InvoiceOf[o]], held[o])
          /\ RecordRestore(InvoiceOf[o], held[o])
    /\ attempt' = [attempt EXCEPT ![o] = @ + 1]
    /\ IF TriesAgain(attempt[o] + 1) THEN UNCHANGED pc ELSE AfterRestore(o)
    /\ UNCHANGED <<held, outcome, meterVars, granted>>

\* finalizeSubscriptionDraft's catch: an invoice no longer a draft is a lost
\* race and fine; anything else is rethrown.
Recheck(o) ==
    /\ pc[o] = "recheck"
    /\ pc' = [pc EXCEPT ![o] = IF status[InvoiceOf[o]] # "draft" THEN "done" ELSE "failed"]
    /\ UNCHANGED <<stripeVars, held, attempt, outcome, meterVars, granted>>

Step(o) ==
    \/ CheckDraft(o)
    \/ ReadBalance(o)
    \/ SetWalletAside(o)
    \/ SetWalletAsideThrows(o)
    \/ Finalize(o)
    \/ FinalizeThrows(o)
    \/ Restore(o)
    \/ RestoreThrows(o)
    \/ Recheck(o)

-----------------------------------------------------------------------------
(* The rest of the system, between any two of those requests. *)

\* A metered call reads the wallet first and is refused when it is empty ...
MeterReads ==
    /\ meter = "idle"
    /\ calls < MaxCalls
    /\ calls' = calls + 1
    /\ meter' = IF wallet > 0 THEN "allowed" ELSE "idle"
    /\ UNCHANGED <<stripeVars, opVars, granted>>

\* ... and debits it later, without looking again.  A call costs one credit.
MeterDebits ==
    /\ meter = "allowed"
    /\ wallet' = wallet - 1
    /\ meter' = "idle"
    /\ UNCHANGED <<status, applied, aside, restored, opVars, calls, granted>>

\* Another purchase's credits land.
OtherGrant ==
    /\ "grant" \in Faults
    /\ granted < MaxGrant
    /\ Serial => \A o \in Ops : ~Underway(o)
    /\ granted' = granted + 1
    /\ wallet' = wallet + 1
    /\ UNCHANGED <<status, applied, aside, restored, opVars, meterVars>>

\* Stripe finalizes a subscription draft itself, about an hour after creating it.
StripeAutoFinalizes(i) ==
    /\ "auto_finalize" \in Faults
    /\ status[i] = "draft"
    /\ \E o \in Rechecks : InvoiceOf[o] = i
    /\ Settle(i)
    /\ UNCHANGED <<opVars, meterVars, granted>>

Finished ==
    /\ \A o \in Ops : pc[o] \in Terminal
    /\ UNCHANGED vars

Next ==
    /\ \/ \E o \in Ops : Step(o)
       \/ MeterReads
       \/ MeterDebits
       \/ OtherGrant
       \/ \E i \in Invoices : StripeAutoFinalizes(i)
       \/ Finished
    /\ UNCHANGED scene

Spec == Init /\ [][Next]_vars

\* Every started operation keeps running: each of its steps is a pending promise.
FairSpec == Spec /\ \A o \in Ops : WF_vars(Step(o) /\ UNCHANGED scene)

-----------------------------------------------------------------------------
(* Properties. *)

Settled(i) == \A o \in Ops : InvoiceOf[o] = i => pc[o] \in {"start", "read"} \cup Terminal

\* The console.error "could not restore ... credits set aside".
Logged(i) == \E o \in Ops : InvoiceOf[o] = i /\ attempt[o] = RestoreAttempts

\* A window never gives back more than it took: whatever retries, concurrent
\* deliveries and failures do, the restore recorded for an invoice is the amount
\* its set-aside recorded, so no credits are minted.
NoCreditMinted == \A i \in Invoices : restored[i] \in {0, aside[i]}

\* The wallet is short by a set-aside only if the code said so: once nobody is
\* working on an invoice, what was set aside for it was restored or all three
\* restores of one operation failed and were logged ("the restore is the
\* customer's money: retried, and loud if it still fails", billing.ts:812).  The
\* one exception is a debit that took effect and whose answer was lost: it is
\* awaited before the try, so nothing restores it and nothing is logged.
ShortOnlyIfLogged ==
    "lost_aside" \notin Faults =>
        \A i \in Invoices : Settled(i) => restored[i] = aside[i] \/ Logged(i)

\* No invoice this code finalizes is paid out of the wallet (billing.ts:1035,
\* :1345); a negative amount is money owed that the invoice collects.
OutsideWallet == \A i \in Invoices : applied[i] <= 0

\* ... which holds while one customer's finalizations do not overlap and their
\* requests are answered, whatever metered calls debit in between.
NothingEaten == Serial /\ Faults \subseteq {"grant"} => OutsideWallet

\* A window that opened closes: while debits are answered, a set-aside does not
\* leave the wallet empty for ever without an error in the log.
WindowCloses ==
    "lost_aside" \notin Faults =>
    \A i \in Invoices : aside[i] # 0 ~> (restored[i] = aside[i] \/ Logged(i))
=============================================================================
