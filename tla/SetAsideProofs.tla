--------------------------- MODULE SetAsideProofs ---------------------------
(***************************************************************************)
(* What holds of the set-aside window for every set of operations,         *)
(* invoices and amounts.                                                   *)
(***************************************************************************)
EXTENDS SetAside, TLAPS

Entering == {"start", "read", "aside", "finalize"}

\* An operation sets aside or restores only a positive balance, and from the
\* set-aside on the amount it holds is the one recorded for its invoice.
HeldMatches ==
    \A o \in Ops :
        /\ pc[o] \in {"aside", "restore"} => held[o] > 0
        /\ pc[o] \in {"finalize", "restore"} /\ held[o] > 0 => aside[InvoiceOf[o]] = held[o]
        /\ pc[o] = "restore" => attempt[o] < RestoreAttempts
        /\ pc[o] \in Entering => attempt[o] = 0

WindowInv == TypeOK /\ HeldMatches /\ NoCreditMinted

USE DEF Steps, Entering, Terminal, stripeVars, opVars, meterVars

LEMMA SettleTypes ==
    ASSUME TypeOK, NEW i \in Invoices, Settle(i)
    PROVE  /\ wallet' \in Int
           /\ applied' \in [Invoices -> Int]
           /\ status' \in [Invoices -> {"draft", "open", "paid"}]
           /\ UNCHANGED <<aside, restored>>
<1>1. Total[i] \in Int /\ wallet \in Int
  BY SetAsideAssumption DEF TypeOK
<1>2. TakenFrom(wallet, Total[i]) \in Int
  BY <1>1 DEF TakenFrom, Lesser
<1>3. QED
  BY <1>2 DEF Settle, TypeOK

LEMMA WindowInit == Init => WindowInv
  BY SetAsideAssumption
  DEF Init, WindowInv, TypeOK, HeldMatches, NoCreditMinted, RestoreAttempts

\* The set-aside debit preserves the invariant: the key accepts it only as the
\* first request or as an identical one.
LEMMA AsideStep ==
    ASSUME WindowInv, UNCHANGED scene, NEW o \in Ops, pc[o] = "aside",
           KeyAccepts(aside[InvoiceOf[o]], held[o]),
           RecordAside(InvoiceOf[o], held[o]),
           pc' \in [Ops -> Steps],
           \A p \in Ops \ {o} : pc'[p] = pc[p],
           pc'[o] \in {"finalize", "recheck", "failed"},
           UNCHANGED <<held, attempt, outcome, meterVars, granted>>
    PROVE  WindowInv'
<1> DEFINE i == InvoiceOf[o]
<1>1. i \in Invoices /\ held[o] \in Int /\ held[o] > 0 /\ aside[i] \in Nat /\ wallet \in Int
  BY SetAsideAssumption DEF WindowInv, TypeOK, HeldMatches
<1>2. aside[i] = 0 \/ aside[i] = held[o]
  BY DEF KeyAccepts
<1>3. wallet' \in Int /\ aside' = [aside EXCEPT ![i] = held[o]] /\ UNCHANGED <<status, applied, restored>>
  BY <1>1 DEF RecordAside, KeyEffect
<1>4. TypeOK'
  BY <1>1, <1>3 DEF WindowInv, TypeOK
<1>5. NoCreditMinted'
  <2> SUFFICES ASSUME NEW j \in Invoices PROVE restored'[j] \in {0, aside'[j]}
    BY DEF NoCreditMinted
  <2>1. restored[j] \in {0, aside[j]} /\ restored[j] \in Nat
    BY DEF WindowInv, NoCreditMinted, TypeOK
  <2>2. CASE j = i
    BY <1>1, <1>2, <1>3, <2>1, <2>2 DEF WindowInv, TypeOK
  <2>3. CASE j # i
    BY <1>3, <2>1, <2>3 DEF WindowInv, TypeOK
  <2>4. QED
    BY <2>2, <2>3
<1>6. HeldMatches'
  <2> SUFFICES ASSUME NEW p \in Ops
               PROVE  /\ pc'[p] \in {"aside", "restore"} => held'[p] > 0
                      /\ pc'[p] \in {"finalize", "restore"} /\ held'[p] > 0
                            => aside'[InvoiceOf[p]] = held'[p]
                      /\ pc'[p] = "restore" => attempt'[p] < RestoreAttempts
                      /\ pc'[p] \in Entering => attempt'[p] = 0
    BY DEF HeldMatches
  <2>1. InvoiceOf[p] \in Invoices
    BY SetAsideAssumption
  <2>2. CASE p = o
    BY <1>1, <1>3, <2>1, <2>2 DEF WindowInv, TypeOK, HeldMatches
  <2>3. CASE p # o
    <3>1. pc'[p] = pc[p] /\ held'[p] = held[p] /\ held[p] \in Int /\ attempt'[p] = attempt[p]
      BY <2>3 DEF WindowInv, TypeOK
    <3>2. CASE InvoiceOf[p] = i
      BY <1>1, <1>2, <1>3, <2>1, <3>1, <3>2 DEF WindowInv, HeldMatches, TypeOK
    <3>3. CASE InvoiceOf[p] # i
      BY <1>3, <2>1, <3>1, <3>3 DEF WindowInv, HeldMatches, TypeOK
    <3>4. QED
      BY <3>2, <3>3
  <2>4. QED
    BY <2>2, <2>3
<1>7. QED
  BY <1>4, <1>5, <1>6 DEF WindowInv

\* Steps of one operation that touch neither recorded amount.
LEMMA QuietStep ==
    ASSUME WindowInv, UNCHANGED scene, NEW o \in Ops,
           wallet' \in Int,
           applied' \in [Invoices -> Int],
           status' \in [Invoices -> {"draft", "open", "paid"}],
           UNCHANGED <<aside, restored>>,
           pc' \in [Ops -> Steps],
           held' \in [Ops -> Int],
           attempt' \in [Ops -> 0..RestoreAttempts],
           outcome' \in [Ops -> {"none", "ok", "error"}],
           meter' \in {"idle", "allowed"}, calls' \in 0..MaxCalls, granted' \in 0..MaxGrant,
           \A p \in Ops \ {o} :
               pc'[p] = pc[p] /\ held'[p] = held[p] /\ attempt'[p] = attempt[p],
           pc'[o] \in {"aside", "restore"} => held'[o] > 0,
           pc'[o] \in {"finalize", "restore"} /\ held'[o] > 0
               => aside[InvoiceOf[o]] = held'[o],
           pc'[o] = "restore" => attempt'[o] < RestoreAttempts,
           pc'[o] \in Entering => attempt'[o] = 0
    PROVE  WindowInv'
<1>1. TypeOK'
  BY DEF WindowInv, TypeOK
<1>2. NoCreditMinted'
  BY DEF WindowInv, NoCreditMinted
<1>3. HeldMatches'
  BY DEF WindowInv, HeldMatches
<1>4. QED
  BY <1>1, <1>2, <1>3 DEF WindowInv

\* Steps of the environment leave every operation where it was.
LEMMA EnvironmentStep ==
    ASSUME WindowInv, UNCHANGED scene,
           wallet' \in Int,
           applied' \in [Invoices -> Int],
           status' \in [Invoices -> {"draft", "open", "paid"}],
           UNCHANGED <<aside, restored, opVars>>,
           meter' \in {"idle", "allowed"}, calls' \in 0..MaxCalls, granted' \in 0..MaxGrant
    PROVE  WindowInv'
  BY DEF WindowInv, TypeOK, NoCreditMinted, HeldMatches

\* The restore gives back the amount its set-aside recorded, once.
LEMMA RestoreStep ==
    ASSUME WindowInv, UNCHANGED scene, NEW o \in Ops, pc[o] = "restore",
           KeyAccepts(restored[InvoiceOf[o]], held[o]),
           RecordRestore(InvoiceOf[o], held[o]),
           pc' \in [Ops -> Steps],
           attempt' \in [Ops -> 0..RestoreAttempts],
           \A p \in Ops \ {o} : pc'[p] = pc[p] /\ attempt'[p] = attempt[p],
           pc'[o] \in {"restore", "done", "recheck", "failed"},
           pc'[o] = "restore" => attempt'[o] < RestoreAttempts,
           UNCHANGED <<held, outcome, meterVars, granted>>
    PROVE  WindowInv'
<1> DEFINE i == InvoiceOf[o]
<1>1. i \in Invoices /\ held[o] \in Int /\ held[o] > 0 /\ wallet \in Int
      /\ aside[i] = held[o] /\ restored[i] \in Nat
  BY SetAsideAssumption DEF WindowInv, TypeOK, HeldMatches
<1>2. wallet' \in Int /\ restored' = [restored EXCEPT ![i] = held[o]]
      /\ UNCHANGED <<status, applied, aside>>
  BY <1>1 DEF RecordRestore, KeyEffect
<1>3. TypeOK'
  BY <1>1, <1>2 DEF WindowInv, TypeOK
<1>4. NoCreditMinted'
  BY <1>1, <1>2 DEF WindowInv, NoCreditMinted, TypeOK
<1>5. HeldMatches'
  BY <1>1, <1>2 DEF WindowInv, HeldMatches
<1>6. QED
  BY <1>3, <1>4, <1>5 DEF WindowInv

\* Where the end of fn() sends an operation.
LEMMA FinalizeControl ==
    ASSUME WindowInv, UNCHANGED scene, NEW o \in Ops, pc[o] = "finalize",
           NEW ok \in BOOLEAN, AfterFinalize(o, ok)
    PROVE  /\ pc' \in [Ops -> Steps]
           /\ outcome' \in [Ops -> {"none", "ok", "error"}]
           /\ UNCHANGED <<held, attempt, meterVars, granted>>
           /\ \A p \in Ops \ {o} : pc'[p] = pc[p]
           /\ pc'[o] \in {"restore", "done", "recheck", "failed"}
           /\ pc'[o] = "restore" => held[o] > 0 /\ attempt[o] = 0
<1>1. Thrown(o) \in {"recheck", "failed"}
  BY DEF Thrown
<1>2. QED
  BY <1>1 DEF AfterFinalize, WindowInv, TypeOK, HeldMatches

LEMMA OpStep ==
    ASSUME WindowInv, UNCHANGED scene, NEW o \in Ops, Step(o)
    PROVE  WindowInv'
<1> USE DEF RestoreAttempts
<1>0. /\ TypeOK /\ InvoiceOf[o] \in Invoices
      /\ wallet \in Int /\ held[o] \in Int /\ attempt[o] \in 0..RestoreAttempts
      /\ Thrown(o) \in {"recheck", "failed"}
  BY SetAsideAssumption DEF WindowInv, TypeOK, Thrown
<1>1. CASE CheckDraft(o)
  BY <1>0, <1>1, QuietStep DEF CheckDraft, TypeOK, WindowInv, HeldMatches
<1>2. CASE ReadBalance(o)
  BY <1>0, <1>2, QuietStep DEF ReadBalance, TypeOK, WindowInv, HeldMatches
<1>3. CASE SetWalletAside(o)
  BY <1>0, <1>3, AsideStep DEF SetWalletAside, TypeOK
<1>4. CASE SetWalletAsideThrows(o)
  <2>1. CASE UNCHANGED stripeVars
    BY <1>0, <1>4, <2>1, QuietStep DEF SetWalletAsideThrows, TypeOK
  <2>2. CASE KeyAccepts(aside[InvoiceOf[o]], held[o]) /\ RecordAside(InvoiceOf[o], held[o])
    BY <1>0, <1>4, <2>2, AsideStep DEF SetWalletAsideThrows, TypeOK
  <2>3. QED
    BY <1>4, <2>1, <2>2 DEF SetWalletAsideThrows
<1>5. CASE Finalize(o)
  <2>1. pc[o] = "finalize" /\ Settle(InvoiceOf[o]) /\ AfterFinalize(o, TRUE)
    BY <1>5 DEF Finalize
  <2>2. held[o] > 0 => aside[InvoiceOf[o]] = held[o]
    BY <2>1 DEF WindowInv, HeldMatches
  <2>3. /\ wallet' \in Int
        /\ applied' \in [Invoices -> Int]
        /\ status' \in [Invoices -> {"draft", "open", "paid"}]
        /\ UNCHANGED <<aside, restored>>
    BY <1>0, <2>1, SettleTypes
  <2>4. /\ pc' \in [Ops -> Steps]
        /\ outcome' \in [Ops -> {"none", "ok", "error"}]
        /\ UNCHANGED <<held, attempt, meterVars, granted>>
        /\ \A p \in Ops \ {o} : pc'[p] = pc[p]
        /\ pc'[o] \in {"restore", "done", "recheck", "failed"}
        /\ pc'[o] = "restore" => held[o] > 0 /\ attempt[o] = 0
    BY <2>1, FinalizeControl
  <2>5. QED
    BY <1>0, <2>2, <2>3, <2>4, QuietStep DEF TypeOK
<1>6. CASE FinalizeThrows(o)
  <2>1. pc[o] = "finalize" /\ AfterFinalize(o, FALSE)
    BY <1>6 DEF FinalizeThrows
  <2>2. held[o] > 0 => aside[InvoiceOf[o]] = held[o]
    BY <2>1 DEF WindowInv, HeldMatches
  <2>3. /\ pc' \in [Ops -> Steps]
        /\ outcome' \in [Ops -> {"none", "ok", "error"}]
        /\ UNCHANGED <<held, attempt, meterVars, granted>>
        /\ \A p \in Ops \ {o} : pc'[p] = pc[p]
        /\ pc'[o] \in {"restore", "done", "recheck", "failed"}
        /\ pc'[o] = "restore" => held[o] > 0 /\ attempt[o] = 0
    BY <2>1, FinalizeControl
  <2>4. CASE UNCHANGED stripeVars
    BY <1>0, <2>2, <2>3, <2>4, QuietStep DEF TypeOK
  <2>5. CASE Settle(InvoiceOf[o])
    <3>1. /\ wallet' \in Int
          /\ applied' \in [Invoices -> Int]
          /\ status' \in [Invoices -> {"draft", "open", "paid"}]
          /\ UNCHANGED <<aside, restored>>
      BY <1>0, <2>5, SettleTypes
    <3>2. QED
      BY <1>0, <2>2, <2>3, <3>1, QuietStep DEF TypeOK
  <2>6. QED
    BY <1>6, <2>4, <2>5 DEF FinalizeThrows
<1>7. CASE Restore(o)
  BY <1>0, <1>7, RestoreStep DEF Restore, AfterRestore, TypeOK
<1>8. CASE RestoreThrows(o)
  <2>1. /\ pc[o] = "restore" /\ held[o] > 0
        /\ aside[InvoiceOf[o]] = held[o]
        /\ attempt[o] < RestoreAttempts
        /\ attempt' = [attempt EXCEPT ![o] = @ + 1]
        /\ UNCHANGED <<held, outcome, meterVars, granted>>
    BY <1>8 DEF RestoreThrows, WindowInv, HeldMatches
  <2>2. /\ pc' \in [Ops -> Steps] /\ \A p \in Ops \ {o} : pc'[p] = pc[p]
        /\ pc'[o] \in {"restore", "done", "recheck", "failed"}
        /\ pc'[o] = "restore" => attempt[o] + 1 < RestoreAttempts
    BY <1>0, <1>8, <2>1 DEF RestoreThrows, TriesAgain, AfterRestore, TypeOK
  <2>3. /\ attempt' \in [Ops -> 0..RestoreAttempts]
        /\ \A p \in Ops \ {o} : attempt'[p] = attempt[p]
        /\ attempt'[o] = attempt[o] + 1
    BY <1>0, <2>1 DEF TypeOK
  <2>4. CASE UNCHANGED stripeVars
    BY <1>0, <2>1, <2>2, <2>3, <2>4, QuietStep DEF TypeOK
  <2>5. CASE KeyAccepts(restored[InvoiceOf[o]], held[o]) /\ RecordRestore(InvoiceOf[o], held[o])
    BY <1>0, <2>1, <2>2, <2>3, <2>5, RestoreStep
  <2>6. QED
    BY <1>8, <2>4, <2>5 DEF RestoreThrows
<1>9. CASE Recheck(o)
  BY <1>0, <1>9, QuietStep DEF Recheck, TypeOK
<1>10. QED
  BY <1>1, <1>2, <1>3, <1>4, <1>5, <1>6, <1>7, <1>8, <1>9 DEF Step

LEMMA WindowStep == WindowInv /\ [Next]_vars => WindowInv'
<1> SUFFICES ASSUME WindowInv, [Next]_vars PROVE WindowInv'
  OBVIOUS
<1>0. TypeOK /\ wallet \in Int /\ UNCHANGED scene
  BY DEF WindowInv, TypeOK, Next, vars
<1>1. CASE \E o \in Ops : Step(o)
  BY <1>0, <1>1, OpStep
<1>2. CASE MeterReads
  BY <1>0, <1>2, EnvironmentStep, SetAsideAssumption DEF MeterReads, TypeOK
<1>3. CASE MeterDebits
  BY <1>0, <1>3, EnvironmentStep DEF MeterDebits, TypeOK
<1>4. CASE OtherGrant
  BY <1>0, <1>4, EnvironmentStep, SetAsideAssumption DEF OtherGrant, TypeOK
<1>5. CASE \E i \in Invoices : StripeAutoFinalizes(i)
  BY <1>0, <1>5, EnvironmentStep, SettleTypes DEF StripeAutoFinalizes, TypeOK
<1>6. CASE Finished \/ UNCHANGED vars
  BY <1>6 DEF Finished, vars, WindowInv, TypeOK, NoCreditMinted, HeldMatches
<1>7. QED
  BY <1>1, <1>2, <1>3, <1>4, <1>5, <1>6 DEF Next

\* Every state the code and its environment reach has the declared types.
THEOREM TypeCorrect == Spec => []TypeOK
<1>1. WindowInv => TypeOK
  BY DEF WindowInv
<1>2. QED
  BY <1>1, WindowInit, WindowStep, PTL DEF Spec

\* No retry, concurrent delivery or failure makes withWalletSetAside give back
\* credits it did not take: the finally block's restore is keyed on the invoice
\* and always carries the amount the set-aside recorded.
THEOREM NothingMinted == Spec => []NoCreditMinted
<1>1. WindowInv => NoCreditMinted
  BY DEF WindowInv
<1>2. QED
  BY <1>1, WindowInit, WindowStep, PTL DEF Spec

-----------------------------------------------------------------------------
(* Finalizations of one customer that do not overlap, and whose requests all   *)
(* succeed, never take credits from the wallet.                                *)

\* The situation NothingEaten speaks of.
InTurn == Serial /\ Faults \subseteq {"grant"}

OneUnderway == \A o, p \in Ops : o # p => ~(Underway(o) /\ Underway(p))

\* While an operation is between its read and its debit the wallet only shrinks,
\* and when it finalizes a draft the wallet is empty.
WalletEmptied ==
    \A o \in Ops :
        /\ pc[o] = "aside" => wallet <= held[o]
        /\ pc[o] = "finalize" /\ status[InvoiceOf[o]] = "draft" => wallet <= 0

\* A set-aside is only ever replayed for an invoice that is no longer a draft.
AsideOnce ==
    \A i \in Invoices : aside[i] # 0 /\ status[i] = "draft"
                           => \E o \in Ops : InvoiceOf[o] = i /\ pc[o] = "finalize"

SerialInv == WindowInv /\ OneUnderway /\ WalletEmptied /\ AsideOnce /\ OutsideWallet

LEMMA SettleEmpty ==
    ASSUME TypeOK, OutsideWallet, NEW i \in Invoices, Settle(i), wallet <= 0
    PROVE  /\ OutsideWallet'
           /\ status'[i] # "draft"
           /\ \A j \in Invoices \ {i} : status'[j] = status[j]
           /\ wallet' \in Int
           /\ UNCHANGED <<aside, restored>>
<1>1. Total[i] \in Nat \ {0} /\ wallet \in Int
  BY SetAsideAssumption DEF TypeOK
<1>2. TakenFrom(wallet, Total[i]) \in Int /\ TakenFrom(wallet, Total[i]) <= 0
  BY <1>1 DEF TakenFrom, Lesser
<1>3. /\ applied' = [applied EXCEPT ![i] = TakenFrom(wallet, Total[i])]
      /\ status'[i] \in {"open", "paid"}
      /\ \A j \in Invoices \ {i} : status'[j] = status[j]
      /\ wallet' \in Int /\ UNCHANGED <<aside, restored>>
  BY <1>1, <1>2 DEF Settle, TypeOK
<1>4. OutsideWallet'
  <2> SUFFICES ASSUME NEW j \in Invoices PROVE applied'[j] <= 0
    BY DEF OutsideWallet
  <2>1. applied[j] \in Int /\ applied[j] <= 0
    BY DEF TypeOK, OutsideWallet
  <2>2. applied'[j] = IF j = i THEN TakenFrom(wallet, Total[i]) ELSE applied[j]
    BY <1>3 DEF TypeOK
  <2>3. QED
    BY <1>2, <2>1, <2>2
<1>5. QED
  BY <1>3, <1>4

LEMMA SerialInit == Init => SerialInv
  BY WindowInit, SetAsideAssumption
  DEF Init, SerialInv, OneUnderway, Underway, WalletEmptied, AsideOnce, OutsideWallet

\* A step after which o is the only operation that may be underway, as before it.
LEMMA StaysAlone ==
    ASSUME OneUnderway, NEW o \in Ops,
           \A p \in Ops \ {o} : pc'[p] = pc[p],
           \/ Underway(o)
           \/ ~Underway(o)'
           \/ \A p \in Ops \ {o} : ~Underway(p)
    PROVE  OneUnderway'
  BY DEF OneUnderway, Underway

LEMMA SerialOpStep ==
    ASSUME InTurn, SerialInv, WindowInv', NEW o \in Ops, Step(o)
    PROVE  SerialInv'
<1> DEFINE i == InvoiceOf[o]
<1>0. /\ TypeOK /\ i \in Invoices /\ wallet \in Int /\ held[o] \in Int
      /\ Thrown(o) \in {"recheck", "failed"}
      /\ "error" \notin Faults /\ "lost" \notin Faults /\ "lost_aside" \notin Faults
      /\ \A p \in Ops : InvoiceOf[p] \in Invoices /\ held[p] \in Int
  BY SetAsideAssumption DEF InTurn, SerialInv, WindowInv, TypeOK, Thrown
<1>a. \A p \in Ops \ {o} : pc'[p] = pc[p] /\ held'[p] = held[p]
  <2>1. CASE CheckDraft(o) \/ ReadBalance(o) \/ Recheck(o)
    BY <1>0, <2>1 DEF CheckDraft, ReadBalance, Recheck, TypeOK
  <2>2. CASE SetWalletAside(o) \/ SetWalletAsideThrows(o)
    BY <1>0, <2>2 DEF SetWalletAside, SetWalletAsideThrows, TypeOK
  <2>3. CASE Finalize(o) \/ FinalizeThrows(o)
    BY <1>0, <2>3 DEF Finalize, FinalizeThrows, AfterFinalize, TypeOK
  <2>4. CASE Restore(o) \/ RestoreThrows(o)
    BY <1>0, <2>4 DEF Restore, RestoreThrows, AfterRestore, TypeOK
  <2>5. QED
    BY <2>1, <2>2, <2>3, <2>4 DEF Step
<1>1. CASE CheckDraft(o) \/ Recheck(o)
  <2>1. /\ pc[o] \in {"start", "recheck"} /\ pc'[o] \in {"read", "done", "failed"}
        /\ UNCHANGED <<stripeVars, held>>
    BY <1>0, <1>1 DEF CheckDraft, Recheck, TypeOK
  <2>2. OneUnderway'
    BY <1>a, <2>1, StaysAlone DEF SerialInv, Underway
  <2>3. WalletEmptied'
    BY <1>a, <2>1 DEF SerialInv, WalletEmptied
  <2>4. AsideOnce'
    BY <1>a, <2>1 DEF SerialInv, AsideOnce
  <2>5. QED
    BY <2>1, <2>2, <2>3, <2>4 DEF SerialInv, OutsideWallet
<1>2. CASE ReadBalance(o)
  <2>1. /\ pc[o] = "read" /\ UNCHANGED stripeVars
        /\ held'[o] = wallet /\ pc'[o] \in {"aside", "finalize"}
        /\ pc'[o] = "finalize" => wallet <= 0
        /\ \A p \in Ops \ {o} : ~Underway(p)
    BY <1>0, <1>2 DEF ReadBalance, MayEnter, InTurn, TypeOK
  <2>2. OneUnderway'
    BY <1>a, <2>1, StaysAlone DEF SerialInv
  <2>3. WalletEmptied'
    BY <1>0, <1>a, <2>1 DEF SerialInv, WalletEmptied
  <2>4. AsideOnce'
    BY <1>a, <2>1 DEF SerialInv, AsideOnce
  <2>5. QED
    BY <2>1, <2>2, <2>3, <2>4 DEF SerialInv, OutsideWallet
<1>3. CASE SetWalletAside(o)
  <2>1. /\ pc[o] = "aside" /\ pc'[o] = "finalize" /\ UNCHANGED <<status, applied, held>>
        /\ KeyAccepts(aside[i], held[o])
        /\ wallet' = wallet - KeyEffect(aside[i], held[o])
        /\ aside' = [aside EXCEPT ![i] = held[o]]
    BY <1>0, <1>3 DEF SetWalletAside, RecordAside, TypeOK
  <2>2. OneUnderway'
    BY <1>a, <2>1, StaysAlone DEF SerialInv, Underway
  <2>3. \A p \in Ops \ {o} : ~Underway(p)
    BY <2>1 DEF SerialInv, OneUnderway, Underway
  <2>4. status[i] = "draft" => aside[i] = 0
    BY <1>0, <2>1, <2>3 DEF SerialInv, AsideOnce, Underway
  <2>5. status[i] = "draft" => wallet' <= 0
    BY <1>0, <2>1, <2>4 DEF SerialInv, WalletEmptied, KeyEffect
  <2>6. WalletEmptied'
    BY <1>a, <2>1, <2>3, <2>5 DEF WalletEmptied, Underway
  <2>7. AsideOnce'
    <3> SUFFICES ASSUME NEW j \in Invoices, aside'[j] # 0, status'[j] = "draft"
                 PROVE  \E p \in Ops : InvoiceOf[p] = j /\ pc'[p] = "finalize"
      BY DEF AsideOnce
    <3>1. CASE j = i
      BY <2>1, <3>1
    <3>2. CASE j # i
      <4>1. aside[j] # 0 /\ status[j] = "draft"
        BY <1>0, <2>1, <3>2 DEF TypeOK
      <4>2. QED
        BY <1>a, <2>1, <4>1 DEF SerialInv, AsideOnce
    <3>3. QED
      BY <3>1, <3>2
  <2>8. QED
    BY <2>1, <2>2, <2>6, <2>7 DEF SerialInv, OutsideWallet
<1>4. CASE SetWalletAsideThrows(o)
  <2>1. /\ pc[o] = "aside" /\ pc'[o] \in {"recheck", "failed"}
        /\ UNCHANGED <<stripeVars, held>>
    BY <1>0, <1>4 DEF SetWalletAsideThrows, TypeOK
  <2>2. OneUnderway'
    BY <1>a, <2>1, StaysAlone DEF SerialInv, Underway
  <2>3. WalletEmptied'
    BY <1>a, <2>1 DEF SerialInv, WalletEmptied
  <2>4. AsideOnce'
    BY <1>a, <2>1 DEF SerialInv, AsideOnce
  <2>5. QED
    BY <2>1, <2>2, <2>3, <2>4 DEF SerialInv, OutsideWallet
<1>5. CASE Finalize(o)
  <2>1. /\ pc[o] = "finalize" /\ status[i] = "draft" /\ Settle(i)
        /\ pc'[o] \in {"restore", "done", "recheck", "failed"}
    BY <1>0, <1>5 DEF Finalize, AfterFinalize, TypeOK
  <2>2. wallet <= 0
    BY <2>1 DEF SerialInv, WalletEmptied
  <2>3. /\ OutsideWallet' /\ status'[i] # "draft" /\ UNCHANGED aside
        /\ \A j \in Invoices \ {i} : status'[j] = status[j]
    BY <1>0, <2>1, <2>2, SettleEmpty DEF SerialInv
  <2>4. OneUnderway'
    BY <1>a, <2>1, StaysAlone DEF SerialInv, Underway
  <2>5. \A p \in Ops \ {o} : ~Underway(p)
    BY <2>1 DEF SerialInv, OneUnderway, Underway
  <2>6. WalletEmptied'
    BY <1>a, <2>1, <2>5 DEF WalletEmptied, Underway
  <2>7. AsideOnce'
    BY <1>0, <1>a, <2>1, <2>3 DEF SerialInv, AsideOnce
  <2>8. QED
    BY <2>3, <2>4, <2>6, <2>7 DEF SerialInv
<1>6. CASE FinalizeThrows(o)
  <2>1. /\ pc[o] = "finalize" /\ status[i] # "draft" /\ UNCHANGED <<stripeVars, held>>
        /\ pc'[o] \in {"restore", "done", "recheck", "failed"}
    BY <1>0, <1>6 DEF FinalizeThrows, AfterFinalize, TypeOK
  <2>2. OneUnderway'
    BY <1>a, <2>1, StaysAlone DEF SerialInv, Underway
  <2>3. WalletEmptied'
    BY <1>a, <2>1 DEF SerialInv, WalletEmptied
  <2>4. AsideOnce'
    BY <1>a, <2>1 DEF SerialInv, AsideOnce
  <2>5. QED
    BY <2>1, <2>2, <2>3, <2>4 DEF SerialInv, OutsideWallet
<1>7. CASE Restore(o) \/ RestoreThrows(o)
  <2>1. /\ pc[o] = "restore" /\ pc'[o] \in {"restore", "done", "recheck", "failed"}
        /\ UNCHANGED <<status, applied, aside, held>>
    BY <1>0, <1>7 DEF Restore, RestoreThrows, RecordRestore, AfterRestore, TypeOK
  <2>2. OneUnderway'
    BY <1>a, <2>1, StaysAlone DEF SerialInv, Underway
  <2>3. \A p \in Ops \ {o} : ~Underway(p)
    BY <2>1 DEF SerialInv, OneUnderway, Underway
  <2>4. WalletEmptied'
    BY <1>a, <2>1, <2>3 DEF WalletEmptied, Underway
  <2>5. AsideOnce'
    BY <1>a, <2>1 DEF SerialInv, AsideOnce
  <2>6. QED
    BY <2>1, <2>2, <2>4, <2>5 DEF SerialInv, OutsideWallet
<1>8. QED
  BY <1>1, <1>2, <1>3, <1>4, <1>5, <1>6, <1>7 DEF Step

LEMMA SerialStep ==
    ASSUME InTurn
    PROVE  SerialInv /\ [Next]_vars => SerialInv'
<1> SUFFICES ASSUME SerialInv, [Next]_vars PROVE SerialInv'
  OBVIOUS
<1>0. TypeOK /\ wallet \in Int /\ WindowInv' /\ "auto_finalize" \notin Faults
      /\ \A p \in Ops : held[p] \in Int
  BY WindowStep DEF InTurn, SerialInv, WindowInv, TypeOK
<1>1. CASE \E o \in Ops : Step(o)
  BY <1>0, <1>1, SerialOpStep
<1>2. CASE MeterReads \/ MeterDebits
  <2>1. UNCHANGED <<status, applied, aside, restored, opVars>> /\ wallet' \in Int /\ wallet' <= wallet
    BY <1>0, <1>2 DEF MeterReads, MeterDebits
  <2>2. WalletEmptied'
    BY <1>0, <2>1 DEF SerialInv, WalletEmptied
  <2>3. OneUnderway' /\ AsideOnce' /\ OutsideWallet'
    BY <2>1 DEF SerialInv, OneUnderway, Underway, AsideOnce, OutsideWallet
  <2>4. QED
    BY <1>0, <2>2, <2>3 DEF SerialInv
<1>3. CASE OtherGrant
  <2>1. UNCHANGED <<status, applied, aside, restored, opVars>> /\ \A o \in Ops : ~Underway(o)
    BY <1>3 DEF OtherGrant, InTurn
  <2>2. OneUnderway' /\ AsideOnce' /\ OutsideWallet' /\ WalletEmptied'
    BY <2>1 DEF SerialInv, OneUnderway, Underway, AsideOnce, OutsideWallet, WalletEmptied
  <2>3. QED
    BY <1>0, <2>2 DEF SerialInv
<1>4. CASE \E i \in Invoices : StripeAutoFinalizes(i)
  BY <1>0, <1>4 DEF StripeAutoFinalizes
<1>5. CASE Finished \/ UNCHANGED vars
  BY <1>0, <1>5 DEF Finished, vars, SerialInv, OneUnderway, Underway, AsideOnce,
       OutsideWallet, WalletEmptied
<1>6. QED
  BY <1>1, <1>2, <1>3, <1>4, <1>5 DEF Next

\* As long as one customer's finalizations never overlap and no request fails,
\* finalizeOutsideWallet keeps every invoice off the wallet, whatever metered
\* calls debit in between: the promise of billing.ts:757-779, with the two
\* conditions it needs (the run SetAsideOverlap drops the first).
THEOREM SerialNothingEaten == Spec => []NothingEaten
<1> DEFINE TurnInv == WindowInv /\ (InTurn => SerialInv)
<1>1. Init => TurnInv
  BY WindowInit, SerialInit
<1>2. TurnInv /\ [Next]_vars => TurnInv'
  <2> SUFFICES ASSUME TurnInv, [Next]_vars PROVE TurnInv'
    OBVIOUS
  <2>1. UNCHANGED scene
    BY DEF Next, vars
  <2>2. InTurn' => InTurn
    BY <2>1 DEF InTurn, Serial, Faults
  <2> QED
    BY <2>2, WindowStep, SerialStep
<1>3. TurnInv => NothingEaten
  BY DEF SerialInv, InTurn, NothingEaten
<1>4. QED
  BY <1>1, <1>2, <1>3, PTL DEF Spec
-----------------------------------------------------------------------------
(* What is set aside is given back, or an error says that it was not.          *)

\* An operation that has opened the window of i and not yet closed it.
Opened(o, i) == InvoiceOf[o] = i /\ pc[o] \in {"finalize", "restore"} /\ held[o] > 0

\* While answers to set-asides arrive, what is set aside was given back, or is held
\* by an operation that will give it back, or a failure was logged.
Answerable ==
    "lost_aside" \notin Faults =>
        \A i \in Invoices :
            aside[i] # 0 => restored[i] = aside[i] \/ Logged(i) \/ \E o \in Ops : Opened(o, i)

\* A step of o after which the window of i is as answerable as before: o keeps it
\* open, or logged that it could not close it.
LEMMA AnswerableKept ==
    ASSUME TypeOK, TypeOK', Answerable, UNCHANGED <<scene, aside, restored>>, NEW o \in Ops,
           \A p \in Ops \ {o} : pc'[p] = pc[p] /\ held'[p] = held[p] /\ attempt'[p] = attempt[p],
           attempt[o] = RestoreAttempts => attempt'[o] = RestoreAttempts,
           pc[o] \in {"finalize", "restore"} /\ held[o] > 0 =>
               \/ pc'[o] \in {"finalize", "restore"} /\ held'[o] > 0
               \/ attempt'[o] = RestoreAttempts
    PROVE  Answerable'
<1> SUFFICES ASSUME "lost_aside" \notin Faults, NEW i \in Invoices, aside[i] # 0
             PROVE  restored[i] = aside[i] \/ Logged(i)' \/ \E p \in Ops : Opened(p, i)'
  BY DEF Answerable, Faults
<1>1. CASE restored[i] = aside[i]
  BY <1>1
<1>2. CASE Logged(i)
  <2>1. PICK p \in Ops : InvoiceOf[p] = i /\ attempt[p] = RestoreAttempts
    BY <1>2 DEF Logged
  <2>2. attempt'[p] = RestoreAttempts
    BY <2>1
  <2>3. QED
    BY <2>1, <2>2 DEF Logged
<1>3. CASE \E p \in Ops : Opened(p, i)
  <2>1. PICK p \in Ops : Opened(p, i)
    BY <1>3
  <2>2. CASE p # o
    BY <2>1, <2>2 DEF Opened
  <2>3. CASE p = o
    BY <2>1, <2>3 DEF Opened, Logged
  <2>4. QED
    BY <2>2, <2>3
<1>4. QED
  BY <1>1, <1>2, <1>3 DEF Answerable

\* The environment holds no window and closes none.
LEMMA AnswerableAround ==
    ASSUME Answerable, UNCHANGED <<scene, aside, restored, pc, held, attempt>>
    PROVE  Answerable'
  BY DEF Answerable, Faults, Logged, Opened

LEMMA AnswerableOpStep ==
    ASSUME WindowInv, WindowInv', Answerable, UNCHANGED scene, NEW o \in Ops, Step(o)
    PROVE  Answerable'
<1> DEFINE i == InvoiceOf[o]
<1>0. /\ TypeOK /\ TypeOK' /\ i \in Invoices /\ held[o] \in Int /\ attempt[o] \in 0..RestoreAttempts
      /\ Thrown(o) \in {"recheck", "failed"} /\ RestoreAttempts = 3
  BY SetAsideAssumption DEF WindowInv, TypeOK, Thrown, RestoreAttempts
<1>1. CASE CheckDraft(o) \/ ReadBalance(o) \/ Recheck(o)
  BY <1>0, <1>1, AnswerableKept DEF CheckDraft, ReadBalance, Recheck, TypeOK
<1>2. CASE SetWalletAside(o)
  <2>1. /\ pc[o] = "aside" /\ held[o] > 0 /\ UNCHANGED <<held, attempt, restored>>
        /\ aside' = [aside EXCEPT ![i] = held[o]] /\ pc' = [pc EXCEPT ![o] = "finalize"]
    BY <1>2 DEF SetWalletAside, RecordAside, WindowInv, HeldMatches
  <2> SUFFICES ASSUME "lost_aside" \notin Faults, NEW j \in Invoices, aside'[j] # 0
               PROVE  restored[j] = aside'[j] \/ Logged(j)' \/ \E p \in Ops : Opened(p, j)'
    BY <2>1 DEF Answerable, Faults
  <2>2. CASE j = i
    <3>1. Opened(o, i)'
      BY <1>0, <2>1 DEF Opened, TypeOK
    <3>2. QED
      BY <2>2, <3>1
  <2>3. CASE j # i
    <3>1. aside'[j] = aside[j]
      BY <1>0, <2>1, <2>3 DEF TypeOK
    <3>2. \A p \in Ops : Opened(p, j) => Opened(p, j)'
      BY <1>0, <2>1, <2>3 DEF Opened, TypeOK
    <3>3. Logged(j) => Logged(j)'
      BY <2>1 DEF Logged
    <3>4. QED
      BY <3>1, <3>2, <3>3 DEF Answerable
  <2>4. QED
    BY <2>2, <2>3
<1>3. CASE SetWalletAsideThrows(o)
  <2>1. CASE UNCHANGED stripeVars
    BY <1>0, <1>3, <2>1, AnswerableKept DEF SetWalletAsideThrows, TypeOK
  <2>2. CASE "lost_aside" \in Faults
    BY <2>2 DEF Answerable, Faults
  <2>3. QED
    BY <1>3, <2>1, <2>2 DEF SetWalletAsideThrows
<1>4. CASE Finalize(o) \/ FinalizeThrows(o)
  <2>1. /\ UNCHANGED <<aside, restored, held, attempt>>
        /\ \A p \in Ops \ {o} : pc'[p] = pc[p]
        /\ pc[o] = "finalize" /\ (held[o] > 0 => pc'[o] = "restore")
    BY <1>0, <1>4 DEF Finalize, FinalizeThrows, AfterFinalize, Settle, TypeOK
  <2>2. QED
    BY <1>0, <2>1, AnswerableKept
<1>5. CASE pc[o] = "restore" /\ RecordRestore(i, held[o]) /\ UNCHANGED held
           /\ (\A p \in Ops \ {o} : pc'[p] = pc[p] /\ attempt'[p] = attempt[p])
           /\ (attempt[o] = RestoreAttempts => attempt'[o] = RestoreAttempts)
  <2>1. UNCHANGED aside /\ restored'[i] = aside[i] /\ (\A j \in Invoices \ {i} : restored'[j] = restored[j])
    BY <1>0, <1>5 DEF RecordRestore, WindowInv, HeldMatches, TypeOK
  <2> SUFFICES ASSUME "lost_aside" \notin Faults, NEW j \in Invoices \ {i}, aside[j] # 0
               PROVE  restored'[j] = aside[j] \/ Logged(j)' \/ \E p \in Ops : Opened(p, j)'
    BY <2>1 DEF Answerable, Faults
  <2>2. \A p \in Ops : InvoiceOf[p] = j => p # o
    OBVIOUS
  <2>3. \A p \in Ops : Opened(p, j) => Opened(p, j)'
    BY <1>5, <2>2 DEF Opened
  <2>4. Logged(j) => Logged(j)'
    BY <1>5, <2>2 DEF Logged
  <2>5. QED
    BY <2>1, <2>3, <2>4 DEF Answerable
<1>6. CASE Restore(o)
  BY <1>0, <1>5, <1>6 DEF Restore, AfterRestore, TypeOK
<1>7. CASE RestoreThrows(o)
  <2>1. /\ pc[o] = "restore" /\ UNCHANGED held /\ attempt[o] < 3
        /\ attempt'[o] = attempt[o] + 1
        /\ \A p \in Ops \ {o} : pc'[p] = pc[p] /\ attempt'[p] = attempt[p]
        /\ attempt[o] + 1 < 3 => UNCHANGED pc
    BY <1>0, <1>7 DEF RestoreThrows, TriesAgain, AfterRestore, WindowInv, HeldMatches, TypeOK
  <2>2. CASE UNCHANGED stripeVars
    BY <1>0, <2>1, <2>2, AnswerableKept
  <2>3. CASE RecordRestore(i, held[o])
    BY <1>0, <1>5, <2>1, <2>3
  <2>4. QED
    BY <1>7, <2>2, <2>3 DEF RestoreThrows
<1>8. QED
  BY <1>1, <1>2, <1>3, <1>4, <1>6, <1>7 DEF Step

LEMMA AnswerableStep == WindowInv /\ Answerable /\ [Next]_vars => Answerable'
<1> SUFFICES ASSUME WindowInv, Answerable, [Next]_vars PROVE Answerable'
  OBVIOUS
<1>0. UNCHANGED scene /\ WindowInv'
  BY WindowStep DEF Next, vars
<1>1. CASE \E o \in Ops : Step(o)
  BY <1>0, <1>1, AnswerableOpStep
<1>2. CASE MeterReads \/ MeterDebits \/ OtherGrant
  BY <1>0, <1>2, AnswerableAround DEF MeterReads, MeterDebits, OtherGrant
<1>3. CASE \E i \in Invoices : StripeAutoFinalizes(i)
  BY <1>0, <1>3, AnswerableAround DEF StripeAutoFinalizes, Settle
<1>4. CASE Finished \/ UNCHANGED vars
  BY <1>0, <1>4, AnswerableAround DEF Finished, vars
<1>5. QED
  BY <1>1, <1>2, <1>3, <1>4 DEF Next

\* Once nobody works on an invoice any more, the wallet is short by what was set
\* aside for it only if an error was logged (billing.ts:812-826), unless the answer
\* of a set-aside was lost.
THEOREM NeverSilentlyShort == Spec => []ShortOnlyIfLogged
<1>1. Init => Answerable
  BY DEF Init, Answerable
<1>2. WindowInv /\ Answerable => ShortOnlyIfLogged
  <2> SUFFICES ASSUME WindowInv, Answerable, "lost_aside" \notin Faults, NEW i \in Invoices, Settled(i)
               PROVE  restored[i] = aside[i] \/ Logged(i)
    BY DEF ShortOnlyIfLogged
  <2>1. \A o \in Ops : ~Opened(o, i)
    BY DEF Opened, Settled
  <2>2. aside[i] = 0 => restored[i] = aside[i]
    BY DEF WindowInv, NoCreditMinted
  <2>3. QED
    BY <2>1, <2>2 DEF Answerable
<1>3. QED
  BY <1>1, <1>2, WindowInit, WindowStep, AnswerableStep, PTL DEF Spec
=============================================================================
