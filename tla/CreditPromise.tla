--------------------------- MODULE CreditPromise ----------------------------
(***************************************************************************)
(* What selling credits promises, independent of who calls what: each sale *)
(* is owed, then settled, then credited with exactly what was sold, once.  *)
(***************************************************************************)
EXTENDS Integers

CONSTANT Sales          \* the sales of one customer

VARIABLES
    stage,              \* [Sales -> "unsold" | "owed" | "settled" | "credited"]
    sold,               \* [Sales -> Nat] credits the sale is for
    credited            \* [Sales -> Nat] credits added to the wallet for it

promiseVars == <<stage, sold, credited>>

PromiseInit ==
    /\ stage = [s \in Sales |-> "unsold"]
    /\ sold = [s \in Sales |-> 0]
    /\ credited = [s \in Sales |-> 0]

Sell(s) ==
    /\ stage[s] = "unsold"
    /\ stage' = [stage EXCEPT ![s] = "owed"]
    /\ sold'[s] \in Nat \ {0}
    /\ sold' = [sold EXCEPT ![s] = sold'[s]]
    /\ UNCHANGED credited

Collect(s) ==
    /\ stage[s] = "owed"
    /\ stage' = [stage EXCEPT ![s] = "settled"]
    /\ UNCHANGED <<sold, credited>>

Credit(s) ==
    /\ stage[s] = "settled"
    /\ stage' = [stage EXCEPT ![s] = "credited"]
    /\ credited' = [credited EXCEPT ![s] = sold[s]]
    /\ UNCHANGED sold

PromiseNext == \E s \in Sales : Sell(s) \/ Collect(s) \/ Credit(s)

Promise == PromiseInit /\ [][PromiseNext]_promiseVars
=============================================================================
