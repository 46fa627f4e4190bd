----------------------------- MODULE Storefront -----------------------------
(***************************************************************************)
(* Buying (Purchase) beside what is charged and to which account (Taxing). *)
(* Neither reads what the other writes in these models, so a deployment of *)
(* one is explored with the other at rest.                                 *)
(***************************************************************************)
EXTENDS Purchase, Taxing

PurchaseRests == scene.buys + scene.finishes + scene.welcomes = 0
StorefrontInit == Init /\ TaxingInit /\ (PurchaseRests \/ (taxScene.count = 0 /\ accountScene.count = 0))
StorefrontNext == (Next /\ UNCHANGED taxingVars) \/ (TaxingNext /\ UNCHANGED vars)
StorefrontSpec == StorefrontInit /\ [][StorefrontNext]_<<vars, taxingVars>>
=============================================================================
