-------------------------------- MODULE SetUp --------------------------------
(***************************************************************************)
(* Setting an environment up in one command (src/src/setup.ts): the plans  *)
(* of the catalogue, the usage meter, Stripe Tax, the webhook endpoint,    *)
(* the seller's tax id and the roles, with the doctor's verdict at the     *)
(* end.  No step stops the others, each call is a step of its own, two     *)
(* deployments may do it at once, and a command may die anywhere.          *)
(*                                                                         *)
(* The reconcile of the plans is that of Catalogue, whose processes these  *)
(* are.                                                                    *)
(***************************************************************************)
EXTENDS Catalogue, Doctor, Pricing, Tools

VARIABLES
    account,    \* the rest of the Stripe account, and the roles of WorkOS
    run,        \* each command under way
    calm        \* commands that nobody disturbed so far

setVars == <<account, run, calm>>
allVars == <<catVars, setVars>>

SetUps == DOMAIN catScene.ask
O(p) == catScene.ask[p]
On(p, pc) == p \in SetUps /\ run[p].pc = pc

NoRun == [pc |-> "plans", steps |-> {}, left |-> {}, listed |-> <<>>, secret |-> {}, complaints |-> {}]

\* The steps in their order.
Order == <<"plans", "meter", "tax", "webhook", "verify", "taxId", "roles", "report", "done">>
Following(step) == Order[1 + CHOOSE i \in DOMAIN Order : Order[i] = step]

Leaves(p, r) == run' = [run EXCEPT ![p] = r]
Goes(p, pc) == Leaves(p, [run[p] EXCEPT !.pc = pc])

\* A step is over: skipped, or with its line in the report.
Skip(p, step) == Goes(p, Following(step))
Reported(p, step, level) ==
    [run[p] EXCEPT !.pc = Following(step), !.left = {}, !.listed = <<>>,
                   !.steps = @ \cup {[step |-> step, level |-> level]}]
Report(p, step, level) == Leaves(p, Reported(p, step, level))

Reads == UNCHANGED <<account, calm, catVars>>
Writes(p, a) == account' = a /\ calm' = calm \cap {p} /\ UNCHANGED catVars

-----------------------------------------------------------------------------
(* The steps. *)

PlansStep(p) ==
    /\ On(p, "plans")
    /\ \/ ~O(p).plans /\ Skip(p, "plans")
       \/ O(p).plans /\ recon[p].pc = "over" /\ Report(p, "plans", "ok")
       \/ O(p).plans /\ recon[p].pc = "failed" /\ Report(p, "plans", "error")
    /\ Reads

\* ensureMeters: a lookup that fails counts as none found (meterIdFor never throws).
MeterStep(p) ==
    /\ On(p, "meter")
    /\ \/ ~O(p).meter /\ Skip(p, "meter") /\ Reads
       \/ O(p).meter /\ account.meter /\ Report(p, "meter", "ok") /\ Reads
       \/ O(p).meter /\ ~account.meter /\ Goes(p, "makeMeter") /\ Reads
       \/ /\ O(p).meter /\ Upset("fails") /\ Goes(p, "makeMeter")
          /\ UNCHANGED <<account, calm, catScene, prices, products, up, recon, sweep, memo, turns, alone, seats>>

\* External: Stripe keeps one active meter of an event name.
MakeMeter(p) ==
    /\ On(p, "makeMeter")
    /\ IF account.meter THEN Report(p, "meter", "error") /\ Reads
       ELSE Report(p, "meter", "ok") /\ Writes(p, [account EXCEPT !.meter = TRUE])

\* Stripe Tax: the head office,
TaxStep(p) ==
    /\ On(p, "tax")
    /\ \/ O(p).taxMode # "stripe" /\ Skip(p, "tax") /\ Reads
       \/ O(p).taxMode = "stripe" /\ O(p).stripeTax = {} /\ Report(p, "tax", "warn") /\ Reads
       \/ /\ O(p).taxMode = "stripe"
          /\ \E tax \in O(p).stripeTax :
                Goes(p, "listTax") /\ Writes(p, [account EXCEPT !.settled = tax.complete])

ActiveCountries == {r.country : r \in {s \in account.registrations : s.active}}

\* ... the registrations that are active, by country,
ListTax(p) ==
    /\ On(p, "listTax")
    /\ \E tax \in O(p).stripeTax :
          Leaves(p, [run[p] EXCEPT !.pc = "makeTax", !.left =
              {i \in DOMAIN tax.registrations : tax.registrations[i].country \notin ActiveCountries}])
    /\ Reads

\* ... and one after the other those that are missing.
MakeTax(p) ==
    /\ On(p, "makeTax")
    /\ IF run[p].left = {}
       THEN Report(p, "tax", IF account.settled THEN "ok" ELSE "error") /\ Reads
       ELSE LET i == Least(run[p].left) IN
            /\ Leaves(p, [run[p] EXCEPT !.left = @ \ {i}])
            /\ \E tax \in O(p).stripeTax :
                  Writes(p, [account EXCEPT !.registrations = @ \cup {tax.registrations[i]}])

\* The endpoints registered for the URL, the newest first.
Endpoints ==
    LET ids == {i \in DOMAIN account.hooks : account.hooks[i].there}
        nth[n \in 1..Len(account.hooks)] ==
            CHOOSE i \in ids : Cardinality({j \in ids : j >= i}) = n
    IN [n \in 1..Cardinality(ids) |-> nth[n]]

\* ensureWebhookEndpoint: list them, delete the others when asked to,
WebhookStep(p) ==
    /\ On(p, "webhook")
    /\ \/ ~O(p).webhook /\ Skip(p, "webhook")
       \/ /\ O(p).webhook
          /\ Leaves(p, [run[p] EXCEPT !.pc = "prune",
                !.listed = [n \in DOMAIN Endpoints |->
                               [id |-> Endpoints[n], full |-> account.hooks[Endpoints[n]].full]],
                !.left = IF O(p).prune THEN {Endpoints[n] : n \in DOMAIN Endpoints \ {1}} ELSE {}])
    /\ Reads

\* One that somebody has deleted since is an error.
Prune(p) ==
    /\ On(p, "prune")
    /\ IF run[p].left = {} THEN Goes(p, "hook") /\ Reads
       ELSE \E i \in run[p].left :
               IF account.hooks[i].there
               THEN /\ Leaves(p, [run[p] EXCEPT !.left = @ \ {i}])
                    /\ Writes(p, [account EXCEPT !.hooks[i].there = FALSE])
               ELSE Report(p, "webhook", "error") /\ Reads

\* ... give the newest the events it lacks, or create one and keep its secret.
Hook(p) ==
    /\ On(p, "hook")
    /\ IF run[p].listed = <<>>
       THEN /\ Leaves(p, [Reported(p, "webhook", "ok") EXCEPT !.secret = {Len(account.hooks) + 1}])
            /\ Writes(p, [account EXCEPT !.hooks =
                  Append(@, [there |-> TRUE, full |-> TRUE, enabled |-> TRUE, by |-> {p}])])
       ELSE LET it == run[p].listed[1] IN
            IF it.full THEN Report(p, "webhook", "ok") /\ Reads
            ELSE IF account.hooks[it.id].there
                 THEN Report(p, "webhook", "ok") /\ Writes(p, [account EXCEPT !.hooks[it.id].full = TRUE])
                 ELSE Report(p, "webhook", "error") /\ Reads

-----------------------------------------------------------------------------
(* The verdict. *)

Facts(p) ==
    [catScene.facts EXCEPT
        !.taxMode = O(p).taxMode, !.taxIds = account.taxIds, !.printed = account.printed,
        !.settled = account.settled, !.active = ActiveCountries,
        !.unspecified = \E i \in DOMAIN prices : prices[i].active /\ prices[i].managed /\ ~prices[i].taxed,
        !.webhook = O(p).webhook,
        !.endpoints = [n \in DOMAIN Endpoints |-> account.hooks[Endpoints[n]]]]

Told(p, complaints) == [run[p] EXCEPT !.complaints = @ \cup complaints]

Verify(p) ==
    /\ On(p, "verify")
    /\ Leaves(p, [Told(p, AccountComplaints(Facts(p))) EXCEPT !.pc = Following("verify")])
    /\ Reads

\* (mutant of Unverified) the failure goes out of the command, and the report with it.
UnverifiedAndOut(p) == [run[p] EXCEPT !.pc = "done", !.secret = {}]

\* It talks to Stripe and may fail: a complaint like another.
Unverified(p) == [Told(p, Blame(TRUE, "Stripe")) EXCEPT !.pc = Following("verify")]

\* ensureAccountTaxId, by value; making it the default is refused unless a platform
\* asks, and no refusal is an error of the step.
TaxIdStep(p) ==
    /\ On(p, "taxId")
    /\ \/ O(p).taxId = {} /\ Skip(p, "taxId")
       \/ O(p).taxId # {} /\ O(p).taxId \subseteq account.taxIds /\ Goes(p, "defaultTaxId")
       \/ O(p).taxId # {} /\ ~(O(p).taxId \subseteq account.taxIds) /\ Goes(p, "makeTaxId")
    /\ Reads

MakeTaxId(p) ==
    /\ On(p, "makeTaxId") /\ Goes(p, "defaultTaxId")
    /\ Writes(p, [account EXCEPT !.taxIds = @ \cup O(p).taxId])

DefaultTaxId(p) ==
    /\ On(p, "defaultTaxId") /\ Report(p, "taxId", "ok")
    /\ \/ ~catScene.platform /\ Reads
       \/ catScene.platform /\ Writes(p, [account EXCEPT !.printed = TRUE])
       \/ /\ catScene.platform /\ Upset("fails")
          /\ UNCHANGED <<account, calm, catScene, prices, products, up, recon, sweep, memo, turns, alone, seats>>

\* ensureWorkOSRoles: one that exists already is not a failure.
RolesStep(p) ==
    /\ On(p, "roles")
    /\ \/ O(p).roles = {} /\ Skip(p, "roles")
       \/ /\ O(p).roles # {}
          /\ Leaves(p, [run[p] EXCEPT !.pc = "makeRoles", !.left = O(p).roles \ account.roles])
    /\ Reads

MakeRoles(p) ==
    /\ On(p, "makeRoles")
    /\ IF run[p].left = {} THEN Report(p, "roles", "ok") /\ Reads
       ELSE \E role \in run[p].left :
               /\ Leaves(p, [run[p] EXCEPT !.left = @ \ {role}])
               /\ IF role \in account.roles THEN Reads
                  ELSE Writes(p, [account EXCEPT !.roles = @ \cup {role}])

PlansSay(p) == IF O(p).plans THEN PlansComplaints(catScene.models, TRUE, {}) ELSE {}
WorkOSSays(p) ==
    IF O(p).workos THEN WorkOSComplaints([catScene.workos EXCEPT !.roles = account.roles], catScene.live) ELSE {}

LastWord(p) ==
    /\ On(p, "report")
    /\ Leaves(p, [Told(p, PlansSay(p) \cup WorkOSSays(p)) EXCEPT !.pc = "done"])
    /\ Reads

-----------------------------------------------------------------------------
(* What goes wrong. *)

\* (mutant of Failed) a step that throws is passed over.
FailedQuietly(p, step) == [run[p] EXCEPT !.pc = Following(step), !.left = {}, !.listed = <<>>]

\* A step that throws is a line of the report.
Failed(p, step) == Reported(p, step, "error")

StepOf(pc) ==
    CASE pc = "makeMeter" -> "meter"
      [] pc \in {"tax", "listTax", "makeTax"} -> "tax"
      [] pc \in {"webhook", "prune", "hook"} -> "webhook"
      [] pc \in {"taxId", "makeTaxId"} -> "taxId"
      [] pc \in {"roles", "makeRoles"} -> "roles"

\* A step that makes a call.
Calls(p, pc) ==
    \/ pc \in {"makeMeter", "listTax", "makeTax", "prune", "hook", "makeTaxId", "makeRoles"}
    \/ pc = "tax" /\ O(p).taxMode = "stripe" /\ O(p).stripeTax # {}
    \/ pc = "webhook" /\ O(p).webhook
    \/ pc = "taxId" /\ O(p).taxId # {}
    \/ pc = "roles" /\ O(p).roles # {}

StepFails(p) ==
    /\ p \in SetUps /\ Upset("fails")
    /\ \/ Calls(p, run[p].pc) /\ Leaves(p, Failed(p, StepOf(run[p].pc)))
       \/ run[p].pc = "verify" /\ Leaves(p, Unverified(p))
       \/ /\ run[p].pc = "report" /\ O(p).workos
          /\ Leaves(p, [Told(p, PlansSay(p) \cup Blame(TRUE, "WorkOS")) EXCEPT !.pc = "done"])
    /\ UNCHANGED <<account, calm, catScene, prices, products, up, recon, sweep, memo, turns, alone, seats>>

Dies(p) ==
    /\ p \in SetUps /\ run[p].pc \notin {"plans", "done", "dead"} /\ Upset("dies")
    /\ Goes(p, "dead")
    /\ UNCHANGED <<account, calm, catScene, prices, products, up, recon, sweep, memo, turns, alone, seats>>

\* Somebody deletes an endpoint in the dashboard, makes one, or Stripe disables one.
HandOnHooks ==
    /\ Upset("hooks")
    /\ \/ \E i \in DOMAIN account.hooks : /\ account.hooks[i].there
                                          /\ account' = [account EXCEPT !.hooks[i].there = FALSE]
       \/ \E i \in DOMAIN account.hooks : account' = [account EXCEPT !.hooks[i].enabled = FALSE]
       \/ account' = [account EXCEPT !.hooks =
                         Append(@, [there |-> TRUE, full |-> FALSE, enabled |-> TRUE, by |-> {}])]
    /\ calm' = {}
    /\ UNCHANGED <<run, catScene, prices, products, up, recon, sweep, memo, turns, alone, seats>>

-----------------------------------------------------------------------------

SetUpInit ==
    /\ CatInit
    /\ account = catScene.account
    /\ run = [p \in SetUps |-> NoRun]
    /\ calm = SetUps

SetUpStep(p) ==
    \/ PlansStep(p) \/ MeterStep(p) \/ MakeMeter(p)
    \/ TaxStep(p) \/ ListTax(p) \/ MakeTax(p)
    \/ WebhookStep(p) \/ Prune(p) \/ Hook(p)
    \/ Verify(p) \/ TaxIdStep(p) \/ MakeTaxId(p) \/ DefaultTaxId(p)
    \/ RolesStep(p) \/ MakeRoles(p) \/ LastWord(p)

\* A step of the catalogue: the prices it changes are those of the other commands too.
CatalogueStep ==
    /\ CatNext
    /\ calm' = IF prices' = prices /\ products' = products THEN calm
               ELSE {p \in calm : recon'[p] # recon[p] \/ sweep'[p] # sweep[p]}
    /\ UNCHANGED <<account, run>>

SetUpNext ==
    \/ CatalogueStep
    \/ \E p \in SetUps : SetUpStep(p) \/ StepFails(p) \/ Dies(p)
    \/ HandOnHooks

SetUpSpec == SetUpInit /\ [][SetUpNext]_allVars /\ CatFairness

-----------------------------------------------------------------------------
(* Properties. *)

\* Everything a command was asked for.
Provisioned(p) ==
    /\ O(p).plans => \A i \in DOMAIN Config(p) :
          \E j \in HolderOf(Config(p)[i].key) : Sells(j, Config(p)[i])
    /\ O(p).meter => account.meter
    /\ O(p).taxMode = "stripe" => \A tax \in O(p).stripeTax :
          account.settled /\ \A i \in DOMAIN tax.registrations :
             tax.registrations[i].active => tax.registrations[i].country \in ActiveCountries
    /\ O(p).webhook =>
          /\ Endpoints # <<>> /\ account.hooks[Endpoints[1]].full /\ account.hooks[Endpoints[1]].enabled
          /\ O(p).prune => Len(Endpoints) = 1
    /\ O(p).taxId \subseteq account.taxIds
    /\ O(p).roles \subseteq account.roles
    /\ O(p).workos => AdminRole \in account.roles

\* "It ran" and "it is right" are different claims (setup.ts:32-34): when the
\* report is healthy and nobody else wrote to the account meanwhile, everything the
\* command was asked for is there, whichever call failed on the way and whatever an
\* earlier command left half done.
HealthyMeansDone ==
    \A p \in SetUps \cap calm :
        (run[p].pc = "done" /\ Clean(run[p].complaints) /\ \A s \in run[p].steps : s.level # "error")
        => Provisioned(p)

\* The secret of an endpoint is shown once: a command that ends has in its report
\* that of the endpoint it created, whatever failed after ("strictly worse than no
\* verification", setup.ts:228-236); and two commands that prune each other's
\* endpoints never leave the URL without one.
HooksSurvive ==
    /\ \A i \in DOMAIN account.hooks : \A p \in account.hooks[i].by :
          run[p].pc = "done" => i \in run[p].secret
    /\ upsets = 0 /\ account.hooks # <<>> => Endpoints # <<>>

\* A plan the doctor has nothing to say of serves: every included window asks the
\* ledger only what ledgerGaps demands of it ("wrong in both directions against the
\* reads resolveAllowance actually issues", plan-model.ts:1327-1329), and nobody it
\* provides for is refused their first call (doctor.ts:713, 761).
PassedPlansServe ==
    \A m \in catScene.models : PlanComplaints(m) = {} => Serves(m)

\* What the page says is what the till takes: the saving is never overstated, the
\* button of a plan leads to a basket that is accepted, and the grid of moves up
\* shows the move the ladder offers ("cannot disagree", pricing.ts:233-235).
PagesAreTrue ==
    \A opts \in catScene.pages : PageIsTrue(catScene.catalogue, opts)

\* The surfaces of one deployment agree: whoever is refused is offered a call that is
\* registered and takes them ("`action` names the next tool, which is the whole
\* answer", bound-api.ts:331-336), the bound API and the tools "cannot disagree"
\* (bound-api.ts:130-133), a key that could not be checked is not told that it is
\* wrong (auth.ts:172-204), and a payment buys the call it was made for.
SurfacesAgree ==
    \A s \in catScene.surfaces : SurfaceIsTrue(s)
=============================================================================
