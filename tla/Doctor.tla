------------------------------- MODULE Doctor -------------------------------
(***************************************************************************)
(* What the doctor says of a catalogue, of a Stripe account and of a       *)
(* WorkOS environment (src/src/doctor.ts). It only reads: facts in,        *)
(* complaints out. A check that is satisfied says nothing here.            *)
(***************************************************************************)
EXTENDS Ladder, FiniteSets

CONSTANTS
    LocalTaxOrigins,    \* countries the local engine has rates for
    FirstSale,          \* countries that tax a foreign seller from the first sale
    FromThreshold       \* those that do so above a turnover

Complaint(when, level, about) == IF when THEN {[level |-> level, about |-> about]} ELSE {}
Warn(when, about) == Complaint(when, "warn", about)
Blame(when, about) == Complaint(when, "error", about)

Clean(complaints) == \A c \in complaints : c.level # "error"

-----------------------------------------------------------------------------
(* The plans of the configuration (checkPlansConfig). *)

SameCallers(a, b) == a.scope = b.scope /\ a.seat = b.seat /\ a.callerKind = b.callerKind

\* A limit that a shorter one for the same callers always forestalls. (The code
\* compares neighbours only: some pair is out of order exactly when two neighbours are.)
Unreachable(m, j) ==
    \E i \in DOMAIN m.rate \ {j} :
        /\ SameCallers(m.rate[i], m.rate[j])
        /\ \/ OrderOf(m.rate[i].every) < OrderOf(m.rate[j].every)
           \/ m.rate[i].every = m.rate[j].every /\ i < j
        /\ m.rate[j].credits <= m.rate[i].credits

\* (mutant of LimitComplaints) a limit of nothing at all is taken for a limit.
LimitComplaintsNegative(m) ==
    Blame(\E i \in DOMAIN m.rate : m.rate[i].credits < 0, "zero limit")
    \cup Warn(\E i \in DOMAIN m.rate : m.rate[i].scope = "org" /\ m.rate[i].seat # {}, "org limit of a seat")
    \cup Warn(\E j \in DOMAIN m.rate : Unreachable(m, j), "unreachable limit")

LimitComplaints(m) ==
    Blame(\E i \in DOMAIN m.rate : m.rate[i].credits <= 0, "zero limit")
    \cup Warn(\E i \in DOMAIN m.rate : m.rate[i].scope = "org" /\ m.rate[i].seat # {}, "org limit of a seat")
    \cup Warn(\E j \in DOMAIN m.rate : Unreachable(m, j), "unreachable limit")

\* The wallet is what pays, for somebody at least, once the window is used up.
Overflows(m) ==
    \/ m.cap.kind = "wallet"
    \/ m.cap.covers = "users"
    \/ m.cap.onExhausted = "wallet"
Fillable(m) == m.replenish.purchase # {} \/ m.replenish.autoReload # {}

IncludedOf(m) == {m.seatTypes[i].included : i \in DOMAIN m.seatTypes}
AllIncludeNothing(m) == IncludedOf(m) \subseteq {0}
NoSeats == [total |-> 1, mix |-> <<>>]

\* A pool sized by a flat figure and by the seats at once is not represented.
PoolComplaints(m) ==
    IF m.cap.kind # "pool" THEN {} ELSE
    Blame(m.cap.rollover /\ m.cap.window = "month", "two windows")
    \cup Warn(PoolSizeOf(m, NoSeats) = {0}, "empty pool")
    \cup Blame(m.cap.perSeat = "number" /\ Cardinality(IncludedOf(m)) > 1, "one number for many tiers")
    \cup Warn(m.cap.perSeat = "included" /\ AllIncludeNothing(m), "pool of nothing included")
    \cup Warn(m.cap.perSeat # "none" /\ m.sells = "nothing", "per seat without seats")

PlanComplaints(m) ==
    Blame(m.sells # "nothing" /\ m.grant.kind # "none", "credits its own invoice")
    \cup LimitComplaints(m)
    \cup Warn(Overflows(m) /\ ~Fillable(m), "wallet it cannot fill")
    \cup PoolComplaints(m)
    \cup Warn(m.grant.kind = "purchased_seats" /\ AllIncludeNothing(m), "grants nothing")
    \cup Warn(\E i \in DOMAIN m.seatTypes : m.seatTypes[i].shared /\ m.seatTypes[i].max = {}, "unbounded shared seat")
    \cup Warn(m.sale = "self_serve" /\ m.sells = "nothing", "sells nothing")

Sellable(m) == m.sale = "self_serve" /\ m.sells # "nothing"

\* ledger, what the wired ledger counts, is a set of at most one answer.
PlansComplaints(models, hasCheckout, ledger) ==
    UNION {PlanComplaints(m) : m \in models}
    \cup Blame(\E covers \in ledger : \E m \in models : LedgerGaps(m, covers) # {}, "usage ledger")
    \cup Warn(~hasCheckout /\ \E m \in models : Sellable(m), "nothing to buy with")

-----------------------------------------------------------------------------
(* The Stripe account (checkBillingSetup). f is what is read of it. *)

SupplierComplaints(f) ==
    Warn(f.taxMode # "none" /\ (~f.taxIdsRead \/ f.taxIds = {} \/ ~f.printed), "supplier tax id")

OriginComplaints(f) ==
    IF f.taxMode # "local" \/ f.country = {} THEN {} ELSE
    Blame(f.origin = {} /\ ~(f.country \subseteq LocalTaxOrigins), "no rates for the origin")
    \cup Warn(f.origin # {} /\ f.origin # f.country, "origin is not the account's country")

StripeTaxComplaints(f) ==
    IF f.taxMode # "stripe" THEN {} ELSE
    Blame(~f.settled, "tax settings")
    \cup Blame(f.active = {}, "no registration")
    \cup Blame(f.unspecified, "tax behaviour")

\* Half an hour is well within the hour Stripe leaves a draft open.
SyncComplaints(f) == Warn(\E every \in f.sync : every = 0 \/ every >= 30, "no backstop for renewals")

WalletPaid(i) == (i.subscription \/ i.credits) /\ i.fromWallet /\ ~i.repaid
InvoiceComplaints(f) ==
    Blame(\E i \in f.invoices : WalletPaid(i), "paid from the wallet")
    \cup Blame(/\ \E i \in f.invoices : i.taxed
               /\ \E i \in f.invoices : i.topUp /\ ~i.taxed, "untaxed top-ups")

\* The endpoints of the URL, the newest first; what counts is the first.
WebhookComplaints(f) ==
    IF ~f.webhook THEN {} ELSE
    Blame(f.endpoints = <<>>, "no endpoint")
    \cup Blame(f.endpoints # <<>> /\ ~f.endpoints[1].full, "missing events")
    \cup Blame(f.endpoints # <<>> /\ ~f.endpoints[1].enabled, "endpoint disabled")
    \cup Warn(Len(f.endpoints) > 1, "duplicate endpoints")
    \cup Blame(~f.secret, "no signing secret")

\* Counters in the shape of a customer are left out of the sample.
Sampled(f) == {c \in f.customers : ~c.counter}
Exposed(f) == UNION {c.country : c \in Sampled(f)} \ (f.origin \cup UNION f.declared)

CustomerComplaints(f) ==
    IF f.currency = {} THEN {} ELSE
    Blame(f.taxConfigured /\ Exposed(f) \cap FirstSale # {}, "unregistered exposure")
    \cup Warn(f.taxConfigured /\ Exposed(f) \cap FromThreshold # {}, "unregistered exposure")
    \cup Warn(\E c \in Sampled(f) : c.reload /\ ~c.card, "reload without a card")
    \cup Warn(\E c \in Sampled(f) : ~(c.currency \subseteq f.currency), "another currency")
    \cup Warn(/\ f.taxMode = "local" /\ \E c \in Sampled(f) : "US" \in c.country
              /\ f.declared = {} \/ "US" \in UNION f.declared, "customers in the US")

SubscriptionComplaints(f) == Blame(\E c \in DOMAIN f.subscriptions : f.subscriptions[c] > 1, "billed twice")

AccountComplaints(f) ==
    SupplierComplaints(f) \cup OriginComplaints(f) \cup StripeTaxComplaints(f) \cup SyncComplaints(f)
    \cup InvoiceComplaints(f) \cup WebhookComplaints(f) \cup CustomerComplaints(f)
    \cup SubscriptionComplaints(f)

-----------------------------------------------------------------------------
(* The WorkOS environment (checkWorkOSSetup). Newer keys do not name theirs. *)

AdminRole == "admin"

EnvironmentMismatch(environment, live) == environment # "unknown" /\ (environment = "live") # live

WorkOSComplaints(w, live) ==
    Blame(~w.key, "no key") \cup Blame(~w.client, "no client id")
    \cup (IF ~w.key THEN {} ELSE
          Blame(EnvironmentMismatch(w.environment, live), "mixed environments")
          \cup Blame(~w.accepted, "key refused")
          \cup Warn(~w.accepted \/ w.crowded, "metadata budget")
          \cup Blame(w.accepted /\ w.rolesRead /\ AdminRole \notin w.roles, "no admin role")
          \cup Warn(~w.accepted \/ ~w.rolesRead, "roles not read"))
    \cup Blame(w.proxy /\ ~w.refreshSecret, "no refresh secret")

-----------------------------------------------------------------------------
(* The command: each part on its own, and any that is wrong fails the run. *)

UrlOf(argv, deployed, fallback) ==
    CASE "--no-webhook" \in argv.flags -> {}
      [] "--no-webhook" \notin argv.flags /\ "--url" \in argv.flags -> argv.url
      [] OTHER -> IF deployed # {} THEN deployed ELSE fallback

ExitCode(key, parts) == IF ~key THEN 2 ELSE IF \A part \in parts : Clean(part) THEN 0 ELSE 1

-----------------------------------------------------------------------------
(* What a plan without a complaint may be relied on for. *)

CallersOf(m) ==
    [kind : {"user", "api"}, seat : SeatKeys(m) \cup {""}, id : {"somebody"}]

Turn == [every \in {Everies[i] : i \in DOMAIN Everies} |-> 0]
LimitsOf(m, caller, cycle) == Limits(m, caller, 0, {}, cycle, Turn)
OwnOf(m, caller, cycle) == OwnWindows(m, caller, NoSeats, 0, cycle, Turn)
WindowsOf(m, caller, cycle) ==
    OwnOf(m, caller, cycle)
    \cup {LimitsOf(m, caller, cycle)[i] : i \in DOMAIN LimitsOf(m, caller, cycle)}

\* Each question a window asks of included usage is one the ledger was checked for.
Countable(m) ==
    \A caller \in CallersOf(m), cycle \in {"month", "cycle"} :
        \A w \in WindowsOf(m, caller, cycle) : w.query.included =>
            (IF w.query.scope = "org" THEN "orgIncluded" ELSE "callerIncluded") \in CoverageNeededBy(m)

\* The first call of a period, a full wallet behind it when the plan can fill one.
FirstCall(m, caller, cycle) ==
    FundingFor(m, caller, LimitsOf(m, caller, cycle), OwnOf(m, caller, cycle),
               [q \in {w.query : w \in WindowsOf(m, caller, cycle)} |-> 0],
               IF Fillable(m) THEN 1 ELSE 0, 1)

\* Somebody with something included, or on the wallet of a plan that sells credits.
Provided(m, caller) ==
    \/ CapCovers(m, caller) /\ \E w \in OwnOf(m, caller, "cycle") : w.size > 0
    \/ ExhaustedPolicy(m, caller) = "wallet" /\ Fillable(m)

Serves(m) ==
    Countable(m) /\ \A caller \in CallersOf(m), cycle \in {"month", "cycle"} :
                       Provided(m, caller) => FirstCall(m, caller, cycle).ok
=============================================================================
