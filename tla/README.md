# billing-tools in TLA+

A verification development of `billing-tools`: a library that keeps a SaaS
workspace's plan, seats and prepaid credits in Stripe, mirrors them into the
metadata of a WorkOS organization, and meters calls against them. The modules
here model its stateful core and the rules it decides by, TLC checks them on small
instances, and TLAPS proves the properties of the money paths for all instances.

The library has no database. Its state is in two remote services that it
changes by single requests, from any number of processes (web handlers, a
webhook, a poller, a cron job), with nothing but Stripe's idempotency keys
between them. What is hard about it is therefore everywhere the same: **two
requests that belong together are not atomic.** Something else runs between
them, the second one fails, the answer to the first is lost, the process dies,
or the whole call is made again.

## The system

| Part | Source (`src/src/`) | State it keeps | Operations | Modelled in |
|---|---|---|---|---|
| Wallet and its set-aside window | `billing.ts` 771-875 | the customer's credit balance at Stripe; nothing of its own | `withWalletSetAside`, `finalizeOutsideWallet`, `finalizeSubscriptionDraft` | `SetAside` |
| Credit sales | `billing.ts` 718-755, 919-1414, 1642-1729 | invoice items, invoices, balance transactions at Stripe | `purchaseCredits`, `sellCredits`, `tryAutoReload`, `repayWalletShortfall`, `grantInvoiceCredits` | `CreditSale`, `CreditPromise` |
| Event polling | `events.ts`, `sync.ts` 421-546 | a cursor per provider | `pollStripeEvents`, `pollWorkOSEvents`, `runOnce`, `start` | `EventPoll` |
| Plan changes | `subscription.ts` | the subscription, its schedule and its pending update at Stripe; plan, seats, pendingPlan in the organization | `changePlan` | `PlanChange` |
| Event handlers | `sync.ts` 254-419 | none | subscription events, `invoice.paid`, `invoice.created` | in the module of the state they write |
| Plan model, allowance, ladder | `plan-model.ts`, `allowance.ts`, `ladder.ts` | none: rules over a plan and a caller | which windows apply, who pays, what a blocked caller is offered | `PlanModel`, `Allowance`, `Ladder` |
| Metering gate | `metering.ts`, `usage-ledger.ts`, `usage-cache.ts`, `alerts.ts` | meter events; a plan cache and a usage cache per process; what was announced | `meterUsage`, its ledgers, its alerts | `Metering` |
| Top-ups | `topup.ts` | one queue in the organization's metadata, grants in each member's | request, approve, deny, grant, read | `TopUps` |
| Plan and seat requests, quotes | `plan-request.ts` | one queue in the organization's metadata | ask, quote, accept, resolve | `PlanAsks`; both queues in `Requests` |
| Members, invitations, seats | `members.ts`, `invitations.ts`, `seats.ts` | memberships, invitations, a record per member | invite, accept, revoke, role, remove, assign | `Membership` |
| Organization mirror, closing | `org-mirror.ts`, `close-workspace.ts`, `adapters/workos-org.ts` | organizations, customers, subscriptions | `ensureOrg`, `closeWorkspace` | `OrgMirror`, `Workspace` |
| Agents and connectors | `agent-auth/`, `oauth-proxy/`, `adapters/workos-org.ts` | claims, registrations, parked requests, codes | register, claim, collect; authorize, exchange, refresh | `Claims`, `Connector` |
| First purchase | `checkout.ts`, `complete-checkout.ts`, `billing.ts` 150-260 | Checkout Sessions, a cache of open ones, the customer pointer | `createCheckout`, `completeCheckout`, `ensureStripeCustomer` | `Purchase` |
| Tax and billing account | `tax.ts`, `tax-regime.ts`, `tax-ids.ts`, `billing-profile.ts`, `payment-methods.ts` | address, tax ids, cards at Stripe; what VIES and Stripe answered, per process | decide, confirm, find a rate; save a number, an address, a card | `TaxRules`, `Account`, `Taxing` |
| Catalogue | `plans.ts` | products and prices at Stripe; remembered price ids per process | `ensurePlans`, `archiveOrphans`, `resolvePlanPrices`, `migrateSubscriptions` | `Catalogue` |
| Set-up, diagnosis, pricing page | `setup.ts`, `tax-setup.ts`, `doctor.ts`, `pricing.ts` | the Stripe account's settings, webhook endpoints, roles | `ensureBilling`, `runDoctor`, the page's data | `SetUp`, `Doctor`, `Pricing` |
| Surfaces | `auth.ts`, `routes/`, `tools/`, `bound-api.ts`, `machine-payment/` | none | gates, registered tools, the bound API | `Gates`, `Tools` |
| Notifications, CLI, wiring, sessions, texts, UI | the other files | none of this library's | hooks, argument parsing, a sealed cookie, rendering | no |

How the parts meet:

- A sale, a plan change that invoices at once, and a renewal all finalize an
  invoice **inside a set-aside window**. `CreditSale` takes `finalizeOutsideWallet`
  as one step and `SetAside` models its inside.
- The poller **delivers events** to the handlers at least once and in order per
  leg. `EventPoll` models the delivery; `CreditSale` (`EventGrants`) and
  `PlanChange` (`HandleEvent`, `Redelivered`) model what a handler does with it.
- `changePlan` and the event handler **write the same organization record**; the
  meter, the seats and the member ceiling read it.
- A sale's caller and the `invoice.paid` handler **share one idempotency key**.
- Every rule about a plan is asked through the same operators, as in the code: the
  meter, the requests, the page, the doctor and the tools **extend `Ladder`**, which
  extends `Allowance` and `PlanModel`. What is said in two places can so be compared.
- Top-ups and plan requests **rewrite the same object of metadata**: a write of one
  migrates the grants of an older version that the other is adding to (`Requests`).
- Closing a workspace, its members' changes and the mirror **touch the same
  memberships and records** (`Workspace`).
- A first purchase's return page, its webhook and the subscription's events **write
  one organization record** (`Purchase`).
- `ensureBilling` **runs `ensurePlans` and ends with the doctor** (`SetUp`).

What makes each part correct:

- *window*: a window gives back what it took; an invoice is not paid out of the
  wallet; a wallet is not left short in silence.
- *sales*: what is paid is credited, once, with what was sold; each invoice
  bills its own item.
- *polling*: an event the cursor has passed was handled or reported; one bad
  event, or one provider that is down, stops nothing else.
- *plan changes*: no plan without a bill; the next period bills what the
  customer was told; the copy catches up; a double click bills once.
- *gate*: what passes a limit is bounded by the calls in flight; a use is counted and
  charged once; what is served is recent; a crossed threshold is announced.
- *queues*: no grant is lost, doubled or invented; nothing waiting is dropped; what is
  answered is answered once.
- *members, seats*: no more in use than were bought; an administrator remains.
- *closing, mirror*: no subscription outlives its organization; one organization per
  row and per user.
- *agents, connectors*: a minted key reaches its agent; a connector stays registered.
- *first purchase*: what was bought is recorded in whatever order it is told; one
  customer per workspace.
- *tax, account*: the tax of a charge is that of a registration; a reverse charge rests
  on a confirmed number; edits do not empty the account.
- *catalogue, set-up*: one undisturbed reconcile repairs everything; subscribers keep
  what they bought; a healthy report is true.
- *surfaces*: the doors of one deployment agree, and what a refusal offers works.

`PROJECT.json` lists the hazards, each at its line with the properties that would
catch it. Four have no property, each with its reason: the hour in a reload's key,
keys forgotten under a repeated `invoice.paid`, a downgrade racing an upgrade (the code
does not say which the customer meant), and an unordered `payment_failed`.

## Conventions

**Requests are steps.** An action is one request to Stripe or WorkOS together
with the code from its answer to the next `await`, since JavaScript runs that
without interruption. `pc` (in `PlanChange`: `todo`, the requests left) says
where a call is; what a call read before an `await` is a variable of that call
(`held`, `seen`, `entry`, `cursor`).

**Failures are actions.** A request may be refused without effect (`error`), may
take effect and lose its answer (`lost`), or the process may die (`crash`,
`abandon`). A call repeated by its user is another call.

**Stripe is modelled by what the code relies on.** A request under a used key
with the same parameters has no effect and returns the recorded answer; with
other parameters it is refused. Keys are kept for ever, except in `PlanAsks` and
`Purchase`, whose scenes let one be forgotten (Stripe keeps them for 24 hours).

**Scenes.** Each module has a variable `scene`, chosen in `Init` from the
constant `Scenes` and never changed: which calls are made, which faults may
happen, whether the customer's calls overlap. A run thus covers several
situations, and each property says in its antecedent what it needs of the
scene, so that a reader sees the limits of a promise in the property itself. The
theorems hold for every set of scenes. `Organization` and `Storefront` put several
parts side by side; a scene wakes one of them and leaves the others at rest, because
their models do not write what the others read. The exception is real and has its own
scenes: a write of the plan requests migrates top-up grants.

**Rules are operators.** What the code itself keeps free of clocks and calls
(allowance, ladder, tax rules, pricing, diagnosis, gates) is a set of operators without
state. Their properties (`PassedPlansServe`, `PagesAreTrue`, `SurfacesAgree`) quantify
over sets of plans, pages and requests that a scene names; they relate operators of
different modules to each other, never one to itself.

**Mutants.** A definition marked `(mutant of X)` is X with a plausible mistake; it
is used nowhere, and shows that the property named for it in `PROJECT.json`
fails if the code made that mistake.

## The modules

### SetAside

Stripe pays an invoice out of the customer's balance when it finalizes it, and
that balance is the prepaid wallet. `withWalletSetAside` reads the balance
(`ReadBalance`), debits all of it under `wallet-aside:<key>` (`SetWalletAside`),
finalizes (`Finalize`), and in a `finally` credits it back under
`wallet-restore:<key>`, three times at most (`Restore`, `RestoreThrows`).
`finalizeSubscriptionDraft` looks at the draft first and again after an error
(`CheckDraft`, `Recheck`). Metered calls, other grants and Stripe's automatic
finalization run in between. `aside` and `restored` are what Stripe recorded
under the two keys, 0 for none.

- `NoCreditMinted`: a restore equals the set-aside of the same invoice.
- `ShortOnlyIfLogged`: when nobody works on an invoice, its set-aside has been
  given back or the error log says that it has not. It needs debits to be
  answered: the debit is awaited before the `try`, so a lost answer is neither
  restored nor logged (scene `Delivered` against `Answered`).
- `NothingEaten`: no invoice is paid from the wallet while one customer's
  finalizations do not overlap and are answered. Run `SetAsideOverlap` shows that
  it fails when they overlap: two sales at the same time, nothing failing.
- `WindowCloses` (liveness).

### CreditPromise, CreditSale

`CreditPromise` is what selling credits means: each sale is owed, settled, and
then credited once with what was sold. `CreditSale` is the four functions that
sell, as one pipeline of requests under keys derived from the caller's: item,
invoice, finalize, pay, grant. They differ in `Kind`: who pays off-session, who
reads a recorded invoice afresh (`RetrieveFresh`), who leaves the grant to the
event. `EventGrants` is the handler of `invoice.paid`.

- `KeepsPromise` checks `CreditPromise` under the refinement mapping `Stage`: an
  invoice is *credited* once anything was granted for it.
- `OneGrantRequest`: caller and event send the same request under the shared
  key. Otherwise Stripe refuses the second on every delivery.
- `BillsItsOwnItem`: each invoice bills its own item while the customer's calls
  follow one another and are answered. Run `CreditSaleSwept` shows two concurrent
  purchases of which one bills both items and the other none, the very outcome
  the comment at `billing.ts:1314` describes.
- `PaidIsCredited` (liveness): whatever becomes of the caller, the event credits.

### EventPoll

The two providers' logs, the cursor store, and any number of sweepers, each
going through both legs: list what is newer (`ListPage`; Stripe's leg lists the
newest first and keeps the oldest up to the cap), handle one at a time with
three attempts, give up an event that fails them (`GiveUp`), store the cursor,
report what was given up. A listing of either provider may fail, and so may reading or
writing the store; a cursor of nothing is not stored. Events occur and age out meanwhile. A cursor is the
number of events before it.

- `PassedIsAccounted`: an event the stored cursor has passed, since the first
  sweep, was handled, reported, or is about to be. `Undisturbed` lists what the
  code accepts losing: a cursor that aged out, two first sweeps at once, a crash
  between storing and reporting.
- `SweepKeepsUp` (liveness, `StripeKeepsUp /\ WorkOSKeepsUp`): one bad event does not wedge a leg,
  and the WorkOS leg keeps up even if Stripe can never be listed. It says nothing of
  scenes in which sweepers overlap or die: what they may lose is `PassedIsAccounted`'s.
- Run `EventPollEmpty`: the first sweep of an account without events stores
  `null`, so the second is a first one again and skips the account's first event.

### PlanChange

One subscription as Stripe keeps it (`sub`: items, metadata, cancellation,
schedule phases, pending update), its events, the organization's copy (`org`),
and calls of `changePlan`. A call reads the subscription once; `Decision` is the
function's decision tree, the sequence of requests it will make: resume, release,
cancel, schedule, reschedule, update, record, file or unfile `pendingPlan`.
Between them other calls, the poller and the end of the period run. `Billing` is
`diffItems`: a plan move replaces the item, a quantity move keeps it, which is
why the key of a quantity move can come back (`KeyOf`, `UpdateReplayed`). `promised`
is what the customer was last told the next period bills, `billed` every plan
Stripe has billed.

- `GrantedWasBilled`: however calls, declines, replays and late events
  interleave, the organization is never on a plan that was not billed. It assumes
  that Stripe holds back the metadata of a pending change with its items (scenes
  with `meta_early` are those in which it does not).
- `DueIsPromised`: once all calls are answered, the next period bills what the
  customer was told, for calls that follow one another and do not mix a
  cancellation with another move. Without that last restriction it is
  `UpgradeOutlivesPeriod`, which run `PlanChangeCancelled` shows violated: cancel,
  then upgrade, and the upgrade ends with the period.
- `PendingIsWaiting`: `pendingPlan` names a move that is really waiting. Both are checked
  as `PlanStands`.
- `OneInvoice`: a double-clicked Confirm raises one proration invoice.
- `MirrorSettles` (liveness): the organization's copy ends as Stripe's
  subscription, whichever calls died before recording and however often an event
  is handled, unless a scheduled phase has left the metadata stale (`MetaFresh`).

### PlanModel, Allowance, Ladder, Metering

`PlanModel` is a plan after normalization: what it sells, its seats, windows, bounds and
baskets. `Allowance` has `resolveAllowance` and `fundingFor`: the limits that apply to a
caller, the question each asks the ledger (`limit.query`), and who pays. `Ladder` is
what a blocked caller may do about it. `Metering` is `meterUsage`: the plan from its cache
(`Begin`, `PlanArrives`), one read of the ledger per question (from the cache, joining a
read in flight, or a new one: `ResolveAllowance`, `FlightsAfter`), the wallet, the decision, record, debit, and the claim and
announcement of a threshold by a flow that nobody waits for. `meter` holds the totals per
scope and window; `tally` counts uses by what funded them.

- `OverrunBounded`: where the reads are exact, no absolute limit and not the wallet is
  overrun by more than the other calls that can be in flight.
- `BooksAgree`: the wallet is charged for what it funded, once and after it was counted;
  the organization's meter holds every use.
- `ServedIsRecent`: a total that is served was true no longer ago than the time to live
  and one read, however many calls share it.
- `CrossedIsAnnounced`: at rest, the highest threshold any call crossed was announced,
  although records are read and written back whole.

### TopUps, PlanAsks, Requests

Two queues in metadata values of limited size. Both operations read, change and write
back whole; `pack` and `trimRequestsToBudget` drop settled records first.
`PlanAsks` sells an accepted quote through an invoice key made of the ask's id, and that
key may be forgotten.

- `GrantsAreKept`: never more extra allowance than was granted; with one operation at a
  time, exactly that, wherever it is stored and whatever fails.
- `SettledOnce`: an ask is answered once, a quote invoiced once.
- `AsksAreKept`: with one operation at a time, an open plan ask stays on file until a step
  answers it, and a pending top-up goes only when nothing settled is left to go first.

### Membership, OrgMirror, Workspace

Operations on people are a read, a decision and a write each. `Workspace` adds the
closing: cancel or release every live subscription, clear the members' records, delete
the organization last; subscriptions begin behind it.

- `AdminRemains`: role changes and removals in turn never leave nobody in charge.
- `NothingGivenAway`: an assignment leaves no more people drawing its seat than were bought
  or than the plan allows, the unassigned on the default seat counted; the seats given, and
  the places with the invitations, stay within it too, plus one for each operation that
  decided at the same time. What no code counts is left out and said: joining by an
  invitation that names no seat, or having a seat cleared, puts a person on the default
  seat without asking whether one is left (two findings), and a purchase that cannot be read
  allows everything (a fault of some scenes, named in the property).
- `NothingLeftBehind`: a deleted organization has no live subscription but one that began
  behind the close, and nobody who has left carries its records.

### Claims, Connector, Organization

The store of claims and the OAuth proxy, with replicas, restarts, expiry and providers
that do not answer. `Organization` composes everything an organization has.

- `OneOrganization`: a row has one organization, a user who signs in one of their own.
- `AccessIsKept`: a key is handed out once, to its agent; a connector in use keeps its
  registration and its session.

### Purchase, TaxRules, Account, Taxing, Storefront

`Purchase` opens Checkout Sessions (or hands out one it remembers), takes the payment,
completes it from several callers, and mirrors the subscription's events meanwhile;
`ensureStripeCustomer` with its welcome credit runs beside it. `Taxing` asks where seller
and customer are and whether a number stands, in processes that remember the answers,
while the customer edits the account (`Account`). The account begins with the cards and
numbers a scene lists, no two alike, the newest first; a tax id made later has a name of
its own (`madeIds`), and a card ranks by when it was last charged or made (`rank`, counted
by `moment`), which is what a prune goes by.

- `BoughtIsRecorded`: after a completion without a warning the record follows the
  subscription, in whatever order events come. An event of a newer version handled
  while the completion runs is overwritten (`overtaken`): a finding.
- `CustomerIsKept`: the pointer does not move, and the welcome credit is granted once, to
  the customer it points at.
- `AccountIsKept`: edits leave a number that was on file, and a default among the cards.
- `ReverseIsConfirmed`: a reverse charge has a number of the customer's country that was
  confirmed within its time to live, across processes and outages.
- `ChargedAsRegistered`: the rate of every other sale is that of a registration.
- `SessionFollows`: an open session carries the tax of the last country typed.

### Catalogue, Gates, Tools, Doctor, Pricing, SetUp

`Catalogue` has Stripe's prices with their lookup keys, and processes of several kinds:
servers that reconcile in the background and remember ids for ten minutes, deployments
that are replaced, commands that sweep, people in the dashboard, migrations. `SetUp` adds
the other steps of `ensureBilling`. The rest are operators.

- `ReconciledAlone`: whatever was left half done before, one undisturbed reconcile leaves
  each wanted price for sale under its key.
- `MovedAsBought`: a migration changes neither seats nor quantities, and misses nobody on
  a product in use.
- `SalesRecover` (liveness): every serving process comes to remember only prices that sell.
- `HealthyMeansDone`: a healthy report by a command that nobody interfered with means that
  all it was asked for is there.
- `HooksSurvive`: the endpoint's secret is in the report of who made it, and two commands
  that prune each other's leave one.
- `PassedPlansServe`: a plan the doctor does not complain of asks the ledger nothing it
  cannot answer and refuses nobody their first call.
- `PagesAreTrue`: savings, buttons and the grid agree with baskets and ladder.
- `SurfacesAgree`: what a refusal offers is registered and accepts the caller; REST, MCP
  and the bound API answer alike; strangers get nothing; what is listed is open; a call
  known by its key is served what is free, what its wallet covers and what a settled payment
  beside the key buys, unless the meter says wait; nobody else is. A payment sent in place of the key is turned away as an unknown key,
  which `payment.md` and the tests say is served: a finding (`routes/rest.ts:112`).

## Runs and bounds

| Run | States | Shows |
|---|---|---|
| `SetAside` | 190,598 | one renewal delivered by webhook and poller, with every fault and with all but a lost debit; a sale beside a renewal; finalizations in turn |
| `SetAsideOverlap` | violation | `OutsideWallet` |
| `CreditSale` | 59,744 | racing reloads beside a purchase; a repayment by webhook and poller; a double-clicked quote; purchases in turn; every fault |
| `CreditSaleSwept` | violation | `PaidSaleBilledItsItem` |
| `EventPoll` | 217,465 | overlapping sweepers; a process that dies anywhere; events that age out; a provider, or the store, that stays down |
| `EventPollEmpty` | violation | `FirstRunIsBaseline` |
| `PlanChange` | 170,466 | moves in turn, with re-delivery and dying calls; a double click with declines; races across a period's end |
| `PlanChangeCancelled` | violation | `UpgradeOutlivesPeriod` |
| `Metering` | 175,824 | two callers on seven shapes of plan, each ledger, with and without the cache, each fault |
| `Organization` | 195,125 | 35 scenes: 12 of the two queues, 15 of people, closing and mirror, 8 of agents and connectors |
| `Storefront` | 426,518 | 12 scenes of a first purchase; deployments of the account; sellers and customers on either side of a border and in a state of their own |
| `Provisioning` | 164,177 | 13 scenes of the catalogue (cold processes, a rollout, ids dropped while a sweep is on, a failing deploy hook beside the dashboard, migrations), 9 of the set-up; plans, pages and surfaces in a state each |

Two operations on one invoice, or two invoices with one operation each, are what
the window's races take: a third has nothing left to read that two do not
write. Amounts are small and such that an invoice is smaller and larger than the
wallet. `CreditSale` needs two callers of one key and one of another. A log of
four events against a page of two and a cap of three makes a sweep stop with a
full page, with a partial one, and at the cap. Three plans above
the free one give an upgrade, a downgrade and a way back, and two periods let a
scheduled phase begin and end. The theorems cover the numbers the runs leave out.

`Metering` has a user and an API key, one turn of a window, a wallet of two uses, a clock
to 4 against a time to live and a latency of 1, and a cache of two entries for a plan of
more, so that entries expire, are joined and are evicted. In `Organization` a value of
size 13 holds three requests of size 4 or two grants of 5, so that a fourth request
trims; three people of whom one or two are there at first, two organizations,
two actors at once; two claims at two desks; two replicas serve two trips. In
`Storefront` there are two buyers, two processes, two completions and two welcomes, two
sessions and three customers; three cards where one may be kept; three sales on two
servers with a time to live of 2; five countries (two spellings of Greece, one outside the
Union, one without VAT). `Provisioning` has three processes over four configurations, two
subscribers, five prices and four products: enough for a price to be replaced, found
again and swept.

`MaxCalls`, `MaxGrant`, `MaxEvents`, `MaxPeriods`, `MaxSeats`, `MaxTurns`, `MaxBalance`,
`MaxTime`, `MaxTopUpCalls`, `MaxAsks`, `MaxCloses`, `MaxReads`, `MaxMade`, `MaxRequests`,
`MaxSessions`, `MaxCustomers`, `MaxChanges`, `MaxChores`, `MaxCharges`, `MaxPrices` and
`MaxProducts` bound what would grow; each is named where it is declared. In `Catalogue` one
sweep of a process is over before its next reconcile ends (`EndReconcile`). No symmetry is
used: callers differ. `CHECK_DEADLOCK FALSE` is set where operations are finite in number
and the system rests when they are over.

**Fairness.** A call that has started is a chain of promises, so each of its steps
is weakly fair (`SetAside`, `PlanChange`); a process that dies is an action of its
own and takes the step away. `start`'s interval keeps sweeping (`EventPoll`), and
the poller or Stripe's own re-delivery keeps handling an event (`CreditSale`,
`PlanChange`). In `Catalogue` customers keep asking a serving process for its prices, a
memo is forgotten after ten minutes, a replaced deployment is stopped in the end, and
each reconcile and sweep goes on (`CatFairness`). Nothing is assumed of customers otherwise, of period ends, of a provider's
availability, or of a failing request's repetition.

## Proofs

The `*Proofs` modules prove, for any number of callers, invoices, keys, events,
sweepers, plans, people, claims, replicas, cards and charges, and any set of scenes:

| Theorem | States | Argument |
|---|---|---|
| `SetAsideProofs!TypeCorrect`, `NothingMinted` | `[]TypeOK`, `[]NoCreditMinted` | `WindowInv` adds `HeldMatches`: a call past its debit holds the amount recorded under the key. `NoCreditMinted` alone is not inductive, since a restore credits what the call holds. |
| `SetAsideProofs!SerialNothingEaten` | `[]NothingEaten` | `SerialInv`: at most one operation is underway, and while it is about to finalize the wallet is empty or was debited by this very window; a key is used by one set-aside. |
| `SetAsideProofs!NeverSilentlyShort` | `[]ShortOnlyIfLogged` | `Answerable`: a set-aside that has not been given back is in the log, or in the hands of an operation that is past its debit. |
| `CreditSaleProofs!TypeCorrect`, `GrantsAgree` | `[]TypeOK`, `[]OneGrantRequest` | `SaleInv` ties a call past its invoice to that invoice's metadata, a granted amount to the recorded request, and that request to the metadata. |
| `CreditSaleProofs!SaleKeepsPromise` | `Spec => KeepsPromise` | every step is classified first (`Moves`: an invoice is issued, moves on, or is granted, or nothing the promise sees changes), and each class maps to a step of `CreditPromise` or a stutter. |
| `CreditSaleProofs!OwnItemBilled` | `[]BillsItsOwnItem` | `BillInv`: in turn and answered, an item is pending exactly while the one busy call that created it is between its two requests, so that the invoice sweeps up that item alone. |
| `EventPollProofs!TypeCorrect`, `NothingLost` | `[]TypeOK`, `[]PassedIsAccounted` | `SweepInv` follows each sweep: all up to its own cursor is accounted for or given up in that sweep, so that storing the cursor keeps the property. It is what makes overlapping sweepers harmless. |
| `PlanChangeProofs!TypeCorrect`, `NeverGrantedUnbilled` | `[]TypeOK`, `[]GrantedWasBilled` | `OnlyBilled`: every place from which the organization's plan may be written later (metadata, what calls read and mean to record, answers Stripe may replay, events) names a billed plan. |
| `PlanChangeProofs!InvoicedOnce` | `[]OneInvoice` | `ClickInv`, for calls that all want one basket: an update still to be sent was decided before any item was replaced, so its key is the first one (`Course`), and whatever was invoiced is recorded under that key (`Ground`); a step down never sends one. |
| `PlanChangeProofs!ToldIsBilled` | `[]PlanStands` | `StandInv`, for calls in turn (`OneAtATime`): when all are answered, what the next period bills was told and `pendingPlan` names it while it waits (`Stands`); underway, `Turn` says for each list of requests a call has left what it can rely on; either nobody cancels or all they do is to cancel and call it off (`TwoWays`); an idempotency key about to be used has never answered (`KeysAreNew`). |
| `MeteringProofs!TypeCorrect`, `BooksAlwaysAgree` | `[]TypeOK`, `[]BooksAgree` | the books are tied to the calls between record and debit: what was counted as the wallet's and not yet charged is theirs; a turn of a window resets every total of that length alike. |
| `MeteringProofs!ServedIsAlwaysRecent` | `ServedIsRecent` | every entry of the cache and every read in flight carries when its total was true; a joined read began no longer ago than the latency. |
| `OrganizationProofs!EverybodyHasOneOrganization` | `[]OneOrganization` | `MirrorInv`: without deletions at most one organization is ever made, and whoever looks a second time finds it or was hit by a fault. `JoinsOne`: where sign-ins follow one another, only a request of a user who is in no organization makes or joins one. |
| `OrganizationProofs!AccessGivenStays` | `[]AccessIsKept` | `ClaimInv` counts: keys and the requests still to mint one are together no more than the requests begun, so that every key has a number of its own (`KeysAreCounted`), and a key that a request or a claim holds has not been handed out (`KeysAreHeld`). `ConnectorInv`: a trip is in one place at a time, begun once (`TripsEnd`); a registration is extended before half its life has gone by (`Extended`); a connector that asks in turn holds the last token of its sign-in but while the next is on its way (`HoldsTheLast`). |
| `OrganizationProofs!SomebodyAdministers` | `[]AdminRemains` | `AdminRemains` is not inductive, since a demotion is decided before it is written. `AnotherRemains`: whoever is about to be demoted or removed leaves another administrator behind, and `OneDecides` keeps the next one from deciding meanwhile. |
| `OrganizationProofs!NothingIsLeftBehind` | `[]NothingLeftBehind` | `NothingRuns`: what a close that deletes has still to stop is on its list or began behind its back. `RecordsAreClean`: where operations on records follow one another, each writes back what is there, and a close has listed everybody who carries something. |
| `RequestsProofs!GrantsKept` | `[]GrantsAreKept` | `TopUpInv`. Nothing stored, nor read and about to be stored, exceeds what was granted (`NeverMore`, `StoresNoMore`). Where operations follow one another and records can be read, nothing is less either (`NeverLess`): a window has one entry, what an operation has read is still so, and the organization's record is dropped only once everybody has a copy. |
| `RequestsProofs!SettledIsSettled` | `[]SettledOnce` | what is approved was granted once, what is not was not, and what was granted is on file (`ApprovedAreGiven`, `GrantedOnce`). `AskInv`: ids are unique, an accepted ask was invoiced at a price it carries (`Proper`), and a price about to be accepted is still the one that was read (`ActSound`). |
| `RequestsProofs!AsksKept` | `AsksAreKept` | a queue changes only by the write that ends an operation; in turn that write is the queue with one more record or one answer (`Files`, `Answers`), and `PackHas` and `TrimHas` say what packing and trimming keep of it. |
| `StorefrontProofs!StorefrontIsSound` | `[]StorefrontInv` | the types of `Account` and `Taxing`, and the two invariants below. |
| `StorefrontProofs!AccountKept` | `[]AccountIsKept` | `KeepInv`. A tax id has a name that nobody wrote down before it was made (`IdsAreTold`); two calls at once make two at most (`InPairsMade`); so some listed id is doomed by nobody (`OneSurvives`), which deletions, refused or not, keep. Without a default only cards remain that nobody has been told of (`DefaultAwaited`), and what a call in turn saw of cards and default is still so. |
| `StorefrontProofs!ChargedRight`, `ReverseChargeIsEarned` | `[]ChargedAsRegistered`, `ReverseIsConfirmed` | `TaxInv`. What a process remembers of a number lasts no longer than a day past the answer or the withdrawal (`VerifiedOnce`); VIES is asked only about a number of the customer's own country across a border (`AskedIfItMatters`); what is billed was decided from the declaration and the charge's own place (`DecidedIfBilled`). |
| `StorefrontProofs!SessionIsCurrent` | `[]SessionFollows` | `WritersInTurn`: in turn, whoever still writes the session is the last that began. |
| `StorefrontProofs!PurchaseIsSound`, `CustomerKept` | `[]PurchaseInv`, `CustomerIsKept` | `PointersInTurn`: who may write the pointer, where one does at a time, has found none. `OneLetThrough`: calls that overlap hold a customer each, and the one past the welcome credit's key was the only one credited, while the pointer is still unset. |
| `StorefrontProofs!BoughtRecorded` | `[]BoughtIsRecorded` | `ToldOfPaid`: events and what completions have read are of paid sessions, and no newer than the subscription. `NewestWaits`: of a stamped subscription, the last event that waits is what it is now; if none waits, the record is, unless a completion wrote what a newer event had overtaken. |

They rest on the named assumptions of the modules (`SetAsideAssumption` and so on),
which say what kind of thing each constant is; in `CreditSale` that callers who share a
key run the same function, in `PlanChange` that the subscription begins with a paid plan
(no live subscription bills the free one), in `TopUps` that the cycle is one of the windows
and a grant's record no smaller than a request's (it also says who granted it), and in `Account` that no card or number is on file twice, which
Stripe refuses. TLC evaluates them in every run. The parts of `Organization` and of
`Storefront` share almost no variable, so that each has an invariant of its own and a step
of the whole is a step of one part and a stutter of the others. Each conjunct of an
invariant was an invariant of a TLC run before it was proved.

Model-checked only: liveness under fairness (`WindowCloses`, `PaidIsCredited`,
`SweepKeepsUp`, `MirrorSettles`, `SalesRecover`), which is out of the prover's reach as is
`ENABLED`; `OverrunBounded` and `CrossedIsAnnounced`, whose bounds add up over every
replica and every past reading of the meter; `NothingGivenAway`, which depends on the
seats and invitations a scene begins with and is not a property of every scene; and all
of `Provisioning`.

## Findings

Four runs end in a violation; `PROJECT.json` quotes the comment each one contradicts:

1. Overlapping finalizations of one customer pay an invoice from the wallet
   (`billing.ts:798`).
2. Concurrent purchases sweep each other's pending items (`billing.ts:1316`).
3. The first sweep of an account without events is not a baseline (`events.ts:58`).
4. An upgrade bought after a cancellation ends with the period
   (`subscription.ts:653`).

The others came out of translating the code, or out of a scene in which a property had
to be restricted, and have no run of their own. `PROJECT.json` has each with its quote:

- *plan changes*: a quantity moved away and back within a day replays the old answer
  (`subscription.ts:644`); after a scheduled phase began, the metadata still names the old
  plan (`:554`).
- *sales and wallet*: keys with a clock in them, the welcome credit's key, the newest card
  instead of the default (`billing.ts:1283`, `181`, `1311`).
- *gate*: the organization's window counts wallet uses as included, alerts are filed by
  year on an annual plan, a last known value is cached as fresh (`allowance.ts:214`,
  `alerts.ts:165`, `usage-cache.ts:124`).
- *requests*: grants on a running window are dropped, or erased after a failed read; a
  double click grants twice; the offered call refuses (`topup.ts:189`, `178`, `286`;
  `plan-request.ts:391`; `ladder.ts:269`; the tools' answers).
- *people and closing*: the last administrator when roles cannot be read, records left by
  `removeMember`, an untranslated id in `deleteOrg` (`members.ts:312`, `seats.ts:136`,
  `adapters/workos-org.ts:668`); a cleared seat and an unnamed invitation put people on the
  default seat uncounted (`seats.ts:209`, `members.ts:222`).
- *access*: two first sign-ins, a claim posted twice, an outage answered as an invalid
  grant (`adapters/workos-org.ts:232`, `agent-auth/index.ts:290`, `oauth-proxy/index.ts:448`).
- *surfaces*: a payment in place of the key is refused, and the usage tool asks without the
  caller's seat (`routes/rest.ts:112`, `tools/management.ts:232`).
- *purchase, account, tax*: a newer event overwritten, two saved numbers delete each other,
  two first cards without a default, Greek numbers (`complete-checkout.ts:137`,
  `tax-ids.ts:94`, `payment-methods.ts:363`, `tax.ts:741`); a comment from before ids were
  created first (`tax-ids.ts:7`).
- *catalogue and set-up*: a seat bought during a migration, old prices of products no
  longer wanted, the doctor before the last steps (`plans.ts:458`, `412`, `setup.ts:236`).

## Not modelled

- Stripe forgetting idempotency keys in `CreditSale` and `SetAside`, invoice voiding,
  refunds, disputes, currencies.
- In `CreditSale`: the settings that trigger a reload, its slot of the hour, minimum
  charges, the one-time Checkout top-up.
- In `PlanChange`: the guards on a basket (`seatsFixed`, `validateBasket`; they are
  operators of `PlanModel` and steps of `Purchase`), intervals, `past_due`, several live
  subscriptions (the code refuses them), `proration: "none"`, the change of
  `default_tax_rates` that precedes a gated update, the set-aside around it.
- Statuses after the first purchase, `payment_failed` among them. In `Purchase` the events of
  a subscription are those of the sweep, which handles them in their order and once each;
  `PlanChange` has them handled late and again.
- In `Requests` a plan ask moves an earlier version's grants to the members in one step,
  while the code makes one write for each (`TopUps` takes them one by one); that the metadata
  has no key left is one more way in which a write fails.
- `normalizePlans`, from the many forms a configuration may take: the modules start from
  its result. Hourly buckets of the meter's summaries, and usage reports for people.
- Listing, resending and other operations that only read; the translation of ids around
  each call of the adapter; the ceiling of ten API keys and the oldest layout of metadata.
- Verification and settlement of a machine payment, which are the payment library's.
- Components without state of this library or without rules of its own: notifications,
  payment method configuration, sessions, commands and wiring, user interface and texts.

`PROJECT.json` says of each component what is left out.

## Plan

Modelled first were the paths on which money is lost (`SetAside`, `CreditSale` over
`CreditPromise`, `EventPoll`, `PlanChange`), then the gate, the organization, the first
purchase with its taxes, and the catalogue with its surfaces. What remains worth doing:

1. Proofs: `OverrunBounded`, `CrossedIsAnnounced`; `ReconciledAlone` of `Catalogue`.
2. `CreditSale` with a reload's settings and hour, and with keys that are forgotten.
3. The window of `CreditSale` shown to implement `SetAside`'s.
