----------------------------- MODULE Catalogue -----------------------------
(***************************************************************************)
(* The plans of the configuration as Stripe products and prices            *)
(* (src/src/plans.ts): reconciling them (ensurePlans), sweeping away what  *)
(* no plan wants any more (archiveOrphans), remembering the price ids in a *)
(* process (resolvePlanPrices) and moving subscribers to a new price       *)
(* (migrateSubscriptions).                                                 *)
(*                                                                         *)
(* Every call to Stripe is a step of its own, so deployments of the same   *)
(* or of another configuration interleave between any two of them, and any *)
(* call may fail.  What a price charges (amount, currency, interval) is    *)
(* one value.                                                              *)
(***************************************************************************)
EXTENDS Integers, FiniteSets, Sequences
LOCAL INSTANCE Functions

CONSTANTS
    Processes,      \* server processes and one-off commands
    Catalogs,       \* configurations of the plans
    PriceSpecs,     \* the prices each configuration wants, in their order
    Subscribers,
    MaxPrices, MaxProducts,     \* bounds on what is created in the account
    CatScenes       \* the situations to explore

PriceSpecType == [key: STRING, plan: STRING, seat: STRING, charge: Nat]

ASSUME CatalogueAssumption ==
    /\ MaxPrices \in Nat /\ MaxProducts \in Nat
    /\ DOMAIN PriceSpecs = Catalogs
    /\ \A c \in Catalogs : \A i, j \in DOMAIN PriceSpecs[c] :
          PriceSpecs[c][i].key = PriceSpecs[c][j].key => i = j

VARIABLES
    catScene,
    prices,         \* the account's prices, by id in the order of their creation
    products,       \* the account's products, likewise
    up,             \* the processes that run
    recon,          \* each process's reconcile, or migration, under way
    sweep,          \* each process's sweep
    memo,           \* each process's remembered price ids, nothing once too old
    turns,          \* reconciles begun by processes that will be replaced
    alone,          \* nothing disturbed the reconcile since the process began it
    seats,          \* what each subscriber pays for
    upsets          \* failures and acts of hand so far

catVars == <<catScene, prices, products, up, recon, sweep, memo, turns, alone, seats, upsets>>

Known == UNION {Range(PriceSpecs[c]) : c \in Catalogs}
Keys == {s.key : s \in Known}
Plans == {s.plan : s \in Known}

Config(p) == PriceSpecs[catScene.config[p]]
Wanted(p) == {Config(p)[i].key : i \in DOMAIN Config(p)}
Kind(p) == catScene.kind[p]

-----------------------------------------------------------------------------
(* The account. *)

Price(spec, product) ==
    [of |-> spec, holds |-> TRUE, product |-> product, active |-> TRUE, taxed |-> TRUE, managed |-> TRUE]

\* The active price a lookup key leads to.
HolderOf(key) == {i \in DOMAIN prices : prices[i].active /\ prices[i].holds /\ prices[i].of.key = key}

\* Stripe accepts a price on a new subscription when its product is active too.
Usable(i) == products[prices[i].product].active
Sells(i, spec) == prices[i].active /\ Usable(i) /\ prices[i].of.charge = spec.charge /\ prices[i].taxed

\* (mutant of Found) a price is taken for one that can be sold whatever its product.
FoundAnyway(key) ==
    {[id |-> i, usable |-> TRUE, product |-> prices[i].product,
      charge |-> prices[i].of.charge, taxed |-> prices[i].taxed] : i \in HolderOf(key)}

\* fetchByLookupKey, with what the answer says of each price at that moment.
Found(key) ==
    {[id |-> i, usable |-> Usable(i), product |-> prices[i].product,
      charge |-> prices[i].of.charge, taxed |-> prices[i].taxed] : i \in HolderOf(key)}

-----------------------------------------------------------------------------
(* A reconcile (ensurePlans). *)

NoRecon == [pc |-> "idle", at |-> 1, found |-> [k \in Keys |-> {}],
            productOf |-> [k \in Plans |-> {}], ensured |-> {},
            olds |-> {}, left |-> {}, page |-> {}, seen |-> {}, moved |-> 0]

Spec1(p) == Config(p)[recon[p].at]
Existing(p) == recon[p].found[Spec1(p).key]
Matches(p) == \E e \in Existing(p) : e.usable /\ e.charge = Spec1(p).charge

At(p, pc) == p \in up /\ recon[p].pc = pc
OnSpec(p) == At(p, "each") /\ recon[p].at <= Len(Config(p))
Becomes(p, r) == recon' = [recon EXCEPT ![p] = r]

\* Who else is at work sees the account change.
Wrote(p) == alone' = alone \cap {p}

\* One product per plan is reused: the product of the first wanted price that can be sold.
Seeded(c, found) ==
    [plan \in Plans |->
        LET usable == {i \in DOMAIN c : c[i].plan = plan /\ \E e \in found[c[i].key] : e.usable}
        IN  IF usable = {} THEN {}
            ELSE {e.product : e \in found[c[CHOOSE i \in usable : \A j \in usable : i <= j].key]}]

Rested(p) == sweep[p].pc = "idle" \/ catScene.drops
Due(p) ==
    /\ p \in up /\ recon[p].pc = "idle" /\ Rested(p)
    /\ Kind(p) = "serve" => memo[p] = {}
    /\ p \in catScene.old => turns[p] < catScene.turns

\* A request finds no fresh price ids, or a command starts.  Requests that come
\* meanwhile wait for the same reconcile (inflight).
BeginReconcile(p) ==
    /\ Due(p)
    /\ LET found == [k \in Keys |-> IF k \in Wanted(p) THEN Found(k) ELSE {}]
       IN  Becomes(p, [NoRecon EXCEPT !.pc = "each", !.found = found,
                                      !.productOf = Seeded(Config(p), found)])
    /\ turns' = [turns EXCEPT ![p] = IF p \in catScene.old THEN @ + 1 ELSE @]
    /\ alone' = alone \cup {p}
    /\ UNCHANGED <<catScene, prices, products, up, sweep, memo, seats, upsets>>

Ensure(r, spec, id, product) ==
    [r EXCEPT !.pc = "each", !.at = @ + 1, !.productOf[spec.plan] = {product},
              !.ensured = @ \cup {[spec |-> spec, price |-> id, product |-> product]}]

\* The price is as wanted; one from before tax behaviours were set is given one.
AdoptPrice(p) ==
    /\ OnSpec(p) /\ Matches(p)
    /\ \E e \in Existing(p) :
          /\ Becomes(p, Ensure(recon[p], Spec1(p), e.id, e.product))
          /\ IF e.taxed THEN UNCHANGED <<prices, alone>>
             ELSE prices' = [prices EXCEPT ![e.id].taxed = TRUE] /\ Wrote(p)
    /\ UNCHANGED <<catScene, products, up, sweep, memo, turns, seats, upsets>>

MakeProduct(p) ==
    /\ OnSpec(p) /\ ~Matches(p) /\ recon[p].productOf[Spec1(p).plan] = {}
    /\ Len(products) < MaxProducts
    /\ products' = Append(products, [plan |-> Spec1(p).plan, active |-> TRUE, managed |-> TRUE])
    /\ Becomes(p, [recon[p] EXCEPT !.productOf[Spec1(p).plan] = {Len(products) + 1}])
    /\ Wrote(p)
    /\ UNCHANGED <<catScene, prices, up, sweep, memo, turns, seats, upsets>>


\* The lookup key moves to the new price in the call that creates it.
Handed(key) == [i \in DOMAIN prices |->
                   [prices[i] EXCEPT !.holds = @ /\ prices[i].of.key # key]]

MakePrice(p) ==
    /\ OnSpec(p) /\ ~Matches(p) /\ Len(prices) < MaxPrices
    /\ \E product \in recon[p].productOf[Spec1(p).plan] :
          /\ prices' = Append(Handed(Spec1(p).key), Price(Spec1(p), product))
          /\ LET next == Ensure(recon[p], Spec1(p), Len(prices) + 1, product)
             IN  Becomes(p, IF Existing(p) = {} THEN next ELSE [next EXCEPT !.pc = "retire", !.at = recon[p].at])
    /\ Wrote(p)
    /\ UNCHANGED <<catScene, products, up, sweep, memo, turns, seats, upsets>>

\* ... and the price it replaces is archived in a call of its own.
RetirePrice(p) ==
    /\ At(p, "retire")
    /\ \E e \in Existing(p) : prices' = [prices EXCEPT ![e.id].active = FALSE]
    /\ Becomes(p, [recon[p] EXCEPT !.pc = "each", !.at = @ + 1])
    /\ Wrote(p)
    /\ UNCHANGED <<catScene, products, up, sweep, memo, turns, seats, upsets>>

\* A server remembers the ids and sweeps in the background, a command waits for
\* its sweep, and a migration does not sweep. (A bound: the sweep of a process's
\* reconcile before this one is over by now.)
EndReconcile(p) ==
    /\ At(p, "each") /\ recon[p].at > Len(Config(p)) /\ sweep[p].pc = "idle"
    /\ memo' = [memo EXCEPT ![p] = recon[p].ensured]
    /\ sweep' = IF Kind(p) = "migrate" THEN sweep ELSE [sweep EXCEPT ![p].pc = "list"]
    /\ Becomes(p, CASE Kind(p) = "serve" -> NoRecon
                    [] Kind(p) = "sync" -> [recon[p] EXCEPT !.pc = "sweeping"]
                    [] Kind(p) = "migrate" -> [recon[p] EXCEPT !.pc = "listOlds"])
    /\ UNCHANGED <<catScene, prices, products, up, turns, alone, seats, upsets>>

Upset(kind) == kind \in catScene.upset /\ upsets < catScene.upsets /\ upsets' = upsets + 1

\* Any call of a reconcile or of a migration may fail: it throws, and what was done stays.
ReconcileFails(p) ==
    /\ p \in up /\ recon[p].pc \in {"each", "retire", "move"} /\ Upset("fails")
    /\ Becomes(p, IF Kind(p) = "serve" THEN NoRecon ELSE [NoRecon EXCEPT !.pc = "failed"])
    /\ alone' = alone \ {p}
    /\ UNCHANGED <<catScene, prices, products, up, sweep, memo, turns, seats>>

-----------------------------------------------------------------------------
(* The sweep (archiveOrphans). *)

NoSweep == [pc |-> "idle", todo |-> {}, kept |-> {}]
Sweeps(p, s) == sweep' = [sweep EXCEPT ![p] = s]
\* It disturbs everybody but the reconcile it follows, the process's next one included.
Archives(p) == alone' = IF recon[p].pc \in {"idle", "sweeping"} THEN alone \cap {p} ELSE {}

\* A managed price nobody wants: its key has moved on, or the plan is gone.
Orphan(p, i) ==
    prices[i].active /\ prices[i].managed /\ ~(prices[i].holds /\ prices[i].of.key \in Wanted(p))

SweepLists(p) ==
    /\ p \in up /\ sweep[p].pc = "list"
    /\ Sweeps(p, [pc |-> "prices", todo |-> {i \in DOMAIN prices : Orphan(p, i)},
                  kept |-> {prices[i].product : i \in
                               {j \in DOMAIN prices : prices[j].active /\ prices[j].managed /\ ~Orphan(p, j)}}])
    /\ UNCHANGED <<catScene, prices, products, up, recon, memo, turns, alone, seats, upsets>>

SweepPrice(p) ==
    /\ p \in up /\ sweep[p].pc = "prices"
    /\ \E i \in sweep[p].todo :
          /\ prices' = [prices EXCEPT ![i].active = FALSE]
          /\ Sweeps(p, [sweep[p] EXCEPT !.todo = @ \ {i}])
    /\ Archives(p)
    /\ UNCHANGED <<catScene, products, up, recon, memo, turns, seats, upsets>>

\* The products are listed once the prices are done.
SweepListsProducts(p) ==
    /\ p \in up /\ sweep[p].pc = "prices" /\ sweep[p].todo = {}
    /\ Sweeps(p, [sweep[p] EXCEPT !.pc = "products",
                     !.todo = {i \in DOMAIN products : products[i].active /\ products[i].managed} \ sweep[p].kept])
    /\ UNCHANGED <<catScene, prices, products, up, recon, memo, turns, alone, seats, upsets>>

\* A product that cannot be archived is passed over.
SweepProduct(p) ==
    /\ p \in up /\ sweep[p].pc = "products"
    /\ \E i \in sweep[p].todo :
          /\ Sweeps(p, [sweep[p] EXCEPT !.todo = @ \ {i}])
          /\ \/ products' = [products EXCEPT ![i].active = FALSE] /\ Archives(p) /\ UNCHANGED upsets
             \/ Upset("fails") /\ alone' = alone \ {p} /\ UNCHANGED products
    /\ UNCHANGED <<catScene, prices, up, recon, memo, turns, seats>>

SweepEnds(p) ==
    /\ p \in up /\ sweep[p].pc = "products" /\ sweep[p].todo = {}
    /\ Sweeps(p, NoSweep)
    /\ recon' = IF recon[p].pc = "sweeping" THEN [recon EXCEPT ![p].pc = "over"] ELSE recon
    /\ UNCHANGED <<catScene, prices, products, up, memo, turns, alone, seats, upsets>>

\* A list or an archive of a price fails: the sweep is given up, which a server
\* swallows and a command throws.
SweepFails(p) ==
    /\ p \in up /\ sweep[p].pc \in {"list", "prices"} /\ Upset("fails")
    /\ Sweeps(p, NoSweep)
    /\ recon' = IF recon[p].pc = "sweeping" THEN [recon EXCEPT ![p].pc = "failed"] ELSE recon
    /\ alone' = alone \ {p}
    /\ UNCHANGED <<catScene, prices, products, up, memo, turns, seats>>

-----------------------------------------------------------------------------
(* Moving subscribers to the current prices (migrateSubscriptions). *)

ToMove == catScene.plan
Targets(p) == {e \in recon[p].ensured : e.spec.plan = ToMove}

\* The superseded prices of the plan, archived or not, on the products in use.
Superseded(p) ==
    {i \in DOMAIN prices :
        /\ prices[i].managed /\ prices[i].of.plan = ToMove
        /\ \E e \in recon[p].ensured : e.product = prices[i].product
        /\ \A e \in Targets(p) : e.price # i}

ListOlds(p) ==
    /\ At(p, "listOlds")
    /\ Becomes(p, [recon[p] EXCEPT !.pc = IF Targets(p) = {} THEN "failed" ELSE "move",
                                   !.olds = Superseded(p), !.left = Superseded(p)])
    /\ UNCHANGED <<catScene, prices, products, up, sweep, memo, turns, alone, seats, upsets>>

\* A page of the live subscribers of one old price, as they are when it is listed.
ListSubscribers(p) ==
    /\ At(p, "move") /\ recon[p].page = {}
    /\ \E i \in recon[p].left :
          Becomes(p, [recon[p] EXCEPT !.left = @ \ {i},
             !.page = {[who |-> s, items |-> seats[s].items] :
                          s \in {t \in Subscribers : seats[t].live /\ \E x \in seats[t].items : x.price = i}}])
    /\ UNCHANGED <<catScene, prices, products, up, sweep, memo, turns, alone, seats, upsets>>

PlaceOf(p, e) == CHOOSE i \in DOMAIN Config(p) : Config(p)[i] = e.spec
FirstTarget(p) == CHOOSE e \in Targets(p) : \A f \in Targets(p) : PlaceOf(p, e) <= PlaceOf(p, f)

\* (mutant of Target) the first current price, whatever the seat.
TargetFirst(p, i) == FirstTarget(p)

\* An item moves to the current price of its seat type, or to the plan's first one
\* when the configuration no longer sells that seat.
Target(p, i) ==
    LET same == {e \in Targets(p) : e.spec.seat = prices[i].of.seat}
    IN  IF same # {} THEN CHOOSE e \in same : TRUE ELSE FirstTarget(p)

Moving(p, row) == {x \in row.items : x.price \in recon[p].olds}
Moved(p, row) == {[x EXCEPT !.price = Target(p, x.price).price] : x \in Moving(p, row)}

\* The items after the update, which names the items by id.
After(p, row) ==
    {x \in seats[row.who].items : \A y \in Moving(p, row) : y.id # x.id} \cup Moved(p, row)

\* What Stripe takes: a live subscription, and no price on two items.
Takes(p, row) ==
    /\ seats[row.who].live
    /\ \A x, y \in After(p, row) : x.price = y.price => x = y

PassOver(p, row) == row.who \in recon[p].seen
Enough(p) == \E most \in catScene.limit : recon[p].moved >= most

\* The next subscriber of the page: moved with the quantities the page showed,
\* passed over when already seen, and the page is left once the limit is reached.
MoveSubscriber(p) ==
    /\ At(p, "move")
    /\ \E row \in recon[p].page :
          LET on == [recon[p] EXCEPT !.page = @ \ {row}, !.seen = @ \cup {row.who},
                                     !.moved = @ + Cardinality(Moving(p, row))]
          IN  \/ PassOver(p, row) /\ Becomes(p, [recon[p] EXCEPT !.page = @ \ {row}]) /\ UNCHANGED seats
              \/ /\ ~PassOver(p, row) /\ Enough(p)
                 /\ Becomes(p, [recon[p] EXCEPT !.page = {}]) /\ UNCHANGED seats
              \/ /\ ~PassOver(p, row) /\ ~Enough(p) /\ catScene.dry
                 /\ Becomes(p, on) /\ UNCHANGED seats
              \/ /\ ~PassOver(p, row) /\ ~Enough(p) /\ ~catScene.dry
                 /\ IF Takes(p, row)
                    THEN Becomes(p, on) /\ seats' = [seats EXCEPT ![row.who].items = After(p, row)]
                    ELSE Becomes(p, [NoRecon EXCEPT !.pc = "failed"]) /\ UNCHANGED seats
    /\ UNCHANGED <<catScene, prices, products, up, sweep, memo, turns, alone, upsets>>

EndMigration(p) ==
    /\ At(p, "move") /\ recon[p].page = {} /\ recon[p].left = {}
    /\ Becomes(p, [recon[p] EXCEPT !.pc = "over"])
    /\ UNCHANGED <<catScene, prices, products, up, sweep, memo, turns, alone, seats, upsets>>

-----------------------------------------------------------------------------
(* What happens around them. *)

\* (mutant of Forgets) only when a key is missing, as checkout drops them.
ForgetsWhatLacks(p) ==
    /\ p \in up /\ Kind(p) = "serve" /\ memo[p] # {} /\ recon[p].pc = "idle" /\ Rested(p)
    /\ \E i \in DOMAIN Config(p) : \A e \in memo[p] : e.spec # Config(p)[i]
    /\ memo' = [memo EXCEPT ![p] = {}]
    /\ UNCHANGED <<catScene, prices, products, up, recon, sweep, turns, alone, seats, upsets>>

\* The ids are ten minutes old, and a sweep does not last that long; or somebody
\* dropped them (invalidatePlanPrices), which may be while it is still on.
Forgets(p) ==
    /\ p \in up /\ Kind(p) = "serve" /\ memo[p] # {} /\ recon[p].pc = "idle" /\ Rested(p)
    /\ memo' = [memo EXCEPT ![p] = {}]
    /\ UNCHANGED <<catScene, prices, products, up, recon, sweep, turns, alone, seats, upsets>>

\* A deployment or a command starts,
Starts(p) ==
    /\ p \notin up \cup catScene.old /\ Kind(p) # "off"
    /\ up' = up \cup {p}
    /\ UNCHANGED <<catScene, prices, products, recon, sweep, memo, turns, alone, seats, upsets>>

\* ... and an old one stops, wherever it is.
Stops(p) ==
    /\ p \in up \cap catScene.old
    /\ up' = up \ {p}
    /\ recon' = [recon EXCEPT ![p] = NoRecon] /\ sweep' = [sweep EXCEPT ![p] = NoSweep]
    /\ memo' = [memo EXCEPT ![p] = {}]
    /\ UNCHANGED <<catScene, prices, products, turns, alone, seats, upsets>>

\* Somebody archives a price or a product in the dashboard.
ArchivesByHand ==
    /\ Upset("dashboard")
    /\ \/ \E i \in DOMAIN prices : /\ prices[i].active /\ UNCHANGED products
                                    /\ prices' = [prices EXCEPT ![i].active = FALSE]
       \/ \E i \in DOMAIN products : /\ products[i].active /\ UNCHANGED prices
                                      /\ products' = [products EXCEPT ![i].active = FALSE]
    /\ alone' = {}
    /\ UNCHANGED <<catScene, up, recon, sweep, memo, turns, seats>>

\* A subscriber changes how many seats they pay for, or leaves.
SubscriberActs(s) ==
    /\ Upset("seats") /\ seats[s].live
    /\ LET listed == \E p \in Processes : \E row \in recon[p].page : row.who = s
       IN  \/ \E x \in seats[s].items :
                 seats' = [seats EXCEPT ![s].items = (@ \ {x}) \cup {[x EXCEPT !.quantity = @ + 1]},
                                        ![s].asked[x.id].quantity = x.quantity + 1,
                                        ![s].listed = @ \/ listed]
           \/ seats' = [seats EXCEPT ![s].live = FALSE]
    /\ UNCHANGED <<catScene, prices, products, up, recon, sweep, memo, turns, alone>>

-----------------------------------------------------------------------------

CatInit ==
    /\ catScene \in CatScenes
    /\ prices = catScene.prices /\ products = catScene.products
    /\ seats = [s \in Subscribers |->
                   [live |-> TRUE, items |-> catScene.items[s], listed |-> FALSE,
                    asked |-> [i \in {x.id : x \in catScene.items[s]} |->
                        LET x == CHOOSE y \in catScene.items[s] : y.id = i
                        IN  [seat |-> catScene.prices[x.price].of.seat, quantity |-> x.quantity,
                             hand |-> IF catScene.prices[x.price].managed THEN {} ELSE {x.price}]]]]
    /\ up = catScene.up
    /\ recon = [p \in Processes |-> NoRecon] /\ sweep = [p \in Processes |-> NoSweep]
    /\ memo = [p \in Processes |-> {}] /\ turns = [p \in Processes |-> 0]
    /\ alone = {} /\ upsets = 0

Reconciles(p) ==
    \/ BeginReconcile(p) \/ AdoptPrice(p) \/ MakeProduct(p) \/ MakePrice(p) \/ RetirePrice(p) \/ EndReconcile(p)
    \/ ListOlds(p) \/ ListSubscribers(p) \/ MoveSubscriber(p) \/ EndMigration(p)
SweepStep(p) ==
    \/ SweepLists(p) \/ SweepPrice(p) \/ SweepListsProducts(p) \/ SweepProduct(p) \/ SweepEnds(p)

CatNext ==
    \/ \E p \in Processes :
          \/ Reconciles(p) \/ SweepStep(p)
          \/ ReconcileFails(p) \/ SweepFails(p)
          \/ Forgets(p) \/ Starts(p) \/ Stops(p)
    \/ ArchivesByHand
    \/ \E s \in Subscribers : SubscriberActs(s)

\* Calls are answered, ten minutes pass, what a deployment replaces is stopped, and
\* customers keep asking for prices.
CatFairness ==
    \A p \in Processes :
        /\ WF_catVars(Reconciles(p)) /\ WF_catVars(SweepStep(p))
        /\ WF_catVars(Forgets(p)) /\ WF_catVars(Stops(p))

CatSpec == CatInit /\ [][CatNext]_catVars /\ CatFairness

-----------------------------------------------------------------------------
(* Properties. *)

CatTypeOK ==
    /\ \A i \in DOMAIN prices : prices[i].of \in Known /\ prices[i].product \in DOMAIN products
    /\ \A k \in Keys : Cardinality(HolderOf(k)) <= 1
    /\ \A p \in Processes : \A e \in memo[p] \cup recon[p].ensured : e.price \in DOMAIN prices

\* Whatever earlier reconciles, sweeps and people left behind, halfway or not, one
\* that ran undisturbed leaves each wanted price for sale at its amount, under its
\* key and remembered; a command's leaves nothing managed for sale besides
\* ("Idempotently create/reconcile", plans.ts:195-200, 484-485).
ReconciledAlone ==
    \A p \in alone :
        /\ (Kind(p) = "serve" /\ memo[p] # {}) \/ recon[p].pc = "over" =>
              \A i \in DOMAIN Config(p) :
                 \E e \in memo[p] : e.spec = Config(p)[i] /\ Sells(e.price, e.spec) /\ e.price \in HolderOf(e.spec.key)
        /\ Kind(p) = "sync" /\ recon[p].pc = "over" =>
              /\ \A i \in DOMAIN prices : ~Orphan(p, i)
              /\ \A i \in DOMAIN products : products[i].active /\ products[i].managed =>
                    \E j \in DOMAIN prices : prices[j].product = i /\ prices[j].active

\* A subscriber keeps the seats they pay for and how many, whoever reprices them:
\* unless they changed while a migration had them listed, or no configuration that
\* migrates sells the seat; a price made by hand is never moved; and a migration
\* that ran through, without a limit, leaves nobody on an old price of a product
\* that is still in use.
MovedAsBought ==
    /\ \A s \in Subscribers : ~seats[s].listed => \A x \in seats[s].items :
          /\ x.quantity = seats[s].asked[x.id].quantity
          /\ seats[s].asked[x.id].hand \subseteq {x.price}
          /\ \/ prices[x.price].of.seat = seats[s].asked[x.id].seat
             \/ \E p \in Processes : Kind(p) = "migrate" /\ \A i \in DOMAIN Config(p) :
                    Config(p)[i].seat # seats[s].asked[x.id].seat
    /\ \A p \in Processes :
          recon[p].pc = "over" /\ Kind(p) = "migrate" /\ catScene.limit = {} /\ ~catScene.dry =>
             \A s \in Subscribers : seats[s].live => \A x \in seats[s].items :
                x.price \notin recon[p].olds

\* Two cold processes, a version on its way out, a sweep that takes what another
\* process has just made, a person in the dashboard: once they are done, every
\* process that serves comes to remember, for good, only prices that can be sold.
SalesRecover ==
    <>[](\A p \in up : Kind(p) = "serve" => \A e \in memo[p] : Sells(e.price, e.spec))
=============================================================================
