---------------------------- MODULE MCProvisioning -------------------------
(***************************************************************************)
(* A plan with two seats, its amounts before and after a change, set up by *)
(* commands; and plans and pages of every shape, one state each.           *)
(***************************************************************************)
EXTENDS SetUp

Seat(seat, charge) == [key |-> "team_" \o seat, plan |-> "team", seat |-> seat, charge |-> charge]
MCSpecs == [one |-> <<Seat("std", 1)>>, dear |-> <<Seat("std", 2)>>,
            two |-> <<Seat("std", 1), Seat("prem", 3)>>, twoDear |-> <<Seat("std", 2), Seat("prem", 4)>>]
MCCatalogs == DOMAIN MCSpecs

Sold(spec, product) == Price(spec, product)
Nobody == [s \in Subscribers |-> {}]
Off == [p \in Processes |-> "off"]

NoAccount == [hooks |-> <<>>, registrations |-> {}, settled |-> FALSE, taxIds |-> {}, printed |-> FALSE,
              meter |-> FALSE, roles |-> {"admin"}]
PlainFacts ==
    [taxMode |-> "local", country |-> {"FR"}, origin |-> {"FR"}, taxIdsRead |-> TRUE, taxIds |-> {},
     printed |-> FALSE, settled |-> FALSE, active |-> {}, unspecified |-> FALSE, sync |-> {},
     invoices |-> {}, webhook |-> FALSE, endpoints |-> <<>>, secret |-> TRUE, currency |-> {"eur"},
     customers |-> {}, declared |-> {}, taxConfigured |-> TRUE, subscriptions |-> <<>>]
PlainWorkOS == [key |-> TRUE, client |-> TRUE, environment |-> "live", accepted |-> TRUE, crowded |-> FALSE,
                rolesRead |-> TRUE, roles |-> {}, proxy |-> TRUE, refreshSecret |-> TRUE]

CatBase ==
    [config |-> [p \in Processes |-> "one"], kind |-> Off, up |-> {}, old |-> {}, turns |-> 0,
     upset |-> {}, upsets |-> 0, prices |-> <<>>, products |-> <<>>, items |-> Nobody,
     plan |-> "team", limit |-> {}, dry |-> FALSE, drops |-> FALSE,
     ask |-> <<>>, account |-> NoAccount, facts |-> PlainFacts, workos |-> PlainWorkOS, live |-> TRUE,
     platform |-> FALSE, models |-> {}, catalogue |-> <<>>, pages |-> {}, surfaces |-> {}]

Team == [plan |-> "team", active |-> TRUE, managed |-> TRUE]
Opened(config, n) == [CatBase EXCEPT !.prices = [i \in DOMAIN MCSpecs[config] |-> Price(MCSpecs[config][i], 1)],
                                     !.products = <<Team>>]

\* Two cold processes of one configuration.
Cold == [CatBase EXCEPT !.kind = [@ EXCEPT !["a"] = "serve", !["b"] = "serve"], !.up = {"a", "b"}]

\* Rolling out another amount while the version before still serves.
Rollout ==
    [Opened("one", 1) EXCEPT !.kind = [Off EXCEPT !["a"] = "serve", !["b"] = "serve"], !.up = {"b"},
                             !.config = [@ EXCEPT !["a"] = "dear"], !.old = {"b"}, !.turns = 1]

\* A deploy hook that fails anywhere, with somebody in the dashboard, and then again.
Hooks ==
    [Opened("two", 2) EXCEPT !.kind = [Off EXCEPT !["a"] = "sync", !["b"] = "sync"],
                             !.config = [@ EXCEPT !["a"] = "twoDear", !["b"] = "twoDear"],
                             !.upset = {"fails", "dashboard"}, !.upsets = 2]

Payers == [s \in Subscribers |->
    IF s = "s1" THEN {[id |-> 1, price |-> 1, quantity |-> 2], [id |-> 2, price |-> 2, quantity |-> 1]}
    ELSE {[id |-> 1, price |-> 2, quantity |-> 1]}]
Repriced ==
    [Opened("two", 2) EXCEPT !.kind = [Off EXCEPT !["a"] = "migrate"], !.items = Payers,
                             !.config = [@ EXCEPT !["a"] = "twoDear"],
                             !.upset = {"fails", "seats"}, !.upsets = 2]

\* One of them is on a price made by hand, on the same product.
Handmade ==
    [Repriced EXCEPT !.prices = Append(@, [Price(Seat("std", 1), 1) EXCEPT !.managed = FALSE, !.holds = FALSE]),
                     !.items = [@ EXCEPT !["s2"] = {[id |-> 1, price |-> 3, quantity |-> 1]}]]

\* From before prices said whether tax is in them.
Untaxed(scene) == [scene EXCEPT !.prices = [i \in DOMAIN @ |-> [@[i] EXCEPT !.taxed = FALSE]]]

\* A server and, on an older version, the tool that lists the plans (a full reconcile).
Listed ==
    [Rollout EXCEPT !.kind = [@ EXCEPT !["b"] = "sync"], !.upset = {"dashboard"}, !.upsets = 1]

\* One server, whose ids are dropped while it still sweeps.
Dropped ==
    [Opened("one", 1) EXCEPT !.kind = [Off EXCEPT !["a"] = "serve"], !.up = {"a"}, !.drops = TRUE,
                             !.config = [@ EXCEPT !["a"] = "dear"], !.upset = {"dashboard", "fails"}, !.upsets = 2]

CatalogueScenes ==
    {Cold, Dropped, Rollout, Listed, Hooks, Untaxed(Rollout), Repriced, Handmade,
     [Cold EXCEPT !.upset = {"fails"}, !.upsets = 1],
     [Repriced EXCEPT !.dry = TRUE], [Repriced EXCEPT !.limit = {1}],
     [Repriced EXCEPT !.config = [@ EXCEPT !["a"] = "dear"]],
     [Repriced EXCEPT !.products = <<[Team EXCEPT !.active = FALSE]>>]}

-----------------------------------------------------------------------------
(* Commands that set up. *)

Italy == [country |-> "IT", type |-> "standard", active |-> TRUE]
Union == [country |-> "FR", type |-> "oss_union", active |-> TRUE]
Later == [country |-> "DE", type |-> "standard", active |-> FALSE]
Whole == [plans |-> FALSE, meter |-> TRUE, taxMode |-> "stripe",
          stripeTax |-> {[complete |-> TRUE, registrations |-> <<Italy, Union>>]},
          webhook |-> TRUE, prune |-> TRUE, taxId |-> {"FR1"}, roles |-> {"admin", "auditor"}, workos |-> TRUE]
HooksOnly == [Whole EXCEPT !.meter = FALSE, !.taxMode = "none", !.taxId = {}, !.roles = {}, !.workos = FALSE]
Alone(ask) == [CatBase EXCEPT !.ask = [p \in {"a"} |-> ask], !.upset = {"fails", "dies"}, !.upsets = 2]
Together(ask) == [CatBase EXCEPT !.ask = [p \in {"a", "b"} |-> ask]]
Hooked(full) == [there |-> TRUE, full |-> full, enabled |-> TRUE, by |-> {}]
With(scene, hooks) == [scene EXCEPT !.account.hooks = hooks]

SetUpScenes ==
    {Alone(Whole), Alone([Whole EXCEPT !.stripeTax = {}]), Alone([Whole EXCEPT !.workos = FALSE, !.prune = FALSE]),
     [Alone([Whole EXCEPT !.stripeTax = {[complete |-> FALSE, registrations |-> <<Italy, Later>>]}])
        EXCEPT !.platform = TRUE],
     [Alone(Whole) EXCEPT !.account.roles = {}, !.account.meter = TRUE, !.account.taxIds = {"FR1"}],
     Together([Whole EXCEPT !.meter = FALSE, !.taxId = {}]),
     With(Together(HooksOnly), <<Hooked(TRUE), Hooked(FALSE)>>),
     [With(Together(HooksOnly), <<Hooked(FALSE)>>) EXCEPT !.upset = {"hooks", "dies"}, !.upsets = 2],
     [CatBase EXCEPT !.ask = [p \in {"a"} |-> [Whole EXCEPT !.plans = TRUE, !.taxId = {}, !.roles = {}]],
                     !.kind = [Off EXCEPT !["a"] = "sync"], !.up = {"a"},
                     !.upset = {"fails"}, !.upsets = 1]}

-----------------------------------------------------------------------------
(* Plans and pages. *)

Tier(key, shared, included, monthly, yearly) ==
    [key |-> key, shared |-> shared, included |-> included, min |-> 0, max |-> IF shared THEN {1} ELSE {},
     price |-> [monthly |-> monthly, yearly |-> yearly]]
Plan(key, sells, sale) ==
    [key |-> key, sells |-> sells, sale |-> sale, seatTypes |-> <<>>, intervals |-> {}, minSeats |-> 0,
     price |-> [monthly |-> 0, yearly |-> 0], maxSeats |-> {}, seatsFixed |-> FALSE, grant |-> {}, cap |-> {},
     members |-> {}, rate |-> <<>>, hidden |-> FALSE, replenish |-> NoReplenish]
Limit(every, scope, kinds, credits, covers) ==
    [every |-> every, scope |-> scope, callerKind |-> kinds, seat |-> {}, credits |-> credits, covers |-> covers]

MCRates ==
    {<<>>, <<Limit("month", "org", {}, 1, "all")>>, <<Limit("day", "caller", {}, 1, "all")>>,
     <<Limit("day", "org", {"api"}, 2, "included")>>, <<Limit("hour", "caller", {"user"}, 0, "all")>>,
     <<Limit("hour", "org", {}, 1, "included"), Limit("cycle", "org", {}, 1, "all")>>}
MCCaps ==
    {WalletCap} \cup
    {[PerSeatCap EXCEPT !.kind = k, !.onExhausted = x, !.covers = c, !.perSeat = s, !.credits = n] :
        k \in {"pool"}, x \in {"block", "wallet"}, c \in {"all", "users"},
        s \in {"none", "number", "included"}, n \in {{}, {2}}} \cup
    {[PerSeatCap EXCEPT !.onExhausted = x, !.covers = c] : x \in {"block", "wallet"}, c \in {"all", "users"}}
MCModels ==
    {NormalizePlan([Plan("team", "seats", "self_serve") EXCEPT
        !.seatTypes = <<Tier("std", FALSE, n, 1, 10), Tier("agents", TRUE, n, 1, 10)>>,
        !.cap = {cap}, !.rate = rate, !.replenish = [NoReplenish EXCEPT !.purchase = buys]]) :
            n \in {0, 2}, cap \in MCCaps, rate \in MCRates, buys \in {{}, {"admin"}}}

MCCatalogue(least, yearly, sale, hidden) ==
    <<NormalizePlan(Plan("free", "nothing", "free")),
      NormalizePlan([Plan("team", "seats", "self_serve") EXCEPT !.minSeats = least, !.maxSeats = {3},
          !.seatTypes = <<Tier("agents", TRUE, 1, 3, 30), Tier("std", FALSE, 2, 4, yearly)>>]),
      NormalizePlan([Plan("business", "flat", sale) EXCEPT !.price = [monthly |-> 20, yearly |-> 201],
                                                         !.hidden = hidden]),
      NormalizePlan(Plan("enterprise", "flat", "quote"))>>
MCPages ==
    {[interval |-> i, current |-> c, manages |-> m, upgradesOnly |-> u, hidden |-> FALSE] :
        i \in BillingIntervals, c \in {{}, {"free"}, {"team"}, {"business"}}, m \in BOOLEAN, u \in BOOLEAN}

PlanScenes ==
    {[CatBase EXCEPT !.models = MCModels]} \cup
    {[CatBase EXCEPT !.catalogue = MCCatalogue(least, yearly, sale, hidden), !.pages = MCPages] :
        least \in {0, 2}, yearly \in {0, 39, 40, 60}, sale \in {"self_serve", "legacy"}, hidden \in BOOLEAN}

-----------------------------------------------------------------------------
(* Surfaces: what a catalogue sells, who asks, and what is left to them; and *)
(* every request at the doors of a few deployments.                          *)

Asks(most) == {[percent |-> {}, maxPercent |-> {}, maxPerCycle |-> most]}
Replenished(buys, asks) == [purchase |-> buys, autoReload |-> {}, request |-> asks]
MCSale(cap, rate, replenish) ==
    <<NormalizePlan([Plan("free", "nothing", "free") EXCEPT !.rate = <<Limit("hour", "caller", {}, 2, "all")>>,
          !.replenish = Replenished({[min |-> {5}, max |-> {9}]}, {})]),
      NormalizePlan([Plan("team", "seats", "self_serve") EXCEPT !.cap = {cap}, !.rate = rate, !.replenish = replenish,
          !.seatTypes = <<Tier("agents", TRUE, 1, 3, 30), Tier("standard", FALSE, 4, 4, 40),
                          Tier("premium", FALSE, 8, 8, 80)>>]),
      NormalizePlan([Plan("business", "flat", "self_serve") EXCEPT !.price = [monthly |-> 20, yearly |-> 200],
          !.cap = {[PerSeatCap EXCEPT !.kind = "pool", !.credits = {4}]}, !.rate = <<Limit("day", "caller", {}, 2, "all")>>]),
      NormalizePlan(Plan("enterprise", "flat", "quote"))>>

Spent(day, cycle) == [every \in {Everies[i] : i \in DOMAIN Everies} |->
                         IF every \in {"hour", "day"} THEN day ELSE IF every = "week" THEN 0 ELSE cycle]
D == [plans |-> {}, on |-> {}, off |-> {}, internal |-> {"us", ""}, price |-> {}, default |-> {}, ceiling |-> {},
      adapter |-> {"metadata", "isAdmin", "listMemberIds", "listMembers", "setMemberRole", "removeMember", "renameOrg"},
      has |-> {"stripe", "subscription", "invitations", "profile"}, operators |-> {}, purchase |-> "admin", resolves |-> TRUE]
Org == [members |-> {"owner", "member"}, domains |-> {"them", ""}, customer |-> TRUE, credits |-> 5, paced |-> FALSE,
        plan |-> {"team"}, subPlan |-> {"team"}, seats |-> <<>>, used |-> Spent(0, 0), bought |-> {},
        room |-> {"standard", "premium"}, asks |-> {}, granted |-> 0, ceiling |-> {}, invoices |-> {{}},
        printed |-> {{}}, subscribed |-> TRUE, european |-> TRUE, address |-> {}]

MCSales ==
    {MCSale(cap, rate, Replenished(buys, asks)) :
        cap \in {PerSeatCap, [PerSeatCap EXCEPT !.onExhausted = "wallet"], [PerSeatCap EXCEPT !.kind = "pool", !.credits = {4}]},
        rate \in {<<>>, <<Limit("day", "caller", {}, 2, "all")>>,
                  <<Limit("day", "caller", {"user"}, 2, "included"), Limit("week", "org", {}, 1, "all")>>},
        buys \in {{}, {[min |-> {5}, max |-> {9}]}}, asks \in {{}, Asks({}), Asks({1})}}
MCOrgs ==
    {[Org EXCEPT !.plan = plan, !.subPlan = plan, !.seats = held, !.used = used, !.asks = asks] :
        plan \in {{"free"}, {"team"}, {"business"}},
        held \in {<<>>, [m \in {"member"} |-> "premium"], [m \in {"owner", "member"} |-> "premium"]},
        used \in {Spent(0, 0), Spent(2, 2), Spent(2, 8)},
        asks \in {{}, {[by |-> "member", kind |-> k, target |-> t, status |-> "pending"] :
                          k \in {"usage", "seat"}, t \in {"cycle", "premium"}}}}
Offers == {[ds |-> {[D EXCEPT !.plans = {sale}, !.purchase = who] : sale \in MCSales, who \in {"admin", "member"}},
            os |-> MCOrgs, requests |-> {}]}

MCPeople == {{}} \cup {{[id |-> "owner", role |-> "admin", really |-> TRUE, operator |-> op]} : op \in BOOLEAN}
Request(header, key) ==
    [header |-> header, key |-> key, person |-> {}, token |-> FALSE, xpayment |-> FALSE, xkey |-> header = "payment",
     pays |-> "settled", credits |-> TRUE, grants |-> FALSE]
MCKeys == {Request(h, k) : h \in {"key", "oauth", "payment", "none"}, k \in {"valid", "rejected", "unchecked"}}
MCRequests ==
    {[r EXCEPT !.person = who, !.token = token, !.grants = grants] :
        r \in MCKeys, who \in MCPeople, token \in BOOLEAN, grants \in BOOLEAN} \cup
    {[r EXCEPT !.xpayment = x, !.pays = pays, !.credits = c] :
        r \in MCKeys, x \in BOOLEAN, pays \in {"settled", "refused"}, c \in BOOLEAN}
Doored == [D EXCEPT !.plans = {CHOOSE sale \in MCSales : TRUE}, !.has = @ \cup {"payment", "settle", "creditWallet"},
                    !.operators = {"token"}, !.adapter = @ \cup {"resolveOauthOrg"}]
Doors ==
    {[requests |-> MCRequests,
      ds |-> {Doored, [Doored EXCEPT !.has = @ \cup {"requireAuth"}, !.price = {1}], [Doored EXCEPT !.plans = {}, !.price = {6}],
              [Doored EXCEPT !.operators = {"email"}, !.has = @ \ {"creditWallet"}]},
      os |-> {Org, [Org EXCEPT !.credits = 0, !.paced = TRUE], [Org EXCEPT !.domains = {"us"}]}]}

SurfaceScenes == {[CatBase EXCEPT !.surfaces = Offers], [CatBase EXCEPT !.surfaces = Doors]}

MCScenes == CatalogueScenes \cup SetUpScenes \cup PlanScenes \cup SurfaceScenes
=============================================================================
