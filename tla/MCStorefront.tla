---------------------------- MODULE MCStorefront ----------------------------
(***************************************************************************)
(* A plan with a standard and a premium seat, of which one premium at most *)
(* may be bought; a workspace with a customer or, at first, without; and   *)
(* sellers and customers on either side of a border.                       *)
(***************************************************************************)
EXTENDS Storefront

Kind(key, monthly, max) ==
    [key |-> key, shared |-> FALSE, included |-> 1, min |-> 0, max |-> max,
     price |-> [monthly |-> monthly, yearly |-> 0]]
MCModel == NormalizePlan(
    [key |-> "team", sells |-> "seats", sale |-> "self_serve",
     seatTypes |-> <<Kind("standard", 10, {}), Kind("premium", 20, {1})>>,
     intervals |-> {"monthly"}, price |-> <<>>, minSeats |-> 0, maxSeats |-> {}, seatsFixed |-> FALSE,
     grant |-> {}, cap |-> {}, members |-> {3}, rate |-> <<>>, hidden |-> FALSE,
     replenish |-> NoReplenish])

Basket(standard, premium) == [key \in {"standard", "premium"} |-> IF key = "standard" THEN standard ELSE premium]
Ask(customer, basket) == [customer |-> customer, basket |-> basket, hosted |-> FALSE, reuse |-> TRUE]
Known == {Ask(1, Basket(1, 0)), Ask(1, Basket(1, 1))}
Unknown == {Ask(0, Basket(1, 0))}
MCAsks == Known \cup Unknown \cup {Ask(1, Basket(0, 0)), Ask(1, Basket(1, 2)),
                                  [Ask(1, Basket(1, 0)) EXCEPT !.hosted = TRUE, !.reuse = FALSE]}
MCCounts == {Selected(Basket(1, 1)), Selected(Basket(3, 0))}

Scene1 == [asks |-> Unknown, ends |-> FALSE, buys |-> 1, finishes |-> 0, welcomes |-> 0, changes |-> 0,
           carries |-> FALSE, serial |-> TRUE, free |-> TRUE, faults |-> {}]
Rest == [Scene1 EXCEPT !.buys = 0]
Scene2 == [Scene1 EXCEPT !.asks = Known, !.ends = TRUE, !.buys = 3]
Scene3 == [Scene1 EXCEPT !.buys = 0, !.serial = FALSE]

MCScenes ==
    {Rest, [Scene2 EXCEPT !.asks = {Ask(1, Basket(1, 0))}],
     [Scene2 EXCEPT !.asks = {Ask(1, Basket(1, 0))}, !.ends = FALSE, !.buys = 2, !.finishes = 1],
     [Scene2 EXCEPT !.faults = {"stripe", "dies"}, !.ends = FALSE, !.buys = 2],
     [Scene2 EXCEPT !.asks = MCAsks, !.ends = FALSE, !.buys = 2],
     [Scene1 EXCEPT !.finishes = 2, !.changes = 1],
     [Scene1 EXCEPT !.finishes = 2, !.serial = FALSE, !.faults = {"late"}],
     [Scene1 EXCEPT !.finishes = 1, !.changes = 2, !.carries = TRUE],
     [Scene1 EXCEPT !.finishes = 1, !.welcomes = 1, !.faults = {"write", "stripe", "dies"}],
     [Scene1 EXCEPT !.finishes = 1, !.welcomes = 1, !.serial = FALSE],
     [Scene3 EXCEPT !.welcomes = 3, !.faults = {"dies"}],
     [Scene3 EXCEPT !.welcomes = 2, !.free = FALSE]}

MCRate == [country \in {"FR", "DE", "GR", "GB"} |->
    CASE country = "FR" -> 20 [] country = "DE" -> 19 [] country = "GR" -> 24 [] country = "GB" -> 21]
Vat(prefix, digits) == [prefix |-> prefix, digits |-> digits, formed |-> TRUE]
Vat1 == Vat("DE", 1)
Mistyped == [Vat("DE", 9) EXCEPT !.formed = FALSE]
MCNumbers == {Vat1, Vat("DE", 2), Vat("GR", 1), Vat("EL", 1), Mistyped}

\* Deployments of the account.
Saves(number) == [Chore("taxId") EXCEPT !.number = number]
With(kind, card) == [Chore(kind) EXCEPT !.card = card]
Moves(country) == [Chore("address") EXCEPT !.country = country]
Nowhere == [line |-> NoLine, country |-> NoCountry]
In(country) == [line |-> "street", country |-> country]

NoChores == [chores |-> {}, count |-> 0, serial |-> FALSE, saves |-> {}, cards |-> <<>>, numbers |-> <<>>,
             address |-> Nowhere, faults |-> {}]
MCCards == {"c1", "c2", "c3"}
Ids == [NoChores EXCEPT !.count = 2, !.numbers = <<Vat1>>, !.chores = {Saves(Vat("DE", 2)), Saves(Vat("GR", 1)), Saves(Mistyped)},
                        !.faults = {"stripe", "dies"}]
Wallets == [NoChores EXCEPT !.count = 3, !.serial = TRUE, !.saves = {"c3"}, !.cards = <<"c1", "c2">>,
               !.chores = {With(kind, card) : kind \in {"attached", "default", "detach", "touch"}, card \in MCCards}
                          \cup {With("prune", NoCard)}]
AccountOnly ==
    {Ids, [Ids EXCEPT !.serial = TRUE, !.count = 3, !.chores = @ \cup {Saves(Vat1)}],
     [Ids EXCEPT !.chores = {Saves(NoNumber), Saves(Vat1)}],
     Wallets, [Wallets EXCEPT !.cards = <<>>, !.saves = {"c1"}, !.count = 2, !.chores = @ \cup {With("chosen", "c1")}],
     [Wallets EXCEPT !.serial = FALSE, !.count = 2, !.faults = {"stripe"}, !.cards = <<"c1", "c2", "c3">>,
                     !.chores = {With("prune", NoCard), With("detach", "c2"), With("default", "c1")}],
     [NoChores EXCEPT !.count = 2, !.address = In("DE"), !.chores = {Moves("FR"), [Chore("address") EXCEPT !.line = "avenue"]}],
     [NoChores EXCEPT !.count = 2, !.chores = {Moves("FR"), [Moves("FR") EXCEPT !.line = "avenue"]}]}

\* Sellers in France and outside the Union, registered and not; customers in
\* Germany, Greece, the United Kingdom, and a country the dataset leaves out.
French == [country |-> "FR", vatRegistered |-> TRUE, oss |-> FALSE, alsoCollectIn |-> {}, notes |-> {}]
NoTax == [mode |-> "local", hook |-> "none", origin |-> TRUE, stated |-> TRUE, seller |-> French, kinds |-> {}, count |-> 0,
          typed |-> {}, confirmed |-> {Vat1, Vat("EL", 1)}, withdraws |-> FALSE, forgets |-> FALSE, serial |-> FALSE,
          time |-> 0, faults |-> {}]
Bills == [NoTax EXCEPT !.kinds = {"charge"}, !.count = 2]
Abroad == {Place("GB", Anywhere), Place("US", "CA")}
Sellers == {[country |-> country, vatRegistered |-> registered, oss |-> oss, alsoCollectIn |-> also, notes |-> notes] :
              country \in {"FR", "GB"}, registered \in BOOLEAN, oss \in BOOLEAN,
              also \in {{}, Abroad, {Place("DE", Anywhere)}}, notes \in {{}, {"exempt", "reverse"}}}
Typed == {<<Place(country, Unstated), NoNumber>> : country \in {"FR", "DE", "US"}}
           \cup {<<Place("US", "CA"), NoNumber>>, <<Place("GR", Unstated), Vat("GR", 1)>>, <<Place("DE", Unstated), Vat1>>}
Customers == {[NoChores EXCEPT !.address = In(country), !.numbers = numbers] :
                country \in {"FR", "DE", "GB", "US"}, numbers \in {<<>>, <<Vat1>>}}
               \cup {[NoChores EXCEPT !.numbers = numbers] : numbers \in {<<Vat1>>, <<Vat("EL", 1)>>}}
Still == [NoChores EXCEPT !.numbers = <<Vat1>>, !.address = In("DE")]
Editing == [Still EXCEPT !.count = 1, !.chores = {Moves("FR"), Saves(Vat("DE", 2)), Saves(NoNumber)}]
Opens == [Bills EXCEPT !.kinds = {"open", "retax"}, !.count = 3, !.seller.oss = TRUE]

MCDeployments ==
    {[account |-> account, tax |-> NoTax] : account \in AccountOnly \cup {NoChores}}
      \cup {[account |-> account, tax |-> [Bills EXCEPT !.seller = seller, !.count = 1, !.stated = stated]] :
              account \in Customers, seller \in Sellers, stated \in BOOLEAN}
      \cup {[account |-> [Editing EXCEPT !.chores = {Saves(Vat("DE", 2))}], tax |-> [Bills EXCEPT !.faults = {"vies"}, !.seller.oss = TRUE]],
            [account |-> Editing, tax |-> [Bills EXCEPT !.count = 1, !.faults = {"customer", "rates"}]],
            [account |-> [Editing EXCEPT !.chores = {Moves("FR")}],
             tax |-> [Bills EXCEPT !.stated = FALSE, !.origin = FALSE, !.faults = {"account"}]]}
      \cup {[account |-> Still, tax |-> tax] :
              tax \in {[Bills EXCEPT !.withdraws = TRUE, !.time = 2, !.forgets = TRUE],
                       [Bills EXCEPT !.count = 3, !.seller.oss = TRUE, !.confirmed = {}, !.faults = {"lost", "rates"}],
                       [Bills EXCEPT !.mode = "stripe", !.hook = "empty"], [Bills EXCEPT !.mode = "none"],
                       [Bills EXCEPT !.hook = "rates"]}}
      \cup {[account |-> [NoChores EXCEPT !.address = In("FR")], tax |-> tax] :
              tax \in {[Opens EXCEPT !.serial = TRUE, !.typed = Typed, !.seller.alsoCollectIn = also, !.faults = {"rates"}] :
                         also \in {{}, {Place("US", "CA")}}}
                      \cup {[Opens EXCEPT !.typed = {<<Place("DE", Unstated), NoNumber>>, <<Place("DE", Unstated), Vat1>>}]}}
MCServedBy == [c \in {"x1", "x2", "x3"} |-> IF c = "x3" THEN "p2" ELSE "p1"]
MCAccountScenes == {d.account : d \in MCDeployments}
MCTaxScenes == {d.tax : d \in MCDeployments}
=============================================================================
