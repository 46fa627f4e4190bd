---------------------------- MODULE MCOrganization ----------------------------
(***************************************************************************)
(* The queues: one member and one administrator for the top-ups, two       *)
(* members and one handler for the plan asks, over a catalogue of a free   *)
(* plan, a plan with two seats a person can be on, and a plan sold by      *)
(* quote. The people: three, of whom one or two are in the workspace at    *)
(* first, a plan with a standard and a premium seat, and a second          *)
(* workspace for what people carry between the two.                        *)
(***************************************************************************)
EXTENDS Organization

Price(monthly) == [monthly |-> monthly, yearly |-> 0]
SeatKind(key, shared, monthly) ==
    [key |-> key, shared |-> shared, included |-> 1, min |-> 0, max |-> {}, price |-> Price(monthly)]
APlan(key, sale, sells, types) ==
    NormalizePlan([key |-> key, sale |-> sale, sells |-> sells, seatTypes |-> types,
                   intervals |-> {"monthly"},
                   price |-> Price(0), minSeats |-> 0, maxSeats |-> {}, seatsFixed |-> FALSE,
                   grant |-> {}, cap |-> {}, members |-> {}, rate |-> <<>>, hidden |-> FALSE,
                   replenish |-> NoReplenish])
MCCatalogue == [i \in 1..3 |->
    CASE i = 1 -> APlan("free", "free", "nothing", <<>>)
      [] i = 2 -> APlan("team", "self_serve", "seats",
                        <<SeatKind("standard", FALSE, 10), SeatKind("agents", TRUE, 5),
                          SeatKind("premium", FALSE, 20)>>)
      [] i = 3 -> APlan("custom", "quote", "nothing", <<>>)]

TopUp == [serial |-> TRUE, legacy |-> {}, max |-> {}, clicks |-> FALSE, calls |-> 4, turns |-> {},
          faults |-> {}]
NoTopUp == [TopUp EXCEPT !.calls = 0]
PlanAsk == [serial |-> TRUE, current |-> {"team"}, moves |-> {}, noted |-> FALSE, named |-> FALSE,
            blank |-> FALSE, begins |-> 5, seats |-> FALSE, faults |-> {}]
NoPlanAsk == [PlanAsk EXCEPT !.begins = 0]

Limited(key, monthly, max) ==
    [key |-> key, shared |-> FALSE, included |-> 1, min |-> 0, max |-> max,
     price |-> [monthly |-> monthly, yearly |-> 0]]
MCModel == NormalizePlan(
    [key |-> "team", sells |-> "seats", sale |-> "self_serve",
     seatTypes |-> <<Limited("standard", 10, {}), Limited("premium", 20, {1})>>,
     intervals |-> {"monthly"}, price |-> <<>>, minSeats |-> 0, maxSeats |-> {}, seatsFixed |-> FALSE,
     grant |-> {}, cap |-> {}, members |-> {3}, rate |-> <<>>, hidden |-> FALSE,
     replenish |-> NoReplenish])

Bought(standard, premium) == {[standard |-> standard, premium |-> premium]}
Nothing == [p \in People |-> "none"]
Staff(here, there) == [o \in Orgs |-> IF o = Home THEN here ELSE there]
Everywhere == [o \in Orgs |-> {}]

People1 ==
    [staff |-> Staff({"ann", "bob"}, {}), admins |-> {"ann", "bob"}, held |-> Nothing,
     legacy |-> [o \in Orgs |-> Nothing], bought |-> Everywhere, kinds |-> {}, serial |-> Locks,
     naming |-> FALSE, stand |-> FALSE, calls |-> 3, faults |-> {}]
NoPeople == [People1 EXCEPT !.calls = 0]
NoClose == [sub |-> [s \in Subscriptions |-> "none"], late |-> FALSE, mapped |-> FALSE,
            clears |-> {TRUE}, closes |-> 0, faults |-> {}]
NoMirror == [reads |-> 0, faults |-> FALSE, deletes |-> FALSE]

SomeClaims == [kinds |-> {"identity", "claim", "token"}, serial |-> TRUE, expires |-> FALSE,
               guesses |-> FALSE, requests |-> 6, faults |-> {}]
NoClaims == [SomeClaims EXCEPT !.requests = 0]
Connected == [clientTtl |-> {6}, refreshTtl |-> 3, shared |-> TRUE, diligent |-> TRUE,
              turns |-> TRUE, signs |-> TRUE, trips |-> Trips, faults |-> {}]
NoConnector == [Connected EXCEPT !.trips = {}]

Empty == [topUps |-> NoTopUp, asks |-> NoPlanAsk,
          people |-> NoPeople, close |-> NoClose, mirror |-> NoMirror,
          claims |-> NoClaims, connector |-> NoConnector]
Alone(topUp) == [Empty EXCEPT !.topUps = topUp]
Asking(planAsk) == [Empty EXCEPT !.asks = planAsk]
Staffed(people) == [Empty EXCEPT !.people = people]
Mirrored(mirror) == [Empty EXCEPT !.mirror = mirror]
Closed(people, shut) == [Empty EXCEPT !.people = people, !.close = shut]

QueueScenes ==
    {Alone([TopUp EXCEPT !.turns = {"week"}]),
     Alone([TopUp EXCEPT !.legacy = {"ann"}, !.calls = 3]),
     Alone([TopUp EXCEPT !.legacy = {"ann"}, !.faults = {"fails"}, !.calls = 3]),
     Alone([TopUp EXCEPT !.max = {2}, !.faults = {"memberRead"}]),
     Alone([TopUp EXCEPT !.clicks = TRUE, !.calls = 5]),
     Alone([TopUp EXCEPT !.serial = FALSE, !.legacy = {"ann"}, !.calls = 3]),
     Asking([PlanAsk EXCEPT !.noted = TRUE, !.blank = TRUE, !.seats = TRUE, !.begins = 4]),
     Asking([PlanAsk EXCEPT !.current = {}, !.named = TRUE, !.moves = {"team", "free"}, !.begins = 3]),
     Asking([PlanAsk EXCEPT !.faults = {"fails", "refused"}, !.begins = 4]),
     Asking([PlanAsk EXCEPT !.faults = {"forget", "fails"}, !.begins = 4]),
     Asking([PlanAsk EXCEPT !.serial = FALSE, !.begins = 4]),
     [Empty EXCEPT !.topUps = [TopUp EXCEPT !.serial = FALSE, !.legacy = {"ann"}, !.calls = 1],
                   !.asks = [PlanAsk EXCEPT !.begins = 2]],
     [Empty EXCEPT !.topUps = [TopUp EXCEPT !.legacy = {"ann"}, !.calls = 2],
                   !.asks = [PlanAsk EXCEPT !.begins = 2]]}

Closable == [NoClose EXCEPT !.closes = 2, !.sub = [s \in Subscriptions |-> "active"]]
Seated == [People1 EXCEPT !.bought = Staff(Bought(2, 1), {}), !.kinds = {"assign", "remove"}]
Inviting == [People1 EXCEPT !.staff = Staff({"ann"}, {}), !.bought = Staff(Bought(1, 1), {}),
                            !.kinds = {"invite", "accept", "revoke"}]

PeopleScenes ==
    {Staffed([People1 EXCEPT !.kinds = {"role", "remove"}, !.serial = {"admins"}, !.calls = 4]),
     Staffed([People1 EXCEPT !.kinds = {"role", "remove"}, !.serial = {}, !.faults = {"roles"}, !.calls = 2]),
     Staffed(Seated),
     Staffed([Seated EXCEPT !.kinds = {"assign"}, !.serial = {}, !.legacy = Staff(
                 [Nothing EXCEPT !["bob"] = "premium"], Nothing)]),
     Staffed([Seated EXCEPT !.staff = Staff({"ann"}, {"ann"}), !.serial = {}, !.calls = 2,
                            !.faults = {"memberRead", "memberList", "bought", "fails"}]),
     Staffed([Inviting EXCEPT !.kinds = @ \cup {"assign"}, !.bought = Staff(Bought(1, 1), {})]),
     Staffed([Inviting EXCEPT !.serial = {}]),
     Staffed([Inviting EXCEPT !.naming = TRUE, !.stand = TRUE, !.faults = {"fails", "bought"}, !.calls = 2]),
     Closed([Seated EXCEPT !.held = [Nothing EXCEPT !["bob"] = "premium"], !.calls = 1],
            [Closable EXCEPT !.late = TRUE]),
     Closed([Seated EXCEPT !.held = [Nothing EXCEPT !["bob"] = "premium"], !.calls = 2,
                           !.kinds = {"assign", "invite"}, !.serial = {}],
            [Closable EXCEPT !.sub = [s \in Subscriptions |-> "none"], !.closes = 1]),
     Closed(NoPeople, [Closable EXCEPT !.faults = {"stripe", "delete"},
                                       !.sub = [s \in Subscriptions |-> "past_due"]]),
     Closed(NoPeople, [Closable EXCEPT !.faults = {"list", "write", "dies"}, !.clears = BOOLEAN]),
     Closed(NoPeople, [Closable EXCEPT !.mapped = TRUE, !.closes = 1]),
     Mirrored([reads |-> 3, faults |-> TRUE, deletes |-> FALSE]),
     Mirrored([reads |-> 4, faults |-> FALSE, deletes |-> TRUE])}

Claimed(claims) == [Empty EXCEPT !.claims = claims]
Linked(connector) == [Empty EXCEPT !.connector = connector]
AccessScenes ==
    {Claimed([SomeClaims EXCEPT !.guesses = TRUE]),
     Claimed([SomeClaims EXCEPT !.expires = TRUE, !.kinds = ClaimKinds, !.requests = 5]),
     Claimed([SomeClaims EXCEPT !.serial = FALSE, !.requests = 5]),
     Claimed([SomeClaims EXCEPT !.faults = {"send", "org", "member", "stripe", "mint"}, !.requests = 5]),
     Linked(Connected),
     Linked([Connected EXCEPT !.turns = FALSE]),
     Linked([Connected EXCEPT !.clientTtl = {}, !.diligent = FALSE]),
     Linked([Connected EXCEPT !.shared = FALSE, !.clientTtl = {2}, !.faults = {"store", "workos"}])}

MCScenes == QueueScenes \cup PeopleScenes \cup AccessScenes
MCTopUpScenes == {s.topUps : s \in MCScenes}
MCAskScenes == {s.asks : s \in MCScenes}
MCMemberScenes == {s.people : s \in MCScenes}
MCMirrorScenes == {s.mirror : s \in MCScenes}
MCClaimScenes == {s.claims : s \in MCScenes}
MCConnectorScenes == {s.connector : s \in MCScenes}
=============================================================================
