------------------------------- MODULE Ladder -------------------------------
(***************************************************************************)
(* Which seat and which plan are better than the one somebody is on, what  *)
(* a blocked member is offered, and who may do it. No state: "a plain      *)
(* object in, a key out" (ladder.ts).                                      *)
(*                                                                         *)
(* A catalogue is a sequence of normalized plans, each with its key.       *)
(***************************************************************************)
EXTENDS Allowance
LOCAL INSTANCE Functions

PlanOf(catalogue, key) == {m \in {catalogue[i] : i \in DOMAIN catalogue} : m.key = key}
ModelOf(catalogue, key) == Or(PlanOf(catalogue, key), Unplanned)

\* The first place of a stable sort by rank, at most one: ranks is a function of
\* places, and of equals the first comes first.
FirstOf(ranks) ==
    {i \in DOMAIN ranks : \A k \in DOMAIN ranks : ranks[i] < ranks[k] \/ (ranks[i] = ranks[k] /\ i <= k)}
LastOf(ranks) ==
    {i \in DOMAIN ranks : \A k \in DOMAIN ranks : ranks[k] < ranks[i] \/ (ranks[i] = ranks[k] /\ k <= i)}

-----------------------------------------------------------------------------
(* Seats: those a person can be on, cheapest first. *)

\* The first of the seats that qualify, in the order of the ladder: by monthly
\* price, and as declared where prices tie. At most one.
FirstSeat(model, qualifies) ==
    LET rungs == {i \in DOMAIN model.seatTypes :
                     ~model.seatTypes[i].shared /\ model.seatTypes[i].key \in qualifies}
    IN {model.seatTypes[i].key : i \in FirstOf([j \in rungs |-> model.seatTypes[j].price["monthly"]])}

SeatLadder(model) == {key \in SeatKeys(model) : ~Shared(model, key)}
DefaultSeatOf(model) == FirstSeat(model, SeatKeys(model))

\* seat is a set of at most one key: nobody assigned means the default seat.
SeatRank(model, seat) ==
    LET held == IF seat = {} THEN DefaultSeatOf(model) ELSE seat
    IN Or({s.price["monthly"] : s \in UNION {SeatTypeOf(model, key) : key \in held}}, 0)

NextSeatUp(model, seat) ==
    FirstSeat(model, {key \in SeatLadder(model) : SeatRank(model, {key}) > SeatRank(model, seat)})

IsTopSeat(model, seat) == SeatLadder(model) # {} /\ NextSeatUp(model, seat) = {}

-----------------------------------------------------------------------------
(* Plans: by what the default basket costs a month. *)

Unpriced == 1000000

\* The basket's price, unless it is nothing.
Priced(price) == IF price > 0 THEN {price} ELSE {}

PlanRank(model) ==
    CASE model.sale = "quote" -> Unpriced
      [] model.sale # "quote" /\ model.sells = "flat" -> model.price["monthly"]
      [] OTHER -> Or(Priced(PriceBasket(model, DefaultBasket(model), "monthly")), SeatRank(model, {}))

\* Offered plans by their place in the catalogue.
Offered(catalogue) ==
    {i \in DOMAIN catalogue : catalogue[i].sale # "legacy" /\ ~catalogue[i].hidden}

FreePlan(catalogue) ==
    LET free == {i \in Offered(catalogue) : catalogue[i].sale = "free"}
    IN {catalogue[i] : i \in FirstOf([j \in free |-> PlanRank(catalogue[j])])}

\* The rank an organization starts from; on no plan, or one no longer offered, the free one's.
RankOf(catalogue, current) ==
    LET on == {catalogue[i] : i \in {j \in Offered(catalogue) : catalogue[j].key \in current}}
    IN Or({PlanRank(m) : m \in on}, Or({PlanRank(m) : m \in FreePlan(catalogue)}, 0))

\* The next plan up, at most one: the cheapest above, the first declared of equals.
RanksOffered(catalogue) == [i \in Offered(catalogue) |-> PlanRank(catalogue[i])]
CheapestAbove(ranks, rank) == FirstOf(Restrict(ranks, {i \in DOMAIN ranks : ranks[i] > rank}))
DearestBelow(ranks, rank) == LastOf(Restrict(ranks, {i \in DOMAIN ranks : ranks[i] < rank}))

UpgradeTo(catalogue, current) ==
    {catalogue[i].key : i \in CheapestAbove(RanksOffered(catalogue), RankOf(catalogue, current))}

\* The next plan down: the dearest below, the last declared of equals.
DowngradeTo(catalogue, current) ==
    {catalogue[i].key : i \in DearestBelow(RanksOffered(catalogue), RankOf(catalogue, current))}

CanCancel(catalogue, current) ==
    \E i \in Offered(catalogue) : /\ catalogue[i].key \in current
                                  /\ catalogue[i].sells # "nothing" /\ catalogue[i].sale # "free"

-----------------------------------------------------------------------------
(* The rung to offer somebody who is blocked, and the call that takes it. *)

\* A window is a limit or a pack; what blocks is a set of at most one.
Payable(model, blocked, caller) ==
    /\ model.replenish.purchase # {} \/ model.replenish.autoReload # {}
    /\ \E w \in blocked :
          \/ w.role = "pack" /\ ExhaustedPolicy(model, caller) = "wallet"
          \/ w.role = "rate" /\ w.covers = "included"

\* In order: a better seat, money, more of this seat, a better plan.
Rung(model, better, payable, up) ==
    CASE model.sells = "seats" /\ better # {} -> {[ask |-> "seat", to |-> better]}
      [] (model.sells = "seats" => better = {}) /\ payable -> {[ask |-> "credits", to |-> {}]}
      [] model.sells = "seats" /\ better = {} /\ ~payable -> {[ask |-> "usage", to |-> {}]}
      [] OTHER -> {[ask |-> "plan", to |-> {key}] : key \in up}

NextUsageAsk(model, blocked, seat, catalogue, current) ==
    IF blocked = {} THEN {}
    ELSE Rung(model, NextSeatUp(model, seat), Payable(model, blocked, [kind |-> "user", seat |-> Or(seat, "none")]),
              UpgradeTo(catalogue, current))

\* An administrator does it; anybody else asks, unless members may buy.
UsageAction(ask, isAdmin, purchase) ==
    CASE ask = "seat" -> IF isAdmin THEN "assign_seat_type" ELSE "request_seat_change"
      [] ask = "credits" -> IF isAdmin \/ purchase = "member" THEN "buy_credits" ELSE "request_top_up"
      [] ask = "usage" -> IF isAdmin THEN "grant_top_up" ELSE "request_top_up"
      [] ask = "plan" -> IF isAdmin THEN "change_plan" ELSE "request_plan_change"

-----------------------------------------------------------------------------
(* An ask answers itself once the workspace, or the member, has what it wants. *)

IsSatisfied(catalogue, kind, target, current, seat) ==
    LET on == UNION {PlanOf(catalogue, key) : key \in current}
        want == PlanOf(catalogue, target)
    IN CASE kind = "seat" -> \E m \in on : SeatRank(m, seat) >= SeatRank(m, {target})
         [] kind = "plan" -> \E m \in on, w \in want : PlanRank(m) >= PlanRank(w)
=============================================================================
