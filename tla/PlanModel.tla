------------------------------ MODULE PlanModel ------------------------------
(***************************************************************************)
(* A plan of the catalogue, and what follows from it alone: what it sells, *)
(* what it includes and for whom, what its windows need of a ledger, and   *)
(* which baskets it accepts. No state; the modules of the meter, of the    *)
(* requests and of the purchase are built on it.                           *)
(*                                                                         *)
(* An optional field is a set of at most one value. A field that the       *)
(* source defaults where it reads it is written with its default.          *)
(***************************************************************************)
EXTENDS Integers, Sequences
LOCAL INSTANCE Functions

\* "opt ?? default"
Or(opt, default) == IF opt = {} THEN default ELSE CHOOSE v \in opt : TRUE

AtMost(n, limit) == \A max \in limit : n <= max

Least(S) == CHOOSE x \in S : \A y \in S : x <= y
Larger(x, y) == IF x >= y THEN x ELSE y

BillingIntervals == {"monthly", "yearly"}

\* Seat types in the order of the configuration.
SeatTypeOf(model, key) == {s \in {model.seatTypes[i] : i \in DOMAIN model.seatTypes} : s.key = key}
SeatKeys(model) == {model.seatTypes[i].key : i \in DOMAIN model.seatTypes}
Shared(model, key) == \E s \in SeatTypeOf(model, key) : s.shared

\* A basket: how many seats of each type. A key it lacks counts none.
Quantity(basket, key) == IF key \in DOMAIN basket THEN basket[key] ELSE 0

-----------------------------------------------------------------------------
(* The normal form. *)

Charges(price, interval) == price[interval] > 0

\* Intervals a price exists for, unless the plan declares them.
SoldIntervals(spec) ==
    CASE spec.sells = "nothing" -> {}
      [] spec.sells # "nothing" /\ spec.intervals # {} -> spec.intervals
      [] spec.sells = "flat" /\ spec.intervals = {} ->
            {i \in BillingIntervals : Charges(spec.price, i)}
      [] OTHER -> {i \in BillingIntervals :
                       \E n \in DOMAIN spec.seatTypes : Charges(spec.seatTypes[n].price, i)}

PerSeatCap == [kind |-> "per_seat", window |-> "cycle", covers |-> "all",
               onExhausted |-> "block", rollover |-> FALSE,
               perSeat |-> "none", credits |-> {}]
WalletCap == [PerSeatCap EXCEPT !.kind = "wallet"]

NormalizePlan(spec) ==
    [spec EXCEPT
        !.grant = Or(@, [kind |-> "none", credits |-> 0]),
        !.cap = Or(@, IF spec.sells = "seats" THEN PerSeatCap ELSE WalletCap),
        !.seatTypes = IF spec.sells = "seats" THEN @ ELSE <<>>,
        !.intervals = SoldIntervals(spec)]

NoReplenish == [purchase |-> {}, autoReload |-> {}, request |-> {}]

\* planModel(plans, null): no window, no limit, the wallet alone.
Unplanned == NormalizePlan(
    [sells |-> "nothing", sale |-> "free", seatTypes |-> <<>>, intervals |-> {}, price |-> <<>>,
     minSeats |-> 0, maxSeats |-> {}, seatsFixed |-> FALSE, grant |-> {}, cap |-> {},
     members |-> {}, rate |-> <<>>, hidden |-> FALSE, replenish |-> NoReplenish])

-----------------------------------------------------------------------------
(* What is included, and for whom. A caller is a kind, a seat and an id. *)

ExhaustedPolicy(model, caller) ==
    IF \/ caller.kind = "api"
       \/ Shared(model, caller.seat)
       \/ model.cap.kind = "wallet"
    THEN "wallet" ELSE model.cap.onExhausted

CapCovers(model, caller) ==
    \/ model.cap.kind = "wallet"
    \/ model.cap.covers = "all"
    \/ caller.kind # "api" /\ ~Shared(model, caller.seat)

\* Included credits of the seats in a basket.
IncludedIn(model, basket) ==
    SumFunction([i \in DOMAIN model.seatTypes |->
        model.seatTypes[i].included * Quantity(basket, model.seatTypes[i].key)])

PoolIsPerSeat(model) == model.cap.kind = "pool" /\ model.cap.perSeat # "none"

\* seats is [total |-> n, mix |-> basket]; an empty mix: only the total is known.
PoolSizeOf(model, seats) ==
    LET smallest == Least({model.seatTypes[i].included : i \in DOMAIN model.seatTypes})
        total == Larger(1, seats.total)
    IN CASE model.cap.kind # "pool" -> {}
         [] model.cap.kind = "pool" /\ model.cap.perSeat = "included"
                /\ IncludedIn(model, seats.mix) > 0 -> {IncludedIn(model, seats.mix)}
         [] model.cap.kind = "pool" /\ model.cap.perSeat = "included"
                /\ IncludedIn(model, seats.mix) = 0 ->
                {IF model.seatTypes = <<>> THEN 0
                 ELSE smallest * (IF seats.mix = <<>> THEN total ELSE 1)}
         [] model.cap.kind = "pool" /\ model.cap.perSeat = "number" ->
                {Or(model.cap.credits, 0) * total}
         [] OTHER -> {Or(model.cap.credits,
                         IF model.grant.kind = "fixed" THEN model.grant.credits ELSE 0)}

PackSizeOf(model, seat) ==
    IF model.cap.kind = "per_seat" THEN {s.included : s \in SeatTypeOf(model, seat)} ELSE {}

\* Credits granted for a paid cycle.
GrantFor(model, basket, members) ==
    CASE model.grant.kind = "none" -> 0
      [] model.grant.kind = "fixed" -> model.grant.credits
      [] model.grant.kind = "per_member" -> model.grant.credits * Larger(1, members)
      [] model.grant.kind = "purchased_seats" -> IncludedIn(model, basket)

\* The limits that apply to a caller, by their place in the plan. seat and
\* callerKind of a limit are optional.
RateLimitsOf(model, caller) ==
    {i \in DOMAIN model.rate :
        model.rate[i].seat \subseteq {caller.seat} /\ model.rate[i].callerKind \subseteq {caller.kind}}

-----------------------------------------------------------------------------
(* What a ledger has to be able to count. *)

\* Usage of such callers may be included: the wallet does not always fund it.
MayBeIncluded(model, kinds) ==
    /\ model.cap.kind # "wallet"
    /\ kinds = {"api"} => CapCovers(model, [kind |-> "api", seat |-> ""])

CoverageNeededBy(model) ==
    LET limits == {model.rate[i] : i \in DOMAIN model.rate} IN
    (IF model.cap.kind = "pool" \/ \E limit \in limits : limit.scope = "org"
     THEN {"orgIncluded"} ELSE {})
    \cup
    (IF \/ model.cap.kind = "per_seat"
        \/ \E limit \in limits : /\ limit.scope = "caller" \/ limit.callerKind # {}
                                 /\ MayBeIncluded(model, limit.callerKind)
     THEN {"callerIncluded"} ELSE {})

LedgerGaps(model, covers) == CoverageNeededBy(model) \ covers

-----------------------------------------------------------------------------
(* Baskets. *)

Seats(basket) == SumFunction(basket)

\* Each type's minimum; what minSeats still asks for goes to the first type
\* that is not shared, or to the first.
DefaultBasket(model) ==
    LET minima == [key \in SeatKeys(model) |-> (CHOOSE s \in SeatTypeOf(model, key) : TRUE).min]
        missing == model.minSeats - Seats(minima)
        own == {i \in DOMAIN model.seatTypes : ~model.seatTypes[i].shared}
        first == Least(IF own = {} THEN DOMAIN model.seatTypes ELSE own)
    IN IF missing > 0 /\ model.seatTypes # <<>>
       THEN [minima EXCEPT ![model.seatTypes[first].key] = @ + missing]
       ELSE minima

PriceBasket(model, basket, interval) ==
    CASE model.sells = "flat" -> model.price[interval]
      [] model.sells = "seats" ->
            SumFunction([i \in DOMAIN model.seatTypes |->
                Quantity(basket, model.seatTypes[i].key) * model.seatTypes[i].price[interval]])
      [] OTHER -> 0

\* The tax rounds once, on the subtotal (Math.round of a non-negative number).
TaxOn(subtotal, percent) == (2 * subtotal * percent + 100) \div 200

\* The tightest of the two ceilings that ValidateBasket enforces.
BasketBounds(model) ==
    [minSeats |-> model.minSeats,
     maxSeats |-> LET ceilings == model.maxSeats \cup model.members
                  IN IF ceilings = {} THEN {} ELSE {Least(ceilings)}]

\* Everything wrong with a basket.
ValidateBasket(model, basket, interval, purchasing) ==
    LET bought == {key \in DOMAIN basket : basket[key] > 0}
        known == bought \cap SeatKeys(model)
        total == SumFunctionOnSet(basket, known)
        over == \E key \in known : \E s \in SeatTypeOf(model, key) : ~AtMost(basket[key], s.max)
        seated == model.sells = "seats"
    IN {problem \in {"not_purchasable", "interval_unavailable", "unknown_seat_type",
                     "seat_type_limit", "below_minimum", "seat_limit", "member_limit"} :
          CASE problem = "not_purchasable" -> purchasing /\ model.sale # "self_serve"
            [] problem = "interval_unavailable" ->
                    model.intervals # {} /\ interval \notin model.intervals
            [] problem = "unknown_seat_type" -> seated /\ bought # known
            [] problem = "seat_type_limit" -> seated /\ over
            [] problem = "below_minimum" -> seated /\ total < model.minSeats
            [] problem = "seat_limit" -> seated /\ ~AtMost(total, model.maxSeats)
            [] problem = "member_limit" -> seated /\ ~AtMost(total, model.members)}

\* A share of an allowance in credits (Math.round of a non-negative number).
CreditsForPercent(basis, percent) ==
    IF basis <= 0 \/ percent <= 0 THEN 0 ELSE (2 * basis * percent + 100) \div 200
=============================================================================
