------------------------------- MODULE Pricing -------------------------------
(***************************************************************************)
(* What a pricing page shows of the catalogue (src/src/pricing.ts): a card *)
(* per plan, the table that compares them, and their markdown.  No state,  *)
(* no words: an amount stands for its text, a label for what it is about.  *)
(***************************************************************************)
EXTENDS Ladder

Round12(yearly) == (2 * yearly + 12) \div 24    \* Math.round(yearly / 12)

\* Math.min() of nothing.
Infinite == 1000000000

-----------------------------------------------------------------------------
(* A card. opts: the interval, the plan the viewer is on, whether they manage it. *)

Row(s) ==
    [key |-> s.key, shared |-> s.shared, free |-> s.price.monthly = 0 /\ s.price.yearly = 0,
     min |-> s.min, max |-> s.max, included |-> s.included, total |-> s.price,
     perMonth |-> [monthly |-> s.price.monthly, yearly |-> Round12(s.price.yearly)]]
Rows(m) == [i \in DOMAIN m.seatTypes |-> Row(m.seatTypes[i])]
Paying(rows) == {rows[i] : i \in {j \in DOMAIN rows : ~rows[j].shared /\ ~rows[j].free}}

PriceKindOf(m) ==
    CASE m.sale = "quote" -> "quote"
      [] m.sale # "quote" /\ m.sells = "nothing" -> "free"
      [] OTHER -> m.sells

BasketTotal(m, interval) == PriceBasket(m, DefaultBasket(m), interval)

\* The figure plans are compared by: a month of the plan, or of its cheapest seat.
Headline(m, interval) ==
    LET seats == {r.perMonth[interval] : r \in Paying(Rows(m))}
    IN CASE PriceKindOf(m) = "quote" -> {}
         [] PriceKindOf(m) = "free" -> {0}
         [] PriceKindOf(m) = "flat" ->
                {IF interval = "yearly" THEN Round12(m.price.yearly) ELSE m.price.monthly}
         [] PriceKindOf(m) = "seats" -> {IF seats = {} THEN Infinite ELSE Least(seats)}

SoldBothWays(m) == BillingIntervals \subseteq m.intervals

\* (mutant of AnnualSaving) to the nearest percent.
AnnualSavingRounded(m) ==
    LET twelve == 12 * BasketTotal(m, "monthly")
        yearly == BasketTotal(m, "yearly")
    IN IF SoldBothWays(m) /\ twelve > 0 /\ yearly > 0
       THEN {((twelve - yearly) * 200 + twelve) \div (2 * twelve)} ELSE {}

\* Whole percents, floored.
AnnualSaving(m) ==
    LET twelve == 12 * BasketTotal(m, "monthly")
        yearly == BasketTotal(m, "yearly")
    IN IF SoldBothWays(m) /\ twelve > 0 /\ yearly > 0
       THEN {((twelve - yearly) * 100) \div twelve} ELSE {}

Alternate(m, interval) ==
    LET other == CHOOSE i \in BillingIntervals : i # interval
        total == BasketTotal(m, other)
    IN IF SoldBothWays(m) /\ PriceKindOf(m) \notin {"quote", "free"}
       THEN {[interval |-> other, total |-> total,
              perMonth |-> IF other = "yearly" THEN Round12(total) ELSE total]}
       ELSE {}

IncludedView(m) ==
    LET perSeat == IncludedIn(m, DefaultBasket(m))
        pool == PoolSizeOf(m, [total |-> 1, mix |-> <<>>])
    IN CASE pool # {} -> [credits |-> Or(pool, 0), scope |-> "pool"]
         [] pool = {} /\ perSeat > 0 -> [credits |-> perSeat, scope |-> "per_seat"]
         [] OTHER -> [credits |-> 0, scope |-> "none"]

\* The button: where one is already, not for this viewer, or by how the plan is sold.
CtaFor(m, opts) ==
    CASE m.key \in opts.current -> "current"
      [] m.key \notin opts.current /\ ~opts.manages -> "unavailable"
      [] OTHER -> CASE m.sale = "quote" -> "contact"
                    [] m.sale = "free" -> "signup"
                    [] m.sale = "legacy" -> "unavailable"
                    [] m.sale = "self_serve" -> "checkout"

View(m, opts) ==
    [key |-> m.key, sale |-> m.sale, kind |-> PriceKindOf(m), headline |-> Headline(m, opts.interval),
     rows |-> Rows(m), alternate |-> Alternate(m, opts.interval),
     totals |-> [i \in BillingIntervals |-> BasketTotal(m, i)],
     minSeats |-> m.minSeats, maxSeats |-> m.maxSeats, cta |-> CtaFor(m, opts), works |-> opts.manages,
     saving |-> AnnualSaving(m), members |-> m.members, included |-> IncludedView(m),
     intervals |-> m.intervals]

\* The plans of a grid; with upgradesOnly, none that ranks below the current one.
OnGrid(catalogue, m, opts) ==
    /\ opts.hidden \/ (~m.hidden /\ m.sale # "legacy")
    /\ opts.upgradesOnly => \A current \in UNION {PlanOf(catalogue, key) : key \in opts.current} :
                                PlanRank(m) >= PlanRank(current)

DerivePlanViews(catalogue, opts) ==
    {View(catalogue[i], opts) : i \in {j \in DOMAIN catalogue : OnGrid(catalogue, catalogue[j], opts)}}

DerivePlanView(catalogue, key, opts) ==
    {v \in DerivePlanViews(catalogue, [opts EXCEPT !.hidden = TRUE]) : v.key = key}

-----------------------------------------------------------------------------
(* Tables: a cell is a tick, a dash, a word or a figure. *)

No == [kind |-> "no"]
Yes == [kind |-> "yes"]
Word(w) == [kind |-> "word", of |-> w]
Figures(S) == [kind |-> "figures", of |-> S]

\* renderPlansMarkdown
MarkdownCell(v, column) ==
    LET seats == {r.total[column] : r \in Paying(v.rows)}
    IN CASE column = "members" -> IF v.members = {} THEN Word("unlimited") ELSE Figures(v.members)
         [] column = "included" -> IF v.included.credits = 0 THEN No ELSE Figures({v.included.credits})
         [] column = "seats" -> IF v.rows = <<>> THEN No ELSE Figures({v.rows[i].key : i \in DOMAIN v.rows})
         [] column \in BillingIntervals /\ v.sale = "quote" -> Word("contact us")
         [] column \in BillingIntervals /\ v.sale # "quote" /\ Paying(v.rows) # {} -> Figures(seats)
         [] OTHER -> IF v.totals[column] > 0 THEN Figures({v.totals[column]}) ELSE Word("free")

\* deriveCompareTable: what a row says of a plan, from the configuration when it
\* says so, else from the plans it lists, else from the value written for the plan.
FromPlan(v, source) ==
    LET named == {v.rows[i].key : i \in {j \in DOMAIN v.rows : ~v.rows[j].shared}}
    IN CASE source = "members" -> IF v.members = {} THEN Word("unlimited") ELSE Figures(v.members)
         [] source = "included" -> IF v.included.credits > 0 THEN Figures({v.included.credits}) ELSE No
         [] source = "price" -> CASE v.headline # {} -> Figures(v.headline)
                                  [] v.headline = {} /\ v.sale = "quote" -> Word("contact us")
                                  [] OTHER -> Word("free")
         [] source = "intervals" -> IF v.intervals = {} THEN No ELSE Figures(v.intervals)
         [] source = "seatTypes" -> IF named = {} THEN No ELSE Figures(named)

CompareCell(v, row) ==
    CASE row.from # {} -> FromPlan(v, CHOOSE s \in row.from : TRUE)
      [] row.from = {} /\ row.in # {} ->
            IF \E plans \in row.in : v.key \in plans THEN Yes ELSE No
      [] OTHER -> IF v.key \in DOMAIN row.values THEN row.values[v.key] ELSE No

\* renderRateCardMarkdown: one table per group, and what no group names in one of its own.
RateCard(tools, groups) ==
    LET grouped == UNION {groups[g] \cap tools : g \in DOMAIN groups}
    IN IF groups = <<>> THEN <<tools>>
       ELSE SelectSeq([g \in DOMAIN groups |-> groups[g] \cap tools] \o <<tools \ grouped>>,
                      LAMBDA S : S # {})

-----------------------------------------------------------------------------
(* What a page may be relied on for. catalogue is a sequence of plans. *)

\* A year costs at most what the card says is left of twelve months, and a seat
\* costs somebody the figure the card starts from.
AmountsAreTrue(m, v, interval) ==
    /\ \A s \in v.saving : 100 * v.totals["yearly"] <= (100 - s) * 12 * v.totals["monthly"]
    /\ m.sells = "seats" /\ v.sale # "quote" /\ Paying(v.rows) # {} =>
          \E r \in Paying(v.rows) : \A h \in v.headline :
             IF interval = "monthly" THEN h = r.total["monthly"]
             ELSE r.total["yearly"] - 6 <= 12 * h /\ 12 * h <= r.total["yearly"] + 6

\* No type, and no limit on members, has less room than the plan's smallest basket.
RoomForDefault(m) ==
    /\ AtMost(Seats(DefaultBasket(m)), m.maxSeats \cup m.members)
    /\ \A i \in DOMAIN m.seatTypes :
          AtMost(DefaultBasket(m)[m.seatTypes[i].key], m.seatTypes[i].max)

\* A button that sells leads to a basket the till takes.
ButtonSells(m, v) ==
    v.cta = "checkout" /\ RoomForDefault(m) =>
        \A i \in v.intervals : ValidateBasket(m, DefaultBasket(m), i, TRUE) = {}

\* The next plan up, as the ladder has it, is on the grid of moves up.
GridHasNextUp(catalogue, opts) ==
    \A up \in UpgradeTo(catalogue, opts.current) :
        \E v \in DerivePlanViews(catalogue, opts) :
            v.key = up /\ (opts.manages => v.cta \notin {"current", "unavailable"})

PageIsTrue(catalogue, opts) ==
    /\ \A m \in {catalogue[i] : i \in DOMAIN catalogue} :
          \A v \in DerivePlanView(catalogue, m.key, opts) :
             AmountsAreTrue(m, v, opts.interval) /\ ButtonSells(m, v)
    /\ opts.current \subseteq {catalogue[i].key : i \in Offered(catalogue)} => GridHasNextUp(catalogue, opts)
=============================================================================
