----------------------------- MODULE MCMetering -----------------------------
(***************************************************************************)
(* Two callers. The plans are one per shape of allowance; each scene is a  *)
(* deployment: a plan, a ledger, whether reads are cached, what may fail.  *)
(***************************************************************************)
EXTENDS Metering

MCCalls == {"c1", "c2"}
MCCaller == [c1 |-> [kind |-> "user", seat |-> "standard", id |-> "ann"],
             c2 |-> [kind |-> "api", seat |-> "agents", id |-> "key"]]

Type(key, shared, included) ==
    [key |-> key, shared |-> shared, included |-> included, min |-> 0, max |-> {},
     price |-> [monthly |-> 1, yearly |-> 0]]
Capped(cap, rate) == NormalizePlan(
    [sells |-> "seats", sale |-> "self_serve",
     seatTypes |-> <<Type("standard", FALSE, 2), Type("agents", TRUE, 1)>>,
     intervals |-> {"monthly"}, price |-> <<>>, minSeats |-> 0, maxSeats |-> {}, seatsFixed |-> FALSE,
     grant |-> {}, cap |-> {cap}, members |-> {}, rate |-> rate])
Cap(kind, exhausted) == [PerSeatCap EXCEPT !.kind = kind, !.onExhausted = exhausted, !.credits = {2}]
Limit(every, scope, kinds, credits, covers) ==
    [every |-> every, scope |-> scope, callerKind |-> kinds, seat |-> {}, credits |-> credits,
     covers |-> covers]

MCPlans == [key \in {"pooled", "poolThenWallet", "packs", "poolOfPacks", "perSeatPool", "agentsPay",
                      "payAsYouGo"} |->
    CASE key = "pooled" -> Capped(Cap("pool", "block"), <<>>)
      [] key = "poolThenWallet" ->
            Capped(Cap("pool", "wallet"), <<Limit("month", "org", {}, 3, "included")>>)
      [] key = "packs" -> Capped(Cap("per_seat", "block"), <<Limit("month", "caller", {}, 1, "all")>>)
      [] key = "poolOfPacks" -> Capped([Cap("pool", "block") EXCEPT !.perSeat = "included"], <<>>)
      [] key = "perSeatPool" ->
            Capped([Cap("pool", "block") EXCEPT !.perSeat = "number", !.credits = {1}], <<>>)
      [] key = "agentsPay" -> Capped([Cap("per_seat", "wallet") EXCEPT !.covers = "users"],
                                     <<Limit("month", "caller", {"user"}, 2, "included")>>)
      [] key = "payAsYouGo" -> Unplanned]

Plain(key, ledger) ==
    [plan |-> key, ledger |-> ledger, metered |-> TRUE, ttl |-> 0, balance |-> 1,
     seats |-> {[total |-> 2, mix |-> <<>>]}, members |-> 1, extra |-> 0, ceiling |-> {},
     alertCredits |-> {}, buys |-> FALSE, turns |-> {}, uses |-> 4, others |-> {}, faults |-> {}]
MCMixes == {<<>>, [standard |-> 1, agents |-> 1]}
MCScenes ==
    {[Plain("pooled", "meter") EXCEPT !.turns = {"cycle"}],
     [Plain("poolThenWallet", "meter") EXCEPT !.buys = TRUE],
     [Plain("packs", "scopes") EXCEPT !.extra = 1],
     [Plain("agentsPay", "scopes") EXCEPT !.ttl = 2, !.uses = 2],
     [Plain("agentsPay", "scopes") EXCEPT !.turns = {"month"}],
     [Plain("perSeatPool", "scopes") EXCEPT !.uses = 3,
                                         !.faults = {"subscription", "scope", "record"}],
     [Plain("payAsYouGo", "meter") EXCEPT !.ceiling = {2}, !.alertCredits = {1, 2}, !.buys = TRUE],
     [Plain("payAsYouGo", "balance") EXCEPT !.faults = {"debit", "customer"}],
     [Plain("pooled", "meter") EXCEPT !.ttl = 1, !.uses = 2, !.others = {"payAsYouGo"}],
     [Plain("pooled", "meter") EXCEPT !.ttl = 1, !.uses = 2, !.faults = {"read"}],
     [Plain("packs", "scopes") EXCEPT !.ceiling = {1}, !.alertCredits = {1}, !.faults = {"claim"}],
     [Plain("poolOfPacks", "meter") EXCEPT !.seats = {[total |-> 2, mix |-> [standard |-> 1, agents |-> 1]]}],
     [Plain("packs", "meter") EXCEPT !.metered = FALSE]}
=============================================================================
