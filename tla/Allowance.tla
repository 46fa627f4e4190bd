------------------------------ MODULE Allowance ------------------------------
(***************************************************************************)
(* What a metered call may draw on: the windows that apply to its caller,  *)
(* the question each of them asks the usage ledger, and which of them, if  *)
(* any, pays. No state: allowance.ts says of fundingFor "PURE: no Stripe,  *)
(* no adapter, no clock".                                                  *)
(*                                                                         *)
(* A window is read per scope: "org", a kind of caller, or one caller's id.*)
(* Its size is the bare figure; extra is what an administrator granted on  *)
(* top (the source folds it into the size of a rate window, and reports it *)
(* beside the size of a pack).                                             *)
(***************************************************************************)
EXTENDS PlanModel

Everies == <<"hour", "day", "week", "month", "cycle">>
OrderOf(every) == CHOOSE i \in DOMAIN Everies : Everies[i] = every

\* Every scope one event counts toward.
ScopesFor(caller) == {"org", caller.kind, caller.id}

\* An api caller is measured over the whole kind, a member alone.
CallerScope(caller) == IF caller.kind = "api" THEN "api" ELSE caller.id

\* Which of the two legs, the meter and the debits, a window of this caller can hold.
Sources(model, caller) ==
    [included |-> model.cap.kind # "wallet" /\ CapCovers(model, caller),
     wallet |-> ExhaustedPolicy(model, caller) = "wallet"]
BothSources == [included |-> TRUE, wallet |-> TRUE]

\* How many seats size a pool: those bought, else the members, else one.
SeatsFor(bought, members) ==
    [total |-> IF \E s \in bought : s.total > 0 THEN (CHOOSE s \in bought : TRUE).total
               ELSE Larger(1, members),
     mix |-> Or({s.mix : s \in bought}, <<>>)]

LimitScope(limit, caller) ==
    CASE limit.scope = "caller" -> CallerScope(caller)
      [] limit.scope = "org" /\ limit.callerKind # {} -> Or(limit.callerKind, "org")
      [] OTHER -> "org"

LimitSources(model, limit, caller) ==
    CASE limit.covers = "included" ->
            [included |-> Sources(model, caller).included, wallet |-> FALSE]
      [] limit.covers # "included" /\ (limit.scope = "caller" \/ limit.callerKind # {}) ->
            Sources(model, caller)
      [] OTHER -> BothSources

\* The cycle is the subscription's period; the calendar month when the plan asks
\* for it, when no window of the plan needs the period, or when it is not known.
CycleOf(model, bought) ==
    LET capped == model.cap.kind # "wallet"
        needed == capped \/ \E i \in DOMAIN model.rate : model.rate[i].every = "cycle"
    IN IF bought = {} \/ ~needed \/ (capped /\ model.cap.window = "month")
       THEN "month" ELSE "cycle"

\* turn[every] stands for the start of the current window of that length.
Ask(scope, every, sources, turn) ==
    [scope |-> scope, every |-> every, start |-> turn[every],
     included |-> sources.included, wallet |-> sources.wallet]

RateWindow(model, limit, caller, extra, cycle, turn) ==
    LET every == IF limit.every = "cycle" THEN cycle ELSE limit.every
    IN [role |-> "rate", scope |-> limit.scope, size |-> limit.credits, covers |-> limit.covers,
        extra |-> IF limit.scope = "caller" /\ caller.kind = "user" THEN extra ELSE 0,
        query |-> Ask(LimitScope(limit, caller), every, LimitSources(model, limit, caller), turn)]

\* The customer's own ceiling: a calendar month of the whole organization.
SpendWindows(ceiling, turn) ==
    {[role |-> "spend", scope |-> "org", size |-> n, covers |-> "all", extra |-> 0,
      query |-> Ask("org", "month", BothSources, turn)] : n \in {m \in ceiling : m > 0}}

\* Every limit of a caller: the plan's in their order, then the customer's.
Limits(model, caller, extra, ceiling, cycle, turn) ==
    LET spend == SpendWindows(ceiling, turn)
    IN [i \in RateLimitsOf(model, caller) \cup {Len(model.rate) + 1 : w \in spend} |->
           IF i \in DOMAIN model.rate
           THEN RateWindow(model, model.rate[i], caller, extra, cycle, turn)
           ELSE CHOOSE w \in spend : TRUE]

\* The pool or the pack: a plan has one kind of cap.
OwnWindows(model, caller, seats, extra, cycle, turn) ==
    {[role |-> "pool", scope |-> "org", size |-> n, covers |-> "all", extra |-> 0,
      query |-> Ask("org", cycle, BothSources, turn)] : n \in PoolSizeOf(model, seats)}
    \cup
    {[role |-> "pack", scope |-> "caller", size |-> n, covers |-> "all",
      extra |-> IF caller.kind = "user" THEN extra ELSE 0,
      query |-> Ask(CallerScope(caller), cycle, Sources(model, caller), turn)]
        : n \in PackSizeOf(model, caller.seat)}

-----------------------------------------------------------------------------
(* The decision. limits are the windows by their place, own a set of at most one, *)
(* used maps the query of each window to the total it was answered.         *)

Remaining(window, used) == Larger(0, window.size + window.extra - used[window.query])

Paid(source) == [ok |-> TRUE, source |-> source, reason |-> "none"]
Denied(reason) == [ok |-> FALSE, source |-> "none", reason |-> reason]

\* Limits come first. An exhausted "included" one only bars the included
\* allowance when the wallet can pay; any other exhausted one refuses.
FundingFor(model, caller, limits, own, used, wallet, cost) ==
    LET overflows == ExhaustedPolicy(model, caller) = "wallet"
        payable == overflows /\ wallet >= cost
        short == {i \in DOMAIN limits : Remaining(limits[i], used) < cost}
        barring == {i \in short : limits[i].covers = "included" /\ payable}
        refusing == short \ barring
        usable == IF CapCovers(model, caller) /\ barring = {} THEN own ELSE {}
        paying == {w \in usable : Remaining(w, used) >= cost}
    IN CASE refusing # {} ->
                Denied(IF limits[Least(refusing)].role = "spend"
                       THEN "spend_limit_reached" ELSE "rate_limit_reached")
         [] refusing = {} /\ paying # {} -> Paid((CHOOSE w \in paying : TRUE).role)
         [] refusing = {} /\ paying = {} /\ usable # {} /\ ~overflows ->
                Denied(IF \E w \in usable : w.role = "pool"
                       THEN "pool_exhausted" ELSE "seat_allowance_reached")
         [] refusing = {} /\ paying = {} /\ (usable = {} \/ overflows) /\ wallet >= cost ->
                Paid("wallet")
         [] OTHER -> Denied("insufficient_balance")

\* Refusals that time lifts; money lifts the others.
Waitable(reason) == reason \in {"rate_limit_reached", "spend_limit_reached"}

\* The window a top-up has to raise: the shortest exhausted one of the caller's
\* own limits, else the pack, else none.
TopUpTargetOf(limits, own, used) ==
    LET blocked == {i \in DOMAIN limits : /\ limits[i].scope = "caller"
                                          /\ Remaining(limits[i], used) = 0}
        shortest == {i \in blocked : \A j \in blocked :
                        \/ OrderOf(limits[i].query.every) < OrderOf(limits[j].query.every)
                        \/ limits[i].query.every = limits[j].query.every /\ i <= j}
    IN IF blocked # {} THEN {limits[i] : i \in shortest}
       ELSE {w \in own : w.role = "pack" /\ Remaining(w, used) = 0}

-----------------------------------------------------------------------------
(* Thresholds. *)

\* Math.round of a non-negative share, kept within 0..100.
Percent(used, size) ==
    IF size <= 0 THEN 100 ELSE -Larger(-100, -((200 * used + size) \div (2 * size)))

\* The highest level reached of the allowance and of the customer's ceiling.
Crossings(limits, own, used, thresholds, alertCredits) ==
    LET At(window) ==
            CASE window.role = "spend" -> {t \in alertCredits : used[window.query] >= t}
              [] window.role \in {"pool", "pack"} ->
                    {t \in thresholds : Percent(used[window.query], window.size) >= t}
              [] OTHER -> {}
        windows == own \cup {limits[i] : i \in DOMAIN limits}
    IN {[key |-> w.role, level |-> CHOOSE t \in At(w) : \A s \in At(w) : s <= t]
           : w \in {v \in windows : v.size > 0 /\ At(v) # {}}}
=============================================================================
