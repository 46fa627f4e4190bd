------------------------------- MODULE Tools -------------------------------
(***************************************************************************)
(* The tools a deployment registers for its catalogue (plan-model.ts,      *)
(* tools/register.ts) and what each answers a caller: its gate, and what   *)
(* it refuses before the operation behind it begins. No state; the         *)
(* operations are those of the other modules. The last part is the other   *)
(* door to some of them, the bound API of the application's own server.    *)
(*                                                                         *)
(* An organization o is on a plan, in the metadata (plan) and by its       *)
(* subscription (subPlan); blocked maps its members to the window that     *)
(* refuses them; room maps its seat types to whether one is free. x is     *)
(* what a call passes.                                                     *)
(***************************************************************************)
EXTENDS Gates

PlansOf(d) == Or(d.plans, <<>>)
ModelsOf(d) == {PlansOf(d)[i] : i \in DOMAIN PlansOf(d)}

\* planModel: none for a plan that is not known.
Models(d, plan) == UNION {PlanOf(PlansOf(d), key) : key \in plan}

\* Which plan an organization is on: the three readings of the tools.
PlanOfOrg(d, o) == IF d.resolves THEN o.plan ELSE o.subPlan
PlanFor(d, o) == IF d.resolves THEN o.plan ELSE IF o.subPlan # {} THEN o.subPlan ELSE d.default

PurchaseBounds(models) ==
    LET offers == UNION {m.replenish.purchase : m \in models}
    IN [min |-> Or(UNION {p.min : p \in offers}, 5), max |-> Or(UNION {p.max : p \in offers}, 200000)]

RequestBounds(models) ==
    LET offers == UNION {m.replenish.request : m \in models}
    IN [percent |-> Or(UNION {p.percent : p \in offers}, 25),
        maxPercent |-> Or(UNION {p.maxPercent : p \in offers}, 500)]

-----------------------------------------------------------------------------
(* What is registered. *)

AllToolCapabilities == {"purchase", "autoReload", "request", "seats", "lifecycle", "usage", "quote"}

ToolCapabilities(models) ==
    {group \in AllToolCapabilities : \E m \in models :
        CASE group = "purchase" -> m.replenish.purchase # {}
          [] group = "autoReload" -> m.replenish.autoReload # {}
          [] group = "request" -> m.replenish.request # {}
          [] group = "seats" -> m.sells = "seats"
          [] group = "lifecycle" -> m.sale = "self_serve"
          [] group = "usage" -> m.cap.kind # "wallet" \/ m.rate # <<>>
          [] group = "quote" -> m.sale = "quote"}

\* Without a catalogue every group; what the deployment says itself wins.
Caps(d) ==
    ((IF d.plans = {} THEN AllToolCapabilities ELSE ToolCapabilities(ModelsOf(d))) \cup d.on) \ d.off

If(condition, tools) == IF condition THEN tools ELSE {}

KeyTools == {"get_api_key", "create_api_key", "list_api_keys", "revoke_api_key"}
BillingTools(d) ==
    {"get_credit_balance", "get_spend_controls", "set_spend_controls", "get_billing_portal",
     "list_invoices", "view_invoice", "download_invoice"}
    \cup If("purchase" \in Caps(d), {"preview_credit_purchase", "buy_credits"})
    \cup If("autoReload" \in Caps(d), {"set_auto_reload"})
ManagementTools(d) ==
    {"get_usage"} \cup If("listMemberIds" \in d.adapter, {"get_org_usage"})
    \cup If("usage" \in Caps(d), {"get_usage_limits"})
    \cup If("metadata" \in d.adapter /\ "seats" \in Caps(d), {"list_seats", "assign_seat_type"})
    \cup If("metadata" \in d.adapter /\ "request" \in Caps(d),
            {"list_top_up_requests", "request_top_up", "approve_top_up", "grant_top_up", "deny_top_up"})
MemberTools(d) ==
    If({"listMembers", "listMemberIds"} \cap d.adapter # {}, {"list_members"})
    \cup If("invitations" \in d.has, {"invite_member", "list_invitations", "revoke_invitation"})
    \cup If("setMemberRole" \in d.adapter, {"change_member_role"})
    \cup If("removeMember" \in d.adapter, {"remove_member"})
WorkspaceTools(d) == {"close_workspace"} \cup If("renameOrg" \in d.adapter, {"rename_workspace"})
QuoteTools(d, operator) ==
    If("quote" \in Caps(d) /\ "metadata" \in d.adapter,
       {"accept_plan_quote"} \cup If(operator, OperatorTools))
ProfileTools ==
    {"get_billing_profile", "set_billing_profile", "set_tax_id",
     "list_payment_methods", "set_default_payment_method", "remove_payment_method"}
SubscriptionTools(d) ==
    {"get_plan", "request_plan_change", "resolve_plan_request"}
    \cup If("lifecycle" \in Caps(d), {"preview_plan_change", "change_plan", "cancel_plan"})
    \cup If("seats" \in Caps(d), {"request_seat_change"})

\* operator: whether the set built is the operator's (REST builds one, and hides).
RegisterBillingTools(d, operator) ==
    KeyTools \cup BillingTools(d) \cup ManagementTools(d) \cup MemberTools(d) \cup WorkspaceTools(d)
    \cup QuoteTools(d, operator) \cup If("profile" \in d.has, ProfileTools)
    \cup If(d.plans # {}, {"list_plans"} \cup If("subscription" \in d.has, SubscriptionTools(d)))

-----------------------------------------------------------------------------
(* Money. *)

Configured(d) == Unless("stripe" \in d.has, "no Stripe")
MayRead(d, c) == First(<<EnforceAccess(c), Configured(d)>>)
MayChange(d, c) == First(<<EnforceAdmin(d, c), Configured(d)>>)
Purchaser(d, c) == IF d.purchase = "member" THEN EnforceAccess(c) ELSE EnforceAdmin(d, c)

Between(n, bounds) == bounds.min <= n /\ n <= bounds.max

\* The schema serves every plan: the widest bounds of any.
Widest(d) ==
    LET bounds == {PurchaseBounds({m}) : m \in ModelsOf(d)} \cup If(ModelsOf(d) = {}, {PurchaseBounds({})})
    IN [min |-> Least({b.min : b \in bounds}), max |-> -Least({-b.max : b \in bounds})]
WithinPlan(d, o, amount) == Unless(Between(amount, PurchaseBounds(Models(d, PlanFor(d, o)))), "outside the plan")

\* Reading the balance or the controls opens the account (customerId).
GetCreditBalance(d, c) == MayRead(d, c)
PreviewCreditPurchase(d, c, x) == First(<<Unless(Between(x.amount, Widest(d)), "invalid"), MayRead(d, c)>>)
BuyCredits(d, o, c, x) ==
    First(<<Unless(Between(x.amount, Widest(d)), "invalid"), Purchaser(d, c), Configured(d), WithinPlan(d, o, x.amount)>>)
SetAutoReload(d, c, x) ==
    First(<<Unless(x.reloadTo >= 1, "invalid"), Purchaser(d, c), Configured(d),
            Unless(x.reloadTo > x.threshold, "not above")>>)

\* The ceiling the meter enforces: the customer's own, else the deployment's.
GetSpendControls(d, o, c) ==
    [says |-> MayRead(d, c), limit |-> IF o.ceiling # {} THEN o.ceiling ELSE d.ceiling]

\* An absent field is left alone, 0 removes; a required ceiling only changes.
SetSpendControls(d, c, x) ==
    First(<<MayChange(d, c), Unless(x.limit # {} \/ x.alerts # {}, "nothing to change"),
            Unless((\A alerts \in x.alerts : alerts = {}) \/ "notify" \in d.has, "nobody to tell"),
            Unless(0 \in x.limit => "requiredCeiling" \notin d.has, "required")>>)

GetBillingPortal(d, o, c, x) ==
    First(<<MayRead(d, c), Unless(x.flow \in {"home", "payment_method_update"} \/ o.subscribed, "no subscription")>>)

\* No customer, no invoices; one that is not theirs is not found.
ListInvoices(d, o, c) == [says |-> MayRead(d, c), invoices |-> IF o.customer THEN o.invoices ELSE {}]
ViewInvoice(d, o, c, x) == First(<<MayRead(d, c), Unless(o.customer /\ x.invoice \in o.invoices, "not found")>>)
DownloadInvoice(d, o, c, x) == First(<<ViewInvoice(d, o, c, x), Unless(x.invoice \in o.printed, "no pdf")>>)

\* get_api_key mints for a verified address; the other three need a key in hand.
GetApiKey(x) == Unless(x.codeIsRight, "not verified")
UsesKeys(c, comes) == First(<<EnforceAccess(c), comes>>)

-----------------------------------------------------------------------------
(* What a member has left. o.seats assigns some members a seat; o.used is what a *)
(* member used in the window of each length.                                *)

Assigned(o, member) == IF member \in DOMAIN o.seats THEN {o.seats[member]} ELSE {}

\* Nobody assigned means the seat called "standard", whatever the plan's own default.
SeatDrawn(o, member) == Or(Assigned(o, member), "standard")

MeasuredAs(o, member) == [kind |-> "user", id |-> member, seat |-> SeatDrawn(o, member)]

UsageOf(o, caller) ==
    [query \in [scope : {"org", "user", "api", caller.id}, every : {Everies[i] : i \in DOMAIN Everies},
                start : {0}, included : BOOLEAN, wallet : BOOLEAN] |->
        IF query.scope = CallerScope(caller) /\ (query.included \/ query.wallet) THEN o.used[query.every] ELSE 0]

\* resolveAllowance and then topUpTargetOf: what refuses this caller now, if anything.
Refusing(o, models, caller) ==
    LET turn == [every \in {Everies[i] : i \in DOMAIN Everies} |-> 0]
        model == Or(models, Unplanned)
        cycle == CycleOf(model, o.bought)
    IN TopUpTargetOf(Limits(model, caller, 0, {}, cycle, turn),
                     OwnWindows(model, caller, SeatsFor(o.bought, 1), 0, cycle, turn), UsageOf(o, caller))

\* A filter by caller needs the kind: an id alone is not one.
GetUsage(d, c, x) == [says |-> MayRead(d, c), of |-> IF x.kind = {} THEN {} ELSE x.kind \cup x.id]

GetOrgUsage(d, o, c) ==
    [says |-> MayRead(d, c),
     members |-> IF d.plans = {} THEN {} ELSE {[id |-> m, seat |-> SeatDrawn(o, m)] : m \in o.members}]

\* The windows of a caller, and what to do when one refuses it: one of those that
\* apply on no seat, the caller's being named only to the summary. A role nobody
\* resolved is taken for an administrator's.
GetUsageLimits(d, o, c, caller) ==
    LET models == Models(d, PlanOfOrg(d, o))
        refusing == Refusing(o, models, [caller EXCEPT !.seat = ""])
        ask == NextUsageAsk(Or(models, Unplanned), refusing, {caller.seat}, PlansOf(d), PlanOfOrg(d, o))
    IN [says |-> MayRead(d, c),
        next |-> {[to |-> a.to, action |-> UsageAction(a.ask, \A p \in c.person : p.role # "other", d.purchase)] :
                      a \in IF d.plans = {} THEN {} ELSE ask}]

-----------------------------------------------------------------------------
(* Seats. *)

\* Sold by this plan; by any plan when the plan is not known.
SellsSeat(models, all, seat) ==
    LET known == UNION {SeatKeys(m) : m \in all}
    IN IF models # {} THEN \E m \in models : seat \in SeatKeys(m) ELSE known = {} \/ seat \in known

\* seatAssignable, whose counting is Membership's: o.room holds the seats with room.
SeatAssignable(o, models, seat) ==
    Unless(\A m \in models : m.sells = "seats" /\ seat \in SeatKeys(m) => seat \in o.room, "no room")

ListSeats(d, o, c) ==
    [says |-> EnforceAccess(c),
     ladder |-> UNION {SeatLadder(m) : m \in Models(d, PlanOfOrg(d, o))},
     top |-> {member \in DOMAIN o.seats :
                 \E m \in Models(d, PlanOfOrg(d, o)) : IsTopSeat(m, Assigned(o, member))}]

\* seat: none clears.
AssignSeatType(d, o, c, member, seat) ==
    LET models == Models(d, PlanOfOrg(d, o))
    IN First(<<EnforceAdmin(d, c), EnforceMember(d, o, member),
               Unless(\A s \in seat : SellsSeat(models, ModelsOf(d), s), "not sold"),
               Unless(\A s \in seat : SeatAssignable(o, models, s) = "ok", "no room")>>)

\* The same through the bound API, which knows no union of the plans.
BoundAssign(d, o, member, seat) ==
    LET models == Models(d, PlanOfOrg(d, o))
    IN First(<<EnforceMember(d, o, member),
               Unless(\A s \in seat, m \in models : s \in SeatKeys(m), "not sold"),
               Unless(\A s \in seat : SeatAssignable(o, models, s) = "ok", "no room")>>)

-----------------------------------------------------------------------------
(* Extra allowance. o.asks are the open asks: [by, kind, target, status].   *)

Pack(o, models, member) == UNION {PackSizeOf(m, SeatDrawn(o, member)) : m \in models}
Waits(o, member, kinds, status) ==
    {a \in o.asks : a.by = member /\ a.kind \in kinds /\ a.status \in status}

\* The window an ask or a grant is filed under.
FiledUnder(target) == Or({w.query.every : w \in {v \in target : v.role = "rate"}}, "cycle")
Share(o, models, member, target, percent) ==
    CreditsForPercent(Or({w.size : w \in target}, Or(Pack(o, models, member), 0)), percent)

\* requestExtraAllowance; seen is whether the usage could be read.
RequestExtra(d, o, member, amount, seen) ==
    LET models == Models(d, PlanOfOrg(d, o))
        refusing == IF seen THEN Refusing(o, models, MeasuredAs(o, member)) ELSE {}
        asked == Or(amount, Share(o, models, member, refusing, RequestBounds(models).percent))
        most == UNION {r.maxPerCycle : r \in UNION {m.replenish.request : m \in models}}
    IN First(<<Unless(\E m \in models : m.cap.kind = "per_seat", "not capped"),
               Unless(seen => refusing # {}, "not blocked"),
               Unless(Pack(o, models, member) # {}, "not capped"),
               Unless(asked > 0, "invalid amount"),
               Unless(\A a \in Waits(o, member, {"usage"}, {"pending"}) : a.target # FiledUnder(refusing), "waiting"),
               Unless(AtMost(o.granted + asked, most), "ceiling")>>)

\* grantExtraAllowance: neither a percentage nor an amount is no number.
GrantExtra(d, o, member, target, percent, amount) ==
    LET models == Models(d, PlanOfOrg(d, o))
        pack == Pack(o, models, member)
        given == amount \cup (IF amount = {} THEN {Share(o, models, member, target, p) : p \in percent} ELSE {})
    IN First(<<Unless(\E m \in models : m.cap.kind = "per_seat", "not capped"),
               Unless(pack # {}, "not capped"),
               Unless(given # {} /\ \A n \in given : n > 0, "invalid amount")>>)

\* An ask that already waits is no error.
Waiting(answer) == IF answer = "waiting" THEN "ok" ELSE answer

\* Anybody asks for themselves, an administrator for anybody; naming the cycle
\* files the ask unchecked.
RequestTopUp(d, o, c, member, x) ==
    First(<<EnforceAccess(c),
            Unless(\A p \in c.person :
                      \/ p.id = member \/ p.role = "admin"
                      \/ p.role = "unset" /\ ("isAdmin" \in d.adapter => p.really), "403"),
            EnforceMember(d, o, member),
            Unless(x.cycle # {} \/ d.plans # {}, "no plans"),
            IF x.cycle # {} THEN "ok" ELSE Waiting(RequestExtra(d, o, member, x.amount, TRUE))>>)
BoundRequestExtra(d, o, member, amount) == RequestExtra(d, o, member, amount, TRUE)

\* The caller's percentage is bounded by the plan, and the window is the cycle.
GrantTopUp(d, o, c, member, percent, amount) ==
    LET bounds == RequestBounds(Models(d, PlanOfOrg(d, o)))
    IN First(<<EnforceAdmin(d, c), EnforceMember(d, o, member), Unless(d.plans # {}, "no plans"),
               Unless(\A p \in percent : p <= bounds.maxPercent, "above the plan"),
               GrantExtra(d, o, member, {}, percent, amount)>>)
BoundGrantExtra(d, o, member, percent) ==
    First(<<EnforceMember(d, o, member),
            GrantExtra(d, o, member, Refusing(o, Models(d, PlanOfOrg(d, o)), MeasuredAs(o, member)), percent, {})>>)
BoundGrantable(d, o) == \E m \in Models(d, PlanOfOrg(d, o)) : m.cap.kind = "per_seat"

ListTopUpRequests(o, c) == [says |-> EnforceAccess(c), asks |-> {a \in o.asks : a.kind = "usage"}]
ApproveTopUp(d, c, comes) == First(<<EnforceAdmin(d, c), comes>>)
DenyTopUp(d, c, comes) == First(<<EnforceAdmin(d, c), comes>>)

-----------------------------------------------------------------------------
(* The subscription. The tools read the plan of the subscription alone (subPlan); *)
(* comes is what the operation itself answers (PlanChange, Membership, PlanAsks). *)

PreviewPlanChange(d, c, comes) == First(<<MayChange(d, c), comes>>)
ChangePlan(d, c, comes) == First(<<MayChange(d, c), comes>>)
CancelPlan(d, c, comes) == First(<<MayChange(d, c), comes>>)

\* A plan ask that came true is left out; a seat ask is for the caller to judge.
GetPlan(d, o, c) ==
    [says |-> EnforceAccess(c),
     up |-> UpgradeTo(PlansOf(d), o.subPlan), down |-> DowngradeTo(PlansOf(d), o.subPlan),
     cancel |-> CanCancel(PlansOf(d), o.subPlan),
     asks |-> {a \in o.asks : /\ a.kind \in {"plan", "seat"} /\ a.status = "pending"
                              /\ a.kind = "plan" => ~IsSatisfied(PlansOf(d), "plan", a.target, o.subPlan, {})}]

\* requestPlanChange: refused for the next ask while an unmet one waits.
AskPlan(d, o, by, plan, current) ==
    LET target == IF plan # {} THEN plan ELSE UpgradeTo(PlansOf(d), current)
        open == Waits(o, by, {"plan", "seat"}, {"pending", "quoted"})
        met(t, kind) == IsSatisfied(PlansOf(d), kind, t, current, {})
    IN First(<<Unless(target # {}, "no upgrade"),
               Unless(\A t \in target : PlanOf(PlansOf(d), t) # {}, "unknown"),
               Unless(\A t \in target : ~met(t, "plan"), "has it"),
               Unless(\A a \in open : met(a.target, a.kind), "waiting")>>)

\* requestSeatChange: by the seat assigned, none meaning the plan's own default.
AskSeat(d, o, by, seat, current) ==
    LET selling == {m \in Models(d, current) : m.sells = "seats"}
        held == Assigned(o, by)
        target == IF seat # {} THEN seat ELSE UNION {NextSeatUp(m, held) : m \in selling}
    IN First(<<Unless(selling # {} /\ target # {}, "no upgrade"),
               Unless(\A m \in selling : target \subseteq SeatKeys(m), "unknown"),
               Unless(\A m \in selling, t \in target : SeatRank(m, held) < SeatRank(m, {t}), "has it"),
               Unless(Waits(o, by, {"plan", "seat"}, {"pending"}) = {}, "waiting")>>)

\* Whoever asks is whom it is from; a key asks for the organization.
Asker(c) == Or({p.id : p \in c.person}, "org")
RequestPlanChange(d, o, c, plan) ==
    First(<<EnforceAccess(c), Waiting(AskPlan(d, o, Asker(c), plan, o.subPlan))>>)
RequestSeatChange(d, o, c, seat) ==
    First(<<EnforceAccess(c), Waiting(AskSeat(d, o, Asker(c), seat, o.subPlan))>>)
ResolvePlanRequest(d, c, comes) == First(<<EnforceAdmin(d, c), comes>>)

\* The same two through the bound API, and the rung it offers a member.
BoundAsk(d, o, member, plan) == AskPlan(d, o, member, plan, PlanOfOrg(d, o))
BoundAskSeat(d, o, member, seat) == AskSeat(d, o, member, seat, PlanOfOrg(d, o))
BoundNext(d, o, member, isAdmin) ==
    LET models == Models(d, PlanOfOrg(d, o))
        caller == MeasuredAs(o, member)
        ask == NextUsageAsk(Or(models, Unplanned), Refusing(o, models, caller), {caller.seat},
                            PlansOf(d), PlanOfOrg(d, o))
    IN {[rung |-> a.ask, to |-> a.to, action |-> UsageAction(a.ask, isAdmin, d.purchase)] : a \in ask}

-----------------------------------------------------------------------------
(* Members, the workspace, quotes and the billing profile. *)

ListMembers(c) == EnforceAccess(c)
InviteMember(d, c, comes) == First(<<EnforceAdmin(d, c), comes>>)
ListInvitations(c) == EnforceAccess(c)
RevokeInvitation(d, c, comes) == First(<<EnforceAdmin(d, c), comes>>)
ChangesMembers(d, c, comes) == First(<<EnforceAdmin(d, c), comes>>)
RenameWorkspace(d, c) == EnforceAdmin(d, c)

\* The tool keeps the workspace unless told otherwise.
CloseWorkspace(d, c, x, comes) == [says |-> First(<<EnforceAdmin(d, c), comes>>), deletes |-> TRUE \in x.delete]

\* x.expired: the price's own date has passed.
AcceptPlanQuote(d, o, c, x, sale) ==
    First(<<EnforceAdmin(d, c), Unless(\E a \in o.asks : a.status = "quoted", "not found"),
            Unless(~x.expired, "expired"), Unless(o.customer, "no account"), sale>>)
QuotePlanChange(d, c, comes) == First(<<EnforceOperator(d, c), comes>>)
SellCredits(d, o, c, sale) == First(<<EnforceOperator(d, c), Unless(o.customer, "no account"), sale>>)

GetBillingProfile(d, c) == MayRead(d, c)

\* Onto the address on file; a cleared line or country is missing.
SetBillingProfile(d, o, c, x) ==
    First(<<MayChange(d, c),
            Unless(x.address = {} \/ {"line1", "country"} \subseteq (o.address \cup UNION x.address) \ x.cleared,
                   "incomplete")>>)

\* A value without a type takes the European one, for a European address.
SetTaxId(d, o, c, x, comes) ==
    First(<<MayChange(d, c), Unless(x.value = {} \/ x.type # {} \/ o.european, "no type"), comes>>)
ListPaymentMethods(d, c) == MayRead(d, c)
ChangesCards(d, c, comes) == First(<<MayChange(d, c), comes>>)

-----------------------------------------------------------------------------
(* One call. member and to are whom and what it names; everything else is left *)
(* to its default, and the operation behind it succeeds.                     *)

AnswerOf(d, o, c, tool, member, to) ==
    LET least == PurchaseBounds(Models(d, PlanFor(d, o))).min
        plain == [cycle |-> {}, amount |-> {}]
    IN CASE tool \in {"get_api_key", "list_plans"} -> "ok"
         [] tool \in OperatorTools -> SellCredits(d, o, c, "ok")
         [] tool = "accept_plan_quote" -> AcceptPlanQuote(d, o, c, [expired |-> FALSE], "ok")
         [] tool = "buy_credits" -> BuyCredits(d, o, c, [amount |-> least])
         [] tool = "preview_credit_purchase" -> PreviewCreditPurchase(d, c, [amount |-> least])
         [] tool = "set_auto_reload" -> SetAutoReload(d, c, [reloadTo |-> 2, threshold |-> 1])
         [] tool = "set_spend_controls" -> SetSpendControls(d, c, [limit |-> {5}, alerts |-> {}])
         [] tool = "get_billing_portal" -> GetBillingPortal(d, o, c, [flow |-> "home"])
         [] tool = "view_invoice" -> ViewInvoice(d, o, c, [invoice |-> to])
         [] tool = "download_invoice" -> DownloadInvoice(d, o, c, [invoice |-> to])
         [] tool = "assign_seat_type" -> AssignSeatType(d, o, c, member, to)
         [] tool = "request_top_up" -> RequestTopUp(d, o, c, member, plain)
         [] tool = "grant_top_up" -> GrantTopUp(d, o, c, member, {25}, {})
         [] tool = "request_plan_change" -> RequestPlanChange(d, o, c, to)
         [] tool = "request_seat_change" -> RequestSeatChange(d, o, c, to)
         [] tool \in {"approve_top_up", "deny_top_up", "resolve_plan_request", "invite_member", "revoke_invitation",
                      "change_member_role", "remove_member", "rename_workspace", "close_workspace"} -> EnforceAdmin(d, c)
         [] tool \in {"preview_plan_change", "change_plan", "cancel_plan", "set_billing_profile", "set_tax_id",
                      "set_default_payment_method", "remove_payment_method"} -> MayChange(d, c)
         [] tool \in {"get_credit_balance", "get_spend_controls", "list_invoices", "get_usage", "get_org_usage",
                      "get_usage_limits", "get_billing_profile", "list_payment_methods"} -> MayRead(d, c)
         [] OTHER -> EnforceAccess(c)
Answer(d, o, c, tool, member, to) ==
    DispatchTool(RegisterBillingTools(d, TRUE), tool, TRUE, AnswerOf(d, o, c, tool, member, to))

-----------------------------------------------------------------------------
(* What the surfaces of deployments (ds) promise organizations (os). *)

As(member, role) ==
    [header |-> "key", key |-> "valid", resolved |-> FALSE, token |-> FALSE,
     person |-> {[id |-> member, role |-> role, really |-> role = "admin", operator |-> FALSE]}]

\* The readings of the tools and of the bound API of one organization.
OnePlan(d, o) == /\ {"metadata", "isAdmin", "listMemberIds"} \subseteq d.adapter
                 /\ {"stripe", "subscription"} \subseteq d.has
                 /\ d.off = {} /\ o.plan = o.subPlan

\* A rung whose sale the plan itself declares, for whom it is offered to.
Declared(d, o, m, member, rung, isAdmin) ==
    LET takesAsks == m.replenish.request # {} /\ m.cap.kind = "per_seat"
    IN /\ Assigned(o, member) = {} => DefaultSeatOf(m) \subseteq {"standard"}
       /\ CASE rung.rung = "seat" -> rung.to \subseteq o.room
            [] rung.rung = "credits" -> m.replenish.purchase # {} /\ (rung.action = "request_top_up" => takesAsks)
            [] rung.rung = "usage" -> takesAsks
            [] rung.rung = "plan" ->
                 isAdmin => \E p \in ModelsOf(d) : p.key \in rung.to /\ p.sale = "self_serve"

\* Whoever is refused is offered a call that is registered and takes them, or
\* tells them that the ceiling of such asks is reached.
AsksCanBeMade(d, o) ==
    OnePlan(d, o) =>
        \A member \in o.members, role \in {"admin", "other"}, m \in Models(d, o.plan) :
            \A rung \in BoundNext(d, o, member, role = "admin") :
                Declared(d, o, m, member, rung, role = "admin")
                => Answer(d, o, As(member, role), rung.action, member, rung.to) \in {"ok", "ceiling"}

\* The tool of an administrator and the bound API refuse alike.
DoorsAgree(d, o) ==
    OnePlan(d, o) =>
        \A member \in o.members \cup {"stranger"} :
            LET admin == As("owner", "admin") IN
            /\ \A m \in Models(d, o.plan) : \A seat \in {{}, {"gold"}} \cup {{s} : s \in SeatKeys(m)} :
                  AssignSeatType(d, o, admin, member, seat) = BoundAssign(d, o, member, seat)
            /\ d.plans # {} => GrantTopUp(d, o, admin, member, {25}, {}) = BoundGrantExtra(d, o, member, {25})
            /\ member # "stranger" /\ d.plans # {} =>
                  /\ RequestTopUp(d, o, As(member, "other"), member, [cycle |-> {}, amount |-> {}])
                        = Waiting(BoundRequestExtra(d, o, member, {}))
                  /\ RequestPlanChange(d, o, As(member, "other"), {}) = Waiting(BoundAsk(d, o, member, {}))
                  /\ RequestSeatChange(d, o, As(member, "other"), {}) = Waiting(BoundAskSeat(d, o, member, {}))
            /\ \A m \in Models(d, o.plan) : member \in o.members /\ SeatDrawn(o, member) \in SeatKeys(m) =>
                  (BoundGrantable(d, o) <=> GrantTopUp(d, o, admin, member, {25}, {}) # "not capped")

\* Nobody without a key is served, and a key that cannot be checked is not told
\* that it is wrong: what a tool answered over REST and over MCP.
TurnedAway(d, r, tool, rest, mcp) ==
    /\ "401" \in {rest, mcp} => r.header # "key" \/ r.key # "unchecked"
    /\ rest = "ok" => tool \in OperatorTools /\ EnforceOperator(d, RestCaller(r)) = "ok"
    /\ mcp = "ok" => ByOauth(d, r) \/ tool \in OperatorTools
StrangersGetNothing(d, o, requests) ==
    \A r \in {q \in requests : q.key # "valid" \/ q.header \notin {"key", "oauth"}} :
        \A tool \in RegisterBillingTools(d, TRUE) \ {"get_api_key", "list_plans"} :
            TurnedAway(d, r, tool, AnswerOf(d, o, RestCaller(r), tool, "owner", {}),
                       First(<<McpDoor(d, r, TRUE), AnswerOf(d, o, McpCaller(d, r, TRUE), tool, "owner", {})>>))

\* What is advertised to an operator takes them.
ListedIsOpen(d, r) ==
    ToolList(d, r, RegisterBillingTools(d, TRUE)) \cap OperatorTools # {} => EnforceOperator(d, RestCaller(r)) = "ok"

\* A caller known by its key is served what is free, what its wallet covers, and
\* what a settled payment beside the key buys ("a caller that settles it has its call
\* dispatched", routes/rest.ts:91-93), but where the meter says wait. Nobody else is
\* served; nobody pays for what is covered; and what a payment bought is spent on the
\* call it was made for. A payment in the place of the key is turned away before
\* it is looked at.
PaidIsServed(d, o, r, cost) ==
    LET free == cost = 0 \/ "stripe" \notin d.has \/ IsInternalOrg(d, o)
        known == r.header \in {"key", "oauth"} /\ r.key = "valid"
        buys(price) == /\ {"payment", "settle", "creditWallet"} \subseteq d.has
                       /\ r.xpayment /\ r.pays = "settled" /\ r.credits
                       /\ o.customer /\ o.credits + price >= cost
        fair(answer, price, waits) ==
            /\ known /\ ~waits /\ (free \/ (o.customer /\ o.credits >= cost) \/ buys(price)) => answer.status = 200
            /\ answer.status = 200 => OrgForRequest(r) /\ (free \/ o.credits + answer.credit >= cost)
            /\ answer.charged => HasCredential(r) /\ ~free /\ (o.customer => o.credits < cost)
            /\ answer.credit > 0 =>
                  answer.charged /\ (OrgForRequest(r) /\ o.credits + answer.credit >= cost => answer.status = 200)
    IN /\ fair(RestCall(d, o, r, cost), ChallengeFor(d, cost), FALSE)
       /\ fair(ApiGuard(d, o, r, cost), ChallengeFor(d, 0), o.paced)

SurfaceIsTrue(s) ==
    \A d \in s.ds, o \in s.os :
        /\ AsksCanBeMade(d, o) /\ DoorsAgree(d, o)
        /\ StrangersGetNothing(d, o, s.requests)
        /\ \A r \in s.requests : ListedIsOpen(d, r) /\ \A cost \in {0, 1, 6} : PaidIsServed(d, o, r, cost)
=============================================================================
