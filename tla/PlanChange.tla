----------------------------- MODULE PlanChange -----------------------------
(***************************************************************************)
(* changePlan on one customer's live subscription, the subscription as     *)
(* Stripe keeps it, and the organization's copy of it, which changePlan    *)
(* writes as well as the poller that handles customer.subscription.*.      *)
(*                                                                         *)
(* A call reads the subscription once, decides, and then makes the requests*)
(* that decision takes, one at a time; "todo" is what is left of them.     *)
(* Periods end, pending upgrades are paid and events are handled between   *)
(* any two requests.                                                       *)
(***************************************************************************)
EXTENDS Integers, Sequences

CONSTANTS
    Plans,        \* plan keys of the catalogue
    Free,         \* the free one
    Rank,         \* [Plans -> Nat], planRank
    MaxSeats,     \* bound: quantity of a basket
    Calls,        \* executions of changePlan
    Want,         \* [Calls -> Basket]
    Now,          \* the Calls with proration "invoice_now"
    Start,        \* the basket billed at the start
    Scenes,       \* the situations considered, see SceneType
    MaxPeriods    \* bound: paid periods that end

NoPlan == "none"

\* What a subscription bills: the prices of one plan and a quantity.
Basket   == [plan : Plans, seats : 0..MaxSeats]
FreePlan == [plan |-> Free, seats |-> 0]

FaultKinds == {"abandon", "boundary", "decline", "meta_early", "price", "redeliver"}

\* Which calls are made, whether each waits for the one before, and what fails.
SceneType == [calls : SUBSET Calls, serial : BOOLEAN, faults : SUBSET FaultKinds]

ASSUME PlanChangeAssumption ==
    /\ Free \in Plans /\ NoPlan \notin Plans
    /\ Rank \in [Plans -> Nat]
    /\ MaxSeats \in Nat
    /\ Want \in [Calls -> Basket]
    /\ Now \subseteq Calls
    /\ Start \in Basket /\ Start.plan # Free
    /\ Scenes \subseteq SceneType
    /\ MaxPeriods \in Nat

VARIABLES
    scene,        \* the situation, chosen once
    sub,          \* the subscription at Stripe
    answers,      \* what Stripe recorded under the changeKeys
    invoices,     \* proration invoices raised by "always_invoice"
    events,       \* subscription events the poller has yet to pass
    org,          \* the organization's metadata
    todo,         \* [Calls -> Seq(Requests)]
    seen,         \* [Calls -> Subscription] the one the call read
    entry,        \* [Calls -> Basket] what the call will record; 0 seats: none
    periods,      \* periods ended
    promised,     \* what the customer was last told the next period bills
    billed        \* every plan Stripe has billed

callVars == <<todo, seen, entry>>
vars == <<scene, sub, answers, invoices, events, org, callVars, periods, promised, billed>>

Faults == scene.faults
Serial == scene.serial

Requests == {"read", "resume", "release", "cancel", "schedule", "reschedule",
             "update", "record", "unfile", "file"}

\* items[0]'s id, metadata.plan, metadata.pending_plan, cancel_at_period_end, the
\* attached schedule's current and later phases, pending_update (at most one).
Subscription ==
    [live : BOOLEAN, bills : Basket, item : Nat, meta : Plans, noted : BOOLEAN,
     cancel : BOOLEAN, phases : Seq(Basket), held : SUBSET Basket]

Opened == [live |-> TRUE, bills |-> Start, item |-> 0, meta |-> Start.plan,
           noted |-> FALSE, cancel |-> FALSE, phases |-> <<>>, held |-> {}]

Billed == IF sub.live THEN sub.bills ELSE FreePlan

TypeOK ==
    /\ scene \in Scenes
    /\ sub \in Subscription
    /\ answers \subseteq [item : Nat, to : Basket, noted : BOOLEAN, applied : BOOLEAN]
    /\ invoices \in Nat
    /\ events \in Seq(Basket)
    /\ org \in [plan : Plans, seats : 0..MaxSeats, pending : Plans \cup {NoPlan}]
    /\ todo \in [Calls -> Seq(Requests)]
    /\ seen \in [Calls -> Subscription]
    /\ entry \in [Calls -> Basket]
    /\ periods \in 0..MaxPeriods
    /\ promised \in Basket
    /\ billed \subseteq Plans

Init ==
    /\ scene \in Scenes
    /\ sub = Opened
    /\ answers = {}
    /\ invoices = 0
    /\ events = <<>>
    /\ org = [plan |-> Start.plan, seats |-> Start.seats, pending |-> NoPlan]
    /\ todo = [c \in Calls |-> IF c \in scene.calls THEN <<"read">> ELSE <<>>]
    /\ seen = [c \in Calls |-> Opened]
    /\ entry = [c \in Calls |-> Start]
    /\ periods = 0
    /\ promised = Start
    /\ billed = {Free, Start.plan}

-----------------------------------------------------------------------------
(* Requests. *)

Asks(c, request) == todo[c] # <<>> /\ Head(todo[c]) = request

Onward(c) == todo' = [todo EXCEPT ![c] = Tail(@)]

\* The request changed the subscription: an event carries the new one.
Becomes(s) ==
    /\ sub' = s
    /\ events' = Append(events, IF s.live THEN s.bills ELSE FreePlan)
    /\ billed' = billed \cup {s.bills.plan}

\* New items for a new plan; a quantity is changed on the item that is there.
Billing(s, basket) ==
    [s EXCEPT !.bills = basket,
              !.item = IF basket.plan = s.bills.plan THEN @ ELSE @ + 1,
              !.held = {}]

\* "if (sub.schedule) await stripe.subscriptionSchedules.release(...)"
Releasing(s) == IF s.phases = <<>> THEN <<>> ELSE <<"release">>

\* (mutant of ResumeRequests: the pendingPlan the cancellation filed stays)
ResumeOnly == <<"resume", "record">>

ResumeRequests == <<"resume", "record", "unfile">>

\* The decision tree: the requests that move s to basket b.
Decision(s, b) ==
    CASE ~s.live /\ b.plan = Free -> <<"record">>
      [] ~s.live /\ b.plan # Free -> <<>>         \* a Checkout Session is opened
      [] s.live /\ s.cancel /\ s.meta = b.plan -> ResumeRequests
      [] s.live /\ s.cancel /\ s.meta # b.plan /\ b.plan = Free -> <<>>
      [] s.live /\ ~s.cancel /\ b.plan = Free -> Releasing(s) \o <<"cancel", "file">>
      [] OTHER ->
           IF s.bills = b
           THEN IF s.phases # <<>> THEN <<"release", "unfile">> ELSE <<"unfile", "record">>
           ELSE IF Rank[b.plan] < Rank[s.meta]
           THEN <<"schedule", "reschedule", "file">>
           ELSE IF s.phases = <<>> THEN <<"update">> ELSE Releasing(s) \o <<"unfile", "update">>

\* What a "record" of this decision writes: the target, or on a reconciling
\* no-op the plan of the metadata with the quantity of the items.
EntryFor(s, b) ==
    CASE ~s.live -> FreePlan
      [] s.live /\ s.cancel /\ s.meta = b.plan -> [plan |-> b.plan, seats |-> 0]
      [] OTHER -> [plan |-> s.meta, seats |-> s.bills.seats]

\* A call that changes nothing still answers that the customer is where asked.
Stays(s, b) ==
    /\ s.live
    /\ IF s.cancel THEN b.plan = Free \/ (s.bills = b /\ s.meta # b.plan) ELSE s.bills = b

Underway(c) == todo[c] \notin {<<>>, <<"read">>}
AllAnswered == \A c \in Calls : ~Underway(c)

Read(c) ==
    /\ Asks(c, "read")
    /\ Serial => \A d \in Calls : ~Underway(d)
    /\ seen' = [seen EXCEPT ![c] = sub]
    /\ todo' = [todo EXCEPT ![c] = Decision(sub, Want[c])]
    /\ entry' = [entry EXCEPT ![c] = EntryFor(sub, Want[c])]
    /\ promised' = IF Stays(sub, Want[c]) THEN Want[c] ELSE promised
    /\ UNCHANGED <<sub, answers, invoices, events, org, periods, billed>>

Resume(c) ==
    /\ Asks(c, "resume")
    /\ sub.live
    /\ Becomes([sub EXCEPT !.cancel = FALSE])
    /\ promised' = Want[c]
    /\ Onward(c)
    /\ UNCHANGED <<answers, invoices, org, seen, entry, periods>>

Release(c) ==
    /\ Asks(c, "release")
    /\ sub.live /\ sub.phases # <<>>
    /\ Becomes([sub EXCEPT !.phases = <<>>])
    /\ Onward(c)
    /\ UNCHANGED <<answers, invoices, org, seen, entry, periods, promised>>

\* Stripe refuses cancel_at_period_end while a schedule is attached.  The request
\* spreads the metadata the call read over what is there.
Cancel(c) ==
    /\ Asks(c, "cancel")
    /\ sub.live /\ sub.phases = <<>>
    /\ Becomes([sub EXCEPT !.cancel = TRUE, !.noted = TRUE, !.meta = seen[c].meta])
    /\ promised' = FreePlan
    /\ Onward(c)
    /\ UNCHANGED <<answers, invoices, org, seen, entry, periods>>

\* The schedule's id is in the subscription the call read; the schedule itself
\* is created or retrieved now.
Schedule(c) ==
    /\ Asks(c, "schedule")
    /\ sub.live
    /\ IF seen[c].phases # <<>>
       THEN /\ seen' = [seen EXCEPT ![c].phases = sub.phases]
            /\ UNCHANGED <<sub, events, billed>>
       ELSE /\ sub.phases = <<>>
            /\ Becomes([sub EXCEPT !.phases = <<sub.bills>>, !.cancel = FALSE])
            /\ seen' = [seen EXCEPT ![c].phases = <<sub.bills>>]
    /\ Onward(c)
    /\ UNCHANGED <<answers, invoices, org, entry, periods, promised>>

\* "phases[phases.length - 1]" is sent as the current phase, which Stripe
\* accepts only if it is; what it says of the items takes effect at once.
Reschedule(c) ==
    LET current == seen[c].phases[1] IN
    /\ Asks(c, "reschedule")
    /\ sub.live
    /\ Len(seen[c].phases) = 1
    /\ sub.phases # <<>>
    /\ Becomes([(IF sub.bills = current THEN sub ELSE Billing(sub, current))
                    EXCEPT !.phases = <<current, Want[c]>>])
    /\ promised' = Want[c]
    /\ Onward(c)
    /\ UNCHANGED <<answers, invoices, org, seen, entry, periods>>

-----------------------------------------------------------------------------
(* The immediate change, under changeKey. *)

\* The key holds the item and the quantity asked for; a plan change deletes the
\* item, so its key is new, while a quantity may come back to an old one.
KeyOf(c) == [item |-> seen[c].item, to |-> Want[c]]

Recorded(c) == {a \in answers : [item |-> a.item, to |-> a.to] = KeyOf(c)}

Answered(c, applied) ==
    [item |-> seen[c].item, to |-> Want[c], noted |-> seen[c].noted, applied |-> applied]

\* (mutant of OnAnswer: a change Stripe holds is reported as applied)
OnAnswerUpdated(c, applied) ==
    /\ entry' = [entry EXCEPT ![c] = Want[c]]
    /\ todo' = [todo EXCEPT ![c] = <<"record", "unfile">>]

\* "if (updated.pending_update)": filed, and the plan in force is left alone.
OnAnswer(c, applied) ==
    IF applied
    THEN /\ entry' = [entry EXCEPT ![c] = Want[c]]
         /\ todo' = [todo EXCEPT ![c] = <<"record", "unfile">>]
    ELSE /\ todo' = [todo EXCEPT ![c] = <<"file">>]
         /\ UNCHANGED entry

Raised(c) == IF c \in Now THEN invoices + 1 ELSE invoices

\* (mutant of FirstUse: the key holds the moment of the request too)
FirstUseAlways(c) == TRUE

\* The first request under its key; the item it names must still be there.
FirstUse(c) == Recorded(c) = {}

UpdateApplies(c) ==
    /\ Asks(c, "update")
    /\ FirstUse(c)
    /\ sub.live /\ sub.item = seen[c].item
    /\ Becomes([Billing(sub, Want[c]) EXCEPT !.meta = Want[c].plan,
                                             !.noted = @ \/ seen[c].noted])
    /\ answers' = answers \cup {Answered(c, TRUE)}
    /\ invoices' = Raised(c)
    /\ OnAnswer(c, TRUE)
    /\ promised' = Want[c]
    /\ UNCHANGED <<org, seen, periods>>

\* The proration invoice is not paid: "pending_if_incomplete" holds the items.
\* Whether Stripe holds the metadata of such a request too is not documented.
UpdateHeld(c) ==
    /\ Asks(c, "update")
    /\ "decline" \in Faults /\ c \in Now
    /\ FirstUse(c)
    /\ sub.live /\ sub.item = seen[c].item
    /\ Becomes([sub EXCEPT !.held = {Want[c]},
                           !.meta = IF "meta_early" \in Faults THEN Want[c].plan ELSE @])
    /\ answers' = answers \cup {Answered(c, FALSE)}
    /\ invoices' = Raised(c)
    /\ OnAnswer(c, FALSE)
    /\ UNCHANGED <<org, seen, periods, promised>>

\* The same request under a used key: Stripe answers what it answered before.
UpdateReplayed(c) ==
    /\ Asks(c, "update")
    /\ \E a \in Recorded(c) :
        /\ a.noted = seen[c].noted
        /\ OnAnswer(c, a.applied)
        /\ promised' = IF a.applied THEN Want[c] ELSE promised
    /\ UNCHANGED <<sub, answers, invoices, events, org, seen, periods, billed>>

-----------------------------------------------------------------------------
(* The organization's copy. *)

\* adapter.setSubscription; a quantity that is not given is left as it was.
Record(c) ==
    /\ Asks(c, "record")
    /\ org' = [org EXCEPT !.plan = entry[c].plan,
                          !.seats = IF entry[c].seats = 0 THEN @ ELSE entry[c].seats]
    /\ Onward(c)
    /\ UNCHANGED <<sub, answers, invoices, events, seen, entry, periods, promised, billed>>

\* adapter.setOrgMetadata: pendingPlan is cleared, or names the target.
FilePending(c) ==
    /\ \/ /\ Asks(c, "unfile")
          /\ org' = [org EXCEPT !.pending = NoPlan]
       \/ /\ Asks(c, "file")
          /\ org' = [org EXCEPT !.pending = Want[c].plan]
    /\ Onward(c)
    /\ UNCHANGED <<sub, answers, invoices, events, seen, entry, periods, promised, billed>>

\* Stripe (or the organization's store) refuses the request a call is at.
Refused(c) ==
    \/ Asks(c, "resume") /\ ~sub.live
    \/ Asks(c, "release") /\ (~sub.live \/ sub.phases = <<>>)
    \/ Asks(c, "cancel") /\ (~sub.live \/ sub.phases # <<>>)
    \/ Asks(c, "schedule") /\ (~sub.live \/ (seen[c].phases = <<>> /\ sub.phases # <<>>))
    \/ Asks(c, "reschedule") /\ (~sub.live \/ Len(seen[c].phases) # 1 \/ sub.phases = <<>>)
    \/ /\ Asks(c, "update")
       /\ IF Recorded(c) = {} THEN ~sub.live \/ sub.item # seen[c].item
          ELSE \A a \in Recorded(c) : a.noted # seen[c].noted

\* A request that throws, or a process that dies, ends the call where it is.
Throws(c) ==
    /\ todo[c] # <<>>
    /\ Refused(c) \/ "abandon" \in Faults
    /\ todo' = [todo EXCEPT ![c] = <<>>]
    /\ UNCHANGED <<sub, answers, invoices, events, org, seen, entry, periods, promised, billed>>

Step(c) ==
    \/ Read(c)
    \/ Resume(c)
    \/ Release(c)
    \/ Cancel(c)
    \/ Schedule(c)
    \/ Reschedule(c)
    \/ UpdateApplies(c)
    \/ UpdateHeld(c)
    \/ UpdateReplayed(c)
    \/ Record(c)
    \/ FilePending(c)
    \/ Throws(c)

\* (mutant of Mirrors: a canceled subscription's event is passed over)
MirrorsLive(e) == IF e = FreePlan THEN org ELSE [org EXCEPT !.plan = e.plan, !.seats = e.seats]

\* The handler writes what the event carries.  "deleted" clears the plan only;
\* a price that cannot be read leaves it as it was.
Mirrors(e) ==
    IF e = FreePlan THEN [org EXCEPT !.plan = Free]
    ELSE [org EXCEPT !.plan = e.plan, !.seats = e.seats]

HandleEvent ==
    /\ events # <<>>
    /\ \/ org' = Mirrors(Head(events))
       \/ /\ "price" \in Faults
          /\ org' = [Mirrors(Head(events)) EXCEPT !.plan = org.plan]
    /\ events' = Tail(events)
    /\ UNCHANGED <<sub, answers, invoices, callVars, periods, promised, billed>>

\* A sweep that dies before its cursor is stored handles the event again.
Redelivered ==
    /\ "redeliver" \in Faults
    /\ events # <<>>
    /\ org' = Mirrors(Head(events))
    /\ UNCHANGED <<sub, answers, invoices, events, callVars, periods, promised, billed>>

\* The paid period ends: cancelled, the next phase, the schedule's end, renewal.
PeriodEnds ==
    /\ sub.live
    /\ AllAnswered \/ "boundary" \in Faults
    /\ periods < MaxPeriods
    /\ periods' = periods + 1
    /\ Becomes(IF sub.cancel THEN [sub EXCEPT !.live = FALSE, !.phases = <<>>, !.held = {}]
               ELSE IF Len(sub.phases) = 2
               THEN [Billing(sub, sub.phases[2]) EXCEPT !.phases = <<sub.phases[2]>>]
               ELSE [sub EXCEPT !.phases = <<>>])
    /\ UNCHANGED <<answers, invoices, org, callVars, promised>>

\* The customer pays the invoice of a pending update, or lets it expire.
PendingEnds ==
    \E b \in sub.held :
        /\ sub.live
        /\ \/ /\ Becomes([Billing(sub, b) EXCEPT !.meta = b.plan])
              /\ promised' = b
           \/ /\ Becomes([sub EXCEPT !.held = {}])
              /\ UNCHANGED promised
        /\ UNCHANGED <<answers, invoices, org, callVars, periods>>

\* Every call has answered and every event is handled.
Finished ==
    /\ \A c \in Calls : todo[c] = <<>>
    /\ events = <<>>
    /\ UNCHANGED vars

Next ==
    /\ \/ \E c \in Calls : Step(c)
       \/ HandleEvent
       \/ Redelivered
       \/ PeriodEnds
       \/ PendingEnds
       \/ Finished
    /\ UNCHANGED scene

Spec == Init /\ [][Next]_vars

\* A call is a chain of awaited requests, and the poller's interval keeps
\* sweeping (see EventPoll); customers and periods owe nothing.
FairSpec ==
    /\ Spec
    /\ \A c \in Calls : WF_vars(Step(c) /\ UNCHANGED scene)
    /\ WF_vars(HandleEvent /\ UNCHANGED scene)

-----------------------------------------------------------------------------
(* Properties. *)

\* What the next period will bill.
Due ==
    CASE ~sub.live \/ sub.cancel -> FreePlan
      [] sub.live /\ ~sub.cancel /\ Len(sub.phases) = 2 -> sub.phases[2]
      [] OTHER -> sub.bills

\* Calls that wait for one another, are not repeated, and do not mix a
\* cancellation with another move; nothing fails, no period ends during a call.
Orderly ==
    /\ Serial
    /\ Faults \subseteq {"redeliver"}
    /\ \A c, d \in scene.calls : c # d => Want[c] # Want[d]
    /\ \/ \A c \in scene.calls : Want[c].plan # Free
       \/ \A c \in scene.calls : Want[c] \in {FreePlan, Start}

\* The organization is never on a plan Stripe has not billed it for: not for a
\* declined upgrade, a replayed answer or a late record ("granted a tier the
\* customer had not paid for", subscription.ts:674-676).  It takes Stripe to hold
\* a pending change's metadata with its items: the no-op branch reads the plan
\* in force from there.
GrantedWasBilled == "meta_early" \notin Faults => org.plan \in billed

\* An upgrade that was answered "updated" is not undone at the period's end, a
\* downgrade or cancellation called off does not happen, and one that was
\* answered "scheduled" does (subscription.ts:603-615).
DueIsPromised == Orderly /\ AllAnswered => Due = promised

\* ... the same of any calls that follow one another, nothing failing: "a
\* customer who ... PAID to go back up was silently dropped ... at the period end".
UpgradeOutlivesPeriod == AllAnswered => Due = promised

\* pendingPlan tells of a move that is really waiting, until the period ends:
\* "calling the cancellation off has to UNFILE it" (subscription.ts:440-443).
PendingIsWaiting ==
    Orderly /\ AllAnswered /\ periods = 0 => (org.pending # NoPlan <=> Due # Billed)

\* What a customer was told of their plan, the schedule and pendingPlan agree on.
PlanStands == DueIsPromised /\ PendingIsWaiting

\* "a double-clicked Confirm ... is a no-op rather than a second proration
\* invoice" (subscription.ts:664-668), however the two interleave and fail.
OneInvoice == (\A c, d \in scene.calls : Want[c] = Want[d]) => invoices <= 1

\* The metadata names the plan that is billed: a scheduled phase that begins
\* does not change it.
MetaFresh == sub.live => sub.meta = sub.bills.plan

Mirrored ==
    /\ org.plan = Billed.plan
    /\ sub.live => org.seats = sub.bills.seats

\* The organization's copy ends up as Stripe's subscription, whichever calls died
\* before recording and however often an event is handled (sync.ts:149-153).
MirrorSettles ==
    Serial /\ Faults \subseteq {"abandon", "redeliver"} /\ []MetaFresh => <>[]Mirrored
=============================================================================
