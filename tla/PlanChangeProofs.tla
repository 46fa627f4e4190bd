-------------------------- MODULE PlanChangeProofs --------------------------
(***************************************************************************)
(* What holds of plan changes for every catalogue, basket and set of       *)
(* calls, however they interleave and fail.                                *)
(***************************************************************************)
EXTENDS PlanChange, TLAPS

\* Everything that could ever be recorded as the organization's plan names a
\* plan Stripe has billed: the metadata, what calls read of it and mean to
\* record, the answers Stripe may replay and the events not yet handled.
OnlyBilled ==
    /\ Free \in billed
    /\ org.plan \in billed
    /\ sub.bills.plan \in billed
    /\ sub.meta \in billed
    /\ \A c \in Calls : seen[c].meta \in billed /\ entry[c].plan \in billed
    /\ \A a \in answers : a.applied => a.to.plan \in billed
    /\ \A i \in 1..Len(events) : events[i].plan \in billed

PlanInv == TypeOK /\ ("meta_early" \notin Faults => OnlyBilled)

USE DEF callVars

LEMMA FreePlanType == FreePlan \in Basket
  BY PlanChangeAssumption DEF FreePlan, Basket

LEMMA BillingType ==
    ASSUME NEW s \in Subscription, NEW b \in Basket
    PROVE  /\ Billing(s, b) \in Subscription
           /\ Billing(s, b).bills = b
           /\ Billing(s, b).meta = s.meta
<1> DEFINE id == IF b.plan = s.bills.plan THEN s.item ELSE s.item + 1
<1>1. id \in Nat
  BY DEF Subscription
<1> HIDE DEF id
<1>2. [s EXCEPT !.bills = b, !.item = id, !.held = {}] \in Subscription
  BY <1>1 DEF Subscription
<1>3. Billing(s, b) = [s EXCEPT !.bills = b, !.item = id, !.held = {}]
  BY DEF Billing, id
<1>4. Billing(s, b).bills = b /\ Billing(s, b).meta = s.meta
  BY <1>3 DEF Subscription
<1>5. QED
  BY <1>2, <1>3, <1>4

LEMMA DecisionType ==
    ASSUME NEW s \in Subscription, NEW b \in Basket
    PROVE  Decision(s, b) \in Seq(Requests)
<1>1. Releasing(s) \in Seq(Requests)
  <2>1. << >> \in Seq(Requests) /\ <<"release">> \in Seq(Requests)
    BY DEF Requests
  <2>2. QED
    BY <2>1, Zenon DEF Releasing
<1>2. /\ <<"cancel", "file">> \in Seq(Requests)
      /\ <<"unfile", "update">> \in Seq(Requests)
      /\ <<"record">> \in Seq(Requests)
      /\ <<"release", "unfile">> \in Seq(Requests)
      /\ <<"unfile", "record">> \in Seq(Requests)
      /\ <<"schedule", "reschedule", "file">> \in Seq(Requests)
      /\ <<"update">> \in Seq(Requests)
      /\ ResumeRequests \in Seq(Requests)
      /\ << >> \in Seq(Requests)
  BY DEF Requests, ResumeRequests
<1>3. /\ Releasing(s) \o <<"cancel", "file">> \in Seq(Requests)
      /\ Releasing(s) \o <<"unfile", "update">> \in Seq(Requests)
  BY <1>1, <1>2
<1>4. QED
  BY <1>2, <1>3, Zenon DEF Decision

LEMMA EntryType ==
    ASSUME NEW s \in Subscription, NEW b \in Basket
    PROVE  /\ EntryFor(s, b) \in Basket
           /\ EntryFor(s, b).plan \in {Free, s.meta}
  BY PlanChangeAssumption, FreePlanType DEF EntryFor, Subscription, Basket, FreePlan

LEMMA PlanInit == Init => PlanInv
<1> SUFFICES ASSUME Init PROVE PlanInv
  OBVIOUS
<1>1. Opened \in Subscription
  BY PlanChangeAssumption DEF Opened, Subscription, Basket
<1>2. Start.plan \in Plans /\ Start.seats \in 0..MaxSeats
  BY PlanChangeAssumption DEF Basket
<1>3. TypeOK
  <2>1. << >> \in Seq(Requests) /\ <<"read">> \in Seq(Requests)
    BY DEF Requests
  <2>2. todo \in [Calls -> Seq(Requests)]
    <3>1. todo = [c \in Calls |-> IF c \in scene.calls THEN <<"read">> ELSE << >>]
      BY DEF Init
    <3>2. QED
      BY <2>1, <3>1, Zenon
  <2>3. QED
    BY <1>1, <1>2, <2>2, PlanChangeAssumption DEF Init, TypeOK
<1>4. OnlyBilled
  BY DEF Init, OnlyBilled, Opened
<1>5. QED
  BY <1>3, <1>4 DEF PlanInv

-----------------------------------------------------------------------------
(* What the pieces of an action do. *)

LEMMA OnwardType ==
    ASSUME TypeOK, NEW c \in Calls, NEW r, Asks(c, r), Onward(c)
    PROVE  todo' \in [Calls -> Seq(Requests)]
<1>1. todo[c] \in Seq(Requests) /\ todo[c] # << >>
  BY DEF TypeOK, Asks
<1>2. Tail(todo[c]) \in Seq(Requests)
  BY <1>1
<1>3. QED
  BY <1>2 DEF Onward, TypeOK

\* A new subscription and its event, when its metadata names a billed plan.
LEMMA BecomesBilled ==
    ASSUME PlanInv, UNCHANGED scene, NEW s \in Subscription, Becomes(s),
           "meta_early" \notin Faults => s.meta \in billed \cup {s.bills.plan}
    PROVE  /\ sub' \in Subscription
           /\ events' \in Seq(Basket)
           /\ billed' \subseteq Plans
           /\ billed \subseteq billed'
           /\ "meta_early" \notin Faults =>
                 /\ sub'.bills.plan \in billed'
                 /\ sub'.meta \in billed'
                 /\ \A i \in 1..Len(events') : events'[i].plan \in billed'
<1> DEFINE e == IF s.live THEN s.bills ELSE FreePlan
<1>1. e \in Basket /\ s.bills.plan \in Plans
  BY FreePlanType DEF Subscription, Basket
<1>2. e.plan \in {s.bills.plan, Free}
  BY DEF FreePlan
<1>3. sub' = s /\ events' = Append(events, e) /\ billed' = billed \cup {s.bills.plan}
  BY DEF Becomes
<1> HIDE DEF e
<1>4. events \in Seq(Basket) /\ billed \subseteq Plans
  BY DEF PlanInv, TypeOK
<1>5. events' \in Seq(Basket) /\ billed' \subseteq Plans /\ billed \subseteq billed'
  BY <1>1, <1>3, <1>4
<1>6. ASSUME "meta_early" \notin Faults, NEW i \in 1..Len(events')
      PROVE  events'[i].plan \in billed'
  <2>1. \A j \in 1..Len(events) : events[j].plan \in billed
    BY <1>6 DEF PlanInv, OnlyBilled
  <2>2. Free \in billed
    BY <1>6 DEF PlanInv, OnlyBilled
  <2>3. Len(events') = Len(events) + 1 /\ Len(events) \in Nat
    BY <1>1, <1>3, <1>4
  <2>4. CASE i \in 1..Len(events)
    <3>1. events'[i] = events[i]
      BY <1>1, <1>3, <1>4, <2>4
    <3>2. QED
      BY <2>1, <2>4, <3>1, <1>5
  <2>5. CASE i = Len(events) + 1
    <3>1. events'[i] = e
      BY <1>1, <1>3, <1>4, <2>5
    <3>2. QED
      BY <1>2, <1>3, <2>2, <3>1
  <2>6. QED
    BY <2>3, <2>4, <2>5
<1>7. QED
  BY <1>3, <1>5, <1>6

\* The rest of a step that leaves the organization, the answers and what calls
\* mean to record alone.
LEMMA SubStep ==
    ASSUME PlanInv, UNCHANGED scene, NEW s \in Subscription, Becomes(s),
           "meta_early" \notin Faults => s.meta \in billed \cup {s.bills.plan},
           todo' \in [Calls -> Seq(Requests)],
           seen' \in [Calls -> Subscription],
           \A c \in Calls : seen'[c].meta = seen[c].meta,
           periods' \in 0..MaxPeriods, promised' \in Basket,
           UNCHANGED <<answers, invoices, org, entry>>
    PROVE  PlanInv'
<1>1. /\ sub' \in Subscription
      /\ events' \in Seq(Basket)
      /\ billed' \subseteq Plans
      /\ billed \subseteq billed'
      /\ "meta_early" \notin Faults =>
            /\ sub'.bills.plan \in billed'
            /\ sub'.meta \in billed'
            /\ \A i \in 1..Len(events') : events'[i].plan \in billed'
  BY BecomesBilled
<1>2. TypeOK'
  BY <1>1 DEF PlanInv, TypeOK
<1>3. ASSUME "meta_early" \notin Faults PROVE OnlyBilled'
  <2>1. OnlyBilled
    BY <1>3 DEF PlanInv
  <2>2. Free \in billed' /\ org'.plan \in billed'
    BY <1>1, <2>1 DEF OnlyBilled
  <2>3. \A c \in Calls : seen'[c].meta \in billed' /\ entry'[c].plan \in billed'
    BY <1>1, <2>1 DEF OnlyBilled
  <2>4. \A a \in answers' : a.applied => a.to.plan \in billed'
    BY <1>1, <2>1 DEF OnlyBilled
  <2>5. QED
    BY <1>1, <1>3, <2>2, <2>3, <2>4 DEF OnlyBilled
<1>4. QED
  BY <1>2, <1>3 DEF PlanInv, Faults

\* A step that changes neither the subscription nor what Stripe has recorded.
LEMMA QuietStep ==
    ASSUME PlanInv, UNCHANGED <<scene, sub, answers, invoices, seen, periods, billed>>,
           todo' \in [Calls -> Seq(Requests)],
           entry' \in [Calls -> Basket],
           events' \in Seq(Basket),
           promised' \in Basket,
           org' \in [plan : Plans, seats : 0..MaxSeats, pending : Plans \cup {NoPlan}],
           "meta_early" \notin Faults =>
                /\ org'.plan \in billed
                /\ \A c \in Calls : entry'[c].plan \in billed
                /\ \A i \in 1..Len(events') : events'[i].plan \in billed
    PROVE  PlanInv'
<1>1. TypeOK'
  BY DEF PlanInv, TypeOK
<1>2. ASSUME "meta_early" \notin Faults PROVE OnlyBilled'
  BY <1>2 DEF PlanInv, OnlyBilled
<1>3. QED
  BY <1>1, <1>2 DEF PlanInv, Faults

-----------------------------------------------------------------------------
(* One lemma for each action that needs more than those. *)

LEMMA ReadStep == ASSUME PlanInv, UNCHANGED scene, NEW c \in Calls, Read(c) PROVE PlanInv'
<1>1. sub \in Subscription /\ Want[c] \in Basket /\ promised \in Basket
  BY PlanChangeAssumption DEF PlanInv, TypeOK
<1>2. todo' \in [Calls -> Seq(Requests)]
  <2>1. Decision(sub, Want[c]) \in Seq(Requests)
    BY <1>1, DecisionType
  <2>2. QED
    BY <2>1 DEF Read, PlanInv, TypeOK
<1>3. EntryFor(sub, Want[c]) \in Basket /\ EntryFor(sub, Want[c]).plan \in {Free, sub.meta}
  BY <1>1, EntryType
<1>4. seen' \in [Calls -> Subscription] /\ entry' \in [Calls -> Basket]
  BY <1>1, <1>3 DEF Read, PlanInv, TypeOK
<1>5. promised' \in Basket
  BY <1>1 DEF Read
<1>6. TypeOK'
  BY <1>2, <1>4, <1>5 DEF Read, PlanInv, TypeOK
<1>7. ASSUME "meta_early" \notin Faults PROVE OnlyBilled'
  <2>1. OnlyBilled
    BY <1>7 DEF PlanInv
  <2>2. ASSUME NEW d \in Calls PROVE seen'[d].meta \in billed /\ entry'[d].plan \in billed
    <3>1. CASE d = c
      BY <1>3, <2>1, <3>1 DEF Read, OnlyBilled, PlanInv, TypeOK
    <3>2. CASE d # c
      BY <2>1, <3>2 DEF Read, OnlyBilled, PlanInv, TypeOK
    <3>3. QED
      BY <3>1, <3>2
  <2>3. QED
    BY <2>1, <2>2 DEF Read, OnlyBilled
<1>8. QED
  BY <1>6, <1>7 DEF PlanInv, Faults

LEMMA MoveStep ==
    ASSUME PlanInv, UNCHANGED scene, NEW c \in Calls,
           Resume(c) \/ Release(c) \/ Cancel(c)
    PROVE  PlanInv'
<1>1. /\ sub \in Subscription /\ Want[c] \in Basket /\ promised \in Basket
      /\ periods \in 0..MaxPeriods /\ seen \in [Calls -> Subscription]
      /\ FreePlan \in Basket
  BY PlanChangeAssumption, FreePlanType DEF PlanInv, TypeOK
<1>2. todo' \in [Calls -> Seq(Requests)]
  BY OnwardType DEF PlanInv, Resume, Release, Cancel
<1>3. "meta_early" \notin Faults => sub.meta \in billed /\ seen[c].meta \in billed
  BY DEF PlanInv, OnlyBilled
<1>4. promised' \in Basket
  BY <1>1 DEF Resume, Release, Cancel
<1>5. CASE Resume(c)
  <2>1. [sub EXCEPT !.cancel = FALSE] \in Subscription
        /\ [sub EXCEPT !.cancel = FALSE].meta = sub.meta
    BY <1>1 DEF Subscription
  <2>2. QED
    BY <1>1, <1>2, <1>3, <1>4, <1>5, <2>1, SubStep DEF Resume
<1>6. CASE Release(c)
  <2>1. [sub EXCEPT !.phases = << >>] \in Subscription
        /\ [sub EXCEPT !.phases = << >>].meta = sub.meta
    <3>1. << >> \in Seq(Basket)
      OBVIOUS
    <3>2. QED
      BY <1>1, <3>1 DEF Subscription
  <2>2. QED
    BY <1>1, <1>2, <1>3, <1>4, <1>6, <2>1, SubStep DEF Release
<1>7. CASE Cancel(c)
  <2> DEFINE t == [sub EXCEPT !.cancel = TRUE, !.noted = TRUE, !.meta = seen[c].meta]
  <2>1. t \in Subscription /\ t.meta = seen[c].meta
    BY <1>1 DEF Subscription
  <2>2. Becomes(t)
    BY <1>7 DEF Cancel
  <2> HIDE DEF t
  <2>3. QED
    BY <1>1, <1>2, <1>3, <1>4, <1>7, <2>1, <2>2, SubStep DEF Cancel
<1>8. QED
  BY <1>5, <1>6, <1>7

LEMMA ScheduleStep == ASSUME PlanInv, UNCHANGED scene, NEW c \in Calls, Schedule(c) PROVE PlanInv'
<1>1. /\ sub \in Subscription /\ promised \in Basket /\ periods \in 0..MaxPeriods
      /\ seen \in [Calls -> Subscription] /\ seen[c] \in Subscription
  BY DEF PlanInv, TypeOK
<1>2. todo' \in [Calls -> Seq(Requests)]
  BY OnwardType DEF PlanInv, Schedule
<1>3. sub.phases \in Seq(Basket) /\ <<sub.bills>> \in Seq(Basket)
  BY <1>1 DEF Subscription
<1>4. PICK ph \in Seq(Basket) : seen' = [seen EXCEPT ![c].phases = ph]
  <2>1. CASE seen[c].phases # << >>
    BY <1>3, <2>1, Zenon DEF Schedule
  <2>2. CASE seen[c].phases = << >>
    BY <1>3, <2>2, Zenon DEF Schedule
  <2>3. QED
    BY <2>1, <2>2
<1>5. seen' \in [Calls -> Subscription] /\ \A d \in Calls : seen'[d].meta = seen[d].meta
  <2>1. [seen[c] EXCEPT !.phases = ph] \in Subscription
        /\ [seen[c] EXCEPT !.phases = ph].meta = seen[c].meta
    BY <1>1, <1>4 DEF Subscription
  <2>2. seen' = [seen EXCEPT ![c] = [seen[c] EXCEPT !.phases = ph]]
    BY <1>4
  <2>3. QED
    BY <1>1, <2>1, <2>2
<1>6. CASE seen[c].phases # << >>
  <2>1. UNCHANGED <<sub, events, billed, answers, invoices, org, entry, periods, promised>>
    BY <1>6 DEF Schedule
  <2>2. TypeOK'
    BY <1>2, <1>5, <2>1 DEF PlanInv, TypeOK
  <2>3. "meta_early" \notin Faults => OnlyBilled'
    BY <1>5, <2>1 DEF PlanInv, OnlyBilled
  <2>4. QED
    BY <2>2, <2>3 DEF PlanInv, Faults
<1>7. CASE seen[c].phases = << >>
  <2> DEFINE t == [sub EXCEPT !.phases = <<sub.bills>>, !.cancel = FALSE]
  <2>1. t \in Subscription /\ t.meta = sub.meta
    BY <1>1, <1>3 DEF Subscription
  <2>2. Becomes(t)
    BY <1>7 DEF Schedule
  <2>3. "meta_early" \notin Faults => sub.meta \in billed
    BY DEF PlanInv, OnlyBilled
  <2>4. UNCHANGED <<answers, invoices, org, entry, periods, promised>>
    BY DEF Schedule
  <2> HIDE DEF t
  <2>5. QED
    BY <1>1, <1>2, <1>5, <2>1, <2>2, <2>3, <2>4, SubStep
<1>8. QED
  BY <1>6, <1>7

LEMMA RescheduleStep == ASSUME PlanInv, UNCHANGED scene, NEW c \in Calls, Reschedule(c) PROVE PlanInv'
<1> DEFINE current == seen[c].phases[1]
           r == IF sub.bills = current THEN sub ELSE Billing(sub, current)
           t == [r EXCEPT !.phases = <<current, Want[c]>>]
<1>1. /\ sub \in Subscription /\ periods \in 0..MaxPeriods /\ Want[c] \in Basket
      /\ seen \in [Calls -> Subscription] /\ seen[c].phases \in Seq(Basket)
      /\ Len(seen[c].phases) = 1
  BY PlanChangeAssumption DEF PlanInv, TypeOK, Subscription, Reschedule
<1>2. todo' \in [Calls -> Seq(Requests)]
  BY OnwardType DEF PlanInv, Reschedule
<1>3. current \in Basket
  BY <1>1
<1>4. Becomes(t) /\ promised' = Want[c] /\ UNCHANGED <<answers, invoices, org, seen, entry, periods>>
  BY DEF Reschedule
<1> HIDE DEF current
<1>5. r \in Subscription /\ r.meta = sub.meta
  BY <1>1, <1>3, BillingType
<1> HIDE DEF r
<1>6. <<current, Want[c]>> \in Seq(Basket)
  BY <1>1, <1>3
<1>7. t \in Subscription /\ t.meta = sub.meta
  BY <1>5, <1>6 DEF Subscription
<1>8. "meta_early" \notin Faults => sub.meta \in billed
  BY DEF PlanInv, OnlyBilled
<1> HIDE DEF t
<1>9. QED
  BY <1>1, <1>2, <1>4, <1>7, <1>8, SubStep

\* What a call does with an answer, whatever the answer.
LEMMA AnswerType ==
    ASSUME TypeOK, NEW c \in Calls, NEW applied \in BOOLEAN, OnAnswer(c, applied)
    PROVE  /\ todo' \in [Calls -> Seq(Requests)]
           /\ entry' \in [Calls -> Basket]
           /\ ~applied => entry' = entry
           /\ applied => entry' = [entry EXCEPT ![c] = Want[c]]
<1>1. Want[c] \in Basket /\ entry \in [Calls -> Basket] /\ todo \in [Calls -> Seq(Requests)]
  BY PlanChangeAssumption DEF TypeOK
<1>2. <<"record", "unfile">> \in Seq(Requests) /\ <<"file">> \in Seq(Requests)
  BY DEF Requests
<1>3. CASE applied
  BY <1>1, <1>2, <1>3 DEF OnAnswer
<1>4. CASE ~applied
  BY <1>1, <1>2, <1>4 DEF OnAnswer
<1>5. QED
  BY <1>3, <1>4

LEMMA AppliesStep == ASSUME PlanInv, UNCHANGED scene, NEW c \in Calls, UpdateApplies(c) PROVE PlanInv'
<1> DEFINE t == [Billing(sub, Want[c]) EXCEPT !.meta = Want[c].plan, !.noted = @ \/ seen[c].noted]
<1>1. /\ sub \in Subscription /\ Want[c] \in Basket /\ Want[c].plan \in Plans
      /\ seen[c] \in Subscription /\ seen[c].item \in Nat /\ seen[c].noted \in BOOLEAN
      /\ entry \in [Calls -> Basket]
  BY PlanChangeAssumption DEF PlanInv, TypeOK, Basket, Subscription
<1>2. Becomes(t) /\ promised' = Want[c] /\ UNCHANGED <<org, seen, periods>>
  BY DEF UpdateApplies
<1>3. t \in Subscription /\ t.meta = Want[c].plan /\ t.bills = Want[c]
  <2>1. Billing(sub, Want[c]) \in Subscription /\ Billing(sub, Want[c]).bills = Want[c]
    BY <1>1, BillingType
  <2>2. (Billing(sub, Want[c]).noted \/ seen[c].noted) \in BOOLEAN
    OBVIOUS
  <2>3. QED
    BY <1>1, <2>1, <2>2 DEF Subscription
<1> HIDE DEF t
<1>4. /\ sub' \in Subscription /\ events' \in Seq(Basket)
      /\ billed' \subseteq Plans /\ billed \subseteq billed'
      /\ "meta_early" \notin Faults =>
            /\ sub'.bills.plan \in billed'
            /\ sub'.meta \in billed'
            /\ \A i \in 1..Len(events') : events'[i].plan \in billed'
  BY <1>2, <1>3, BecomesBilled
<1>5. Want[c].plan \in billed'
  BY <1>2, <1>3 DEF Becomes
<1>6. /\ todo' \in [Calls -> Seq(Requests)] /\ entry' \in [Calls -> Basket]
      /\ entry' = [entry EXCEPT ![c] = Want[c]]
  BY AnswerType DEF PlanInv, UpdateApplies
<1>7. answers' = answers \cup {Answered(c, TRUE)} /\ invoices' = Raised(c)
  BY DEF UpdateApplies
<1>8. TypeOK'
  <2>1. invoices' \in Nat
    BY <1>7 DEF Raised, PlanInv, TypeOK
  <2>2. Answered(c, TRUE) \in [item : Nat, to : Basket, noted : BOOLEAN, applied : BOOLEAN]
    BY <1>1 DEF Answered
  <2>3. QED
    BY <1>1, <1>2, <1>4, <1>6, <1>7, <2>1, <2>2 DEF PlanInv, TypeOK
<1>9. ASSUME "meta_early" \notin Faults PROVE OnlyBilled'
  <2>1. OnlyBilled
    BY <1>9 DEF PlanInv
  <2>2. ASSUME NEW a \in answers', a.applied PROVE a.to.plan \in billed'
    <3>1. CASE a \in answers
      BY <1>4, <2>1, <2>2, <3>1 DEF OnlyBilled
    <3>2. CASE a = Answered(c, TRUE)
      BY <1>5, <3>2 DEF Answered
    <3>3. QED
      BY <1>7, <3>1, <3>2
  <2>3. ASSUME NEW d \in Calls PROVE seen'[d].meta \in billed' /\ entry'[d].plan \in billed'
    BY <1>1, <1>2, <1>4, <1>5, <1>6, <2>1 DEF OnlyBilled
  <2>4. Free \in billed' /\ org'.plan \in billed'
    BY <1>2, <1>4, <2>1 DEF OnlyBilled
  <2>5. QED
    BY <1>4, <1>9, <2>2, <2>3, <2>4 DEF OnlyBilled
<1>10. QED
  BY <1>8, <1>9 DEF PlanInv, Faults

LEMMA HeldStep == ASSUME PlanInv, UNCHANGED scene, NEW c \in Calls, UpdateHeld(c) PROVE PlanInv'
<1> DEFINE m == IF "meta_early" \in Faults THEN Want[c].plan ELSE sub.meta
           t == [sub EXCEPT !.held = {Want[c]}, !.meta = m]
<1>1. /\ sub \in Subscription /\ Want[c] \in Basket /\ Want[c].plan \in Plans
      /\ seen[c] \in Subscription /\ seen[c].item \in Nat /\ seen[c].noted \in BOOLEAN
      /\ sub.meta \in Plans
  BY PlanChangeAssumption DEF PlanInv, TypeOK, Basket, Subscription
<1>2. Becomes(t) /\ UNCHANGED <<org, seen, periods, promised>>
  BY DEF UpdateHeld
<1>3. m \in Plans /\ ("meta_early" \notin Faults => m = sub.meta)
  BY <1>1
<1> HIDE DEF m
<1>4. t \in Subscription /\ t.meta = m
  BY <1>1, <1>3 DEF Subscription
<1> HIDE DEF t
<1>5. "meta_early" \notin Faults => t.meta \in billed
  BY <1>3, <1>4 DEF PlanInv, OnlyBilled
<1>6. /\ sub' \in Subscription /\ events' \in Seq(Basket)
      /\ billed' \subseteq Plans /\ billed \subseteq billed'
      /\ "meta_early" \notin Faults =>
            /\ sub'.bills.plan \in billed'
            /\ sub'.meta \in billed'
            /\ \A i \in 1..Len(events') : events'[i].plan \in billed'
  BY <1>2, <1>4, <1>5, BecomesBilled
<1>7. todo' \in [Calls -> Seq(Requests)] /\ entry' = entry
  BY AnswerType DEF PlanInv, UpdateHeld
<1>8. answers' = answers \cup {Answered(c, FALSE)} /\ invoices' = Raised(c)
  BY DEF UpdateHeld
<1>9. TypeOK'
  <2>1. invoices' \in Nat
    BY <1>8 DEF Raised, PlanInv, TypeOK
  <2>2. Answered(c, FALSE) \in [item : Nat, to : Basket, noted : BOOLEAN, applied : BOOLEAN]
    BY <1>1 DEF Answered
  <2>3. QED
    BY <1>2, <1>6, <1>7, <1>8, <2>1, <2>2 DEF PlanInv, TypeOK
<1>10. ASSUME "meta_early" \notin Faults PROVE OnlyBilled'
  <2>1. OnlyBilled
    BY <1>10 DEF PlanInv
  <2>2. ASSUME NEW a \in answers', a.applied PROVE a.to.plan \in billed'
    <3>1. ~Answered(c, FALSE).applied
      BY DEF Answered
    <3>2. QED
      BY <1>6, <1>8, <2>1, <2>2, <3>1 DEF OnlyBilled
  <2>3. QED
    BY <1>2, <1>6, <1>7, <1>10, <2>1, <2>2 DEF OnlyBilled
<1>11. QED
  BY <1>9, <1>10 DEF PlanInv, Faults

\* A replayed answer says "applied" only of a change that was billed.
LEMMA ReplayedStep == ASSUME PlanInv, UNCHANGED scene, NEW c \in Calls, UpdateReplayed(c) PROVE PlanInv'
<1>1. PICK a \in Recorded(c) : /\ OnAnswer(c, a.applied)
                                /\ promised' = IF a.applied THEN Want[c] ELSE promised
  BY DEF UpdateReplayed
<1>2. a \in answers /\ a.to = Want[c]
  BY DEF Recorded, KeyOf
<1>3. a.applied \in BOOLEAN
  BY <1>2 DEF PlanInv, TypeOK
<1>4. /\ todo' \in [Calls -> Seq(Requests)]
      /\ entry' \in [Calls -> Basket]
      /\ ~a.applied => entry' = entry
      /\ a.applied => entry' = [entry EXCEPT ![c] = Want[c]]
  BY <1>1, <1>3, AnswerType DEF PlanInv
<1>5. promised' \in Basket
  BY <1>1, PlanChangeAssumption DEF PlanInv, TypeOK
<1>6. UNCHANGED <<sub, answers, invoices, events, org, seen, periods, billed>>
  BY DEF UpdateReplayed
<1>7. events' \in Seq(Basket) /\ org' \in [plan : Plans, seats : 0..MaxSeats, pending : Plans \cup {NoPlan}]
  BY <1>6 DEF PlanInv, TypeOK
<1>8. ASSUME "meta_early" \notin Faults
      PROVE  /\ org'.plan \in billed
             /\ \A d \in Calls : entry'[d].plan \in billed
             /\ \A i \in 1..Len(events') : events'[i].plan \in billed
  <2>1. OnlyBilled
    BY <1>8 DEF PlanInv
  <2>2. a.applied => Want[c].plan \in billed
    BY <1>2, <2>1 DEF OnlyBilled
  <2>3. \A d \in Calls : entry'[d].plan \in billed
    BY <1>3, <1>4, <2>1, <2>2 DEF OnlyBilled, PlanInv, TypeOK
  <2>4. QED
    BY <1>6, <2>1, <2>3 DEF OnlyBilled
<1>9. QED
  BY <1>4, <1>5, <1>6, <1>7, <1>8, QuietStep

LEMMA RecordStep ==
    ASSUME PlanInv, UNCHANGED scene, NEW c \in Calls, Record(c) \/ FilePending(c) \/ Throws(c)
    PROVE  PlanInv'
<1>1. /\ entry \in [Calls -> Basket] /\ entry[c].plan \in Plans /\ entry[c].seats \in 0..MaxSeats
      /\ org \in [plan : Plans, seats : 0..MaxSeats, pending : Plans \cup {NoPlan}]
      /\ Want[c].plan \in Plans /\ events \in Seq(Basket) /\ promised \in Basket
  BY PlanChangeAssumption DEF PlanInv, TypeOK, Basket
<1>2. UNCHANGED <<sub, answers, invoices, events, seen, entry, periods, promised, billed>>
  BY DEF Record, FilePending, Throws
<1>3. "meta_early" \notin Faults =>
            /\ \A d \in Calls : entry'[d].plan \in billed
            /\ \A i \in 1..Len(events') : events'[i].plan \in billed
            /\ org.plan \in billed
  BY <1>2 DEF PlanInv, OnlyBilled
<1>4. todo' \in [Calls -> Seq(Requests)]
  <2>1. CASE Record(c) \/ FilePending(c)
    BY <2>1, OnwardType DEF Record, FilePending, PlanInv
  <2>2. CASE Throws(c)
    <3>1. << >> \in Seq(Requests)
      OBVIOUS
    <3>2. QED
      BY <2>2, <3>1 DEF Throws, PlanInv, TypeOK
  <2>3. QED
    BY <2>1, <2>2
<1>5. /\ org' \in [plan : Plans, seats : 0..MaxSeats, pending : Plans \cup {NoPlan}]
      /\ org'.plan \in {org.plan, entry[c].plan}
  <2>1. CASE Record(c)
    BY <1>1, <2>1 DEF Record
  <2>2. CASE FilePending(c)
    BY <1>1, <2>2 DEF FilePending
  <2>3. CASE Throws(c)
    BY <1>1, <2>3 DEF Throws
  <2>4. QED
    BY <2>1, <2>2, <2>3
<1>6. "meta_early" \notin Faults => org'.plan \in billed
  BY <1>2, <1>3, <1>5
<1>7. QED
  BY <1>1, <1>2, <1>3, <1>4, <1>5, <1>6, QuietStep

LEMMA HandleStep == ASSUME PlanInv, UNCHANGED scene, HandleEvent \/ Redelivered PROVE PlanInv'
<1>1. /\ events \in Seq(Basket) /\ events # << >> /\ Free \in Plans /\ promised \in Basket
      /\ org \in [plan : Plans, seats : 0..MaxSeats, pending : Plans \cup {NoPlan}]
  BY PlanChangeAssumption DEF PlanInv, TypeOK, HandleEvent, Redelivered
<1>2. /\ Head(events) = events[1] /\ 1 \in 1..Len(events)
      /\ Head(events) \in Basket /\ Tail(events) \in Seq(Basket)
      /\ Len(Tail(events)) = Len(events) - 1 /\ Len(events) \in Nat
      /\ \A i \in 1..Len(Tail(events)) : Tail(events)[i] = events[i + 1]
  BY <1>1
<1> DEFINE e == Head(events)
<1>3. e.plan \in Plans /\ e.seats \in 0..MaxSeats
  BY <1>2 DEF Basket
<1>4. /\ Mirrors(e) \in [plan : Plans, seats : 0..MaxSeats, pending : Plans \cup {NoPlan}]
      /\ Mirrors(e).plan \in {Free, e.plan}
  BY <1>1, <1>3 DEF Mirrors
<1>5. /\ org' \in [plan : Plans, seats : 0..MaxSeats, pending : Plans \cup {NoPlan}]
      /\ org'.plan \in {Free, e.plan, org.plan}
  BY <1>1, <1>4 DEF HandleEvent, Redelivered
<1>6. events' \in {events, Tail(events)}
  BY DEF HandleEvent, Redelivered
<1>7. UNCHANGED <<sub, answers, invoices, todo, seen, entry, periods, promised, billed>>
  BY DEF HandleEvent, Redelivered
<1>8. ASSUME "meta_early" \notin Faults
      PROVE  /\ org'.plan \in billed
             /\ \A d \in Calls : entry'[d].plan \in billed
             /\ \A i \in 1..Len(events') : events'[i].plan \in billed
  <2>1. OnlyBilled
    BY <1>8 DEF PlanInv
  <2>2. e.plan \in billed
    BY <1>2, <2>1 DEF OnlyBilled
  <2>3. \A i \in 1..Len(Tail(events)) : Tail(events)[i].plan \in billed
    BY <1>2, <2>1 DEF OnlyBilled
  <2>4. QED
    BY <1>5, <1>6, <1>7, <2>1, <2>2, <2>3 DEF OnlyBilled
<1>9. todo' \in [Calls -> Seq(Requests)] /\ entry' \in [Calls -> Basket] /\ promised' \in Basket
  BY <1>7 DEF PlanInv, TypeOK
<1>10. events' \in Seq(Basket)
  BY <1>1, <1>2, <1>6
<1> HIDE DEF e
<1>11. QED
  BY <1>5, <1>7, <1>8, <1>9, <1>10, QuietStep

LEMMA PeriodStep == ASSUME PlanInv, UNCHANGED scene, PeriodEnds PROVE PlanInv'
<1> DEFINE t == IF sub.cancel THEN [sub EXCEPT !.live = FALSE, !.phases = << >>, !.held = {}]
                ELSE IF Len(sub.phases) = 2
                THEN [Billing(sub, sub.phases[2]) EXCEPT !.phases = <<sub.phases[2]>>]
                ELSE [sub EXCEPT !.phases = << >>]
<1>1. sub \in Subscription /\ sub.phases \in Seq(Basket) /\ << >> \in Seq(Basket)
  BY DEF PlanInv, TypeOK, Subscription
<1>2. t \in Subscription /\ t.meta = sub.meta
  <2>1. CASE sub.cancel
    BY <1>1, <2>1 DEF Subscription
  <2>2. CASE ~sub.cancel /\ Len(sub.phases) = 2
    <3>1. sub.phases[2] \in Basket /\ <<sub.phases[2]>> \in Seq(Basket)
      BY <1>1, <2>2
    <3>2. Billing(sub, sub.phases[2]) \in Subscription /\ Billing(sub, sub.phases[2]).meta = sub.meta
      BY <1>1, <3>1, BillingType
    <3>3. t = [Billing(sub, sub.phases[2]) EXCEPT !.phases = <<sub.phases[2]>>]
      BY <2>2
    <3>4. QED
      BY <3>1, <3>2, <3>3 DEF Subscription
  <2>3. CASE ~sub.cancel /\ Len(sub.phases) # 2
    BY <1>1, <2>3 DEF Subscription
  <2>4. QED
    BY <2>1, <2>2, <2>3
<1>3. Becomes(t) /\ UNCHANGED <<answers, invoices, org, todo, seen, entry, promised>>
  BY DEF PeriodEnds
<1> HIDE DEF t
<1>4. "meta_early" \notin Faults => sub.meta \in billed
  BY DEF PlanInv, OnlyBilled
<1>5. /\ todo' \in [Calls -> Seq(Requests)] /\ seen' \in [Calls -> Subscription]
      /\ \A c \in Calls : seen'[c].meta = seen[c].meta
      /\ periods' \in 0..MaxPeriods /\ promised' \in Basket
  BY <1>3, PlanChangeAssumption DEF PeriodEnds, PlanInv, TypeOK
<1>6. QED
  BY <1>2, <1>3, <1>4, <1>5, SubStep

LEMMA PendingStep == ASSUME PlanInv, UNCHANGED scene, PendingEnds PROVE PlanInv'
<1>1. PICK b \in sub.held :
        /\ \/ /\ Becomes([Billing(sub, b) EXCEPT !.meta = b.plan])
              /\ promised' = b
           \/ /\ Becomes([sub EXCEPT !.held = {}])
              /\ UNCHANGED promised
        /\ UNCHANGED <<answers, invoices, org, callVars, periods>>
  BY DEF PendingEnds
<1>2. sub \in Subscription /\ b \in Basket /\ b.plan \in Plans
  BY DEF PlanInv, TypeOK, Subscription, Basket
<1>3. /\ todo' \in [Calls -> Seq(Requests)] /\ seen' \in [Calls -> Subscription]
      /\ \A c \in Calls : seen'[c].meta = seen[c].meta
      /\ periods' \in 0..MaxPeriods /\ promised' \in Basket
      /\ UNCHANGED <<answers, invoices, org, entry>>
  BY <1>1, <1>2 DEF PlanInv, TypeOK
<1>4. CASE Becomes([Billing(sub, b) EXCEPT !.meta = b.plan])
  <2> DEFINE t == [Billing(sub, b) EXCEPT !.meta = b.plan]
  <2>1. Billing(sub, b) \in Subscription /\ Billing(sub, b).bills = b
    BY <1>2, BillingType
  <2>2. t \in Subscription /\ t.meta = b.plan /\ t.bills = b
    BY <1>2, <2>1 DEF Subscription
  <2>3. Becomes(t)
    BY <1>4
  <2> HIDE DEF t
  <2>4. QED
    BY <1>3, <2>2, <2>3, SubStep
<1>5. CASE Becomes([sub EXCEPT !.held = {}])
  <2>1. [sub EXCEPT !.held = {}] \in Subscription /\ [sub EXCEPT !.held = {}].meta = sub.meta
    BY <1>2 DEF Subscription
  <2>2. "meta_early" \notin Faults => sub.meta \in billed
    BY DEF PlanInv, OnlyBilled
  <2>3. QED
    BY <1>3, <1>5, <2>1, <2>2, SubStep
<1>6. QED
  BY <1>1, <1>4, <1>5

-----------------------------------------------------------------------------
(* The invariant, and what it says. *)

LEMMA PlanNext == PlanInv /\ [Next]_vars => PlanInv'
<1> SUFFICES ASSUME PlanInv, [Next]_vars PROVE PlanInv'
  OBVIOUS
<1>1. ASSUME NEW c \in Calls, Step(c), UNCHANGED scene PROVE PlanInv'
  <2>1. CASE Read(c)
    BY <1>1, <2>1, ReadStep
  <2>2. CASE Resume(c) \/ Release(c) \/ Cancel(c)
    BY <1>1, <2>2, MoveStep
  <2>3. CASE Schedule(c)
    BY <1>1, <2>3, ScheduleStep
  <2>4. CASE Reschedule(c)
    BY <1>1, <2>4, RescheduleStep
  <2>5. CASE UpdateApplies(c)
    BY <1>1, <2>5, AppliesStep
  <2>6. CASE UpdateHeld(c)
    BY <1>1, <2>6, HeldStep
  <2>7. CASE UpdateReplayed(c)
    BY <1>1, <2>7, ReplayedStep
  <2>8. CASE Record(c) \/ FilePending(c) \/ Throws(c)
    BY <1>1, <2>8, RecordStep
  <2>9. QED
    BY <1>1, <2>1, <2>2, <2>3, <2>4, <2>5, <2>6, <2>7, <2>8 DEF Step
<1>2. CASE UNCHANGED vars
  <2>1. TypeOK'
    BY <1>2 DEF vars, PlanInv, TypeOK
  <2>2. "meta_early" \notin Faults => OnlyBilled'
    BY <1>2 DEF vars, PlanInv, OnlyBilled
  <2>3. QED
    BY <1>2, <2>1, <2>2 DEF vars, PlanInv, Faults
<1>3. ASSUME HandleEvent \/ Redelivered, UNCHANGED scene PROVE PlanInv'
  BY <1>3, HandleStep
<1>4. ASSUME PeriodEnds, UNCHANGED scene PROVE PlanInv'
  BY <1>4, PeriodStep
<1>5. ASSUME PendingEnds, UNCHANGED scene PROVE PlanInv'
  BY <1>5, PendingStep
<1>6. QED
  BY <1>1, <1>2, <1>3, <1>4, <1>5 DEF Next, Finished

LEMMA PlanInvariant == Spec => []PlanInv
  BY PlanInit, PlanNext, PTL DEF Spec

\* The subscription, the calls and the organization's copy keep their types, for
\* every catalogue, set of calls and failure.
THEOREM TypeCorrect == Spec => []TypeOK
<1>1. PlanInv => TypeOK
  BY DEF PlanInv
<1>2. QED
  BY <1>1, PlanInvariant, PTL

\* However calls, retries, replays and late events interleave, the organization is
\* never on a plan that Stripe has not billed it for.
THEOREM NeverGrantedUnbilled == Spec => []GrantedWasBilled
<1>1. PlanInv => GrantedWasBilled
  BY DEF PlanInv, OnlyBilled, GrantedWasBilled
<1>2. QED
  BY <1>1, PlanInvariant, PTL

-----------------------------------------------------------------------------
(* A double click: several calls that ask for one and the same basket. *)

SameWant == \A c, d \in scene.calls : Want[c] = Want[d]

\* The basket is no step down from the start, so it is reached by an update.
Rises(c) == Want[c].plan # Free /\ Rank[Want[c].plan] >= Rank[Start.plan]

Only(c, requests) == \A i \in 1..Len(todo[c]) : todo[c][i] \in requests

\* What a call has left to do: an update was decided before any item was replaced,
\* so that its key is the first one; a step down has no update at all.
Course(c) ==
    IF Rises(c)
    THEN /\ Only(c, {"read", "update", "record", "unfile", "file"})
         /\ ~Only(c, Requests \ {"update"}) => seen[c].item = 0
    ELSE Only(c, Requests \ {"update"}) /\ seen[c].meta = Start.plan

\* What the calls together have made of the subscription: an item was replaced only
\* by the basket they ask for, and what was invoiced is recorded under the first key.
Ground(c) ==
    IF Rises(c)
    THEN /\ sub.live /\ ~sub.cancel /\ sub.phases = <<>>
         /\ sub.meta \in {Start.plan, Want[c].plan}
         /\ sub.held \subseteq {Want[c]}
         /\ sub.item = 0 \/ sub.bills = Want[c]
         /\ invoices # 0 => \E a \in answers : a.item = 0 /\ a.to = Want[c]
    ELSE sub.meta = Start.plan /\ sub.held = {} /\ invoices = 0

ClickInv ==
    /\ invoices <= 1
    /\ \A c \in Calls \ scene.calls : todo[c] = <<>>
    /\ \A c \in scene.calls : Course(c) /\ Ground(c)

LEMMA ClickInit == Init => ClickInv
<1> SUFFICES ASSUME Init PROVE ClickInv
  OBVIOUS
<1>1. scene.calls \subseteq Calls
  BY PlanChangeAssumption DEF Init, SceneType
<1>2. ASSUME NEW c \in scene.calls PROVE Course(c)
  <2>1. todo[c] = <<"read">> /\ seen[c] = Opened
    BY <1>1, <1>2 DEF Init
  <2>2. Only(c, {"read"})
    BY <2>1 DEF Only
  <2>3. Only(c, {"read", "update", "record", "unfile", "file"}) /\ Only(c, Requests \ {"update"})
    BY <2>2 DEF Only, Requests
  <2>4. seen[c].item = 0 /\ seen[c].meta = Start.plan
    BY <2>1 DEF Opened
  <2>5. QED
    BY <2>3, <2>4 DEF Course
<1>3. ASSUME NEW c \in scene.calls PROVE Ground(c)
  BY DEF Init, Opened, Ground
<1>4. \A c \in Calls \ scene.calls : todo[c] = <<>>
  BY DEF Init
<1>5. invoices <= 1
  BY DEF Init
<1>6. QED
  BY <1>2, <1>3, <1>4, <1>5 DEF ClickInv

\* The calls that ask for something are those of the scene.
LEMMA AskerIsCalled ==
    ASSUME ClickInv, NEW c \in Calls, todo[c] # <<>>
    PROVE  c \in scene.calls /\ Course(c) /\ Ground(c)
  BY DEF ClickInv

LEMMA AskedIsLeft ==
    ASSUME TypeOK, NEW c \in Calls, NEW r, Asks(c, r), NEW S, Only(c, S)
    PROVE  r \in S
<1>1. todo[c] \in Seq(Requests) /\ todo[c] # <<>>
  BY DEF TypeOK, Asks
<1>2. 1 \in 1..Len(todo[c]) /\ Head(todo[c]) = todo[c][1]
  BY <1>1
<1>3. QED
  BY <1>2 DEF Asks, Only

LEMMA OnwardLeft ==
    ASSUME TypeOK, NEW c \in Calls, NEW r, Asks(c, r), Onward(c)
    PROVE  /\ \A d \in Calls : d # c => todo'[d] = todo[d]
           /\ \A S : Only(c, S) => Only(c, S)'
<1>1. todo[c] \in Seq(Requests) /\ todo[c] # <<>> /\ todo \in [Calls -> Seq(Requests)]
  BY DEF TypeOK, Asks
<1>2. todo'[c] = Tail(todo[c]) /\ \A d \in Calls : d # c => todo'[d] = todo[d]
  BY <1>1 DEF Onward
<1>3. ASSUME NEW i \in 1..Len(todo'[c]) PROVE i + 1 \in 1..Len(todo[c]) /\ todo'[c][i] = todo[c][i + 1]
  BY <1>1, <1>2
<1>4. ASSUME NEW S, Only(c, S) PROVE \A i \in 1..Len(todo'[c]) : todo'[c][i] \in S
  BY <1>3, <1>4 DEF Only
<1>5. QED
  BY <1>2, <1>4 DEF Only

\* A step of one call keeps the invariant if it keeps that call's part of it.
LEMMA CallKept ==
    ASSUME ClickInv, SameWant, UNCHANGED scene, NEW c \in Calls, c \in scene.calls,
           \A d \in Calls : d # c => todo'[d] = todo[d],
           \A d \in Calls : d # c => seen'[d].item = seen[d].item /\ seen'[d].meta = seen[d].meta,
           Course(c)', Ground(c)', invoices' <= 1, scene.calls \subseteq Calls
    PROVE  ClickInv'
<1>1. ASSUME NEW d \in scene.calls PROVE Ground(d)'
  <2>1. Want[d] = Want[c]
    BY <1>1 DEF SameWant
  <2>2. QED
    BY <2>1 DEF Ground, Rises
<1>2. ASSUME NEW d \in scene.calls PROVE Course(d)'
  <2>1. CASE d = c
    BY <2>1
  <2>2. CASE d # c
    <3>1. Course(d)
      BY <1>2 DEF ClickInv
    <3>2. /\ todo'[d] = todo[d]
          /\ seen'[d].item = seen[d].item /\ seen'[d].meta = seen[d].meta
      BY <1>2, <2>2
    <3>3. QED
      BY <3>1, <3>2 DEF Course, Only, Rises
  <2>3. QED
    BY <2>1, <2>2
<1>3. ASSUME NEW d \in Calls \ scene.calls PROVE todo'[d] = <<>>
  BY <1>3 DEF ClickInv
<1>4. QED
  BY <1>1, <1>2, <1>3 DEF ClickInv

LEMMA SceneCalls == ASSUME TypeOK PROVE scene.calls \subseteq Calls
  BY PlanChangeAssumption DEF TypeOK, SceneType

\* A call that goes on, or ends, without a request to the subscription.
LEMMA QuietClick ==
    ASSUME PlanInv, ClickInv, SameWant, UNCHANGED scene, NEW c \in Calls,
           Record(c) \/ FilePending(c) \/ Throws(c)
    PROVE  ClickInv'
<1>1. TypeOK /\ todo[c] # <<>>
  BY DEF PlanInv, Record, FilePending, Throws, Asks
<1>2. c \in scene.calls /\ Course(c) /\ Ground(c) /\ scene.calls \subseteq Calls
  BY <1>1, AskerIsCalled, SceneCalls
<1>3. UNCHANGED <<sub, answers, invoices, seen>>
  BY DEF Record, FilePending, Throws
<1>4. /\ \A d \in Calls : d # c => todo'[d] = todo[d]
      /\ \A S : Only(c, S) => Only(c, S)'
  <2>1. CASE Record(c) \/ FilePending(c)
    BY <1>1, <2>1, OnwardLeft DEF Record, FilePending
  <2>2. CASE Throws(c)
    <3>1. todo'[c] = <<>> /\ \A d \in Calls : d # c => todo'[d] = todo[d]
      BY <1>1, <2>2 DEF Throws, TypeOK
    <3>2. QED
      BY <3>1 DEF Only
  <2>3. QED
    BY <2>1, <2>2
<1>5. Course(c)'
  BY <1>2, <1>3, <1>4 DEF Course, Rises
<1>6. Ground(c)' /\ invoices' <= 1
  BY <1>2, <1>3 DEF Ground, Rises, ClickInv
<1>7. QED
  BY <1>2, <1>3, <1>4, <1>5, <1>6, CallKept

LEMMA ReadClick ==
    ASSUME PlanInv, ClickInv, SameWant, UNCHANGED scene, NEW c \in Calls, Read(c)
    PROVE  ClickInv'
<1>1. TypeOK /\ todo[c] # <<>>
  BY DEF PlanInv, Read, Asks
<1>2. c \in scene.calls /\ Course(c) /\ Ground(c) /\ scene.calls \subseteq Calls
  BY <1>1, AskerIsCalled, SceneCalls
<1>3. UNCHANGED <<sub, answers, invoices>>
  BY DEF Read
<1>4. /\ todo'[c] = Decision(sub, Want[c]) /\ seen'[c] = sub
      /\ \A d \in Calls : d # c => todo'[d] = todo[d] /\ seen'[d] = seen[d]
  BY <1>1 DEF Read, TypeOK
<1>5. Ground(c)' /\ invoices' <= 1
  BY <1>2, <1>3 DEF Ground, Rises, ClickInv
<1>6. CASE Rises(c)
  <2>1. /\ sub.live /\ ~sub.cancel /\ sub.phases = <<>>
        /\ sub.meta \in {Start.plan, Want[c].plan} /\ (sub.item = 0 \/ sub.bills = Want[c])
    BY <1>2, <1>6 DEF Ground
  <2>2. Want[c].plan # Free /\ ~(Rank[Want[c].plan] < Rank[sub.meta])
    <3>1. Rank[Want[c].plan] \in Nat /\ Rank[Start.plan] \in Nat
      BY PlanChangeAssumption DEF Basket
    <3>2. QED
      BY <1>6, <2>1, <3>1 DEF Rises
  <2>3. CASE sub.bills = Want[c]
    <3>1. todo'[c] = <<"unfile", "record">>
      BY <1>4, <2>1, <2>2, <2>3, Zenon DEF Decision
    <3>2. /\ Only(c, {"read", "update", "record", "unfile", "file"})'
          /\ Only(c, Requests \ {"update"})'
      BY <3>1 DEF Only, Requests
    <3>3. QED
      BY <1>6, <3>2, <1>2, <1>3, <1>4, <1>5, CallKept DEF Course, Rises
  <2>4. CASE sub.bills # Want[c]
    <3>1. todo'[c] = <<"update">>
      BY <1>4, <2>1, <2>2, <2>4, Zenon DEF Decision
    <3>2. Only(c, {"read", "update", "record", "unfile", "file"})'
      BY <3>1 DEF Only
    <3>3. seen'[c].item = 0
      BY <1>4, <2>1, <2>4
    <3>4. Course(c)'
      BY <1>6, <3>2, <3>3 DEF Course, Rises
    <3>5. QED
      BY <3>4, <1>2, <1>3, <1>4, <1>5, CallKept
  <2>5. QED
    BY <2>3, <2>4
<1>7. CASE ~Rises(c)
  <2>1. sub.meta = Start.plan
    BY <1>2, <1>7 DEF Ground
  <2>2. Only(c, Requests \ {"update"})'
    <3>1. Want[c].plan # Free => Rank[Want[c].plan] < Rank[sub.meta]
      <4>1. Rank[Want[c].plan] \in Nat /\ Rank[Start.plan] \in Nat
        BY PlanChangeAssumption DEF Basket
      <4>2. QED
        BY <1>7, <2>1, <4>1 DEF Rises
    <3>2. \/ todo'[c] = <<>>
          \/ todo'[c] = <<"record">>
          \/ todo'[c] = ResumeRequests
          \/ todo'[c] = <<"cancel", "file">>
          \/ todo'[c] = <<"release">> \o <<"cancel", "file">>
          \/ todo'[c] = <<>> \o <<"cancel", "file">>
          \/ todo'[c] = <<"release", "unfile">>
          \/ todo'[c] = <<"unfile", "record">>
          \/ todo'[c] = <<"schedule", "reschedule", "file">>
      BY <1>4, <3>1, Zenon DEF Decision, Releasing
    <3>3. QED
      BY <3>2 DEF Only, Requests, ResumeRequests
  <2>3. Course(c)'
    BY <1>4, <1>7, <2>1, <2>2 DEF Course, Rises
  <2>4. QED
    BY <2>3, <1>2, <1>3, <1>4, <1>5, CallKept
<1>8. QED
  BY <1>6, <1>7

\* Requests of a step down.
LEMMA FallingClick ==
    ASSUME PlanInv, ClickInv, SameWant, UNCHANGED scene, NEW c \in Calls,
           Resume(c) \/ Release(c) \/ Cancel(c) \/ Schedule(c) \/ Reschedule(c)
    PROVE  ClickInv'
<1>1. PICK r \in {"resume", "release", "cancel", "schedule", "reschedule"} : Asks(c, r) /\ Onward(c)
  BY DEF Resume, Release, Cancel, Schedule, Reschedule
<1>2. TypeOK /\ todo[c] # <<>> /\ sub \in Subscription /\ seen \in [Calls -> Subscription]
  BY <1>1 DEF PlanInv, TypeOK, Asks
<1>3. c \in scene.calls /\ Course(c) /\ Ground(c) /\ scene.calls \subseteq Calls
  BY <1>2, AskerIsCalled, SceneCalls
<1>4. ~Rises(c)
  <2>1. r \notin {"read", "update", "record", "unfile", "file"}
    BY <1>1
  <2>2. QED
    BY <1>1, <1>2, <1>3, <2>1, AskedIsLeft DEF Course
<1>5. /\ sub.meta = Start.plan /\ sub.held = {} /\ invoices = 0
      /\ seen[c].meta = Start.plan /\ Only(c, Requests \ {"update"})
  BY <1>3, <1>4 DEF Ground, Course
<1>6. /\ \A d \in Calls : d # c => todo'[d] = todo[d]
      /\ Only(c, Requests \ {"update"})'
  BY <1>1, <1>2, <1>5, OnwardLeft
<1>7. UNCHANGED <<answers, invoices>>
  BY DEF Resume, Release, Cancel, Schedule, Reschedule
<1>8. \A d \in Calls : seen'[d].item = seen[d].item /\ seen'[d].meta = seen[d].meta
  <2>1. CASE UNCHANGED seen
    BY <2>1
  <2>2. CASE Schedule(c)
    <3>1. PICK ph : seen' = [seen EXCEPT ![c].phases = ph]
      BY <2>2, Zenon DEF Schedule
    <3>2. seen[c].item = [seen[c] EXCEPT !.phases = ph].item /\ seen[c].meta = [seen[c] EXCEPT !.phases = ph].meta
      BY <1>2 DEF Subscription
    <3>3. seen' = [seen EXCEPT ![c] = [seen[c] EXCEPT !.phases = ph]]
      BY <3>1
    <3>4. QED
      BY <1>2, <3>2, <3>3
  <2>3. QED
    BY <2>1, <2>2 DEF Resume, Release, Cancel, Reschedule
<1>9. sub'.meta = Start.plan /\ sub'.held = {}
  <2>1. CASE Resume(c)
    BY <1>2, <1>5, <2>1 DEF Resume, Becomes, Subscription
  <2>2. CASE Release(c)
    BY <1>2, <1>5, <2>2 DEF Release, Becomes, Subscription
  <2>3. CASE Cancel(c)
    BY <1>2, <1>5, <2>3 DEF Cancel, Becomes, Subscription
  <2>4. CASE Schedule(c)
    <3>1. CASE UNCHANGED sub
      BY <1>5, <3>1
    <3>2. CASE sub' = [sub EXCEPT !.phases = <<sub.bills>>, !.cancel = FALSE]
      BY <1>2, <1>5, <3>2 DEF Subscription
    <3>3. QED
      BY <2>4, <3>1, <3>2 DEF Schedule, Becomes
  <2>5. CASE Reschedule(c)
    <3> DEFINE current == seen[c].phases[1]
               t == IF sub.bills = current THEN sub ELSE Billing(sub, current)
    <3>1. sub' = [t EXCEPT !.phases = <<current, Want[c]>>]
      BY <2>5 DEF Reschedule, Becomes
    <3>2. t.meta = Start.plan /\ t.held = {} /\ DOMAIN t = DOMAIN sub
      BY <1>2, <1>5 DEF Billing, Subscription
    <3> HIDE DEF t, current
    <3>3. QED
      BY <1>2, <3>1, <3>2 DEF Subscription
  <2>6. QED
    BY <2>1, <2>2, <2>3, <2>4, <2>5
<1>10. Course(c)' /\ Ground(c)' /\ invoices' <= 1
  BY <1>4, <1>5, <1>6, <1>7, <1>8, <1>9 DEF Course, Ground, Rises
<1>11. QED
  BY <1>3, <1>6, <1>8, <1>10, CallKept

\* What an answer leaves to do is no further update.
LEMMA AnswerLeft ==
    ASSUME TypeOK, NEW c \in Calls, NEW applied \in BOOLEAN, OnAnswer(c, applied)
    PROVE  /\ \A d \in Calls : d # c => todo'[d] = todo[d]
           /\ Only(c, {"record", "unfile", "file"})'
<1>1. todo \in [Calls -> Seq(Requests)]
  BY DEF TypeOK
<1>2. todo'[c] = <<"record", "unfile">> \/ todo'[c] = <<"file">>
  BY <1>1 DEF OnAnswer
<1>3. \A d \in Calls : d # c => todo'[d] = todo[d]
  BY <1>1 DEF OnAnswer
<1>4. QED
  BY <1>2, <1>3 DEF Only

\* The first request of all records itself under the first key, so that no other
\* call's is a first one.
LEMMA UpdateClick ==
    ASSUME PlanInv, ClickInv, SameWant, UNCHANGED scene, NEW c \in Calls,
           UpdateApplies(c) \/ UpdateHeld(c) \/ UpdateReplayed(c)
    PROVE  ClickInv'
<1>1. TypeOK /\ Asks(c, "update") /\ todo[c] # <<>> /\ sub \in Subscription
  BY DEF PlanInv, TypeOK, UpdateApplies, UpdateHeld, UpdateReplayed, Asks
<1>2. c \in scene.calls /\ Course(c) /\ Ground(c) /\ scene.calls \subseteq Calls
  BY <1>1, AskerIsCalled, SceneCalls
<1>3. ~Only(c, Requests \ {"update"})
  BY <1>1, AskedIsLeft
<1>4. Rises(c) /\ seen[c].item = 0
  BY <1>2, <1>3 DEF Course
<1>5. UNCHANGED seen
  BY DEF UpdateApplies, UpdateHeld, UpdateReplayed
<1>6. /\ \A d \in Calls : d # c => todo'[d] = todo[d]
      /\ Only(c, {"record", "unfile", "file"})'
  <2>1. CASE UpdateApplies(c) \/ UpdateHeld(c)
    BY <1>1, <2>1, AnswerLeft DEF UpdateApplies, UpdateHeld
  <2>2. CASE UpdateReplayed(c)
    <3>1. PICK a \in Recorded(c) : OnAnswer(c, a.applied)
      BY <2>2 DEF UpdateReplayed
    <3>2. a.applied \in BOOLEAN
      BY <1>1, <3>1 DEF Recorded, TypeOK
    <3>3. QED
      BY <1>1, <3>1, <3>2, AnswerLeft
  <2>3. QED
    BY <2>1, <2>2
<1>7. Course(c)'
  BY <1>4, <1>5, <1>6 DEF Course, Only, Rises
<1>8. CASE UpdateReplayed(c)
  <2>1. UNCHANGED <<sub, answers, invoices>>
    BY <1>8 DEF UpdateReplayed
  <2>2. Ground(c)' /\ invoices' <= 1
    BY <1>2, <2>1 DEF Ground, Rises, ClickInv
  <2>3. QED
    BY <1>2, <1>5, <1>6, <1>7, <2>2, CallKept
<1>9. ASSUME FirstUse(c), NEW applied \in BOOLEAN,
             answers' = answers \cup {Answered(c, applied)}, invoices' = Raised(c)
      PROVE  /\ invoices' <= 1
             /\ \E a \in answers' : a.item = 0 /\ a.to = Want[c]
  <2>1. \A a \in answers : ~(a.item = 0 /\ a.to = Want[c])
    BY <1>4, <1>9 DEF FirstUse, Recorded, KeyOf
  <2>2. invoices = 0
    BY <1>2, <1>4, <2>1 DEF Ground
  <2>3. Answered(c, applied).item = 0 /\ Answered(c, applied).to = Want[c]
    BY <1>4 DEF Answered
  <2>4. QED
    BY <1>9, <2>2, <2>3 DEF Raised
<1>10. CASE UpdateApplies(c)
  <2>1. /\ invoices' <= 1
        /\ \E a \in answers' : a.item = 0 /\ a.to = Want[c]
    BY <1>9, <1>10 DEF UpdateApplies
  <2>2. /\ sub'.live /\ ~sub'.cancel /\ sub'.phases = <<>>
        /\ sub'.meta = Want[c].plan /\ sub'.held = {} /\ sub'.bills = Want[c]
    <3>1. sub.live /\ ~sub.cancel /\ sub.phases = <<>>
      BY <1>2, <1>4 DEF Ground
    <3>2. sub' = [Billing(sub, Want[c]) EXCEPT !.meta = Want[c].plan, !.noted = @ \/ seen[c].noted]
      BY <1>10 DEF UpdateApplies, Becomes
    <3>3. QED
      BY <1>1, <3>1, <3>2 DEF Billing, Subscription
  <2>3. Ground(c)'
    BY <1>4, <2>1, <2>2 DEF Ground, Rises
  <2>4. QED
    BY <1>2, <1>5, <1>6, <1>7, <2>1, <2>3, CallKept
<1>11. CASE UpdateHeld(c)
  <2>1. /\ invoices' <= 1
        /\ \E a \in answers' : a.item = 0 /\ a.to = Want[c]
    BY <1>9, <1>11 DEF UpdateHeld
  <2>2. /\ sub'.live = sub.live /\ sub'.cancel = sub.cancel /\ sub'.phases = sub.phases
        /\ sub'.item = sub.item /\ sub'.bills = sub.bills
        /\ sub'.meta \in {sub.meta, Want[c].plan} /\ sub'.held = {Want[c]}
    BY <1>1, <1>11 DEF UpdateHeld, Becomes, Subscription
  <2>3. Ground(c)'
    BY <1>2, <1>4, <2>1, <2>2 DEF Ground, Rises
  <2>4. QED
    BY <1>2, <1>5, <1>6, <1>7, <2>1, <2>3, CallKept
<1>12. QED
  BY <1>8, <1>10, <1>11

\* Periods and customers change the subscription, and nothing the calls hold.
LEMMA ElsewhereClick ==
    ASSUME PlanInv, ClickInv, UNCHANGED scene, PeriodEnds \/ PendingEnds
    PROVE  ClickInv'
<1>1. UNCHANGED <<answers, invoices, todo, seen>> /\ sub \in Subscription
  BY DEF PeriodEnds, PendingEnds, PlanInv, TypeOK
<1>2. ASSUME NEW c \in scene.calls PROVE Ground(c)'
  <2>1. Ground(c)
    BY <1>2 DEF ClickInv
  <2>2. CASE PeriodEnds /\ Rises(c)
    <3>1. sub' = [sub EXCEPT !.phases = <<>>]
      <4>1. ~sub.cancel /\ sub.phases = <<>> /\ Len(<<>>) = 0
        BY <2>1, <2>2 DEF Ground
      <4>2. QED
        BY <2>2, <4>1 DEF PeriodEnds, Becomes
    <3>2. QED
      BY <1>1, <2>1, <2>2, <3>1 DEF Ground, Rises, Subscription
  <2>3. CASE PeriodEnds /\ ~Rises(c)
    <3>1. sub'.meta = sub.meta /\ sub'.held \subseteq sub.held
      <4>1. CASE sub.cancel
        BY <1>1, <2>3, <4>1 DEF PeriodEnds, Becomes, Subscription
      <4>2. CASE ~sub.cancel /\ Len(sub.phases) = 2
        BY <1>1, <2>3, <4>2 DEF PeriodEnds, Becomes, Subscription, Billing
      <4>3. CASE ~sub.cancel /\ Len(sub.phases) # 2
        BY <1>1, <2>3, <4>3 DEF PeriodEnds, Becomes, Subscription
      <4>4. QED
        BY <4>1, <4>2, <4>3
    <3>2. QED
      BY <1>1, <2>1, <2>3, <3>1 DEF Ground, Rises
  <2>4. CASE PendingEnds
    <3>1. PICK b \in sub.held :
              \/ sub' = [Billing(sub, b) EXCEPT !.meta = b.plan]
              \/ sub' = [sub EXCEPT !.held = {}]
      BY <2>4 DEF PendingEnds, Becomes
    <3>2. Rises(c) /\ b = Want[c]
      BY <2>1, <3>1 DEF Ground
    <3>3. CASE sub' = [Billing(sub, b) EXCEPT !.meta = b.plan]
      BY <1>1, <2>1, <3>2, <3>3 DEF Ground, Rises, Billing, Subscription
    <3>4. CASE sub' = [sub EXCEPT !.held = {}]
      BY <1>1, <2>1, <3>2, <3>4 DEF Ground, Rises, Subscription
    <3>5. QED
      BY <3>1, <3>3, <3>4
  <2>5. QED
    BY <2>2, <2>3, <2>4
<1>3. ASSUME NEW c \in scene.calls PROVE Course(c)'
  BY <1>1, <1>3 DEF ClickInv, Course, Only, Rises
<1>4. QED
  BY <1>1, <1>2, <1>3 DEF ClickInv

LEMMA ClickNext ==
    ASSUME PlanInv, SameWant, ClickInv, [Next]_vars
    PROVE  SameWant' /\ ClickInv'
<1>1. UNCHANGED scene
  BY DEF Next, vars
<1>2. SameWant'
  BY <1>1 DEF SameWant
<1>3. ASSUME NEW c \in Calls, Step(c) PROVE ClickInv'
  <2>1. CASE Read(c)
    BY <1>1, <2>1, ReadClick
  <2>2. CASE Resume(c) \/ Release(c) \/ Cancel(c) \/ Schedule(c) \/ Reschedule(c)
    BY <1>1, <2>2, FallingClick
  <2>3. CASE UpdateApplies(c) \/ UpdateHeld(c) \/ UpdateReplayed(c)
    BY <1>1, <2>3, UpdateClick
  <2>4. CASE Record(c) \/ FilePending(c) \/ Throws(c)
    BY <1>1, <2>4, QuietClick
  <2>5. QED
    BY <1>3, <2>1, <2>2, <2>3, <2>4 DEF Step
<1>4. ASSUME PeriodEnds \/ PendingEnds PROVE ClickInv'
  BY <1>1, <1>4, ElsewhereClick
<1>5. ASSUME UNCHANGED <<scene, sub, answers, invoices, todo, seen>> PROVE ClickInv'
  BY <1>5 DEF ClickInv, Course, Ground, Only, Rises
<1>6. ASSUME HandleEvent \/ Redelivered PROVE ClickInv'
  BY <1>1, <1>5, <1>6 DEF HandleEvent, Redelivered
<1>7. ASSUME UNCHANGED vars PROVE ClickInv'
  BY <1>5, <1>7 DEF vars
<1>8. QED
  BY <1>2, <1>3, <1>4, <1>6, <1>7 DEF Next, Finished

\* However many times one move is confirmed, and however the calls interleave, are
\* declined, fail or are replayed, it raises one proration invoice at most.
THEOREM InvoicedOnce == Spec => []OneInvoice
<1> DEFINE Inv == PlanInv /\ (SameWant => ClickInv)
<1>1. Init => Inv
  BY PlanInit, ClickInit
<1>2. Inv /\ [Next]_vars => Inv'
  <2> SUFFICES ASSUME Inv, [Next]_vars PROVE Inv'
    OBVIOUS
  <2>1. PlanInv'
    BY PlanNext
  <2>2. ASSUME SameWant' PROVE ClickInv'
    <3>1. SameWant
      BY <2>2 DEF SameWant, Next, vars
    <3>2. QED
      BY <3>1, ClickNext
  <2>3. QED
    BY <2>1, <2>2
<1>3. Inv => OneInvoice
  BY DEF ClickInv, SameWant, OneInvoice
<1>4. QED
  BY <1>1, <1>2, <1>3, PTL DEF Spec
-----------------------------------------------------------------------------
(* Calls that wait for one another. *)

\* The plan the next period bills was promised, and a move that waits is filed.
Stands == Due = promised /\ (periods = 0 => (org.pending # NoPlan <=> Due # Billed))

\* Nothing is scheduled and nothing is cancelled.
Steady == sub.live /\ ~sub.cancel /\ sub.phases = <<>>

\* What a call has left once it has read, and what it can rely on there: the
\* subscription is as it read it, or as its own requests have made it.
Turn(c) ==
    \/ ~Underway(c)
    \/ /\ todo[c] = <<"release", "unfile">>
       /\ sub.phases # <<>> /\ promised = sub.bills
    \/ /\ todo[c] \in {<<"unfile">>, <<"unfile", "record">>, <<"record", "unfile">>}
       /\ Steady /\ promised = sub.bills
    \/ /\ todo[c] = <<"record">>
       /\ Stands
    \/ /\ todo[c] = <<"schedule", "reschedule", "file">>
       /\ Stands /\ sub.live /\ ~sub.cancel /\ seen[c].phases = sub.phases
       /\ sub.bills # Want[c] /\ Want[c].plan # Free
    \/ /\ todo[c] = <<"reschedule", "file">>
       /\ Stands /\ sub.phases # <<>> /\ seen[c].phases = sub.phases
       /\ sub.bills # Want[c]
    \/ /\ todo[c] = <<"file">>
       /\ Due = promised /\ Due # Billed
    \/ /\ todo[c] = <<"release", "unfile", "update">>
       /\ sub.phases # <<>> /\ seen[c].item = sub.item /\ Want[c].plan # Free
    \/ /\ todo[c] \in {<<"unfile", "update">>, <<"update">>}
       /\ Steady /\ seen[c].item = sub.item /\ Want[c].plan # Free
    \/ /\ todo[c] = <<"cancel", "file">>
       /\ Steady /\ seen[c].meta = sub.meta /\ Want[c].plan = Free
    \/ /\ todo[c] = ResumeRequests
       /\ sub.live /\ sub.cancel /\ sub.bills = Want[c]

\* The phases of a schedule start with what is billed and go on with something else.
Scheduled ==
    /\ sub.held = {}
    /\ sub.phases # <<>> =>
          sub.live /\ ~sub.cancel /\ Len(sub.phases) \in {1, 2} /\ sub.phases[1] = sub.bills
    /\ Len(sub.phases) = 2 => sub.phases[2] # sub.bills
    /\ ~sub.live => periods # 0

\* Either nobody cancels, or all they do is to cancel and call it off.
NobodyCancels == \A c \in scene.calls : Want[c].plan # Free

TwoWays ==
    /\ NobodyCancels => sub.live /\ ~sub.cancel
    /\ ~NobodyCancels => sub.bills = Start /\ sub.meta = Start.plan /\ sub.phases = <<>>

\* Who has an answer under its key never asks for that change again.
KeysAreNew == \A a \in answers : \A c \in scene.calls : a.to = Want[c] => Only(c, {"record", "unfile"})

OneAtATime == \A c, d \in Calls : Underway(c) /\ Underway(d) => c = d

StandInv ==
    /\ \A c \in Calls : todo[c] # <<>> => c \in scene.calls
    /\ OneAtATime /\ KeysAreNew
    /\ \A c \in Calls : Turn(c)
    /\ AllAnswered => Stands
    /\ Scheduled /\ TwoWays

LEMMA ConcatIs ==
    ASSUME NEW S, NEW s \in Seq(S), NEW t \in Seq(S), NEW u \in Seq(S),
           Len(u) = Len(s) + Len(t),
           \A i \in 1..Len(s) : u[i] = s[i],
           \A i \in 1..Len(t) : u[Len(s) + i] = t[i]
    PROVE  s \o t = u
<1>1. DOMAIN u = DOMAIN (s \o t)
  OBVIOUS
<1>2. \A i \in DOMAIN u : u[i] = (s \o t)[i]
  OBVIOUS
<1>3. QED
  BY <1>1, <1>2
\* What is left of the lists of requests, one request on.
LEMMA Lists ==
    /\ Tail(ResumeRequests) = <<"record", "unfile">>
    /\ Tail(<<"release", "unfile">>) = <<"unfile">>
    /\ Tail(<<"release", "unfile", "update">>) = <<"unfile", "update">>
    /\ Tail(<<"unfile">>) = <<>>
    /\ Tail(<<"unfile", "record">>) = <<"record">>
    /\ Tail(<<"record", "unfile">>) = <<"unfile">>
    /\ Tail(<<"record">>) = <<>>
    /\ Tail(<<"unfile", "update">>) = <<"update">>
    /\ Tail(<<"schedule", "reschedule", "file">>) = <<"reschedule", "file">>
    /\ Tail(<<"reschedule", "file">>) = <<"file">>
    /\ Tail(<<"cancel", "file">>) = <<"file">>
    /\ Tail(<<"file">>) = <<>>
    /\ <<"release">> \o <<"unfile", "update">> = <<"release", "unfile", "update">>
    /\ <<>> \o <<"cancel", "file">> = <<"cancel", "file">>
<1>1. <<>> \o <<"cancel", "file">> = <<"cancel", "file">>
  OBVIOUS
<1>2. /\ Tail(ResumeRequests) = <<"record", "unfile">>
      /\ Tail(<<"release", "unfile">>) = <<"unfile">>
      /\ Tail(<<"release", "unfile", "update">>) = <<"unfile", "update">>
      /\ Tail(<<"unfile">>) = <<>>
      /\ Tail(<<"unfile", "record">>) = <<"record">>
      /\ Tail(<<"record", "unfile">>) = <<"unfile">>
      /\ Tail(<<"record">>) = <<>>
      /\ Tail(<<"unfile", "update">>) = <<"update">>
      /\ Tail(<<"schedule", "reschedule", "file">>) = <<"reschedule", "file">>
      /\ Tail(<<"reschedule", "file">>) = <<"file">>
      /\ Tail(<<"cancel", "file">>) = <<"file">>
      /\ Tail(<<"file">>) = <<>>
  BY DEF ResumeRequests
<1>3. <<"release">> \o <<"unfile", "update">> = <<"release", "unfile", "update">>
  <2> DEFINE s == <<"release">>
             t == <<"unfile", "update">>
             u == <<"release", "unfile", "update">>
  <2>1. s \in Seq(Requests) /\ t \in Seq(Requests) /\ u \in Seq(Requests)
    BY DEF Requests
  <2>2. Len(s) = 1 /\ Len(t) = 2 /\ Len(u) = 3 /\ s[1] = u[1] /\ t[1] = u[2] /\ t[2] = u[3]
    OBVIOUS
  <2> HIDE DEF s, t, u
  <2>3. \A i \in 1..Len(s) : u[i] = s[i]
    BY <2>2
  <2>4. \A i \in 1..Len(t) : u[Len(s) + i] = t[i]
    BY <2>2
  <2>5. Len(u) = Len(s) + Len(t)
    BY <2>2
  <2>6. s \o t = u
    BY <2>1, <2>3, <2>4, <2>5, ConcatIs, Zenon
  <2>7. QED
    BY <2>6 DEF s, t, u
<1>4. QED
  BY <1>1, <1>2, <1>3, Zenon

\* The request a call is at says which lists it may be at.
LEMMA AskedTurn ==
    ASSUME NEW c \in Calls, Turn(c)
    PROVE  /\ Asks(c, "resume") =>
                 todo[c] = ResumeRequests /\ sub.live /\ sub.cancel /\ sub.bills = Want[c]
           /\ Asks(c, "release") =>
                 \/ todo[c] = <<"release", "unfile">> /\ sub.phases # <<>> /\ promised = sub.bills
                 \/ /\ todo[c] = <<"release", "unfile", "update">>
                    /\ sub.phases # <<>> /\ seen[c].item = sub.item /\ Want[c].plan # Free
           /\ Asks(c, "cancel") =>
                 /\ todo[c] = <<"cancel", "file">>
                 /\ Steady /\ seen[c].meta = sub.meta /\ Want[c].plan = Free
           /\ Asks(c, "schedule") =>
                 /\ todo[c] = <<"schedule", "reschedule", "file">>
                 /\ Stands /\ sub.live /\ ~sub.cancel /\ seen[c].phases = sub.phases
                 /\ sub.bills # Want[c] /\ Want[c].plan # Free
           /\ Asks(c, "reschedule") =>
                 /\ todo[c] = <<"reschedule", "file">>
                 /\ Stands /\ sub.phases # <<>> /\ seen[c].phases = sub.phases
                 /\ sub.bills # Want[c]
           /\ Asks(c, "update") =>
                 /\ todo[c] = <<"update">>
                 /\ Steady /\ seen[c].item = sub.item /\ Want[c].plan # Free
           /\ Asks(c, "record") =>
                 \/ todo[c] = <<"record">> /\ Stands
                 \/ todo[c] = <<"record", "unfile">> /\ Steady /\ promised = sub.bills
           /\ Asks(c, "unfile") =>
                 \/ /\ todo[c] \in {<<"unfile">>, <<"unfile", "record">>}
                    /\ Steady /\ promised = sub.bills
                 \/ /\ todo[c] = <<"unfile", "update">>
                    /\ Steady /\ seen[c].item = sub.item /\ Want[c].plan # Free
           /\ Asks(c, "file") => todo[c] = <<"file">> /\ Due = promised /\ Due # Billed
<1>1. /\ Head(<<"read">>) = "read"
      /\ Head(ResumeRequests) = "resume"
      /\ Head(<<"release", "unfile">>) = "release"
      /\ Head(<<"release", "unfile", "update">>) = "release"
      /\ Head(<<"unfile">>) = "unfile"
      /\ Head(<<"unfile", "record">>) = "unfile"
      /\ Head(<<"record", "unfile">>) = "record"
      /\ Head(<<"record">>) = "record"
      /\ Head(<<"unfile", "update">>) = "unfile"
      /\ Head(<<"update">>) = "update"
      /\ Head(<<"schedule", "reschedule", "file">>) = "schedule"
      /\ Head(<<"reschedule", "file">>) = "reschedule"
      /\ Head(<<"cancel", "file">>) = "cancel"
      /\ Head(<<"file">>) = "file"
  BY DEF ResumeRequests
<1> DEFINE h == Head(todo[c])
<1>2. /\ ~Underway(c) => todo[c] = <<>> \/ h = "read"
      /\ \A r : Asks(c, r) <=> todo[c] # <<>> /\ h = r
  BY <1>1 DEF Underway, Asks
<1>3. QED
  BY <1>1, <1>2 DEF Turn

\* The cases of Due, before and after a step.
LEMMA DueIs ==
    ASSUME TypeOK
    PROVE  /\ ~sub.live \/ sub.cancel => Due = FreePlan
           /\ sub.live /\ ~sub.cancel /\ Len(sub.phases) = 2 => Due = sub.phases[2]
           /\ sub.live /\ ~sub.cancel /\ Len(sub.phases) # 2 => Due = sub.bills
           /\ sub.live => Billed = sub.bills
<1>1. sub.live \in BOOLEAN /\ sub.cancel \in BOOLEAN
  BY DEF TypeOK, Subscription
<1>2. QED
  BY <1>1 DEF Due, Billed

LEMMA DueBecomes ==
    ASSUME TypeOK'
    PROVE  /\ ~sub'.live \/ sub'.cancel => Due' = FreePlan
           /\ sub'.live /\ ~sub'.cancel /\ Len(sub'.phases) = 2 => Due' = sub'.phases[2]
           /\ sub'.live /\ ~sub'.cancel /\ Len(sub'.phases) # 2 => Due' = sub'.bills
           /\ sub'.live => Billed' = sub'.bills
<1>1. sub'.live \in BOOLEAN /\ sub'.cancel \in BOOLEAN
  BY DEF TypeOK, Subscription
<1>2. QED
  BY <1>1 DEF Due, Billed

\* A call that is at a request is the only one, and has its turn.
LEMMA TurnIsAlone ==
    ASSUME TypeOK, StandInv, NEW c \in Calls, NEW r \in Requests \ {"read"}, Asks(c, r)
    PROVE  /\ c \in scene.calls /\ Turn(c) /\ Underway(c)
           /\ \A d \in Calls : d # c => ~Underway(d)
<1>1. todo[c] # <<>> /\ Head(todo[c]) # "read"
  BY DEF Asks
<1>2. Head(<<"read">>) = "read"
  OBVIOUS
<1>3. Underway(c)
  BY <1>1, <1>2 DEF Underway
<1>4. QED
  BY <1>1, <1>3 DEF StandInv, OneAtATime

\* A step of the only call under way keeps the invariant if it keeps that call's
\* part of it and what is said of the subscription.
LEMMA CallStands ==
    ASSUME StandInv, UNCHANGED scene, NEW c \in Calls, c \in scene.calls,
           \A d \in Calls : d # c => ~Underway(d),
           \A d \in Calls : d # c => todo'[d] = todo[d],
           Turn(c)', ~Underway(c)' => Stands', KeysAreNew', Scheduled', TwoWays'
    PROVE  StandInv'
<1>1. ASSUME NEW d \in Calls, d # c PROVE ~Underway(d)'
  BY <1>1 DEF Underway
<1>2. ASSUME NEW d \in Calls PROVE Turn(d)'
  BY <1>1 DEF Turn
<1>3. ASSUME NEW d \in Calls, todo'[d] # <<>> PROVE d \in scene'.calls
  BY <1>3 DEF StandInv
<1>4. OneAtATime'
  BY <1>1 DEF OneAtATime
<1>5. AllAnswered' => Stands'
  BY DEF AllAnswered
<1>6. QED
  BY <1>2, <1>3, <1>4, <1>5 DEF StandInv

LEMMA KeysKept ==
    ASSUME KeysAreNew, UNCHANGED <<scene, answers>>, scene.calls \subseteq Calls, NEW c \in Calls,
           \A d \in Calls : d # c => todo'[d] = todo[d],
           \A S : Only(c, S) => Only(c, S)'
    PROVE  KeysAreNew'
<1>1. ASSUME NEW a \in answers, NEW d \in scene.calls, a.to = Want[d]
      PROVE  Only(d, {"record", "unfile"})'
  <2>1. Only(d, {"record", "unfile"})
    BY <1>1 DEF KeysAreNew
  <2>2. CASE d = c
    BY <2>1, <2>2
  <2>3. CASE d # c
    BY <2>1, <2>3 DEF Only
  <2>4. QED
    BY <2>2, <2>3
<1>2. QED
  BY <1>1 DEF KeysAreNew

\* ... in particular one that goes on to the next request.
LEMMA OnwardStands ==
    ASSUME TypeOK, StandInv, UNCHANGED <<scene, answers>>,
           NEW c \in Calls, NEW r \in Requests \ {"read"}, Asks(c, r), Onward(c),
           Turn(c)', todo'[c] = <<>> => Stands', Scheduled', TwoWays'
    PROVE  StandInv'
<1>1. /\ c \in scene.calls
      /\ \A d \in Calls : d # c => ~Underway(d)
  BY TurnIsAlone
<1>2. /\ \A d \in Calls : d # c => todo'[d] = todo[d]
      /\ \A S : Only(c, S) => Only(c, S)'
  BY OnwardLeft
<1>3. KeysAreNew'
  BY <1>2, KeysKept, SceneCalls DEF StandInv
<1>4. todo'[c] # <<"read">>
  <2>1. todo'[c] = Tail(todo[c])
    BY DEF Onward, TypeOK
  <2>2. Turn(c) /\ Underway(c)
    BY TurnIsAlone
  <2>3. Tail(todo[c]) \in {<<>>, <<"update">>, <<"record">>, <<"unfile">>, <<"file">>,
            <<"record", "unfile">>, <<"unfile", "update">>, <<"reschedule", "file">>}
        \/ todo[c] = <<"update">>
    BY <2>2, Lists DEF Turn
  <2>4. Tail(<<"update">>) = <<>>
    OBVIOUS
  <2>5. <<"read">> \notin {<<>>, <<"update">>, <<"record">>, <<"unfile">>, <<"file">>,
            <<"record", "unfile">>, <<"unfile", "update">>, <<"reschedule", "file">>}
    OBVIOUS
  <2>6. QED
    BY <2>1, <2>3, <2>4, <2>5
<1>5. QED
  BY <1>1, <1>2, <1>3, <1>4, CallStands DEF Underway

LEMMA ReadStands ==
    ASSUME TypeOK, TypeOK', StandInv, Orderly, UNCHANGED scene, NEW c \in Calls, Read(c)
    PROVE  StandInv'
<1>1. /\ sub \in Subscription /\ Want[c] \in Basket /\ todo \in [Calls -> Seq(Requests)]
      /\ seen \in [Calls -> Subscription]
      /\ Start \in Basket /\ Start.plan # Free /\ FreePlan.plan = Free
  BY PlanChangeAssumption DEF TypeOK, FreePlan
<1>2. /\ c \in scene.calls /\ scene.calls \subseteq Calls
      /\ \A d \in Calls : ~Underway(d)
      /\ Stands /\ Scheduled /\ TwoWays
  <2>1. \A d \in Calls : ~Underway(d)
    BY DEF Read, Orderly
  <2>2. QED
    BY <2>1, SceneCalls DEF StandInv, AllAnswered, Read, Asks
<1>3. UNCHANGED <<sub, answers, org, periods>>
  BY DEF Read
<1>4. /\ todo'[c] = Decision(sub, Want[c]) /\ seen'[c] = sub
      /\ \A d \in Calls : d # c => todo'[d] = todo[d]
  BY <1>1 DEF Read
<1>5. KeysAreNew'
  <2>1. \A a \in answers : a.to # Want[c]
    <3>1. "read" \notin {"record", "unfile"} /\ Asks(c, "read") /\ KeysAreNew
      BY DEF Read, StandInv
    <3>2. QED
      BY <1>2, <3>1, AskedIsLeft DEF KeysAreNew
  <2>2. ASSUME NEW a \in answers, NEW d \in scene.calls, a.to = Want[d]
        PROVE  Only(d, {"record", "unfile"})'
    <3>1. d # c /\ Only(d, {"record", "unfile"})
      BY <2>1, <2>2 DEF StandInv, KeysAreNew
    <3>2. QED
      BY <1>2, <1>4, <2>2, <3>1 DEF Only
  <2>3. QED
    BY <1>3, <2>2 DEF KeysAreNew
<1>6. Scheduled' /\ TwoWays' /\ Due' = Due /\ Billed' = Billed
  BY <1>2, <1>3 DEF Scheduled, TwoWays, NobodyCancels, Due, Billed
<1>7. promised' = promised => Stands'
  BY <1>2, <1>3, <1>6 DEF Stands
<1>8. Turn(c)' /\ (~Underway(c)' => Stands')
  <2>1. CASE ~sub.live
    <3>1. promised' = promised
      BY <2>1 DEF Read, Stays
    <3>2. todo'[c] = <<"record">> \/ todo'[c] = <<>>
      BY <1>4, <2>1, Zenon DEF Decision
    <3>3. QED
      BY <1>7, <3>1, <3>2 DEF Turn, Underway
  <2>2. CASE sub.live /\ sub.cancel
    <3>1. ~NobodyCancels /\ sub.bills = Start /\ sub.meta = Start.plan
      BY <1>2, <2>2 DEF TwoWays
    <3>2. Want[c] \in {FreePlan, Start}
      BY <1>2, <3>1 DEF Orderly, NobodyCancels
    <3>3. CASE Want[c] = Start
      <4>1. todo'[c] = ResumeRequests
        BY <1>4, <2>2, <3>1, <3>3, Zenon DEF Decision
      <4>2. promised' = promised
        BY <1>1, <2>2, <3>1, <3>3 DEF Read, Stays
      <4>3. QED
        BY <1>3, <1>7, <2>2, <3>1, <3>3, <4>1, <4>2 DEF Turn
    <3>4. CASE Want[c] = FreePlan
      <4>1. todo'[c] = <<>>
        BY <1>1, <1>4, <2>2, <3>1, <3>4, Zenon DEF Decision
      <4>2. promised' = FreePlan
        BY <1>1, <2>2, <3>4 DEF Read, Stays
      <4>3. promised = FreePlan
        BY <1>2, <2>2, DueIs DEF Stands
      <4>4. QED
        BY <1>7, <4>1, <4>2, <4>3 DEF Turn, Underway
    <3>5. QED
      BY <3>2, <3>3, <3>4
  <2>3. CASE sub.live /\ ~sub.cancel /\ Want[c].plan = Free
    <3>1. sub.phases = <<>> /\ sub.bills # Want[c]
      BY <1>1, <1>2, <2>3 DEF TwoWays, NobodyCancels
    <3>2. todo'[c] = <<"cancel", "file">>
      <4>1. todo'[c] = <<>> \o <<"cancel", "file">>
        BY <1>4, <2>3, <3>1, Zenon DEF Decision, Releasing
      <4>2. QED
        BY <4>1, Lists, Zenon
    <3>3. Steady'
      BY <1>3, <2>3, <3>1 DEF Steady
    <3>4. promised' = promised
      BY <2>3, <3>1 DEF Read, Stays
    <3>5. QED
      BY <1>3, <1>4, <1>7, <2>3, <3>2, <3>3, <3>4 DEF Turn
  <2>4. CASE sub.live /\ ~sub.cancel /\ Want[c].plan # Free /\ sub.bills = Want[c]
    <3>1. promised' = sub.bills
      BY <2>4 DEF Read, Stays
    <3>2. CASE sub.phases # <<>>
      <4>1. todo'[c] = <<"release", "unfile">>
        BY <1>4, <2>4, <3>2, Zenon DEF Decision
      <4>2. QED
        BY <1>3, <3>1, <3>2, <4>1 DEF Turn, Underway
    <3>3. CASE sub.phases = <<>>
      <4>1. todo'[c] = <<"unfile", "record">>
        BY <1>4, <2>4, <3>3, Zenon DEF Decision
      <4>2. Steady'
        BY <1>3, <2>4, <3>3 DEF Steady
      <4>3. QED
        BY <1>3, <3>1, <4>1, <4>2 DEF Turn, Underway
    <3>4. QED
      BY <3>2, <3>3
  <2>5. CASE sub.live /\ ~sub.cancel /\ Want[c].plan # Free /\ sub.bills # Want[c]
    <3>1. promised' = promised /\ Stands'
      BY <1>7, <2>5 DEF Read, Stays
    <3>2. CASE Rank[Want[c].plan] < Rank[sub.meta]
      <4>1. todo'[c] = <<"schedule", "reschedule", "file">>
        BY <1>4, <2>5, <3>2, Zenon DEF Decision
      <4>2. QED
        BY <1>3, <1>4, <2>5, <3>1, <4>1 DEF Turn
    <3>3. CASE ~(Rank[Want[c].plan] < Rank[sub.meta]) /\ sub.phases = <<>>
      <4>1. todo'[c] = <<"update">>
        BY <1>4, <2>5, <3>3, Zenon DEF Decision
      <4>2. Steady'
        BY <1>3, <2>5, <3>3 DEF Steady
      <4>3. QED
        BY <1>3, <1>4, <2>5, <3>1, <4>1, <4>2 DEF Turn
    <3>4. CASE ~(Rank[Want[c].plan] < Rank[sub.meta]) /\ sub.phases # <<>>
      <4>1. todo'[c] = <<"release">> \o <<"unfile", "update">>
        BY <1>4, <2>5, <3>4, Zenon DEF Decision, Releasing
      <4>2. todo'[c] = <<"release", "unfile", "update">>
        BY <4>1, Lists, Zenon
      <4>3. QED
        BY <1>3, <1>4, <2>5, <3>1, <3>4, <4>2 DEF Turn
    <3>5. QED
      BY <3>2, <3>3, <3>4
  <2>6. sub.live \in BOOLEAN /\ sub.cancel \in BOOLEAN
    BY <1>1 DEF Subscription
  <2>7. QED
    BY <2>1, <2>2, <2>3, <2>4, <2>5, <2>6
<1>9. QED
  BY <1>2, <1>4, <1>5, <1>6, <1>8, CallStands

\* Calling a cancellation off, letting a schedule go, and cancelling.
LEMMA MoveStands ==
    ASSUME TypeOK, TypeOK', StandInv, Orderly, UNCHANGED scene, NEW c \in Calls,
           Resume(c) \/ Release(c) \/ Cancel(c)
    PROVE  StandInv'
<1>1. PICK r \in {"resume", "release", "cancel"} : Asks(c, r) /\ Onward(c)
  BY DEF Resume, Release, Cancel
<1>2. r \in Requests \ {"read"}
  BY <1>1 DEF Requests
<1>3. /\ sub \in Subscription /\ sub.phases \in Seq(Basket)
      /\ c \in scene.calls /\ Turn(c) /\ Scheduled /\ TwoWays
      /\ Start.plan # Free /\ FreePlan.plan = Free
  BY <1>1, <1>2, TurnIsAlone, PlanChangeAssumption DEF TypeOK, StandInv, Subscription, FreePlan
<1>4. UNCHANGED answers /\ todo'[c] = Tail(todo[c])
  BY <1>1 DEF Resume, Release, Cancel, Onward, TypeOK
<1>5. CASE Resume(c)
  <2>1. todo[c] = ResumeRequests /\ sub.live /\ sub.cancel /\ sub.bills = Want[c]
    BY <1>3, <1>5, AskedTurn DEF Resume
  <2>2. ~NobodyCancels /\ sub.phases = <<>> /\ sub.bills = Start /\ sub.meta = Start.plan
    BY <1>3, <2>1 DEF TwoWays
  <2>3. /\ sub'.live /\ ~sub'.cancel /\ sub'.phases = <<>> /\ sub'.bills = sub.bills
        /\ sub'.meta = sub.meta /\ sub'.held = sub.held
    BY <1>3, <1>5, <2>1, <2>2 DEF Resume, Becomes, Subscription
  <2>4. Steady' /\ promised' = sub'.bills
    BY <1>5, <2>1, <2>3 DEF Steady, Resume
  <2>5. todo'[c] = <<"record", "unfile">>
    BY <1>4, <2>1, Lists, Zenon
  <2>6. Turn(c)' /\ todo'[c] # <<>>
    BY <2>4, <2>5 DEF Turn
  <2>7. Scheduled' /\ TwoWays'
    <3>1. Len(<<>>) = 0
      OBVIOUS
    <3>2. QED
      BY <1>3, <2>2, <2>3, <3>1 DEF Scheduled, TwoWays, NobodyCancels
  <2>8. QED
    BY <1>1, <1>2, <1>4, <2>6, <2>7, OnwardStands
<1>6. CASE Release(c)
  <2>1. sub.phases # <<>> /\ sub.live /\ ~sub.cancel /\ NobodyCancels
    BY <1>3, <1>6 DEF Release, Scheduled, TwoWays
  <2>2. /\ sub'.live /\ ~sub'.cancel /\ sub'.phases = <<>> /\ sub'.bills = sub.bills
        /\ sub'.item = sub.item /\ sub'.held = sub.held
    BY <1>3, <1>6, <2>1 DEF Release, Becomes, Subscription
  <2>3. Steady' /\ UNCHANGED <<promised, seen>>
    BY <1>6, <2>2 DEF Steady, Release
  <2>4. Turn(c)' /\ todo'[c] # <<>>
    <3>1. CASE todo[c] = <<"release", "unfile">> /\ promised = sub.bills
      <4>1. todo'[c] = <<"unfile">>
        BY <1>4, <3>1, Lists, Zenon
      <4>2. QED
        BY <2>2, <2>3, <3>1, <4>1 DEF Turn
    <3>2. CASE todo[c] = <<"release", "unfile", "update">> /\ seen[c].item = sub.item /\ Want[c].plan # Free
      <4>1. todo'[c] = <<"unfile", "update">>
        BY <1>4, <3>2, Lists, Zenon
      <4>2. QED
        BY <2>2, <2>3, <3>2, <4>1 DEF Turn
    <3>3. QED
      BY <1>3, <1>6, <3>1, <3>2, AskedTurn DEF Release
  <2>5. Scheduled' /\ TwoWays'
    <3>1. Len(<<>>) = 0
      OBVIOUS
    <3>2. QED
      BY <1>3, <2>1, <2>2, <3>1 DEF Scheduled, TwoWays, NobodyCancels
  <2>6. QED
    BY <1>1, <1>2, <1>4, <2>4, <2>5, OnwardStands
<1>7. CASE Cancel(c)
  <2>1. todo[c] = <<"cancel", "file">> /\ Steady /\ seen[c].meta = sub.meta /\ Want[c].plan = Free
    BY <1>3, <1>7, AskedTurn DEF Cancel
  <2>2. ~NobodyCancels /\ sub.bills = Start /\ sub.meta = Start.plan
    BY <1>3, <2>1 DEF TwoWays, NobodyCancels
  <2>3. /\ sub'.live /\ sub'.cancel /\ sub'.phases = <<>> /\ sub'.bills = sub.bills
        /\ sub'.meta = sub.meta /\ sub'.held = sub.held
    BY <1>3, <1>7, <2>1 DEF Cancel, Becomes, Subscription, Steady
  <2>4. promised' = FreePlan /\ Due' = FreePlan /\ Billed' = Start
    BY <1>7, <2>2, <2>3, DueBecomes DEF Cancel
  <2>5. todo'[c] = <<"file">>
    BY <1>4, <2>1, Lists, Zenon
  <2>6. Turn(c)' /\ todo'[c] # <<>>
    BY <1>3, <2>4, <2>5 DEF Turn
  <2>7. Scheduled' /\ TwoWays'
    <3>1. Len(<<>>) = 0
      OBVIOUS
    <3>2. QED
      BY <1>3, <2>2, <2>3, <3>1 DEF Scheduled, TwoWays, NobodyCancels
  <2>8. QED
    BY <1>1, <1>2, <1>4, <2>6, <2>7, OnwardStands
<1>8. QED
  BY <1>5, <1>6, <1>7

\* A schedule starts with what is billed, which leaves what is due as it was.
LEMMA ScheduleStands ==
    ASSUME TypeOK, TypeOK', StandInv, Orderly, UNCHANGED scene, NEW c \in Calls, Schedule(c)
    PROVE  StandInv'
<1>1. Asks(c, "schedule") /\ Onward(c) /\ "schedule" \in Requests \ {"read"}
  BY DEF Schedule, Requests
<1>2. /\ sub \in Subscription /\ sub.phases \in Seq(Basket) /\ sub.bills \in Basket
      /\ seen \in [Calls -> Subscription]
      /\ c \in scene.calls /\ Turn(c) /\ Scheduled /\ TwoWays
  BY <1>1, TurnIsAlone DEF TypeOK, StandInv, Subscription
<1>3. /\ todo[c] = <<"schedule", "reschedule", "file">>
      /\ Stands /\ sub.live /\ ~sub.cancel /\ seen[c].phases = sub.phases
      /\ sub.bills # Want[c] /\ Want[c].plan # Free
  BY <1>1, <1>2, AskedTurn
<1>4. todo'[c] = <<"reschedule", "file">>
  <2>1. todo'[c] = Tail(todo[c])
    BY <1>1 DEF Onward, TypeOK
  <2>2. QED
    BY <1>3, <2>1, Lists, Zenon
<1>5. NobodyCancels
  <2>1. ~NobodyCancels => Want[c] \in {FreePlan, Start}
    BY <1>2 DEF Orderly, NobodyCancels
  <2>2. ~NobodyCancels => sub.bills = Start
    BY <1>2 DEF TwoWays
  <2>3. QED
    BY <1>3, <2>1, <2>2 DEF FreePlan
<1>6. UNCHANGED <<answers, org, periods, promised>>
  BY DEF Schedule
<1>7. CASE sub.phases # <<>>
  <2>1. UNCHANGED sub /\ seen'[c].phases = sub.phases
    <3>1. UNCHANGED sub /\ seen' = [seen EXCEPT ![c].phases = sub.phases]
      BY <1>3, <1>7 DEF Schedule
    <3>2. QED
      BY <1>2, <3>1 DEF Subscription
  <2>2. Stands' /\ Scheduled' /\ TwoWays'
    BY <1>2, <1>3, <1>6, <2>1 DEF Stands, Due, Billed, Scheduled, TwoWays, NobodyCancels
  <2>3. Turn(c)' /\ todo'[c] # <<>>
    BY <1>3, <1>4, <1>7, <2>1, <2>2 DEF Turn
  <2>4. QED
    BY <1>1, <1>6, <2>2, <2>3, OnwardStands
<1>8. CASE sub.phases = <<>>
  <2>1. /\ sub' = [sub EXCEPT !.phases = <<sub.bills>>, !.cancel = FALSE]
        /\ seen' = [seen EXCEPT ![c].phases = <<sub.bills>>]
    BY <1>3, <1>8 DEF Schedule, Becomes
  <2>2. seen'[c].phases = <<sub.bills>>
    BY <1>2, <2>1 DEF Subscription
  <2>3. /\ sub'.live /\ ~sub'.cancel /\ sub'.phases = <<sub.bills>> /\ sub'.bills = sub.bills
        /\ sub'.held = sub.held
    BY <1>2, <1>3, <2>1 DEF Subscription
  <2>4. Len(<<sub.bills>>) = 1 /\ <<sub.bills>>[1] = sub.bills /\ Len(<<>>) = 0
    OBVIOUS
  <2>5. Due' = Due /\ Billed' = Billed
    BY <1>3, <1>8, <2>3, <2>4, DueIs, DueBecomes
  <2>6. Stands'
    BY <1>3, <1>6, <2>5 DEF Stands
  <2>7. Scheduled' /\ TwoWays'
    BY <1>2, <1>3, <1>5, <1>6, <2>3, <2>4 DEF Scheduled, TwoWays, NobodyCancels
  <2>8. Turn(c)' /\ todo'[c] # <<>>
    <3>1. <<sub.bills>> # <<>>
      BY <2>4
    <3>2. QED
      BY <1>3, <1>4, <2>2, <2>3, <2>6, <3>1 DEF Turn
  <2>9. QED
    BY <1>1, <1>6, <2>7, <2>8, OnwardStands
<1>9. QED
  BY <1>7, <1>8

LEMMA RescheduleStands ==
    ASSUME TypeOK, TypeOK', StandInv, Orderly, UNCHANGED scene, NEW c \in Calls, Reschedule(c)
    PROVE  StandInv'
<1>1. Asks(c, "reschedule") /\ Onward(c) /\ "reschedule" \in Requests \ {"read"}
  BY DEF Reschedule, Requests
<1>2. /\ sub \in Subscription /\ sub.phases \in Seq(Basket)
      /\ c \in scene.calls /\ Turn(c) /\ Scheduled /\ TwoWays
  BY <1>1, TurnIsAlone DEF TypeOK, StandInv, Subscription
<1>3. /\ todo[c] = <<"reschedule", "file">>
      /\ sub.phases # <<>> /\ seen[c].phases = sub.phases /\ sub.bills # Want[c]
  BY <1>1, <1>2, AskedTurn
<1>4. /\ sub.live /\ ~sub.cancel /\ sub.phases[1] = sub.bills /\ NobodyCancels
  BY <1>2, <1>3 DEF Scheduled, TwoWays
<1>5. sub' = [sub EXCEPT !.phases = <<sub.bills, Want[c]>>]
  BY <1>3, <1>4, Zenon DEF Reschedule, Becomes
<1>6. /\ sub'.live /\ ~sub'.cancel /\ sub'.phases = <<sub.bills, Want[c]>>
      /\ sub'.bills = sub.bills /\ sub'.held = sub.held
  BY <1>2, <1>4, <1>5 DEF Subscription
<1>7. /\ Len(<<sub.bills, Want[c]>>) = 2 /\ <<sub.bills, Want[c]>> # <<>>
      /\ <<sub.bills, Want[c]>>[1] = sub.bills /\ <<sub.bills, Want[c]>>[2] = Want[c]
  OBVIOUS
<1>8. promised' = Want[c] /\ UNCHANGED <<answers, periods>>
  BY DEF Reschedule
<1>9. Due' = promised' /\ Due' # Billed'
  BY <1>3, <1>6, <1>7, <1>8, DueBecomes
<1>10. todo'[c] = <<"file">>
  <2>1. todo'[c] = Tail(todo[c])
    BY <1>1 DEF Onward, TypeOK
  <2>2. QED
    BY <1>3, <2>1, Lists, Zenon
<1>11. Turn(c)' /\ todo'[c] # <<>>
  BY <1>9, <1>10 DEF Turn
<1>12. Scheduled' /\ TwoWays'
  BY <1>2, <1>3, <1>4, <1>6, <1>7, <1>8 DEF Scheduled, TwoWays, NobodyCancels
<1>13. QED
  BY <1>1, <1>8, <1>11, <1>12, OnwardStands

\* An update is always the first under its key, it is not declined, and the
\* subscription still has the item the call read.
LEMMA UpdateStands ==
    ASSUME TypeOK, TypeOK', StandInv, Orderly, UNCHANGED scene, NEW c \in Calls,
           UpdateApplies(c) \/ UpdateHeld(c) \/ UpdateReplayed(c)
    PROVE  StandInv'
<1>1. Asks(c, "update") /\ "update" \in Requests \ {"read"} /\ "update" \notin {"record", "unfile"}
  BY DEF UpdateApplies, UpdateHeld, UpdateReplayed, Requests
<1>2. /\ sub \in Subscription /\ todo \in [Calls -> Seq(Requests)]
      /\ c \in scene.calls /\ Turn(c) /\ Scheduled /\ TwoWays
      /\ scene.calls \subseteq Calls
      /\ \A d \in Calls : d # c => ~Underway(d)
  BY <1>1, TurnIsAlone, SceneCalls DEF TypeOK, StandInv
<1>3. Steady /\ seen[c].item = sub.item /\ Want[c].plan # Free
  BY <1>1, <1>2, AskedTurn
<1>4. \A a \in answers : a.to # Want[c]
  BY <1>1, <1>2, AskedIsLeft DEF StandInv, KeysAreNew
<1>5. UpdateApplies(c)
  <2>1. ~UpdateReplayed(c)
    <3>1. Recorded(c) = {}
      BY <1>4 DEF Recorded, KeyOf
    <3>2. QED
      BY <3>1 DEF UpdateReplayed
  <2>2. ~UpdateHeld(c)
    BY DEF UpdateHeld, Orderly
  <2>3. QED
    BY <2>1, <2>2
<1>6. todo'[c] = <<"record", "unfile">> /\ \A d \in Calls : d # c => todo'[d] = todo[d]
  BY <1>2, <1>5 DEF UpdateApplies, OnAnswer
<1>7. /\ sub'.live /\ ~sub'.cancel /\ sub'.phases = <<>> /\ sub'.bills = Want[c]
      /\ sub'.meta = Want[c].plan /\ sub'.held = {}
  <2>1. sub' = [Billing(sub, Want[c]) EXCEPT !.meta = Want[c].plan, !.noted = @ \/ seen[c].noted]
    BY <1>5 DEF UpdateApplies, Becomes
  <2>2. QED
    BY <1>2, <1>3, <2>1 DEF Billing, Subscription, Steady
<1>8. promised' = Want[c] /\ answers' = answers \cup {Answered(c, TRUE)}
  BY <1>5 DEF UpdateApplies
<1>9. Turn(c)' /\ Underway(c)'
  BY <1>6, <1>7, <1>8 DEF Turn, Steady, Underway
<1>10. Scheduled'
  <2>1. Len(<<>>) = 0
    OBVIOUS
  <2>2. QED
    BY <1>7, <2>1 DEF Scheduled
<1>11. TwoWays'
  <2>1. ASSUME ~NobodyCancels PROVE Want[c] = Start
    BY <1>2, <1>3, <2>1 DEF Orderly, NobodyCancels, FreePlan
  <2>2. QED
    BY <1>7, <2>1 DEF TwoWays, NobodyCancels
<1>12. KeysAreNew'
  <2>1. ASSUME NEW a \in answers', NEW d \in scene.calls, a.to = Want[d]
        PROVE  Only(d, {"record", "unfile"})'
    <3>1. CASE d = c
      BY <1>6, <3>1 DEF Only
    <3>2. CASE d # c
      <4>1. Want[d] # Want[c]
        BY <1>2, <3>2 DEF Orderly
      <4>2. Answered(c, TRUE).to = Want[c]
        BY DEF Answered
      <4>3. a \in answers
        BY <1>8, <2>1, <4>1, <4>2
      <4>4. Only(d, {"record", "unfile"})
        BY <2>1, <4>3 DEF StandInv, KeysAreNew
      <4>5. QED
        BY <1>2, <1>6, <3>2, <4>4 DEF Only
    <3>3. QED
      BY <3>1, <3>2
  <2>2. QED
    BY <2>1 DEF KeysAreNew
<1>13. QED
  BY <1>2, <1>6, <1>9, <1>10, <1>11, <1>12, CallStands

\* What a call writes of the organization: pendingPlan last, unless there was
\* nothing to move.
LEMMA WriteStands ==
    ASSUME TypeOK, TypeOK', StandInv, Orderly, UNCHANGED scene, NEW c \in Calls,
           Record(c) \/ FilePending(c)
    PROVE  StandInv'
<1>1. PICK r \in {"record", "unfile", "file"} : Asks(c, r) /\ Onward(c)
  BY DEF Record, FilePending
<1>2. r \in Requests \ {"read"}
  BY <1>1 DEF Requests
<1>3. /\ c \in scene.calls /\ Turn(c) /\ Scheduled /\ TwoWays
      /\ org \in [plan : Plans, seats : 0..MaxSeats, pending : Plans \cup {NoPlan}]
      /\ Want[c].plan # NoPlan
  BY <1>1, <1>2, TurnIsAlone, PlanChangeAssumption DEF TypeOK, StandInv, Basket
<1>4. /\ UNCHANGED <<sub, answers, seen, periods, promised>> /\ todo'[c] = Tail(todo[c])
  BY <1>1 DEF Record, FilePending, Onward, TypeOK
<1>5. Scheduled' /\ TwoWays' /\ Due' = Due /\ Billed' = Billed /\ Steady' = Steady
  BY <1>3, <1>4 DEF Scheduled, TwoWays, NobodyCancels, Due, Billed, Steady
<1>6. Turn(c)' /\ (todo'[c] = <<>> => Stands')
  <2>1. CASE Record(c)
    <3>1. org'.pending = org.pending
      BY <1>3, <2>1 DEF Record
    <3>2. Stands => Stands'
      BY <1>4, <1>5, <3>1 DEF Stands
    <3>3. CASE todo[c] = <<"record">> /\ Stands
      <4>1. todo'[c] = <<>>
        BY <1>4, <3>3, Lists, Zenon
      <4>2. QED
        BY <3>2, <3>3, <4>1 DEF Turn, Underway
    <3>4. CASE todo[c] = <<"record", "unfile">> /\ Steady /\ promised = sub.bills
      <4>1. todo'[c] = <<"unfile">>
        BY <1>4, <3>4, Lists, Zenon
      <4>2. QED
        BY <1>4, <1>5, <3>4, <4>1 DEF Turn
    <3>5. QED
      BY <1>3, <2>1, <3>3, <3>4, AskedTurn DEF Record
  <2>2. CASE Asks(c, "unfile") /\ org' = [org EXCEPT !.pending = NoPlan]
    <3>1. CASE todo[c] \in {<<"unfile">>, <<"unfile", "record">>} /\ Steady /\ promised = sub.bills
      <4>1. org'.pending = NoPlan
        BY <1>3, <2>2
      <4>2. Due = sub.bills /\ Billed = sub.bills
        <5>1. Len(<<>>) = 0
          OBVIOUS
        <5>2. QED
          BY <3>1, <5>1, DueIs DEF Steady
      <4>3. Stands'
        BY <1>4, <1>5, <3>1, <4>1, <4>2 DEF Stands
      <4>4. todo'[c] = <<>> \/ todo'[c] = <<"record">>
        BY <1>4, <3>1, Lists, Zenon
      <4>5. QED
        BY <4>3, <4>4 DEF Turn, Underway
    <3>2. CASE todo[c] = <<"unfile", "update">> /\ Steady /\ seen[c].item = sub.item /\ Want[c].plan # Free
      <4>1. todo'[c] = <<"update">>
        BY <1>4, <3>2, Lists, Zenon
      <4>2. QED
        BY <1>4, <1>5, <3>2, <4>1 DEF Turn
    <3>3. QED
      BY <1>3, <2>2, <3>1, <3>2, AskedTurn
  <2>3. CASE Asks(c, "file") /\ org' = [org EXCEPT !.pending = Want[c].plan]
    <3>1. todo[c] = <<"file">> /\ Due = promised /\ Due # Billed
      BY <1>3, <2>3, AskedTurn
    <3>2. org'.pending # NoPlan
      BY <1>3, <2>3
    <3>3. Stands'
      BY <1>4, <1>5, <3>1, <3>2 DEF Stands
    <3>4. todo'[c] = <<>>
      BY <1>4, <3>1, Lists, Zenon
    <3>5. QED
      BY <3>3, <3>4 DEF Turn, Underway
  <2>4. QED
    BY <2>1, <2>2, <2>3 DEF FilePending
<1>7. QED
  BY <1>1, <1>2, <1>4, <1>5, <1>6, OnwardStands

\* The only request that is refused is that of a step down under a schedule that
\* has a next phase already: nothing was changed then.
LEMMA ThrowStands ==
    ASSUME TypeOK, TypeOK', StandInv, Orderly, UNCHANGED scene, NEW c \in Calls, Throws(c)
    PROVE  StandInv'
<1>1. Refused(c)
  BY DEF Throws, Orderly
<1>2. PICK r \in {"resume", "release", "cancel", "schedule", "reschedule", "update"} : Asks(c, r)
  BY <1>1 DEF Refused
<1>3. r \in Requests \ {"read"}
  BY <1>2 DEF Requests
<1>4. /\ c \in scene.calls /\ Turn(c) /\ Scheduled /\ TwoWays /\ KeysAreNew
      /\ \A d \in Calls : d # c => ~Underway(d)
      /\ todo \in [Calls -> Seq(Requests)]
  BY <1>2, <1>3, TurnIsAlone DEF TypeOK, StandInv
<1>5. Stands
  <2>1. \A a \in answers : Asks(c, "update") => a.to # Want[c]
    <3>1. "update" \notin {"record", "unfile"}
      OBVIOUS
    <3>2. QED
      BY <1>4, <3>1, AskedIsLeft DEF KeysAreNew
  <2>2. Asks(c, "update") => Recorded(c) = {}
    BY <2>1 DEF Recorded, KeyOf
  <2>3. QED
    BY <1>1, <1>4, <2>2, AskedTurn DEF Refused, Steady, Scheduled
<1>6. /\ todo'[c] = <<>> /\ \A d \in Calls : d # c => todo'[d] = todo[d]
      /\ UNCHANGED <<sub, answers, org, seen, periods, promised>>
  BY <1>4 DEF Throws
<1>7. Stands' /\ Scheduled' /\ TwoWays'
  BY <1>4, <1>5, <1>6 DEF Stands, Due, Billed, Scheduled, TwoWays, NobodyCancels
<1>8. KeysAreNew'
  <2>1. \A S : Only(c, S)'
    <3>1. 1..Len(<<>>) = {}
      OBVIOUS
    <3>2. QED
      BY <1>6, <3>1 DEF Only
  <2>2. QED
    BY <1>4, <1>6, <2>1, KeysKept, SceneCalls
<1>9. Turn(c)'
  BY <1>6 DEF Turn, Underway
<1>10. QED
  BY <1>4, <1>6, <1>7, <1>8, <1>9, CallStands

\* The event handler writes the plan and the seats, never pendingPlan.
LEMMA HandleStands ==
    ASSUME TypeOK, StandInv, Orderly, UNCHANGED scene, HandleEvent \/ Redelivered
    PROVE  StandInv'
<1>1. UNCHANGED <<scene, sub, answers, todo, seen, periods, promised>>
  BY DEF HandleEvent, Redelivered
<1>2. org'.pending = org.pending
  <2>1. org \in [plan : Plans, seats : 0..MaxSeats, pending : Plans \cup {NoPlan}]
    BY DEF TypeOK
  <2>2. org' = Mirrors(Head(events))
    BY DEF HandleEvent, Redelivered, Orderly
  <2>3. QED
    BY <2>1, <2>2 DEF Mirrors
<1>3. Due' = Due /\ Billed' = Billed /\ Stands' = Stands /\ Steady' = Steady
  BY <1>1, <1>2 DEF Due, Billed, Stands, Steady
<1>4. ASSUME NEW c \in Calls PROVE Turn(c)'
  <2>1. Turn(c)
    BY DEF StandInv
  <2>2. QED
    BY <1>1, <1>3, <2>1 DEF Turn, Underway
<1>5. OneAtATime' /\ KeysAreNew' /\ Scheduled' /\ TwoWays'
  BY <1>1 DEF StandInv, OneAtATime, Underway, KeysAreNew, Only, Scheduled, TwoWays, NobodyCancels
<1>6. QED
  BY <1>1, <1>3, <1>4, <1>5 DEF StandInv, AllAnswered, Underway

\* A period ends between calls, and bills what was due.
LEMMA PeriodStands ==
    ASSUME TypeOK, TypeOK', StandInv, Orderly, UNCHANGED scene, PeriodEnds
    PROVE  StandInv'
<1>1. /\ \A c \in Calls : ~Underway(c)
      /\ Stands /\ Scheduled /\ TwoWays /\ OneAtATime /\ KeysAreNew
      /\ sub \in Subscription /\ sub.phases \in Seq(Basket) /\ sub.live
      /\ sub.phases = <<>> => Len(sub.phases) = 0
  BY DEF PeriodEnds, Orderly, StandInv, AllAnswered, TypeOK, Subscription
<1>2. UNCHANGED <<answers, todo, seen, promised, org>> /\ periods' = periods + 1
  BY DEF PeriodEnds
<1>3. periods' # 0
  BY <1>2 DEF TypeOK
<1>4. Due' = Due /\ Scheduled' /\ TwoWays'
  <2>1. Len(<<>>) = 0
    OBVIOUS
  <2>2. CASE sub.cancel
    <3>1. ~sub'.live /\ sub'.phases = <<>> /\ sub'.held = {} /\ sub'.bills = sub.bills /\ sub'.meta = sub.meta
      BY <1>1, <2>2 DEF PeriodEnds, Becomes, Subscription
    <3>2. QED
      BY <1>1, <1>3, <2>1, <2>2, <3>1, DueIs, DueBecomes DEF Scheduled, TwoWays, NobodyCancels
  <2>3. CASE ~sub.cancel /\ Len(sub.phases) = 2
    <3> DEFINE b == sub.phases[2]
    <3>1. sub' = [Billing(sub, b) EXCEPT !.phases = <<b>>]
      BY <2>3 DEF PeriodEnds, Becomes
    <3>2. b \in Basket
      BY <1>1, <2>3
    <3> HIDE DEF b
    <3>3. sub'.live /\ ~sub'.cancel /\ sub'.phases = <<b>> /\ sub'.held = {} /\ sub'.bills = b
      BY <1>1, <2>3, <3>1 DEF Billing, Subscription
    <3>4. Len(<<b>>) = 1 /\ <<b>>[1] = b
      OBVIOUS
    <3>5. Due = b
      BY <1>1, <2>3, DueIs DEF b
    <3>6. NobodyCancels
      BY <1>1, <2>1, <2>3 DEF TwoWays
    <3>7. QED
      BY <1>3, <3>3, <3>4, <3>5, <3>6, DueBecomes DEF Scheduled, TwoWays, NobodyCancels
  <2>4. CASE ~sub.cancel /\ Len(sub.phases) # 2
    <3>1. /\ sub'.live /\ ~sub'.cancel /\ sub'.phases = <<>> /\ sub'.held = sub.held
          /\ sub'.bills = sub.bills /\ sub'.meta = sub.meta
      BY <1>1, <2>4 DEF PeriodEnds, Becomes, Subscription
    <3>2. QED
      BY <1>1, <1>3, <2>1, <2>4, <3>1, DueIs, DueBecomes DEF Scheduled, TwoWays, NobodyCancels
  <2>5. QED
    BY <2>2, <2>3, <2>4
<1>5. Stands'
  BY <1>1, <1>2, <1>3, <1>4 DEF Stands
<1>6. \A c \in Calls : Turn(c)'
  BY <1>1, <1>2 DEF Turn, Underway
<1>7. OneAtATime' /\ KeysAreNew'
  BY <1>1, <1>2 DEF OneAtATime, Underway, KeysAreNew, Only
<1>8. QED
  BY <1>2, <1>4, <1>5, <1>6, <1>7 DEF StandInv

LEMMA StandInit == Init => StandInv
<1> SUFFICES ASSUME Init PROVE StandInv
  OBVIOUS
<1>1. \A c \in Calls : todo[c] \in {<<>>, <<"read">>} /\ (todo[c] # <<>> => c \in scene.calls)
  BY DEF Init
<1>2. \A c \in Calls : ~Underway(c)
  BY <1>1 DEF Underway
<1>3. /\ sub.live /\ ~sub.cancel /\ sub.phases = <<>> /\ sub.bills = Start
      /\ sub.meta = Start.plan /\ sub.held = {}
  BY DEF Init, Opened
<1>4. Len(<<>>) = 0
  OBVIOUS
<1>5. Scheduled /\ TwoWays
  BY <1>3, <1>4 DEF Scheduled, TwoWays
<1>6. Stands
  <2>1. Due = Start /\ Billed = Start
    BY <1>3, <1>4, DueIs, PlanInit DEF PlanInv
  <2>2. org.pending = NoPlan /\ promised = Start
    BY DEF Init
  <2>3. QED
    BY <2>1, <2>2 DEF Stands
<1>7. KeysAreNew
  BY DEF Init, KeysAreNew
<1>8. QED
  BY <1>1, <1>2, <1>5, <1>6, <1>7 DEF StandInv, OneAtATime, Turn

LEMMA StandNext ==
    ASSUME TypeOK, TypeOK', StandInv, Orderly, [Next]_vars
    PROVE  StandInv'
<1>1. UNCHANGED scene
  BY DEF Next, vars
<1>2. ASSUME NEW c \in Calls, Step(c) PROVE StandInv'
  <2>1. CASE Read(c)
    BY <1>1, <2>1, ReadStands
  <2>2. CASE Resume(c) \/ Release(c) \/ Cancel(c)
    BY <1>1, <2>2, MoveStands
  <2>3. CASE Schedule(c)
    BY <1>1, <2>3, ScheduleStands
  <2>4. CASE Reschedule(c)
    BY <1>1, <2>4, RescheduleStands
  <2>5. CASE UpdateApplies(c) \/ UpdateHeld(c) \/ UpdateReplayed(c)
    BY <1>1, <2>5, UpdateStands
  <2>6. CASE Record(c) \/ FilePending(c)
    BY <1>1, <2>6, WriteStands
  <2>7. CASE Throws(c)
    BY <1>1, <2>7, ThrowStands
  <2>8. QED
    BY <1>2, <2>1, <2>2, <2>3, <2>4, <2>5, <2>6, <2>7 DEF Step
<1>3. ASSUME HandleEvent \/ Redelivered PROVE StandInv'
  BY <1>1, <1>3, HandleStands
<1>4. ASSUME PeriodEnds PROVE StandInv'
  BY <1>1, <1>4, PeriodStands
<1>5. ~PendingEnds
  BY DEF StandInv, Scheduled, PendingEnds
<1>6. ASSUME UNCHANGED vars PROVE StandInv'
  BY <1>6 DEF vars, StandInv, OneAtATime, KeysAreNew, Only, Turn, Underway, AllAnswered,
              Stands, Steady, Due, Billed, Scheduled, TwoWays, NobodyCancels
<1>7. QED
  BY <1>2, <1>3, <1>4, <1>5, <1>6 DEF Next, Finished

\* Of calls that wait for one another, whatever they move to and wherever periods
\* end between them: what the next period bills is what the customer was last
\* told, and pendingPlan names a move exactly while one waits.
THEOREM ToldIsBilled == Spec => []PlanStands
<1> DEFINE Inv == PlanInv /\ (Orderly => StandInv)
<1>1. Init => Inv
  BY PlanInit, StandInit
<1>2. Inv /\ [Next]_vars => Inv'
  <2> SUFFICES ASSUME Inv, [Next]_vars PROVE Inv'
    OBVIOUS
  <2>1. PlanInv'
    BY PlanNext
  <2>2. ASSUME Orderly' PROVE StandInv'
    <3>1. Orderly
      BY <2>2 DEF Orderly, Next, vars, Serial, Faults
    <3>2. QED
      BY <2>1, <3>1, StandNext DEF PlanInv
  <2>3. QED
    BY <2>1, <2>2
<1>3. Inv => PlanStands
  BY DEF StandInv, Stands, PlanStands, DueIsPromised, PendingIsWaiting
<1>4. QED
  BY <1>1, <1>2, <1>3, PTL DEF Spec
=============================================================================
