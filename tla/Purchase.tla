------------------------------ MODULE Purchase ------------------------------
(***************************************************************************)
(* A workspace buys its first plan. Requests open Checkout Sessions, in    *)
(* processes that each keep a cache of the ones they may hand out again;   *)
(* Stripe takes the payment; returning browsers and webhooks complete it;  *)
(* other callers make sure the workspace has a Stripe customer, with its   *)
(* welcome credit; and the subscription's events are mirrored meanwhile.   *)
(* Every Stripe and adapter call is a step of its own.                     *)
(***************************************************************************)
EXTENDS PlanModel, FiniteSets
LOCAL INSTANCE SequencesExt

CONSTANTS
    Buyers,         \* requests for a session
    Processes,      \* servers, a session cache each
    Finishers,      \* calls of completeCheckout
    Welcomers,      \* calls of ensureStripeCustomer
    Model,          \* the plan on sale, normalized
    Asks,           \* what a request may ask for
    Counts,         \* what a subscription's seats may be changed to
    MaxSessions, MaxCustomers, MaxChanges, MaxCalls,   \* bounds
    Scenes

AskType == [customer : 0..MaxCustomers, basket : [SeatKeys(Model) -> Nat], hosted : BOOLEAN, reuse : BOOLEAN]
\* asks: what its requests ask for. ends: sessions handed out age and are closed.
\* changes: how often the subscription changes. carries: the session's metadata
\* names the organization already. serial: the calls that write the customer
\* pointer run one at a time. free: a new customer is given a welcome credit.
SceneType == [asks : SUBSET Asks, ends : BOOLEAN, buys : 0..MaxCalls, finishes : 0..MaxCalls,
              welcomes : 0..MaxCalls, changes : 0..MaxChanges, carries : BOOLEAN, serial : BOOLEAN, free : BOOLEAN,
              faults : SUBSET {"stripe", "write", "dies", "late"}]
ASSUME PurchaseAssumption ==
    /\ Asks \subseteq AskType /\ Scenes \subseteq SceneType
    /\ \A n \in {MaxSessions, MaxCustomers, MaxChanges, MaxCalls} : n \in Nat

VARIABLES
    scene,
    calls,      \* calls begun, of each kind
    buyer,      \* buyer[b]: where the request is, and what it was given
    cache,      \* cache[p]: entries the process may hand out again
    owned,      \* owned[p][k]: the sessions whose key is k (sessionKeys)
    session,    \* the sessions of Stripe, in the order they were opened
    sub,        \* sub[s]: the subscription that session s began
    events,     \* subscription events not handled yet
    finish,     \* finish[f]: where the call is, and what it has read
    welcome,    \* welcome[w]: likewise
    customers,  \* customers made at Stripe so far
    pointer,    \* the workspace's customer, 0 for none
    credited,   \* customers with a welcome credit
    keyHolder,  \* the customer Stripe's idempotency key was first used for
    record,     \* the workspace's record of its subscription
    seen,       \* ghost, seen[p]: sessions the process has seen closed
    told,       \* ghost: the newest version an event has told the record
    whole,      \* ghost: sessions a completion went through without a warning
    overtaken   \* ghost: the last record was of a version already superseded

saleVars == <<buyer, cache, owned, session, seen>>
subVars == <<sub, events>>
mirrorVars == <<finish, record, told, whole, overtaken>>
welcomeVars == <<welcome, credited, keyHolder>>
moneyVars == <<customers, pointer>>
vars == <<scene, calls, saleVars, subVars, mirrorVars, welcomeVars, moneyVars>>

Rejects(fault) == fault \in scene.faults
Counted(kind) == /\ calls[kind] < scene[kind]
                 /\ calls' = [calls EXCEPT ![kind] = @ + 1]

-----------------------------------------------------------------------------
(* Opening a session. *)

\* The lines of a basket: seat types asked for none are no line.
Selected(basket) == [key \in {k \in DOMAIN basket : basket[k] > 0} |-> basket[key]]

\* What a session is opened with, as far as reuse tells two apart.
ReuseKeyFor(ask) == [ask EXCEPT !.basket = Selected(@)]
Reusable(ask) == ask.reuse /\ ask.customer # 0

NoAsk == [customer |-> 0, basket |-> [k \in SeatKeys(Model) |-> 0], hosted |-> FALSE, reuse |-> FALSE]
AtRest == [pc |-> "idle", at |-> "none", ask |-> NoAsk, customer |-> 0, got |-> 0]
Done(b, s) == [buyer[b] EXCEPT !.pc = "idle", !.got = s]
Waiting(b) == {w \in Buyers : buyer[w].pc = "wait" /\ buyer[w].at = buyer[b].at
                              /\ ReuseKeyFor(buyer[w].ask) = ReuseKeyFor(buyer[b].ask)}
Opening(p, ask) == \E b \in Buyers : /\ buyer[b].pc \in {"customer", "session"} /\ buyer[b].at = p
                                     /\ Reusable(buyer[b].ask) /\ ReuseKeyFor(buyer[b].ask) = ReuseKeyFor(ask)

Refused(ask) == ValidateBasket(Model, ask.basket, "monthly", TRUE) # {}

\* A basket the catalogue does not permit throws, before the cache is looked at;
\* so does one without a seat. A fresh entry is handed out; a session being
\* opened is waited for; otherwise one is opened.
Request(b, p, ask) ==
    LET hits == {e \in cache[p] : e.key = ReuseKeyFor(ask) /\ e.fresh} IN
    /\ buyer[b] = AtRest /\ Counted("buys")
    /\ ask \in scene.asks /\ ask.customer \in {0, pointer}
    /\ buyer' = [buyer EXCEPT ![b] =
         CASE Refused(ask) -> AtRest
           [] ~Refused(ask) /\ Reusable(ask) /\ hits # {} ->
                [AtRest EXCEPT !.at = p, !.ask = ask, !.got = (CHOOSE e \in hits : TRUE).session]
           [] ~Refused(ask) /\ Reusable(ask) /\ hits = {} /\ Opening(p, ask) ->
                [AtRest EXCEPT !.pc = "wait", !.at = p, !.ask = ask]
           [] ~Refused(ask) /\ ~(Reusable(ask) /\ (hits # {} \/ Opening(p, ask))) ->
                IF Selected(ask.basket) = <<>> THEN AtRest
                ELSE [AtRest EXCEPT !.pc = IF ask.customer = 0 THEN "customer" ELSE "session",
                                    !.at = p, !.ask = ask, !.customer = ask.customer]]
    /\ UNCHANGED <<scene, cache, owned, session, seen, subVars, mirrorVars, welcomeVars, moneyVars>>

\* Without a customer, one is made from the e-mail address.
NewCustomer(b) ==
    /\ buyer[b].pc = "customer" /\ customers < MaxCustomers
    /\ customers' = customers + 1
    /\ buyer' = [buyer EXCEPT ![b].pc = "session", ![b].customer = customers + 1]
    /\ UNCHANGED <<scene, calls, cache, owned, session, seen, subVars, mirrorVars, welcomeVars, pointer>>

\* The session is open; whoever waited for it gets it too, and it is kept.
OpenSession(b) ==
    LET s == Len(session) + 1
        key == ReuseKeyFor(buyer[b].ask)
        p == buyer[b].at
        kept == Reusable(buyer[b].ask)
    IN
    /\ buyer[b].pc = "session" /\ s <= MaxSessions
    /\ session' = Append(session, [ask |-> buyer[b].ask, customer |-> buyer[b].customer, status |-> "open"])
    /\ buyer' = [w \in Buyers |-> IF w = b \/ (kept /\ w \in Waiting(b)) THEN Done(w, s) ELSE buyer[w]]
    /\ cache' = [cache EXCEPT ![p] = IF kept THEN {e \in @ : e.key # key}
                                                  \cup {[key |-> key, session |-> s, fresh |-> TRUE]}
                                     ELSE @]
    /\ owned' = [owned EXCEPT ![p] = IF kept THEN @ \cup {[session |-> s, key |-> key]} ELSE @]
    /\ UNCHANGED <<scene, calls, seen, subVars, mirrorVars, welcomeVars, moneyVars>>

\* Any call of it throws, to everybody who waits; nothing is kept.
OpenFails(b) ==
    /\ Rejects("stripe") /\ buyer[b].pc \in {"customer", "session"}
    /\ buyer' = [w \in Buyers |-> IF w = b \/ (Reusable(buyer[b].ask) /\ w \in Waiting(b))
                                  THEN Done(w, 0) ELSE buyer[w]]
    /\ UNCHANGED <<scene, calls, cache, owned, session, seen, subVars, mirrorVars, welcomeVars, moneyVars>>

\* The request is over.
Leaves(b) ==
    /\ buyer[b].pc = "idle" /\ buyer[b] # AtRest
    /\ buyer' = [buyer EXCEPT ![b] = AtRest]
    /\ UNCHANGED <<scene, calls, cache, owned, session, seen, subVars, mirrorVars, welcomeVars, moneyVars>>

\* The time an entry is handed out for runs out.
Ages(p) ==
    \E e \in cache[p] :
        /\ scene.ends /\ e.fresh
        /\ cache' = [cache EXCEPT ![p] = (@ \ {e}) \cup {[e EXCEPT !.fresh = FALSE]}]
        /\ UNCHANGED <<scene, calls, buyer, owned, session, seen, subVars, mirrorVars, welcomeVars, moneyVars>>

\* Whatever entry has the key of that session is dropped.
Forget(p, s) ==
    LET keys == {o.key : o \in {o \in owned[p] : o.session = s}} IN
    /\ cache' = [cache EXCEPT ![p] = {e \in @ : e.key \notin keys}]
    /\ owned' = [owned EXCEPT ![p] = {o \in @ : o.session # s}]
    /\ seen' = [seen EXCEPT ![p] = @ \cup {s}]

\* Forgotten first; the call that closes it may then fail, silently.
Expire(p, s) ==
    /\ scene.ends /\ s \in DOMAIN session /\ s \notin seen[p]
    /\ Forget(p, s)
    /\ session' = [session EXCEPT ![s].status = IF @ = "open" THEN "expired" ELSE @]
    /\ UNCHANGED <<scene, calls, buyer, subVars, mirrorVars, welcomeVars, moneyVars>>

-----------------------------------------------------------------------------
(* Stripe: payment, and what becomes of the subscription. *)

Snapshot(s, x) == [of |-> s, v |-> x.v, status |-> x.status, counts |-> x.counts, org |-> x.org]
NoSub == [status |-> "none", v |-> 0, counts |-> <<>>, org |-> FALSE]

\* A method that pays later completes the session before its subscription is active.
Pay(s) ==
    /\ s \in DOMAIN session /\ session[s].status = "open"
    /\ \E status \in {"active"} \cup IF Rejects("late") THEN {"incomplete"} ELSE {} :
          LET x == [status |-> status, v |-> 1, counts |-> Selected(session[s].ask.basket), org |-> scene.carries]
          IN sub' = [sub EXCEPT ![s] = x] /\ events' = Append(events, Snapshot(s, x))
    /\ session' = [session EXCEPT ![s].status = "complete"]
    /\ UNCHANGED <<scene, calls, buyer, cache, owned, seen, mirrorVars, welcomeVars, moneyVars>>

Changes(s, x) ==
    /\ sub[s].status \notin {"none", "canceled"} /\ sub[s].v <= scene.changes
    /\ sub' = [sub EXCEPT ![s] = x] /\ events' = Append(events, Snapshot(s, x))
    /\ UNCHANGED <<scene, calls, saleVars, mirrorVars, welcomeVars, moneyVars>>
SeatsChange(s) == \E counts \in Counts \ {sub[s].counts} :
    Changes(s, [sub[s] EXCEPT !.v = @ + 1, !.counts = counts])
StatusChanges(s) == \E status \in {"active", "past_due", "canceled"} \ {sub[s].status} :
    Changes(s, [sub[s] EXCEPT !.v = @ + 1, !.status = status])

NoRecord == [of |-> 0, v |-> 0, status |-> "none", counts |-> <<>>]
Mirrored(x) == [of |-> x.of, v |-> x.v, status |-> x.status, counts |-> x.counts]

\* An event of a subscription that names no organization is dropped. (The events are
\* those of the sweep, which polls them oldest first: in their order and once each.)
HandleEvent ==
    /\ events # <<>> /\ events' = Tail(events)
    /\ LET e == Head(events) IN
         /\ record' = CASE ~e.org -> record
                        [] e.org /\ e.status = "canceled" ->
                              [record EXCEPT !.of = 0, !.v = e.v, !.status = "canceled"]
                        [] OTHER -> Mirrored(e)
         /\ told' = IF e.org THEN e.v ELSE told
    /\ UNCHANGED <<scene, calls, saleVars, sub, finish, whole, overtaken, welcomeVars, moneyVars>>

-----------------------------------------------------------------------------
(* Completing the purchase. *)

NoFinish == [pc |-> "idle", session |-> 0, look |-> 0, read |-> [NoSub EXCEPT !.status = "unread"], warned |-> FALSE]
At(f, pc) == finish[f].pc = pc
Warns(f, pc) == [finish EXCEPT ![f].pc = pc, ![f].warned = TRUE]
\* A pointer is written by one call at a time, where the scene says so.
Serial == scene.serial => /\ \A f \in Finishers : At(f, "idle")
                          /\ \A w \in Welcomers : welcome[w].pc = "idle"

Paid(s) == session[s].status = "complete" /\ sub[s].status = "active"

\* The outcome is read, which drops a session that is not open from the cache of
\* the process; nothing follows a session that is not paid.
BeginFinish(f, p, s) ==
    /\ At(f, "idle") /\ s \in DOMAIN session /\ Serial /\ Counted("finishes")
    /\ IF session[s].status # "open" THEN Forget(p, s) ELSE UNCHANGED <<cache, owned, seen>>
    /\ finish' = IF Paid(s) THEN [finish EXCEPT ![f] = [NoFinish EXCEPT !.pc = "look", !.session = s]]
                 ELSE finish
    /\ UNCHANGED <<scene, buyer, session, subVars, record, told, whole, overtaken, welcomeVars, moneyVars>>

\* The customer pointer, only when the workspace has none.
LookAtPointer(f) ==
    /\ At(f, "look")
    /\ finish' = IF pointer = 0 THEN [finish EXCEPT ![f].pc = "attach"]
                 ELSE [finish EXCEPT ![f].pc = "read",
                                     ![f].warned = @ \/ pointer # session[finish[f].session].customer]
    /\ UNCHANGED <<scene, calls, saleVars, subVars, record, told, whole, overtaken, welcomeVars, moneyVars>>

Attach(f) ==
    /\ At(f, "attach")
    /\ pointer' = session[finish[f].session].customer
    /\ finish' = [finish EXCEPT ![f].pc = "read"]
    /\ UNCHANGED <<scene, calls, saleVars, subVars, record, told, whole, overtaken, welcomeVars, customers>>

ReadSub(f) ==
    /\ At(f, "read")
    /\ finish' = [finish EXCEPT ![f].pc = IF sub[finish[f].session].org THEN "mirror" ELSE "stamp",
                                ![f].read = sub[finish[f].session]]
    /\ UNCHANGED <<scene, calls, saleVars, subVars, record, told, whole, overtaken, welcomeVars, moneyVars>>

\* (mutant of Stamp) left to the sync engine.
StampLater(f) ==
    /\ At(f, "stamp")
    /\ finish' = [finish EXCEPT ![f].pc = "mirror"]
    /\ UNCHANGED <<scene, calls, saleVars, subVars, record, told, whole, overtaken, welcomeVars, moneyVars>>
\* The subscription learns its organization, and an event tells that. One that
\* has ended meanwhile cannot be written.
Stamp(f) ==
    LET s == finish[f].session
        x == [sub[s] EXCEPT !.org = TRUE] IN
    /\ At(f, "stamp") /\ sub[s].status # "canceled"
    /\ sub' = [sub EXCEPT ![s] = x]
    /\ events' = IF sub[s].org THEN events ELSE Append(events, Snapshot(s, x))
    /\ finish' = [finish EXCEPT ![f].pc = "mirror"]
    /\ UNCHANGED <<scene, calls, saleVars, record, told, whole, overtaken, welcomeVars, moneyVars>>

\* What was bought, as it was when it was read.
Mirror(f) ==
    /\ At(f, "mirror")
    /\ LET x == finish[f].read IN
         /\ record' = [of |-> finish[f].session, v |-> x.v, status |-> x.status, counts |-> x.counts]
         /\ overtaken' = (told > x.v)
    /\ whole' = IF finish[f].warned THEN whole ELSE whole \cup {finish[f].session}
    /\ finish' = [finish EXCEPT ![f] = NoFinish]
    /\ UNCHANGED <<scene, calls, saleVars, subVars, told, welcomeVars, moneyVars>>

\* A step that fails is a warning, and the next one is taken; without the
\* subscription there is nothing more to record.
StepFails(f) ==
    /\ \/ At(f, "look") /\ Rejects("write") /\ finish' = Warns(f, "read")
       \/ At(f, "attach") /\ Rejects("write") /\ finish' = Warns(f, "read")
       \/ At(f, "read") /\ Rejects("stripe") /\ finish' = [finish EXCEPT ![f] = NoFinish]
       \/ /\ At(f, "stamp") /\ (Rejects("stripe") \/ sub[finish[f].session].status = "canceled")
          /\ finish' = Warns(f, "mirror")
       \/ At(f, "mirror") /\ Rejects("write") /\ finish' = [finish EXCEPT ![f] = NoFinish]
    /\ UNCHANGED <<scene, calls, saleVars, subVars, record, told, whole, overtaken, welcomeVars, moneyVars>>

-----------------------------------------------------------------------------
(* A customer for the workspace, with its welcome credit. *)

NoWelcome == [pc |-> "idle", customer |-> 0]
Goes(w, pc) == welcome' = [welcome EXCEPT ![w].pc = pc]

\* One that is there is returned.
BeginWelcome(w) ==
    /\ welcome[w].pc = "idle" /\ Serial /\ Counted("welcomes")
    /\ IF pointer # 0 THEN UNCHANGED welcome ELSE Goes(w, "create")
    /\ UNCHANGED <<scene, saleVars, subVars, mirrorVars, credited, keyHolder, moneyVars>>

CreateCustomer(w) ==
    /\ welcome[w].pc = "create" /\ customers < MaxCustomers
    /\ customers' = customers + 1
    /\ welcome' = [welcome EXCEPT ![w] = [pc |-> "credit", customer |-> customers + 1]]
    /\ UNCHANGED <<scene, calls, saleVars, subVars, mirrorVars, credited, keyHolder, pointer>>

\* (mutant of GrantWelcome) without the key.
GrantUnkeyed(w) ==
    /\ welcome[w].pc = "credit"
    /\ credited' = Append(credited, welcome[w].customer)
    /\ Goes(w, "point")
    /\ UNCHANGED <<scene, calls, saleVars, subVars, mirrorVars, keyHolder, moneyVars>>
\* The key is the workspace's, the address of the call the customer's: for another
\* customer Stripe refuses the key, and the caller throws.
GrantWelcome(w) ==
    /\ welcome[w].pc = "credit"
    /\ IF keyHolder = 0 \/ ~scene.free
       THEN /\ IF scene.free
               THEN keyHolder' = welcome[w].customer /\ credited' = Append(credited, welcome[w].customer)
               ELSE UNCHANGED <<credited, keyHolder>>
            /\ Goes(w, "point")
       ELSE welcome' = [welcome EXCEPT ![w] = NoWelcome] /\ UNCHANGED <<credited, keyHolder>>
    /\ UNCHANGED <<scene, calls, saleVars, subVars, mirrorVars, moneyVars>>

Point(w) ==
    /\ welcome[w].pc = "point"
    /\ pointer' = welcome[w].customer
    /\ welcome' = [welcome EXCEPT ![w] = NoWelcome]
    /\ UNCHANGED <<scene, calls, saleVars, subVars, mirrorVars, credited, keyHolder, customers>>

\* A call throws, or the process dies, with whatever it has done left behind.
WelcomeEnds(w) ==
    /\ Rejects("dies") /\ welcome[w].pc # "idle"
    /\ welcome' = [welcome EXCEPT ![w] = NoWelcome]
    /\ UNCHANGED <<scene, calls, saleVars, subVars, mirrorVars, credited, keyHolder, moneyVars>>

\* Stripe forgets a key after a day.
ForgetsKey ==
    /\ Rejects("dies") /\ keyHolder # 0 /\ \A w \in Welcomers : welcome[w].pc = "idle"
    /\ keyHolder' = 0
    /\ UNCHANGED <<scene, calls, saleVars, subVars, mirrorVars, welcome, credited, moneyVars>>

\* A process starts again: its caches are empty, its requests gone.
Restart(p) ==
    /\ Rejects("dies") /\ (cache[p] # {} \/ \E b \in Buyers : buyer[b].pc # "idle" /\ buyer[b].at = p)
    /\ cache' = [cache EXCEPT ![p] = {}] /\ owned' = [owned EXCEPT ![p] = {}]
    /\ seen' = [seen EXCEPT ![p] = {}]
    /\ buyer' = [b \in Buyers |-> IF buyer[b].at = p THEN AtRest ELSE buyer[b]]
    /\ UNCHANGED <<scene, calls, session, subVars, mirrorVars, welcomeVars, moneyVars>>

-----------------------------------------------------------------------------
Init ==
    /\ scene \in Scenes
    /\ calls = [kind \in {"buys", "finishes", "welcomes"} |-> 0]
    /\ buyer = [b \in Buyers |-> AtRest]
    /\ cache = [p \in Processes |-> {}] /\ owned = [p \in Processes |-> {}] /\ seen = [p \in Processes |-> {}]
    /\ session = <<>> /\ sub = [s \in 1..MaxSessions |-> NoSub] /\ events = <<>>
    /\ finish = [f \in Finishers |-> NoFinish] /\ welcome = [w \in Welcomers |-> NoWelcome]
    /\ customers \in 0..1 /\ pointer = customers
    /\ credited = <<>> /\ keyHolder = 0
    /\ record = NoRecord /\ told = 0 /\ whole = {} /\ overtaken = FALSE

Next ==
    \/ \E b \in Buyers :
          \/ \E p \in Processes, ask \in Asks : Request(b, p, ask)
          \/ NewCustomer(b) \/ OpenSession(b) \/ OpenFails(b) \/ Leaves(b)
    \/ \E p \in Processes : Ages(p) \/ Restart(p) \/ \E s \in 1..MaxSessions : Expire(p, s)
    \/ \E s \in 1..MaxSessions : Pay(s) \/ SeatsChange(s) \/ StatusChanges(s)
    \/ HandleEvent
    \/ \E f \in Finishers :
          \/ \E p \in Processes, s \in 1..MaxSessions : BeginFinish(f, p, s)
          \/ LookAtPointer(f) \/ Attach(f) \/ ReadSub(f) \/ Stamp(f) \/ Mirror(f) \/ StepFails(f)
    \/ \E w \in Welcomers : \/ BeginWelcome(w) \/ CreateCustomer(w) \/ GrantWelcome(w)
                            \/ Point(w) \/ WelcomeEnds(w)
    \/ ForgetsKey

Spec == Init /\ [][Next]_vars

-----------------------------------------------------------------------------
(* Properties. *)

Quiet == events = <<>> /\ \A f \in Finishers : At(f, "idle")

\* A workspace keeps the customer it points at (complete-checkout.ts:95-109), where
\* the calls that write the pointer run one at a time, and also where they overlap
\* but are all ensureStripeCustomer with a welcome credit, whose idempotency key
\* lets one of them through; that credit is granted once (billing.ts:180-192), and to
\* the customer the workspace is left with. A caller that dies after it and a key
\* that is forgotten leave a second one behind.
CustomerIsKept ==
    [][LET alone == scene.finishes = 0 /\ scene.free IN
       /\ (scene.serial \/ alone) /\ pointer # 0 => pointer' = pointer
       /\ ~Rejects("dies") => Len(credited') <= 1
       /\ alone /\ pointer' # pointer => pointer' = Last(credited)]_vars

\* Once a purchase was completed without a warning, the workspace's record follows
\* its subscription, whatever becomes of that: its organization is stamped, so no
\* later event is dropped, and the seats that were bought are recorded
\* (complete-checkout.ts:120-160). Not so if an event of a newer version was handled
\* while the completion ran, whose write then puts the older one back.
BoughtIsRecorded ==
    \A s \in whole :
        Quiet /\ ~overtaken /\ (\A t \in DOMAIN session : session[t].status = "complete" => t = s) =>
            IF sub[s].status = "canceled" THEN record.status = "canceled"
            ELSE record = Mirrored(Snapshot(s, sub[s]))
=============================================================================
