------------------------------ MODULE PlanAsks ------------------------------
(***************************************************************************)
(* Asking for a better plan or a better seat. An ask waits for an          *)
(* administrator, or, for a plan that is only sold by quote, for a price;  *)
(* a priced one is accepted by buying the credits, which invoices them     *)
(* under a key made of the ask's id. The queue is one value of the         *)
(* organization's metadata, read, changed and written back whole.          *)
(***************************************************************************)
EXTENDS Ladder, FiniteSets
LOCAL INSTANCE Functions

CONSTANTS
    Askers, Handlers,   \* who runs one operation at a time: members; admins and operators
    Catalogue,          \* the plans, in order
    Totals,             \* what a quote may come to
    Days,               \* bound: the calendar
    MaxAsks,            \* bound: operations begun
    AskLimit,           \* VALUE_LIMIT; a bare record takes 3, each extra 1 or 2
    AskScenes           \* what varies between deployments

AskActors == Askers \cup Handlers
PlanKeys == {Catalogue[i].key : i \in DOMAIN Catalogue}
ASSUME PlanAskAssumption ==
    /\ IsFiniteSet(AskActors)
    /\ Totals \subseteq Nat \ {0} /\ Days \in Nat /\ MaxAsks \in Nat /\ AskLimit \in Nat

\* serial: one operation at a time. current: the plan of the organization, if
\* any. moves: plans it may move to. noted, blank: an ask carries a note, or a
\* contact with empty fields. begins: bound, below MaxAsks. forget: Stripe has
\* forgotten a sale's key by the time the sale is asked for again.
AskSceneType ==
    [serial : BOOLEAN, current : SUBSET PlanKeys, moves : SUBSET PlanKeys, noted : BOOLEAN, named : BOOLEAN,
     blank : BOOLEAN, begins : 0..MaxAsks, seats : BOOLEAN,
     faults : SUBSET {"fails", "forget", "refused"}]
ASSUME AskSceneAssumption == AskScenes \subseteq AskSceneType

VARIABLES
    askScene,   \* one of AskScenes
    current,    \* the organization's plan
    day,        \* the calendar
    asks,       \* the queue: [id, member, kind, target, status, note, blank, quote, accepted]
    act,        \* act[p]: the operation p runs, and what it has read
    asked,      \* operations begun
    invoices    \* what Stripe was asked to invoice: [id, total, nth]

askVars == <<askScene, current, day, asks, act, asked, invoices>>

-----------------------------------------------------------------------------
(* Fitting the queue into its value. *)

Trouble(fault) == fault \in askScene.faults

IsOpen(r) == r.status \in {"pending", "quoted"}
OpenOf(list, member) == {i \in DOMAIN list : list[i].member = member /\ IsOpen(list[i])}

RoomOf(r) ==
    3 + (IF r.note THEN 1 ELSE 0) + (IF r.blank THEN 1 ELSE 0)
      + (IF r.quote # {} THEN 2 ELSE 0) + (IF \E q \in r.quote : q.note THEN 1 ELSE 0)
      + (IF r.accepted # {} THEN 1 ELSE 0)
RoomTaken(list) == SumFunction([i \in DOMAIN list |-> RoomOf(list[i])])

Keeping(list, places) ==
    [k \in 1..Cardinality(places) |->
        list[CHOOSE i \in places : Cardinality({j \in places : j < i}) = k - 1]]
EachOf(list, Op(_)) == [i \in DOMAIN list |-> Op(list[i])]

CompactContact(r) == [r EXCEPT !.blank = FALSE]
Strip(r) == [r EXCEPT !.note = FALSE, !.quote = {[q EXCEPT !.note = FALSE] : q \in @}]
StripSettled(r) == IF IsOpen(r) THEN r ELSE Strip(r)

\* What is kept, in the order of what costs least to lose: nothing is lost, the
\* empty fields, the notes of settled records, n settled records from the end,
\* then all of them and the other notes.
Pack(list) ==
    LET open == {i \in DOMAIN list : IsOpen(list[i])}
        settled == DOMAIN list \ open
        sorted == Keeping(list, open) \o Keeping(list, settled)
        compact == EachOf(sorted, CompactContact)
        without(n) == SubSeq(EachOf(compact, StripSettled), 1, Len(list) - n)
        enough == {n \in 0..Cardinality(settled) : RoomTaken(without(n)) <= AskLimit}
    IN CASE RoomTaken(sorted) <= AskLimit -> sorted
         [] RoomTaken(sorted) > AskLimit /\ RoomTaken(compact) <= AskLimit -> compact
         [] RoomTaken(compact) > AskLimit /\ enough # {} -> without(Least(enough))
         [] OTHER -> EachOf(without(Cardinality(settled)), Strip)

-----------------------------------------------------------------------------
(* Beginning an operation: its checks, and its read of the queue. *)

IdleAct == [pc |-> "idle", id |-> 0, list |-> <<>>, total |-> 0]
At(p, pc) == act[p].pc = pc
MayAct(p) == At(p, "idle") /\ (askScene.serial => \A q \in AskActors : At(q, "idle"))
Does(p, next) == act' = [act EXCEPT ![p] = next]

MayUndertake(p) == MayAct(p) /\ asked < askScene.begins
Undertakes(p, next) ==
    /\ MayUndertake(p)
    /\ asked' = asked + 1
    /\ Does(p, next)
    /\ UNCHANGED <<current, day, asks, invoices>>

Satisfied(r) == IsSatisfied(Catalogue, r.kind, r.target, current, {})
NewAsk(m, kind, target) ==
    [id |-> asked + 1, member |-> m, kind |-> kind, target |-> target, status |-> "pending",
     note |-> askScene.noted, blank |-> askScene.blank, quote |-> {}, accepted |-> {}]

\* One open ask per member, unless what it wants has been reached. Unnamed, the
\* target is the next plan up.
RequestPlanChange(m) ==
    /\ MayUndertake(m)
    /\ \E target \in IF askScene.named THEN PlanKeys ELSE UpgradeTo(Catalogue, current) :
        /\ ~IsSatisfied(Catalogue, "plan", target, current, {})
        /\ LET open == OpenOf(asks, m)
           IN open # {} => Satisfied(asks[Least(open)])
        /\ Undertakes(m, [IdleAct EXCEPT !.pc = "writing",
                             !.list = Append(asks, NewAsk(m, "plan", target))])

\* The seat a member asks from: the caller's own reading, of none or of any.
SeatsHeld(model) == {{}} \cup {{key} : key \in SeatKeys(model)}

RequestSeatChange(m) ==
    /\ MayUndertake(m) /\ askScene.seats
    /\ \E model \in UNION {PlanOf(Catalogue, key) : key \in current} :
        /\ model.sells = "seats"
        /\ {i \in DOMAIN asks : asks[i].member = m /\ asks[i].status = "pending"} = {}
        /\ \E held \in SeatsHeld(model) : \E target \in NextSeatUp(model, held) :
              Undertakes(m, [IdleAct EXCEPT !.pc = "writing",
                                !.list = Append(asks, NewAsk(m, "seat", target))])

\* The same ask may be priced again.
QuotePlanRequest(p) ==
    \E i \in DOMAIN asks, total \in Totals, until \in {{}, {day}} :
        /\ IsOpen(asks[i])
        /\ Undertakes(p, [IdleAct EXCEPT !.pc = "writing",
                !.list = [asks EXCEPT ![i].status = "quoted",
                                      ![i].quote = {[total |-> total, until |-> until,
                                                     note |-> askScene.noted]}]])

ResolvePlanRequest(p) ==
    \E i \in DOMAIN asks, status \in {"done", "denied"} :
        /\ asks[i].status = "pending"
        /\ Undertakes(p, [IdleAct EXCEPT !.pc = "writing",
                             !.list = [asks EXCEPT ![i].status = status]])

\* accept_plan_quote: a price that has not expired.
AcceptPlanQuote(p) ==
    \E i \in DOMAIN asks :
        /\ asks[i].status = "quoted"
        /\ \E q \in asks[i].quote :
              /\ \A last \in q.until : last >= day
              /\ Undertakes(p, [IdleAct EXCEPT !.pc = "selling", !.id = asks[i].id, !.total = q.total])

-----------------------------------------------------------------------------
(* The steps of an operation, one per await. *)

\* The key of the sale is the ask's id: the same price is the same invoice,
\* another price is refused by Stripe, and a forgotten key sells again.
SellCredits(p) ==
    /\ At(p, "selling")
    /\ LET mine == {v \in invoices : v.id = act[p].id}
           invoice == [id |-> act[p].id, total |-> act[p].total, nth |-> Cardinality(mine) + 1]
       IN \/ /\ \/ mine = {}
                \/ Trouble("forget")
             /\ invoices' = invoices \cup {invoice}
             /\ Does(p, [act[p] EXCEPT !.pc = "marking"])
          \/ /\ \E v \in mine : v.total = act[p].total
             /\ Does(p, [act[p] EXCEPT !.pc = "marking"])
             /\ UNCHANGED invoices
          \/ /\ (mine # {} /\ \A v \in mine : v.total # act[p].total) \/ Trouble("refused")
             /\ Does(p, IdleAct)
             /\ UNCHANGED invoices
    /\ UNCHANGED <<current, day, asks, asked>>

\* The ask is found again; the price it has now is left on it.
MarkPlanQuoteAccepted(p) ==
    /\ At(p, "marking")
    /\ LET found == {i \in DOMAIN asks : asks[i].id = act[p].id /\ asks[i].status = "quoted"}
       IN Does(p, IF found = {} THEN IdleAct
                  ELSE [act[p] EXCEPT !.pc = "writing",
                           !.list = [i \in DOMAIN asks |-> IF i \notin found THEN asks[i]
                               ELSE [asks[i] EXCEPT !.status = "done", !.accepted = {act[p].total}]]])
    /\ UNCHANGED <<current, day, asks, asked, invoices>>

\* A queue that cannot be made to fit is not written: the ask is refused.
Write(p) ==
    /\ At(p, "writing")
    /\ asks' = IF RoomTaken(Pack(act[p].list)) <= AskLimit THEN Pack(act[p].list) ELSE asks
    /\ Does(p, IdleAct)
    /\ UNCHANGED <<current, day, asked, invoices>>

\* A call that rejects ends the operation, and so does a crash.
GivesUp(p) ==
    /\ Trouble("fails") /\ ~At(p, "idle")
    /\ Does(p, IdleAct)
    /\ UNCHANGED <<current, day, asks, asked, invoices>>

-----------------------------------------------------------------------------

PlanMoves(key) ==
    /\ key \in askScene.moves /\ current # {key}
    /\ current' = {key}
    /\ UNCHANGED <<day, asks, act, asked, invoices>>

NextDay ==
    /\ day < Days
    /\ \E i \in DOMAIN asks : \E q \in asks[i].quote : q.until = {day}
    /\ day' = day + 1
    /\ UNCHANGED <<current, asks, act, asked, invoices>>

AskInit ==
    /\ askScene \in AskScenes
    /\ current = askScene.current
    /\ day = 0
    /\ asks = <<>>
    /\ act = [p \in AskActors |-> IdleAct]
    /\ asked = 0
    /\ invoices = {}

AskSteps(p) ==
    SellCredits(p) \/ MarkPlanQuoteAccepted(p) \/ Write(p) \/ GivesUp(p)

AskNext ==
    /\ \/ \E m \in Askers : RequestPlanChange(m) \/ RequestSeatChange(m)
       \/ \E p \in Handlers : QuotePlanRequest(p) \/ ResolvePlanRequest(p) \/ AcceptPlanQuote(p)
       \/ \E p \in AskActors : AskSteps(p)
       \/ \E key \in PlanKeys : PlanMoves(key)
       \/ NextDay
    /\ UNCHANGED askScene

AskSpec == AskInit /\ [][AskNext]_askVars

-----------------------------------------------------------------------------
(* Properties. *)

\* An open ask never leaves the queue for want of room: one operation at a time,
\* an ask that was open is still in the queue after any step, unless that step
\* answers it (plan-request.ts, pack; a settled record may be what is given up).
OpenAsksAreKept ==
    [][askScene.serial =>
        \A i \in DOMAIN asks : IsOpen(asks[i]) =>
            \/ \E k \in DOMAIN asks' : asks'[k].id = asks[i].id
            \/ \E p \in AskActors : \E r \in {act[p].list[k] : k \in DOMAIN act[p].list} :
                  r.id = asks[i].id /\ ~IsOpen(r)]_askVars

\* A quoted ask is invoiced once, as long as Stripe remembers the sale, whatever
\* fails and however often it is priced and accepted again; and an ask that is
\* recorded as accepted has been invoiced at the price the record shows, unless
\* it was priced again while it was being accepted.
QuoteIsInvoicedOnce ==
    /\ ~Trouble("forget") => \A v, u \in invoices : v.id = u.id => v = u
    /\ askScene.serial =>
          \A i \in DOMAIN asks : asks[i].accepted # {} =>
              \E q \in asks[i].quote, v \in invoices :
                  v.id = asks[i].id /\ v.total = q.total
=============================================================================
