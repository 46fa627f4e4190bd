--------------------------- MODULE MeteringProofs ---------------------------
(***************************************************************************)
(* What metering keeps true for any callers, plans, ledgers and faults.    *)
(***************************************************************************)
EXTENDS Metering, FiniteSetTheorems, TLAPS

QueryType == [scope : Scopes, every : Windows, start : Nat, included : BOOLEAN, wallet : BOOLEAN]
FlightType == [query : QueryType, by : SUBSET Calls, total : Nat, born : Nat]
ValueType == [query : QueryType, total : Nat, born : Nat, at : Nat]
Reasons == {"none", "spend_limit_reached", "rate_limit_reached", "pool_exhausted",
            "seat_allowance_reached", "insufficient_balance"}
Sourced == {"pool", "pack", "wallet", "none"}
DecisionType == [ok : BOOLEAN, source : Sourced, reason : Reasons]
CallType ==
    [pc : {"idle", "resolving", "ready", "reading", "recording", "charging", "refused", "paid"},
     plan : DOMAIN Plans, since : Nat, turn : [Windows -> Nat], cycle : {"month", "cycle"},
     seats : [total : Nat, mix : Mixes \cup {<<>>}], seen : SUBSET Totals, wallet : SUBSET Nat,
     decision : DecisionType, retried : BOOLEAN]

\* A call that was admitted knows what pays for it.
Admitted(c) ==
    /\ call[c].pc \in {"recording", "charging"} => call[c].decision.source \in Funds
    /\ call[c].pc = "charging" => call[c].decision.source = "wallet"

StoreType == [Scopes -> [Windows -> Nat]]

\* What calls and reads are made of.
ReadTypes ==
    /\ scene \in SceneType
    /\ plan \in DOMAIN Plans
    /\ planCache \subseteq [key : DOMAIN Plans, born : Nat, at : Nat]
    /\ turn \in [Windows -> Nat]
    /\ now \in Nat
    /\ flights \subseteq FlightType
    /\ values \subseteq ValueType
    /\ lastKnown \subseteq Totals
    /\ call \in [Calls -> CallType]
    /\ \A c \in Calls : Admitted(c)

\* What the ledgers are made of.
LedgerTypes ==
    /\ meter \in StoreType
    /\ debits \in StoreType
    /\ drawn \in [Scopes -> [Windows -> [Funds -> Nat]]]
    /\ balance \in Int
    /\ tally \in [counted : [Funds -> Nat], charged : Nat, bought : Nat, failed : Nat]

TypeInv == ReadTypes /\ LedgerTypes

-----------------------------------------------------------------------------
(* The windows of a caller ask typed questions. *)

LEMMA CallerTypes ==
    ASSUME NEW c \in Calls
    PROVE  /\ Caller[c].kind \in {"user", "api"}
           /\ Caller[c].id \in Ids
           /\ ScopesFor(Caller[c]) \subseteq Scopes
           /\ "org" \in ScopesFor(Caller[c])
           /\ CallerScope(Caller[c]) \in Scopes
BY MeteringAssumption DEF Ids, Scopes, ScopesFor, CallerScope

LEMMA AskTypes ==
    ASSUME NEW scope \in Scopes, NEW every \in Windows, NEW sources,
           sources.included \in BOOLEAN, sources.wallet \in BOOLEAN,
           NEW t \in [Windows -> Nat]
    PROVE  Ask(scope, every, sources, t) \in QueryType
BY DEF Ask, QueryType

LEMMA SourceTypes ==
    ASSUME NEW model, NEW caller
    PROVE  /\ Sources(model, caller).included \in BOOLEAN
           /\ Sources(model, caller).wallet \in BOOLEAN
BY DEF Sources

LEMMA OrgAskTypes ==
    ASSUME NEW every \in {"month", "cycle"}, NEW t \in [Windows -> Nat]
    PROVE  Ask("org", every, BothSources, t) \in QueryType
<1>1. "org" \in Scopes /\ every \in Windows
  BY MeteringAssumption DEF Scopes
<1>2. BothSources.included \in BOOLEAN /\ BothSources.wallet \in BOOLEAN
  BY DEF BothSources
<1> QED BY <1>1, <1>2, AskTypes

LEMMA CycleTypes ==
    ASSUME NEW model, NEW bought
    PROVE  CycleOf(model, bought) \in {"month", "cycle"}
BY DEF CycleOf

LEMMA RateQueryTypes ==
    ASSUME NEW c \in Calls, NEW key \in DOMAIN Plans, NEW i \in DOMAIN Plans[key].rate,
           NEW extra, NEW cycle \in {"month", "cycle"}, NEW t \in [Windows -> Nat]
    PROVE  RateWindow(Plans[key], Plans[key].rate[i], Caller[c], extra, cycle, t).query
              \in QueryType
<1> DEFINE limit == Plans[key].rate[i]
<1>1. limit \in LimitType
  BY PlanAssumption
<1>2. LimitScope(limit, Caller[c]) \in Scopes
  BY <1>1, CallerTypes DEF LimitScope, LimitType, Or, Scopes
<1>3. /\ LimitSources(Plans[key], limit, Caller[c]).included \in BOOLEAN
      /\ LimitSources(Plans[key], limit, Caller[c]).wallet \in BOOLEAN
  <2>1. CASE limit.covers = "included"
    BY <2>1, SourceTypes DEF LimitSources
  <2>2. CASE limit.covers # "included" /\ (limit.scope = "caller" \/ limit.callerKind # {})
    BY <2>2, SourceTypes DEF LimitSources
  <2>3. CASE limit.covers # "included" /\ ~(limit.scope = "caller" \/ limit.callerKind # {})
    BY <2>3 DEF LimitSources, BothSources
  <2> QED BY <2>1, <2>2, <2>3
<1>4. (IF limit.every = "cycle" THEN cycle ELSE limit.every) \in Windows
  BY <1>1, MeteringAssumption DEF LimitType
<1> HIDE DEF limit
<1> QED BY <1>2, <1>3, <1>4, AskTypes DEF RateWindow, limit

LEMMA SpendQueryTypes ==
    ASSUME NEW ceiling, NEW t \in [Windows -> Nat], NEW w \in SpendWindows(ceiling, t)
    PROVE  w.query \in QueryType
<1>1. Ask("org", "month", BothSources, t) \in QueryType
  BY OrgAskTypes
<1> QED BY <1>1 DEF SpendWindows

LEMMA OwnQueryTypes ==
    ASSUME NEW c \in Calls, NEW model, NEW seats, NEW extra,
           NEW cycle \in {"month", "cycle"}, NEW t \in [Windows -> Nat],
           NEW w \in OwnWindows(model, Caller[c], seats, extra, cycle, t)
    PROVE  w.query \in QueryType /\ w.role \in {"pool", "pack"}
<1>1. Ask("org", cycle, BothSources, t) \in QueryType
  BY OrgAskTypes
<1>2. cycle \in Windows
  BY MeteringAssumption
<1>3. Ask(CallerScope(Caller[c]), cycle, Sources(model, Caller[c]), t) \in QueryType
  BY <1>2, SourceTypes, AskTypes, CallerTypes
<1> QED BY <1>1, <1>3 DEF OwnWindows

LEMMA QueriesTypes ==
    ASSUME NEW c \in Calls, NEW it, it.plan \in DOMAIN Plans,
           it.cycle \in {"month", "cycle"}, it.turn \in [Windows -> Nat]
    PROVE  Queries(c, it) \subseteq QueryType
<1>1. ASSUME NEW i \in DOMAIN LimitsFor(c, it) \cap DOMAIN Plans[it.plan].rate
      PROVE  LimitsFor(c, it)[i].query \in QueryType
  <2>1. LimitsFor(c, it)[i]
           = RateWindow(Plans[it.plan], Plans[it.plan].rate[i], Caller[c], scene.extra, it.cycle, it.turn)
    BY DEF LimitsFor, Limits
  <2> QED BY <2>1, RateQueryTypes
<1>2. \A w \in OwnFor(c, it) : w.query \in QueryType
  BY OwnQueryTypes DEF OwnFor
<1> QED BY <1>1, <1>2 DEF Queries

-----------------------------------------------------------------------------
(* Reads and decisions. *)

LEMMA LedgerTotalType ==
    ASSUME ReadTypes, LedgerTypes, NEW q \in QueryType
    PROVE  LedgerTotal(q) \in Nat
<1>1. scene.ledger \in {"balance", "meter", "scopes"}
  BY DEF ReadTypes, SceneType
<1>2. meter[q.scope][q.every] \in Nat /\ debits[q.scope][q.every] \in Nat
  BY DEF LedgerTypes, StoreType, QueryType
<1>3. MeterTotal(q) \in Nat
  BY <1>2 DEF MeterTotal
<1>4. (IF q.wallet THEN debits[q.scope][q.every] ELSE 0) + (IF q.included THEN MeterTotal(q) ELSE 0) \in Nat
  BY <1>2, <1>3
<1> QED BY <1>1, <1>2, <1>3, <1>4 DEF LedgerTotal

LEMMA FlightTypes ==
    ASSUME ReadTypes, LedgerTypes, NEW c \in Calls, NEW queries \in SUBSET QueryType
    PROVE  FlightsAfter(c, queries) \subseteq FlightType
<1>1. \A f \in flights : [f EXCEPT !.by = @ \cup {c}] \in FlightType
  BY DEF ReadTypes, FlightType
<1>2. \A q \in queries : [query |-> q, by |-> {c}, total |-> LedgerTotal(q), born |-> now] \in FlightType
  BY LedgerTotalType DEF ReadTypes, FlightType
<1> QED BY <1>1, <1>2 DEF FlightsAfter, Joined, ReadTypes

LEMMA AnswerTypes ==
    ASSUME ReadTypes, NEW queries
    PROVE  Answers(queries) \subseteq Totals
BY DEF Answers, Hits, ReadTypes, ValueType, Totals, QueryType

LEMMA FundingTypes ==
    ASSUME NEW model, NEW caller, NEW limits, NEW own, NEW used, NEW wallet, NEW cost,
           \A w \in own : w.role \in {"pool", "pack"},
           NEW decision, decision = FundingFor(model, caller, limits, own, used, wallet, cost)
    PROVE  decision \in DecisionType /\ (decision.ok => decision.source \in Funds)
<1> DEFINE overflows == ExhaustedPolicy(model, caller) = "wallet"
           payable == overflows /\ wallet >= cost
           short == {i \in DOMAIN limits : Remaining(limits[i], used) < cost}
           barring == {i \in short : limits[i].covers = "included" /\ payable}
           refusing == short \ barring
           usable == IF CapCovers(model, caller) /\ barring = {} THEN own ELSE {}
           paying == {w \in usable : Remaining(w, used) >= cost}
<1>1. \A reason \in Reasons : Denied(reason) \in DecisionType /\ ~Denied(reason).ok
  BY DEF Denied, DecisionType, Sourced
<1>2. \A source \in Funds : Paid(source) \in DecisionType /\ Paid(source).source = source
  BY DEF Paid, DecisionType, Funds, Sourced, Reasons
<1>3. paying # {} => (CHOOSE w \in paying : TRUE).role \in Funds
  BY DEF Funds
<1>4. CASE refusing # {}
  <2>1. decision = Denied(IF limits[Least(refusing)].role = "spend"
                          THEN "spend_limit_reached" ELSE "rate_limit_reached")
    BY <1>4 DEF FundingFor
  <2> QED BY <2>1, <1>1 DEF Reasons
<1>5. CASE refusing = {} /\ paying # {}
  <2>1. decision = Paid((CHOOSE w \in paying : TRUE).role)
    BY <1>5 DEF FundingFor
  <2> QED BY <2>1, <1>2, <1>3, <1>5
<1>6. CASE refusing = {} /\ paying = {} /\ usable # {} /\ ~overflows
  <2>1. decision = Denied(IF \E w \in usable : w.role = "pool"
                          THEN "pool_exhausted" ELSE "seat_allowance_reached")
    BY <1>6 DEF FundingFor
  <2> QED BY <2>1, <1>1 DEF Reasons
<1>7. CASE refusing = {} /\ paying = {} /\ (usable = {} \/ overflows) /\ wallet >= cost
  <2>1. decision = Paid("wallet")
    BY <1>7 DEF FundingFor
  <2> QED BY <2>1, <1>2 DEF Funds
<1>8. CASE /\ ~(refusing # {})
           /\ ~(refusing = {} /\ paying # {})
           /\ ~(refusing = {} /\ paying = {} /\ usable # {} /\ ~overflows)
           /\ ~(refusing = {} /\ paying = {} /\ (usable = {} \/ overflows) /\ wallet >= cost)
  <2>1. decision = Denied("insufficient_balance")
    BY <1>8 DEF FundingFor
  <2> QED BY <2>1, <1>1 DEF Reasons
<1> QED BY <1>4, <1>5, <1>6, <1>7, <1>8

\* A step of one call leaves the others, and keeps their types.
LEMMA BecomeTypes ==
    ASSUME ReadTypes, NEW c \in Calls, NEW next \in CallType, Become(c, next),
           next.pc \in {"recording", "charging"} => next.decision.source \in Funds,
           next.pc = "charging" => next.decision.source = "wallet"
    PROVE  call' \in [Calls -> CallType] /\ \A d \in Calls : Admitted(d)'
<1>1. call' = [call EXCEPT ![c] = next]
  BY DEF Become
<1>2. call \in [Calls -> CallType]
  BY DEF ReadTypes
<1>3. call' \in [Calls -> CallType]
  BY <1>1, <1>2
<1>4. ASSUME NEW d \in Calls PROVE Admitted(d)'
  <2>1. CASE d = c
    BY <1>1, <1>2, <2>1 DEF Admitted
  <2>2. CASE d # c
    <3>1. call'[d] = call[d]
      BY <1>1, <1>2, <2>2
    <3> QED BY <3>1 DEF Admitted, ReadTypes
  <2> QED BY <2>1, <2>2
<1> QED BY <1>3, <1>4

LEMMA IdleTypes ==
    ASSUME ReadTypes
    PROVE  IdleCall \in CallType /\ IdleCall.pc = "idle"
<1>1. Denied("none") \in DecisionType
  BY DEF Denied, DecisionType, Sourced, Reasons
<1>2. scene.plan \in DOMAIN Plans
  BY DEF ReadTypes, SceneType
<1>3. [w \in Windows |-> 0] \in [Windows -> Nat]
  OBVIOUS
<1> QED BY <1>1, <1>2, <1>3 DEF IdleCall, CallType

LEMMA SeatsTypes ==
    ASSUME ReadTypes, NEW bought \in {scene.seats, {}}
    PROVE  SeatsFor(bought, scene.members) \in [total : Nat, mix : Mixes \cup {<<>>}]
<1>1. bought \in SUBSET [total : Nat, mix : Mixes] /\ scene.members \in Nat
  BY DEF ReadTypes, SceneType
<1>2. Or({s.mix : s \in bought}, <<>>) \in Mixes \cup {<<>>}
  BY <1>1 DEF Or
<1>3. (\E s \in bought : s.total > 0) => (CHOOSE s \in bought : TRUE).total \in Nat
  BY <1>1
<1>4. Larger(1, scene.members) \in Nat
  BY <1>1 DEF Larger
<1> QED BY <1>2, <1>3, <1>4 DEF SeatsFor

-----------------------------------------------------------------------------
(* The steps of a call. *)

LEMMA BeginTypes ==
    ASSUME TypeInv, NEW c \in Calls, Begin(c), UNCHANGED scene
    PROVE  TypeInv'
<1> DEFINE started == [IdleCall EXCEPT !.retried = (call[c].pc = "paid")]
           ready(p) == [started EXCEPT !.pc = "ready", !.plan = p.key, !.since = p.born]
           resolving == [started EXCEPT !.pc = "resolving", !.plan = plan, !.since = now]
<1>1. started \in CallType
  BY IdleTypes DEF TypeInv, CallType
<1>2. (\E p \in FreshPlan : Become(c, ready(p))) \/ Become(c, resolving)
  BY DEF Begin
<1> HIDE DEF started
<1>3. ASSUME NEW p \in FreshPlan
      PROVE  ready(p) \in CallType /\ ready(p).pc = "ready"
  <2>1. p.key \in DOMAIN Plans /\ p.born \in Nat
    BY <1>3 DEF FreshPlan, ReadTypes, TypeInv
  <2> QED BY <1>1, <2>1 DEF CallType
<1>4. resolving \in CallType /\ resolving.pc = "resolving"
  BY <1>1 DEF ReadTypes, TypeInv, CallType
<1>5. PICK next \in CallType : Become(c, next) /\ next.pc \in {"ready", "resolving"}
  <2> HIDE DEF ready, resolving
  <2> QED BY <1>2, <1>3, <1>4
<1>6. call' \in [Calls -> CallType] /\ \A d \in Calls : Admitted(d)'
  BY <1>5, BecomeTypes DEF TypeInv
<1>7. UNCHANGED <<plan, turn, caches, ledgers, now>>
  BY DEF Begin
<1> QED BY <1>6, <1>7 DEF TypeInv, ReadTypes, LedgerTypes, caches, ledgers

\* A call becomes another that is not admitted.
LEMMA TurnTypes ==
    ASSUME TypeInv, NEW c \in Calls, NEW next \in CallType, Become(c, next),
           next.pc \notin {"recording", "charging"}
    PROVE  call' \in [Calls -> CallType] /\ \A d \in Calls : Admitted(d)'
BY BecomeTypes DEF TypeInv

LEMMA PlanArrivesTypes ==
    ASSUME TypeInv, NEW c \in Calls, PlanArrives(c), UNCHANGED scene
    PROVE  TypeInv'
<1> DEFINE next == [call[c] EXCEPT !.pc = "ready"]
<1>1. call[c] \in CallType
  BY DEF TypeInv, ReadTypes
<1>2. next \in CallType /\ next.pc = "ready" /\ Become(c, next)
  BY <1>1 DEF CallType, PlanArrives
<1> HIDE DEF next
<1>3. call' \in [Calls -> CallType] /\ \A d \in Calls : Admitted(d)'
  BY <1>2, TurnTypes
<1>4. planCache' \subseteq [key : DOMAIN Plans, born : Nat, at : Nat]
  BY <1>1 DEF PlanArrives, CallType, TypeInv, ReadTypes
<1>5. UNCHANGED <<scene, plan, turn, flights, values, lastKnown, ledgers, now>>
  BY DEF PlanArrives
<1> QED BY <1>3, <1>4, <1>5 DEF TypeInv, ReadTypes, LedgerTypes, ledgers

LEMMA ResolveAllowanceTypes ==
    ASSUME TypeInv, NEW c \in Calls, ResolveAllowance(c), UNCHANGED scene
    PROVE  TypeInv'
<1>1. PICK bought \in {scene.seats, {}} :
        LET reading == [call[c] EXCEPT !.pc = "reading", !.turn = turn, !.since = 0,
                                       !.cycle = CycleOf(Plans[call[c].plan], bought),
                                       !.seats = SeatsFor(bought, scene.members)]
            queries == Queries(c, reading)
        IN /\ flights' = FlightsAfter(c, queries)
           /\ Become(c, [reading EXCEPT !.seen = Answers(queries)])
  BY DEF ResolveAllowance
<1> DEFINE reading == [call[c] EXCEPT !.pc = "reading", !.turn = turn, !.since = 0,
                                      !.cycle = CycleOf(Plans[call[c].plan], bought),
                                      !.seats = SeatsFor(bought, scene.members)]
           queries == Queries(c, reading)
           next == [reading EXCEPT !.seen = Answers(queries)]
<1>2. call[c] \in CallType /\ turn \in [Windows -> Nat]
  BY DEF TypeInv, ReadTypes
<1>3. CycleOf(Plans[call[c].plan], bought) \in {"month", "cycle"}
  BY CycleTypes
<1>4. SeatsFor(bought, scene.members) \in [total : Nat, mix : Mixes \cup {<<>>}]
  BY SeatsTypes DEF TypeInv
<1>5. /\ reading \in CallType
      /\ reading.pc = "reading"
  BY <1>2, <1>3, <1>4 DEF CallType
<1>6. flights' = FlightsAfter(c, queries) /\ Become(c, next)
  BY <1>1
<1> HIDE DEF reading
<1>7. /\ reading.plan \in DOMAIN Plans
      /\ reading.cycle \in {"month", "cycle"}
      /\ reading.turn \in [Windows -> Nat]
  BY <1>5 DEF CallType
<1>8. queries \subseteq QueryType
  BY <1>7, QueriesTypes
<1> HIDE DEF queries
<1>9. Answers(queries) \subseteq Totals
  BY AnswerTypes DEF TypeInv
<1>10. next \in CallType /\ next.pc = "reading"
  BY <1>5, <1>9 DEF CallType
<1> HIDE DEF next
<1>11. call' \in [Calls -> CallType] /\ \A d \in Calls : Admitted(d)'
  BY <1>6, <1>10, TurnTypes
<1>12. flights' \subseteq FlightType
  BY <1>6, <1>8, FlightTypes DEF TypeInv
<1>13. UNCHANGED <<scene, plan, turn, planCache, values, lastKnown, ledgers, now>>
  BY DEF ResolveAllowance
<1> QED BY <1>11, <1>12, <1>13 DEF TypeInv, ReadTypes, LedgerTypes, ledgers

LEMMA CustomerArrivesTypes ==
    ASSUME TypeInv, NEW c \in Calls, CustomerArrives(c), UNCHANGED scene
    PROVE  TypeInv'
<1> DEFINE next == [call[c] EXCEPT !.wallet = {Larger(0, balance)},
                                   !.seen = @ \cup Answers(SpendQueries(c))]
<1>1. call[c] \in CallType
  BY DEF TypeInv, ReadTypes
<1>2. Larger(0, balance) \in Nat
  BY DEF TypeInv, LedgerTypes, Larger
<1>3. SpendQueries(c) \subseteq QueryType
  <2>1. call[c].turn \in [Windows -> Nat]
    BY <1>1 DEF CallType
  <2> QED BY <2>1, SpendQueryTypes DEF SpendQueries
<1>4. Answers(SpendQueries(c)) \subseteq Totals
  BY AnswerTypes DEF TypeInv
<1>5. call[c].pc = "reading" /\ Become(c, next)
  BY DEF CustomerArrives
<1>6. next \in CallType /\ next.pc = "reading"
  BY <1>1, <1>2, <1>4, <1>5 DEF CallType
<1> HIDE DEF next
<1>7. call' \in [Calls -> CallType] /\ \A d \in Calls : Admitted(d)'
  BY <1>5, <1>6, TurnTypes
<1>8. flights' \subseteq FlightType
  BY <1>3, FlightTypes DEF TypeInv, CustomerArrives
<1>9. UNCHANGED <<scene, plan, turn, planCache, values, lastKnown, ledgers, now>>
  BY DEF CustomerArrives
<1> QED BY <1>7, <1>8, <1>9 DEF TypeInv, ReadTypes, LedgerTypes, ledgers

\* A call is over: it becomes idle, having touched at most the ledgers.
LEMMA OverTypes ==
    ASSUME TypeInv, NEW c \in Calls, Become(c, IdleCall), LedgerTypes',
           UNCHANGED <<scene, plan, turn, caches, now>>
    PROVE  TypeInv'
<1>1. call' \in [Calls -> CallType] /\ \A d \in Calls : Admitted(d)'
  BY TurnTypes, IdleTypes DEF TypeInv
<1> QED BY <1>1 DEF TypeInv, ReadTypes, caches

LEMMA CustomerFailsTypes ==
    ASSUME TypeInv, NEW c \in Calls, CustomerFails(c), UNCHANGED scene
    PROVE  TypeInv'
<1>1. call' \in [Calls -> CallType] /\ \A d \in Calls : Admitted(d)'
  BY TurnTypes, IdleTypes DEF TypeInv, CustomerFails
<1>2. flights' \subseteq FlightType
  BY DEF TypeInv, ReadTypes, FlightType, CustomerFails
<1>3. UNCHANGED <<scene, plan, turn, planCache, values, lastKnown, ledgers, now>>
  BY DEF CustomerFails
<1> QED BY <1>1, <1>2, <1>3 DEF TypeInv, ReadTypes, LedgerTypes, ledgers

LEMMA DecideTypes ==
    ASSUME TypeInv, NEW c \in Calls, Decide(c), UNCHANGED scene
    PROVE  TypeInv'
<1> DEFINE decision == DecisionOf(c)
           next == [call[c] EXCEPT !.pc = IF decision.ok THEN "recording" ELSE "refused",
                                   !.decision = decision]
<1>1. call[c] \in CallType
  BY DEF TypeInv, ReadTypes
<1>2. decision \in DecisionType /\ (decision.ok => decision.source \in Funds)
  <2>1. \A w \in OwnOf(c) : w.role \in {"pool", "pack"}
    BY <1>1, OwnQueryTypes DEF OwnOf, OwnFor, CallType
  <2> QED BY <2>1, FundingTypes DEF DecisionOf
<1>3. Become(c, next)
  BY DEF Decide
<1> HIDE DEF decision
<1>4. /\ next \in CallType
      /\ next.pc \in {"recording", "charging"} => next.decision.source \in Funds
      /\ next.pc # "charging"
  BY <1>1, <1>2 DEF CallType
<1> HIDE DEF next
<1>5. call' \in [Calls -> CallType] /\ \A d \in Calls : Admitted(d)'
  BY <1>3, <1>4, BecomeTypes DEF TypeInv
<1>6. UNCHANGED <<scene, plan, turn, caches, ledgers, now>>
  BY DEF Decide
<1> QED BY <1>5, <1>6 DEF TypeInv, ReadTypes, LedgerTypes, caches, ledgers

LEMMA AddTypes ==
    ASSUME NEW store \in StoreType, NEW scopes
    PROVE  Add(store, scopes) \in StoreType
BY MeteringAssumption DEF Add, StoreType

LEMMA DrawnTypes ==
    ASSUME LedgerTypes, NEW c \in Calls, call[c].decision.source \in Funds
    PROVE  Drawn(c) \in [Scopes -> [Windows -> [Funds -> Nat]]]
<1>1. ASSUME NEW s \in Scopes, NEW w \in Windows
      PROVE  [drawn[s][w] EXCEPT ![call[c].decision.source] =
                 @ + (IF s \in ScopesFor(Caller[c]) THEN Cost ELSE 0)] \in [Funds -> Nat]
  <2> DEFINE source == call[c].decision.source
             drawnThere == drawn[s][w]
             more == IF s \in ScopesFor(Caller[c]) THEN Cost ELSE 0
  <2>1. drawnThere \in [Funds -> Nat]
    BY DEF LedgerTypes
  <2>2. source \in Funds /\ more \in Nat
    BY MeteringAssumption
  <2> HIDE DEF source, drawnThere, more
  <2>3. drawnThere[source] + more \in Nat
    BY <2>1, <2>2
  <2>4. [drawnThere EXCEPT ![source] = drawnThere[source] + more] \in [Funds -> Nat]
    BY <2>1, <2>3
  <2> QED BY <2>4 DEF source, drawnThere, more
<1> QED BY <1>1 DEF Drawn

LEMMA RecordTypes ==
    ASSUME TypeInv, NEW c \in Calls, Record(c), UNCHANGED scene
    PROVE  TypeInv'
<1> DEFINE next == [call[c] EXCEPT !.pc = "charging"]
<1>1. /\ call[c] \in CallType
      /\ call[c].decision.source \in Funds
      /\ call[c].pc = "recording"
  BY DEF TypeInv, ReadTypes, Admitted, Record
<1>2. call' \in [Calls -> CallType] /\ \A d \in Calls : Admitted(d)'
  <2>1. CASE call[c].decision.source = "wallet"
    <3>1. Become(c, next)
      BY <2>1 DEF Record
    <3>2. next \in CallType /\ next.decision.source = "wallet"
      BY <1>1, <2>1 DEF CallType
    <3> HIDE DEF next
    <3> QED BY <3>1, <3>2, BecomeTypes DEF TypeInv, Funds
  <2>2. CASE call[c].decision.source # "wallet"
    <3>1. Become(c, IdleCall)
      BY <2>2 DEF Record, Leave
    <3> QED BY <3>1, TurnTypes, IdleTypes DEF TypeInv
  <2> QED BY <2>1, <2>2
<1>3. meter' \in StoreType
  BY AddTypes DEF Record, TypeInv, LedgerTypes
<1>4. drawn' \in [Scopes -> [Windows -> [Funds -> Nat]]]
  BY <1>1, DrawnTypes DEF Record, TypeInv
<1>5. tally' \in [counted : [Funds -> Nat], charged : Nat, bought : Nat, failed : Nat]
  BY <1>1 DEF Record, TypeInv, LedgerTypes
<1>6. UNCHANGED <<scene, plan, turn, caches, debits, balance, now>>
  BY DEF Record
<1> QED BY <1>2, <1>3, <1>4, <1>5, <1>6 DEF TypeInv, ReadTypes, LedgerTypes, caches

LEMMA RecordFailsTypes ==
    ASSUME TypeInv, NEW c \in Calls, RecordFails(c), UNCHANGED scene
    PROVE  TypeInv'
<1>1. meter' \in StoreType
  BY AddTypes DEF RecordFails, TypeInv, LedgerTypes
<1>2. tally' \in [counted : [Funds -> Nat], charged : Nat, bought : Nat, failed : Nat]
  BY DEF RecordFails, TypeInv, LedgerTypes
<1>3. /\ UNCHANGED <<scene, plan, turn, caches, debits, balance, drawn, now>>
      /\ Become(c, IdleCall)
  BY DEF RecordFails
<1>4. LedgerTypes'
  BY <1>1, <1>2, <1>3 DEF TypeInv, LedgerTypes
<1> QED BY <1>3, <1>4, OverTypes

LEMMA DeductTypes ==
    ASSUME LedgerTypes, NEW c \in Calls, Deduct(c)
    PROVE  /\ debits' \in StoreType
           /\ balance' \in Int
           /\ tally' \in [counted : [Funds -> Nat], charged : Nat, bought : Nat, failed : Nat]
BY AddTypes, MeteringAssumption DEF Deduct, LedgerTypes

LEMMA DeductCreditsTypes ==
    ASSUME TypeInv, NEW c \in Calls, DeductCredits(c) \/ DeductFails(c), UNCHANGED scene
    PROVE  TypeInv'
<1>1. /\ UNCHANGED <<scene, plan, turn, caches, meter, drawn, now>>
      /\ Become(c, IdleCall)
      /\ Deduct(c) \/ UNCHANGED <<debits, balance, tally>>
  BY DEF DeductCredits, DeductFails, Leave
<1>2. LedgerTypes'
  BY <1>1, DeductTypes DEF TypeInv, LedgerTypes
<1> QED BY <1>1, <1>2, OverTypes

LEMMA RefuseTypes ==
    ASSUME TypeInv, NEW c \in Calls, Refuse(c), UNCHANGED scene
    PROVE  TypeInv'
BY OverTypes DEF Refuse, TypeInv, LedgerTypes, ledgers

LEMMA RequirePaymentTypes ==
    ASSUME TypeInv, NEW c \in Calls, RequirePayment(c), UNCHANGED scene
    PROVE  TypeInv'
<1> DEFINE next == [IdleCall EXCEPT !.pc = "paid"]
<1>1. next \in CallType /\ next.pc = "paid"
  BY IdleTypes DEF TypeInv, CallType
<1>2. Become(c, next)
  BY DEF RequirePayment
<1> HIDE DEF next
<1>3. call' \in [Calls -> CallType] /\ \A d \in Calls : Admitted(d)'
  BY <1>1, <1>2, TurnTypes
<1>4. /\ balance' \in Int
      /\ tally' \in [counted : [Funds -> Nat], charged : Nat, bought : Nat, failed : Nat]
  BY MeteringAssumption DEF RequirePayment, TypeInv, LedgerTypes
<1>5. UNCHANGED <<scene, plan, turn, caches, meter, debits, drawn, now>>
  BY DEF RequirePayment
<1> QED BY <1>3, <1>4, <1>5 DEF TypeInv, ReadTypes, LedgerTypes, caches

LEMMA ClaimTypes ==
    ASSUME TypeInv, NEW c \in Calls, ClaimRead(c) \/ ClaimWrite(c) \/ ClaimFails(c), UNCHANGED scene
    PROVE  TypeInv'
<1>1. UNCHANGED <<plan, turn, caches, ledgers, call, now>>
  BY DEF ClaimRead, ClaimWrite, ClaimFails
<1> QED BY <1>1 DEF TypeInv, ReadTypes, LedgerTypes, Admitted, caches, ledgers

-----------------------------------------------------------------------------
(* The steps around the calls. *)

LEMMA PruneTypes ==
    ASSUME NEW entries
    PROVE  Prune(entries) \subseteq entries
BY DEF Prune

LEMMA AnswerStepTypes ==
    ASSUME ReadTypes, NEW f \in flights, NEW total \in Nat, NEW born \in Nat, Answer(f, total, born)
    PROVE  /\ flights' \subseteq FlightType
           /\ values' \subseteq ValueType
           /\ call' \in [Calls -> CallType]
           /\ \A c \in Calls : Admitted(c)'
           /\ \A c \in Calls : call'[c].pc = call[c].pc
<1>1. f \in FlightType /\ now \in Nat /\ values \subseteq ValueType /\ call \in [Calls -> CallType]
  BY DEF ReadTypes
<1> DEFINE answer == [query |-> f.query, total |-> total, born |-> born]
           entry == [query |-> f.query, total |-> total, born |-> born, at |-> now]
           next(c) == IF c \in f.by THEN [call[c] EXCEPT !.seen = @ \cup {answer}] ELSE call[c]
<1>2. answer \in Totals /\ entry \in ValueType
  BY <1>1 DEF FlightType, Totals, ValueType, QueryType
<1>3. call' = [c \in Calls |-> next(c)]
  BY DEF Answer
<1>4. values' = values \/ values' = Prune({v \in values : v.query # f.query} \cup {entry})
  BY DEF Answer
<1> HIDE DEF answer, entry
<1>5. values' \subseteq ValueType
  BY <1>1, <1>2, <1>4, PruneTypes
<1>6. ASSUME NEW c \in Calls
      PROVE  /\ next(c) \in CallType
             /\ next(c).pc = call[c].pc
             /\ next(c).decision = call[c].decision
  BY <1>1, <1>2 DEF CallType
<1> HIDE DEF next
<1>7. /\ call' \in [Calls -> CallType]
      /\ \A c \in Calls : call'[c].pc = call[c].pc /\ call'[c].decision = call[c].decision
  BY <1>3, <1>6
<1>8. \A c \in Calls : Admitted(c)'
  BY <1>7 DEF ReadTypes, Admitted
<1>9. flights' \subseteq FlightType
  BY DEF Answer, ReadTypes
<1> QED BY <1>5, <1>7, <1>8, <1>9

LEMMA ReadTypesStep ==
    ASSUME TypeInv, NEW f \in flights, ReadArrives(f) \/ ReadFails(f), UNCHANGED scene
    PROVE  TypeInv' /\ \A c \in Calls : call'[c].pc = call[c].pc
<1>1. f \in FlightType
  BY DEF TypeInv, ReadTypes
<1>2. PICK total \in Nat, born \in Nat : Answer(f, total, born)
  <2>1. CASE ReadArrives(f)
    BY <1>1, <2>1 DEF ReadArrives, FlightType
  <2>2. CASE ReadFails(f)
    <3>1. \A k \in lastKnown : k.total \in Nat /\ k.born \in Nat
      BY DEF TypeInv, ReadTypes, Totals
    <3> DEFINE known == {k \in lastKnown : k.query = f.query}
    <3>2. CASE known = {}
      <4>1. Answer(f, 0, f.born)
        BY <2>2, <3>2 DEF ReadFails
      <4> QED BY <1>1, <4>1 DEF FlightType
    <3>3. CASE known # {}
      <4>1. PICK k \in known : Answer(f, k.total, k.born)
        BY <2>2, <3>3 DEF ReadFails
      <4>2. k.total \in Nat /\ k.born \in Nat
        BY <3>1
      <4> QED BY <4>1, <4>2
    <3> QED BY <3>2, <3>3
  <2> QED BY <2>1, <2>2
<1>3. /\ flights' \subseteq FlightType
      /\ values' \subseteq ValueType
      /\ call' \in [Calls -> CallType]
      /\ \A c \in Calls : Admitted(c)'
      /\ \A c \in Calls : call'[c].pc = call[c].pc
  BY <1>2, AnswerStepTypes DEF TypeInv
<1>4. lastKnown' \subseteq Totals
  <2>1. [query |-> f.query, total |-> f.total, born |-> f.born] \in Totals
    BY <1>1 DEF FlightType, Totals, QueryType
  <2>2. lastKnown \subseteq Totals
    BY DEF TypeInv, ReadTypes
  <2> QED BY <2>1, <2>2 DEF ReadArrives, ReadFails
<1>5. UNCHANGED <<plan, turn, planCache, ledgers, now>>
  BY DEF ReadArrives, ReadFails
<1> QED BY <1>3, <1>4, <1>5 DEF TypeInv, ReadTypes, LedgerTypes, ledgers

LEMMA NewWindowTypes ==
    ASSUME TypeInv, NEW w \in Windows, NewWindow(w), UNCHANGED scene
    PROVE  TypeInv'
<1>1. turn' \in [Windows -> Nat]
  BY DEF NewWindow, TypeInv, ReadTypes
<1>2. meter' \in StoreType /\ debits' \in StoreType
  BY DEF NewWindow, TypeInv, LedgerTypes, StoreType
<1>3. drawn' \in [Scopes -> [Windows -> [Funds -> Nat]]]
  <2>1. ASSUME NEW s \in Scopes
        PROVE  [drawn[s] EXCEPT ![w] = [f \in Funds |-> 0]] \in [Windows -> [Funds -> Nat]]
    BY DEF TypeInv, LedgerTypes
  <2> QED BY <2>1 DEF NewWindow
<1>4. UNCHANGED <<plan, caches, balance, tally, call, now>>
  BY DEF NewWindow
<1> QED BY <1>1, <1>2, <1>3, <1>4 DEF TypeInv, ReadTypes, LedgerTypes, Admitted, caches

LEMMA PlanChangesTypes ==
    ASSUME TypeInv, NEW key \in DOMAIN Plans, PlanChanges(key), UNCHANGED scene
    PROVE  TypeInv'
BY DEF TypeInv, ReadTypes, LedgerTypes, Admitted, PlanChanges, caches, ledgers

LEMMA TickTypes ==
    ASSUME TypeInv, Tick, UNCHANGED scene
    PROVE  TypeInv'
BY DEF TypeInv, ReadTypes, LedgerTypes, Admitted, Tick, caches, ledgers

LEMMA InitTypes ==
    ASSUME Init
    PROVE  TypeInv
<1>1. scene \in SceneType
  BY SceneAssumption DEF Init
<1>2. plan \in DOMAIN Plans /\ scene.balance \in Nat
  BY <1>1 DEF Init, SceneType
<1>3. turn \in [Windows -> Nat] /\ now \in Nat /\ balance \in Int
  BY <1>2 DEF Init
<1>4. /\ planCache \subseteq [key : DOMAIN Plans, born : Nat, at : Nat]
      /\ flights \subseteq FlightType
      /\ values \subseteq ValueType
      /\ lastKnown \subseteq Totals
  BY DEF Init
<1>5. IdleCall \in CallType
  <2>1. Denied("none") \in DecisionType
    BY DEF Denied, DecisionType, Sourced, Reasons
  <2>2. scene.plan \in DOMAIN Plans
    BY <1>1 DEF SceneType
  <2>3. [w \in Windows |-> 0] \in [Windows -> Nat]
    OBVIOUS
  <2> QED BY <2>1, <2>2, <2>3 DEF IdleCall, CallType
<1>6. call \in [Calls -> CallType] /\ \A c \in Calls : call[c].pc = "idle"
  <2>1. call = [c \in Calls |-> IdleCall] /\ IdleCall.pc = "idle"
    BY DEF Init, IdleCall
  <2> QED BY <1>5, <2>1
<1>7. ReadTypes
  BY <1>1, <1>2, <1>3, <1>4, <1>6 DEF ReadTypes, Admitted
<1>8. meter \in StoreType /\ debits \in StoreType
  BY DEF Init, Zero, StoreType
<1>9. drawn \in [Scopes -> [Windows -> [Funds -> Nat]]]
  BY DEF Init
<1>10. tally \in [counted : [Funds -> Nat], charged : Nat, bought : Nat, failed : Nat]
  BY DEF Init
<1> QED BY <1>3, <1>7, <1>8, <1>9, <1>10 DEF TypeInv, LedgerTypes

LEMMA ServeTypes ==
    ASSUME TypeInv, NEW c \in Calls, Serve(c), UNCHANGED scene
    PROVE  TypeInv'
BY BeginTypes, PlanArrivesTypes, ResolveAllowanceTypes, CustomerArrivesTypes, CustomerFailsTypes,
   DecideTypes, RecordTypes, RecordFailsTypes, DeductCreditsTypes, RefuseTypes,
   RequirePaymentTypes, ClaimTypes
   DEF Serve

LEMMA StepTypes ==
    ASSUME TypeInv, [Next]_vars
    PROVE  TypeInv'
<1>1. CASE Next
  BY <1>1, ServeTypes, ReadTypesStep, NewWindowTypes, PlanChangesTypes, TickTypes DEF Next
<1>2. CASE UNCHANGED vars
  BY <1>2 DEF vars, TypeInv, ReadTypes, LedgerTypes, Admitted, caches, ledgers
<1> QED BY <1>1, <1>2

LEMMA TypesHold == Spec => []TypeInv
BY InitTypes, StepTypes, PTL DEF Spec

\* Every variable keeps its type, for any callers, plans, ledgers and faults: what
\* a call has read is a set of totals of windows, and an admitted call knows what
\* pays for it.
THEOREM TypeCorrect == Spec => []TypeOK
<1>1. TypeInv => TypeOK
  <2> SUFFICES ASSUME TypeInv PROVE TypeOK
    OBVIOUS
  <2>1. \A f \in flights : [query |-> f.query, total |-> f.total, born |-> f.born] \in Totals
    BY DEF TypeInv, ReadTypes, FlightType, Totals, QueryType
  <2>2. \A c \in Calls : call[c].seen \subseteq Totals /\ call[c].wallet \subseteq Nat
    BY DEF TypeInv, ReadTypes, CallType
  <2> QED BY <2>1, <2>2 DEF TypeInv, ReadTypes, LedgerTypes, StoreType, TypeOK
<1> QED BY <1>1, TypesHold, PTL

-----------------------------------------------------------------------------
(* The books: what was counted, charged and debited agree. A use the wallet *)
(* funds is counted first and charged by a later step, so the calls between *)
(* the two make up the difference.                                          *)

Charging == {c \in Calls : call[c].pc = "charging"}

Charged ==
    /\ tally.charged + Cardinality(Charging) <= tally.counted["wallet"]
    /\ "debit" \notin scene.faults => tally.charged + Cardinality(Charging) = tally.counted["wallet"]
Balanced == balance = scene.balance + Cost * (tally.bought - tally.charged)
Metered ==
    scene.ledger # "balance" /\ scene.metered /\ "record" \notin scene.faults =>
        \A w \in Windows :
            meter["org"][w] = drawn["org"][w]["pool"] + drawn["org"][w]["pack"] + drawn["org"][w]["wallet"]
Books == Charged /\ Balanced /\ Metered

LEMMA ChargingIsFinite ==
    /\ IsFiniteSet(Charging)
    /\ Cardinality(Charging) \in Nat
BY MeteringAssumption, FS_Subset, FS_CardinalityType DEF Charging

\* A step that neither enters nor leaves the charging state, nor writes.
LEMMA BooksKept ==
    ASSUME Books, Charging' = Charging, UNCHANGED <<scene, meter, drawn, tally, balance>>
    PROVE  Books'
BY DEF Books, Charged, Balanced, Metered

LEMMA ChargingKept ==
    ASSUME TypeInv, NEW c \in Calls, NEW next, Become(c, next),
           call[c].pc # "charging", next.pc # "charging"
    PROVE  Charging' = Charging
BY DEF TypeInv, ReadTypes, Become, Charging

LEMMA ChargingEnds ==
    ASSUME TypeInv, NEW c \in Calls, NEW next, Become(c, next),
           call[c].pc = "charging", next.pc # "charging"
    PROVE  Cardinality(Charging') = Cardinality(Charging) - 1 /\ Cardinality(Charging) \in Nat
<1>1. Charging' = Charging \ {c} /\ c \in Charging
  BY DEF TypeInv, ReadTypes, Become, Charging
<1> QED BY <1>1, ChargingIsFinite, FS_RemoveElement

LEMMA ChargingBegins ==
    ASSUME TypeInv, NEW c \in Calls, NEW next, Become(c, next),
           call[c].pc # "charging", next.pc = "charging"
    PROVE  Cardinality(Charging') = Cardinality(Charging) + 1 /\ Cardinality(Charging) \in Nat
<1>1. Charging' = Charging \cup {c} /\ c \notin Charging
  BY DEF TypeInv, ReadTypes, Become, Charging
<1> QED BY <1>1, ChargingIsFinite, FS_AddElement

\* What a recorded use adds to the organization's meter and to what was drawn.
LEMMA RecordCounts ==
    ASSUME TypeInv, Metered, NEW c \in Calls, Record(c), UNCHANGED scene
    PROVE  Metered'
<1> SUFFICES ASSUME scene.ledger # "balance", scene.metered, "record" \notin scene.faults,
                    NEW w \in Windows
             PROVE  meter'["org"][w] = drawn'["org"][w]["pool"] + drawn'["org"][w]["pack"]
                                       + drawn'["org"][w]["wallet"]
  BY DEF Metered
<1> DEFINE source == call[c].decision.source
           there == drawn["org"][w]
<1>1. source \in Funds
  BY DEF TypeInv, ReadTypes, Admitted, Record
<1>2. "org" \in Scopes /\ "org" \in ScopesFor(Caller[c])
  BY CallerTypes
<1>3. /\ meter["org"][w] = there["pool"] + there["pack"] + there["wallet"]
      /\ meter["org"][w] \in Nat
      /\ there \in [Funds -> Nat]
  BY <1>2 DEF Metered, TypeInv, LedgerTypes, StoreType
<1>4. "org" \in Recorded(c)
  BY <1>2 DEF Recorded
<1>5. meter'["org"][w] = meter["org"][w] + Cost
  <2>1. PICK scopes : meter' = Add(meter, scopes) /\ "org" \in scopes
    BY <1>4 DEF Record
  <2> QED BY <1>2, <2>1 DEF Add
<1>6. drawn'["org"][w] = [there EXCEPT ![source] = @ + Cost]
  BY <1>2 DEF Record, Drawn
<1> HIDE DEF source, there
<1>7. Cost \in Nat
  BY MeteringAssumption
<1>8. drawn'["org"][w]["pool"] + drawn'["org"][w]["pack"] + drawn'["org"][w]["wallet"]
        = there["pool"] + there["pack"] + there["wallet"] + Cost
  <2> DEFINE after == drawn'["org"][w]
  <2>1. \A f \in Funds : after[f] = IF f = source THEN there[f] + Cost ELSE there[f]
    BY <1>3, <1>6
  <2>2. there["pool"] \in Nat /\ there["pack"] \in Nat /\ there["wallet"] \in Nat
    BY <1>3 DEF Funds
  <2> HIDE DEF after
  <2>3. CASE source = "pool"
    BY <1>7, <2>1, <2>2, <2>3 DEF Funds, after
  <2>4. CASE source = "pack"
    BY <1>7, <2>1, <2>2, <2>4 DEF Funds, after
  <2>5. CASE source = "wallet"
    BY <1>7, <2>1, <2>2, <2>5 DEF Funds, after
  <2> QED BY <1>1, <2>3, <2>4, <2>5 DEF Funds
<1> QED BY <1>3, <1>5, <1>7, <1>8

LEMMA RecordBooks ==
    ASSUME TypeInv, Books, NEW c \in Calls, Record(c), UNCHANGED scene
    PROVE  Books'
<1> DEFINE source == call[c].decision.source
<1>1. Metered'
  BY RecordCounts DEF Books
<1>2. /\ source \in Funds
      /\ call[c].pc = "recording"
      /\ call[c] \in CallType
  BY DEF TypeInv, ReadTypes, Admitted, Record
<1>3. /\ tally.counted \in [Funds -> Nat]
      /\ tally.charged \in Nat
      /\ tally.bought \in Nat
  BY DEF TypeInv, LedgerTypes
<1>4. /\ tally'.charged = tally.charged
      /\ tally'.bought = tally.bought
      /\ tally'.counted["wallet"] = tally.counted["wallet"] + (IF source = "wallet" THEN 1 ELSE 0)
  BY <1>2, <1>3 DEF Record, TypeInv, LedgerTypes, Funds
<1>5. tally.counted["wallet"] \in Nat
  BY <1>3 DEF Funds
<1>6. Charged'
  <2>1. CASE source = "wallet"
    <3> DEFINE next == [call[c] EXCEPT !.pc = "charging"]
    <3>1. Become(c, next) /\ next.pc = "charging"
      BY <1>2, <2>1 DEF Record, CallType
    <3> HIDE DEF next
    <3>2. Cardinality(Charging') = Cardinality(Charging) + 1 /\ Cardinality(Charging) \in Nat
      BY <1>2, <3>1, ChargingBegins
    <3> QED BY <1>3, <1>4, <1>5, <2>1, <3>2 DEF Books, Charged
  <2>2. CASE source # "wallet"
    <3>1. Become(c, IdleCall) /\ IdleCall.pc = "idle"
      BY <2>2 DEF Record, Leave, IdleCall
    <3>2. Charging' = Charging
      BY <1>2, <3>1, ChargingKept
    <3> QED BY <1>3, <1>4, <1>5, <2>2, <3>2 DEF Books, Charged
  <2> QED BY <2>1, <2>2
<1>7. Balanced'
  BY <1>4 DEF Books, Balanced, Record
<1> QED BY <1>1, <1>6, <1>7 DEF Books

LEMMA RecordFailsBooks ==
    ASSUME TypeInv, Books, NEW c \in Calls, RecordFails(c), UNCHANGED scene
    PROVE  Books'
<1>1. Become(c, IdleCall) /\ IdleCall.pc = "idle" /\ call[c].pc = "recording"
  BY DEF RecordFails, IdleCall
<1>2. Charging' = Charging
  BY <1>1, ChargingKept
<1>3. /\ tally'.charged = tally.charged
      /\ tally'.bought = tally.bought
      /\ tally'.counted = tally.counted
  BY DEF RecordFails, TypeInv, LedgerTypes
<1>4. Charged' /\ Balanced'
  BY <1>2, <1>3 DEF Books, Charged, Balanced, RecordFails
<1>5. Metered'
  BY DEF RecordFails, Can, Metered
<1> QED BY <1>4, <1>5 DEF Books

LEMMA DeductBooks ==
    ASSUME TypeInv, Books, NEW c \in Calls, DeductCredits(c) \/ DeductFails(c), UNCHANGED scene
    PROVE  Books'
<1>1. /\ Become(c, IdleCall) /\ IdleCall.pc = "idle"
      /\ call[c].pc = "charging"
      /\ UNCHANGED <<meter, drawn>>
  BY DEF DeductCredits, DeductFails, Leave, IdleCall
<1>2. Cardinality(Charging') = Cardinality(Charging) - 1 /\ Cardinality(Charging) \in Nat
  BY <1>1, ChargingEnds
<1>3. /\ tally.counted["wallet"] \in Nat
      /\ tally.charged \in Nat
      /\ tally.bought \in Nat
      /\ balance \in Int /\ scene.balance \in Nat /\ Cost \in Nat
  BY MeteringAssumption DEF TypeInv, ReadTypes, LedgerTypes, Funds, SceneType
<1>4. Metered'
  BY <1>1 DEF Books, Metered
<1>5. CASE Deduct(c)
  <2>1. /\ tally'.charged = tally.charged + 1
        /\ tally'.bought = tally.bought
        /\ tally'.counted = tally.counted
        /\ balance' = balance - Cost
    BY <1>5 DEF Deduct, TypeInv, LedgerTypes
  <2>2. Charged'
    BY <1>2, <1>3, <2>1 DEF Books, Charged
  <2>3. Cost * (tally.bought - (tally.charged + 1)) = Cost * (tally.bought - tally.charged) - Cost
    BY <1>3
  <2>4. Balanced'
    BY <1>3, <2>1, <2>3 DEF Books, Balanced
  <2> QED BY <1>4, <2>2, <2>4 DEF Books
<1>6. CASE UNCHANGED <<debits, balance, tally>> /\ "debit" \in scene.faults
  <2>1. Charged'
    BY <1>2, <1>3, <1>6 DEF Books, Charged
  <2>2. Balanced'
    BY <1>6 DEF Books, Balanced
  <2> QED BY <1>4, <2>1, <2>2 DEF Books
<1> QED BY <1>5, <1>6 DEF DeductCredits, DeductFails, Can

LEMMA RequirePaymentBooks ==
    ASSUME TypeInv, Books, NEW c \in Calls, RequirePayment(c), UNCHANGED scene
    PROVE  Books'
<1> DEFINE next == [IdleCall EXCEPT !.pc = "paid"]
<1>1. Become(c, next) /\ next.pc = "paid" /\ call[c].pc = "refused"
  BY DEF RequirePayment, IdleCall
<1> HIDE DEF next
<1>2. Charging' = Charging
  BY <1>1, ChargingKept
<1>3. /\ tally'.charged = tally.charged
      /\ tally'.bought = tally.bought + 1
      /\ tally'.counted = tally.counted
      /\ balance' = balance + Cost
      /\ UNCHANGED <<meter, drawn>>
  BY DEF RequirePayment, TypeInv, LedgerTypes
<1>4. /\ tally.charged \in Nat /\ tally.bought \in Nat
      /\ balance \in Int /\ scene.balance \in Nat /\ Cost \in Nat
  BY MeteringAssumption DEF TypeInv, ReadTypes, LedgerTypes, SceneType
<1>5. Cost * (tally.bought + 1 - tally.charged) = Cost * (tally.bought - tally.charged) + Cost
  BY <1>4
<1>6. Balanced'
  BY <1>3, <1>4, <1>5 DEF Books, Balanced
<1> QED BY <1>2, <1>3, <1>6 DEF Books, Charged, Metered

LEMMA NewWindowBooks ==
    ASSUME TypeInv, Books, NEW w \in Windows, NewWindow(w), UNCHANGED scene
    PROVE  Books'
<1>1. UNCHANGED <<balance, tally, call>>
  BY DEF NewWindow
<1>2. Charged' /\ Balanced'
  BY <1>1 DEF Books, Charged, Balanced, Charging
<1>3. ASSUME NEW v \in Windows, Metered,
             scene.ledger # "balance", scene.metered, "record" \notin scene.faults
      PROVE  meter'["org"][v] = drawn'["org"][v]["pool"] + drawn'["org"][v]["pack"]
                                + drawn'["org"][v]["wallet"]
  <2>1. "org" \in Scopes
    BY DEF Scopes
  <2>2. meter["org"] \in [Windows -> Nat] /\ drawn["org"] \in [Windows -> [Funds -> Nat]]
    BY <2>1 DEF TypeInv, LedgerTypes, StoreType
  <2>3. /\ meter'["org"] = [meter["org"] EXCEPT ![w] = 0]
        /\ drawn'["org"] = [drawn["org"] EXCEPT ![w] = [f \in Funds |-> 0]]
    BY <2>1 DEF NewWindow
  <2>4. CASE v = w
    BY <2>2, <2>3, <2>4 DEF Funds
  <2>5. CASE v # w
    BY <1>3, <2>2, <2>3, <2>5 DEF Metered
  <2> QED BY <2>4, <2>5
<1>4. Metered'
  BY <1>3 DEF Books, Metered
<1> QED BY <1>2, <1>4 DEF Books

\* The other steps of a call move it between states that are not charging.
LEMMA OtherBooks ==
    ASSUME TypeInv, Books, NEW c \in Calls, UNCHANGED scene,
           \/ Begin(c) \/ PlanArrives(c) \/ ResolveAllowance(c) \/ CustomerArrives(c)
           \/ CustomerFails(c) \/ Decide(c) \/ Refuse(c)
    PROVE  Books'
<1>1. UNCHANGED <<meter, drawn, tally, balance>>
  BY DEF Begin, PlanArrives, ResolveAllowance, CustomerArrives, CustomerFails, Decide, Refuse, ledgers
<1>2. call[c].pc # "charging"
  BY DEF Begin, PlanArrives, ResolveAllowance, CustomerArrives, CustomerFails, Decide, Refuse
<1>3. \E next : Become(c, next) /\ next.pc # "charging"
  <2>1. call[c] \in CallType /\ IdleCall \in CallType /\ IdleCall.pc = "idle"
    BY IdleTypes DEF TypeInv, ReadTypes
  <2>2. CASE Begin(c)
    <3> DEFINE started == [IdleCall EXCEPT !.retried = (call[c].pc = "paid")]
               ready(p) == [started EXCEPT !.pc = "ready", !.plan = p.key, !.since = p.born]
               resolving == [started EXCEPT !.pc = "resolving", !.plan = plan, !.since = now]
    <3>1. (\E p \in FreshPlan : Become(c, ready(p))) \/ Become(c, resolving)
      BY <2>2 DEF Begin
    <3>2. started \in CallType
      BY <2>1 DEF CallType
    <3> HIDE DEF started
    <3>3. (\A p \in FreshPlan : ready(p).pc = "ready") /\ resolving.pc = "resolving"
      BY <3>2 DEF CallType
    <3> HIDE DEF ready, resolving
    <3> QED BY <3>1, <3>3
  <2>3. CASE PlanArrives(c)
    <3> DEFINE next == [call[c] EXCEPT !.pc = "ready"]
    <3>1. Become(c, next) /\ next.pc = "ready"
      BY <2>1, <2>3 DEF PlanArrives, CallType
    <3> HIDE DEF next
    <3> QED BY <3>1
  <2>4. CASE ResolveAllowance(c)
    <3>1. PICK bought \in {scene.seats, {}} :
            LET reading == [call[c] EXCEPT !.pc = "reading", !.turn = turn, !.since = 0,
                                           !.cycle = CycleOf(Plans[call[c].plan], bought),
                                           !.seats = SeatsFor(bought, scene.members)]
                queries == Queries(c, reading)
            IN Become(c, [reading EXCEPT !.seen = Answers(queries)])
      BY <2>4 DEF ResolveAllowance
    <3> DEFINE reading == [call[c] EXCEPT !.pc = "reading", !.turn = turn, !.since = 0,
                                          !.cycle = CycleOf(Plans[call[c].plan], bought),
                                          !.seats = SeatsFor(bought, scene.members)]
               next == [reading EXCEPT !.seen = Answers(Queries(c, reading))]
    <3>2. Become(c, next)
      BY <3>1
    <3>3. next.pc = "reading"
      BY <2>1 DEF CallType
    <3> HIDE DEF next
    <3> QED BY <3>2, <3>3
  <2>5. CASE CustomerArrives(c)
    <3> DEFINE next == [call[c] EXCEPT !.wallet = {Larger(0, balance)},
                                       !.seen = @ \cup Answers(SpendQueries(c))]
    <3>1. Become(c, next) /\ next.pc = "reading"
      BY <2>1, <2>5 DEF CustomerArrives, CallType
    <3> HIDE DEF next
    <3> QED BY <3>1
  <2>6. CASE CustomerFails(c) \/ Refuse(c)
    BY <2>1, <2>6 DEF CustomerFails, Refuse
  <2>7. CASE Decide(c)
    <3> DEFINE next == [call[c] EXCEPT !.pc = IF DecisionOf(c).ok THEN "recording" ELSE "refused",
                                       !.decision = DecisionOf(c)]
    <3>1. Become(c, next) /\ next.pc # "charging"
      BY <2>1, <2>7 DEF Decide, CallType
    <3> HIDE DEF next
    <3> QED BY <3>1
  <2> QED BY <2>2, <2>3, <2>4, <2>5, <2>6, <2>7
<1>4. Charging' = Charging
  BY <1>2, <1>3, ChargingKept
<1> QED BY <1>1, <1>4, BooksKept

LEMMA StillBooks ==
    ASSUME TypeInv, Books, UNCHANGED <<scene, ledgers>>,
           \A c \in Calls : call'[c].pc = call[c].pc
    PROVE  Books'
<1>1. Charging' = Charging
  BY DEF Charging
<1> QED BY <1>1, BooksKept DEF ledgers

LEMMA StepBooks ==
    ASSUME TypeInv, Books, [Next]_vars
    PROVE  Books'
<1>1. ASSUME NEW c \in Calls, Serve(c), UNCHANGED scene PROVE Books'
  <2>1. CASE ClaimRead(c) \/ ClaimWrite(c) \/ ClaimFails(c)
    BY <1>1, <2>1, StillBooks DEF ClaimRead, ClaimWrite, ClaimFails
  <2> QED BY <1>1, <2>1, OtherBooks, RecordBooks, RecordFailsBooks, DeductBooks,
             RequirePaymentBooks DEF Serve
<1>2. ASSUME NEW f \in flights, ReadArrives(f) \/ ReadFails(f), UNCHANGED scene PROVE Books'
  <2>1. \A c \in Calls : call'[c].pc = call[c].pc
    BY <1>2, ReadTypesStep
  <2>2. UNCHANGED ledgers
    BY <1>2 DEF ReadArrives, ReadFails
  <2> QED BY <1>2, <2>1, <2>2, StillBooks
<1>3. CASE UNCHANGED vars
  BY <1>3, StillBooks DEF vars
<1>4. ASSUME Tick \/ \E key \in DOMAIN Plans : PlanChanges(key), UNCHANGED scene PROVE Books'
  BY <1>4, StillBooks DEF Tick, PlanChanges
<1> QED BY <1>1, <1>2, <1>3, <1>4, NewWindowBooks DEF Next

LEMMA InitBooks ==
    ASSUME Init
    PROVE  Books
<1>1. TypeInv /\ Charging = {}
  BY InitTypes DEF Init, Charging, IdleCall
<1>2. Cardinality(Charging) = 0
  BY <1>1, FS_EmptySet
<1>3. scene.balance \in Nat /\ Cost \in Nat
  BY <1>1, MeteringAssumption DEF TypeInv, ReadTypes, SceneType
<1>4. Charged /\ Balanced
  BY <1>2, <1>3 DEF Init, Charged, Balanced, Funds
<1>5. Metered
  BY DEF Init, Metered, Zero, Scopes, Funds
<1> QED BY <1>4, <1>5 DEF Books

\* The wallet is debited once for every use it funded and never before the use was
\* counted, the balance is what was bought less what was charged, and the meter of
\* the organization counts every use, whatever funded it: for any number of calls
\* interleaving at every await (metering.ts:104-160).
THEOREM BooksAlwaysAgree == Spec => []BooksAgree
<1>1. TypeInv /\ Books => BooksAgree
  <2> SUFFICES ASSUME TypeInv, Books PROVE BooksAgree
    OBVIOUS
  <2>1. tally.charged \in Nat /\ tally.counted["wallet"] \in Nat /\ Cardinality(Charging) \in Nat
    BY ChargingIsFinite DEF TypeInv, LedgerTypes, Funds
  <2>2. tally.charged <= tally.counted["wallet"]
    BY <2>1 DEF Books, Charged
  <2>3. ASSUME "debit" \notin scene.faults, \A c \in Calls : call[c].pc # "charging"
        PROVE  tally.charged = tally.counted["wallet"]
    <3>1. Charging = {}
      BY <2>3 DEF Charging
    <3> QED BY <2>1, <2>3, <3>1, FS_EmptySet DEF Books, Charged
  <2>4. \A w \in Windows :
          UsageOf([scope |-> "org", every |-> w])
            = drawn["org"][w]["pool"] + drawn["org"][w]["pack"] + drawn["org"][w]["wallet"]
    BY DEF UsageOf, DrawnFrom
  <2> QED BY <2>2, <2>3, <2>4 DEF Books, Balanced, Metered, BooksAgree
<1>2. Init => TypeInv /\ Books
  BY InitTypes, InitBooks
<1>3. TypeInv /\ Books /\ [Next]_vars => (TypeInv /\ Books)'
  BY StepTypes, StepBooks
<1> QED BY <1>1, <1>2, <1>3, PTL DEF Spec

-----------------------------------------------------------------------------
(* How old an answer may be. A read, or a plan, brings what was true when it *)
(* was asked for, at most MaxLatency ago; the cache hands it out for its     *)
(* time to live after that.                                                  *)

Timely(born, at) == born <= at /\ at - born <= MaxLatency

Recent ==
    /\ \A f \in flights : Timely(f.born, now)
    /\ "read" \notin scene.faults => \A v \in values : v.at <= now /\ Timely(v.born, v.at)
    /\ \A p \in planCache : p.at <= now /\ Timely(p.born, p.at)
    /\ \A c \in Calls : call[c].pc = "resolving" => Timely(call[c].since, now)

\* What a step may hand to call c.
Served(c) ==
    /\ "read" \notin scene.faults =>
          \A a \in call'[c].seen \ call[c].seen : now - a.born < Larger(1, scene.ttl) + MaxLatency
    /\ call'[c].pc = "ready" /\ call[c].pc # "ready" =>
          now - call'[c].since < PlanTtl + MaxLatency

LEMMA AnswersAreRecent ==
    ASSUME TypeInv, Recent, "read" \notin scene.faults, NEW queries, NEW a \in Answers(queries)
    PROVE  now - a.born < Larger(1, scene.ttl) + MaxLatency
<1>1. PICK v \in values : /\ a = [query |-> v.query, total |-> v.total, born |-> v.born]
                          /\ now - v.at < scene.ttl
  BY DEF Answers, Hits
<1>2. v.at - v.born <= MaxLatency
  BY DEF Recent, Timely
<1>3. now \in Nat /\ v.at \in Nat /\ v.born \in Nat /\ scene.ttl \in Nat /\ MaxLatency \in Nat
  BY MeteringAssumption DEF TypeInv, ReadTypes, ValueType, SceneType
<1>4. a.born = v.born
  BY <1>1
<1> QED BY <1>1, <1>2, <1>3, <1>4 DEF Larger

LEMMA FlightsAreRecent ==
    ASSUME TypeInv, Recent, NEW c \in Calls, NEW queries
    PROVE  \A f \in FlightsAfter(c, queries) : Timely(f.born, now)
<1>1. now \in Nat /\ MaxLatency \in Nat
  BY MeteringAssumption DEF TypeInv, ReadTypes
<1>2. Timely(now, now)
  BY <1>1 DEF Timely
<1>3. \A f \in flights : [f EXCEPT !.by = @ \cup {c}].born = f.born
  BY DEF TypeInv, ReadTypes, FlightType
<1>4. \A f \in flights : Timely(f.born, now)
  BY DEF Recent
<1>5. ASSUME NEW f \in FlightsAfter(c, queries) PROVE f.born = now \/ f \in flights
                                             \/ \E g \in flights : f = [g EXCEPT !.by = @ \cup {c}]
  BY <1>5 DEF FlightsAfter, Joined
<1>6. ASSUME NEW f \in FlightsAfter(c, queries) PROVE f.born = now \/ \E g \in flights : f.born = g.born
  BY <1>3, <1>5
<1> QED BY <1>2, <1>4, <1>6 DEF Timely

\* The calls a step leaves alone.
LEMMA OthersServed ==
    ASSUME TypeInv, NEW c \in Calls, NEW next, Become(c, next), NEW d \in Calls, d # c
    PROVE  call'[d] = call[d] /\ Served(d)
<1>1. call'[d] = call[d]
  BY DEF TypeInv, ReadTypes, Become
<1> QED BY <1>1 DEF Served

\* A call that has read nothing new, and has not just learnt its plan.
LEMMA NothingServed ==
    ASSUME TypeInv, NEW c \in Calls, NEW next, Become(c, next),
           next.seen \subseteq call[c].seen, next.pc # "ready"
    PROVE  \A d \in Calls : Served(d)
<1>1. call'[c] = next
  BY DEF TypeInv, ReadTypes, Become
<1>2. Served(c)
  BY <1>1 DEF Served
<1> QED BY <1>2, OthersServed

LEMMA BeginServed ==
    ASSUME TypeInv, Recent, NEW c \in Calls, Begin(c), UNCHANGED scene
    PROVE  Recent' /\ \A d \in Calls : Served(d)
<1> DEFINE started == [IdleCall EXCEPT !.retried = (call[c].pc = "paid")]
           ready(p) == [started EXCEPT !.pc = "ready", !.plan = p.key, !.since = p.born]
           resolving == [started EXCEPT !.pc = "resolving", !.plan = plan, !.since = now]
<1>1. /\ started \in CallType /\ started.seen = {}
      /\ call \in [Calls -> CallType]
      /\ now \in Nat /\ MaxLatency \in Nat /\ PlanTtl \in Nat
  BY IdleTypes, MeteringAssumption DEF TypeInv, ReadTypes, CallType, IdleCall
<1>2. (\E p \in FreshPlan : Become(c, ready(p))) \/ Become(c, resolving)
  BY DEF Begin
<1>3. UNCHANGED <<scene, flights, values, planCache, now>>
  BY DEF Begin, caches
<1> HIDE DEF started
<1>4. /\ \A p : ready(p).pc = "ready" /\ ready(p).since = p.born /\ ready(p).seen = {}
      /\ resolving.pc = "resolving" /\ resolving.since = now /\ resolving.seen = {}
  BY <1>1 DEF CallType
<1> HIDE DEF ready, resolving
<1>5. PICK next : /\ Become(c, next) /\ next.seen = {}
                  /\ \/ next.pc = "resolving" /\ next.since = now
                     \/ next.pc = "ready" /\ \E p \in FreshPlan : next.since = p.born
  BY <1>2, <1>4
<1>6. call'[c] = next /\ \A d \in Calls \ {c} : call'[d] = call[d]
  BY <1>1, <1>5 DEF Become
<1>7. next.pc = "ready" => now - next.since < PlanTtl + MaxLatency
  <2> SUFFICES ASSUME NEW p \in FreshPlan, next.since = p.born
               PROVE  now - next.since < PlanTtl + MaxLatency
    BY <1>5
  <2>1. p \in planCache /\ now - p.at < PlanTtl /\ p.at - p.born <= MaxLatency
    BY DEF FreshPlan, Recent, Timely
  <2>2. p.at \in Nat /\ p.born \in Nat
    BY <2>1 DEF TypeInv, ReadTypes
  <2> QED BY <1>1, <2>1, <2>2
<1>8. Served(c)
  BY <1>5, <1>6, <1>7 DEF Served
<1>9. Timely(now, now)
  BY <1>1 DEF Timely
<1>10. \A d \in Calls : call'[d].pc = "resolving" => Timely(call'[d].since, now)
  BY <1>5, <1>6, <1>9 DEF Recent
<1>11. Recent'
  BY <1>3, <1>10 DEF Recent
<1> QED BY <1>5, <1>8, <1>11, OthersServed

LEMMA PlanArrivesServed ==
    ASSUME TypeInv, Recent, NEW c \in Calls, PlanArrives(c), UNCHANGED scene
    PROVE  Recent' /\ \A d \in Calls : Served(d)
<1> DEFINE next == [call[c] EXCEPT !.pc = "ready"]
<1>1. /\ call[c] \in CallType /\ call \in [Calls -> CallType]
      /\ now \in Nat /\ MaxLatency \in Nat /\ PlanTtl \in Nat \ {0}
  BY MeteringAssumption DEF TypeInv, ReadTypes
<1>2. Become(c, next) /\ next.pc = "ready" /\ next.since = call[c].since /\ next.seen = call[c].seen
  BY <1>1 DEF PlanArrives, CallType
<1> HIDE DEF next
<1>3. Timely(call[c].since, now) /\ call[c].since \in Nat
  BY <1>1 DEF PlanArrives, Recent, CallType
<1>4. call'[c] = next /\ \A d \in Calls \ {c} : call'[d] = call[d]
  BY <1>1, <1>2 DEF Become
<1>5. Served(c)
  BY <1>1, <1>2, <1>3, <1>4 DEF Served, Timely
<1>6. planCache' = {[key |-> call[c].plan, born |-> call[c].since, at |-> now]}
  BY DEF PlanArrives
<1>7. \A p \in planCache' : p.at <= now /\ Timely(p.born, p.at)
  BY <1>1, <1>3, <1>6
<1>8. \A d \in Calls : call'[d].pc = "resolving" => Timely(call'[d].since, now)
  BY <1>2, <1>4 DEF Recent
<1>9. UNCHANGED <<scene, flights, values, now>>
  BY DEF PlanArrives
<1>10. Recent'
  BY <1>7, <1>8, <1>9 DEF Recent
<1> QED BY <1>2, <1>5, <1>10, OthersServed

\* A call that goes on reading is served from the cache.
LEMMA ReadingServed ==
    ASSUME TypeInv, Recent, NEW c \in Calls, NEW next, Become(c, next), next.pc = "reading",
           NEW queries, next.seen \subseteq call[c].seen \cup Answers(queries),
           flights' = FlightsAfter(c, queries), UNCHANGED <<scene, planCache, values, now>>
    PROVE  Recent' /\ \A d \in Calls : Served(d)
<1>1. call'[c] = next /\ \A d \in Calls \ {c} : call'[d] = call[d]
  BY DEF TypeInv, ReadTypes, Become
<1>2. Served(c)
  BY <1>1, AnswersAreRecent DEF Served
<1>3. \A f \in flights' : Timely(f.born, now)
  BY FlightsAreRecent
<1>4. \A d \in Calls : call'[d].pc = "resolving" => Timely(call'[d].since, now)
  BY <1>1 DEF Recent
<1>5. Recent'
  BY <1>3, <1>4 DEF Recent
<1> QED BY <1>2, <1>5, OthersServed

LEMMA ResolveAllowanceServed ==
    ASSUME TypeInv, Recent, NEW c \in Calls, ResolveAllowance(c), UNCHANGED scene
    PROVE  Recent' /\ \A d \in Calls : Served(d)
<1>1. PICK bought \in {scene.seats, {}} :
        LET reading == [call[c] EXCEPT !.pc = "reading", !.turn = turn, !.since = 0,
                                       !.cycle = CycleOf(Plans[call[c].plan], bought),
                                       !.seats = SeatsFor(bought, scene.members)]
            queries == Queries(c, reading)
        IN /\ flights' = FlightsAfter(c, queries)
           /\ Become(c, [reading EXCEPT !.seen = Answers(queries)])
  BY DEF ResolveAllowance
<1> DEFINE reading == [call[c] EXCEPT !.pc = "reading", !.turn = turn, !.since = 0,
                                      !.cycle = CycleOf(Plans[call[c].plan], bought),
                                      !.seats = SeatsFor(bought, scene.members)]
           queries == Queries(c, reading)
           next == [reading EXCEPT !.seen = Answers(queries)]
<1>2. flights' = FlightsAfter(c, queries) /\ Become(c, next)
  BY <1>1
<1>3. call[c] \in CallType
  BY DEF TypeInv, ReadTypes
<1>4. next.pc = "reading" /\ next.seen = Answers(queries)
  BY <1>3 DEF CallType
<1>5. UNCHANGED <<planCache, values, now>>
  BY DEF ResolveAllowance
<1> HIDE DEF next, queries
<1> QED BY <1>2, <1>4, <1>5, ReadingServed

LEMMA CustomerArrivesServed ==
    ASSUME TypeInv, Recent, NEW c \in Calls, CustomerArrives(c), UNCHANGED scene
    PROVE  Recent' /\ \A d \in Calls : Served(d)
<1> DEFINE next == [call[c] EXCEPT !.wallet = {Larger(0, balance)},
                                   !.seen = @ \cup Answers(SpendQueries(c))]
           queries == SpendQueries(c)
<1>1. call[c] \in CallType
  BY DEF TypeInv, ReadTypes
<1>2. /\ Become(c, next)
      /\ next.pc = "reading" /\ next.seen = call[c].seen \cup Answers(queries)
      /\ flights' = FlightsAfter(c, queries)
  BY <1>1 DEF CustomerArrives, CallType
<1>3. UNCHANGED <<planCache, values, now>>
  BY DEF CustomerArrives
<1> HIDE DEF next, queries
<1> QED BY <1>2, <1>3, ReadingServed

\* A call that leaves the caches alone and neither resolves a plan nor reads.
LEMMA UnservedStep ==
    ASSUME TypeInv, Recent, NEW c \in Calls, NEW next, Become(c, next),
           next.seen \subseteq call[c].seen, next.pc \notin {"ready", "resolving"},
           UNCHANGED <<scene, planCache, values, now>>,
           \A f \in flights' : \E g \in flights : f.born = g.born
    PROVE  Recent' /\ \A d \in Calls : Served(d)
<1>1. call'[c] = next /\ \A d \in Calls \ {c} : call'[d] = call[d]
  BY DEF TypeInv, ReadTypes, Become
<1>2. \A d \in Calls : call'[d].pc = "resolving" => Timely(call'[d].since, now)
  BY <1>1 DEF Recent
<1>3. Recent'
  BY <1>2 DEF Recent
<1> QED BY <1>3, NothingServed

LEMMA IdleServed ==
    ASSUME TypeInv, Recent, NEW c \in Calls, UNCHANGED scene,
           \/ CustomerFails(c) \/ RecordFails(c) \/ DeductCredits(c) \/ DeductFails(c)
           \/ Refuse(c)
    PROVE  Recent' /\ \A d \in Calls : Served(d)
<1>1. Become(c, IdleCall) /\ UNCHANGED <<planCache, values, now>>
  BY DEF CustomerFails, RecordFails, DeductCredits, DeductFails, Refuse, Leave, caches
<1>2. IdleCall.pc = "idle" /\ IdleCall.seen = {}
  BY DEF IdleCall
<1>3. \A f \in flights' : \E g \in flights : f.born = g.born
  <2>1. \A f \in flights : [f EXCEPT !.by = @ \ {c}].born = f.born
    BY DEF TypeInv, ReadTypes, FlightType
  <2>2. CASE CustomerFails(c)
    BY <2>1, <2>2 DEF CustomerFails
  <2>3. CASE ~CustomerFails(c)
    BY <2>3 DEF RecordFails, DeductCredits, DeductFails, Refuse, caches
  <2> QED BY <2>2, <2>3
<1> QED BY <1>1, <1>2, <1>3, UnservedStep

LEMMA DecidingServed ==
    ASSUME TypeInv, Recent, NEW c \in Calls, UNCHANGED scene,
           Decide(c) \/ Record(c) \/ RequirePayment(c)
    PROVE  Recent' /\ \A d \in Calls : Served(d)
<1>1. call[c] \in CallType /\ IdleCall \in CallType /\ IdleCall.seen = {} /\ IdleCall.pc = "idle"
  BY IdleTypes DEF TypeInv, ReadTypes, IdleCall
<1>2. UNCHANGED <<planCache, values, now, flights>>
  BY DEF Decide, Record, RequirePayment, caches
<1>3. PICK next : /\ Become(c, next) /\ next.pc \notin {"ready", "resolving"}
                  /\ next.seen \subseteq call[c].seen
  <2>1. CASE Decide(c)
    <3> DEFINE next == [call[c] EXCEPT !.pc = IF DecisionOf(c).ok THEN "recording" ELSE "refused",
                                       !.decision = DecisionOf(c)]
    <3>1. Become(c, next) /\ next.pc \notin {"ready", "resolving"} /\ next.seen = call[c].seen
      BY <1>1, <2>1 DEF Decide, CallType
    <3> HIDE DEF next
    <3> QED BY <3>1
  <2>2. CASE Record(c)
    <3> DEFINE next == [call[c] EXCEPT !.pc = "charging"]
    <3>1. Become(c, next) \/ Become(c, IdleCall)
      BY <2>2 DEF Record, Leave
    <3>2. next.pc = "charging" /\ next.seen = call[c].seen
      BY <1>1 DEF CallType
    <3> HIDE DEF next
    <3> QED BY <1>1, <3>1, <3>2
  <2>3. CASE RequirePayment(c)
    <3> DEFINE next == [IdleCall EXCEPT !.pc = "paid"]
    <3>1. Become(c, next) /\ next.pc = "paid" /\ next.seen = {}
      BY <1>1, <2>3 DEF RequirePayment, CallType
    <3> HIDE DEF next
    <3> QED BY <3>1
  <2> QED BY <2>1, <2>2, <2>3
<1> QED BY <1>2, <1>3, UnservedStep

LEMMA ReadServed ==
    ASSUME TypeInv, Recent, NEW f \in flights, ReadArrives(f) \/ ReadFails(f), UNCHANGED scene
    PROVE  Recent' /\ \A d \in Calls : Served(d)
<1>1. /\ f \in FlightType /\ call \in [Calls -> CallType]
      /\ now \in Nat /\ MaxLatency \in Nat /\ scene.ttl \in Nat
      /\ Timely(f.born, now) /\ f.born \in Nat
  BY MeteringAssumption DEF TypeInv, ReadTypes, FlightType, SceneType, Recent
<1>2. PICK total, born : Answer(f, total, born) /\ ("read" \notin scene.faults => born = f.born)
  BY DEF ReadArrives, ReadFails, Can
<1> DEFINE answer == [query |-> f.query, total |-> total, born |-> born]
           entry == [query |-> f.query, total |-> total, born |-> born, at |-> now]
           next(c) == IF c \in f.by THEN [call[c] EXCEPT !.seen = @ \cup {answer}] ELSE call[c]
<1>3. call' = [c \in Calls |-> next(c)]
  BY <1>2 DEF Answer
<1>4. values' = values \/ values' = Prune({v \in values : v.query # f.query} \cup {entry})
  BY <1>2 DEF Answer
<1>5. entry.at = now /\ entry.born = born /\ answer.born = born
  OBVIOUS
<1> HIDE DEF answer, entry
<1>6. ASSUME NEW c \in Calls
      PROVE  /\ next(c).pc = call[c].pc /\ next(c).since = call[c].since
             /\ next(c).seen \subseteq call[c].seen \cup {answer}
  BY <1>1 DEF CallType
<1> HIDE DEF next
<1>7. \A c \in Calls : /\ call'[c].pc = call[c].pc /\ call'[c].since = call[c].since
                       /\ call'[c].seen \subseteq call[c].seen \cup {answer}
  BY <1>3, <1>6
<1>8. UNCHANGED <<planCache, now>> /\ flights' \subseteq flights
  BY <1>2 DEF ReadArrives, ReadFails, Answer
<1>9. "read" \notin scene.faults => \A v \in values' : v.at <= now /\ Timely(v.born, v.at)
  <2> SUFFICES ASSUME "read" \notin scene.faults, NEW v \in values'
               PROVE  v.at <= now /\ Timely(v.born, v.at)
    OBVIOUS
  <2>1. v \in values \/ v = entry
    BY <1>4, PruneTypes
  <2> QED BY <1>1, <1>2, <1>5, <2>1 DEF Recent
<1>10. Recent'
  BY <1>7, <1>8, <1>9 DEF Recent
<1>11. "read" \notin scene.faults => now - answer.born < Larger(1, scene.ttl) + MaxLatency
  BY <1>1, <1>2, <1>5 DEF Timely, Larger
<1>12. \A d \in Calls : Served(d)
  BY <1>7, <1>11 DEF Served
<1> QED BY <1>10, <1>12

LEMMA TickServed ==
    ASSUME TypeInv, Recent, Tick, UNCHANGED scene
    PROVE  Recent' /\ \A d \in Calls : Served(d)
<1>1. now \in Nat /\ MaxLatency \in Nat /\ now' = now + 1
  BY MeteringAssumption DEF TypeInv, ReadTypes, Tick
<1>2. UNCHANGED <<flights, values, planCache, call>>
  BY DEF Tick, caches
<1>3. \A f \in flights : Timely(f.born, now')
  <2> SUFFICES ASSUME NEW f \in flights PROVE Timely(f.born, now')
    OBVIOUS
  <2>1. f.born \in Nat /\ f.born <= now /\ now - f.born < MaxLatency
    BY DEF TypeInv, ReadTypes, FlightType, Recent, Timely, Tick
  <2> QED BY <1>1, <2>1 DEF Timely
<1>4. \A c \in Calls : call[c].pc = "resolving" => Timely(call[c].since, now')
  <2> SUFFICES ASSUME NEW c \in Calls, call[c].pc = "resolving" PROVE Timely(call[c].since, now')
    OBVIOUS
  <2>1. call[c].since \in Nat
    BY DEF TypeInv, ReadTypes, CallType
  <2>2. call[c].since <= now /\ now - call[c].since < MaxLatency
    BY DEF Recent, Timely, Tick
  <2> QED BY <1>1, <2>1, <2>2 DEF Timely
<1>5. /\ \A v \in values : v.at \in Nat /\ (v.at <= now => v.at <= now')
      /\ \A p \in planCache : p.at \in Nat /\ (p.at <= now => p.at <= now')
  BY <1>1 DEF TypeInv, ReadTypes, ValueType
<1>6. Recent'
  BY <1>2, <1>3, <1>4, <1>5 DEF Recent
<1>7. \A d \in Calls : Served(d)
  BY <1>2 DEF Served
<1> QED BY <1>6, <1>7

LEMMA QuietServed ==
    ASSUME Recent, UNCHANGED <<scene, caches, call, now>>
    PROVE  Recent' /\ \A d \in Calls : Served(d)
BY DEF Recent, Served, caches

LEMMA StepServed ==
    ASSUME TypeInv, Recent, [Next]_vars
    PROVE  Recent' /\ \A d \in Calls : Served(d)
<1>1. ASSUME NEW c \in Calls, Serve(c), UNCHANGED scene
      PROVE  Recent' /\ \A d \in Calls : Served(d)
  <2>1. CASE ClaimRead(c) \/ ClaimWrite(c) \/ ClaimFails(c)
    BY <1>1, <2>1, QuietServed DEF ClaimRead, ClaimWrite, ClaimFails
  <2> QED BY <1>1, <2>1, BeginServed, PlanArrivesServed, ResolveAllowanceServed,
             CustomerArrivesServed, IdleServed, DecidingServed DEF Serve
<1>2. CASE UNCHANGED vars
  BY <1>2, QuietServed DEF vars
<1>3. ASSUME \/ \E key \in DOMAIN Plans : PlanChanges(key)
             \/ \E w \in Windows : NewWindow(w),
             UNCHANGED scene
      PROVE  Recent' /\ \A d \in Calls : Served(d)
  BY <1>3, QuietServed DEF PlanChanges, NewWindow
<1> QED BY <1>1, <1>2, <1>3, ReadServed, TickServed DEF Next

\* A total a call is served was true of its window less than the cache's time to
\* live and one read ago, and the plan less than its own and one ago, for any times
\* to live, latency and number of calls that share a read (usage-cache.ts).
THEOREM ServedIsAlwaysRecent == Spec => ServedIsRecent
<1>1. Init => TypeInv /\ Recent
  <2>1. Init => Recent
    BY DEF Init, Recent, IdleCall
  <2> QED BY <2>1, InitTypes
<1>2. TypeInv /\ Recent /\ [Next]_vars => (TypeInv /\ Recent)'
  BY StepTypes, StepServed
<1>3. TypeInv /\ Recent /\ [Next]_vars => \A c \in Calls : Served(c)
  BY StepServed
<1>4. (\A c \in Calls : Served(c)) =>
        [\A c \in Calls :
          /\ "read" \notin scene.faults =>
                \A a \in call'[c].seen \ call[c].seen : now - a.born < Larger(1, scene.ttl) + MaxLatency
          /\ call'[c].pc = "ready" /\ call[c].pc # "ready" =>
                now - call'[c].since < PlanTtl + MaxLatency]_vars
  BY DEF Served
<1> QED BY <1>1, <1>2, <1>3, <1>4, PTL DEF Spec, ServedIsRecent
=============================================================================
