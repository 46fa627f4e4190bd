------------------------------ MODULE Metering ------------------------------
(***************************************************************************)
(* The gate every metered call goes through, and the ledgers it counts in. *)
(* A call resolves the plan (cached), reads every window that applies to   *)
(* its caller and the wallet, decides who pays, records the use, debits    *)
(* the wallet if the wallet pays, and announces a threshold on the way     *)
(* out. Nothing is held between reading and recording, so calls interleave *)
(* at every await.                                                         *)
(*                                                                         *)
(* A ledger's totals are kept per scope and per length of window, and are  *)
(* reset when a window of that length starts: an event log read over the   *)
(* current window.                                                         *)
(***************************************************************************)
EXTENDS Allowance, FiniteSets

CONSTANTS
    Calls,          \* callers that run one call after another
    Caller,         \* Caller[c]: [kind, seat, id]
    Plans,          \* plan key -> normalized plan
    Windows,        \* the window lengths that roll over
    Thresholds,     \* percentages of an allowance worth an announcement
    Cost,           \* credits of one call
    MaxTurns,       \* bound: windows of one length
    MaxBalance,     \* bound: credits bought
    MaxTime,        \* bound: the clock, which only the caches read
    MaxLatency,     \* a read or a resolved plan arrives within this long
    PlanTtl,        \* planCacheTtlMs
    MaxEntries,     \* maxEntries of the usage cache
    Mixes,          \* baskets an organization may have bought; <<>>: not reported
    Scenes          \* what varies between deployments

ASSUME MeteringAssumption ==
    /\ IsFiniteSet(Calls) /\ Calls # {}
    /\ Cost \in Nat \ {0}
    /\ Thresholds \subseteq Nat
    /\ MaxLatency \in Nat /\ PlanTtl \in Nat \ {0}
    /\ {"month", "cycle"} \subseteq Windows
    /\ Caller \in [Calls -> [kind : {"user", "api"}, seat : STRING, id : STRING]]

\* The limits of a plan are typed, whatever the plan.
LimitType == [every : Windows, scope : {"org", "caller"}, covers : {"all", "included"},
              callerKind : {{}, {"user"}, {"api"}}, seat : SUBSET STRING, credits : Nat]
ASSUME PlanAssumption == \A key \in DOMAIN Plans : Plans[key].rate \in Seq(LimitType)

\* ledger: the debits alone, the meter and the debits, or the meter and a
\* customer per scope. metered: the Stripe meter could be resolved.
\* uses, turns: bounds, on the calls decided for and on the windows that start anew.
\* others: plans the organization may change to.
SceneType ==
    [plan : DOMAIN Plans, ledger : {"balance", "meter", "scopes"}, metered : BOOLEAN,
     ttl : Nat, balance : Nat, seats : SUBSET [total : Nat, mix : Mixes], members : Nat,
     extra : Nat, ceiling : SUBSET Nat, alertCredits : SUBSET Nat, buys : BOOLEAN,
     turns : SUBSET Windows, others : SUBSET DOMAIN Plans, uses : Nat,
     faults : SUBSET {"record", "scope", "read", "debit", "claim", "subscription", "customer"}]
ASSUME SceneAssumption == Scenes \subseteq SceneType

VARIABLES
    scene,
    plan,           \* the plan the organization is on
    planCache,      \* {} or {[key, born, at]}
    turn,           \* turn[w]: how many windows of length w have started
    meter,          \* meter[scope][w]: the events a Stripe meter aggregates
    debits,         \* debits[scope][w]: the balance transactions
    balance,        \* the customer's credit balance
    flights,        \* reads in flight: [query, by, total, born]
    values,         \* the usage cache: [query, total, born, at]
    lastKnown,      \* the last total read per window: [query, total]
    call,           \* call[c]: where a call stands and what it has read
    sent,           \* sent[who]: thresholds on record, [cycle, levels]
    alert,          \* alert[c]: the announcement its last use started
    now,
    drawn,          \* ghost: drawn[scope][w][source], what was recorded
    tally,          \* ghost: [counted, charged, bought, failed], in calls
    crossed,        \* ghost: thresholds an admitted call saw
    announced       \* ghost: notifications handed to the emitter

caches == <<planCache, flights, values, lastKnown>>
ledgers == <<meter, debits, balance, drawn, tally>>
alerts == <<sent, alert, crossed, announced>>
vars == <<scene, plan, turn, caches, ledgers, alerts, call, now>>

-----------------------------------------------------------------------------
Funds == {"pool", "pack", "wallet"}
Ids == {Caller[c].id : c \in Calls}
Scopes == {"org", "user", "api"} \cup Ids
Can(fault) == fault \in scene.faults

Zero == [s \in Scopes |-> [w \in Windows |-> 0]]
Add(store, scopes) ==
    [s \in Scopes |-> [w \in Windows |-> store[s][w] + (IF s \in scopes THEN Cost ELSE 0)]]

\* (mutant of LedgerTotal)
LedgerTotalOneLeg(q) ==
    IF q.scope = "org" THEN meter["org"][q.every] ELSE debits[q.scope][q.every]

\* What the wired ledger answers now. An org-wide read goes to the meter, which
\* cannot leave the debits out; the debits alone ignore the sources too.
MeterTotal(q) == IF scene.metered THEN meter[q.scope][q.every] ELSE 0
LedgerTotal(q) ==
    CASE scene.ledger = "balance" -> debits[q.scope][q.every]
      [] scene.ledger # "balance" /\ q.scope = "org" -> MeterTotal(q)
      [] scene.ledger = "meter" /\ q.scope # "org" -> debits[q.scope][q.every]
      [] scene.ledger = "scopes" /\ q.scope # "org" ->
            (IF q.wallet THEN debits[q.scope][q.every] ELSE 0)
            + (IF q.included THEN MeterTotal(q) ELSE 0)

Covers == CASE scene.ledger = "balance" -> {}
            [] scene.ledger = "meter" -> {"orgIncluded"}
            [] scene.ledger = "scopes" -> {"orgIncluded", "callerIncluded"}

\* Call c's windows, over the plan it resolved and the turns it started in.
LimitsFor(c, it) ==
    Limits(Plans[it.plan], Caller[c], scene.extra, scene.ceiling, it.cycle, it.turn)
OwnFor(c, it) == OwnWindows(Plans[it.plan], Caller[c], it.seats, scene.extra, it.cycle, it.turn)
LimitsOf(c) == LimitsFor(c, call[c])
OwnOf(c) == OwnFor(c, call[c])

\* What is asked for at once, and what once the customer is known.
Queries(c, it) ==
    {LimitsFor(c, it)[i].query : i \in DOMAIN LimitsFor(c, it) \cap DOMAIN Plans[it.plan].rate}
    \cup {w.query : w \in OwnFor(c, it)}
SpendQueries(c) == {w.query : w \in SpendWindows(scene.ceiling, call[c].turn)}

UsedBy(c) == [q \in {a.query : a \in call[c].seen} |->
                 (CHOOSE a \in call[c].seen : a.query = q).total]
DecisionOf(c) == FundingFor(Plans[call[c].plan], Caller[c], LimitsOf(c), OwnOf(c),
                            UsedBy(c), Or(call[c].wallet, 0), Cost)

IdleCall == [pc |-> "idle", plan |-> scene.plan, since |-> 0, turn |-> [w \in Windows |-> 0], cycle |-> "cycle",
             seats |-> [total |-> 1, mix |-> <<>>], seen |-> {}, wallet |-> {},
             decision |-> Denied("none"), retried |-> FALSE]
NoLevels == [key \in {"pool", "pack", "spend"} |-> 0]
Said == [pc |-> "none", want |-> {}, fresh |-> {}, cycle |-> <<>>,
         kept |-> [who \in {"org"} \cup Ids |-> NoLevels]]
Become(c, next) == call' = [call EXCEPT ![c] = next]

-----------------------------------------------------------------------------
(* The plan, cached for PlanTtl. A resolved plan is cached when it arrives. *)

FreshPlan == {p \in planCache : now - p.at < PlanTtl}

Uses == tally.counted["pool"] + tally.counted["pack"] + tally.counted["wallet"] + tally.failed
Admitting == {c \in Calls : call[c].pc # "idle"}

Begin(c) ==
    /\ call[c].pc \in {"idle", "paid"} /\ alert[c].pc = "none"
    /\ call[c].pc = "idle" => Uses + Cardinality(Admitting) < scene.uses
    /\ LET started == [IdleCall EXCEPT !.retried = (call[c].pc = "paid")] IN
          \/ \E p \in FreshPlan :
                Become(c, [started EXCEPT !.pc = "ready", !.plan = p.key, !.since = p.born])
          \/ /\ FreshPlan = {}
             /\ Become(c, [started EXCEPT !.pc = "resolving", !.plan = plan, !.since = now])
    /\ UNCHANGED <<plan, turn, caches, ledgers, alerts, now>>

PlanArrives(c) ==
    /\ call[c].pc = "resolving"
    /\ planCache' = {[key |-> call[c].plan, born |-> call[c].since, at |-> now]}
    /\ Become(c, [call[c] EXCEPT !.pc = "ready"])
    /\ UNCHANGED <<plan, turn, flights, values, lastKnown, ledgers, alerts, now>>

-----------------------------------------------------------------------------
(* Reading the windows, through the cache. A read takes its answer when it *)
(* is issued and brings it later; a window being read is waited for.       *)

\* (mutant of Hits)
HitsStale(q) == {v \in values : v.query = q /\ now - v.at <= scene.ttl}
Hits(q) == {v \in values : v.query = q /\ now - v.at < scene.ttl}

Joined(queries) ==
    {f \in flights : scene.ttl > 0 /\ f.query \in {q \in queries : Hits(q) = {}}}
FlightsAfter(c, queries) ==
    (flights \ Joined(queries))
    \cup {[f EXCEPT !.by = @ \cup {c}] : f \in Joined(queries)}
    \cup {[query |-> q, by |-> {c}, total |-> LedgerTotal(q), born |-> now]
             : q \in {r \in queries : Hits(r) = {} /\ \A f \in Joined(queries) : f.query # r}}
Answers(queries) ==
    {[query |-> v.query, total |-> v.total, born |-> v.born] : v \in UNION {Hits(q) : q \in queries}}

\* One tick asks for every window of the plan, and for the customer. The
\* subscription was read before; failing, it sizes the pool without it.
ResolveAllowance(c) ==
    /\ call[c].pc = "ready"
    /\ \E bought \in {scene.seats} \cup (IF Can("subscription") THEN {{}} ELSE {}) :
          LET reading == [call[c] EXCEPT !.pc = "reading", !.turn = turn, !.since = 0,
                                         !.cycle = CycleOf(Plans[call[c].plan], bought),
                                         !.seats = SeatsFor(bought, scene.members)]
              queries == Queries(c, reading)
          IN /\ flights' = FlightsAfter(c, queries)
             /\ Become(c, [reading EXCEPT !.seen = Answers(queries)])
    /\ UNCHANGED <<plan, turn, planCache, values, lastKnown, ledgers, alerts, now>>

\* The customer's balance and ceiling arrive; only then is the ceiling's window asked for.
CustomerArrives(c) ==
    /\ call[c].pc = "reading" /\ call[c].wallet = {}
    /\ flights' = FlightsAfter(c, SpendQueries(c))
    /\ Become(c, [call[c] EXCEPT !.wallet = {Larger(0, balance)},
                                 !.seen = @ \cup Answers(SpendQueries(c))])
    /\ UNCHANGED <<plan, turn, planCache, values, lastKnown, ledgers, alerts, now>>

\* Money is never guessed: the call throws.
CustomerFails(c) ==
    /\ Can("customer")
    /\ call[c].pc = "reading" /\ call[c].wallet = {}
    /\ flights' = {[f EXCEPT !.by = @ \ {c}] : f \in flights}
    /\ Become(c, IdleCall)
    /\ UNCHANGED <<plan, turn, planCache, values, lastKnown, ledgers, alerts, now>>

Prune(entries) ==
    LET alive == {v \in entries : now - v.at < scene.ttl}
    IN CASE Cardinality(entries) <= MaxEntries -> entries
         [] Cardinality(entries) > MaxEntries /\ Cardinality(alive) <= MaxEntries -> alive
         [] OTHER -> {}

\* A total reaches everyone who waits for it, and the cache.
Answer(f, total, born) ==
    /\ flights' = flights \ {f}
    /\ call' = [c \in Calls |-> IF c \in f.by
                   THEN [call[c] EXCEPT !.seen = @ \cup
                            {[query |-> f.query, total |-> total, born |-> born]}]
                   ELSE call[c]]
    /\ values' = IF scene.ttl = 0 THEN values
                 ELSE Prune({v \in values : v.query # f.query}
                            \cup {[query |-> f.query, total |-> total, born |-> born, at |-> now]})

ReadArrives(f) ==
    /\ Answer(f, f.total, f.born)
    /\ lastKnown' = {k \in lastKnown : k.query # f.query}
                    \cup (IF Can("read") THEN {[query |-> f.query, total |-> f.total, born |-> f.born]}
                          ELSE {})
    /\ UNCHANGED <<plan, turn, planCache, ledgers, alerts, now>>

\* onReadFailure is "last-known": the last total read, or 0, served as an answer.
ReadFails(f) ==
    /\ Can("read")
    /\ LET known == {k \in lastKnown : k.query = f.query} IN
          IF known = {} THEN Answer(f, 0, f.born)
          ELSE \E k \in known : Answer(f, k.total, k.born)
    /\ UNCHANGED <<plan, turn, planCache, lastKnown, ledgers, alerts, now>>

-----------------------------------------------------------------------------
(* Deciding, recording, charging. *)

Awaiting(c) == call[c].wallet = {} \/ \E f \in flights : c \in f.by

Subject(c, key) == IF key = "pack" THEN Caller[c].id ELSE "org"
CycleKey(c) == <<call[c].cycle, call[c].turn[call[c].cycle]>>
Crossed(c) ==
    {[key |-> x.key, level |-> x.level, who |-> Subject(c, x.key), cycle |-> CycleKey(c)]
        : x \in {y \in Crossings(LimitsOf(c), OwnOf(c), UsedBy(c), Thresholds, scene.alertCredits) :
                    y.key = "pack" => Caller[c].kind = "user"}}

Decide(c) ==
    /\ call[c].pc = "reading" /\ ~Awaiting(c)
    /\ Become(c, [call[c] EXCEPT !.pc = IF DecisionOf(c).ok THEN "recording" ELSE "refused",
                                 !.decision = DecisionOf(c)])
    /\ UNCHANGED <<plan, turn, caches, ledgers, alerts, now>>

\* (mutant of Recorded)
RecordedOnceEach(c) ==
    CASE scene.ledger = "balance" \/ ~scene.metered -> {}
      [] call[c].decision.source = "wallet" -> {}
      [] OTHER -> {"org"}

\* What a use is recorded as: every scope of the caller, in the ledger's own way.
\* The debit is the record of what the wallet paid, so only the org meter counts it.
Recorded(c) ==
    CASE scene.ledger = "balance" \/ ~scene.metered -> {}
      [] scene.ledger = "scopes" /\ scene.metered /\ call[c].decision.source # "wallet" ->
            ScopesFor(Caller[c])
      [] OTHER -> {"org"}

Drawn(c) ==
    [s \in Scopes |-> [w \in Windows |->
        [drawn[s][w] EXCEPT ![call[c].decision.source] =
            @ + (IF s \in ScopesFor(Caller[c]) THEN Cost ELSE 0)]]]

\* The end of a call: what it crossed is announced on the side.
Leave(c) ==
    /\ Become(c, IdleCall)
    /\ alert' = [alert EXCEPT ![c] = IF Crossed(c) = {} THEN Said
                                     ELSE [Said EXCEPT !.pc = "claiming", !.want = Crossed(c)]]
    /\ crossed' = crossed \cup Crossed(c)
    /\ UNCHANGED <<sent, announced>>

\* A scope's event may be dropped, which only the fault channel hears of.
Record(c) ==
    /\ call[c].pc = "recording"
    /\ \E scopes \in {Recorded(c)} \cup (IF Can("scope") THEN {Recorded(c) \cap {"org"}} ELSE {}) :
          meter' = Add(meter, scopes)
    /\ drawn' = Drawn(c)
    /\ tally' = [tally EXCEPT !.counted[call[c].decision.source] = @ + 1]
    /\ \/ /\ call[c].decision.source = "wallet"
          /\ Become(c, [call[c] EXCEPT !.pc = "charging"])
          /\ UNCHANGED alerts
       \/ /\ call[c].decision.source # "wallet"
          /\ Leave(c)
    /\ UNCHANGED <<plan, turn, caches, debits, balance, now>>

\* Reporting to the meter threw, whether or not Stripe counted it, and whether
\* or not the scopes, reported beside it, did: the call is not served.
RecordFails(c) ==
    /\ Can("record")
    /\ call[c].pc = "recording"
    /\ \E scopes \in {{}, {"org"}, Recorded(c) \ {"org"}, Recorded(c)} :
          meter' = Add(meter, scopes \cap Recorded(c))
    /\ tally' = [tally EXCEPT !.failed = @ + 1]
    /\ Become(c, IdleCall)
    /\ UNCHANGED <<plan, turn, caches, debits, balance, drawn, alerts, now>>

Deduct(c) ==
    /\ debits' = Add(debits, ScopesFor(Caller[c]))
    /\ balance' = balance - Cost
    /\ tally' = [tally EXCEPT !.charged = @ + 1]

DeductCredits(c) ==
    /\ call[c].pc = "charging"
    /\ Deduct(c)
    /\ Leave(c)
    /\ UNCHANGED <<plan, turn, caches, meter, drawn, now>>

\* The debit threw, whether or not Stripe had made it.
DeductFails(c) ==
    /\ Can("debit")
    /\ call[c].pc = "charging"
    /\ Deduct(c) \/ UNCHANGED <<debits, balance, tally>>
    /\ Become(c, IdleCall)
    /\ UNCHANGED <<plan, turn, caches, meter, drawn, alerts, now>>

\* The route guard: money can lift some refusals, and is asked for once.
Refuse(c) ==
    /\ call[c].pc = "refused"
    /\ Become(c, IdleCall)
    /\ UNCHANGED <<plan, turn, caches, ledgers, alerts, now>>

RequirePayment(c) ==
    /\ scene.buys /\ balance + Cost <= MaxBalance
    /\ call[c].pc = "refused" /\ ~call[c].retried /\ ~Waitable(call[c].decision.reason)
    /\ balance' = balance + Cost
    /\ tally' = [tally EXCEPT !.bought = @ + 1]
    /\ Become(c, [IdleCall EXCEPT !.pc = "paid"])
    /\ UNCHANGED <<plan, turn, caches, meter, debits, drawn, alerts, now>>

-----------------------------------------------------------------------------
(* Thresholds: read what was said, write the higher level, say it. *)

\* (mutant of Level)
LevelOfAnyCycle(who, cycle, key) == sent[who].level[key]

Level(who, cycle, key) ==
    IF sent[who].cycle = cycle THEN sent[who].level[key] ELSE 0

ClaimRead(c) ==
    /\ alert[c].pc = "claiming"
    /\ LET cycle == (CHOOSE x \in alert[c].want : TRUE).cycle
           fresh == {x \in alert[c].want : Level(x.who, cycle, x.key) < x.level}
           kept == [who \in DOMAIN sent |->
                       [key \in DOMAIN NoLevels |-> Level(who, cycle, key)]]
       IN alert' = [alert EXCEPT ![c] = IF fresh = {} THEN Said
                       ELSE [@ EXCEPT !.pc = "writing", !.fresh = fresh, !.cycle = cycle,
                                      !.kept = kept]]
    /\ UNCHANGED <<plan, turn, caches, ledgers, call, sent, crossed, announced, now>>

\* The whole record is written, as it was read plus what is new.
Written(c, subjects) ==
    [who \in DOMAIN sent |->
        IF who \in subjects
        THEN [cycle |-> alert[c].cycle,
              level |-> [key \in DOMAIN NoLevels |->
                  LET mine == {x.level : x \in {y \in alert[c].fresh : y.who = who /\ y.key = key}}
                  IN Or(mine, alert[c].kept[who][key])]]
        ELSE sent[who]]
Subjects(c) == {x.who : x \in alert[c].fresh}

ClaimWrite(c) ==
    /\ alert[c].pc = "writing"
    /\ sent' = Written(c, Subjects(c))
    /\ announced' = announced \cup alert[c].fresh
    /\ alert' = [alert EXCEPT ![c] = Said]
    /\ UNCHANGED <<plan, turn, caches, ledgers, call, crossed, now>>

\* One of the two records could not be written: nothing is said of either.
ClaimFails(c) ==
    /\ Can("claim")
    /\ alert[c].pc = "writing"
    /\ \E failed \in Subjects(c) : sent' = Written(c, Subjects(c) \ {failed})
    /\ alert' = [alert EXCEPT ![c] = Said]
    /\ UNCHANGED <<plan, turn, caches, ledgers, call, crossed, announced, now>>

-----------------------------------------------------------------------------
(* What happens around the calls. *)

\* A window of length w starts; nothing is kept of the one before. (Bound: not
\* while a call waits for its customer, whose window it has already named.)
NewWindow(w) ==
    /\ w \in scene.turns /\ turn[w] < MaxTurns
    /\ \A c \in Calls : call[c].pc # "reading" \/ call[c].wallet # {}
    /\ turn' = [turn EXCEPT ![w] = @ + 1]
    /\ meter' = [s \in Scopes |-> [meter[s] EXCEPT ![w] = 0]]
    /\ debits' = [s \in Scopes |-> [debits[s] EXCEPT ![w] = 0]]
    /\ drawn' = [s \in Scopes |-> [drawn[s] EXCEPT ![w] = [f \in Funds |-> 0]]]
    /\ UNCHANGED <<plan, caches, balance, tally, alerts, call, now>>

PlanChanges(key) ==
    /\ key \in scene.others \ {plan}
    /\ plan' = key
    /\ UNCHANGED <<turn, caches, ledgers, alerts, call, now>>

\* Only the caches read the clock. A read, or a plan, arrives within MaxLatency.
Tick ==
    /\ scene.ttl > 0 /\ now < MaxTime
    /\ \A f \in flights : now - f.born < MaxLatency
    /\ \A c \in Calls : call[c].pc = "resolving" => now - call[c].since < MaxLatency
    /\ now' = now + 1
    /\ UNCHANGED <<plan, turn, caches, ledgers, alerts, call>>

\* Every step of a call, and of the announcement it left behind.
Serve(c) ==
    \/ Begin(c) \/ PlanArrives(c) \/ ResolveAllowance(c)
    \/ CustomerArrives(c) \/ CustomerFails(c)
    \/ Decide(c) \/ Record(c) \/ RecordFails(c)
    \/ DeductCredits(c) \/ DeductFails(c)
    \/ Refuse(c) \/ RequirePayment(c)
    \/ ClaimRead(c) \/ ClaimWrite(c) \/ ClaimFails(c)

Init ==
    /\ scene \in Scenes
    /\ plan = scene.plan
    /\ planCache = {}
    /\ turn = [w \in Windows |-> 0]
    /\ meter = Zero /\ debits = Zero
    /\ balance = scene.balance
    /\ flights = {} /\ values = {} /\ lastKnown = {}
    /\ call = [c \in Calls |-> IdleCall]
    /\ sent = [who \in {"org"} \cup Ids |->
                  [cycle |-> <<>>, level |-> NoLevels]]
    /\ alert = [c \in Calls |-> Said]
    /\ now = 0
    /\ drawn = [s \in Scopes |-> [w \in Windows |-> [f \in Funds |-> 0]]]
    /\ tally = [counted |-> [f \in Funds |-> 0], charged |-> 0, bought |-> 0, failed |-> 0]
    /\ crossed = {} /\ announced = {}

Next ==
    /\ \/ \E c \in Calls : Serve(c)
       \/ \E f \in flights : ReadArrives(f) \/ ReadFails(f)
       \/ \E w \in Windows : NewWindow(w)
       \/ \E key \in DOMAIN Plans : PlanChanges(key)
       \/ Tick
    /\ UNCHANGED scene

Spec == Init /\ [][Next]_vars

-----------------------------------------------------------------------------
(* Properties. *)

Totals == [query : [scope : Scopes, every : Windows, start : Nat,
                    included : BOOLEAN, wallet : BOOLEAN], total : Nat, born : Nat]

\* Every variable has its type: balances and counts are integers, what a call
\* has read is a set of totals, each of one window (metering.ts, usage-cache.ts).
TypeOK ==
    /\ scene \in SceneType
    /\ plan \in DOMAIN Plans
    /\ turn \in [Windows -> Nat]
    /\ meter \in [Scopes -> [Windows -> Nat]]
    /\ debits \in [Scopes -> [Windows -> Nat]]
    /\ drawn \in [Scopes -> [Windows -> [Funds -> Nat]]]
    /\ balance \in Int
    /\ now \in Nat
    /\ tally \in [counted : [Funds -> Nat], charged : Nat, bought : Nat, failed : Nat]
    /\ \A f \in flights : [query |-> f.query, total |-> f.total, born |-> f.born] \in Totals
    /\ lastKnown \subseteq Totals
    /\ \A c \in Calls : call[c].seen \subseteq Totals /\ call[c].wallet \subseteq Nat

Others == Cost * (Cardinality(Calls) - 1)

\* Nothing is lost or stale: totals are read from the ledger, which can count
\* what the plan includes, and every caller sits in a seat the plan sells.
Exact ==
    /\ scene.metered /\ scene.ttl = 0 /\ scene.others = {}
    /\ scene.faults \cap {"read", "scope", "debit", "subscription"} = {}
    /\ LedgerGaps(Plans[scene.plan], Covers) = {}
    /\ Plans[scene.plan].cap.kind = "per_seat" =>
          \A c \in Calls : Caller[c].seat \in SeatKeys(Plans[scene.plan])

DrawnFrom(q) == drawn[q.scope][q.every]
UsageOf(q) == DrawnFrom(q)["pool"] + DrawnFrom(q)["pack"] + DrawnFrom(q)["wallet"]

\* A limit of everyone, or of each caller; the customer's ceiling is of everyone.
Uniform(limit) == limit.scope = "caller" \/ limit.seat \cup limit.callerKind = {}

\* What is drawn from a pool, a pack or an absolute limit never exceeds it by more
\* than the other calls that can be in flight, one call each; nor does the wallet
\* go further below zero. metering.ts reads, decides and records without a lock.
OverrunBounded ==
    Exact => \A c \in Calls :
        LET model == Plans[scene.plan]
            cycle == CycleOf(model, scene.seats)
            seats == SeatsFor(scene.seats, scene.members)
            limits == Limits(model, Caller[c], scene.extra, scene.ceiling, cycle, turn)
        IN /\ \A w \in OwnWindows(model, Caller[c], seats, scene.extra, cycle, turn) :
                DrawnFrom(w.query)[w.role] <= w.size + w.extra + Others
           /\ \A i \in DOMAIN limits :
                limits[i].covers = "all" /\ (i \in DOMAIN model.rate => Uniform(model.rate[i]))
                    => UsageOf(limits[i].query) <= limits[i].size + limits[i].extra + Others
           /\ balance >= -Others

\* The wallet is debited for the uses it funded, each once and after it was
\* counted, and the organization's meter counts every use whatever funded it.
BooksAgree ==
    /\ tally.charged <= tally.counted["wallet"]
    /\ "debit" \notin scene.faults /\ (\A c \in Calls : call[c].pc # "charging")
         => tally.charged = tally.counted["wallet"]
    /\ balance = scene.balance + Cost * (tally.bought - tally.charged)
    /\ scene.ledger # "balance" /\ scene.metered /\ "record" \notin scene.faults =>
          \A w \in Windows : meter["org"][w] = UsageOf([scope |-> "org", every |-> w])

\* A total a call is served was true of its window no longer ago than the cache's
\* time to live and one read, however many calls share it; a plan likewise.
ServedIsRecent ==
    [][\A c \in Calls :
        /\ "read" \notin scene.faults =>
              \A a \in call'[c].seen \ call[c].seen : now - a.born < Larger(1, scene.ttl) + MaxLatency
        /\ call'[c].pc = "ready" /\ call[c].pc # "ready" =>
              now - call'[c].since < PlanTtl + MaxLatency]_vars

\* Once no announcement is under way, every threshold an admitted call saw its
\* allowance at has been announced in that cycle, or a higher one was: records
\* are read and written back whole, by calls that do not wait for each other.
CrossedIsAnnounced ==
    "claim" \notin scene.faults /\ (\A c \in Calls : alert[c].pc = "none") =>
        \A x \in crossed : \E y \in announced :
            y.key = x.key /\ y.who = x.who /\ y.cycle = x.cycle /\ y.level >= x.level
=============================================================================
