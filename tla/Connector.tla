----------------------------- MODULE Connector -----------------------------
(***************************************************************************)
(* A connector (an MCP client) signed in through the proxy: it registers   *)
(* once, sends its user to AuthKit and back for a code, changes the code   *)
(* for tokens, and refreshes them for as long as it is kept. Its           *)
(* registration, the request parked meanwhile and the code lie in a store  *)
(* all replicas share, or in the memory of one process.                    *)
(*                                                                         *)
(* Time passes between requests: a request takes seconds, a registration   *)
(* and a refresh token last weeks. Parked requests and codes, which last   *)
(* minutes, run out whenever they like.                                    *)
(***************************************************************************)
EXTENDS Integers, FiniteSets

CONSTANTS
    Served,         \* requests of the connector under way
    Trips,          \* sign-ins, each a trip to AuthKit and back
    ConnectorScenes \* what varies between deployments

\* clientTtl: {} never runs out. shared: a store of the deployment's own; otherwise
\* a restart forgets everything. diligent: the connector is used, and refreshes
\* the token it has, before a refresh token has run out. turns: one request at a time, and its answer arrives. signs:
\* the signing secret is set.
ConnectorSceneType ==
    [clientTtl : {{ttl} : ttl \in 1..8} \cup {{}}, refreshTtl : 1..8, shared : BOOLEAN, diligent : BOOLEAN,
     turns : BOOLEAN, signs : BOOLEAN, trips : SUBSET Trips, faults : SUBSET {"store", "workos"}]
ASSUME ConnectorSceneAssumption == ConnectorScenes \subseteq ConnectorSceneType

VARIABLES
    connectorScene,
    known,      \* the connector has a client_id
    age,        \* {}, or the time since its registration was written or extended
    parked,     \* trips whose request is in the store
    coded,      \* trips whose code is in the store
    away,       \* trips begun
    paidOut,      \* paidOut[t]: times the tokens of t's code were handed out
    token,      \* the refresh token the connector holds: whose trip, its age, whether WorkOS takes it
    serves,     \* serves[r]: where request r is, and what it carries
    unused      \* time since the connector was last served

connectorVars == <<connectorScene, known, age, parked, coded, away, paidOut, token, serves, unused>>

-----------------------------------------------------------------------------
Resting == [pc |-> "rest", kind |-> "none", trip |-> "none", seen |-> 0, good |-> FALSE]
ServedAt(r, pc) == serves[r].pc = pc
StepTo(r, pc) == serves' = [serves EXCEPT ![r].pc = pc]
Over(r) == serves' = [serves EXCEPT ![r] = Resting]
Unreliable(fault) == fault \in connectorScene.faults
MayAsk(r) == ServedAt(r, "rest") /\ (connectorScene.turns => \A other \in Served : ServedAt(other, "rest"))
Expired(ttl, since) == \E limit \in ttl : since >= limit

\* register: the client lives for its TTL, from now.
Register(r) ==
    /\ MayAsk(r) /\ ~known /\ connectorScene.trips # {}
    /\ known' = TRUE /\ age' = {0}
    /\ UNCHANGED <<connectorScene, parked, coded, away, paidOut, token, serves, unused>>

\* authorize, and the refresh grant, whose token is verified first.
BeginAuthorize(r, t) ==
    /\ MayAsk(r) /\ known
    /\ t \in connectorScene.trips \ away
    /\ away' = away \cup {t}
    /\ serves' = [serves EXCEPT ![r] = [Resting EXCEPT !.pc = "get", !.kind = "authorize", !.trip = t]]
    /\ UNCHANGED <<connectorScene, known, age, parked, coded, paidOut, token, unused>>

BeginRefresh(r) ==
    /\ MayAsk(r) /\ connectorScene.signs
    /\ \E held \in token :
          IF held.age < connectorScene.refreshTtl
          THEN /\ serves' = [serves EXCEPT ![r] =
                               [Resting EXCEPT !.pc = "get", !.kind = "refresh", !.trip = held.trip, !.good = held.good]]
               /\ UNCHANGED token
          ELSE token' = {} /\ UNCHANGED serves
    /\ UNCHANGED <<connectorScene, known, age, parked, coded, away, paidOut, unused>>

\* A client nobody knows ends an authorize and not a refresh, and so does a store
\* that fails.
GetClient(r) ==
    /\ ServedAt(r, "get")
    /\ \/ \E since \in age :
             serves' = [serves EXCEPT ![r].pc = IF @ = "get" /\ serves[r].kind = "refresh" THEN "touch" ELSE "park",
                                      ![r].seen = since]
       \/ /\ age = {} \/ Unreliable("store")
          /\ IF serves[r].kind = "refresh" THEN StepTo(r, "rotate") ELSE Over(r)
    /\ UNCHANGED <<connectorScene, known, age, parked, coded, away, paidOut, token, unused>>

Park(r) ==
    /\ ServedAt(r, "park")
    /\ \/ parked' = parked \cup {serves[r].trip} /\ StepTo(r, "touch")
       \/ Unreliable("store") /\ Over(r) /\ UNCHANGED parked
    /\ UNCHANGED <<connectorScene, known, age, coded, away, paidOut, token, unused>>

\* (mutant of Due) as if the registration alone were what dates a client.
DueAtTheEnd(since) == \E ttl \in connectorScene.clientTtl : since + 1 >= ttl
Due(since) == \E ttl \in connectorScene.clientTtl : 2 * since >= ttl

\* touchClient: written at most once in half a TTL; a failure is logged.
Touch(r) ==
    /\ ServedAt(r, "touch")
    /\ \/ age' = (IF Due(serves[r].seen) THEN {0} ELSE age)
       \/ Unreliable("store") /\ UNCHANGED age
    /\ unused' = 0
    /\ IF serves[r].kind = "refresh" THEN StepTo(r, "rotate") ELSE Over(r)
    /\ UNCHANGED <<connectorScene, known, parked, coded, away, paidOut, token>>

\* callback: the session is taken, whatever comes of it.
TakeSession(r, t) ==
    /\ MayAsk(r) /\ t \in parked
    /\ parked' = parked \ {t}
    /\ serves' = [serves EXCEPT ![r] = [Resting EXCEPT !.pc = "exchange", !.kind = "callback", !.trip = t]]
    /\ UNCHANGED <<connectorScene, known, age, coded, away, paidOut, token, unused>>

ExchangeCode(r) ==
    /\ ServedAt(r, "exchange")
    /\ \/ coded' = coded \cup {serves[r].trip}
       \/ connectorScene.faults # {} /\ UNCHANGED coded
    /\ Over(r)
    /\ UNCHANGED <<connectorScene, known, age, parked, away, paidOut, token, unused>>

\* (mutant of TakeCode) read, and removed by nobody.
ReadCode(r, t, right) ==
    /\ MayAsk(r) /\ t \in coded
    /\ serves' = [serves EXCEPT ![r] =
                    IF right /\ connectorScene.signs
                    THEN [Resting EXCEPT !.pc = "answer", !.kind = "code", !.trip = t, !.good = TRUE] ELSE @]
    /\ UNCHANGED <<connectorScene, known, age, parked, coded, away, paidOut, token, unused>>

\* handleAuthorizationCode: taken before anything is checked, so a guess at the
\* verifier, or a secret that is not set, uses it up.
TakeCode(r, t, right) ==
    /\ MayAsk(r) /\ t \in coded
    /\ coded' = coded \ {t}
    /\ serves' = [serves EXCEPT ![r] =
                    IF right /\ connectorScene.signs
                    THEN [Resting EXCEPT !.pc = "answer", !.kind = "code", !.trip = t, !.good = TRUE] ELSE @]
    /\ UNCHANGED <<connectorScene, known, age, parked, away, paidOut, token, unused>>

\* WorkOS takes a refresh token once and answers with the next of the sign-in.
\* Whatever is thrown is told as a token that is no longer valid.
Rotate(r) ==
    /\ ServedAt(r, "rotate") /\ serves[r].good
    /\ serves' = [other \in Served |->
                    IF other = r THEN [serves[r] EXCEPT !.pc = "answer"]
                    ELSE IF serves[other].trip = serves[r].trip THEN [serves[other] EXCEPT !.good = FALSE]
                    ELSE serves[other]]
    /\ token' = {IF held.trip = serves[r].trip THEN [held EXCEPT !.good = FALSE] ELSE held : held \in token}
    /\ UNCHANGED <<connectorScene, known, age, parked, coded, away, paidOut, unused>>

Refused(r) ==
    /\ ServedAt(r, "rotate") /\ (~serves[r].good \/ Unreliable("workos"))
    /\ token' = {} /\ Over(r)
    /\ UNCHANGED <<connectorScene, known, age, parked, coded, away, paidOut, unused>>

Answer(r) ==
    /\ ServedAt(r, "answer")
    /\ token' = {[trip |-> serves[r].trip, age |-> 0, good |-> serves[r].good]}
    /\ paidOut' = [paidOut EXCEPT ![serves[r].trip] = IF serves[r].kind = "code" THEN @ + 1 ELSE @]
    /\ Over(r)
    /\ UNCHANGED <<connectorScene, known, age, parked, coded, away, unused>>

\* The process dies, or the answer is lost.
Lost(r) ==
    /\ ~connectorScene.turns /\ ~ServedAt(r, "rest")
    /\ paidOut' = [t \in Trips |-> IF ServedAt(r, "answer") /\ serves[r].kind = "code" /\ serves[r].trip = t
                                 THEN paidOut[t] + 1 ELSE paidOut[t]]
    /\ Over(r)
    /\ UNCHANGED <<connectorScene, known, age, parked, coded, away, token, unused>>

Restart ==
    /\ ~connectorScene.shared
    /\ serves' = [r \in Served |-> Resting]
    /\ age' = {} /\ parked' = {} /\ coded' = {}
    /\ UNCHANGED <<connectorScene, known, away, paidOut, token, unused>>

RunsOut(t) ==
    /\ t \in parked \cup coded
    /\ parked' = parked \ {t} /\ coded' = coded \ {t}
    /\ UNCHANGED <<connectorScene, known, age, away, paidOut, token, serves, unused>>

TimePasses ==
    /\ known /\ \A r \in Served : ServedAt(r, "rest")
    /\ unused < connectorScene.refreshTtl
    /\ connectorScene.diligent =>
          unused + 1 < connectorScene.refreshTtl /\ \A held \in token : held.age + 1 < connectorScene.refreshTtl
    /\ unused' = unused + 1
    /\ age' = {since + 1 : since \in {a \in age : connectorScene.clientTtl # {} /\ ~Expired(connectorScene.clientTtl, a + 1)}}
                 \cup {since \in age : connectorScene.clientTtl = {}}
    /\ token' = {[held EXCEPT !.age = IF @ < connectorScene.refreshTtl THEN @ + 1 ELSE @] : held \in token}
    /\ UNCHANGED <<connectorScene, known, parked, coded, away, paidOut, serves>>

ConnectorInit ==
    /\ connectorScene \in ConnectorScenes
    /\ known = FALSE /\ age = {} /\ unused = 0
    /\ parked = {} /\ coded = {} /\ away = {} /\ token = {}
    /\ paidOut = [t \in Trips |-> 0]
    /\ serves = [r \in Served |-> Resting]

ConnectorNext ==
    \/ \E r \in Served :
          \/ Register(r)
          \/ \E t \in Trips :
                \/ BeginAuthorize(r, t) \/ TakeSession(r, t)
                \/ \E right \in BOOLEAN : TakeCode(r, t, right)
          \/ BeginRefresh(r)
          \/ GetClient(r) \/ Park(r) \/ Touch(r)
          \/ ExchangeCode(r)
          \/ Rotate(r) \/ Refused(r) \/ Answer(r) \/ Lost(r)
    \/ \E t \in Trips : RunsOut(t)
    \/ Restart
    \/ TimePasses

-----------------------------------------------------------------------------
\* "a connector used at least once per refresh-token lifetime never loses its
\* client_id" (oauth-proxy/index.ts:74-79), where the store survives and answers and
\* two lifetimes of a refresh token fit in the client's; it is not signed out
\* either, if each answer reaches it before it asks again; and the tokens of a code
\* go out once, however many replicas it is presented to.
Reliable == connectorScene.shared /\ connectorScene.diligent /\ connectorScene.faults = {}
ConnectorStays ==
    /\ Reliable /\ known /\ (\A ttl \in connectorScene.clientTtl : 2 * connectorScene.refreshTtl <= ttl) => age # {}
    /\ Reliable /\ connectorScene.turns /\ (\A r \in Served : ServedAt(r, "rest")) =>
          /\ \A held \in token : held.good /\ held.age < connectorScene.refreshTtl
          /\ (\E t \in Trips : paidOut[t] > 0) => token # {}
    /\ \A t \in Trips : paidOut[t] <= 1
=============================================================================
