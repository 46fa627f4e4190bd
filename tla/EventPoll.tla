----------------------------- MODULE EventPoll ------------------------------
(***************************************************************************)
(* The poller: pollStripeEvents and pollWorkOSEvents inside createBilling- *)
(* Sync's runOnce.  Each provider keeps a log of events; a sweep walks it  *)
(* forward from a stored cursor, hands every event to a handler that is    *)
(* tried three times and then given up on, stores the cursor and reports   *)
(* what it gave up.  Sweepers are the processes that may run runOnce.      *)
(*                                                                         *)
(* An event is its position in its provider's log; cursor 0 is no cursor.  *)
(***************************************************************************)
EXTENDS Integers

CONSTANTS
    Sweepers,     \* processes that may run runOnce; start() never overlaps its own
    Page,         \* events per page (PAGE, or limit 100)
    MaxPerPoll,   \* events per sweep (maxPerPoll, 500)
    MaxEvents,    \* bound: events of one provider
    Scenes        \* the situations considered, see SceneType

Legs == {"stripe", "workos"}
FaultKinds == {"list", "events", "store", "handler", "crash", "expire", "quiet"}

\* Who sweeps, how many events occur, which cursors are stored at the start (0
\* for none), which events no handler can take, what the environment may do.
SceneType ==
    [sweepers : SUBSET Sweepers,
     length   : [Legs -> 0..MaxEvents],
     opening  : [Legs -> Nat],
     poison   : [Legs -> SUBSET Nat],
     faults   : SUBSET FaultKinds]

ASSUME EventPollAssumption ==
    /\ Page \in Nat \ {0}
    /\ MaxPerPoll \in Nat \ {0}
    /\ MaxEvents \in Nat
    /\ Scenes \subseteq SceneType

\* EVENT_ATTEMPTS
Attempts == 3

VARIABLES
    scene,        \* the situation, chosen once
    newest,       \* [Legs -> Nat] events that have occurred
    expired,      \* [Legs -> Nat] the oldest ones, no longer kept (30 days)
    stored,       \* [Legs -> Nat] the cursor store
    base,         \* [Legs -> Int] events before the first sweep, -1 until then
    handled,      \* [Legs -> SUBSET Nat] events a handler has finished
    reported,     \* [Legs -> SUBSET Nat] events reported as skipped
    pc,           \* [Sweepers -> Steps]
    leg,          \* [Sweepers -> Legs] the leg of runOnce being swept
    cursor,       \* [Sweepers -> Nat] the sweep's own cursor
    page,         \* [Sweepers -> [end : Nat, full : BOOLEAN]]
    count,        \* [Sweepers -> Nat] events passed in this sweep
    tries,        \* [Sweepers -> 0..2] failed attempts at the next event
    skipped       \* [Sweepers -> SUBSET Nat] events given up on in this sweep

logVars   == <<newest, expired>>
storeVars == <<stored, base>>
outVars   == <<handled, reported>>
sweepVars == <<leg, cursor, page, count, tries, skipped>>
vars      == <<scene, logVars, storeVars, outVars, pc, sweepVars>>

Faults  == scene.faults
Opening == scene.opening
Poison  == scene.poison

Steps == {"idle", "list", "handle", "store", "report"}

TypeOK ==
    /\ scene \in Scenes
    /\ newest \in [Legs -> Nat]
    /\ expired \in [Legs -> Nat]
    /\ stored \in [Legs -> Nat]
    /\ base \in [Legs -> Nat \cup {-1}]
    /\ handled \in [Legs -> SUBSET Nat]
    /\ reported \in [Legs -> SUBSET Nat]
    /\ pc \in [Sweepers -> Steps]
    /\ leg \in [Sweepers -> Legs]
    /\ cursor \in [Sweepers -> Nat]
    /\ page \in [Sweepers -> [end : Nat, full : BOOLEAN]]
    /\ count \in [Sweepers -> Nat]
    /\ tries \in [Sweepers -> 0..(Attempts - 1)]
    /\ skipped \in [Sweepers -> SUBSET Nat]

\* Without "quiet" a provider always keeps at least one event.
Kept == IF "quiet" \in Faults THEN 0 ELSE 1

Init ==
    /\ scene \in Scenes
    /\ newest = [l \in Legs |-> IF Opening[l] = 0 THEN Kept ELSE Opening[l]]
    /\ expired = [l \in Legs |-> 0]
    /\ stored = Opening
    /\ base = [l \in Legs |-> IF Opening[l] = 0 THEN -1 ELSE Opening[l]]
    /\ handled = [l \in Legs |-> {}]
    /\ reported = [l \in Legs |-> {}]
    /\ pc = [s \in Sweepers |-> "idle"]
    /\ leg = [s \in Sweepers |-> "stripe"]
    /\ cursor = [s \in Sweepers |-> 0]
    /\ page = [s \in Sweepers |-> [end |-> 0, full |-> FALSE]]
    /\ count = [s \in Sweepers |-> 0]
    /\ tries = [s \in Sweepers |-> 0]
    /\ skipped = [s \in Sweepers |-> {}]

Lesser(a, b) == IF a < b THEN a ELSE b

\* "latest.data[0]?.id ?? null": when nothing is kept there is no cursor.
Latest(l) == IF newest[l] > expired[l] THEN newest[l] ELSE 0

-----------------------------------------------------------------------------
(* The providers. *)

EventOccurs(l) ==
    /\ newest[l] < scene.length[l]
    /\ newest' = [newest EXCEPT ![l] = @ + 1]
    /\ UNCHANGED <<expired, storeVars, outVars, pc, sweepVars>>

\* Stripe forgets its oldest event.
EventExpires ==
    /\ "expire" \in Faults
    /\ newest["stripe"] - expired["stripe"] > Kept
    /\ expired' = [expired EXCEPT !["stripe"] = @ + 1]
    /\ UNCHANGED <<newest, storeVars, outVars, pc, sweepVars>>

-----------------------------------------------------------------------------
(* One sweep: runOnce, first the Stripe leg and then the WorkOS leg. *)

\* A leg begins from what the store holds.
BeginLeg(s, l) ==
    /\ pc' = [pc EXCEPT ![s] = "list"]
    /\ leg' = [leg EXCEPT ![s] = l]
    /\ cursor' = [cursor EXCEPT ![s] = stored[l]]
    /\ count' = [count EXCEPT ![s] = 0]
    /\ tries' = [tries EXCEPT ![s] = 0]
    /\ skipped' = [skipped EXCEPT ![s] = {}]
    /\ UNCHANGED page

GoIdle(s) ==
    /\ pc' = [pc EXCEPT ![s] = "idle"]
    /\ UNCHANGED sweepVars

RunOnce(s) ==
    /\ s \in scene.sweepers
    /\ pc[s] = "idle"
    /\ BeginLeg(s, "stripe")
    /\ UNCHANGED <<logVars, storeVars, outVars>>

LegEnds(s) == IF leg[s] = "stripe" THEN BeginLeg(s, "workos") ELSE GoIdle(s)

\* The legs are independent: a failure of the first does not skip the second.
LegFails(s) == LegEnds(s)

\* "if (!opts.after)", and "resource_missing" for a cursor Stripe no longer
\* keeps: go to the newest event and process nothing.
Rebaseline(s) ==
    /\ pc[s] = "list"
    /\ \/ cursor[s] = 0
       \/ cursor[s] <= expired[leg[s]]
    /\ cursor' = [cursor EXCEPT ![s] = Latest(leg[s])]
    /\ pc' = [pc EXCEPT ![s] = "store"]
    /\ UNCHANGED <<logVars, storeVars, outVars, leg, page, count, tries, skipped>>

\* (mutant of ListPage: newest first, and the cursor moved up to that page)
ListNewest(s) ==
    LET l == leg[s] IN
    /\ pc[s] = "list"
    /\ cursor[s] # 0
    /\ cursor[s] > expired[l]
    /\ page' = [page EXCEPT ![s] = [end |-> newest[l], full |-> FALSE]]
    /\ cursor' = [cursor EXCEPT ![s] = IF newest[l] > @ + Page THEN newest[l] - Page ELSE @]
    /\ pc' = [pc EXCEPT ![s] = IF newest[l] = cursor[s] THEN "store" ELSE "handle"]
    /\ UNCHANGED <<logVars, storeVars, outVars, leg, count, tries, skipped>>

\* The page immediately newer than the cursor, oldest first.
ListPage(s) ==
    LET end == Lesser(cursor[s] + Page, newest[leg[s]]) IN
    /\ pc[s] = "list"
    /\ cursor[s] # 0
    /\ cursor[s] > expired[leg[s]]
    /\ page' = [page EXCEPT ![s] = [end |-> end, full |-> end = cursor[s] + Page]]
    /\ pc' = [pc EXCEPT ![s] = IF end = cursor[s] THEN "store" ELSE "handle"]
    /\ UNCHANGED <<logVars, storeVars, outVars, leg, cursor, count, tries, skipped>>

\* A provider cannot be listed, or the store not read before the first page: the
\* leg fails and its cursor is not stored.
ListThrows(s) ==
    /\ pc[s] = "list"
    /\ \/ "list" \in Faults /\ leg[s] = "stripe"
       \/ "events" \in Faults /\ leg[s] = "workos"
       \/ "store" \in Faults /\ count[s] = 0
    /\ LegFails(s)
    /\ UNCHANGED <<logVars, storeVars, outVars>>

\* Past the n-th event of a sweep.  The WorkOS loop looks at the cap after every
\* event, the Stripe loop at the end of a page; a short page is the last.
Onward(s, n) ==
    LET capped == n >= MaxPerPoll
        atEnd  == cursor[s] + 1 = page[s].end IN
    IF ~atEnd /\ ~(capped /\ leg[s] = "workos") THEN "handle"
    ELSE IF capped \/ ~page[s].full THEN "store" ELSE "list"

\* "Advance whether it succeeded or was given up on."
Advance(s) ==
    /\ cursor' = [cursor EXCEPT ![s] = @ + 1]
    /\ count' = [count EXCEPT ![s] = @ + 1]
    /\ tries' = [tries EXCEPT ![s] = 0]
    /\ pc' = [pc EXCEPT ![s] = Onward(s, count[s] + 1)]

HandleEvent(s) ==
    /\ pc[s] = "handle"
    /\ cursor[s] + 1 \notin Poison[leg[s]]
    /\ handled' = [handled EXCEPT ![leg[s]] = @ \cup {cursor[s] + 1}]
    /\ Advance(s)
    /\ UNCHANGED <<logVars, storeVars, reported, leg, page, skipped>>

\* (mutant of GiveUp: the last attempt throws out of the sweep)
Wedge(s) == LegEnds(s)

GiveUp(s) ==
    /\ skipped' = [skipped EXCEPT ![s] = @ \cup {cursor[s] + 1}]
    /\ Advance(s)
    /\ UNCHANGED <<leg, page>>

MoreTries(failures) == failures < Attempts

TryAgain(s) ==
    /\ tries' = [tries EXCEPT ![s] = @ + 1]
    /\ UNCHANGED <<pc, leg, cursor, page, count, skipped>>

HandlerThrows(s) ==
    /\ pc[s] = "handle"
    /\ "handler" \in Faults \/ cursor[s] + 1 \in Poison[leg[s]]
    /\ IF MoreTries(tries[s] + 1) THEN TryAgain(s) ELSE GiveUp(s)
    /\ UNCHANGED <<logVars, storeVars, outVars>>

\* queryCursorStore ignores a cursor that is none.
StoreCursor(s) ==
    /\ pc[s] = "store"
    /\ stored' = [stored EXCEPT ![leg[s]] = IF cursor[s] = 0 THEN @ ELSE cursor[s]]
    /\ base' = [base EXCEPT ![leg[s]] = IF @ = -1 THEN cursor[s] ELSE @]
    /\ pc' = [pc EXCEPT ![s] = "report"]
    /\ UNCHANGED <<logVars, outVars, sweepVars>>

StoreThrows(s) ==
    /\ "store" \in Faults
    /\ pc[s] = "store"
    /\ LegFails(s)
    /\ UNCHANGED <<logVars, storeVars, outVars>>

\* reportFaults, after the cursor is stored; it never throws.
ReportFaults(s) ==
    /\ pc[s] = "report"
    /\ reported' = [reported EXCEPT ![leg[s]] = @ \cup skipped[s]]
    /\ LegEnds(s)
    /\ UNCHANGED <<logVars, storeVars, handled>>

Crash(s) ==
    /\ "crash" \in Faults
    /\ pc[s] # "idle"
    /\ GoIdle(s)
    /\ UNCHANGED <<logVars, storeVars, outVars>>

Sweep(s) ==
    \/ RunOnce(s)
    \/ Rebaseline(s)
    \/ ListPage(s)
    \/ HandleEvent(s)
    \/ HandlerThrows(s)
    \/ StoreCursor(s)
    \/ ReportFaults(s)

Next ==
    /\ \/ \E l \in Legs : EventOccurs(l)
       \/ EventExpires
       \/ \E s \in Sweepers : Sweep(s) \/ ListThrows(s) \/ StoreThrows(s) \/ Crash(s)
    /\ UNCHANGED scene

Spec == Init /\ [][Next]_vars

\* start()'s interval keeps sweeping.  Nothing is assumed of a provider: a leg
\* that cannot list its events may go on failing for ever.
FairSpec == Spec /\ \A s \in Sweepers : WF_vars(Sweep(s) /\ UNCHANGED scene)

-----------------------------------------------------------------------------
(* Properties. *)

Reporting(l, e) == \E s \in Sweepers : pc[s] = "report" /\ leg[s] = l /\ e \in skipped[s]

Accounted(l, e) ==
    \/ e \in handled[l] \cup reported[l]
    \/ Reporting(l, e)

\* What accounting for every event takes.  A cursor that ages out, or a first
\* sweep that finds nothing, makes a later sweep jump to the newest event; two
\* first sweeps that overlap jump over what comes between them; a sweep that
\* dies between storing its cursor and reporting forgets what it skipped.
Undisturbed ==
    /\ Faults \cap {"expire", "quiet"} = {}
    /\ (\A l \in Legs : Opening[l] # 0) \/ (\A s, t \in scene.sweepers : s = t)
    /\ "crash" \in Faults => "handler" \notin Faults /\ \A l \in Legs : Poison[l] = {}

\* "skipped ... Reported, never silent" (events.ts:20): an event that occurred
\* after the first sweep and that the stored cursor has passed was handled, or
\* is reported as skipped.
PassedIsAccounted ==
    Undisturbed =>
        \A l \in Legs : \A e \in 1..stored[l] :
            base[l] # -1 /\ e > base[l] => Accounted(l, e)

\* "First run (no cursor) BASELINES to the newest event WITHOUT processing
\* history" (events.ts:10-12): events after the first run are not history.
FirstRunIsBaseline ==
    \A l \in Legs : \A e \in 1..stored[l] :
        base[l] # -1 /\ e > base[l] => Accounted(l, e)

\* One event does not wedge the sweep: the stored cursor passes every event of
\* the leg, whatever its handler does, or the event ages out first.
KeepsUp(l) ==
    \A e \in 1..MaxEvents : newest[l] >= e ~> (stored[l] >= e \/ expired[l] >= e)

\* ... on Stripe's leg while Stripe can be listed,
StripeKeepsUp == Faults \cap {"list", "store", "crash"} = {} => KeepsUp("stripe")

\* ... and on the WorkOS leg while WorkOS can, even if Stripe never answers: "one provider being
\* down is not a reason to stop syncing the other" (sync.ts:480).
WorkOSKeepsUp == Faults \cap {"events", "store", "crash"} = {} => KeepsUp("workos")

\* Both legs of the sweep get through their events.
SweepKeepsUp == StripeKeepsUp /\ WorkOSKeepsUp
=============================================================================
