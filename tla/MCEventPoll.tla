---------------------------- MODULE MCEventPoll -----------------------------
(* Small instances of EventPoll: short logs and small pages. *)
EXTENDS EventPoll

Both(n, m) == [l \in Legs |-> IF l = "stripe" THEN n ELSE m]

\* Two overlapping sweepers from stored cursors; an event no handler can take,
\* and handlers, listings and stores that fail.
Overlapping ==
    [sweepers |-> {"cron", "replica"}, length |-> Both(4, 1), opening |-> Both(1, 1),
     poison |-> Both({3}, {}), faults |-> {"list", "store", "handler"}]

\* A backlog longer than a sweep, and a process that may die anywhere.
Restarted ==
    [sweepers |-> {"cron"}, length |-> Both(4, 4), opening |-> Both(0, 0),
     poison |-> Both({}, {}), faults |-> {"list", "events", "store", "crash"}]

\* Events that age out, a log that may be empty, and handlers that fail.
Ageing ==
    [sweepers |-> {"cron"}, length |-> Both(4, 2), opening |-> Both(0, 1),
     poison |-> Both({3}, {}), faults |-> {"expire", "quiet", "handler"}]

\* Stripe may refuse to be listed, for ever.
Outage ==
    [sweepers |-> {"cron"}, length |-> Both(2, 4), opening |-> Both(1, 0),
     poison |-> Both({}, {3}), faults |-> {"list", "quiet"}]

Situations == {Overlapping, Restarted, Ageing, Outage}

\* A first sweep of an account that has no event yet, nothing failing.
NewAccount == {[Ageing EXCEPT !.opening = Both(0, 0), !.faults = {"quiet"}]}
=============================================================================
