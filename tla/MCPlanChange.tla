---------------------------- MODULE MCPlanChange ----------------------------
(* Small instances of PlanChange: a ladder of three plans, one or two seats. *)
EXTENDS PlanChange

Ladder == [p \in Plans |-> CASE p = "free" -> 0 [] p = "basic" -> 1 [] p = "pro" -> 2 [] OTHER -> 3]

B(plan, seats) == [plan |-> plan, seats |-> seats]
OnPro == B("pro", 1)

Wanted == [c \in Calls |->
    CASE c = "cancel" -> B("free", 0)
      [] c = "stay"   -> B("pro", 1)
      [] c = "seat"   -> B("pro", 2)
      [] c = "down"   -> B("basic", 1)
      [] OTHER        -> B("max", 1)]      \* up, click1, click2

Moves(calls, faults) == [calls |-> calls, serial |-> TRUE, faults |-> faults]
Races(calls, faults) == [calls |-> calls, serial |-> FALSE, faults |-> faults]

Situations == {
    Moves({"down", "up", "stay"}, {"redeliver"}),
    Moves({"down", "up", "seat"}, {}),
    Moves({"cancel", "stay"}, {"redeliver"}),
    Moves({"up", "seat", "cancel"}, {"abandon"}),
    Races({"click1", "click2"}, {"abandon", "decline", "meta_early"}),
    Races({"click1", "down"}, {"boundary", "decline", "price"}),
    Races({"cancel", "seat", "click1"}, {"boundary", "decline"})}

\* A cancellation and then an upgrade, nothing failing.
ChangedMind == {Moves({"cancel", "up"}, {})}
=============================================================================
