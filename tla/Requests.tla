------------------------------ MODULE Requests ------------------------------
(***************************************************************************)
(* The two queues of an organization, top-ups and plan asks, in the one    *)
(* object of metadata they share: every write of the object first moves    *)
(* the grants of an earlier version to the members they belong to, and so  *)
(* a plan ask being written meets a grant being made.                      *)
(***************************************************************************)
EXTENDS TopUps, PlanAsks

queueVars == <<topUpVars, askVars>>

\* setOrgMetadata, from the plan asks: what the organization holds is copied to
\* the members that lack it, and dropped. Here the copies, one write each, are one
\* step; TopUps takes the same copies one by one. Where the top-ups run one
\* operation at a time, this is another.
MigrateLegacyKeys ==
    /\ grants' = [m \in Members |-> Migrated(grants[m], legacy[m])]
    /\ legacy' = NoLegacy
    /\ UNCHANGED <<topUpScene, topUps, turn, topUpOp, begun, promised, given>>

WriteAsks(p) ==
    /\ Write(p)
    /\ asks' # asks /\ HasLegacy
    /\ topUpScene.serial => \A q \in Callers : AtStep(q, "idle")
    /\ MigrateLegacyKeys
    /\ UNCHANGED askScene

AskStep ==
    /\ AskNext
    /\ asks' # asks => ~HasLegacy
    /\ UNCHANGED topUpVars

QueuesInit == TopUpInit /\ AskInit

QueuesNext ==
    \/ TopUpNext /\ UNCHANGED askVars
    \/ AskStep
    \/ \E p \in AskActors : WriteAsks(p)

\* What is answered is answered once, in either queue: granted, or invoiced.
SettledOnce == AnsweredOnce /\ QuoteIsInvoicedOnce

\* Nothing that waits for an answer leaves either queue for want of room while a
\* settled record could go instead (pack and trimRequestsToBudget).
AsksAreKept == OpenAsksAreKept /\ WaitingAsksAreKept
=============================================================================
