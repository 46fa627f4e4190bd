--------------------------- MODULE EventPollProofs ---------------------------
(***************************************************************************)
(* While nothing ages out the poller loses no event, for any number of     *)
(* overlapping sweepers, any page size and cap, any poisoned events and    *)
(* any failing request.  The invariant follows each sweep: everything up   *)
(* to its own cursor is accounted for, or given up on in that sweep.       *)
(***************************************************************************)
EXTENDS EventPoll, TLAPS

\* Type correctness of EventPoll: every variable keeps its type.
THEOREM TypeCorrect == Spec => []TypeOK
<1> USE EventPollAssumption DEF Legs, Attempts
<1>1. Init => TypeOK
  BY DEF Init, TypeOK, Kept, Steps, SceneType, Opening
<1>2. TypeOK /\ [Next]_vars => TypeOK'
  <2> SUFFICES ASSUME TypeOK, [Next]_vars PROVE TypeOK'
    OBVIOUS
  <2>0. UNCHANGED scene
    BY DEF Next, vars
  <2> USE <2>0 DEF TypeOK, Steps
  <2>1. ASSUME NEW l \in Legs, EventOccurs(l) PROVE TypeOK'
    BY <2>1 DEF EventOccurs, storeVars, outVars, sweepVars
  <2>2. CASE EventExpires
    BY <2>2 DEF EventExpires, storeVars, outVars, sweepVars
  <2>3. ASSUME NEW s \in Sweepers, NEW l \in Legs, BeginLeg(s, l),
               UNCHANGED <<logVars, storeVars, handled>>,
               reported' \in [Legs -> SUBSET Nat]
        PROVE TypeOK'
    BY <2>3 DEF BeginLeg, logVars, storeVars
  <2>4. ASSUME NEW s \in Sweepers, GoIdle(s),
               UNCHANGED <<logVars, storeVars, handled>>,
               reported' \in [Legs -> SUBSET Nat]
        PROVE TypeOK'
    BY <2>4 DEF GoIdle, logVars, storeVars, sweepVars
  <2>5. ASSUME NEW s \in Sweepers, LegEnds(s),
               UNCHANGED <<logVars, storeVars, handled>>,
               reported' \in [Legs -> SUBSET Nat]
        PROVE TypeOK'
    BY <2>3, <2>4, <2>5 DEF LegEnds
  <2>6. ASSUME NEW s \in Sweepers, RunOnce(s) PROVE TypeOK'
    BY <2>3, <2>6 DEF RunOnce, outVars
  <2>7. ASSUME NEW s \in Sweepers, Rebaseline(s) PROVE TypeOK'
    BY <2>7 DEF Rebaseline, Latest, logVars, storeVars, outVars
  <2>8. ASSUME NEW s \in Sweepers, ListPage(s) PROVE TypeOK'
    BY <2>8 DEF ListPage, Lesser, logVars, storeVars, outVars
  <2>9. ASSUME NEW s \in Sweepers, Advance(s) 
        PROVE /\ cursor' \in [Sweepers -> Nat]
              /\ count' \in [Sweepers -> Nat]
              /\ tries' \in [Sweepers -> 0..(Attempts - 1)]
              /\ pc' \in [Sweepers -> Steps]
    BY <2>9 DEF Advance, Onward
  <2>10. ASSUME NEW s \in Sweepers, HandleEvent(s) PROVE TypeOK'
    <3>1. Advance(s) /\ handled' \in [Legs -> SUBSET Nat]
      BY <2>10 DEF HandleEvent
    <3> QED
      BY <2>9, <2>10, <3>1 DEF HandleEvent, logVars, storeVars
  <2>11. ASSUME NEW s \in Sweepers, HandlerThrows(s) PROVE TypeOK'
    <3>1. CASE MoreTries(tries[s] + 1)
      <4>1. TryAgain(s) /\ UNCHANGED <<logVars, storeVars, outVars>>
        BY <2>11, <3>1 DEF HandlerThrows
      <4>2. tries[s] + 1 \in 0..(Attempts - 1)
        BY <3>1 DEF MoreTries
      <4>3. tries' \in [Sweepers -> 0..(Attempts - 1)]
        BY <4>1, <4>2 DEF TryAgain
      <4> QED
        BY <4>1, <4>3 DEF TryAgain, logVars, storeVars, outVars
    <3>2. CASE ~MoreTries(tries[s] + 1)
      <4>1. Advance(s) /\ skipped' \in [Sweepers -> SUBSET Nat]
        BY <2>11, <3>2 DEF HandlerThrows, GiveUp
      <4>2. UNCHANGED <<logVars, storeVars, outVars, leg, page>>
        BY <2>11, <3>2 DEF HandlerThrows, GiveUp
      <4> QED
        BY <2>9, <4>1, <4>2 DEF logVars, storeVars, outVars
    <3> QED
      BY <3>1, <3>2
  <2>12. ASSUME NEW s \in Sweepers, StoreCursor(s) PROVE TypeOK'
    BY <2>12 DEF StoreCursor, logVars, outVars, sweepVars
  <2>13. ASSUME NEW s \in Sweepers, ReportFaults(s) PROVE TypeOK'
    BY <2>5, <2>13 DEF ReportFaults
  <2>14. ASSUME NEW s \in Sweepers, ListThrows(s) \/ StoreThrows(s) PROVE TypeOK'
    BY <2>5, <2>14 DEF ListThrows, StoreThrows, LegFails, outVars
  <2>15. ASSUME NEW s \in Sweepers, Crash(s) PROVE TypeOK'
    BY <2>4, <2>15 DEF Crash, outVars
  <2>16. CASE UNCHANGED vars
    BY <2>16 DEF vars, logVars, storeVars, outVars, sweepVars
  <2> QED
    BY <2>1, <2>2, <2>6, <2>7, <2>8, <2>10, <2>11, <2>12, <2>13, <2>14, <2>15, <2>16
       DEF Next, Sweep
<1> QED
  BY <1>1, <1>2, PTL DEF Spec

-----------------------------------------------------------------------------
(* The safety argument. *)

\* An event that is not the poller's to handle, or that is accounted for.
Known(l, e) == (base[l] # -1 /\ e <= base[l]) \/ Accounted(l, e)

\* A leg has a stored cursor once it has a base, and what it has passed is known.
StoreKnown(l) ==
    /\ stored[l] >= 1 <=> base[l] # -1
    /\ \A e \in 1..stored[l] : Known(l, e)

\* What a sweep has passed is known, or it will report it.  While the leg has no
\* base the sweep is about to make one.
SweepKnown(s) ==
    pc[s] # "idle" =>
       /\ s \in scene.sweepers
       /\ IF base[leg[s]] = -1
          THEN \/ pc[s] = "list" /\ cursor[s] = 0
               \/ pc[s] = "store" /\ cursor[s] >= 1
          ELSE /\ cursor[s] >= 1
               /\ \A e \in 1..cursor[s] : Known(leg[s], e) \/ e \in skipped[s]

\* Two sweepers only where every leg starts with a cursor, and no sweep dies
\* remembering an event.
SceneKept ==
    /\ (\A l \in Legs : base[l] # -1) \/ (\A s, t \in scene.sweepers : s = t)
    /\ "crash" \in Faults => \A s \in Sweepers : skipped[s] = {}

SweepInv ==
    /\ TypeOK
    /\ \A l \in Legs : expired[l] = 0 /\ newest[l] >= 1
    /\ \A l \in Legs : StoreKnown(l)
    /\ \A s \in Sweepers : SweepKnown(s)
    /\ SceneKept

\* What a step of one sweep may change: its own state, the store and what is
\* known, which only grows.
SweepStep(s) ==
    /\ UNCHANGED <<scene, newest, expired>>
    /\ \A l \in Legs :
          /\ base'[l] = base[l] \/ (base[l] = -1 /\ pc[s] # "idle")
          /\ handled[l] \subseteq handled'[l]
          /\ reported[l] \subseteq reported'[l]
    /\ \A t \in Sweepers \ {s} :
          /\ pc'[t] = pc[t]
          /\ leg'[t] = leg[t]
          /\ cursor'[t] = cursor[t]
          /\ skipped'[t] = skipped[t]
    /\ pc[s] = "report" => skipped[s] \subseteq reported'[leg[s]]
    /\ "crash" \in Faults => skipped'[s] \subseteq skipped[s]

\* What is known stays known, whichever sweep steps.
LEMMA KnownStays ==
    ASSUME TypeOK, NEW s \in Sweepers, SweepStep(s), NEW l \in Legs, NEW e, Known(l, e)
    PROVE  Known(l, e)'
<1>1. CASE base[l] # -1 /\ e <= base[l]
  BY <1>1 DEF Known, SweepStep
<1>2. CASE e \in handled[l] \cup reported[l]
  BY <1>2 DEF Known, Accounted, SweepStep
<1>3. CASE Reporting(l, e)
  <2>1. PICK t \in Sweepers : pc[t] = "report" /\ leg[t] = l /\ e \in skipped[t]
    BY <1>3 DEF Reporting
  <2>2. CASE t = s
    BY <2>1, <2>2 DEF SweepStep, Known, Accounted
  <2>3. CASE t # s
    <3>1. pc'[t] = "report" /\ leg'[t] = l /\ e \in skipped'[t]
      BY <2>1, <2>3 DEF SweepStep
    <3> QED
      BY <3>1 DEF Known, Accounted, Reporting
  <2> QED
    BY <2>2, <2>3
<1> QED
  BY <1>1, <1>2, <1>3 DEF Known, Accounted

\* A step of sweep s keeps the invariant when what it leaves in its own cursor,
\* and in the store, is known or among its skipped events.
LEMMA StepKeeps ==
    ASSUME SweepInv, TypeOK', NEW s \in Sweepers, SweepStep(s),
           \A l \in Legs : StoreKnown(l)',
           SweepKnown(s)'
    PROVE  SweepInv'
<1>1. \A l \in Legs : expired'[l] = 0 /\ newest'[l] >= 1
  BY DEF SweepInv, SweepStep
<1>2. ASSUME NEW t \in Sweepers, t # s
      PROVE  SweepKnown(t)'
  <2> SUFFICES ASSUME pc'[t] # "idle" PROVE SweepKnown(t)'
    BY DEF SweepKnown
  <2>1. /\ pc[t] # "idle" /\ pc'[t] = pc[t] /\ UNCHANGED scene
        /\ leg'[t] = leg[t] /\ cursor'[t] = cursor[t] /\ skipped'[t] = skipped[t]
    BY <1>2 DEF SweepStep
  <2>2. TypeOK /\ SweepKnown(t) /\ t \in scene.sweepers /\ leg[t] \in Legs
    BY <2>1 DEF SweepInv, SweepKnown, TypeOK
  <2>3. base'[leg[t]] = base[leg[t]]
    <3>1. CASE base[leg[t]] = -1 /\ pc[s] # "idle"
      <4>1. s \in scene.sweepers
        BY <3>1 DEF SweepInv, SweepKnown
      <4> QED
        BY <1>2, <2>2, <3>1, <4>1 DEF SweepInv, SceneKept
    <3> QED
      BY <2>2, <3>1 DEF SweepStep
  <2>4. CASE base[leg[t]] = -1
    BY <2>1, <2>2, <2>3, <2>4 DEF SweepKnown
  <2>5. CASE base[leg[t]] # -1
    <3>1. ASSUME NEW e \in 1..cursor[t], NEW l \in Legs, leg[t] = l
          PROVE  Known(leg[t], e)' \/ e \in skipped[t]
      <4>1. Known(l, e) \/ e \in skipped[t]
        BY <2>1, <2>2, <2>5, <3>1 DEF SweepKnown
      <4>2. Known(l, e)' \/ e \in skipped[t]
        BY <2>2, <4>1, KnownStays
      <4> QED
        BY <2>1, <3>1, <4>2 DEF Known, Accounted, Reporting
    <3> QED
      BY <2>1, <2>2, <2>3, <2>5, <3>1 DEF SweepKnown
  <2> QED
    BY <2>4, <2>5
<1>3. SceneKept'
  <2>1. (\A l \in Legs : base'[l] # -1) \/ (\A t, u \in scene'.sweepers : t = u)
    BY DEF SweepInv, SceneKept, SweepStep
  <2>2. ASSUME "crash" \in Faults', NEW t \in Sweepers PROVE skipped'[t] = {}
    <3>1. "crash" \in Faults /\ skipped[t] = {} /\ skipped[s] = {}
      BY <2>2 DEF SweepInv, SceneKept, SweepStep, Faults
    <3> QED
      BY <3>1 DEF SweepStep
  <2> QED
    BY <2>1, <2>2 DEF SceneKept
<1> QED
  BY <1>1, <1>2, <1>3 DEF SweepInv

\* What the store has passed stays known while the store is left alone.
LEMMA StoreStays ==
    ASSUME SweepInv, NEW s \in Sweepers, SweepStep(s), UNCHANGED storeVars
    PROVE  \A l \in Legs : StoreKnown(l)'
<1> SUFFICES ASSUME NEW l \in Legs PROVE StoreKnown(l)'
  OBVIOUS
<1>1. TypeOK /\ StoreKnown(l) /\ UNCHANGED <<stored, base>>
  BY DEF SweepInv, storeVars
<1>2. \A e \in 1..stored[l] : Known(l, e)'
  BY <1>1, KnownStays DEF StoreKnown
<1> QED
  BY <1>1, <1>2 DEF StoreKnown

\* A leg that begins, begins from what the store has passed.
LEMMA BeginLegKeeps ==
    ASSUME SweepInv, TypeOK', NEW s \in Sweepers, SweepStep(s), UNCHANGED storeVars,
           s \in scene.sweepers, NEW l \in Legs, BeginLeg(s, l)
    PROVE  SweepInv'
<1>1. \A k \in Legs : StoreKnown(k)'
  BY StoreStays
<1>2. /\ cursor'[s] = stored'[l] /\ leg'[s] = l /\ pc'[s] = "list"
      /\ s \in scene'.sweepers /\ stored'[l] \in Nat
  BY DEF BeginLeg, SweepInv, TypeOK, SweepStep, storeVars
<1>3. \A e \in 1..cursor'[s] : Known(leg[s], e)'
  BY <1>1, <1>2 DEF StoreKnown, Known, Accounted, Reporting
<1>4. SweepKnown(s)'
  BY <1>1, <1>2, <1>3 DEF SweepKnown, StoreKnown
<1> QED
  BY <1>1, <1>4, StepKeeps

\* A sweep that stops leaves the store as known as it was.
LEMMA GoIdleKeeps ==
    ASSUME SweepInv, TypeOK', NEW s \in Sweepers, SweepStep(s), UNCHANGED storeVars,
           GoIdle(s)
    PROVE  SweepInv'
<1>1. SweepKnown(s)'
  BY DEF GoIdle, SweepKnown, SweepInv, TypeOK
<1> QED
  BY <1>1, StoreStays, StepKeeps

\* A leg that ends, either way, is followed by the next leg or by none.
LEMMA LegEndsKeeps ==
    ASSUME SweepInv, TypeOK', NEW s \in Sweepers, SweepStep(s), UNCHANGED storeVars,
           s \in scene.sweepers, LegEnds(s)
    PROVE  SweepInv'
  BY BeginLegKeeps, GoIdleKeeps DEF LegEnds, Legs

\* A sweep that keeps its cursor keeps what it has passed.
LEMMA CursorKeeps ==
    ASSUME SweepInv, NEW s \in Sweepers, SweepStep(s), pc[s] # "idle",
           UNCHANGED <<leg, cursor, skipped>>, base[leg[s]] # -1
    PROVE  SweepKnown(s)'
<1>1. /\ TypeOK /\ SweepKnown(s) /\ leg[s] \in Legs /\ UNCHANGED scene
      /\ base'[leg[s]] # -1
  BY DEF SweepInv, TypeOK, SweepStep
<1>2. ASSUME NEW e \in 1..cursor[s], NEW l \in Legs, leg[s] = l
      PROVE  Known(leg[s], e)' \/ e \in skipped[s]
  <2>1. Known(l, e) \/ e \in skipped[s]
    BY <1>1, <1>2 DEF SweepKnown
  <2>2. Known(l, e)' \/ e \in skipped[s]
    BY <1>1, <2>1, KnownStays
  <2> QED
    BY <1>2, <2>2 DEF Known, Accounted, Reporting
<1> QED
  BY <1>1, <1>2 DEF SweepKnown

\* The next event of a page passed, handled or given up on: the rest of what
\* the sweep has passed is as known as it was.
LEMMA AdvanceKeeps ==
    ASSUME SweepInv, TypeOK', NEW s \in Sweepers, SweepStep(s),
           UNCHANGED <<stored, base, leg>>, pc[s] = "handle", Advance(s),
           skipped[s] \subseteq skipped'[s],
           cursor[s] + 1 \in handled'[leg[s]] \cup skipped'[s]
    PROVE  SweepInv'
<1>1. \A l \in Legs : StoreKnown(l)'
  BY StoreStays DEF storeVars
<1>2. /\ TypeOK /\ SweepKnown(s) /\ leg[s] \in Legs /\ UNCHANGED scene
      /\ cursor[s] \in Nat /\ cursor'[s] = cursor[s] + 1
  BY DEF SweepInv, TypeOK, Advance, SweepStep
<1>3. base[leg[s]] # -1
  BY <1>2 DEF SweepKnown
<1>4. ASSUME NEW e \in 1..cursor'[s], NEW l \in Legs, leg[s] = l
      PROVE  Known(leg[s], e)' \/ e \in skipped'[s]
  <2>1. CASE e = cursor[s] + 1
    BY <1>4, <2>1 DEF Known, Accounted
  <2>2. CASE e # cursor[s] + 1
    <3>1. e \in 1..cursor[s]
      BY <1>2, <2>2
    <3>2. Known(l, e) \/ e \in skipped[s]
      BY <1>2, <1>3, <1>4, <3>1 DEF SweepKnown
    <3>3. Known(l, e)' \/ e \in skipped'[s]
      BY <1>2, <3>2, KnownStays
    <3> QED
      BY <1>4, <3>3 DEF Known, Accounted, Reporting
  <2> QED
    BY <2>1, <2>2
<1>5. SweepKnown(s)'
  BY <1>2, <1>3, <1>4 DEF SweepKnown
<1> QED
  BY <1>1, <1>5, StepKeeps

\* What occurs at a provider leaves every sweep and the store as they were.
LEMMA EventKeeps ==
    ASSUME SweepInv, NEW l \in Legs, EventOccurs(l), UNCHANGED scene, TypeOK'
    PROVE  SweepInv'
<1>1. UNCHANGED <<scene, expired, stored, base, handled, reported, pc, leg, cursor, skipped>>
  BY DEF EventOccurs, storeVars, outVars, sweepVars
<1>2. \A k \in Legs : newest'[k] >= 1
  BY DEF EventOccurs, SweepInv, TypeOK
<1> QED
  BY <1>1, <1>2
     DEF SweepInv, StoreKnown, SweepKnown, SceneKept, Faults, Known, Accounted, Reporting

\* What a handler gives up on is remembered by a sweep that will not die.
LEMMA HandlerThrowsKeeps ==
    ASSUME Undisturbed, SweepInv, TypeOK', NEW s \in Sweepers, HandlerThrows(s),
           UNCHANGED scene
    PROVE  SweepInv'
<1>1. /\ TypeOK /\ SweepKnown(s) /\ leg[s] \in Legs
      /\ pc[s] = "handle" /\ UNCHANGED <<logVars, storeVars, outVars>>
      /\ "crash" \notin Faults
  BY DEF HandlerThrows, SweepInv, TypeOK, Undisturbed
<1>2. base[leg[s]] # -1
  BY <1>1 DEF SweepKnown
<1>3. CASE MoreTries(tries[s] + 1)
  <2>1. TryAgain(s)
    BY <1>3 DEF HandlerThrows
  <2>2. SweepStep(s) /\ UNCHANGED <<leg, cursor, skipped>>
    BY <1>1, <2>1 DEF TryAgain, SweepStep, logVars, storeVars, outVars
  <2> QED
    BY <1>1, <1>2, <2>2, CursorKeeps, StoreStays, StepKeeps
<1>4. CASE ~MoreTries(tries[s] + 1)
  <2>1. GiveUp(s)
    BY <1>4 DEF HandlerThrows
  <2>2. /\ Advance(s) /\ UNCHANGED <<stored, base, leg>>
        /\ skipped[s] \subseteq skipped'[s]
        /\ cursor[s] + 1 \in skipped'[s]
    BY <1>1, <2>1 DEF GiveUp, TypeOK, storeVars
  <2>3. SweepStep(s)
    BY <1>1, <2>1 DEF GiveUp, Advance, SweepStep, TypeOK, logVars, storeVars, outVars
  <2> QED
    BY <1>1, <2>2, <2>3, AdvanceKeeps
<1> QED
  BY <1>3, <1>4

\* Storing the cursor makes the sweep's known events the store's, and those it
\* skipped are being reported from then on.
LEMMA StoreCursorKeeps ==
    ASSUME SweepInv, TypeOK', NEW s \in Sweepers, StoreCursor(s), UNCHANGED scene
    PROVE  SweepInv'
<1>0. /\ TypeOK /\ SweepKnown(s) /\ leg[s] \in Legs /\ pc[s] = "store"
      /\ cursor[s] >= 1 /\ cursor[s] \in Nat
      /\ s \in scene.sweepers
  BY DEF StoreCursor, SweepInv, SweepKnown, TypeOK
<1>1. /\ TypeOK /\ SweepKnown(s) /\ leg[s] \in Legs
      /\ pc[s] = "store" /\ pc'[s] = "report"
      /\ UNCHANGED <<leg, cursor, skipped>>
      /\ stored' = [stored EXCEPT ![leg[s]] = cursor[s]]
      /\ base' = [base EXCEPT ![leg[s]] = IF @ = -1 THEN cursor[s] ELSE @]
      /\ cursor[s] >= 1 /\ cursor[s] \in Nat
      /\ s \in scene.sweepers
  <2>1. cursor[s] # 0
    BY <1>0
  <2>2. stored' = [stored EXCEPT ![leg[s]] = cursor[s]]
    BY <2>1 DEF StoreCursor
  <2>3. pc'[s] = "report"
    BY <1>0 DEF StoreCursor, TypeOK
  <2>4. /\ UNCHANGED <<leg, cursor, skipped>>
        /\ base' = [base EXCEPT ![leg[s]] = IF @ = -1 THEN cursor[s] ELSE @]
    BY DEF StoreCursor, sweepVars
  <2> QED
    BY <1>0, <2>2, <2>3, <2>4
<1>2. SweepStep(s)
  BY <1>1 DEF StoreCursor, SweepStep, TypeOK, logVars, outVars, sweepVars
<1>3. base'[leg[s]] # -1
  BY <1>1 DEF TypeOK
<1>4. SweepKnown(s)'
  <2>1. CASE base[leg[s]] = -1
    <3>1. base'[leg[s]] = cursor[s]
      BY <1>1, <2>1 DEF TypeOK
    <3>2. ASSUME NEW e \in 1..cursor[s] PROVE Known(leg[s], e)'
      BY <1>1, <1>3, <3>1 DEF Known
    <3> QED
      BY <1>1, <1>3, <3>2 DEF SweepKnown
  <2>2. CASE base[leg[s]] # -1
    BY <1>1, <1>2, <2>2, CursorKeeps
  <2> QED
    BY <2>1, <2>2
<1>5. ASSUME NEW l \in Legs PROVE StoreKnown(l)'
  <2>1. CASE l = leg[s]
    <3>1. stored'[l] = cursor'[s] /\ base'[l] # -1
      BY <1>1, <1>3, <2>1 DEF TypeOK
    <3>2. ASSUME NEW e \in 1..cursor'[s] PROVE Known(l, e)'
      <4>1. Known(leg[s], e)' \/ e \in skipped'[s]
        BY <1>1, <1>3, <1>4 DEF SweepKnown
      <4>2. CASE Known(leg[s], e)'
        BY <1>1, <2>1, <4>2 DEF Known, Accounted, Reporting
      <4>3. CASE e \in skipped'[s]
        BY <1>1, <2>1, <4>3 DEF Known, Accounted, Reporting
      <4> QED
        BY <4>1, <4>2, <4>3
    <3> QED
      BY <1>1, <3>1, <3>2 DEF StoreKnown
  <2>2. CASE l # leg[s]
    <3>1. StoreKnown(l) /\ stored'[l] = stored[l] /\ base'[l] = base[l]
      BY <1>1, <2>2 DEF SweepInv, TypeOK
    <3> QED
      BY <1>1, <1>2, <3>1, KnownStays DEF StoreKnown
  <2> QED
    BY <2>1, <2>2
<1> QED
  BY <1>2, <1>4, <1>5, StepKeeps

\* A first sweep goes to the newest event, which becomes the leg's base.
LEMMA RebaselineKeeps ==
    ASSUME SweepInv, TypeOK', NEW s \in Sweepers, Rebaseline(s), UNCHANGED scene
    PROVE  SweepInv'
<1>1. /\ TypeOK /\ SweepKnown(s) /\ leg[s] \in Legs /\ expired[leg[s]] = 0
      /\ pc[s] = "list" /\ cursor[s] <= 0 /\ newest[leg[s]] >= 1
      /\ UNCHANGED <<logVars, storeVars, outVars, leg, skipped>>
      /\ pc'[s] = "store" /\ cursor'[s] = newest[leg[s]]
  BY DEF Rebaseline, Latest, SweepInv, TypeOK
<1>2. base[leg[s]] = -1 /\ s \in scene.sweepers
  BY <1>1 DEF SweepKnown, TypeOK
<1>3. SweepStep(s)
  BY <1>1 DEF Rebaseline, SweepStep, TypeOK, logVars, storeVars, outVars
<1>4. SweepKnown(s)'
  BY <1>1, <1>2 DEF SweepKnown, storeVars
<1> QED
  BY <1>1, <1>3, <1>4, StoreStays, StepKeeps

LEMMA SweepInit ==
    ASSUME Init, Undisturbed
    PROVE  SweepInv
<1>1. scene \in SceneType
  BY EventPollAssumption DEF Init
<1>2. TypeOK
  BY <1>1 DEF Init, TypeOK, Kept, Steps, Legs, Attempts, SceneType, Opening
<1>3. \A l \in Legs : expired[l] = 0 /\ newest[l] >= 1
  BY <1>1 DEF Init, Kept, Undisturbed, Opening, SceneType
<1>4. \A l \in Legs : StoreKnown(l)
  BY <1>1 DEF Init, StoreKnown, Known, Opening, SceneType
<1>5. \A s \in Sweepers : SweepKnown(s)
  BY DEF Init, SweepKnown
<1>6. SceneKept
  BY <1>1 DEF Init, SceneKept, Undisturbed, Opening, SceneType
<1> QED
  BY <1>2, <1>3, <1>4, <1>5, <1>6 DEF SweepInv

LEMMA SweepNext ==
    ASSUME Undisturbed, SweepInv, TypeOK', [Next]_vars
    PROVE  SweepInv'
<1> USE DEF logVars, storeVars, outVars, sweepVars
<1>1. TypeOK /\ UNCHANGED scene /\ "expire" \notin Faults
  BY DEF SweepInv, Next, vars, Undisturbed
<1>2. ASSUME NEW s \in Sweepers, RunOnce(s) PROVE SweepInv'
  <2>1. SweepStep(s)
    BY <1>1, <1>2 DEF RunOnce, BeginLeg, SweepStep, TypeOK
  <2> QED
    BY <1>2, <2>1, BeginLegKeeps DEF RunOnce, Legs
<1>3. ASSUME NEW s \in Sweepers, ListPage(s) PROVE SweepInv'
  <2>1. pc[s] # "idle" /\ UNCHANGED <<storeVars, leg, cursor, skipped>> /\ cursor[s] # 0
    BY <1>3 DEF ListPage
  <2>2. SweepStep(s)
    BY <1>1, <1>3 DEF ListPage, SweepStep, TypeOK
  <2>3. base[leg[s]] # -1
    BY <1>3, <2>1 DEF ListPage, SweepInv, SweepKnown
  <2> QED
    BY <2>1, <2>2, <2>3, CursorKeeps, StoreStays, StepKeeps
<1>4. ASSUME NEW s \in Sweepers, HandleEvent(s) PROVE SweepInv'
  <2>1. pc[s] = "handle" /\ Advance(s) /\ UNCHANGED <<stored, base, leg, skipped>>
    BY <1>4 DEF HandleEvent
  <2>2. cursor[s] + 1 \in handled'[leg[s]]
    BY <1>1, <1>4 DEF HandleEvent, TypeOK
  <2>3. SweepStep(s)
    BY <1>1, <1>4 DEF HandleEvent, Advance, SweepStep, TypeOK
  <2> QED
    BY <2>1, <2>2, <2>3, AdvanceKeeps
<1>5. ASSUME NEW s \in Sweepers, ReportFaults(s) PROVE SweepInv'
  <2>1. LegEnds(s) /\ UNCHANGED storeVars /\ s \in scene.sweepers
    BY <1>5 DEF ReportFaults, SweepInv, SweepKnown
  <2>2. SweepStep(s)
    BY <1>1, <1>5 DEF ReportFaults, LegEnds, BeginLeg, GoIdle, SweepStep, TypeOK
  <2> QED
    BY <2>1, <2>2, LegEndsKeeps
<1>6. ASSUME NEW s \in Sweepers, ListThrows(s) \/ StoreThrows(s) PROVE SweepInv'
  <2>1. /\ LegEnds(s) /\ pc[s] \in {"list", "store"} /\ s \in scene.sweepers
        /\ UNCHANGED <<logVars, storeVars, outVars>>
    BY <1>6 DEF ListThrows, StoreThrows, LegFails, SweepInv, SweepKnown
  <2>2. SweepStep(s)
    BY <1>1, <2>1 DEF LegEnds, BeginLeg, GoIdle, SweepStep, TypeOK
  <2> QED
    BY <2>1, <2>2, LegEndsKeeps
<1>7. ASSUME NEW s \in Sweepers, Crash(s) PROVE SweepInv'
  <2>1. GoIdle(s) /\ UNCHANGED <<logVars, storeVars, outVars>> /\ skipped[s] = {}
    BY <1>7 DEF Crash, SweepInv, SceneKept
  <2>2. SweepStep(s)
    BY <1>1, <2>1 DEF GoIdle, SweepStep, TypeOK
  <2> QED
    BY <2>1, <2>2, GoIdleKeeps
<1>8. CASE UNCHANGED vars
  <2>1. UNCHANGED <<scene, newest, expired, stored, base, handled, reported, pc, leg, cursor, skipped>>
    BY <1>8 DEF vars
  <2> QED
    BY <1>1, <2>1
       DEF SweepInv, StoreKnown, SweepKnown, SceneKept, Faults, Known, Accounted, Reporting
<1> QED
  BY <1>1, <1>2, <1>3, <1>4, <1>5, <1>6, <1>7, <1>8,
     EventKeeps, RebaselineKeeps, HandlerThrowsKeeps, StoreCursorKeeps
     DEF Next, Sweep, EventExpires

\* Passed events are accounted for (events.ts:16-21), whatever handlers,
\* listings and stores fail, wherever sweeps die and however they overlap, under
\* the conditions Undisturbed names.
THEOREM NothingLost == Spec => []PassedIsAccounted
<1> DEFINE Inv == TypeOK /\ (Undisturbed => SweepInv)
<1>1. Init /\ TypeOK => Inv
  BY SweepInit
<1>2. Inv /\ TypeOK' /\ [Next]_vars => Inv'
  <2> SUFFICES ASSUME Inv, TypeOK', [Next]_vars, Undisturbed' PROVE SweepInv'
    OBVIOUS
  <2>1. UNCHANGED scene
    BY DEF Next, vars
  <2>2. Undisturbed
    BY <2>1 DEF Undisturbed, Faults, Opening, Poison
  <2> QED
    BY <2>2, SweepNext
<1>3. Inv => PassedIsAccounted
  <2> SUFFICES ASSUME Inv, Undisturbed, NEW l \in Legs, NEW e \in 1..stored[l],
                      base[l] # -1, e > base[l]
               PROVE  Accounted(l, e)
    BY DEF PassedIsAccounted
  <2>1. Known(l, e) /\ base[l] \in Nat
    BY DEF SweepInv, StoreKnown, TypeOK
  <2> QED
    BY <2>1 DEF Known
<1> QED
  BY <1>1, <1>2, <1>3, TypeCorrect, PTL DEF Spec
=============================================================================
