------------------------- MODULE OrganizationProofs -------------------------
(***************************************************************************)
(* How an organization is lived in and entered. First its workspace, while *)
(* its members come and go and while it is closed, for any people,         *)
(* operations, closers and subscriptions: somebody may administer it, and  *)
(* nothing of it is left behind when it is gone. Then, for any readers,    *)
(* claims, requests, replicas and sign-ins, its access: a row has one      *)
(* organization, a user one of their own, a key reaches the agent it was   *)
(* minted for, a connector in use stays signed in and a code is paid out   *)
(* once.                                                                   *)
(*                                                                         *)
(* The parts share no variable, so that each has an invariant of its own,  *)
(* and a step of the whole is a step of one and a stutter of the others.   *)
(***************************************************************************)
EXTENDS Organization, FiniteSetTheorems, TLAPS

-----------------------------------------------------------------------------
(* The workspace. *)

SeatRecords == SeatNames \cup {"none", ""}
Statuses == {"none", "pending", "active"}
MembershipType == [status : Statuses, role : Roles]
InvitationType == [state : {"none", "pending", "accepted", "revoked"}, role : Roles, n : Nat]
OpType ==
    [pc : {"idle", "naming", "room", "own", "assign", "places", "send", "enrol", "take", "consume",
           "admins", "set", "clearing", "clear", "drop"},
     kind : Kinds \cup {"none"}, org : Orgs, who : People \cup {Nobody}, role : Roles,
     seat : SeatNames \cup {""}, n : Nat, mine : [Orgs -> SeatRecords], todo : {{}}]

MemberTypes ==
    /\ memberScene \in MemberSceneType
    /\ member \in [Orgs -> [People -> MembershipType]]
    /\ invited \in [Orgs -> [People -> InvitationType]]
    /\ record \in [People -> [Orgs -> SeatRecords]]
    /\ op \in [Actors -> OpType]
    /\ calls \in Nat

\* Where the operations of each kind go.
StepsOf(kind) ==
    CASE kind = "none" -> {"idle"}
      [] kind = "assign" -> {"naming", "room", "own", "assign"}
      [] kind = "invite" -> {"places", "room", "send", "own", "assign"}
      [] kind = "accept" -> {"enrol", "take", "consume"}
      [] kind = "revoke" -> {"consume"}
      [] kind = "role" -> {"admins", "set"}
      [] kind = "remove" -> {"admins", "clearing", "clear", "drop"}
OpsGo ==
    \A a \in Actors :
        /\ op[a].pc \in StepsOf(op[a].kind)
        /\ op[a].kind # "none" => op[a].who \in People

\* An invitation that waits is for somebody who is not in.
InvitedAreOut == \A o \in Orgs, p \in People : invited[o][p].state = "pending" => member[o][p].status = "pending"

\* One at a time decides on administrators, where that is so.
OneDecides ==
    "admins" \in memberScene.serial =>
        \A a, b \in Actors : op[a].kind \in {"role", "remove"} /\ op[b].kind \in {"role", "remove"} => a = b

\* Who is about to be demoted or removed leaves another administrator behind.
HasStaff(o) == memberScene.staff[o] \cap memberScene.admins # {} /\ (o = Home => exists)
Leaving(a) == (op[a].pc = "set" /\ op[a].role = "member") \/ op[a].pc \in {"clearing", "clear", "drop"}
AnotherRemains ==
    "admins" \in memberScene.serial /\ ~Rejects("roles") =>
        \A a \in Actors : Leaving(a) /\ HasStaff(op[a].org) => \E q \in Admins(op[a].org) : q # op[a].who

-----------------------------------------------------------------------------
CloseType ==
    [pc : {"idle", "list", "stop", "members", "clearing", "clear", "delete"}, at : {"now", "period_end"},
     delete : BOOLEAN, clear : BOOLEAN, live : SUBSET Subscriptions, stuck : BOOLEAN,
     todo : SUBSET People, who : People \cup {Nobody}, mine : [Orgs -> SeatRecords]]

CloseTypes ==
    /\ closeScene \in CloseSceneType
    /\ exists \in BOOLEAN /\ customer \in BOOLEAN
    /\ sub \in [Subscriptions -> {"none", "canceled"} \cup LIVE]
    /\ close \in [Closers -> CloseType]
    /\ late \subseteq Subscriptions

\* What a close that deletes has still to stop began behind its back.
Stopped(k) == close[k].delete /\ ~close[k].stuck
NothingRuns ==
    /\ ~customer => \A s \in Subscriptions : sub[s] = "none"
    /\ \A k \in Closers :
          /\ close[k].delete => close[k].at = "now"
          /\ \A s \in close[k].live : sub[s] # "none"
          /\ Stopped(k) /\ Closing(k, "stop") =>
                \A s \in Subscriptions : sub[s] \in LIVE => s \in close[k].live \cup late
          /\ Stopped(k) /\ close[k].pc \in {"members", "clearing", "clear", "delete"} =>
                \A s \in Subscriptions : sub[s] \in LIVE => s \in late
    /\ ~exists => \A s \in Subscriptions : sub[s] \in LIVE => s \in late

-----------------------------------------------------------------------------
\* Where operations on records follow one another, nothing fails, and seats are
\* recorded for members only.
Orderly ==
    /\ "records" \in memberScene.serial /\ ~memberScene.naming
    /\ memberScene.faults \cap {"fails", "memberRead"} = {}
    /\ closeScene.faults = {} /\ closeScene.clears = {TRUE}

OneWrites ==
    /\ \A a, b \in Actors : op[a].kind \in {"assign", "remove"} /\ op[b].kind \in {"assign", "remove"} => a = b
    /\ \A a \in Actors, k \in Closers : op[a].kind \in {"assign", "remove"} => Closing(k, "idle")

\* Whoever is not in carries nothing; a seat is written for a member; what is
\* written back is what is there.
OutCarryNothing == \A o \in Orgs, p \in People : member[o][p].status # "active" => record[p][o] = "none"
WritersKnow ==
    \A a \in Actors :
        /\ op[a].kind = "invite" => op[a].pc \in {"places", "send"} /\ op[a].seat = ""
        /\ op[a].kind = "assign" => op[a].who \in Active(op[a].org)
        /\ op[a].pc \in {"assign", "clear"} => op[a].mine = record[op[a].who]
        /\ op[a].pc = "drop" => record[op[a].who][op[a].org] = "none"

\* A close has only those left to clear whom it has listed.
ClosersKnow ==
    \A k \in Closers :
        /\ ~Closing(k, "idle") => close[k].clear
        /\ Closing(k, "clearing") => \A p \in People : record[p][Home] # "none" => p \in close[k].todo
        /\ Closing(k, "clear") =>
              /\ close[k].who \in People
              /\ \A p \in People : record[p][Home] # "none" => p \in close[k].todo \cup {close[k].who}
              /\ \A o \in Orgs : o # Home => close[k].mine[o] = record[close[k].who][o]
        /\ Closing(k, "delete") => \A p \in People : record[p][Home] = "none"

RecordsAreClean == Orderly => OneWrites /\ OutCarryNothing /\ WritersKnow /\ ClosersKnow

-----------------------------------------------------------------------------
WorkspaceInv ==
    /\ MemberTypes /\ OpsGo /\ InvitedAreOut /\ OneDecides /\ AdminRemains /\ AnotherRemains
    /\ CloseTypes /\ NothingRuns /\ RecordsAreClean

-----------------------------------------------------------------------------
(* What a step of the members does: one operation becomes another record. *)

Becomes(a, next) == op' = [op EXCEPT ![a] = next]
SamePeople == UNCHANGED <<member, invited, record>>
Same(a, next) == next.kind = op[a].kind /\ next.org = op[a].org /\ next.who = op[a].who

Begun(a, next) ==
    /\ op[a].pc = "idle" /\ next.kind \in Kinds
    /\ next.pc \in {"naming", "places", "enrol", "consume", "admins", "set"} /\ next.pc \in StepsOf(next.kind)
    /\ next.who \in People /\ next.seat = "" /\ (next.pc = "set" => next.role = "admin")
    /\ next.kind \in {"assign", "remove"} => next.who \in Active(next.org)
    /\ \A b \in Actors : LocksOf(op[b].kind) \cap LocksOf(next.kind) \cap memberScene.serial = {}
    /\ calls' = calls + 1 /\ SamePeople

Ended(a, next) == next = IdleOp /\ calls' = calls /\ SamePeople

Found(a, next) ==
    /\ op[a].pc \in {"naming", "room", "own"} /\ Same(a, next) /\ calls' = calls /\ SamePeople
    /\ \/ next.pc = "room" /\ op[a].pc = "naming"
       \/ next.pc = "own" /\ (op[a].pc = "naming" \/ op[a].kind # "invite")
       \/ next.pc = "send" /\ op[a].kind = "invite"
       \/ next.pc = "assign" /\ op[a].pc = "own" /\ next.mine \in Record(op[a].who)

Counted(a, next) ==
    /\ op[a].pc = "places" /\ Same(a, next) /\ calls' = calls /\ SamePeople
    /\ \/ next.pc = "send" /\ next.seat = ""
       \/ next.pc = "room" /\ memberScene.naming

Decided(a, next) ==
    /\ op[a].pc = "admins" /\ Same(a, next) /\ calls' = calls /\ SamePeople
    /\ \/ /\ op[a].kind = "role" /\ next.pc = "set"
          /\ "false" \in IsLastAdmin(op[a].org, op[a].who)
       \/ /\ op[a].kind # "role" /\ next.pc = "clearing"
          /\ \E last \in IsLastAdmin(op[a].org, op[a].who) : last # "true"

Reread(a, next) ==
    /\ op[a].pc = "clearing" /\ op[a].kind = "remove" /\ Same(a, next) /\ calls' = calls /\ SamePeople
    /\ \/ next.pc = "clear" /\ next.mine = record[op[a].who]
       \/ next.pc = "drop" /\ (record[op[a].who][op[a].org] = "none" \/ Rejects("memberRead"))

Wrote(a, next) ==
    /\ \/ op[a].pc = "assign" /\ next = IdleOp
       \/ op[a].pc = "clear" /\ op[a].kind = "remove" /\ Same(a, next) /\ next.pc = "drop"
    /\ record' = [record EXCEPT ![op[a].who] = [op[a].mine EXCEPT ![op[a].org] =
                      IF op[a].pc = "assign" THEN op[a].seat ELSE "none"]]
    /\ UNCHANGED <<member, invited, calls>>

Sent(a, next) ==
    /\ op[a].pc = "send"
    /\ member[op[a].org][op[a].who].status = "none"
    /\ member' = [member EXCEPT ![op[a].org][op[a].who] = [status |-> "pending", role |-> op[a].role]]
    /\ invited' = [invited EXCEPT ![op[a].org][op[a].who] =
                       [state |-> "pending", role |-> op[a].role, n |-> @.n + 1]]
    /\ next = IdleOp \/ (op[a].seat # "" /\ Same(a, next) /\ next.pc = "own")
    /\ UNCHANGED <<record, calls>>

Enrolled(a, next) ==
    /\ op[a].pc = "enrol" /\ Same(a, next) /\ next.pc \in {"take", "consume"}
    /\ \/ UNCHANGED member
       \/ \E user \in People :
             /\ member[op[a].org][user].status = "none"
             /\ member' = [member EXCEPT ![op[a].org][user] = [status |-> "active", role |-> op[a].role]]
    /\ UNCHANGED <<invited, record, calls>>

Took(a, next) ==
    /\ op[a].pc = "take" /\ next = IdleOp
    /\ invited[op[a].org][op[a].who].state = "pending"
    /\ member' = [member EXCEPT ![op[a].org][op[a].who] = [status |-> "active", role |-> op[a].role]]
    /\ invited' = [invited EXCEPT ![op[a].org][op[a].who].state = "accepted"]
    /\ UNCHANGED <<record, calls>>

Consumed(a, next) ==
    /\ op[a].pc = "consume" /\ next = IdleOp
    /\ invited[op[a].org][op[a].who].state = "pending"
    /\ invited' = [invited EXCEPT ![op[a].org][op[a].who].state = "revoked"]
    /\ \/ UNCHANGED member
       \/ /\ member[op[a].org][op[a].who].status = "pending"
          /\ member' = [member EXCEPT ![op[a].org][op[a].who].status = "none"]
    /\ UNCHANGED <<record, calls>>

Ruled(a, next) ==
    /\ next = IdleOp /\ op[a].who \in Active(op[a].org)
    /\ \/ op[a].pc = "set" /\ member' = [member EXCEPT ![op[a].org][op[a].who].role = op[a].role]
       \/ op[a].pc = "drop" /\ member' = [member EXCEPT ![op[a].org][op[a].who].status = "none"]
    /\ UNCHANGED <<invited, record, calls>>

Shape(a, next) ==
    \/ Begun(a, next) \/ Ended(a, next) \/ Found(a, next) \/ Counted(a, next) \/ Decided(a, next)
    \/ Reread(a, next) \/ Wrote(a, next) \/ Sent(a, next) \/ Enrolled(a, next) \/ Took(a, next)
    \/ Consumed(a, next) \/ Ruled(a, next)
MemberShape ==
    /\ memberScene' = memberScene
    /\ \E a \in Actors, next \in OpType : Becomes(a, next) /\ Shape(a, next)

LEMMA NoRecordIsOne == NoRecord \in [Orgs -> SeatRecords]
BY DEF NoRecord, SeatRecords

LEMMA IdleOpIsOne ==
    /\ IdleOp \in OpType
    /\ IdleOp.pc = "idle" /\ IdleOp.kind = "none" /\ IdleOp.org = Nowhere /\ IdleOp.who = Nobody
    /\ IdleOp.role = "member" /\ IdleOp.seat = "" /\ IdleOp.n = 0 /\ IdleOp.mine = NoRecord /\ IdleOp.todo = {}
<1>1. Nowhere \in Orgs
  BY WorkspaceAssumption DEF Nowhere
<1>2. NoRecord \in [Orgs -> SeatRecords]
  BY NoRecordIsOne
<1> QED
  BY <1>1, <1>2 DEF IdleOp, OpType, Roles, Kinds

LEMMA Begin ==
    ASSUME MemberTypes, NEW a \in Actors, NEW kind \in Kinds, NEW o \in Orgs, NEW p \in People,
           NEW pc \in {"naming", "places", "enrol", "consume", "admins"}, pc \in StepsOf(kind),
           kind \in {"assign", "remove"} => p \in Active(o),
           Begins(a, kind, pc, o, p)
    PROVE  MemberShape
<1> DEFINE next == [IdleOp EXCEPT !.pc = pc, !.kind = kind, !.org = o, !.who = p,
                                  !.role = invited[o][p].role, !.n = invited[o][p].n]
<1>1. invited[o][p] \in InvitationType
  BY DEF MemberTypes
<1>2. next \in OpType
  BY <1>1, IdleOpIsOne, ZenonT(60) DEF OpType, InvitationType
<1>3. next.pc = pc /\ next.kind = kind /\ next.org = o /\ next.who = p /\ next.seat = ""
  BY IdleOpIsOne DEF IdleOp
<1>4. Becomes(a, next)
  BY DEF Begins, Becomes
<1> HIDE DEF next
<1>5. Begun(a, next)
  BY <1>3 DEF Begins, Begun, Is, SamePeople
<1> QED
  BY <1>2, <1>4, <1>5 DEF MemberShape, Shape, Begins

LEMMA BeginAll ==
    ASSUME MemberTypes, NEW a \in Actors, BeginNext(a)
    PROVE  MemberShape
<1> PICK o \in Orgs, p \in People :
           \/ BeginAssign(a, o, p)
           \/ BeginInvite(a, o, p)
           \/ \E role \in Roles : BeginRole(a, o, p, role)
           \/ BeginRemove(a, o, p)
           \/ BeginAccept(a, o, p)
           \/ BeginRevoke(a, o, p)
  BY DEF BeginNext
<1>1. CASE BeginAssign(a, o, p)
  BY <1>1, Begin DEF BeginAssign, Kinds, StepsOf
<1>2. CASE BeginInvite(a, o, p)
  BY <1>2, Begin DEF BeginInvite, Kinds, StepsOf
<1>3. ASSUME NEW role \in Roles, BeginRole(a, o, p, role)
      PROVE  MemberShape
  <2> DEFINE next == [IdleOp EXCEPT !.pc = IF role = "admin" THEN "set" ELSE "admins",
                                    !.kind = "role", !.org = o, !.who = p, !.role = role]
  <2>1. next \in OpType
    BY IdleOpIsOne, ZenonT(60) DEF OpType, Kinds
  <2>2. /\ next.pc = IF role = "admin" THEN "set" ELSE "admins"
        /\ next.kind = "role" /\ next.org = o /\ next.who = p /\ next.seat = "" /\ next.role = role
    BY IdleOpIsOne DEF IdleOp
  <2>3. Becomes(a, next)
    BY <1>3 DEF BeginRole, Becomes
  <2> HIDE DEF next
  <2>4. \A b \in Actors : LocksOf(op[b].kind) \cap LocksOf(next.kind) \cap memberScene.serial = {}
    BY <1>3, <2>2 DEF BeginRole, LocksOf
  <2>5. Begun(a, next)
    BY <1>3, <2>2, <2>4 DEF BeginRole, Begun, Is, SamePeople, Kinds, StepsOf
  <2> QED
    BY <1>3, <2>1, <2>3, <2>5 DEF MemberShape, Shape, BeginRole
<1>4. CASE BeginRemove(a, o, p)
  BY <1>4, Begin DEF BeginRemove, Kinds, StepsOf
<1>5. CASE BeginAccept(a, o, p)
  BY <1>5, Begin DEF BeginAccept, Kinds, StepsOf
<1>6. CASE BeginRevoke(a, o, p)
  BY <1>6, Begin DEF BeginRevoke, Kinds, StepsOf
<1> QED
  BY <1>1, <1>2, <1>3, <1>4, <1>5, <1>6

\* An operation that ends, and one that goes on.
LEMMA Ending ==
    ASSUME NEW a \in Actors, Ends(a)
    PROVE  Becomes(a, IdleOp) /\ IdleOp \in OpType
BY IdleOpIsOne DEF Ends, Becomes

LEMMA Going ==
    ASSUME MemberTypes, NEW a \in Actors, NEW pc, Goes(a, pc),
           pc \in {"room", "own", "send", "take", "consume", "set", "clearing", "drop"}
    PROVE  \E next \in OpType : Becomes(a, next) /\ Same(a, next) /\ next.pc = pc
<1> DEFINE next == [op[a] EXCEPT !.pc = pc]
<1>1. op[a] \in OpType
  BY DEF MemberTypes
<1>2. next \in OpType /\ next.pc = pc /\ Same(a, next)
  BY <1>1, ZenonT(60) DEF OpType, Same
<1>3. Becomes(a, next)
  BY DEF Goes, Becomes
<1> QED
  BY <1>2, <1>3

LEMMA SeatsShape ==
    ASSUME MemberTypes, OpsGo, NEW a \in Actors,
           \/ \E seat \in SeatNames \cup {""} : Name(a, seat)
           \/ Room(a)
           \/ ReadOwn(a)
           \/ WriteSeat(a)
    PROVE  MemberShape
<1>0. op[a] \in OpType
  BY DEF MemberTypes
<1>1. ASSUME NEW seat \in SeatNames \cup {""}, Name(a, seat)
      PROVE  MemberShape
  <2> DEFINE next == [op[a] EXCEPT !.seat = seat, !.pc = IF seat = "" THEN "own" ELSE "room"]
  <2>1. next \in OpType /\ Same(a, next) /\ next.pc = IF seat = "" THEN "own" ELSE "room"
    BY <1>0 DEF OpType, Same
  <2>2. Becomes(a, next)
    BY <1>1 DEF Name, Becomes
  <2> HIDE DEF next
  <2>3. Found(a, next)
    BY <1>1, <2>1 DEF Name, Found, Is, SamePeople
  <2> QED
    BY <1>1, <2>1, <2>2, <2>3 DEF MemberShape, Shape, Name
<1>2. ASSUME Room(a)
      PROVE  MemberShape
  <2>1. /\ Is(a, "room") /\ UNCHANGED <<memberScene, member, invited, record, calls>>
        /\ Goes(a, IF op[a].kind = "invite" THEN "send" ELSE "own") \/ Ends(a)
    BY <1>2 DEF Room
  <2>2. CASE Goes(a, IF op[a].kind = "invite" THEN "send" ELSE "own")
    <3>1. PICK next \in OpType : Becomes(a, next) /\ Same(a, next)
                                 /\ next.pc = IF op[a].kind = "invite" THEN "send" ELSE "own"
      BY <2>2, Going
    <3>2. Found(a, next)
      BY <2>1, <3>1 DEF Found, Is, SamePeople
    <3> QED
      BY <2>1, <3>1, <3>2 DEF MemberShape, Shape
  <2>3. CASE Ends(a)
    BY <2>1, <2>3, Ending DEF MemberShape, Shape, Ended, SamePeople
  <2> QED
    BY <2>1, <2>2, <2>3
<1>3. ASSUME ReadOwn(a)
      PROVE  MemberShape
  <2>1. PICK mine \in Record(op[a].who) : op' = [op EXCEPT ![a].mine = mine, ![a].pc = "assign"]
    BY <1>3 DEF ReadOwn
  <2> DEFINE next == [op[a] EXCEPT !.mine = mine, !.pc = "assign"]
  <2>2. op[a].who \in People
    BY <1>3, <1>0 DEF OpsGo, ReadOwn, Is, StepsOf, OpType
  <2>3. mine \in [Orgs -> SeatRecords]
    BY <2>1, <2>2, NoRecordIsOne, ZenonT(60) DEF MemberTypes, Record
  <2>4. next \in OpType /\ Same(a, next) /\ next.pc = "assign" /\ next.mine = mine
    BY <1>0, <2>3 DEF OpType, Same
  <2>5. Becomes(a, next)
    BY <2>1 DEF Becomes
  <2> HIDE DEF next
  <2>6. Found(a, next)
    BY <1>3, <2>1, <2>4 DEF ReadOwn, Found, Is, SamePeople
  <2> QED
    BY <1>3, <2>4, <2>5, <2>6 DEF MemberShape, Shape, ReadOwn
<1>4. ASSUME WriteSeat(a)
      PROVE  MemberShape
  <2>1. Wrote(a, IdleOp)
    BY <1>4 DEF WriteSeat, Wrote, Is
  <2> QED
    BY <1>4, <2>1, Ending DEF MemberShape, Shape, WriteSeat
<1> QED
  BY <1>1, <1>2, <1>3, <1>4

LEMMA InvitesShape ==
    ASSUME MemberTypes, OpsGo, NEW a \in Actors,
           \/ \E role \in Roles, seat \in SeatNames \cup {""} : CountPlaces(a, role, seat)
           \/ Send(a)
           \/ \E user \in People : Enrol(a, user)
           \/ Take(a)
           \/ Consume(a)
    PROVE  MemberShape
<1>0. op[a] \in OpType
  BY DEF MemberTypes
<1>1. ASSUME NEW role \in Roles, NEW seat \in SeatNames \cup {""}, CountPlaces(a, role, seat)
      PROVE  MemberShape
  <2> DEFINE next == [op[a] EXCEPT !.role = role, !.seat = seat, !.pc = IF seat = "" THEN "send" ELSE "room"]
  <2>1. /\ next \in OpType /\ Same(a, next)
        /\ next.pc = (IF seat = "" THEN "send" ELSE "room") /\ next.seat = seat
    BY <1>0, ZenonT(60) DEF OpType, Same
  <2>2. Becomes(a, next) \/ Ends(a)
    BY <1>1, ZenonT(60) DEF CountPlaces, Becomes
  <2> HIDE DEF next
  <2>3. /\ Is(a, "places") /\ UNCHANGED <<memberScene, member, invited, record, calls>>
        /\ seat # "" => memberScene.naming
    BY <1>1 DEF CountPlaces
  <2>4. CASE Becomes(a, next)
    <3>1. Counted(a, next)
      BY <2>1, <2>3 DEF Counted, Is, SamePeople
    <3> QED
      BY <2>1, <2>3, <2>4, <3>1 DEF MemberShape, Shape
  <2>5. CASE Ends(a)
    BY <2>3, <2>5, Ending DEF MemberShape, Shape, Ended, SamePeople
  <2> QED
    BY <2>2, <2>4, <2>5
<1>2. ASSUME Send(a)
      PROVE  MemberShape
  <2>1. /\ Is(a, "send") /\ UNCHANGED <<memberScene, record, calls>>
        /\ \/ UNCHANGED <<member, invited>> /\ Ends(a)
           \/ /\ member[op[a].org][op[a].who].status = "none"
              /\ member' = [member EXCEPT ![op[a].org][op[a].who] = [status |-> "pending", role |-> op[a].role]]
              /\ invited' = [invited EXCEPT ![op[a].org][op[a].who] =
                                [state |-> "pending", role |-> op[a].role, n |-> @.n + 1]]
              /\ Ends(a) \/ (op[a].seat # "" /\ Goes(a, "own"))
    BY <1>2 DEF Send
  <2>2. CASE UNCHANGED <<member, invited>> /\ Ends(a)
    BY <2>1, <2>2, Ending DEF MemberShape, Shape, Ended, SamePeople
  <2>3. ASSUME ~(UNCHANGED <<member, invited>> /\ Ends(a)), Ends(a)
        PROVE  MemberShape
    <3>1. Sent(a, IdleOp)
      BY <2>1, <2>3 DEF Sent, Is
    <3> QED
      BY <2>1, <2>3, <3>1, Ending DEF MemberShape, Shape
  <2>4. ASSUME ~(UNCHANGED <<member, invited>> /\ Ends(a)), op[a].seat # "", Goes(a, "own")
        PROVE  MemberShape
    <3>1. PICK next \in OpType : Becomes(a, next) /\ Same(a, next) /\ next.pc = "own"
      BY <2>4, Going
    <3>2. Sent(a, next)
      BY <2>1, <2>4, <3>1 DEF Sent, Is
    <3> QED
      BY <2>1, <3>1, <3>2 DEF MemberShape, Shape
  <2> QED
    BY <2>1, <2>2, <2>3, <2>4, ZenonT(60)
<1>3. ASSUME NEW user \in People, Enrol(a, user)
      PROVE  MemberShape
  <2>1. /\ Is(a, "enrol") /\ UNCHANGED <<memberScene, invited, record, calls>>
        /\ Goes(a, "take") \/ Goes(a, "consume")
        /\ \/ UNCHANGED member
           \/ /\ member[op[a].org][user].status \notin {"pending", "active"}
              /\ member' = [member EXCEPT ![op[a].org][user] = [status |-> "active", role |-> op[a].role]]
    BY <1>3 DEF Enrol
  <2>2. op[a].org \in Orgs /\ member[op[a].org][user].status \in Statuses
    <3>1. op[a].org \in Orgs
      BY <1>0 DEF OpType
    <3>2. member[op[a].org][user] \in MembershipType
      BY <3>1 DEF MemberTypes
    <3> QED
      BY <3>1, <3>2 DEF MembershipType
  <2>3. PICK next \in OpType : Becomes(a, next) /\ Same(a, next) /\ next.pc \in {"take", "consume"}
    BY <2>1, Going
  <2>4. Enrolled(a, next)
    BY <2>1, <2>2, <2>3 DEF Enrolled, Is, Statuses
  <2> QED
    BY <2>1, <2>3, <2>4 DEF MemberShape, Shape
<1>4. ASSUME Take(a)
      PROVE  MemberShape
  <2>1. UNCHANGED memberScene /\ (Took(a, IdleOp) \/ Ended(a, IdleOp))
    BY <1>4, ZenonT(60) DEF Take, Took, Ended, Stands, SamePeople, Is
  <2> QED
    BY <1>4, <2>1, Ending, ZenonT(60) DEF MemberShape, Shape, Take
<1>5. ASSUME Consume(a)
      PROVE  MemberShape
  <2>1. UNCHANGED memberScene /\ (Consumed(a, IdleOp) \/ Ended(a, IdleOp))
    BY <1>5, ZenonT(60) DEF Consume, Consumed, Ended, Stands, SamePeople, Is
  <2> QED
    BY <1>5, <2>1, Ending, ZenonT(60) DEF MemberShape, Shape, Consume
<1> QED
  BY <1>1, <1>2, <1>3, <1>4, <1>5

LEMMA RolesShape ==
    ASSUME MemberTypes, OpsGo, NEW a \in Actors,
           AskLastAdmin(a) \/ SetRole(a) \/ ClearRemoved(a) \/ Drop(a) \/ Throws(a)
    PROVE  MemberShape
<1>0. op[a] \in OpType
  BY DEF MemberTypes
<1>1. ASSUME AskLastAdmin(a)
      PROVE  MemberShape
  <2>1. /\ Is(a, "admins") /\ UNCHANGED <<memberScene, member, invited, record, calls>>
        /\ \/ Ends(a)
           \/ /\ op[a].kind = "role" /\ "false" \in IsLastAdmin(op[a].org, op[a].who) /\ Goes(a, "set")
           \/ /\ op[a].kind # "role" /\ \E last \in IsLastAdmin(op[a].org, op[a].who) : last # "true"
              /\ Goes(a, "clearing")
    BY <1>1 DEF AskLastAdmin
  <2>2. CASE Ends(a)
    BY <2>1, <2>2, Ending DEF MemberShape, Shape, Ended, SamePeople
  <2>3. ASSUME op[a].kind = "role", "false" \in IsLastAdmin(op[a].org, op[a].who), Goes(a, "set")
        PROVE  MemberShape
    <3>1. PICK next \in OpType : Becomes(a, next) /\ Same(a, next) /\ next.pc = "set"
      BY <2>3, Going
    <3>2. Decided(a, next)
      BY <2>1, <2>3, <3>1 DEF Decided, Is, SamePeople
    <3> QED
      BY <2>1, <3>1, <3>2 DEF MemberShape, Shape
  <2>4. ASSUME op[a].kind # "role", \E last \in IsLastAdmin(op[a].org, op[a].who) : last # "true",
               Goes(a, "clearing")
        PROVE  MemberShape
    <3>1. PICK next \in OpType : Becomes(a, next) /\ Same(a, next) /\ next.pc = "clearing"
      BY <2>4, Going
    <3>2. Decided(a, next)
      BY <2>1, <2>4, <3>1 DEF Decided, Is, SamePeople
    <3> QED
      BY <2>1, <3>1, <3>2 DEF MemberShape, Shape
  <2> QED
    BY <2>1, <2>2, <2>3, <2>4
<1>2. ASSUME SetRole(a)
      PROVE  MemberShape
  <2>1. UNCHANGED memberScene /\ (Ruled(a, IdleOp) \/ Ended(a, IdleOp))
    BY <1>2 DEF SetRole, Ruled, Ended, SamePeople, Is
  <2> QED
    BY <1>2, <2>1, Ending DEF MemberShape, Shape, SetRole
<1>3. ASSUME ClearRemoved(a)
      PROVE  MemberShape
  <2>1. (op[a].who \in People /\ op[a].kind = "remove") \/ ~Is(a, "clearing")
    BY <1>3 DEF ClearRemoved, OpsGo
  <2>2. ASSUME Is(a, "clearing"), ReadToClear(a, op[a].who, "drop")
        PROVE  MemberShape
    <3> DEFINE kept == [op[a] EXCEPT !.who = op[a].who, !.mine = record[op[a].who], !.pc = "clear"]
               past == [op[a] EXCEPT !.who = op[a].who, !.pc = "drop"]
    <3>1. op[a].who \in People /\ op[a].kind = "remove"
      BY <1>3, <2>1, <2>2 DEF ClearRemoved
    <3>2. record[op[a].who] \in [Orgs -> SeatRecords]
      BY <3>1 DEF MemberTypes
    <3>3. kept \in OpType /\ Same(a, kept) /\ kept.pc = "clear" /\ kept.mine = record[op[a].who]
      BY <1>0, <3>2 DEF OpType, Same
    <3>4. past \in OpType /\ Same(a, past) /\ past.pc = "drop"
      BY <1>0 DEF OpType, Same
    <3>5. \/ Becomes(a, kept)
          \/ Becomes(a, past) /\ (record[op[a].who][op[a].org] = "none" \/ Rejects("memberRead"))
      BY <2>2 DEF ReadToClear, Becomes
    <3>6. UNCHANGED <<memberScene, member, invited, record, calls>>
      BY <2>2 DEF ReadToClear
    <3> HIDE DEF kept, past
    <3>7. CASE Becomes(a, kept)
      <4>1. Reread(a, kept)
        BY <2>2, <3>1, <3>3, <3>6 DEF Reread, Is, SamePeople
      <4> QED
        BY <3>3, <3>6, <3>7, <4>1 DEF MemberShape, Shape
    <3>8. CASE Becomes(a, past) /\ (record[op[a].who][op[a].org] = "none" \/ Rejects("memberRead"))
      <4>1. Reread(a, past)
        BY <2>2, <3>1, <3>4, <3>6, <3>8 DEF Reread, Is, SamePeople
      <4> QED
        BY <3>4, <3>6, <3>8, <4>1 DEF MemberShape, Shape
    <3> QED
      BY <3>5, <3>7, <3>8
  <2>3. ASSUME WriteCleared(a, "drop")
        PROVE  MemberShape
    <3>1. PICK next \in OpType : Becomes(a, next) /\ Same(a, next) /\ next.pc = "drop"
      BY <2>3, Going DEF WriteCleared
    <3>2. op[a].pc = "clear" /\ op[a].kind = "remove"
      BY <1>3, <2>3, <1>0 DEF WriteCleared, Is, OpsGo, StepsOf, OpType, Kinds
    <3>3. Wrote(a, next)
      BY <2>3, <3>1, <3>2 DEF WriteCleared, Wrote
    <3> QED
      BY <2>3, <3>1, <3>3 DEF MemberShape, Shape, WriteCleared
  <2> QED
    BY <1>3, <2>2, <2>3 DEF ClearRemoved
<1>4. ASSUME Drop(a)
      PROVE  MemberShape
  <2>1. UNCHANGED memberScene /\ (Ruled(a, IdleOp) \/ Ended(a, IdleOp))
    BY <1>4 DEF Drop, Ruled, Ended, SamePeople, Is
  <2> QED
    BY <1>4, <2>1, Ending DEF MemberShape, Shape, Drop
<1>5. ASSUME Throws(a)
      PROVE  MemberShape
  BY <1>5, Ending DEF Throws, MemberShape, Shape, Ended, SamePeople
<1> QED
  BY <1>1, <1>2, <1>3, <1>4, <1>5

LEMMA MemberShapes == MemberTypes /\ OpsGo /\ MemberNext => MemberShape
BY BeginAll, SeatsShape, InvitesShape, RolesShape DEF MemberNext

\* What the place of an operation tells of its kind.
LEMMA KindOf ==
    ASSUME MemberTypes, OpsGo, NEW a \in Actors
    PROVE  /\ op[a] \in OpType /\ op[a].org \in Orgs
           /\ op[a].pc = "idle" <=> op[a].kind = "none"
           /\ op[a].pc # "idle" => op[a].who \in People
           /\ op[a].pc = "naming" => op[a].kind = "assign"
           /\ op[a].pc \in {"room", "own", "assign"} => op[a].kind \in {"assign", "invite"}
           /\ op[a].pc \in {"places", "send"} => op[a].kind = "invite"
           /\ op[a].pc \in {"enrol", "take"} => op[a].kind = "accept"
           /\ op[a].pc = "consume" => op[a].kind \in {"accept", "revoke"}
           /\ op[a].pc = "admins" => op[a].kind \in {"role", "remove"}
           /\ op[a].pc = "set" => op[a].kind = "role"
           /\ op[a].pc \in {"clearing", "clear", "drop"} => op[a].kind = "remove"
<1>1. op[a] \in OpType
  BY DEF MemberTypes
<1>2. op[a].kind \in Kinds \cup {"none"} /\ op[a].org \in Orgs
  BY <1>1 DEF OpType
<1>3. op[a].pc \in StepsOf(op[a].kind) /\ (op[a].kind # "none" => op[a].who \in People)
  BY DEF OpsGo
<1> HIDE DEF OpsGo
<1> QED
  BY <1>1, <1>2, <1>3 DEF StepsOf, Kinds

LEMMA Replaced ==
    ASSUME MemberTypes, NEW a \in Actors, NEW next \in OpType, Becomes(a, next)
    PROVE  /\ op' \in [Actors -> OpType] /\ op'[a] = next
           /\ \A b \in Actors : b # a => op'[b] = op[b]
BY DEF MemberTypes, Becomes

LEMMA OpsGoStays ==
    ASSUME MemberTypes, OpsGo, NEW a \in Actors, NEW next \in OpType, Becomes(a, next), Shape(a, next)
    PROVE  OpsGo'
<1>1. next.pc \in StepsOf(next.kind) /\ (next.kind # "none" => next.who \in People)
  <2> USE KindOf
  <2>1. CASE Begun(a, next)
    BY <2>1 DEF Begun
  <2>2. CASE next = IdleOp
    BY <2>2, IdleOpIsOne DEF StepsOf
  <2>3. CASE Found(a, next)
    BY <2>3 DEF Found, Same, StepsOf
  <2>4. CASE Counted(a, next)
    BY <2>4 DEF Counted, Same, StepsOf
  <2>5. CASE Decided(a, next)
    BY <2>5 DEF Decided, Same, StepsOf
  <2>6. CASE Reread(a, next)
    BY <2>6 DEF Reread, Same, StepsOf
  <2>7. CASE Wrote(a, next)
    BY <2>2, <2>7 DEF Wrote, Same, StepsOf
  <2>8. CASE Sent(a, next)
    BY <2>2, <2>8 DEF Sent, Same, StepsOf
  <2>9. CASE Enrolled(a, next)
    BY <2>9 DEF Enrolled, Same, StepsOf
  <2> QED
    BY <2>1, <2>2, <2>3, <2>4, <2>5, <2>6, <2>7, <2>8, <2>9, ZenonT(60) DEF Shape, Ended, Took, Consumed, Ruled
<1> QED
  BY <1>1, Replaced, SMTT(60) DEF OpsGo

LEMMA MemberTypesStay ==
    ASSUME MemberTypes, OpsGo, NEW a \in Actors, NEW next \in OpType, Becomes(a, next), Shape(a, next),
           memberScene' = memberScene
    PROVE  MemberTypes'
<1>1. op' \in [Actors -> OpType]
  BY Replaced
<1>2. op[a].org \in Orgs /\ op[a].role \in Roles /\ op[a].seat \in SeatNames \cup {""}
      /\ op[a].mine \in [Orgs -> SeatRecords]
  BY KindOf DEF OpType
<1>3. /\ \A o \in Orgs, p \in People : member[o][p] \in MembershipType /\ invited[o][p] \in InvitationType
      /\ member \in [Orgs -> [People -> MembershipType]] /\ invited \in [Orgs -> [People -> InvitationType]]
      /\ record \in [People -> [Orgs -> SeatRecords]] /\ calls \in Nat
  BY DEF MemberTypes
<1>4. ASSUME NEW o \in Orgs, NEW p \in People, NEW m \in MembershipType,
             member' = [member EXCEPT ![o][p] = m]
      PROVE  member' \in [Orgs -> [People -> MembershipType]]
  BY <1>3, <1>4
<1>5. ASSUME NEW o \in Orgs, NEW p \in People, NEW i \in InvitationType,
             invited' = [invited EXCEPT ![o][p] = i]
      PROVE  invited' \in [Orgs -> [People -> InvitationType]]
  BY <1>3, <1>5
<1>6. ASSUME NEW p \in People, NEW r \in [Orgs -> SeatRecords], record' = [record EXCEPT ![p] = r]
      PROVE  record' \in [People -> [Orgs -> SeatRecords]]
  BY <1>3, <1>6
<1>7. \A role \in Roles, status \in Statuses : [status |-> status, role |-> role] \in MembershipType
  BY DEF MembershipType
<1>8. CASE SamePeople /\ calls' \in Nat
  BY <1>1, <1>3, <1>8 DEF MemberTypes, SamePeople
<1>9. CASE Wrote(a, next)
  <2> DEFINE written == [op[a].mine EXCEPT ![op[a].org] = IF op[a].pc = "assign" THEN op[a].seat ELSE "none"]
  <2>1. written \in [Orgs -> SeatRecords]
    BY <1>2 DEF SeatRecords
  <2>2. op[a].who \in People
    BY <1>9, KindOf DEF Wrote
  <2>3. record' = [record EXCEPT ![op[a].who] = written]
    BY <1>9 DEF Wrote
  <2> HIDE DEF written
  <2>4. record' \in [People -> [Orgs -> SeatRecords]]
    BY <1>6, <2>1, <2>2, <2>3
  <2> QED
    BY <1>1, <1>3, <1>9, <2>4 DEF Wrote, MemberTypes
<1>10. CASE Sent(a, next)
  <2> DEFINE i == [state |-> "pending", role |-> op[a].role, n |-> invited[op[a].org][op[a].who].n + 1]
  <2>1. op[a].who \in People
    BY <1>10, KindOf DEF Sent
  <2>2. i \in InvitationType
    <3>1. invited[op[a].org][op[a].who] \in InvitationType
      BY <1>2, <1>3, <2>1
    <3>2. invited[op[a].org][op[a].who].n \in Nat
      BY <3>1 DEF InvitationType
    <3>3. \A n \in Nat : n + 1 \in Nat
      OBVIOUS
    <3> QED
      BY <1>2, <3>2, <3>3 DEF InvitationType
  <2>3. invited' = [invited EXCEPT ![op[a].org][op[a].who] = i]
    BY <1>10 DEF Sent
  <2> HIDE DEF i
  <2>4. invited' \in [Orgs -> [People -> InvitationType]]
    BY <1>2, <1>5, <2>1, <2>2, <2>3
  <2>5. member' \in [Orgs -> [People -> MembershipType]]
    BY <1>2, <1>4, <1>7, <1>10, <2>1 DEF Sent, Statuses
  <2> QED
    BY <1>1, <1>3, <1>10, <2>4, <2>5 DEF Sent, MemberTypes
<1>11. CASE Enrolled(a, next)
  <2>1. member' \in [Orgs -> [People -> MembershipType]]
    <3>1. CASE UNCHANGED member
      BY <1>3, <3>1
    <3>2. ASSUME NEW user \in People,
                 member' = [member EXCEPT ![op[a].org][user] = [status |-> "active", role |-> op[a].role]]
          PROVE  member' \in [Orgs -> [People -> MembershipType]]
      <4>1. [status |-> "active", role |-> op[a].role] \in MembershipType
        BY <1>2, <1>7, ZenonT(60) DEF Statuses
      <4> QED
        BY <1>2, <1>4, <3>2, <4>1
    <3> QED
      BY <1>11, <3>1, <3>2 DEF Enrolled
  <2> QED
    BY <1>1, <1>3, <1>11, <2>1 DEF Enrolled, MemberTypes
<1>12. ASSUME Took(a, next) \/ Consumed(a, next)
       PROVE  MemberTypes'
  <2> DEFINE old == invited[op[a].org][op[a].who]
             state == IF op[a].pc = "take" THEN "accepted" ELSE "revoked"
             m == member[op[a].org][op[a].who]
  <2>1. op[a].who \in People
    BY <1>12, KindOf, ZenonT(60) DEF Took, Consumed
  <2>2. old \in InvitationType /\ m \in MembershipType
    BY <1>2, <1>3, <2>1
  <2>3. [old EXCEPT !.state = state] \in InvitationType
    BY <2>2, SMTT(60) DEF InvitationType
  <2>4. invited' = [invited EXCEPT ![op[a].org][op[a].who] = [old EXCEPT !.state = state]]
    BY <1>12, ZenonT(60) DEF Took, Consumed
  <2>5. [m EXCEPT !.status = "none"] \in MembershipType
    BY <2>2, SMTT(60) DEF MembershipType, Statuses
  <2>6. \/ UNCHANGED member
        \/ member' = [member EXCEPT ![op[a].org][op[a].who] = [status |-> "active", role |-> op[a].role]]
        \/ member' = [member EXCEPT ![op[a].org][op[a].who] = [m EXCEPT !.status = "none"]]
    BY <1>12, ZenonT(60) DEF Took, Consumed
  <2>7. invited' \in [Orgs -> [People -> InvitationType]]
    BY <1>2, <1>5, <2>1, <2>3, <2>4, ZenonT(60)
  <2>8. member' \in [Orgs -> [People -> MembershipType]]
    BY <1>2, <1>3, <1>4, <1>7, <2>1, <2>5, <2>6 DEF Statuses
  <2> QED
    BY <1>1, <1>3, <1>12, <2>7, <2>8, SMTT(60) DEF Took, Consumed, MemberTypes
<1>13. CASE Ruled(a, next)
  <2> DEFINE m == member[op[a].org][op[a].who]
  <2>1. op[a].who \in People /\ m \in MembershipType
    BY <1>2, <1>3, <1>13, ZenonT(60) DEF Ruled, Active
  <2>2. [m EXCEPT !.status = "none"] \in MembershipType /\ [m EXCEPT !.role = op[a].role] \in MembershipType
    BY <1>2, <2>1, ZenonT(60) DEF MembershipType, Statuses
  <2>3. \/ member' = [member EXCEPT ![op[a].org][op[a].who] = [m EXCEPT !.status = "none"]]
        \/ member' = [member EXCEPT ![op[a].org][op[a].who] = [m EXCEPT !.role = op[a].role]]
    BY <1>13, SMTT(60) DEF Ruled
  <2>4. member' \in [Orgs -> [People -> MembershipType]]
    BY <1>2, <1>4, <2>1, <2>2, <2>3, ZenonT(60)
  <2> QED
    BY <1>1, <1>3, <1>13, <2>4, SMTT(60) DEF Ruled, MemberTypes
<1>14. CASE Begun(a, next)
  <2>1. SamePeople /\ calls' = calls + 1
    BY <1>14 DEF Begun
  <2> QED
    BY <1>3, <1>8, <2>1
<1>15. CASE Ended(a, next) \/ Found(a, next) \/ Counted(a, next) \/ Decided(a, next) \/ Reread(a, next)
  <2>1. SamePeople /\ calls' = calls
    BY <1>15 DEF Ended, Found, Counted, Decided, Reread
  <2> QED
    BY <1>3, <1>8, <2>1
<1> QED
  BY <1>9, <1>10, <1>11, <1>12, <1>13, <1>14, <1>15 DEF Shape

-----------------------------------------------------------------------------
(* Who may administer. *)

\* Who is in and who administers, after one membership has changed.
LEMMA OneMembership ==
    ASSUME MemberTypes, NEW o \in Orgs, NEW p \in People, NEW m, member' = [member EXCEPT ![o][p] = m]
    PROVE  /\ member'[o][p] = m
           /\ \A r \in Orgs, q \in People : r # o \/ q # p => member'[r][q] = member[r][q]
BY DEF MemberTypes

LEMMA OneInvitation ==
    ASSUME MemberTypes, NEW o \in Orgs, NEW p \in People, NEW i, invited' = [invited EXCEPT ![o][p] = i]
    PROVE  /\ invited'[o][p] = i
           /\ \A r \in Orgs, q \in People : r # o \/ q # p => invited'[r][q] = invited[r][q]
BY DEF MemberTypes

\* How memberships and invitations change: of one person, in one workspace. Only a
\* new role and a removal change the membership of somebody who is in.
JoinedOrLeft(o, p) ==
    /\ \A r \in Orgs, q \in People : r # o \/ q # p =>
          member'[r][q] = member[r][q] /\ invited'[r][q] = invited[r][q]
    /\ invited'[o][p].state = "pending" => member'[o][p].status = "pending"
    /\ member[o][p].status = "active" => member'[o][p] = member[o][p]
RuledOver(a, o, p) ==
    /\ p \in Active(o) /\ UNCHANGED invited
    /\ \A r \in Orgs, q \in People : r # o \/ q # p => member'[r][q] = member[r][q]
    /\ \/ op[a].pc = "set" /\ member'[o][p].role = op[a].role /\ member'[o][p].status = "active"
       \/ op[a].pc = "drop" /\ member'[o][p].status = "none"
PeopleMove(a, next) ==
    \/ UNCHANGED <<member, invited>>
    \/ \E p \in People : JoinedOrLeft(op[a].org, p)
    \/ next = IdleOp /\ RuledOver(a, op[a].org, op[a].who)

LEMMA PeopleMoves ==
    ASSUME MemberTypes, OpsGo, InvitedAreOut,
           NEW a \in Actors, NEW next \in OpType, Becomes(a, next), Shape(a, next)
    PROVE  PeopleMove(a, next)
<1> DEFINE o == op[a].org
           p == op[a].who
<1>0. /\ o \in Orgs /\ (op[a].pc \in {"send", "enrol", "take", "consume"} => p \in People)
      /\ \A q \in People : /\ member[o][q] \in MembershipType /\ invited[o][q] \in InvitationType
                           /\ invited[o][q].state = "pending" => member[o][q].status = "pending"
  BY KindOf DEF MemberTypes, InvitedAreOut
<1>1. CASE SamePeople
  BY <1>1 DEF SamePeople, PeopleMove
<1>2. CASE Wrote(a, next)
  BY <1>2 DEF Wrote, PeopleMove
<1>3. ASSUME Sent(a, next)
      PROVE  PeopleMove(a, next)
  <2> DEFINE m == [status |-> "pending", role |-> op[a].role]
             i == [state |-> "pending", role |-> op[a].role, n |-> invited[o][p].n + 1]
  <2>1. p \in People /\ member[o][p].status = "none"
    BY <1>0, <1>3 DEF Sent
  <2>2. member' = [member EXCEPT ![o][p] = m] /\ invited' = [invited EXCEPT ![o][p] = i]
    BY <1>3 DEF Sent
  <2>3. m.status = "pending"
    OBVIOUS
  <2> HIDE DEF m, i, o, p
  <2>4. JoinedOrLeft(o, p)
    <3>0. o \in Orgs /\ p \in People
      BY <1>0, <2>1
    <3>1. invited'[o][p] = i /\ \A r \in Orgs, q \in People : r # o \/ q # p => invited'[r][q] = invited[r][q]
      <4>1. invited' = [invited EXCEPT ![o][p] = i]
        BY <2>2
      <4> QED
        BY <3>0, <4>1 DEF MemberTypes
    <3>2. /\ member'[o][p] = m
          /\ \A r \in Orgs, q \in People : r # o \/ q # p => member'[r][q] = member[r][q]
      <4>1. member' = [member EXCEPT ![o][p] = m]
        BY <2>2
      <4> QED
        BY <3>0, <4>1 DEF MemberTypes
    <3> QED
      BY <1>0, <2>1, <2>3, <3>1, <3>2 DEF JoinedOrLeft
  <2> QED
    BY <2>1, <2>4 DEF PeopleMove, o, p
<1>4. ASSUME Enrolled(a, next), ~UNCHANGED member
      PROVE  PeopleMove(a, next)
  <2> DEFINE m == [status |-> "active", role |-> op[a].role]
  <2>1. PICK q \in People : member[o][q].status = "none" /\ member' = [member EXCEPT ![o][q] = m]
    BY <1>4 DEF Enrolled
  <2>2. UNCHANGED invited
    BY <1>4 DEF Enrolled
  <2> HIDE DEF m, o, p
  <2>3. JoinedOrLeft(o, q)
    BY <1>0, <2>1, <2>2, OneMembership DEF JoinedOrLeft
  <2> QED
    BY <2>3 DEF PeopleMove, o
<1>5. ASSUME Took(a, next)
      PROVE  PeopleMove(a, next)
  <2> DEFINE m == [status |-> "active", role |-> op[a].role]
             i == [invited[o][p] EXCEPT !.state = "accepted"]
  <2>1. p \in People /\ invited[o][p].state = "pending"
    BY <1>0, <1>5 DEF Took
  <2>2. member' = [member EXCEPT ![o][p] = m] /\ invited' = [invited EXCEPT ![o][p] = i]
    BY <1>5 DEF Took
  <2>3. i.state = "accepted"
    BY <1>0, <2>1 DEF InvitationType
  <2> HIDE DEF m, i, o, p
  <2>4. JoinedOrLeft(o, p)
    <3>0. o \in Orgs /\ p \in People
      BY <1>0, <2>1, SMTT(60)
    <3>1. invited'[o][p] = i /\ \A r \in Orgs, q \in People : r # o \/ q # p => invited'[r][q] = invited[r][q]
      <4>1. invited' = [invited EXCEPT ![o][p] = i]
        BY <2>2
      <4> QED
        BY <3>0, <4>1 DEF MemberTypes
    <3>2. /\ member'[o][p] = m
          /\ \A r \in Orgs, q \in People : r # o \/ q # p => member'[r][q] = member[r][q]
      <4>1. member' = [member EXCEPT ![o][p] = m]
        BY <2>2
      <4> QED
        BY <3>0, <4>1 DEF MemberTypes
    <3> QED
      BY <1>0, <2>1, <2>3, <3>1, <3>2 DEF JoinedOrLeft
  <2> QED
    BY <2>1, <2>4 DEF PeopleMove, o, p
<1>6. ASSUME Consumed(a, next)
      PROVE  PeopleMove(a, next)
  <2> DEFINE m == [member[o][p] EXCEPT !.status = "none"]
             i == [invited[o][p] EXCEPT !.state = "revoked"]
  <2>1. p \in People /\ invited[o][p].state = "pending"
    BY <1>0, <1>6, SMTT(60) DEF Consumed
  <2>2. /\ invited' = [invited EXCEPT ![o][p] = i]
        /\ UNCHANGED member \/ member' = [member EXCEPT ![o][p] = m]
    BY <1>6 DEF Consumed
  <2>3. i.state = "revoked"
    BY <1>0, <2>1 DEF InvitationType
  <2> HIDE DEF m, i, o, p
  <2>4. JoinedOrLeft(o, p)
    <3>0. o \in Orgs /\ p \in People
      BY <1>0, <2>1, SMTT(60)
    <3>1. invited'[o][p] = i /\ \A r \in Orgs, q \in People : r # o \/ q # p => invited'[r][q] = invited[r][q]
      <4>1. invited' = [invited EXCEPT ![o][p] = i]
        BY <2>2
      <4> QED
        BY <3>0, <4>1 DEF MemberTypes
    <3>2. /\ invited'[o][p].state # "pending" /\ (member[o][p].status = "active" => member'[o][p] = member[o][p])
          /\ \A r \in Orgs, q \in People : r # o \/ q # p => member'[r][q] = member[r][q]
      BY <1>0, <2>1, <2>2, <2>3, <3>1, OneMembership, SMTT(60)
    <3> QED
      BY <1>0, <2>1, <2>3, <3>1, <3>2 DEF JoinedOrLeft
  <2> QED
    BY <2>1, <2>4 DEF PeopleMove, o, p
<1>7. ASSUME Ruled(a, next)
      PROVE  PeopleMove(a, next)
  <2> DEFINE gone == [member[o][p] EXCEPT !.status = "none"]
             set == [member[o][p] EXCEPT !.role = op[a].role]
  <2>1. p \in People /\ p \in Active(o) /\ member[o][p].status = "active"
    BY <1>7 DEF Ruled, Active
  <2>2. gone.status = "none" /\ set.role = op[a].role /\ set.status = "active"
    BY <1>0, <2>1, SMTT(60) DEF MembershipType
  <2>3. /\ UNCHANGED invited /\ next = IdleOp
        /\ \/ op[a].pc = "set" /\ member' = [member EXCEPT ![o][p] = set]
           \/ op[a].pc = "drop" /\ member' = [member EXCEPT ![o][p] = gone]
    BY <1>7 DEF Ruled
  <2> HIDE DEF gone, set, o, p
  <2>4. RuledOver(a, o, p)
    BY <1>0, <2>1, <2>2, <2>3, OneMembership, SMTT(60) DEF RuledOver
  <2> QED
    BY <2>3, <2>4 DEF PeopleMove, o, p
<1>8. CASE Enrolled(a, next) /\ UNCHANGED member
  BY <1>8 DEF Enrolled, PeopleMove
<1> QED
  BY <1>1, <1>2, <1>3, <1>4, <1>5, <1>6, <1>7, <1>8 DEF Shape, Begun, Ended, Found, Counted, Decided, Reread

LEMMA InvitedStayOut ==
    ASSUME MemberTypes, InvitedAreOut, NEW a \in Actors, NEW next \in OpType, PeopleMove(a, next),
           op[a].org \in Orgs
    PROVE  InvitedAreOut'
<1>1. CASE UNCHANGED <<member, invited>>
  BY <1>1 DEF InvitedAreOut
<1>2. ASSUME NEW p \in People, JoinedOrLeft(op[a].org, p)
      PROVE  InvitedAreOut'
  BY <1>2 DEF InvitedAreOut, JoinedOrLeft
<1>3. ASSUME RuledOver(a, op[a].org, op[a].who)
      PROVE  InvitedAreOut'
  BY <1>3, SMTT(60) DEF InvitedAreOut, RuledOver, Active
<1> QED
  BY <1>1, <1>2, <1>3 DEF PeopleMove

\* An operation that takes a lock has it to itself.
LEMMA OneDecidesStays ==
    ASSUME MemberTypes, OpsGo, OneDecides, NEW a \in Actors, NEW next \in OpType,
           Becomes(a, next), Shape(a, next), memberScene' = memberScene
    PROVE  OneDecides'
<1> USE DEF OneDecides
<1>1. CASE Begun(a, next)
  <2> SUFFICES ASSUME "admins" \in memberScene.serial, NEW b \in Actors, b # a,
                      op[b].kind \in {"role", "remove"}, next.kind \in {"role", "remove"}
               PROVE  FALSE
    BY Replaced
  <2>1. "admins" \in LocksOf(op[b].kind) /\ "admins" \in LocksOf(next.kind)
    BY DEF LocksOf
  <2> QED
    BY <1>1, <2>1 DEF Begun
<1>2. CASE next.kind = op[a].kind \/ next.kind = "none"
  BY <1>2, Replaced
<1> QED
  BY <1>1, <1>2, IdleOpIsOne, ZenonT(60) DEF Shape, Same, Ended, Found, Counted, Decided, Reread, Wrote, Sent, Enrolled,
     Took, Consumed, Ruled

\* Administrators go only where one is demoted or removed, or the workspace ends.
LEMMA AdminsStay ==
    ASSUME MemberTypes, NEW a \in Actors, NEW next \in OpType, PeopleMove(a, next),
           NEW o \in Orgs, NEW q \in Admins(o),
           next = IdleOp /\ o = op[a].org /\ q = op[a].who => ~Leaving(a)
    PROVE  q \in Admins(o)'
<1>1. q \in People /\ member[o][q].status = "active" /\ member[o][q].role = "admin"
  BY DEF Admins, Active
<1>2. member'[o][q].status = "active" /\ member'[o][q].role = "admin"
  <2>1. CASE UNCHANGED <<member, invited>>
    BY <1>1, <2>1
  <2>2. ASSUME NEW p \in People, JoinedOrLeft(op[a].org, p)
        PROVE  member'[o][q] = member[o][q]
    BY <1>1, <2>2 DEF JoinedOrLeft
  <2>3. ASSUME next = IdleOp, RuledOver(a, op[a].org, op[a].who)
        PROVE  member'[o][q].status = "active" /\ member'[o][q].role = "admin"
    <3>1. CASE o = op[a].org /\ q = op[a].who
      <4>1. op[a].role \in Roles
        BY DEF MemberTypes, OpType
      <4> QED
        BY <2>3, <3>1, <4>1 DEF RuledOver, Leaving, Roles
    <3>2. CASE ~(o = op[a].org /\ q = op[a].who)
      BY <1>1, <2>3, <3>2 DEF RuledOver
    <3> QED
      BY <3>1, <3>2
  <2> QED
    BY <1>1, <2>1, <2>2, <2>3 DEF PeopleMove
<1> QED
  BY <1>1, <1>2 DEF Admins, Active

\* The question asked last leaves another administrator, or the operation ends.
LEMMA AskedLast ==
    ASSUME MemberTypes, NEW o \in Orgs, NEW p \in People, Admins(o) # {}, ~Rejects("roles"),
           \E last \in IsLastAdmin(o, p) : last # "true"
    PROVE  \E q \in Admins(o) : q # p
BY DEF IsLastAdmin, Admins

LEMMA AdminsRemain ==
    ASSUME MemberTypes, OpsGo, OneDecides, AdminRemains, AnotherRemains,
           NEW a \in Actors, NEW next \in OpType, Becomes(a, next), Shape(a, next), PeopleMove(a, next),
           memberScene' = memberScene, exists' = exists
    PROVE  AdminRemains' /\ AnotherRemains'
<1> SUFFICES ASSUME "admins" \in memberScene.serial, ~Rejects("roles")
             PROVE  /\ \A o \in Orgs : HasStaff(o) => Admins(o)' # {}
                    /\ \A b \in Actors : Leaving(b)' /\ HasStaff(op'[b].org) =>
                          \E q \in Admins(op[b].org)' : q # op'[b].who
  BY DEF AdminRemains, AnotherRemains, HasStaff, Rejects
<1>1. \A b \in Actors : Leaving(b) => op[b].kind \in {"role", "remove"}
  BY KindOf DEF Leaving
<1>2. \A b \in Actors : Leaving(b) /\ HasStaff(op[b].org) => \E q \in Admins(op[b].org) : q # op[b].who
  BY DEF AnotherRemains
<1>3. ASSUME NEW o \in Orgs, HasStaff(o)
      PROVE  Admins(o)' # {}
  <2>1. Admins(o) # {}
    BY <1>3 DEF AdminRemains, HasStaff
  <2>2. CASE o = op[a].org /\ Leaving(a)
    <3>1. PICK q \in Admins(o) : q # op[a].who
      BY <1>2, <1>3, <2>2
    <3> QED
      BY <3>1, AdminsStay
  <2>3. CASE ~(o = op[a].org /\ Leaving(a))
    BY <2>1, <2>3, AdminsStay
  <2> QED
    BY <2>2, <2>3
<1>4. ASSUME NEW b \in Actors, Leaving(b)', HasStaff(op'[b].org)
      PROVE  \E q \in Admins(op[b].org)' : q # op'[b].who
  <2>1. CASE b # a
    <3>1. op'[b] = op[b] /\ op[b].org \in Orgs
      BY <2>1, Replaced, KindOf
    <3>2. Leaving(b)
      BY <1>4, <3>1 DEF Leaving
    <3>3. PICK q \in Admins(op[b].org) : q # op[b].who
      BY <1>2, <1>4, <3>1, <3>2
    <3>4. ~Leaving(a)
      BY <1>1, <2>1, <3>2 DEF OneDecides
    <3>5. q \in Admins(op[b].org)'
      <4>1. PICK o \in Orgs : o = op[b].org
        BY <3>1
      <4>2. q \in Admins(o)
        BY <3>3, <4>1
      <4>3. q \in Admins(o)'
        BY <3>4, <4>1, <4>2, AdminsStay
      <4> QED
        BY <3>1, <4>1, <4>3 DEF Admins, Active
    <3> QED
      BY <3>1, <3>3, <3>5
  <2>2. CASE b = a
    <3>1. op'[a] = next
      BY Replaced
    <3>2. (next.pc = "set" /\ next.role = "member") \/ next.pc \in {"clearing", "clear", "drop"}
      BY <1>4, <2>2, <3>1 DEF Leaving
    <3>3. next # IdleOp
      BY <3>2, IdleOpIsOne, ZenonT(60)
    <3>4. Same(a, next) /\ (Decided(a, next) \/ Leaving(a))
      <4>1. CASE Begun(a, next)
        BY <3>2, <4>1 DEF Begun
      <4>2. CASE Reread(a, next)
        BY <4>2 DEF Reread, Leaving
      <4>3. CASE Wrote(a, next)
        BY <3>3, <4>3 DEF Wrote, Leaving
      <4>4. CASE Decided(a, next)
        BY <4>4 DEF Decided
      <4> QED
        BY <3>2, <3>3, <4>1, <4>2, <4>3, <4>4, ZenonT(60)
           DEF Shape, Ended, Found, Counted, Sent, Enrolled, Took, Consumed, Ruled
    <3>a. PICK o \in Orgs : o = op[a].org
      BY KindOf
    <3>b. PICK p \in People : p = op[a].who
      BY <3>4, KindOf DEF Decided, Leaving
    <3>5. HasStaff(o) /\ next.org = o /\ next.who = p
      BY <1>4, <2>2, <3>1, <3>4, <3>a, <3>b DEF Same
    <3>7. \E q \in Admins(o) : q # p
      <4>1. CASE Leaving(a)
        BY <1>2, <3>5, <3>a, <3>b, <4>1
      <4>2. CASE Decided(a, next)
        <5>1. Admins(o) # {}
          BY <3>5 DEF AdminRemains, HasStaff
        <5>2. \E last \in IsLastAdmin(o, p) : last # "true"
          BY <3>a, <3>b, <4>2 DEF Decided, IsLastAdmin
        <5> QED
          BY <5>1, <5>2, AskedLast
      <4> QED
        BY <3>4, <4>1, <4>2
    <3>8. PICK q \in Admins(o) : q # p
      BY <3>7
    <3>9. q \in Admins(o)'
      BY <3>3, <3>8, AdminsStay
    <3>10. q \in Admins(op[b].org)'
      BY <2>2, <3>1, <3>5, <3>9 DEF Admins, Active
    <3> QED
      BY <2>2, <3>1, <3>5, <3>8, <3>10
  <2> QED
    BY <2>1, <2>2
<1> QED
  BY <1>3, <1>4

-----------------------------------------------------------------------------
(* What people carry. *)

Writing(a) == op[a].kind \in {"assign", "remove"}

\* The record an operation writes, as it will be.
LEMMA WrittenRecord ==
    ASSUME MemberTypes, OpsGo, OneWrites, WritersKnow,
           NEW a \in Actors, NEW next \in OpType, Wrote(a, next)
    PROVE  /\ Writing(a) /\ op[a].who \in People /\ op[a].org \in Orgs
           /\ \/ op[a].pc = "assign" /\ op[a].kind = "assign"
              \/ op[a].pc = "clear" /\ record'[op[a].who][op[a].org] = "none"
           /\ \A p \in People, o \in Orgs : p # op[a].who \/ o # op[a].org => record'[p][o] = record[p][o]
<1>1. PICK w \in People : w = op[a].who
  BY KindOf DEF Wrote
<1>2. PICK h \in Orgs : h = op[a].org
  BY KindOf
<1>3. op[a].mine = record[w] /\ record[w] \in [Orgs -> SeatRecords]
  BY <1>1 DEF Wrote, WritersKnow, MemberTypes
<1>4. Writing(a) /\ (op[a].pc = "assign" => op[a].kind = "assign")
  BY KindOf DEF Wrote, WritersKnow, Writing
<1> DEFINE seat == IF op[a].pc = "assign" THEN op[a].seat ELSE "none"
<1>5. record' = [record EXCEPT ![w] = [record[w] EXCEPT ![h] = seat]]
  BY <1>1, <1>2, <1>3 DEF Wrote
<1>6. op[a].pc # "assign" => seat = "none"
  OBVIOUS
<1> HIDE DEF seat
<1>7. record'[w][h] = seat /\ \A p \in People, o \in Orgs : p # w \/ o # h => record'[p][o] = record[p][o]
  BY <1>3, <1>5, SMTT(60) DEF MemberTypes
<1> QED
  BY <1>1, <1>2, <1>4, <1>6, <1>7 DEF Wrote

LEMMA OneWritesStays ==
    ASSUME MemberTypes, OpsGo, OneWrites, "records" \in memberScene.serial,
           NEW a \in Actors, NEW next \in OpType, Becomes(a, next), Shape(a, next),
           UNCHANGED closeVars,
           Begun(a, next) /\ next.kind \in {"assign", "remove"} => \A k \in Closers : Closing(k, "idle")
    PROVE  OneWrites'
<1> USE DEF OneWrites
<1>1. CASE Begun(a, next)
  <2>1. ASSUME NEW b \in Actors, b # a, op[b].kind \in {"assign", "remove"}, next.kind \in {"assign", "remove"}
        PROVE  FALSE
    <3>1. "records" \in LocksOf(op[b].kind) /\ "records" \in LocksOf(next.kind)
      BY <2>1 DEF LocksOf
    <3> QED
      BY <1>1, <3>1 DEF Begun
  <2>2. \A b \in Actors, k \in Closers : op'[b].kind \in {"assign", "remove"} => Closing(k, "idle")
    BY <1>1, Replaced
  <2> QED
    BY <2>1, <2>2, Replaced DEF Closing, closeVars
<1>2. CASE next.kind = op[a].kind \/ next.kind = "none"
  BY <1>2, Replaced DEF Closing, closeVars
<1> QED
  BY <1>1, <1>2, IdleOpIsOne, ZenonT(60) DEF Shape, Same, Ended, Found, Counted, Decided, Reread, Wrote, Sent, Enrolled,
     Took, Consumed, Ruled

LEMMA OutStayOut ==
    ASSUME MemberTypes, OpsGo, OneWrites, OutCarryNothing, WritersKnow,
           NEW a \in Actors, NEW next \in OpType, Becomes(a, next), Shape(a, next), PeopleMove(a, next)
    PROVE  OutCarryNothing'
<1> SUFFICES ASSUME NEW o \in Orgs, NEW p \in People, member'[o][p].status # "active"
             PROVE  record'[p][o] = "none"
  BY DEF OutCarryNothing
<1>1. CASE Wrote(a, next)
  <2>1. member[o][p].status # "active"
    BY <1>1 DEF Wrote
  <2>2. record[p][o] = "none"
    BY <2>1 DEF OutCarryNothing
  <2>3. op[a].kind = "assign" => ~(op[a].org = o /\ op[a].who = p)
    BY <2>1 DEF WritersKnow, Active
  <2> QED
    BY <1>1, <2>2, <2>3, WrittenRecord
<1>2. CASE ~Wrote(a, next)
  <2>1. record' = record
    BY <1>2, ZenonT(60) DEF Shape, Begun, SamePeople, Ended, Found, Counted, Decided, Reread, Sent, Enrolled, Took,
       Consumed, Ruled
  <2>2. CASE member[o][p].status # "active"
    BY <2>1, <2>2 DEF OutCarryNothing
  <2>3. CASE member[o][p].status = "active"
    <3>1. ~UNCHANGED <<member, invited>>
      BY <2>3
    <3>2. \A q \in People : ~JoinedOrLeft(op[a].org, q)
      BY <2>3 DEF JoinedOrLeft
    <3>3. RuledOver(a, op[a].org, op[a].who)
      BY <3>1, <3>2 DEF PeopleMove
    <3>4. o = op[a].org /\ p = op[a].who /\ op[a].pc = "drop"
      BY <2>3, <3>3 DEF RuledOver
    <3> QED
      BY <2>1, <3>4 DEF WritersKnow
  <2> QED
    BY <2>2, <2>3, SMTT(60)
<1> QED
  BY <1>1, <1>2

LEMMA WritersStay ==
    ASSUME MemberTypes, OpsGo, OneWrites, OutCarryNothing, WritersKnow, Orderly,
           NEW a \in Actors, NEW next \in OpType, Becomes(a, next), Shape(a, next), PeopleMove(a, next)
    PROVE  WritersKnow'
<1>0. ~Writing(a) => UNCHANGED record
  BY WrittenRecord, ZenonT(60) DEF Shape, Begun, SamePeople, Ended, Found, Counted, Decided, Reread, Sent, Enrolled, Took,
       Consumed, Ruled
<1>1. ASSUME NEW o \in Orgs, NEW q \in Active(o), op[a].kind # "remove"
      PROVE  q \in Active(o)'
  <2>1. op[a].pc # "drop"
    BY <1>1, KindOf
  <2> QED
    BY <1>1, <2>1 DEF PeopleMove, JoinedOrLeft, RuledOver, Active
<1>2. ASSUME NEW b \in Actors, b # a
      PROVE  /\ op'[b].kind = "invite" => op'[b].pc \in {"places", "send"} /\ op'[b].seat = ""
             /\ op'[b].kind = "assign" => op'[b].who \in Active(op[b].org)'
             /\ op'[b].pc \in {"assign", "clear"} => op'[b].mine = record'[op'[b].who]
             /\ op'[b].pc = "drop" => record'[op'[b].who][op'[b].org] = "none"
  <2>1. op'[b] = op[b]
    BY <1>2, Replaced
  <2>2. op[b].pc \in {"assign", "clear", "drop"} => Writing(b)
    BY KindOf DEF Writing, WritersKnow
  <2>3. Writing(b) => ~Writing(a)
    BY <1>2 DEF Writing, OneWrites
  <2>4. op[b].kind = "assign" => op[b].who \in Active(op[b].org)'
    <3>1. PICK o \in Orgs : o = op[b].org
      BY KindOf
    <3>2. SUFFICES ASSUME op[b].kind = "assign"
                   PROVE  op[b].who \in Active(op[b].org)'
      OBVIOUS
    <3>3. op[b].who \in Active(o) /\ op[a].kind # "remove"
      BY <2>3, <3>1, <3>2 DEF WritersKnow, Writing
    <3>4. op[b].who \in Active(o)'
      BY <1>1, <3>3, SMTT(60)
    <3> QED
      BY <2>1, <3>1, <3>4 DEF Active
  <2> QED
    BY <1>0, <2>1, <2>2, <2>3, <2>4 DEF WritersKnow
<1>3. /\ next.kind = "invite" => next.pc \in {"places", "send"} /\ next.seat = ""
      /\ next.kind = "assign" => next.who \in Active(next.org)'
      /\ next.pc \in {"assign", "clear"} => next.mine = record'[next.who]
      /\ next.pc = "drop" => record'[next.who][next.org] = "none"
  <2>1. CASE Begun(a, next)
    BY <2>1 DEF Begun, SamePeople, Active, StepsOf, Kinds
  <2>2. CASE next = IdleOp
    BY <2>2, IdleOpIsOne
  <2>3. ASSUME Same(a, next), op[a].kind # "remove"
        PROVE  next.kind = "assign" => next.who \in Active(next.org)'
    <3>1. PICK o \in Orgs : o = op[a].org
      BY KindOf
    <3>2. next.kind = "assign" => next.who \in Active(o)
      BY <2>3, <3>1 DEF Same, WritersKnow
    <3> QED
      BY <1>1, <2>3, <3>1, <3>2 DEF Same
  <2>4. CASE Found(a, next)
    BY <2>3, <2>4, KindOf DEF Found, Same, WritersKnow, Orderly, Record, Rejects, SamePeople
  <2>5. CASE Counted(a, next)
    BY <2>5, KindOf DEF Counted, Same, Orderly
  <2>6. CASE Decided(a, next)
    BY <2>6, KindOf DEF Decided, Same
  <2>7. CASE Reread(a, next)
    BY <2>7 DEF Reread, Same, Orderly, Rejects, SamePeople
  <2>8. CASE Wrote(a, next) /\ next # IdleOp
    BY <2>8, WrittenRecord DEF Wrote, Same
  <2>9. CASE Sent(a, next) /\ next # IdleOp
    BY <2>9, KindOf DEF Sent, WritersKnow
  <2>10. CASE Enrolled(a, next)
    BY <2>10, KindOf DEF Enrolled, Same
  <2> QED
    BY <2>1, <2>2, <2>4, <2>5, <2>6, <2>7, <2>8, <2>9, <2>10, ZenonT(60) DEF Shape, Ended, Took, Consumed, Ruled
<1> QED
  <2>1. op'[a] = next
    BY Replaced
  <2> QED
    BY <1>2, <1>3, <2>1, ZenonT(60) DEF WritersKnow, Active

LEMMA ClosersStay ==
    ASSUME MemberTypes, OpsGo, OneWrites, WritersKnow, ClosersKnow, UNCHANGED closeVars,
           NEW a \in Actors, NEW next \in OpType, Shape(a, next)
    PROVE  ClosersKnow'
<1>1. UNCHANGED close
  BY DEF closeVars
<1>2. CASE Wrote(a, next)
  <2>1. \A k \in Closers : Closing(k, "idle")
    BY <1>2, WrittenRecord DEF Writing, OneWrites
  <2> QED
    BY <1>1, <2>1 DEF ClosersKnow, Closing
<1>3. CASE ~Wrote(a, next)
  <2>1. record' = record
    BY <1>3, ZenonT(60) DEF Shape, Begun, SamePeople, Ended, Found, Counted, Decided, Reread, Sent, Enrolled, Took,
       Consumed, Ruled
  <2> QED
    BY <1>1, <2>1, SMTT(60) DEF ClosersKnow, Closing
<1> QED
  BY <1>2, <1>3

-----------------------------------------------------------------------------
(* What a step of a close does: one close becomes another record. *)

Puts(k, next) == close' = [close EXCEPT ![k] = next]
SameClose(k, next) ==
    next.at = close[k].at /\ next.delete = close[k].delete /\ next.clear = close[k].clear
SameBilling == UNCHANGED <<customer, sub, late>>

CloseBegun(k, next) ==
    /\ Closing(k, "idle") /\ exists /\ next.pc = (IF customer THEN "list" ELSE "members")
    /\ (next.delete => next.at = "now") /\ next.live = {} /\ next.clear \in closeScene.clears
    /\ "records" \in memberScene.serial => \A a \in Actors : "records" \notin LocksOf(op[a].kind)
    /\ SameBilling /\ SamePeople /\ UNCHANGED exists

LiveListed(k, next) ==
    /\ Closing(k, "list") /\ SameClose(k, next) /\ next.stuck = close[k].stuck
    /\ next.pc = "stop" /\ next.live = {s \in Subscriptions : sub[s] \in LIVE}
    /\ SameBilling /\ SamePeople /\ UNCHANGED exists

StopTried(k, next) ==
    /\ Closing(k, "stop") /\ SameClose(k, next) /\ next.pc = "stop"
    /\ \E s \in close[k].live :
          /\ next.live = close[k].live \ {s}
          /\ \/ /\ sub[s] # "canceled" /\ next.stuck = close[k].stuck
                /\ sub' = [sub EXCEPT ![s] = IF close[k].at = "now" THEN "canceled" ELSE "ending"]
             \/ next.stuck /\ UNCHANGED sub
    /\ UNCHANGED <<customer, late, exists>> /\ SamePeople

MembersCleared(k, next) ==
    /\ SameClose(k, next) /\ next.stuck = close[k].stuck /\ next.live = close[k].live
    /\ \/ close[k].pc = "stop" /\ next.pc = "members" /\ close[k].live = {} /\ SamePeople
       \/ close[k].pc = "members" /\ next.pc = "clearing" /\ next.todo = Active(Home) /\ SamePeople
       \/ close[k].pc = "members" /\ next.pc = "delete" /\ ~close[k].clear /\ SamePeople
       \/ close[k].pc = "clearing" /\ next.pc = "delete" /\ close[k].todo = {} /\ SamePeople
       \/ /\ close[k].pc = "clearing" /\ next.pc = "clear" /\ next.todo = close[k].todo \ {next.who} /\ SamePeople
          /\ next.who \in close[k].todo /\ next.mine = record[next.who]
       \/ /\ close[k].pc = "clearing" /\ next.pc = "clearing" /\ SamePeople
          /\ \E p \in close[k].todo : /\ next.todo = close[k].todo \ {p}
                                     /\ (record[p][Home] = "none" \/ Rejects("memberRead"))
       \/ /\ close[k].pc = "clear" /\ next.pc = "clearing" /\ next.todo = close[k].todo
          /\ record' = [record EXCEPT ![close[k].who] = [close[k].mine EXCEPT ![Home] = "none"]]
          /\ UNCHANGED <<member, invited>>
       \/ /\ close[k].pc \in {"members", "clear"} /\ next.pc = "delete"
          /\ closeScene.faults # {} /\ SamePeople
    /\ SameBilling /\ UNCHANGED exists

CloseEnded(k, next) ==
    /\ next = OpenSub /\ SameBilling
    /\ \/ SamePeople /\ UNCHANGED exists
       \/ /\ Closing(k, "delete") /\ Stopped(k) /\ exists' = FALSE /\ UNCHANGED record
          /\ member' = [member EXCEPT ![Home] = [p \in People |-> [@[p] EXCEPT !.status = "none"]]]
          /\ invited' = [invited EXCEPT ![Home] = [p \in People |->
                            IF @[p].state = "pending" THEN [@[p] EXCEPT !.state = "revoked"] ELSE @[p]]]

CloseStep(k, next) ==
    \/ CloseBegun(k, next) \/ LiveListed(k, next) \/ StopTried(k, next) \/ MembersCleared(k, next)
    \/ CloseEnded(k, next)
CloseShape ==
    /\ UNCHANGED <<closeScene, memberScene, op, calls>>
    /\ \E k \in Closers, next \in CloseType : Puts(k, next) /\ CloseStep(k, next)

LEMMA OpenSubIsOne ==
    /\ OpenSub \in CloseType
    /\ OpenSub.pc = "idle" /\ OpenSub.at = "now" /\ ~OpenSub.delete /\ ~OpenSub.clear /\ OpenSub.live = {}
    /\ ~OpenSub.stuck /\ OpenSub.todo = {} /\ OpenSub.who = Nobody /\ OpenSub.mine = NoRecord
BY NoRecordIsOne DEF OpenSub, CloseType

LEMMA ClosesBegin ==
    ASSUME MemberTypes, CloseTypes, NEW k \in Closers, NEW at \in {"now", "period_end"},
           NEW delete \in BOOLEAN, NEW clear \in BOOLEAN, BeginClose(k, at, delete, clear)
    PROVE  CloseShape
<1> DEFINE next == [OpenSub EXCEPT !.pc = IF customer THEN "list" ELSE "members",
                                   !.at = at, !.delete = delete, !.clear = clear]
<1>1. /\ next \in CloseType /\ next.pc = (IF customer THEN "list" ELSE "members") /\ next.at = at
      /\ next.delete = delete /\ next.clear = clear /\ next.live = {}
  BY OpenSubIsOne, ZenonT(60) DEF CloseType, OpenSub
<1>2. Puts(k, next)
  BY DEF BeginClose, Puts
<1> HIDE DEF next
<1>3. CloseBegun(k, next)
  BY <1>1 DEF BeginClose, CloseBegun, SameBilling, SamePeople, memberVars
<1> QED
  BY <1>1, <1>2, <1>3 DEF BeginClose, CloseShape, CloseStep, memberVars

LEMMA StopsBilling ==
    ASSUME MemberTypes, CloseTypes, NEW k \in Closers, ListLive(k) \/ Stop(k) \/ AllStopped(k)
    PROVE  CloseShape
<1>0. close[k] \in CloseType
  BY DEF CloseTypes
<1>1. ASSUME ListLive(k)
      PROVE  CloseShape
  <2> DEFINE live == {s \in Subscriptions : sub[s] \in LIVE}
             next == [close[k] EXCEPT !.live = live, !.pc = "stop"]
  <2>1. live \in SUBSET Subscriptions
    OBVIOUS
  <2>2. Puts(k, next)
    BY <1>1 DEF ListLive, Puts
  <2> HIDE DEF live
  <2>3. /\ next \in CloseType /\ next.pc = "stop" /\ next.live = live /\ SameClose(k, next)
        /\ next.stuck = close[k].stuck
    BY <1>0, <2>1 DEF CloseType, SameClose
  <2> HIDE DEF next
  <2>4. LiveListed(k, next)
    BY <1>1, <2>3 DEF ListLive, LiveListed, SameBilling, SamePeople, memberVars, live
  <2> QED
    BY <1>1, <2>2, <2>3, <2>4 DEF ListLive, CloseShape, CloseStep, memberVars
<1>2. ASSUME Stop(k)
      PROVE  CloseShape
  <2>1. PICK s \in close[k].live :
          \/ /\ sub[s] # "canceled"
             /\ sub' = [sub EXCEPT ![s] = IF close[k].at = "now" THEN "canceled" ELSE "ending"]
             /\ close' = [close EXCEPT ![k].live = @ \ {s}]
          \/ /\ close' = [close EXCEPT ![k].live = @ \ {s}, ![k].stuck = TRUE]
             /\ UNCHANGED sub
    BY <1>2 DEF Stop
  <2> DEFINE went == [close[k] EXCEPT !.live = close[k].live \ {s}]
             stuck == [close[k] EXCEPT !.live = close[k].live \ {s}, !.stuck = TRUE]
  <2>2. close[k].pc = "stop" /\ UNCHANGED <<closeScene, exists, customer, closes, late, memberVars>>
    BY <1>2 DEF Stop, Closing
  <2>3. /\ went \in CloseType /\ SameClose(k, went) /\ went.pc = "stop"
        /\ went.live = close[k].live \ {s} /\ went.stuck = close[k].stuck
    BY <1>0, <2>2 DEF CloseType, SameClose
  <2>4. /\ stuck \in CloseType /\ SameClose(k, stuck) /\ stuck.pc = "stop"
        /\ stuck.live = close[k].live \ {s} /\ stuck.stuck = TRUE
    BY <1>0, <2>2 DEF CloseType, SameClose
  <2>5. \/ /\ sub[s] # "canceled" /\ Puts(k, went)
           /\ sub' = [sub EXCEPT ![s] = IF close[k].at = "now" THEN "canceled" ELSE "ending"]
        \/ Puts(k, stuck) /\ UNCHANGED sub
    BY <2>1 DEF Puts
  <2> HIDE DEF went, stuck
  <2>6. ASSUME Puts(k, went), sub[s] # "canceled",
               sub' = [sub EXCEPT ![s] = IF close[k].at = "now" THEN "canceled" ELSE "ending"]
        PROVE  CloseShape
    <3>1. StopTried(k, went)
      BY <2>1, <2>2, <2>3, <2>6 DEF StopTried, Closing, SamePeople, memberVars
    <3> QED
      BY <2>2, <2>3, <2>6, <3>1 DEF CloseShape, CloseStep, memberVars
  <2>7. ASSUME Puts(k, stuck), UNCHANGED sub
        PROVE  CloseShape
    <3>1. StopTried(k, stuck)
      BY <2>1, <2>2, <2>4, <2>7 DEF StopTried, Closing, SamePeople, memberVars
    <3> QED
      BY <2>2, <2>4, <2>7, <3>1 DEF CloseShape, CloseStep, memberVars
  <2> QED
    BY <2>5, <2>6, <2>7
<1>3. ASSUME AllStopped(k)
      PROVE  CloseShape
  <2> DEFINE next == [close[k] EXCEPT !.pc = "members"]
  <2>1. /\ next \in CloseType /\ next.pc = "members" /\ SameClose(k, next)
        /\ next.stuck = close[k].stuck /\ next.live = close[k].live
    BY <1>0 DEF CloseType, SameClose
  <2>2. Puts(k, next)
    BY <1>3 DEF AllStopped, Puts
  <2> HIDE DEF next
  <2>3. MembersCleared(k, next)
    BY <1>3, <2>1 DEF AllStopped, MembersCleared, Closing, SameBilling, SamePeople, memberVars
  <2> QED
    BY <1>3, <2>1, <2>2, <2>3 DEF AllStopped, CloseShape, CloseStep, memberVars
<1> QED
  BY <1>1, <1>2, <1>3

LEMMA ClearsMembers ==
    ASSUME MemberTypes, CloseTypes, NEW k \in Closers,
           ListMembers(k) \/ ReadMember(k) \/ ClearMember(k) \/ ClearFails(k)
    PROVE  CloseShape
<1> DEFINE Next1(next) == /\ next \in CloseType /\ SameClose(k, next) /\ next.stuck = close[k].stuck
                          /\ next.live = close[k].live
           to(pc) == [close[k] EXCEPT !.pc = pc]
<1>0. close[k] \in CloseType
  BY DEF CloseTypes
<1>1. \A pc \in {"clearing", "delete"} : Next1(to(pc)) /\ to(pc).pc = pc /\ to(pc).todo = close[k].todo
  BY <1>0 DEF CloseType, SameClose
<1>2. ASSUME ListMembers(k)
      PROVE  CloseShape
  <2> DEFINE next == [close[k] EXCEPT !.pc = "clearing", !.todo = Active(Home)]
  <2>1. Active(Home) \in SUBSET People
    BY DEF Active
  <2>2. Next1(next) /\ next.pc = "clearing" /\ next.todo = Active(Home)
    BY <1>0, <2>1 DEF CloseType, SameClose
  <2>3. /\ Closing(k, "members") /\ UNCHANGED <<closeScene, exists, customer, sub, closes, late, memberVars>>
        /\ Puts(k, next) \/ (~close[k].clear /\ Puts(k, to("delete")))
    BY <1>2 DEF ListMembers, Puts
  <2> HIDE DEF next, to
  <2>4. CASE Puts(k, next)
    <3>1. MembersCleared(k, next)
      BY <2>2, <2>3 DEF MembersCleared, Closing, SameBilling, SamePeople, memberVars
    <3> QED
      BY <2>2, <2>3, <2>4, <3>1 DEF CloseShape, CloseStep, memberVars
  <2>5. CASE ~close[k].clear /\ Puts(k, to("delete"))
    <3>1. MembersCleared(k, to("delete"))
      BY <1>1, <2>3, <2>5 DEF MembersCleared, Closing, SameBilling, SamePeople, memberVars
    <3> QED
      BY <1>1, <2>3, <2>5, <3>1 DEF CloseShape, CloseStep, memberVars
  <2> QED
    BY <2>3, <2>4, <2>5
<1>3. ASSUME ReadMember(k)
      PROVE  CloseShape
  <2>0. Closing(k, "clearing") /\ UNCHANGED <<closeScene, exists, customer, sub, closes, late, memberVars>>
    BY <1>3 DEF ReadMember
  <2>1. CASE close[k].todo = {}
    <3>1. Puts(k, to("delete"))
      BY <1>3, <2>1 DEF ReadMember, Puts
    <3> HIDE DEF to
    <3>2. MembersCleared(k, to("delete"))
      BY <1>1, <2>0, <2>1 DEF MembersCleared, Closing, SameBilling, SamePeople, memberVars
    <3> QED
      BY <1>1, <2>0, <3>1, <3>2 DEF CloseShape, CloseStep, memberVars
  <2>2. ASSUME close[k].todo # {}
        PROVE  CloseShape
    <3>1. PICK p \in close[k].todo :
            \/ close' = [close EXCEPT ![k].pc = "clear", ![k].todo = @ \ {p},
                                      ![k].who = p, ![k].mine = record[p]]
            \/ /\ record[p][Home] = "none" \/ Rejects("memberRead")
               /\ close' = [close EXCEPT ![k].todo = @ \ {p}]
      BY <1>3, <2>2, ZenonT(60) DEF ReadMember
    <3>2. p \in People
      BY <1>0 DEF CloseType
    <3>3. record[p] \in [Orgs -> SeatRecords]
      BY <3>2 DEF MemberTypes
    <3> DEFINE kept == [close[k] EXCEPT !.pc = "clear", !.todo = close[k].todo \ {p}, !.who = p, !.mine = record[p]]
               past == [close[k] EXCEPT !.todo = close[k].todo \ {p}]
    <3>4. /\ Next1(kept) /\ kept.pc = "clear" /\ kept.todo = close[k].todo \ {p} /\ kept.who = p
          /\ kept.mine = record[p]
      BY <1>0, <3>2, <3>3 DEF CloseType, SameClose
    <3>5. Next1(past) /\ past.pc = "clearing" /\ past.todo = close[k].todo \ {p}
      BY <1>0, <2>0 DEF CloseType, SameClose, Closing
    <3>6. \/ Puts(k, kept)
          \/ Puts(k, past) /\ (record[p][Home] = "none" \/ Rejects("memberRead"))
      BY <3>1 DEF Puts
    <3> HIDE DEF kept, past
    <3>7. CASE Puts(k, kept)
      <4>1. MembersCleared(k, kept)
        BY <2>0, <3>1, <3>4 DEF MembersCleared, Closing, SameBilling, SamePeople, memberVars
      <4> QED
        BY <2>0, <3>4, <3>7, <4>1 DEF CloseShape, CloseStep, memberVars
    <3>8. CASE Puts(k, past) /\ (record[p][Home] = "none" \/ Rejects("memberRead"))
      <4>1. MembersCleared(k, past)
        BY <2>0, <3>1, <3>5, <3>8 DEF MembersCleared, Closing, SameBilling, SamePeople, memberVars
      <4> QED
        BY <2>0, <3>5, <3>8, <4>1 DEF CloseShape, CloseStep, memberVars
    <3> QED
      BY <3>6, <3>7, <3>8, SMTT(60)
  <2> QED
    BY <2>1, <2>2, SMTT(60)
<1>4. ASSUME ClearMember(k)
      PROVE  CloseShape
  <2>1. Puts(k, to("clearing"))
    BY <1>4 DEF ClearMember, Puts
  <2> HIDE DEF to
  <2>2. MembersCleared(k, to("clearing"))
    BY <1>1, <1>4 DEF ClearMember, MembersCleared, Closing, SameBilling
  <2> QED
    BY <1>1, <1>4, <2>1, <2>2 DEF ClearMember, CloseShape, CloseStep
<1>5. ASSUME ClearFails(k)
      PROVE  CloseShape
  <2>1. Puts(k, to("delete"))
    BY <1>5 DEF ClearFails, Puts
  <2> HIDE DEF to
  <2>2. MembersCleared(k, to("delete"))
    BY <1>1, <1>5 DEF ClearFails, MembersCleared, Closing, SameBilling, SamePeople, memberVars, Suffers
  <2> QED
    BY <1>1, <1>5, <2>1, <2>2 DEF ClearFails, CloseShape, CloseStep, memberVars
<1> QED
  BY <1>2, <1>3, <1>4, <1>5

LEMMA Deletes ==
    ASSUME MemberTypes, CloseTypes, NEW k \in Closers, Delete(k) \/ Dies(k)
    PROVE  CloseShape
<1>1. Puts(k, OpenSub)
  BY DEF Delete, Dies, Puts
<1>2. CloseEnded(k, OpenSub)
  BY DEF Delete, Dies, CloseEnded, SameBilling, SamePeople, MayDelete, Stopped, memberVars
<1> QED
  BY <1>1, <1>2, OpenSubIsOne DEF Delete, Dies, CloseShape, CloseStep, memberVars

LEMMA ClosePut ==
    ASSUME CloseTypes, NEW k \in Closers, NEW next \in CloseType, Puts(k, next)
    PROVE  /\ close' \in [Closers -> CloseType] /\ close'[k] = next
           /\ \A j \in Closers : j # k => close'[j] = close[j]
BY DEF CloseTypes, Puts

LEMMA CloseTypesStay ==
    ASSUME CloseTypes, closeScene' = closeScene,
           NEW k \in Closers, NEW next \in CloseType, Puts(k, next), CloseStep(k, next)
    PROVE  CloseTypes'
<1>1. exists' \in BOOLEAN /\ customer' = customer /\ late' = late
  BY DEF CloseTypes, CloseStep, CloseBegun, LiveListed, StopTried, MembersCleared, CloseEnded, SameBilling
<1>2. sub' \in [Subscriptions -> {"none", "canceled"} \cup LIVE]
  <2>1. CASE sub' = sub
    BY <2>1 DEF CloseTypes
  <2>2. CASE StopTried(k, next) /\ sub' # sub
    <3>1. PICK s \in close[k].live : sub' = [sub EXCEPT ![s] = IF close[k].at = "now" THEN "canceled" ELSE "ending"]
      BY <2>2 DEF StopTried
    <3> QED
      BY <3>1 DEF CloseTypes, CloseType, LIVE
  <2> QED
    BY <2>1, <2>2 DEF CloseStep, CloseBegun, LiveListed, MembersCleared, CloseEnded, SameBilling
<1> QED
  BY <1>1, <1>2, ClosePut DEF CloseTypes

\* What the end of the organization does to its people.
LEMMA EndOfOrganization ==
    ASSUME MemberTypes,
           member' = [member EXCEPT ![Home] = [p \in People |-> [@[p] EXCEPT !.status = "none"]]],
           invited' = [invited EXCEPT ![Home] = [p \in People |->
                         IF @[p].state = "pending" THEN [@[p] EXCEPT !.state = "revoked"] ELSE @[p]]]
    PROVE  /\ member' \in [Orgs -> [People -> MembershipType]]
           /\ invited' \in [Orgs -> [People -> InvitationType]]
           /\ \A p \in People : member'[Home][p].status = "none" /\ invited'[Home][p].state # "pending"
           /\ \A o \in Orgs : o # Home => member'[o] = member[o] /\ invited'[o] = invited[o]
<1> DEFINE m == [p \in People |-> [member[Home][p] EXCEPT !.status = "none"]]
           revoked(p) == IF invited[Home][p].state = "pending" THEN [invited[Home][p] EXCEPT !.state = "revoked"]
                         ELSE invited[Home][p]
           i == [p \in People |-> revoked(p)]
<1>0. Home \in Orgs
  BY WorkspaceAssumption
<1>1. \A p \in People : member[Home][p] \in MembershipType /\ invited[Home][p] \in InvitationType
  BY <1>0 DEF MemberTypes
<1>2. m \in [People -> MembershipType] /\ \A p \in People : m[p].status = "none"
  BY <1>1 DEF MembershipType, Statuses
<1>3. i \in [People -> InvitationType] /\ \A p \in People : i[p].state # "pending"
  <2>1. ASSUME NEW p \in People
        PROVE  revoked(p) \in InvitationType /\ revoked(p).state # "pending"
    BY <1>1 DEF InvitationType
  <2> HIDE DEF revoked
  <2> QED
    BY <2>1
<1>4. member' = [member EXCEPT ![Home] = m]
  OBVIOUS
<1>5. invited' = [invited EXCEPT ![Home] = i]
  OBVIOUS
<1> HIDE DEF m, i
<1> QED
  BY <1>0, <1>2, <1>3, <1>4, <1>5, ZenonT(60) DEF MemberTypes

\* A close that clears a record, and one that deletes.
LEMMA CloseOfMembers ==
    ASSUME MemberTypes, CloseTypes, NEW k \in Closers, NEW next \in CloseType, CloseStep(k, next)
    PROVE  /\ UNCHANGED <<member, invited>> \/
                  (/\ Closing(k, "delete") /\ Stopped(k) /\ exists' = FALSE /\ record' = record /\ next = OpenSub
                   /\ \A p \in People : member'[Home][p].status = "none" /\ invited'[Home][p].state # "pending"
                   /\ \A o \in Orgs : o # Home => member'[o] = member[o] /\ invited'[o] = invited[o])
           /\ member' \in [Orgs -> [People -> MembershipType]] /\ invited' \in [Orgs -> [People -> InvitationType]]
           /\ exists' \in BOOLEAN /\ (exists' => exists)
           /\ SamePeople \/ UNCHANGED record \/
                  (/\ close[k].pc = "clear" /\ next.pc = "clearing" /\ next.todo = close[k].todo /\ SameClose(k, next)
                   /\ record' = [record EXCEPT ![close[k].who] = [close[k].mine EXCEPT ![Home] = "none"]])
<1>1. CASE CloseEnded(k, next) /\ ~SamePeople
  BY <1>1, EndOfOrganization DEF CloseEnded, SamePeople
<1>2. CASE SamePeople
  <2>1. exists' \in BOOLEAN /\ (exists' => exists)
    <3>1. exists' = exists \/ exists' = FALSE
      BY DEF CloseStep, CloseBegun, LiveListed, StopTried, MembersCleared, CloseEnded
    <3>2. exists \in BOOLEAN
      BY DEF CloseTypes
    <3>3. CASE exists' = exists
      BY <3>2, <3>3, Zenon
    <3> QED
      BY <3>1, <3>3
  <2>2. member' \in [Orgs -> [People -> MembershipType]] /\ invited' \in [Orgs -> [People -> InvitationType]]
    BY <1>2 DEF SamePeople, MemberTypes
  <2> QED
    BY <1>2, <2>1, <2>2 DEF SamePeople
<1>3. CASE MembersCleared(k, next)
  BY <1>3 DEF SamePeople, MembersCleared, MemberTypes, CloseTypes
<1> QED
  BY <1>1, <1>2, <1>3 DEF CloseStep, CloseBegun, LiveListed, StopTried

LEMMA MembersTypedInClose ==
    ASSUME MemberTypes, CloseTypes, UNCHANGED <<memberScene, op, calls>>,
           NEW k \in Closers, NEW next \in CloseType, CloseStep(k, next)
    PROVE  MemberTypes'
<1>1. record' \in [People -> [Orgs -> SeatRecords]]
  <2>1. CASE UNCHANGED record
    BY <2>1 DEF MemberTypes
  <2>2. CASE record' = [record EXCEPT ![close[k].who] = [close[k].mine EXCEPT ![Home] = "none"]]
    <3>1. close[k].mine \in [Orgs -> SeatRecords]
      BY DEF CloseTypes, CloseType
    <3>2. [close[k].mine EXCEPT ![Home] = "none"] \in [Orgs -> SeatRecords]
      BY <3>1 DEF SeatRecords
    <3> QED
      BY <2>2, <3>2 DEF MemberTypes
  <2> QED
    BY <2>1, <2>2, CloseOfMembers DEF SamePeople
<1> QED
  BY <1>1, CloseOfMembers DEF MemberTypes

LEMMA AdminsRemainInClose ==
    ASSUME MemberTypes, CloseTypes, InvitedAreOut, AdminRemains, AnotherRemains, UNCHANGED <<memberScene, op>>,
           NEW k \in Closers, NEW next \in CloseType, CloseStep(k, next)
    PROVE  InvitedAreOut' /\ AdminRemains' /\ AnotherRemains'
<1>1. CASE UNCHANGED <<member, invited>>
  <2>1. \A o \in Orgs : HasStaff(o)' => HasStaff(o)
    BY CloseOfMembers DEF HasStaff
  <2>2. \A o : Admins(o)' = Admins(o)
    BY <1>1 DEF Admins, Active
  <2>3. \A a \in Actors : Leaving(a)' = Leaving(a)
    BY DEF Leaving
  <2>4. InvitedAreOut'
    BY <1>1 DEF InvitedAreOut
  <2>5. AdminRemains'
    BY <2>1, <2>2 DEF AdminRemains, HasStaff, Rejects
  <2>6. AnotherRemains'
    <3> SUFFICES ASSUME "admins" \in memberScene.serial, ~Rejects("roles"),
                        NEW a \in Actors, Leaving(a), HasStaff(op[a].org)'
                 PROVE  (\E q \in Admins(op[a].org) : q # op[a].who)'
      BY <2>3 DEF AnotherRemains, Rejects
    <3>1. PICK o \in Orgs : o = op[a].org
      BY DEF MemberTypes, OpType
    <3>2. HasStaff(o)'
      BY <3>1 DEF HasStaff
    <3>3. PICK q \in Admins(o) : q # op[a].who
      BY <2>1, <3>1, <3>2 DEF AnotherRemains
    <3> QED
      BY <1>1, <3>1, <3>3 DEF Admins, Active
  <2> QED
    BY <2>4, <2>5, <2>6
<1>2. ASSUME exists' = FALSE,
             \A p \in People : member'[Home][p].status = "none" /\ invited'[Home][p].state # "pending",
             \A o \in Orgs : o # Home => member'[o] = member[o] /\ invited'[o] = invited[o]
      PROVE  InvitedAreOut' /\ AdminRemains' /\ AnotherRemains'
  <2>1. \A o \in Orgs : HasStaff(o)' => o # Home /\ HasStaff(o)
    BY <1>2 DEF HasStaff
  <2>2. \A o \in Orgs : o # Home => Admins(o)' = Admins(o)
    BY <1>2 DEF Admins, Active
  <2>3. \A a \in Actors : Leaving(a)' = Leaving(a)
    BY DEF Leaving
  <2>4. InvitedAreOut'
    BY <1>2 DEF InvitedAreOut
  <2>5. AdminRemains'
    BY <2>1, <2>2 DEF AdminRemains, HasStaff, Rejects
  <2>6. AnotherRemains'
    <3> SUFFICES ASSUME "admins" \in memberScene.serial, ~Rejects("roles"),
                        NEW a \in Actors, Leaving(a), HasStaff(op[a].org)'
                 PROVE  (\E q \in Admins(op[a].org) : q # op[a].who)'
      BY <2>3 DEF AnotherRemains, Rejects
    <3>1. PICK o \in Orgs : o = op[a].org
      BY DEF MemberTypes, OpType
    <3>2. HasStaff(o)'
      BY <3>1 DEF HasStaff
    <3>3. PICK q \in Admins(o) : q # op[a].who
      BY <2>1, <3>1, <3>2 DEF AnotherRemains
    <3>4. q \in Admins(o)'
      BY <2>1, <2>2, <3>2, <3>3
    <3> QED
      BY <3>1, <3>3, <3>4 DEF Admins, Active
  <2> QED
    BY <2>4, <2>5, <2>6
<1> QED
  BY <1>1, <1>2, CloseOfMembers

\* A close makes no subscription live, and begins none.
LEMMA ClosesOnlyStop ==
    ASSUME CloseTypes, NothingRuns,
           NEW k \in Closers, NEW next \in CloseType, CloseStep(k, next), NEW s \in Subscriptions
    PROVE  (sub'[s] \in LIVE => sub[s] \in LIVE) /\ (sub'[s] = "none" <=> sub[s] = "none")
<1>1. CASE sub' = sub
  BY <1>1
<1>2. CASE StopTried(k, next) /\ sub' # sub
  <2>1. PICK t \in close[k].live :
          /\ sub[t] # "canceled"
          /\ sub' = [sub EXCEPT ![t] = IF close[k].at = "now" THEN "canceled" ELSE "ending"]
    BY <1>2 DEF StopTried
  <2>2. t \in Subscriptions /\ sub[t] \in LIVE
    BY <2>1 DEF CloseTypes, CloseType, NothingRuns
  <2>3. sub'[t] \in {"canceled", "ending"} /\ (s # t => sub'[s] = sub[s])
    BY <2>1, <2>2 DEF CloseTypes
  <2> QED
    BY <2>2, <2>3 DEF LIVE
<1> QED
  BY <1>1, <1>2 DEF CloseStep, CloseBegun, LiveListed, MembersCleared, CloseEnded, SameBilling

\* What a close leaves to be stopped, for the close that moves.
LEMMA StopsItsOwn ==
    ASSUME CloseTypes, NothingRuns,
           NEW k \in Closers, NEW next \in CloseType, CloseStep(k, next)
    PROVE  /\ next.delete => next.at = "now"
           /\ \A s \in next.live : s \in Subscriptions /\ sub[s] # "none"
           /\ next.delete /\ ~next.stuck /\ next.pc = "stop" =>
                 \A s \in Subscriptions : sub'[s] \in LIVE => s \in next.live \cup late
           /\ next.delete /\ ~next.stuck /\ next.pc \in {"members", "clearing", "clear", "delete"} =>
                 \A s \in Subscriptions : sub'[s] \in LIVE => s \in late
<1>0. /\ close[k].delete => close[k].at = "now"
      /\ \A s \in close[k].live : s \in Subscriptions /\ sub[s] # "none"
      /\ Stopped(k) /\ Closing(k, "stop") =>
            \A s \in Subscriptions : sub[s] \in LIVE => s \in close[k].live \cup late
      /\ Stopped(k) /\ close[k].pc \in {"members", "clearing", "clear", "delete"} =>
            \A s \in Subscriptions : sub[s] \in LIVE => s \in late
  BY DEF NothingRuns, CloseTypes, CloseType
<1>1. CASE CloseBegun(k, next)
  BY <1>1 DEF CloseBegun, NothingRuns, SameBilling, LIVE
<1>2. CASE LiveListed(k, next)
  BY <1>0, <1>2 DEF LiveListed, SameClose, SameBilling, LIVE
<1>3. CASE StopTried(k, next)
  <2>1. next.at = close[k].at /\ next.delete = close[k].delete /\ next.pc = "stop" /\ close[k].pc = "stop"
    BY <1>3 DEF StopTried, SameClose, Closing
  <2>2. PICK t \in close[k].live :
          /\ next.live = close[k].live \ {t}
          /\ \/ /\ sub[t] # "canceled" /\ next.stuck = close[k].stuck
                /\ sub' = [sub EXCEPT ![t] = IF close[k].at = "now" THEN "canceled" ELSE "ending"]
             \/ next.stuck /\ UNCHANGED sub
    BY <1>3 DEF StopTried
  <2>3. ASSUME next.delete, ~next.stuck, NEW s \in Subscriptions, sub'[s] \in LIVE
        PROVE  s \in next.live \cup late
    <3>1. Stopped(k) /\ sub' = [sub EXCEPT ![t] = "canceled"]
      BY <1>0, <2>1, <2>2, <2>3 DEF Stopped
    <3>2. t \in Subscriptions /\ sub'[t] = "canceled"
      BY <1>0, <3>1 DEF CloseTypes
    <3>3. s # t
      BY <2>3, <3>2 DEF LIVE
    <3>4. sub[s] \in LIVE
      BY <2>3, <3>1, <3>3 DEF CloseTypes
    <3> QED
      BY <1>0, <2>1, <2>2, <3>1, <3>3, <3>4 DEF Closing
  <2> QED
    BY <1>0, <2>1, <2>2, <2>3
<1>4. CASE MembersCleared(k, next)
  <2>1. /\ next.at = close[k].at /\ next.delete = close[k].delete /\ next.stuck = close[k].stuck
        /\ next.live = close[k].live /\ sub' = sub /\ next.pc # "stop"
        /\ close[k].pc \in {"members", "clearing", "clear"} \/ (close[k].pc = "stop" /\ close[k].live = {})
    BY <1>4 DEF MembersCleared, SameClose, SameBilling
  <2> QED
    BY <1>0, <2>1 DEF Stopped, Closing
<1>5. CASE CloseEnded(k, next)
  BY <1>5, OpenSubIsOne DEF CloseEnded
<1> QED
  BY <1>1, <1>2, <1>3, <1>4, <1>5 DEF CloseStep

LEMMA NothingRunsInClose ==
    ASSUME CloseTypes, NothingRuns,
           NEW k \in Closers, NEW next \in CloseType, Puts(k, next), CloseStep(k, next)
    PROVE  NothingRuns'
<1>1. customer' = customer /\ late' = late
  BY DEF CloseStep, CloseBegun, LiveListed, StopTried, MembersCleared, CloseEnded, SameBilling
<1>2. /\ \A s \in Subscriptions : sub'[s] \in LIVE => sub[s] \in LIVE
      /\ \A s \in Subscriptions : sub'[s] = "none" <=> sub[s] = "none"
  BY ClosesOnlyStop
<1>3. ASSUME NEW j \in Closers
      PROVE  /\ close'[j].delete => close'[j].at = "now"
             /\ \A s \in close'[j].live : sub'[s] # "none"
             /\ close'[j].delete /\ ~close'[j].stuck /\ close'[j].pc = "stop" =>
                   \A s \in Subscriptions : sub'[s] \in LIVE => s \in close'[j].live \cup late
             /\ close'[j].delete /\ ~close'[j].stuck /\ close'[j].pc \in {"members", "clearing", "clear", "delete"} =>
                   \A s \in Subscriptions : sub'[s] \in LIVE => s \in late
  <2>1. CASE j = k
    BY <1>2, <2>1, ClosePut, StopsItsOwn
  <2>2. CASE j # k
    <3>1. close'[j] = close[j] /\ close[j].live \subseteq Subscriptions
      BY <2>2, ClosePut DEF CloseTypes, CloseType
    <3> QED
      BY <1>2, <3>1 DEF NothingRuns, Stopped, Closing
  <2> QED
    BY <2>1, <2>2
<1>4. ~exists' => \A s \in Subscriptions : sub[s] \in LIVE => s \in late
  BY DEF CloseStep, CloseBegun, LiveListed, StopTried, MembersCleared, CloseEnded, NothingRuns, Closing
<1>5. ~customer => \A s \in Subscriptions : sub'[s] = "none"
  BY <1>2 DEF NothingRuns
<1> QED
  BY <1>1, <1>2, <1>3, <1>4, <1>5 DEF NothingRuns, Stopped, Closing

\* What becomes of a subscription by itself.
LEMMA NothingRunsAround ==
    ASSUME CloseTypes, NothingRuns, NEW s \in Subscriptions, Subscribe(s) \/ SubscriptionMoves(s)
    PROVE  CloseTypes' /\ NothingRuns'
<1>0. /\ closeScene' = closeScene /\ close' = close /\ exists' = exists
      /\ \A k \in Closers : close[k].live \subseteq Subscriptions
  BY DEF Subscribe, SubscriptionMoves, CloseTypes, CloseType
<1>1. ASSUME Subscribe(s)
      PROVE  CloseTypes' /\ NothingRuns'
  <2>1. /\ sub' = [sub EXCEPT ![s] = "active"] /\ customer' = TRUE /\ late \subseteq late'
        /\ late' = late \/ late' = late \cup {s}
        /\ (~exists \/ \E k \in Closers : close[k].pc \notin {"idle", "list"}) => s \in late'
    BY <1>1 DEF Subscribe
  <2>2. CloseTypes'
    BY <1>0, <2>1 DEF CloseTypes, LIVE
  <2>3. sub'[s] = "active" /\ \A t \in Subscriptions : t # s => sub'[t] = sub[t]
    BY <2>1 DEF CloseTypes
  <2>4. \A k \in Closers : \A t \in close[k].live : sub'[t] # "none"
    BY <1>0, <2>3 DEF NothingRuns
  <2>5. ASSUME NEW k \in Closers, close[k].pc \in {"stop", "members", "clearing", "clear", "delete"}
        PROVE  s \in late'
    BY <2>1, <2>5
  <2>6. ~exists => \A t \in Subscriptions : sub'[t] \in LIVE => t \in late'
    BY <2>1, <2>3 DEF NothingRuns
  <2>7. \A k \in Closers : Stopped(k) /\ Closing(k, "stop") =>
            \A t \in Subscriptions : sub'[t] \in LIVE => t \in close[k].live \cup late'
    BY <2>1, <2>3, <2>5 DEF NothingRuns, Closing
  <2>8. \A k \in Closers : Stopped(k) /\ close[k].pc \in {"members", "clearing", "clear", "delete"} =>
            \A t \in Subscriptions : sub'[t] \in LIVE => t \in late'
    BY <2>1, <2>3, <2>5 DEF NothingRuns
  <2>9. \A k \in Closers : close[k].delete => close[k].at = "now"
    BY DEF NothingRuns
  <2>10. NothingRuns'
    BY <1>0, <2>1, <2>4, <2>6, <2>7, <2>8, <2>9 DEF NothingRuns, Stopped, Closing
  <2> QED
    BY <2>2, <2>10
<1>2. ASSUME SubscriptionMoves(s)
      PROVE  CloseTypes' /\ NothingRuns'
  <2>1. PICK status \in {"past_due", "canceled"} : sub' = [sub EXCEPT ![s] = status]
    BY <1>2 DEF SubscriptionMoves
  <2>2. sub[s] \in LIVE /\ customer' = customer /\ late' = late
    BY <1>2 DEF SubscriptionMoves, LIVE
  <2>3. CloseTypes'
    BY <1>0, <2>1, <2>2 DEF CloseTypes, LIVE
  <2>4. sub'[s] \in {"past_due", "canceled"} /\ \A t \in Subscriptions : t # s => sub'[t] = sub[t]
    BY <2>1 DEF CloseTypes
  <2>5. \A t \in Subscriptions : (sub'[t] \in LIVE => sub[t] \in LIVE) /\ (sub'[t] = "none" <=> sub[t] = "none")
    BY <2>2, <2>4 DEF LIVE
  <2>6. NothingRuns'
    BY <1>0, <2>2, <2>5 DEF NothingRuns, Stopped, Closing
  <2> QED
    BY <2>3, <2>6
<1> QED
  BY <1>1, <1>2

-----------------------------------------------------------------------------
(* What people carry while the workspace closes. *)

\* A close writes the record of one person, and only what it says of Home.
LEMMA ClearedRecord ==
    ASSUME MemberTypes, CloseTypes, ClosersKnow,
           NEW k \in Closers, close[k].pc = "clear",
           record' = [record EXCEPT ![close[k].who] = [close[k].mine EXCEPT ![Home] = "none"]]
    PROVE  /\ record'[close[k].who][Home] = "none"
           /\ \A p \in People : p # close[k].who => record'[p] = record[p]
           /\ \A p \in People, o \in Orgs : o # Home => record'[p][o] = record[p][o]
<1>1. PICK w \in People : w = close[k].who
  BY DEF ClosersKnow, Closing
<1> DEFINE mine == close[k].mine
<1>2. mine \in [Orgs -> SeatRecords]
  BY DEF CloseTypes, CloseType
<1>3. \A o \in Orgs : o # Home => mine[o] = record[w][o]
  BY <1>1 DEF ClosersKnow, Closing
<1>4. record' = [record EXCEPT ![w] = [mine EXCEPT ![Home] = "none"]]
  BY <1>1
<1> HIDE DEF mine
<1>5. record'[w] = [mine EXCEPT ![Home] = "none"] /\ \A p \in People : p # w => record'[p] = record[p]
  BY <1>4 DEF MemberTypes
<1>6. record'[w][Home] = "none" /\ \A o \in Orgs : o # Home => record'[w][o] = record[w][o]
  <2>1. Home \in Orgs
    BY WorkspaceAssumption
  <2>2. record'[w] = [mine EXCEPT ![Home] = "none"]
    BY <1>5
  <2>3. record'[w][Home] = "none" /\ \A o \in Orgs : o # Home => record'[w][o] = mine[o]
    BY <1>2, <2>1, <2>2
  <2> QED
    BY <1>3, <2>3
<1> QED
  BY <1>1, <1>5, <1>6

LEMMA RecordsInClose ==
    ASSUME MemberTypes, OpsGo, CloseTypes, Orderly, OneWrites, OutCarryNothing, WritersKnow, ClosersKnow,
           UNCHANGED <<memberScene, op, closeScene>>,
           NEW k \in Closers, NEW next \in CloseType, Puts(k, next), CloseStep(k, next)
    PROVE  OneWrites' /\ OutCarryNothing' /\ WritersKnow' /\ ClosersKnow'
<1>0. Home \in Orgs
  BY WorkspaceAssumption
<1>1. \/ UNCHANGED record
      \/ /\ close[k].pc = "clear" /\ next.pc = "clearing" /\ next.todo = close[k].todo
         /\ record' = [record EXCEPT ![close[k].who] = [close[k].mine EXCEPT ![Home] = "none"]]
  BY CloseOfMembers DEF SamePeople
<1>2. /\ \A p \in People : record'[p][Home] = record[p][Home] \/ record'[p][Home] = "none"
      /\ \A p \in People, o \in Orgs : o # Home => record'[p][o] = record[p][o]
  BY <1>1, ClearedRecord
<1>3. \A a \in Actors : Writing(a) => UNCHANGED <<member, record>> /\ \A j \in Closers : close'[j].pc = "idle"
  <2> SUFFICES ASSUME NEW a \in Actors, Writing(a)
               PROVE  UNCHANGED <<member, record>> /\ next.pc = "idle"
    BY ClosePut DEF Writing, OneWrites, Closing
  <2>1. Closing(k, "idle")
    BY DEF Writing, OneWrites
  <2>2. "records" \in LocksOf(op[a].kind)
    BY DEF Writing, LocksOf
  <2>3. CloseEnded(k, next)
    BY <2>1, <2>2 DEF CloseStep, CloseBegun, LiveListed, StopTried, MembersCleared, Closing, Orderly
  <2> QED
    BY <2>1, <2>3, OpenSubIsOne DEF CloseEnded, SamePeople, Closing
<1>4. OneWrites'
  BY <1>3 DEF OneWrites, Writing, Closing
<1>5. OutCarryNothing'
  <2>1. CASE UNCHANGED <<member, invited>>
    <3> SUFFICES ASSUME NEW o \in Orgs, NEW p \in People, member[o][p].status # "active"
                 PROVE  record'[p][o] = "none"
      BY <2>1 DEF OutCarryNothing
    <3> QED
      BY <1>2 DEF OutCarryNothing
  <2>2. CASE /\ Closing(k, "delete") /\ record' = record
             /\ \A o \in Orgs : o # Home => member'[o] = member[o] /\ invited'[o] = invited[o]
    <3>1. \A p \in People : record[p][Home] = "none"
      BY <2>2 DEF ClosersKnow
    <3> QED
      BY <2>2, <3>1 DEF OutCarryNothing
  <2> QED
    BY <2>1, <2>2, CloseOfMembers
<1>6. WritersKnow'
  <2> SUFFICES ASSUME NEW a \in Actors
               PROVE  /\ op[a].kind = "invite" => op[a].pc \in {"places", "send"} /\ op[a].seat = ""
                      /\ op[a].kind = "assign" => op[a].who \in Active(op[a].org)'
                      /\ op[a].pc \in {"assign", "clear"} => op[a].mine = record'[op[a].who]
                      /\ op[a].pc = "drop" => record'[op[a].who][op[a].org] = "none"
    BY DEF WritersKnow, Active
  <2>1. op[a].pc \in {"assign", "clear", "drop"} => Writing(a)
    BY KindOf DEF Writing, WritersKnow
  <2>2. op[a].kind = "assign" => Writing(a)
    BY DEF Writing
  <2> QED
    BY <1>3, <2>1, <2>2 DEF WritersKnow, Active
<1>7. ClosersKnow'
  <2>1. ASSUME NEW j \in Closers, j # k
        PROVE  /\ close[j].pc # "idle" => close[j].clear
               /\ close[j].pc = "clearing" => \A p \in People : record'[p][Home] # "none" => p \in close[j].todo
               /\ close[j].pc = "clear" =>
                     /\ close[j].who \in People
                     /\ \A p \in People : record'[p][Home] # "none" => p \in close[j].todo \cup {close[j].who}
                     /\ \A o \in Orgs : o # Home => close[j].mine[o] = record'[close[j].who][o]
               /\ close[j].pc = "delete" => \A p \in People : record'[p][Home] = "none"
    BY <1>2 DEF ClosersKnow, Closing
  <2>2. /\ next.pc # "idle" => next.clear
        /\ next.pc = "clearing" => \A p \in People : record'[p][Home] # "none" => p \in next.todo
        /\ next.pc = "clear" =>
              /\ next.who \in People
              /\ \A p \in People : record'[p][Home] # "none" => p \in next.todo \cup {next.who}
              /\ \A o \in Orgs : o # Home => next.mine[o] = record'[next.who][o]
        /\ next.pc = "delete" => \A p \in People : record'[p][Home] = "none"
    <3>1. CASE CloseBegun(k, next)
      BY <3>1 DEF CloseBegun, Orderly
    <3>2. CASE LiveListed(k, next)
      BY <3>2 DEF LiveListed, SameClose, ClosersKnow, Closing
    <3>3. CASE StopTried(k, next)
      BY <3>3 DEF StopTried, SameClose, ClosersKnow, Closing
    <3>4. CASE MembersCleared(k, next)
      <4>1. close[k].clear /\ next.clear /\ closeScene.faults = {} /\ ~Rejects("memberRead")
        BY <3>4 DEF MembersCleared, SameClose, ClosersKnow, Closing, Orderly, Rejects
      <4>2. \A p \in People : record[p][Home] # "none" => p \in Active(Home)
        BY <1>0 DEF OutCarryNothing, Active
      <4>3. close[k].todo \subseteq People
        BY DEF CloseTypes, CloseType
      <4>4. CASE close[k].pc \in {"stop", "members"}
        BY <3>4, <4>1, <4>2, <4>4 DEF MembersCleared, SamePeople
      <4>5. CASE close[k].pc = "clearing"
        <5>1. \A p \in People : record[p][Home] # "none" => p \in close[k].todo
          BY <4>5 DEF ClosersKnow, Closing
        <5> QED
          BY <3>4, <4>1, <4>3, <4>5, <5>1 DEF MembersCleared, SamePeople
      <4>6. CASE close[k].pc = "clear"
        <5>1. \A p \in People : record[p][Home] # "none" => p \in close[k].todo \cup {close[k].who}
          BY <4>6 DEF ClosersKnow, Closing
        <5>2. next.pc = "clearing" /\ next.todo = close[k].todo
              /\ record' = [record EXCEPT ![close[k].who] = [close[k].mine EXCEPT ![Home] = "none"]]
          BY <3>4, <4>1, <4>6 DEF MembersCleared
        <5>3. record'[close[k].who][Home] = "none"
              /\ \A p \in People : p # close[k].who => record'[p] = record[p]
          BY <4>6, <5>2, ClearedRecord
        <5> QED
          BY <4>1, <5>1, <5>2, <5>3
      <4> QED
        BY <3>4, <4>4, <4>5, <4>6 DEF MembersCleared
    <3>5. CASE CloseEnded(k, next)
      BY <3>5, OpenSubIsOne DEF CloseEnded
    <3> QED
      BY <3>1, <3>2, <3>3, <3>4, <3>5 DEF CloseStep
  <2> QED
    BY <2>1, <2>2, ClosePut DEF ClosersKnow, Closing
<1> QED
  BY <1>4, <1>5, <1>6, <1>7

-----------------------------------------------------------------------------
(* The workspace. *)

\* One of the members' operations goes on.
LEMMA MembersStep ==
    ASSUME WorkspaceInv, UNCHANGED closeVars, memberScene' = memberScene,
           NEW a \in Actors, NEW next \in OpType, Becomes(a, next), Shape(a, next),
           "records" \in memberScene.serial /\ Begun(a, next) /\ next.kind \in {"assign", "remove"} =>
               \A k \in Closers : Closing(k, "idle")
    PROVE  WorkspaceInv'
<1> USE DEF WorkspaceInv
<1>1. PeopleMove(a, next) /\ exists' = exists /\ op[a].org \in Orgs
  BY PeopleMoves, KindOf DEF closeVars
<1>2. MemberTypes' /\ OpsGo' /\ InvitedAreOut' /\ OneDecides'
  BY <1>1, MemberTypesStay, OpsGoStays, InvitedStayOut, OneDecidesStays
<1>3. AdminRemains' /\ AnotherRemains'
  BY <1>1, AdminsRemain
<1>4. CloseTypes' /\ NothingRuns'
  BY DEF closeVars, CloseTypes, NothingRuns, Stopped, Closing
<1>5. RecordsAreClean'
  <2>1. Orderly' => Orderly
    BY DEF Orderly, closeVars
  <2> SUFFICES ASSUME Orderly
               PROVE  OneWrites' /\ OutCarryNothing' /\ WritersKnow' /\ ClosersKnow'
    BY <2>1 DEF RecordsAreClean
  <2>2. OneWrites /\ OutCarryNothing /\ WritersKnow /\ ClosersKnow /\ "records" \in memberScene.serial
    BY DEF RecordsAreClean, Orderly
  <2>3. OneWrites'
    BY <2>2, OneWritesStays
  <2>4. OutCarryNothing' /\ WritersKnow' /\ ClosersKnow'
    BY <1>1, <2>2, OutStayOut, WritersStay, ClosersStay
  <2> QED
    BY <2>3, <2>4
<1> QED
  BY <1>2, <1>3, <1>4, <1>5

LEMMA RecordsAsTheyWere ==
    ASSUME RecordsAreClean, UNCHANGED <<memberVars, close, closeScene>>
    PROVE  RecordsAreClean'
<1>1. Orderly' => Orderly
  BY DEF Orderly, memberVars
<1>2. OneWrites => OneWrites'
  BY DEF OneWrites, Closing, memberVars
<1>3. OutCarryNothing => OutCarryNothing'
  BY DEF OutCarryNothing, memberVars
<1>4. WritersKnow => WritersKnow'
  BY DEF WritersKnow, Active, memberVars
<1>5. ClosersKnow => ClosersKnow'
  BY DEF ClosersKnow, Closing, memberVars
<1> QED
  BY <1>1, <1>2, <1>3, <1>4, <1>5 DEF RecordsAreClean

LEMMA CloseSteps ==
    ASSUME WorkspaceInv, CloseShape
    PROVE  WorkspaceInv'
<1> USE DEF WorkspaceInv
<1>1. UNCHANGED <<closeScene, memberScene, op, calls>>
  BY DEF CloseShape
<1>2. PICK k \in Closers, next \in CloseType : Puts(k, next) /\ CloseStep(k, next)
  BY DEF CloseShape
<1>3. MemberTypes' /\ InvitedAreOut' /\ AdminRemains' /\ AnotherRemains'
  BY <1>1, <1>2, MembersTypedInClose, AdminsRemainInClose
<1>4. OpsGo' /\ OneDecides'
  BY <1>1 DEF OpsGo, OneDecides
<1>5. CloseTypes' /\ NothingRuns'
  BY <1>1, <1>2, CloseTypesStay, NothingRunsInClose
<1>6. RecordsAreClean'
  BY <1>1, <1>2, RecordsInClose DEF RecordsAreClean, Orderly
<1> QED
  BY <1>3, <1>4, <1>5, <1>6

LEMMA AroundSteps ==
    ASSUME WorkspaceInv, NEW s \in Subscriptions, Subscribe(s) \/ SubscriptionMoves(s)
    PROVE  WorkspaceInv'
<1> USE DEF WorkspaceInv
<1>1. UNCHANGED <<memberVars, exists, close, closeScene>>
  BY DEF Subscribe, SubscriptionMoves
<1>2. CloseTypes' /\ NothingRuns'
  BY NothingRunsAround
<1>3. MemberTypes' /\ OpsGo' /\ InvitedAreOut' /\ OneDecides'
  BY <1>1 DEF memberVars, MemberTypes, OpsGo, InvitedAreOut, OneDecides
<1>4. AdminRemains' /\ AnotherRemains'
  BY <1>1 DEF memberVars, AdminRemains, AnotherRemains, HasStaff, Leaving, Admins, Active, Rejects
<1>5. RecordsAreClean'
  BY <1>1, RecordsAsTheyWere
<1> QED
  BY <1>2, <1>3, <1>4, <1>5

LEMMA WorkspaceSteps == WorkspaceInv /\ [WorkspaceNext]_workspaceVars => WorkspaceInv'
<1> SUFFICES ASSUME WorkspaceInv, [WorkspaceNext]_workspaceVars
             PROVE  WorkspaceInv'
  OBVIOUS
<1>0. MemberTypes /\ OpsGo
  BY DEF WorkspaceInv
<1>1. CASE MembersAct
  <2>1. UNCHANGED closeVars /\ MemberShape
    BY <1>0, <1>1, MemberShapes DEF MembersAct
  <2>2. PICK a \in Actors, next \in OpType : Becomes(a, next) /\ Shape(a, next)
    BY <2>1 DEF MemberShape
  <2>3. ASSUME "records" \in memberScene.serial, Begun(a, next), next.kind \in {"assign", "remove"}
        PROVE  \A k \in Closers : Closing(k, "idle")
    <3>1. op'[a] = next
      BY <1>0, <2>2, Replaced
    <3>2. op'[a] # op[a]
      BY <1>0, <2>3, <3>1, KindOf DEF Begun, Kinds
    <3>3. calls' # calls
      <4>1. calls \in Nat
        BY <1>0 DEF MemberTypes
      <4>2. calls' = calls + 1
        BY <2>3 DEF Begun
      <4> QED
        BY <4>1, <4>2
    <3>4. RecordsFree({b \in Actors : op'[b] # op[b]})
      BY <1>1, <3>3 DEF MembersAct
    <3>5. "records" \in LocksOf(op'[a].kind)
      BY <2>3, <3>1 DEF LocksOf
    <3> QED
      BY <2>3, <3>2, <3>4, <3>5 DEF RecordsFree
  <2> QED
    BY <2>1, <2>2, <2>3, MembersStep DEF MemberShape
<1>2. ASSUME NEW a \in Actors, OrgIsGone(a)
      PROVE  WorkspaceInv'
  <2>1. Becomes(a, IdleOp) /\ IdleOp \in OpType
    BY <1>2, Ending DEF OrgIsGone
  <2>2. Ended(a, IdleOp)
    BY <1>2 DEF OrgIsGone, Ended, SamePeople
  <2>3. ~Begun(a, IdleOp)
    BY IdleOpIsOne DEF Begun, Kinds
  <2> QED
    BY <1>2, <2>1, <2>2, <2>3, MembersStep DEF OrgIsGone, Shape
<1>3. ASSUME NEW k \in Closers,
             \/ \E at \in {"now", "period_end"}, delete \in BOOLEAN, clear \in BOOLEAN :
                   BeginClose(k, at, delete, clear)
             \/ ListLive(k) \/ Stop(k) \/ AllStopped(k)
             \/ ListMembers(k) \/ ReadMember(k) \/ ClearMember(k) \/ ClearFails(k)
             \/ Delete(k) \/ Dies(k)
      PROVE  WorkspaceInv'
  <2>1. MemberTypes /\ CloseTypes
    BY DEF WorkspaceInv
  <2>2. CloseShape
    BY <1>3, <2>1, ClosesBegin, StopsBilling, ClearsMembers, Deletes
  <2> QED
    BY <2>2, CloseSteps
<1>4. CASE CloseNext
  BY <1>2, <1>3, <1>4, AroundSteps DEF CloseNext
<1>5. CASE UNCHANGED <<memberVars, closeVars>>
  <2>1. CloseTypes' /\ NothingRuns'
    BY <1>5 DEF WorkspaceInv, closeVars, CloseTypes, NothingRuns, Stopped, Closing
  <2>2. MemberTypes' /\ OpsGo' /\ InvitedAreOut' /\ OneDecides'
    BY <1>5 DEF WorkspaceInv, memberVars, MemberTypes, OpsGo, InvitedAreOut, OneDecides
  <2>3. AdminRemains' /\ AnotherRemains'
    BY <1>5 DEF WorkspaceInv, memberVars, closeVars, AdminRemains, AnotherRemains, HasStaff, Leaving, Admins,
       Active, Rejects
  <2>4. RecordsAreClean'
    BY <1>5, RecordsAsTheyWere DEF WorkspaceInv, closeVars
  <2> QED
    BY <2>1, <2>2, <2>3, <2>4 DEF WorkspaceInv
<1> QED
  BY <1>1, <1>4, <1>5 DEF WorkspaceNext, workspaceVars

LEMMA WorkspaceBegins == MemberInit /\ WorkspaceInit => WorkspaceInv
<1> SUFFICES ASSUME MemberInit, WorkspaceInit
             PROVE  WorkspaceInv
  OBVIOUS
<1>1. memberScene \in MemberSceneType /\ closeScene \in CloseSceneType
  BY MemberSceneAssumption DEF MemberInit, WorkspaceInit
<1>2. \A a \in Actors : op[a] = IdleOp
  BY DEF MemberInit
<1>3. \A k \in Closers : close[k] = OpenSub
  BY DEF WorkspaceInit
<1>4. MemberTypes
  <2>1. op \in [Actors -> OpType] /\ calls \in Nat
    BY IdleOpIsOne DEF MemberInit
  <2>2. /\ member \in [Orgs -> [People -> MembershipType]]
        /\ invited \in [Orgs -> [People -> InvitationType]]
    BY DEF MemberInit, MembershipType, InvitationType, Statuses, Roles
  <2>3. \A p \in People : memberScene.held[p] \in SeatRecords
    BY <1>1 DEF MemberSceneType, SeatRecords
  <2>4. record \in [People -> [Orgs -> SeatRecords]]
    BY <2>3 DEF MemberInit, SeatRecords
  <2> QED
    BY <1>1, <2>1, <2>2, <2>4 DEF MemberTypes
<1>5. OpsGo /\ OneDecides /\ AnotherRemains
  BY <1>2, IdleOpIsOne DEF OpsGo, OneDecides, AnotherRemains, Leaving, StepsOf
<1>6. InvitedAreOut
  BY DEF MemberInit, InvitedAreOut
<1>7. AdminRemains
  <2> SUFFICES ASSUME NEW o \in Orgs, memberScene.staff[o] \cap memberScene.admins # {}
               PROVE  Admins(o) # {}
    BY DEF AdminRemains
  <2>1. PICK p \in memberScene.staff[o] : p \in memberScene.admins
    OBVIOUS
  <2>2. p \in People
    BY <1>1, <2>1 DEF MemberSceneType
  <2>3. member[o][p].status = "active" /\ member[o][p].role = "admin"
    BY <2>1, <2>2 DEF MemberInit
  <2> QED
    BY <2>2, <2>3 DEF Admins, Active
<1>8. CloseTypes
  <2>1. close \in [Closers -> CloseType]
    BY OpenSubIsOne DEF WorkspaceInit
  <2>2. sub \in [Subscriptions -> {"none", "canceled"} \cup LIVE]
    BY <1>1 DEF WorkspaceInit, CloseSceneType, LIVE
  <2> QED
    BY <1>1, <2>1, <2>2 DEF WorkspaceInit, CloseTypes
<1>9. NothingRuns
  BY <1>3, OpenSubIsOne DEF WorkspaceInit, NothingRuns, Stopped, Closing
<1>10. OneWrites /\ ClosersKnow /\ WritersKnow
  BY <1>2, <1>3, IdleOpIsOne, OpenSubIsOne DEF OneWrites, ClosersKnow, WritersKnow, Closing
<1>11. OutCarryNothing
  BY DEF MemberInit, OutCarryNothing
<1> QED
  BY <1>4, <1>5, <1>6, <1>7, <1>8, <1>9, <1>10, <1>11 DEF WorkspaceInv, RecordsAreClean

LEMMA WorkspaceIsInvariant == Spec => []WorkspaceInv
<1>1. Init => WorkspaceInv
  BY WorkspaceBegins DEF Init, WorkspaceInit
<1>2. WorkspaceInv /\ [Next]_vars => WorkspaceInv'
  <2>1. [Next]_vars => [WorkspaceNext]_workspaceVars
    BY DEF Next, vars
  <2> QED
    BY <2>1, WorkspaceSteps
<1> QED
  BY <1>1, <1>2, PTL DEF Spec

\* Where roles can be read, and role changes and removals follow one another, a
\* workspace that exists is never without somebody who may administer it, however
\* its members come, go, accept for each other, and close it meanwhile.
THEOREM SomebodyAdministers == Spec => []AdminRemains
<1>1. WorkspaceInv => AdminRemains
  BY DEF WorkspaceInv
<1> QED
  BY <1>1, WorkspaceIsInvariant, PTL

\* When the organization is gone, no subscription of it is live but those begun
\* behind the close's back; and where operations on records follow one another and
\* nothing fails, nobody who has left still carries the workspace in their metadata,
\* not even while operations run.
THEOREM NothingIsLeftBehind == Spec => []NothingLeftBehind
<1>1. WorkspaceInv => NothingLeftBehind
  <2> SUFFICES ASSUME WorkspaceInv
               PROVE  NothingLeftBehind
    OBVIOUS
  <2>1. ~exists => \A s \in Subscriptions : sub[s] \in {"active", "past_due", "ending"} => s \in late
    BY DEF WorkspaceInv, NothingRuns, LIVE
  <2>2. Orderly => \A o \in Orgs, p \in People : member[o][p].status # "active" => record[p][o] = "none"
    BY DEF WorkspaceInv, RecordsAreClean, OutCarryNothing
  <2> QED
    BY <2>1, <2>2 DEF NothingLeftBehind, Orderly
<1> QED
  BY <1>1, WorkspaceIsInvariant, PTL

-----------------------------------------------------------------------------
(* The organization behind a row. *)

ReaderType == [pc : {"idle", "find", "create", "again", "point", "failed"}, found : Nat]

MirrorTypes ==
    /\ mirrorScene \in MirrorSceneType
    /\ backing \in Nat /\ pointer \in Nat /\ made \in Nat
    /\ reader \in [Readers -> ReaderType]

\* Whoever looks for the second time finds something, or has been hit.
SearchEnds ==
    \A r \in Readers :
        /\ Where(r, "failed") => r \in spoiled
        /\ Where(r, "again") => r \in spoiled \/ backing # 0

\* Without deletions nobody knows of any organization but the one there is.
OneMade ==
    ~mirrorScene.deletes =>
        /\ made \in {0, 1} /\ backing = made
        /\ pointer \in {0, backing}
        /\ \A r \in Readers : Where(r, "point") => backing = 1 /\ reader[r].found = 1

MirrorInv == MirrorTypes /\ SearchEnds /\ OneMade


LEMMA MirrorBegins == MirrorInit => MirrorInv
BY MirrorSceneAssumption
   DEF MirrorInit, MirrorInv, MirrorTypes, SearchEnds, OneMade, ReaderType, Where

LEMMA MirrorSteps == MirrorInv /\ [MirrorNext]_mirrorVars => MirrorInv'
<1> SUFFICES ASSUME MirrorInv, [MirrorNext]_mirrorVars PROVE MirrorInv'
  OBVIOUS
<1> USE DEF MirrorInv, MirrorTypes, SearchEnds, OneMade, ReaderType, Where, Moves, Finds
<1>1. ASSUME NEW r \in Readers, NEW anew \in BOOLEAN, AskOrg(r, anew) PROVE MirrorInv'
  BY <1>1 DEF AskOrg
<1>2. ASSUME NEW r \in Readers, Find(r) PROVE MirrorInv'
  BY <1>2 DEF Find
<1>3. ASSUME NEW r \in Readers, FindThrows(r) PROVE MirrorInv'
  BY <1>3 DEF FindThrows
<1>4. ASSUME NEW r \in Readers, Create(r) PROVE MirrorInv'
  <2>1. MirrorTypes'
    BY <1>4 DEF Create
  <2>2. SearchEnds'
    BY <1>4 DEF Create
  <2>3. OneMade'
    <3>1. CASE backing = 0
      BY <1>4, <3>1 DEF Create
    <3>2. CASE backing # 0
      BY <1>4, <3>2 DEF Create
    <3> QED
      BY <3>1, <3>2
  <2> QED
    BY <2>1, <2>2, <2>3
<1>5. ASSUME NEW r \in Readers, CreateThrows(r) PROVE MirrorInv'
  <2>1. MirrorTypes'
    BY <1>5 DEF CreateThrows
  <2>2. SearchEnds'
    BY <1>5 DEF CreateThrows
  <2>3. OneMade'
    <3>1. CASE backing = 0
      BY <1>5, <3>1 DEF CreateThrows
    <3>2. CASE backing # 0
      BY <1>5, <3>2 DEF CreateThrows
    <3> QED
      BY <3>1, <3>2
  <2> QED
    BY <2>1, <2>2, <2>3
<1>6. ASSUME NEW r \in Readers, LookAgain(r) PROVE MirrorInv'
  BY <1>6 DEF LookAgain
<1>7. ASSUME NEW r \in Readers, WritePointer(r) PROVE MirrorInv'
  BY <1>7 DEF WritePointer
<1>8. CASE DeleteBacking
  BY <1>8 DEF DeleteBacking
<1>9. CASE UNCHANGED mirrorVars
  BY <1>9 DEF mirrorVars
<1> QED
  BY <1>1, <1>2, <1>3, <1>4, <1>5, <1>6, <1>7, <1>8, <1>9 DEF MirrorNext

LEMMA MirrorIsKept == MirrorInv => MirrorAnswers
BY DEF MirrorInv, SearchEnds, OneMade, MirrorAnswers, Where

-----------------------------------------------------------------------------
(* The claims. *)

ClaimSteps == {"verify", "listOrgs", "makeOrg", "join", "customer", "mint", "mark"}
ServingType ==
    [pc : {"idle", "send", "create", "consume"} \cup ClaimSteps,
     kind : {"none"} \cup ClaimKinds, claim : SUBSET Claims, org : Nat, right : BOOLEAN, key : Nat]
EntryType == [status : {"none", "pending", "ready", "error", "gone"}, key : Nat]
KeyType == [id : Nat \ {0}, org : Nat, for : SUBSET Claims]

ClaimTypes ==
    /\ claimScene \in ClaimSceneType
    /\ claim \in [Claims -> EntryType]
    /\ orgCount \in Nat /\ requests \in Nat /\ joined \subseteq Nat
    /\ keys \subseteq KeyType /\ IsFiniteSet(keys)
    /\ handed \in [1..MaxRequests -> Seq(SUBSET Claims)]
    /\ serving \in [Desks -> ServingType]

\* What a request carries is what its step needs.
CarriesItsClaim ==
    \A h \in Desks :
        /\ serving[h].pc = "idle" => serving[h] = NoRequest
        /\ serving[h].pc # "mark" => serving[h].key = NoKey
        /\ serving[h].claim # {} => \E c \in Claims : serving[h].claim = {c}
        /\ serving[h].pc \in {"verify", "listOrgs", "join", "mark", "consume"} => serving[h].claim # {}
        /\ serving[h].pc \in {"send", "create"} => serving[h].claim = {}

\* Every key was asked for by a request of its own, so that there are no more keys
\* than requests.
Minting == {h \in Desks : serving[h].pc \notin {"idle", "mark"}}
KeysAreCounted ==
    /\ requests <= MaxRequests
    /\ IsFiniteSet(Minting)
    /\ Cardinality(keys) + Cardinality(Minting) <= requests
    /\ \A key \in keys : key.id <= Cardinality(keys)
    /\ \A key, other \in keys : key.id = other.id => key = other

\* A key a request or a claim holds has not been handed out.
HeldBy(id, for) == \E key \in keys : key.id = id /\ key.for = for /\ handed[id] = <<>>
KeysAreHeld ==
    /\ \A n \in 1..MaxRequests : n > Cardinality(keys) => handed[n] = <<>>
    /\ \A key \in keys : handed[key.id] \in {<<>>, <<key.for>>}
    /\ \A h \in Desks : serving[h].pc = "mark" => HeldBy(serving[h].key, serving[h].claim)
    /\ \A c \in Claims : claim[c].status = "ready" => HeldBy(claim[c].key, {c})
    /\ \A h, g \in Desks :
          serving[h].pc = "mark" /\ serving[g].pc = "mark" /\ serving[h].key = serving[g].key => h = g
    /\ \A h \in Desks, c \in Claims :
          serving[h].pc = "mark" /\ claim[c].status = "ready" => serving[h].key # claim[c].key

\* Requests that follow one another are served alone.
ServedAlone ==
    claimScene.serial =>
        \A h, g \in Desks : serving[h].pc # "idle" /\ serving[g].pc # "idle" => h = g

\* A claim a request works on waits for it, and its key is where it is looked for.
KeysStay ==
    claimScene.serial /\ claimScene.faults = {} /\ ~claimScene.expires =>
        /\ \A h \in Desks, c \in Claims :
              serving[h].pc \in ClaimSteps /\ c \in serving[h].claim => claim[c].status = "pending"
        /\ \A key \in keys : Held(key)

\* The user joins the first organization made for them, and none is made once they
\* are in one.
JoinsOne ==
    claimScene.serial =>
        /\ \A o, q \in joined : o = q
        /\ \A h \in Desks : serving[h].claim # {} =>
              /\ serving[h].pc \in {"makeOrg", "join"} => joined = {}
              /\ serving[h].pc \in {"customer", "mint"} => serving[h].org \in joined
        /\ \A key \in keys : key.for # {} => key.org \in joined

ClaimInv ==
    /\ ClaimTypes /\ CarriesItsClaim /\ KeysAreCounted /\ KeysAreHeld
    /\ ServedAlone /\ KeysStay /\ JoinsOne

LEMMA ClaimOfOne == ASSUME NEW h \in Desks, NEW c \in Claims, serving[h].claim = {c} PROVE ClaimOf(h) = c
BY DEF ClaimOf

\* A request that works on a claim works on one there is.
LEMMA ClaimOfIsOne ==
    ASSUME CarriesItsClaim, NEW h \in Desks, ForClaim(h)
    PROVE  ClaimOf(h) \in Claims /\ serving[h].claim = {ClaimOf(h)}
BY ClaimOfOne DEF CarriesItsClaim, ForClaim

LEMMA ClaimsBegin == ClaimInit => ClaimInv
<1> SUFFICES ASSUME ClaimInit PROVE ClaimInv
  OBVIOUS
<1> USE DEF ClaimInit, NoRequest, NoClaim, NoKey
<1>1. ClaimTypes
  BY ClaimSceneAssumption, FS_EmptySet DEF ClaimTypes, ServingType, EntryType
<1>2. CarriesItsClaim
  BY DEF CarriesItsClaim
<1>3. KeysAreCounted
  <2>1. Minting = {}
    BY DEF Minting
  <2> QED
    BY <2>1, FS_EmptySet, ClaimAssumption DEF KeysAreCounted
<1>4. KeysAreHeld
  BY DEF KeysAreHeld
<1>5. ServedAlone /\ KeysStay /\ JoinsOne
  BY DEF ServedAlone, KeysStay, JoinsOne, ClaimSteps
<1> QED
  BY <1>1, <1>2, <1>3, <1>4, <1>5 DEF ClaimInv

\* The key minted next is new, and has the next number.
LEMMA MintedIsNew ==
    ASSUME ClaimTypes, NEW h \in Desks, \A key \in keys : key.id <= Cardinality(keys)
    PROVE  /\ Minted(h) \subseteq KeyType
           /\ IsFiniteSet(Minted(h))
           /\ Cardinality(keys) \in Nat
           /\ Cardinality(Minted(h)) = Cardinality(keys) + 1
<1> DEFINE key == [id |-> Cardinality(keys) + 1, org |-> serving[h].org, for |-> serving[h].claim]
<1>1. Cardinality(keys) \in Nat
  BY FS_CardinalityType DEF ClaimTypes
<1>2. key \in KeyType
  BY <1>1 DEF KeyType, ClaimTypes, ServingType
<1>3. key \notin keys
  BY <1>1
<1> HIDE DEF key
<1>4. Minted(h) = keys \cup {key}
  BY DEF Minted, key
<1> QED
  BY <1>1, <1>2, <1>3, <1>4, FS_AddElement DEF ClaimTypes

\* The shapes of a request's steps: it begins, it goes on, it is over with nothing
\* handed out, it mints a key, it marks its claim, it answers for one.
Hands(h, next) == next \in ServingType /\ serving' = [serving EXCEPT ![h] = next]

TakesUp(h, next) ==
    /\ serving[h].pc = "idle" /\ Hands(h, next)
    /\ claimScene.serial => \A g \in Desks : serving[g].pc = "idle"
    /\ next.pc \in {"makeOrg", "send", "verify", "consume"} /\ next.key = NoKey
    /\ \/ next.pc \in {"makeOrg", "send"} /\ next.claim = {}
       \/ \E c \in Claims : /\ next.claim = {c}
                            /\ \/ next.pc = "verify" /\ claim[c].status = "pending"
                               \/ next.pc = "consume"
    /\ requests < MaxRequests /\ requests' = requests + 1
    /\ UNCHANGED <<claimScene, claim, orgCount, joined, keys, handed>>

Moved(h, next) ==
    /\ Hands(h, next)
    /\ next.claim = serving[h].claim /\ next.key = NoKey
    /\ \/ serving[h].pc = "send" /\ next.pc = "create" /\ UNCHANGED joined
       \/ serving[h].pc = "verify" /\ next.pc = "listOrgs" /\ UNCHANGED joined
       \/ serving[h].pc = "listOrgs" /\ next.pc = "makeOrg" /\ joined = {} /\ UNCHANGED joined
       \/ serving[h].pc = "listOrgs" /\ next.pc = "customer" /\ next.org \in joined /\ UNCHANGED joined
       \/ serving[h].pc = "makeOrg" /\ next.pc = "join" /\ next.claim # {} /\ UNCHANGED joined
       \/ serving[h].pc = "makeOrg" /\ next.pc = "customer" /\ next.claim = {} /\ UNCHANGED joined
       \/ /\ serving[h].pc = "join" /\ next.pc = "customer" /\ next.org = serving[h].org
          /\ joined' = joined \cup {next.org}
       \/ serving[h].pc = "customer" /\ next.pc = "mint" /\ next.org = serving[h].org /\ UNCHANGED joined
    /\ orgCount' \in Nat
    /\ UNCHANGED <<claimScene, claim, keys, handed, requests>>

Dropped(h) ==
    /\ serving[h].pc \in {"send", "create", "verify", "makeOrg", "join", "customer", "mint"}
    /\ Hands(h, NoRequest)
    /\ \/ UNCHANGED claim
       \/ \E c \in Claims : /\ c \in serving[h].claim \/ claim[c].status = "none"
                            /\ claim' = [claim EXCEPT ![c] = claim'[c]]
                            /\ claim'[c] \in EntryType /\ claim'[c].status # "ready"
    /\ \/ UNCHANGED joined
       \/ serving[h].pc = "join" /\ joined' = joined \cup {serving[h].org}
    /\ UNCHANGED keys \/ (serving[h].pc = "mint" /\ "mint" \in claimScene.faults /\ keys' = Minted(h))
    /\ orgCount' \in Nat
    /\ UNCHANGED <<claimScene, handed, requests>>

LEMMA RequestsBegin ==
    ASSUME ClaimTypes, NEW h \in Desks,
           AskAnonymous(h) \/ AskIdentity(h) \/ \E c \in Claims : AskToken(h, c) \/ \E right \in BOOLEAN : AskClaim(h, c, right)
    PROVE  \E next \in ServingType : TakesUp(h, next)
<1> USE DEF Request, Serving, TakesUp, Hands, ClaimTypes, ClaimSceneType
<1>1. ASSUME NEW next \in ServingType, Request(h, next), next.key = NoKey,
             \/ next.pc \in {"makeOrg", "send"} /\ next.claim = {}
             \/ \E c \in Claims : /\ next.claim = {c}
                                  /\ \/ next.pc = "verify" /\ claim[c].status = "pending"
                                     \/ next.pc = "consume"
      PROVE  TakesUp(h, next)
  <2>1. requests < MaxRequests
    BY <1>1, ClaimAssumption
  <2>2. claimScene.serial => \A g \in Desks : serving[g].pc = "idle"
    BY <1>1
  <2> QED
    BY <1>1, <2>1, <2>2
<1>2. CASE AskAnonymous(h)
  <2> DEFINE next == [NoRequest EXCEPT !.pc = "makeOrg", !.kind = "anonymous"]
  <2>1. next \in ServingType /\ next.key = NoKey /\ next.pc = "makeOrg" /\ next.claim = {}
    BY DEF NoRequest, NoKey, ServingType, ClaimKinds, ClaimSteps
  <2>2. Request(h, next)
    BY <1>2 DEF AskAnonymous
  <2> HIDE DEF next
  <2> QED
    BY <1>1, <2>1, <2>2
<1>3. CASE AskIdentity(h)
  <2> DEFINE next == [NoRequest EXCEPT !.pc = "send", !.kind = "identity"]
  <2>1. next \in ServingType /\ next.key = NoKey /\ next.pc = "send" /\ next.claim = {}
    BY DEF NoRequest, NoKey, ServingType, ClaimKinds, ClaimSteps
  <2>2. Request(h, next)
    BY <1>3 DEF AskIdentity
  <2> HIDE DEF next
  <2> QED
    BY <1>1, <2>1, <2>2
<1>4. ASSUME NEW c \in Claims, AskToken(h, c) PROVE \E next \in ServingType : TakesUp(h, next)
  <2> DEFINE next == [NoRequest EXCEPT !.pc = "consume", !.kind = "token", !.claim = {c}]
  <2>1. next \in ServingType /\ next.key = NoKey /\ next.pc = "consume" /\ next.claim = {c}
    BY DEF NoRequest, NoKey, ServingType, ClaimKinds, ClaimSteps
  <2>2. Request(h, next)
    BY <1>4 DEF AskToken
  <2> HIDE DEF next
  <2> QED
    BY <1>1, <2>1, <2>2
<1>5. ASSUME NEW c \in Claims, NEW right \in BOOLEAN, AskClaim(h, c, right)
      PROVE  \E next \in ServingType : TakesUp(h, next)
  <2> DEFINE next == [NoRequest EXCEPT !.pc = "verify", !.kind = "claim", !.claim = {c}, !.right = right]
  <2>1. next \in ServingType /\ next.key = NoKey /\ next.pc = "verify" /\ next.claim = {c}
    BY DEF NoRequest, NoKey, ServingType, ClaimKinds, ClaimSteps
  <2>2. Request(h, next) /\ claim[c].status = "pending"
    BY <1>5 DEF AskClaim
  <2> HIDE DEF next
  <2> QED
    BY <1>1, <2>1, <2>2
<1> QED
  BY <1>2, <1>3, <1>4, <1>5

\* Only the step changes, or the step and the organization.
LEMMA RequestsMove ==
    ASSUME ClaimTypes, CarriesItsClaim, NEW h \in Desks,
           \/ SendCode(h) \/ ListOrgs(h) \/ MakeOrg(h) \/ Join(h) \/ EnsureCustomer(h)
           \/ Verify(h) /\ serving[h].right /\ codes > 0
    PROVE  \E next \in ServingType : Moved(h, next)
<1> USE DEF Continue, Serving, Hands
<1>1. serving[h] \in ServingType /\ (serving[h].pc # "mark" => serving[h].key = NoKey)
  BY DEF ClaimTypes, CarriesItsClaim
<1>2. ASSUME NEW pc \in {"create", "listOrgs", "makeOrg", "join", "customer", "mint"}, NEW org \in Nat
      PROVE  /\ [serving[h] EXCEPT !.pc = pc] \in ServingType
             /\ [serving[h] EXCEPT !.pc = pc, !.org = org] \in ServingType
  BY <1>1 DEF ServingType, ClaimSteps
<1>3. orgCount \in Nat
  BY DEF ClaimTypes
<1>4. CASE SendCode(h)
  <2> DEFINE next == [serving[h] EXCEPT !.pc = "create"]
  <2>1. next \in ServingType /\ next.claim = serving[h].claim /\ next.key = serving[h].key /\ next.pc = "create"
    BY <1>1, <1>2 DEF ServingType
  <2>2. serving' = [serving EXCEPT ![h] = next] /\ serving[h].pc = "send"
    BY <1>4 DEF SendCode
  <2> HIDE DEF next
  <2> QED
    BY <1>1, <1>3, <1>4, <2>1, <2>2 DEF SendCode, Moved
<1>5. CASE Verify(h) /\ serving[h].right /\ codes > 0
  <2> DEFINE next == [serving[h] EXCEPT !.pc = "listOrgs"]
  <2>1. next \in ServingType /\ next.claim = serving[h].claim /\ next.key = serving[h].key /\ next.pc = "listOrgs"
    BY <1>1, <1>2 DEF ServingType
  <2>2. serving' = [serving EXCEPT ![h] = next] /\ serving[h].pc = "verify"
    BY <1>5 DEF Verify
  <2> HIDE DEF next
  <2> QED
    BY <1>1, <1>3, <1>5, <2>1, <2>2 DEF Verify, Moved
<1>6. CASE ListOrgs(h) /\ joined = {}
  <2> DEFINE next == [serving[h] EXCEPT !.pc = "makeOrg"]
  <2>1. next \in ServingType /\ next.claim = serving[h].claim /\ next.key = serving[h].key /\ next.pc = "makeOrg"
    BY <1>1, <1>2 DEF ServingType
  <2>2. serving' = [serving EXCEPT ![h] = next] /\ serving[h].pc = "listOrgs"
    BY <1>6 DEF ListOrgs
  <2> HIDE DEF next
  <2> QED
    BY <1>1, <1>3, <1>6, <2>1, <2>2 DEF ListOrgs, Moved
<1>7. CASE ListOrgs(h) /\ joined # {}
  <2>1. PICK o \in joined : serving' = [serving EXCEPT ![h].pc = "customer", ![h].org = o]
    BY <1>7 DEF ListOrgs
  <2> DEFINE next == [serving[h] EXCEPT !.pc = "customer", !.org = o]
  <2>2. o \in Nat
    BY DEF ClaimTypes
  <2>3. next \in ServingType /\ next.claim = serving[h].claim /\ next.key = serving[h].key /\ next.pc = "customer" /\ next.org = o
    <3>1. next \in ServingType
      BY <1>2, <2>2
    <3> QED
      BY <1>1, <3>1 DEF ServingType
  <2>4. serving' = [serving EXCEPT ![h] = next] /\ serving[h].pc = "listOrgs"
    BY <1>7, <2>1 DEF ListOrgs
  <2> HIDE DEF next
  <2> QED
    BY <1>1, <1>3, <1>7, <2>1, <2>3, <2>4 DEF ListOrgs, Moved
<1>8. CASE MakeOrg(h)
  <2> DEFINE to == IF ForClaim(h) THEN "join" ELSE "customer"
             next == [serving[h] EXCEPT !.pc = to, !.org = orgCount + 1]
  <2>a. to \in {"join", "customer"} /\ (serving[h].claim # {} <=> to = "join") /\ orgCount + 1 \in Nat
    BY <1>3 DEF ForClaim
  <2>1. /\ next \in ServingType /\ next.claim = serving[h].claim /\ next.key = serving[h].key
        /\ next.pc = to
    <3> HIDE DEF to
    <3>1. next \in ServingType
      BY <1>2, <2>a
    <3> QED
      BY <1>1, <3>1 DEF ServingType
  <2>2. serving' = [serving EXCEPT ![h] = next] /\ serving[h].pc = "makeOrg"
    BY <1>8 DEF MakeOrg
  <2> HIDE DEF next, to
  <2>3. orgCount' \in Nat
    BY <1>3, <1>8 DEF MakeOrg
  <2> QED
    BY <1>1, <1>8, <2>a, <2>1, <2>2, <2>3 DEF MakeOrg, Moved
<1>9. CASE Join(h)
  <2> DEFINE next == [serving[h] EXCEPT !.pc = "customer"]
  <2>1. /\ next \in ServingType /\ next.claim = serving[h].claim /\ next.key = serving[h].key /\ next.pc = "customer"
        /\ next.org = serving[h].org
    BY <1>1, <1>2 DEF ServingType
  <2>2. serving' = [serving EXCEPT ![h] = next] /\ serving[h].pc = "join"
    BY <1>9 DEF Join
  <2> HIDE DEF next
  <2> QED
    BY <1>1, <1>3, <1>9, <2>1, <2>2 DEF Join, Moved
<1>10. CASE EnsureCustomer(h)
  <2> DEFINE next == [serving[h] EXCEPT !.pc = "mint"]
  <2>1. /\ next \in ServingType /\ next.claim = serving[h].claim /\ next.key = serving[h].key /\ next.pc = "mint"
        /\ next.org = serving[h].org
    BY <1>1, <1>2 DEF ServingType
  <2>2. serving' = [serving EXCEPT ![h] = next] /\ serving[h].pc = "customer"
    BY <1>10 DEF EnsureCustomer
  <2> HIDE DEF next
  <2> QED
    BY <1>1, <1>3, <1>10, <2>1, <2>2 DEF EnsureCustomer, Moved
<1> QED
  BY <1>4, <1>5, <1>6, <1>7, <1>8, <1>9, <1>10

LEMMA NoRequestIsOne ==
    NoRequest \in ServingType /\ NoRequest.pc = "idle" /\ NoRequest.claim = {} /\ NoRequest.key = NoKey
BY DEF NoRequest, ServingType, NoKey

\* An entry that is marked an error is one no longer waiting, or is gone.
LEMMA ErrorsMark ==
    ASSUME ClaimTypes, NEW c \in Claims, MarkError(c)
    PROVE  claim' = [claim EXCEPT ![c] = claim'[c]] /\ claim'[c] \in EntryType /\ claim'[c].status # "ready"
<1>1. claim[c] \in EntryType
  BY DEF ClaimTypes
<1>2. CASE claim[c].status = "gone"
  BY <1>1, <1>2 DEF MarkError, ClaimTypes
<1>3. CASE claim[c].status # "gone"
  <2>1. claim' = [claim EXCEPT ![c] = [status |-> "error", key |-> NoKey]]
    BY <1>3 DEF MarkError
  <2>2. claim'[c] = [status |-> "error", key |-> NoKey]
    BY <2>1 DEF ClaimTypes
  <2>3. [status |-> "error", key |-> NoKey] \in EntryType
    BY DEF EntryType, NoKey
  <2>4. claim'[c].status # "ready"
    BY <2>2
  <2> QED
    BY <2>1, <2>2, <2>3, <2>4, Zenon
<1> QED
  BY <1>2, <1>3

LEMMA RequestsAreDropped ==
    ASSUME ClaimTypes, CarriesItsClaim, NEW h \in Desks,
           SendFails(h) \/ CreateClaim(h) \/ ClaimThrows(h) \/ (Verify(h) /\ ~(serving[h].right /\ codes > 0))
    PROVE  Dropped(h)
<1> USE NoRequestIsOne DEF Answered, Serving, Hands
<1>1. orgCount \in Nat
  BY DEF ClaimTypes
<1>2. CASE SendFails(h)
  BY <1>1, <1>2 DEF SendFails, Dropped
<1>3. CASE CreateClaim(h)
  <2>1. PICK c \in Claims : claim[c].status = "none" /\ claim' = [claim EXCEPT ![c].status = "pending"]
    BY <1>3 DEF CreateClaim
  <2>2. claim[c] \in EntryType
    BY DEF ClaimTypes
  <2>3. claim' = [claim EXCEPT ![c] = claim'[c]] /\ claim'[c] = [claim[c] EXCEPT !.status = "pending"]
    BY <2>1 DEF ClaimTypes
  <2>4. claim'[c] \in EntryType /\ claim'[c].status # "ready"
    BY <2>2, <2>3 DEF EntryType
  <2> QED
    BY <1>1, <1>3, <2>1, <2>3, <2>4 DEF CreateClaim, Dropped
<1>4. CASE Verify(h) /\ ~(serving[h].right /\ codes > 0)
  <2>1. ForClaim(h) /\ MarkError(ClaimOf(h)) /\ serving[h].pc = "verify"
    BY <1>4 DEF Verify, CarriesItsClaim, ForClaim
  <2>2. ClaimOf(h) \in Claims /\ ClaimOf(h) \in serving[h].claim
    BY <2>1, ClaimOfIsOne
  <2> QED
    BY <1>1, <1>4, <2>1, <2>2, ErrorsMark DEF Verify, Dropped
<1>5. CASE ClaimThrows(h)
  <2>1. UNCHANGED claim \/
        \E c \in Claims : /\ c \in serving[h].claim \/ claim[c].status = "none"
                          /\ claim' = [claim EXCEPT ![c] = claim'[c]]
                          /\ claim'[c] \in EntryType /\ claim'[c].status # "ready"
    <3>1. CASE ForClaim(h)
      <4>1. ClaimOf(h) \in Claims /\ ClaimOf(h) \in serving[h].claim
        BY <3>1, ClaimOfIsOne
      <4>2. MarkError(ClaimOf(h))
        BY <1>5, <3>1 DEF ClaimThrows
      <4> QED
        BY <4>1, <4>2, ErrorsMark
    <3>2. CASE ~ForClaim(h)
      BY <1>5, <3>2 DEF ClaimThrows
    <3> QED
      BY <3>1, <3>2
  <2>2. /\ UNCHANGED joined \/ (serving[h].pc = "join" /\ joined' = joined \cup {serving[h].org})
        /\ UNCHANGED keys \/ (serving[h].pc = "mint" /\ "mint" \in claimScene.faults /\ keys' = Minted(h))
        /\ orgCount' \in Nat
        /\ serving[h].pc \in {"makeOrg", "join", "customer", "mint"}
    BY <1>1, <1>5 DEF ClaimThrows, ThrowsAt, Breaks
  <2> QED
    BY <1>5, <2>1, <2>2 DEF ClaimThrows, Dropped
<1> QED
  BY <1>2, <1>3, <1>4, <1>5

\* A key that is minted for a claim stays with the request; another is the answer.
MintsForClaim(h) ==
    /\ serving[h].pc = "mint" /\ ForClaim(h)
    /\ \E next \in ServingType :
          /\ Hands(h, next)
          /\ next.pc = "mark" /\ next.claim = serving[h].claim /\ next.key = Cardinality(keys) + 1
    /\ keys' = Minted(h)
    /\ UNCHANGED <<claimScene, claim, orgCount, joined, handed, requests>>
MintsToAnswer(h) ==
    /\ serving[h].pc = "mint" /\ ~ForClaim(h)
    /\ Hands(h, NoRequest)
    /\ keys' = Minted(h)
    /\ handed' = [handed EXCEPT ![Cardinality(keys) + 1] = Append(@, {})]
    /\ UNCHANGED <<claimScene, claim, orgCount, joined, requests>>

LEMMA KeysAreMinted ==
    ASSUME ClaimTypes, NEW h \in Desks, Mint(h)
    PROVE  MintsForClaim(h) \/ MintsToAnswer(h)
<1>1. CASE ForClaim(h)
  <2> DEFINE next == [serving[h] EXCEPT !.pc = "mark", !.key = Cardinality(keys) + 1]
  <2>1. Cardinality(keys) \in Nat
    BY FS_CardinalityType DEF ClaimTypes
  <2>2. serving[h] \in ServingType
    BY DEF ClaimTypes
  <2>3. next \in ServingType /\ next.pc = "mark" /\ next.claim = serving[h].claim /\ next.key = Cardinality(keys) + 1
    <3>1. Cardinality(keys) + 1 \in Nat
      BY <2>1
    <3> HIDE <2>1
    <3> QED
      BY <2>2, <3>1 DEF ServingType, ClaimSteps
  <2>4. serving' = [serving EXCEPT ![h] = next]
    BY <1>1 DEF Mint
  <2> HIDE DEF next
  <2> QED
    BY <1>1, <2>3, <2>4 DEF Mint, MintsForClaim, Serving, Hands
<1>2. CASE ~ForClaim(h)
  BY <1>2, NoRequestIsOne DEF Mint, MintsToAnswer, Serving, Answered, Hands
<1> QED
  BY <1>1, <1>2

\* What the request's claim is told; one that is gone is told nothing.
Marks(h, c) ==
    /\ serving[h].pc = "mark" /\ serving[h].claim = {c}
    /\ Hands(h, NoRequest)
    /\ claim' = [claim EXCEPT ![c] = claim'[c]]
    /\ \/ claim[c].status = "gone" /\ claim'[c] = claim[c]
       \/ claim[c].status # "gone" /\ claim'[c] = [status |-> "ready", key |-> serving[h].key]
    /\ UNCHANGED <<claimScene, orgCount, joined, keys, handed, requests>>

LEMMA ClaimsAreMarked ==
    ASSUME ClaimTypes, CarriesItsClaim, NEW h \in Desks, Mark(h)
    PROVE  \E c \in Claims : Marks(h, c)
<1> DEFINE c == ClaimOf(h)
<1>1. serving[h].pc = "mark" /\ ForClaim(h) /\ Hands(h, NoRequest) /\ MarkReady(c, serving[h].key)
  BY NoRequestIsOne DEF Mark, Serving, CarriesItsClaim, ForClaim, Answered, Hands
<1>2. c \in Claims /\ serving[h].claim = {c}
  BY <1>1, ClaimOfIsOne
<1> HIDE DEF c
<1>3. CASE claim[c].status = "gone"
  <2>1. claim' = claim
    BY <1>1, <1>3 DEF MarkReady, ClaimTypes
  <2> QED
    BY <1>1, <1>2, <1>3, <2>1 DEF Mark, Marks, ClaimTypes
<1>4. CASE claim[c].status # "gone"
  <2>1. claim' = [claim EXCEPT ![c] = [status |-> "ready", key |-> serving[h].key]]
    BY <1>1, <1>4 DEF MarkReady
  <2>2. claim'[c] = [status |-> "ready", key |-> serving[h].key]
    BY <1>2, <2>1 DEF ClaimTypes
  <2> QED
    BY <1>1, <1>2, <1>4, <2>1, <2>2 DEF Mark, Marks
<1> QED
  BY <1>3, <1>4

Consumes(h, c) ==
    /\ serving[h].pc = "consume" /\ serving[h].claim = {c}
    /\ Hands(h, NoRequest)
    /\ \/ /\ claim[c].status = "ready"
          /\ handed' = [handed EXCEPT ![claim[c].key] = Append(@, {c})]
          /\ claim' = [claim EXCEPT ![c] = [status |-> "gone", key |-> NoKey]]
       \/ /\ claim[c].status = "error" /\ UNCHANGED handed
          /\ claim' = [claim EXCEPT ![c] = [status |-> "gone", key |-> NoKey]]
       \/ claim[c].status \notin {"ready", "error"} /\ UNCHANGED <<handed, claim>>
    /\ UNCHANGED <<claimScene, orgCount, joined, keys, requests>>

LEMMA ClaimsAreConsumed ==
    ASSUME ClaimTypes, CarriesItsClaim, NEW h \in Desks, ConsumeClaim(h)
    PROVE  \E c \in Claims : Consumes(h, c)
<1> DEFINE c == ClaimOf(h)
<1>1. serving[h].pc = "consume" /\ ForClaim(h) /\ Hands(h, NoRequest)
  BY NoRequestIsOne DEF ConsumeClaim, Serving, CarriesItsClaim, ForClaim, Answered, Hands
<1>2. c \in Claims /\ serving[h].claim = {c}
  BY <1>1, ClaimOfIsOne
<1>3. /\ handed' = IF claim[c].status = "ready" THEN [handed EXCEPT ![claim[c].key] = Append(@, {c})] ELSE handed
      /\ claim' = IF claim[c].status \in {"ready", "error"}
                  THEN [claim EXCEPT ![c] = [status |-> "gone", key |-> NoKey]] ELSE claim
      /\ UNCHANGED <<claimScene, orgCount, joined, keys, requests>>
  BY <1>2 DEF ConsumeClaim
<1> HIDE DEF c
<1> QED
  BY <1>1, <1>2, <1>3 DEF Consumes

\* Every step has one of the shapes.
ClaimShape ==
    \/ \E h \in Desks, next \in ServingType : TakesUp(h, next) \/ Moved(h, next)
    \/ \E h \in Desks : Dropped(h) \/ MintsForClaim(h) \/ MintsToAnswer(h)
    \/ \E h \in Desks, c \in Claims : Marks(h, c) \/ Consumes(h, c)
    \/ \E c \in Claims : Expire(c)
    \/ UNCHANGED claimVars

LEMMA ClaimShapes ==
    ASSUME ClaimTypes, CarriesItsClaim, [ClaimNext]_claimVars PROVE ClaimShape
<1>1. ASSUME NEW h \in Desks,
             AskAnonymous(h) \/ AskIdentity(h) \/ \E c \in Claims : AskToken(h, c) \/ \E right \in BOOLEAN : AskClaim(h, c, right)
      PROVE  ClaimShape
  BY <1>1, RequestsBegin DEF ClaimShape
<1>2. ASSUME NEW h \in Desks,
             \/ SendCode(h) \/ ListOrgs(h) \/ MakeOrg(h) \/ Join(h) \/ EnsureCustomer(h)
             \/ Verify(h) /\ serving[h].right /\ codes > 0
      PROVE  ClaimShape
  BY <1>2, RequestsMove DEF ClaimShape
<1>3. ASSUME NEW h \in Desks,
             SendFails(h) \/ CreateClaim(h) \/ ClaimThrows(h) \/ (Verify(h) /\ ~(serving[h].right /\ codes > 0))
      PROVE  ClaimShape
  BY <1>3, RequestsAreDropped DEF ClaimShape
<1>4. ASSUME NEW h \in Desks, Mint(h) PROVE ClaimShape
  BY <1>4, KeysAreMinted DEF ClaimShape
<1>5. ASSUME NEW h \in Desks, Mark(h) PROVE ClaimShape
  BY <1>5, ClaimsAreMarked DEF ClaimShape
<1>6. ASSUME NEW h \in Desks, ConsumeClaim(h) PROVE ClaimShape
  BY <1>6, ClaimsAreConsumed DEF ClaimShape
<1>7. ASSUME NEW c \in Claims, Expire(c) PROVE ClaimShape
  BY <1>7 DEF ClaimShape
<1>8. CASE UNCHANGED claimVars
  BY <1>8 DEF ClaimShape
<1> QED
  BY <1>1, <1>2, <1>3, <1>4, <1>5, <1>6, <1>7, <1>8 DEF ClaimNext

\* Only the request that takes the step is somewhere else afterwards.
LEMMA Turns ==
    ASSUME serving \in [Desks -> ServingType], NEW h \in Desks, NEW next, Hands(h, next)
    PROVE  /\ serving' \in [Desks -> ServingType] /\ next \in ServingType
           /\ serving'[h] = next
           /\ \A g \in Desks : g # h => serving'[g] = serving[g]
BY DEF Hands

\* A request that is over carries nothing.
LEMMA OverCarriesNothing ==
    ASSUME ClaimTypes, CarriesItsClaim, NEW h \in Desks, Hands(h, NoRequest)
    PROVE  /\ serving' \in [Desks -> ServingType] /\ CarriesItsClaim'
           /\ \A g \in Desks : serving'[g] = NoRequest \/ (g # h /\ serving'[g] = serving[g])
<1>1. /\ serving' \in [Desks -> ServingType]
      /\ \A g \in Desks : serving'[g] = NoRequest \/ (g # h /\ serving'[g] = serving[g])
  BY Turns DEF ClaimTypes
<1>2. ASSUME NEW g \in Desks
      PROVE  /\ serving'[g].pc = "idle" => serving'[g] = NoRequest
             /\ serving'[g].pc # "mark" => serving'[g].key = NoKey
             /\ serving'[g].claim # {} => \E c \in Claims : serving'[g].claim = {c}
             /\ serving'[g].pc \in {"verify", "listOrgs", "join", "mark", "consume"} => serving'[g].claim # {}
             /\ serving'[g].pc \in {"send", "create"} => serving'[g].claim = {}
  <2>1. CASE serving'[g] = NoRequest
    BY <2>1, NoRequestIsOne
  <2>2. CASE serving'[g] = serving[g]
    BY <2>2 DEF CarriesItsClaim
  <2> QED
    BY <1>1, <2>1, <2>2
<1> QED
  BY <1>1, <1>2 DEF CarriesItsClaim

LEMMA ClaimTypesStay == (ClaimTypes /\ CarriesItsClaim /\ KeysAreCounted) /\ ClaimShape => (ClaimTypes /\ CarriesItsClaim)'
<1> SUFFICES ASSUME (ClaimTypes /\ CarriesItsClaim /\ KeysAreCounted), ClaimShape PROVE (ClaimTypes /\ CarriesItsClaim)'
  OBVIOUS
<1> USE DEF ClaimTypes, CarriesItsClaim, NoKey
<1>1. ASSUME NEW h \in Desks, NEW next \in ServingType, TakesUp(h, next) PROVE (ClaimTypes /\ CarriesItsClaim)'
  <2>1. /\ serving' \in [Desks -> ServingType] /\ serving'[h] = next
        /\ \A g \in Desks : g # h => serving'[g] = serving[g]
    BY <1>1, Turns DEF TakesUp
  <2>2. /\ next.pc \in {"makeOrg", "send", "verify", "consume"} /\ next.key = NoKey
        /\ next.claim # {} => \E c \in Claims : next.claim = {c}
        /\ next.pc \in {"verify", "consume"} => next.claim # {}
        /\ next.pc = "send" => next.claim = {}
    BY <1>1 DEF TakesUp
  <2>3. CarriesItsClaim'
    BY <2>1, <2>2
  <2> QED
    BY <1>1, <2>1, <2>3 DEF TakesUp
<1>2. ASSUME NEW h \in Desks, NEW next \in ServingType, Moved(h, next) PROVE (ClaimTypes /\ CarriesItsClaim)'
  <2>1. /\ serving' \in [Desks -> ServingType] /\ serving'[h] = next
        /\ \A g \in Desks : g # h => serving'[g] = serving[g]
    BY <1>2, Turns DEF Moved
  <2>2. /\ next.pc \in {"create", "listOrgs", "makeOrg", "join", "customer", "mint"} /\ next.key = NoKey
        /\ next.claim = serving[h].claim
        /\ next.pc \in {"listOrgs", "join"} => next.claim # {}
        /\ next.pc = "create" => next.claim = {}
    BY <1>2, SMTT(60) DEF Moved
  <2>3. CarriesItsClaim'
    BY <2>1, <2>2
  <2>4. joined' \subseteq Nat
    <3>1. next.org \in Nat
      BY DEF ServingType
    <3> QED
      BY <1>2, <3>1 DEF Moved
  <2> QED
    BY <1>2, <2>1, <2>3, <2>4 DEF Moved
<1>3. ASSUME NEW h \in Desks, Dropped(h) PROVE (ClaimTypes /\ CarriesItsClaim)'
  <2>0. serving' \in [Desks -> ServingType] /\ CarriesItsClaim'
    BY <1>3, OverCarriesNothing DEF Dropped
  <2>1. claim' \in [Claims -> EntryType]
    BY <1>3 DEF Dropped
  <2>2. keys' \subseteq KeyType /\ IsFiniteSet(keys')
    BY <1>3, MintedIsNew DEF Dropped, KeysAreCounted
  <2>3. UNCHANGED <<claimScene, handed, requests>> /\ orgCount' \in Nat
    BY <1>3 DEF Dropped
  <2>4. joined' \subseteq Nat
    <3>1. serving[h].org \in Nat
      BY DEF ServingType
    <3> QED
      BY <1>3, <3>1, ZenonT(60) DEF Dropped
  <2> QED
    BY <2>0, <2>1, <2>2, <2>3, <2>4
<1>4. ASSUME NEW h \in Desks, MintsForClaim(h) PROVE (ClaimTypes /\ CarriesItsClaim)'
  <2>1. PICK next \in ServingType :
           Hands(h, next) /\ next.pc = "mark" /\ next.claim = serving[h].claim /\ next.key = Cardinality(keys) + 1
    BY <1>4 DEF MintsForClaim
  <2>2. serving' \in [Desks -> ServingType]
    BY <2>1, Turns
  <2>3. CarriesItsClaim'
    BY <1>4, <2>1, Turns DEF MintsForClaim, ForClaim
  <2>4. keys' \subseteq KeyType /\ IsFiniteSet(keys')
    BY <1>4, MintedIsNew DEF MintsForClaim, KeysAreCounted
  <2> QED
    BY <1>4, <2>2, <2>3, <2>4 DEF MintsForClaim
<1>5. ASSUME NEW h \in Desks, MintsToAnswer(h) PROVE (ClaimTypes /\ CarriesItsClaim)'
  <2>1. serving' \in [Desks -> ServingType] /\ CarriesItsClaim'
    BY <1>5, OverCarriesNothing DEF MintsToAnswer
  <2>2. keys' \subseteq KeyType /\ IsFiniteSet(keys')
    BY <1>5, MintedIsNew DEF MintsToAnswer, KeysAreCounted
  <2>3. handed' \in [1..MaxRequests -> Seq(SUBSET Claims)]
    <3>1. ASSUME NEW seq \in Seq(SUBSET Claims) PROVE Append(seq, {}) \in Seq(SUBSET Claims)
      OBVIOUS
    <3> QED
      BY <1>5, <3>1 DEF MintsToAnswer
  <2> QED
    BY <1>5, <2>1, <2>2, <2>3 DEF MintsToAnswer
<1>6. ASSUME NEW h \in Desks, NEW c \in Claims, Marks(h, c) PROVE (ClaimTypes /\ CarriesItsClaim)'
  <2>1. serving' \in [Desks -> ServingType] /\ CarriesItsClaim'
    BY <1>6, OverCarriesNothing DEF Marks
  <2>2. claim'[c] \in EntryType
    <3>1. claim[c] \in EntryType /\ serving[h].key \in Nat
      BY DEF ServingType
    <3> QED
      BY <1>6, <3>1 DEF Marks, EntryType
  <2>3. claim' \in [Claims -> EntryType]
    BY <1>6, <2>2 DEF Marks
  <2> QED
    BY <1>6, <2>1, <2>3 DEF Marks
<1>7. ASSUME NEW h \in Desks, NEW c \in Claims, Consumes(h, c) PROVE (ClaimTypes /\ CarriesItsClaim)'
  <2>1. serving' \in [Desks -> ServingType] /\ CarriesItsClaim'
    BY <1>7, OverCarriesNothing DEF Consumes
  <2>2. claim' \in [Claims -> EntryType]
    <3>1. [status |-> "gone", key |-> NoKey] \in EntryType
      BY DEF EntryType
    <3> QED
      BY <1>7, <3>1 DEF Consumes
  <2>3. handed' \in [1..MaxRequests -> Seq(SUBSET Claims)]
    <3>1. ASSUME NEW seq \in Seq(SUBSET Claims) PROVE Append(seq, {c}) \in Seq(SUBSET Claims)
      OBVIOUS
    <3>2. CASE handed' = [handed EXCEPT ![claim[c].key] = Append(@, {c})]
      BY <3>1, <3>2
    <3>3. CASE handed' = handed
      BY <3>3
    <3> QED
      BY <1>7, <3>2, <3>3 DEF Consumes
  <2> QED
    BY <1>7, <2>1, <2>2, <2>3 DEF Consumes
<1>8. ASSUME NEW c \in Claims, Expire(c) PROVE (ClaimTypes /\ CarriesItsClaim)'
  <2>1. [status |-> "gone", key |-> NoKey] \in EntryType
    BY DEF EntryType
  <2> QED
    BY <1>8, <2>1 DEF Expire
<1>9. CASE UNCHANGED claimVars
  BY <1>9 DEF claimVars
<1> QED
  BY <1>1, <1>2, <1>3, <1>4, <1>5, <1>6, <1>7, <1>8, <1>9 DEF ClaimShape

\* A request that is over, or holds its key, mints no more.
LEMMA MintingShrinks ==
    ASSUME ClaimTypes, KeysAreCounted, NEW h \in Desks, serving[h].pc \notin {"idle", "mark"},
           NEW next, Hands(h, next), next.pc \in {"idle", "mark"}
    PROVE  /\ IsFiniteSet(Minting')
           /\ Cardinality(Minting') = Cardinality(Minting) - 1
           /\ Cardinality(Minting) \in Nat /\ Cardinality(Minting') \in Nat
<1>1. Minting' = Minting \ {h} /\ h \in Minting
  BY Turns DEF Minting, ClaimTypes
<1> QED
  BY <1>1, FS_RemoveElement, FS_CardinalityType DEF KeysAreCounted

LEMMA MintedCounts ==
    ASSUME ClaimTypes, KeysAreCounted, NEW h \in Desks, keys' = Minted(h), requests' = requests,
           IsFiniteSet(Minting'), Cardinality(Minting') = Cardinality(Minting) - 1,
           Cardinality(Minting) \in Nat
    PROVE  KeysAreCounted'
<1> DEFINE n == Cardinality(keys)
           key == [id |-> n + 1, org |-> serving[h].org, for |-> serving[h].claim]
<1>1. n \in Nat /\ Cardinality(keys') = n + 1
  BY MintedIsNew DEF KeysAreCounted
<1>2. keys' = keys \cup {key} /\ key.id = n + 1
  BY DEF Minted
<1>3. \A other \in keys : other.id <= n /\ other.id \in Nat
  BY DEF KeysAreCounted, ClaimTypes, KeyType
<1>4. n + Cardinality(Minting) <= requests /\ requests <= MaxRequests
  BY DEF KeysAreCounted
<1>5. requests \in Nat
  BY DEF ClaimTypes
<1> HIDE DEF key, n
<1>6. \A other \in keys' : other.id <= n + 1
  BY <1>1, <1>2, <1>3
<1>7. \A other, another \in keys' : other.id = another.id => other = another
  <2>1. \A other, another \in keys : other.id = another.id => other = another
    BY DEF KeysAreCounted
  <2> QED
    BY <1>1, <1>2, <1>3, <2>1
<1>8. Cardinality(keys') + Cardinality(Minting') <= requests'
  BY <1>1, <1>4, <1>5
<1> QED
  BY <1>1, <1>4, <1>6, <1>7, <1>8 DEF KeysAreCounted

LEMMA KeysStayCounted == ClaimInv /\ ClaimShape => KeysAreCounted'
<1> SUFFICES ASSUME ClaimInv, ClaimShape PROVE KeysAreCounted'
  OBVIOUS
<1> USE DEF ClaimInv, ClaimTypes
<1>0. Cardinality(keys) \in Nat /\ Cardinality(Minting) \in Nat
  BY FS_CardinalityType DEF KeysAreCounted
<1>1. ASSUME NEW h \in Desks, NEW next \in ServingType, TakesUp(h, next) PROVE KeysAreCounted'
  <2>1. Minting' = Minting \cup {h} /\ h \notin Minting
    BY <1>1, Turns DEF TakesUp, Minting
  <2>2. IsFiniteSet(Minting') /\ Cardinality(Minting') = Cardinality(Minting) + 1
    BY <2>1, FS_AddElement DEF KeysAreCounted
  <2>3. requests' = requests + 1 /\ requests + 1 <= MaxRequests /\ keys' = keys
    BY <1>1, ClaimAssumption DEF TakesUp
  <2> QED
    BY <1>0, <2>2, <2>3 DEF KeysAreCounted
<1>2. ASSUME NEW h \in Desks, NEW next \in ServingType, Moved(h, next) PROVE KeysAreCounted'
  <2>1. Minting' = Minting
    BY <1>2, Turns DEF Moved, Minting
  <2> QED
    BY <1>2, <2>1 DEF Moved, KeysAreCounted
<1>3. ASSUME NEW h \in Desks, Dropped(h) PROVE KeysAreCounted'
  <2>1. /\ IsFiniteSet(Minting') /\ Cardinality(Minting') = Cardinality(Minting) - 1
        /\ Cardinality(Minting) \in Nat /\ Cardinality(Minting') \in Nat
    BY <1>3, MintingShrinks DEF Dropped, NoRequest
  <2>2. CASE keys' = keys
    BY <1>0, <1>3, <2>1, <2>2 DEF Dropped, KeysAreCounted
  <2>3. CASE keys' = Minted(h)
    <3>1. Cardinality(keys') = Cardinality(keys) + 1
      BY <2>3, MintedIsNew DEF KeysAreCounted
    <3>2. requests' = requests
      BY <1>3 DEF Dropped
    <3> QED
      BY <1>0, <2>1, <2>3, <3>1, <3>2, MintedCounts
  <2> QED
    BY <1>3, <2>2, <2>3 DEF Dropped
<1>4. ASSUME NEW h \in Desks, MintsForClaim(h) PROVE KeysAreCounted'
  <2>1. PICK next \in ServingType : Hands(h, next) /\ next.pc = "mark"
    BY <1>4 DEF MintsForClaim
  <2>2. /\ IsFiniteSet(Minting') /\ Cardinality(Minting') = Cardinality(Minting) - 1
        /\ Cardinality(Minting) \in Nat /\ Cardinality(Minting') \in Nat
    BY <1>4, <2>1, MintingShrinks DEF MintsForClaim
  <2> QED
    BY <1>4, <2>2, MintedCounts DEF MintsForClaim
<1>5. ASSUME NEW h \in Desks, MintsToAnswer(h) PROVE KeysAreCounted'
  <2>1. /\ IsFiniteSet(Minting') /\ Cardinality(Minting') = Cardinality(Minting) - 1
        /\ Cardinality(Minting) \in Nat /\ Cardinality(Minting') \in Nat
    BY <1>5, MintingShrinks DEF MintsToAnswer, NoRequest
  <2> QED
    BY <1>5, <2>1, MintedCounts DEF MintsToAnswer
<1>6. ASSUME NEW h \in Desks, NEW c \in Claims, Marks(h, c) PROVE KeysAreCounted'
  <2>1. Minting' = Minting
    BY <1>6, Turns DEF Marks, Minting, NoRequest
  <2> QED
    BY <1>6, <2>1 DEF Marks, KeysAreCounted
<1>7. ASSUME NEW h \in Desks, NEW c \in Claims, Consumes(h, c) PROVE KeysAreCounted'
  <2>1. /\ IsFiniteSet(Minting') /\ Cardinality(Minting') = Cardinality(Minting) - 1
        /\ Cardinality(Minting) \in Nat /\ Cardinality(Minting') \in Nat
    BY <1>7, MintingShrinks DEF Consumes, NoRequest
  <2> QED
    BY <1>0, <1>7, <2>1 DEF Consumes, KeysAreCounted
<1>8. ASSUME NEW c \in Claims, Expire(c) PROVE KeysAreCounted'
  <2>1. Minting' = Minting
    BY <1>8 DEF Expire, Minting
  <2> QED
    BY <1>8, <2>1 DEF Expire, KeysAreCounted
<1>9. CASE UNCHANGED claimVars
  <2>1. Minting' = Minting
    BY <1>9 DEF claimVars, Minting
  <2> QED
    BY <1>9, <2>1 DEF claimVars, KeysAreCounted
<1> QED
  BY <1>1, <1>2, <1>3, <1>4, <1>5, <1>6, <1>7, <1>8, <1>9 DEF ClaimShape

\* A key has a place among those handed out.
LEMMA KeysHavePlaces ==
    ASSUME ClaimTypes, KeysAreCounted
    PROVE  /\ Cardinality(keys) \in Nat /\ Cardinality(keys) <= MaxRequests
           /\ \A key \in keys : key.id \in 1..MaxRequests
           /\ \A h \in Desks : serving[h].pc = "mint" => Cardinality(keys) + 1 \in 1..MaxRequests
<1>1. Cardinality(keys) \in Nat /\ Cardinality(Minting) \in Nat /\ MaxRequests \in Nat
  BY FS_CardinalityType, ClaimAssumption DEF ClaimTypes, KeysAreCounted
<1>2. requests \in Nat /\ requests <= MaxRequests /\ Cardinality(keys) + Cardinality(Minting) <= requests
  BY DEF ClaimTypes, KeysAreCounted
<1>3. Cardinality(keys) <= MaxRequests
  BY <1>1, <1>2
<1>4. \A key \in keys : key.id \in 1..MaxRequests
  BY <1>1, <1>3 DEF ClaimTypes, KeysAreCounted, KeyType
<1>5. ASSUME NEW h \in Desks, serving[h].pc = "mint" PROVE Cardinality(Minting) >= 1
  <2>1. h \in Minting
    BY <1>5 DEF Minting
  <2>2. Minting # {}
    BY <2>1
  <2> QED
    BY <1>1, <2>2, FS_EmptySet DEF KeysAreCounted
<1> QED
  BY <1>1, <1>2, <1>3, <1>4, <1>5

\* What holds a key after the step.
HeldNext(id, for) == \E key \in keys' : key.id = id /\ key.for = for /\ handed'[id] = <<>>

\* Whatever holds a key goes on holding it, unless the step takes it away.
LEMMA HeldStays ==
    ASSUME ClaimTypes, KeysAreHeld,
           keys \subseteq keys', \A key \in keys : handed'[key.id] = handed[key.id],
           \A n \in 1..MaxRequests : n > Cardinality(keys') => handed'[n] = <<>>,
           \A key \in keys' : key \notin keys => handed'[key.id] \in {<<>>, <<key.for>>},
           \A g \in Desks : serving'[g].pc = "mark" => serving'[g] = serving[g],
           \A c \in Claims : claim'[c].status = "ready" => claim'[c] = claim[c]
    PROVE  KeysAreHeld'
<1>1. ASSUME NEW id, NEW for, HeldBy(id, for) PROVE HeldNext(id, for)
  BY <1>1 DEF HeldBy, HeldNext
<1>2. \A key \in keys' : handed'[key.id] \in {<<>>, <<key.for>>}
  BY DEF KeysAreHeld
<1>3. \A g \in Desks : serving'[g].pc = "mark" => HeldNext(serving'[g].key, serving'[g].claim)
  BY <1>1 DEF KeysAreHeld
<1>4. \A c \in Claims : claim'[c].status = "ready" => HeldNext(claim'[c].key, {c})
  BY <1>1, SMTT(60) DEF KeysAreHeld
<1>5. \A h, g \in Desks :
        serving'[h].pc = "mark" /\ serving'[g].pc = "mark" /\ serving'[h].key = serving'[g].key => h = g
  BY DEF KeysAreHeld
<1>6. \A h \in Desks, c \in Claims :
          serving'[h].pc = "mark" /\ claim'[c].status = "ready" => serving'[h].key # claim'[c].key
  BY DEF KeysAreHeld
<1> QED
  BY <1>2, <1>3, <1>4, <1>5, <1>6 DEF KeysAreHeld, HeldBy, HeldNext

\* The number of a key that is minted is nobody's, and nothing was handed out for it.
LEMMA MintedIsHeld ==
    ASSUME ClaimTypes, KeysAreCounted, KeysAreHeld, NEW h \in Desks, serving[h].pc = "mint", keys' = Minted(h)
    PROVE  LET n == Cardinality(keys) + 1 IN
           /\ n \in 1..MaxRequests /\ handed[n] = <<>>
           /\ Cardinality(keys') = n /\ keys \subseteq keys'
           /\ \A key \in keys : key.id # n
           /\ \A key \in keys' : key \notin keys => key.id = n /\ key.for = serving[h].claim
           /\ \E key \in keys' : key.id = n /\ key.for = serving[h].claim
<1> DEFINE n == Cardinality(keys) + 1
           key == [id |-> n, org |-> serving[h].org, for |-> serving[h].claim]
<1>1. Cardinality(keys) \in Nat /\ n \in 1..MaxRequests
  BY KeysHavePlaces
<1>2. handed[n] = <<>>
  BY <1>1 DEF KeysAreHeld
<1>3. Cardinality(keys') = n
  BY MintedIsNew DEF KeysAreCounted
<1>4. \A other \in keys : other.id # n
  BY <1>1 DEF KeysAreCounted, ClaimTypes, KeyType
<1>5. keys' = keys \cup {key}
  BY DEF Minted
<1>6. key.id = n /\ key.for = serving[h].claim
  OBVIOUS
<1> HIDE DEF key, n
<1> QED
  BY <1>1, <1>2, <1>3, <1>4, <1>5, <1>6 DEF n

LEMMA KeysStayHeld == ClaimInv /\ ClaimShape => KeysAreHeld'
<1> SUFFICES ASSUME ClaimInv, ClaimShape PROVE KeysAreHeld'
  OBVIOUS
<1>0. ClaimTypes /\ CarriesItsClaim /\ KeysAreCounted /\ KeysAreHeld
  BY DEF ClaimInv
<1>a. serving \in [Desks -> ServingType] /\ claim \in [Claims -> EntryType] /\ handed \in [1..MaxRequests -> Seq(SUBSET Claims)]
  BY <1>0 DEF ClaimTypes
<1>b. /\ \A n \in 1..MaxRequests : n > Cardinality(keys) => handed[n] = <<>>
      /\ \A key \in keys : key.id \in 1..MaxRequests
  BY <1>0, KeysHavePlaces DEF KeysAreHeld
<1>c. ASSUME UNCHANGED <<keys, handed>>,
             \A g \in Desks : serving'[g].pc = "mark" => serving'[g] = serving[g],
             \A c \in Claims : claim'[c].status = "ready" => claim'[c] = claim[c]
      PROVE  KeysAreHeld'
  BY <1>0, <1>b, <1>c, HeldStays
<1>1. ASSUME NEW h \in Desks, NEW next \in ServingType, TakesUp(h, next) PROVE KeysAreHeld'
  <2>1. \A g \in Desks : serving'[g].pc = "mark" => serving'[g] = serving[g]
    BY <1>1, <1>a, Turns DEF TakesUp
  <2> QED
    BY <1>1, <1>c, <2>1 DEF TakesUp
<1>2. ASSUME NEW h \in Desks, NEW next \in ServingType, Moved(h, next) PROVE KeysAreHeld'
  <2>1. \A g \in Desks : serving'[g].pc = "mark" => serving'[g] = serving[g]
    BY <1>2, <1>a, Turns DEF Moved
  <2> QED
    BY <1>2, <1>c, <2>1 DEF Moved
<1>3. ASSUME NEW h \in Desks, Dropped(h) PROVE KeysAreHeld'
  <2>1. \A g \in Desks : serving'[g].pc = "mark" => serving'[g] = serving[g]
    BY <1>0, <1>3, OverCarriesNothing, NoRequestIsOne DEF Dropped
  <2>2. \A c \in Claims : claim'[c].status = "ready" => claim'[c] = claim[c]
    BY <1>3, <1>a DEF Dropped
  <2>3. handed' = handed
    BY <1>3 DEF Dropped
  <2>4. CASE keys' = keys
    BY <1>c, <2>1, <2>2, <2>3, <2>4
  <2>5. CASE serving[h].pc = "mint" /\ keys' = Minted(h)
    <3> DEFINE n == Cardinality(keys) + 1
    <3>1. /\ handed[n] = <<>> /\ Cardinality(keys') = n /\ keys \subseteq keys' /\ Cardinality(keys) \in Nat
          /\ \A key \in keys' : key \notin keys => key.id = n /\ key.for = serving[h].claim
      BY <1>0, <2>5, MintedIsHeld, KeysHavePlaces
    <3>2. \A k \in 1..MaxRequests : k > Cardinality(keys') => handed'[k] = <<>>
      BY <1>b, <2>3, <3>1
    <3>3. \A key \in keys' : key \notin keys => handed'[key.id] \in {<<>>, <<key.for>>}
      BY <2>3, <3>1
    <3> QED
      BY <1>0, <2>1, <2>2, <2>3, <3>1, <3>2, <3>3, HeldStays
  <2> QED
    BY <1>3, <2>4, <2>5 DEF Dropped
<1>4. ASSUME NEW h \in Desks, MintsForClaim(h) PROVE KeysAreHeld'
  <2> DEFINE n == Cardinality(keys) + 1
  <2>1. PICK next \in ServingType : Hands(h, next) /\ next.pc = "mark" /\ next.claim = serving[h].claim /\ next.key = n
    BY <1>4 DEF MintsForClaim
  <2>2. serving'[h] = next /\ \A g \in Desks : g # h => serving'[g] = serving[g]
    BY <1>a, <2>1, Turns
  <2>3. UNCHANGED <<claim, handed>> /\ serving[h].pc = "mint" /\ keys' = Minted(h)
    BY <1>4 DEF MintsForClaim
  <2>4. /\ n \in 1..MaxRequests /\ handed[n] = <<>>
        /\ Cardinality(keys') = n /\ keys \subseteq keys' /\ Cardinality(keys) \in Nat
        /\ \A key \in keys : key.id # n
        /\ \A key \in keys' : key \notin keys => key.id = n /\ key.for = serving[h].claim
        /\ \E key \in keys' : key.id = n /\ key.for = serving[h].claim
    BY <1>0, <2>3, MintedIsHeld, KeysHavePlaces
  <2>5. ASSUME NEW id, NEW for, HeldBy(id, for) PROVE HeldNext(id, for) /\ id # n
    BY <2>3, <2>4, <2>5 DEF HeldBy, HeldNext
  <2>6. HeldNext(n, serving[h].claim)
    BY <2>3, <2>4 DEF HeldBy, HeldNext
  <2>7. \A g \in Desks : g # h /\ serving'[g].pc = "mark" =>
           HeldNext(serving[g].key, serving[g].claim) /\ serving'[g].key # n
    BY <1>0, <2>2, <2>5 DEF KeysAreHeld
  <2>8. \A c \in Claims : claim'[c].status = "ready" => HeldNext(claim[c].key, {c}) /\ claim'[c].key # n
    BY <1>0, <2>3, <2>5 DEF KeysAreHeld
  <2>9. \A k \in 1..MaxRequests : k > Cardinality(keys') => handed'[k] = <<>>
    BY <1>b, <2>3, <2>4
  <2>10. \A key \in keys' : handed'[key.id] \in {<<>>, <<key.for>>}
    BY <1>0, <2>3, <2>4 DEF KeysAreHeld
  <2>11. \A g \in Desks : serving'[g].pc = "mark" => HeldNext(serving'[g].key, serving'[g].claim)
    BY <2>1, <2>2, <2>6, <2>7
  <2>12. \A f, g \in Desks :
          serving'[f].pc = "mark" /\ serving'[g].pc = "mark" /\ serving'[f].key = serving'[g].key => f = g
    BY <1>0, <2>1, <2>2, <2>7 DEF KeysAreHeld
  <2>13. \A g \in Desks, c \in Claims :
          serving'[g].pc = "mark" /\ claim'[c].status = "ready" => serving'[g].key # claim'[c].key
    BY <1>0, <2>1, <2>2, <2>3, <2>8, ZenonT(60) DEF KeysAreHeld
  <2>14. \A c \in Claims : claim'[c].status = "ready" => HeldNext(claim'[c].key, {c})
    BY <2>3, <2>8
  <2> QED
    BY <2>9, <2>10, <2>11, <2>12, <2>13, <2>14 DEF KeysAreHeld, HeldBy, HeldNext
<1>5. ASSUME NEW h \in Desks, MintsToAnswer(h) PROVE KeysAreHeld'
  <2> DEFINE n == Cardinality(keys) + 1
  <2>1. \A g \in Desks : serving'[g].pc = "mark" => serving'[g] = serving[g]
    BY <1>0, <1>5, OverCarriesNothing, NoRequestIsOne DEF MintsToAnswer
  <2>2. UNCHANGED claim /\ serving[h].pc = "mint" /\ keys' = Minted(h) /\ serving[h].claim = {}
    BY <1>5 DEF MintsToAnswer, ForClaim
  <2>3. /\ n \in 1..MaxRequests /\ handed[n] = <<>>
        /\ Cardinality(keys') = n /\ keys \subseteq keys' /\ Cardinality(keys) \in Nat
        /\ \A key \in keys : key.id # n
        /\ \A key \in keys' : key \notin keys => key.id = n /\ key.for = serving[h].claim
    BY <1>0, <2>2, MintedIsHeld, KeysHavePlaces
  <2>4. handed' = [handed EXCEPT ![n] = Append(@, {})]
    BY <1>5, SMTT(60) DEF MintsToAnswer
  <2>5. handed'[n] = <<{}>> /\ \A k \in 1..MaxRequests : k # n => handed'[k] = handed[k]
    <3>1. Append(<<>>, {}) = <<{}>>
      OBVIOUS
    <3>2. handed'[n] = Append(handed[n], {})
      BY <1>a, <2>3, <2>4
    <3>3. \A k \in 1..MaxRequests : k # n => handed'[k] = handed[k]
      BY <1>a, <2>3, <2>4
    <3> QED
      BY <2>3, <3>1, <3>2, <3>3
  <2> HIDE DEF n
  <2>6. \A key \in keys : handed'[key.id] = handed[key.id]
    BY <1>b, <2>3, <2>5
  <2>7. \A k \in 1..MaxRequests : k > Cardinality(keys') => handed'[k] = <<>>
    BY <1>b, <2>3, <2>5 DEF n
  <2>8. \A key \in keys' : key \notin keys => handed'[key.id] \in {<<>>, <<key.for>>}
    BY <2>2, <2>3, <2>5
  <2> QED
    BY <1>0, <2>1, <2>2, <2>3, <2>6, <2>7, <2>8, HeldStays
<1>6. ASSUME NEW h \in Desks, NEW c \in Claims, Marks(h, c) PROVE KeysAreHeld'
  <2>1. \A g \in Desks : serving'[g].pc = "mark" => serving'[g] = serving[g] /\ g # h
    BY <1>0, <1>6, OverCarriesNothing, NoRequestIsOne DEF Marks
  <2>2. UNCHANGED <<keys, handed>> /\ serving[h].pc = "mark" /\ serving[h].claim = {c}
        /\ \A d \in Claims : d # c => claim'[d] = claim[d]
    BY <1>6, <1>a DEF Marks
  <2>3. CASE claim'[c] = claim[c]
    BY <1>c, <2>1, <2>2, <2>3
  <2>4. CASE claim'[c] = [status |-> "ready", key |-> serving[h].key]
    <3>1. HeldBy(serving[h].key, {c})
      BY <1>0, <2>2 DEF KeysAreHeld
    <3>2. \A id, for : HeldBy(id, for) => HeldNext(id, for)
      BY <2>2 DEF HeldBy, HeldNext
    <3>3. \A d \in Claims : claim'[d].status = "ready" => HeldNext(claim'[d].key, {d})
      <4>1. claim'[c].key = serving[h].key
        BY <2>4
      <4>2. ASSUME NEW d \in Claims, d # c, claim'[d].status = "ready" PROVE HeldNext(claim'[d].key, {d})
        BY <1>0, <2>2, <3>2, <4>2 DEF KeysAreHeld
      <4> QED
        BY <3>1, <3>2, <4>1, <4>2
    <3>4. \A g \in Desks : serving'[g].pc = "mark" => HeldNext(serving'[g].key, serving'[g].claim)
      BY <1>0, <2>1, <3>2 DEF KeysAreHeld
    <3>5. \A g \in Desks, d \in Claims :
              serving'[g].pc = "mark" /\ claim'[d].status = "ready" => serving'[g].key # claim'[d].key
      BY <1>0, <2>1, <2>2, <2>4 DEF KeysAreHeld
    <3>6. \A f, g \in Desks :
          serving'[f].pc = "mark" /\ serving'[g].pc = "mark" /\ serving'[f].key = serving'[g].key => f = g
      BY <1>0, <2>1 DEF KeysAreHeld
    <3>7. /\ \A k \in 1..MaxRequests : k > Cardinality(keys') => handed'[k] = <<>>
          /\ \A key \in keys' : handed'[key.id] \in {<<>>, <<key.for>>}
      BY <1>0, <2>2 DEF KeysAreHeld
    <3> QED
      BY <3>3, <3>4, <3>5, <3>6, <3>7 DEF KeysAreHeld, HeldBy, HeldNext
  <2> QED
    BY <1>6, <2>3, <2>4 DEF Marks
<1>7. ASSUME NEW h \in Desks, NEW c \in Claims, Consumes(h, c) PROVE KeysAreHeld'
  <2>1. \A g \in Desks : serving'[g].pc = "mark" => serving'[g] = serving[g]
    BY <1>0, <1>7, OverCarriesNothing, NoRequestIsOne DEF Consumes
  <2>2. UNCHANGED keys
    BY <1>7 DEF Consumes
  <2>3. \A d \in Claims : claim'[d].status = "ready" => claim'[d] = claim[d]
    BY <1>7, <1>a DEF Consumes
  <2>4. CASE handed' = handed
    BY <1>c, <2>1, <2>2, <2>3, <2>4
  <2>5. CASE claim[c].status = "ready" /\ handed' = [handed EXCEPT ![claim[c].key] = Append(@, {c})]
    <3>1. PICK key \in keys : key.id = claim[c].key /\ key.for = {c} /\ handed[key.id] = <<>>
      BY <1>0, <2>5 DEF KeysAreHeld, HeldBy
    <3>2. key.id \in 1..MaxRequests
      BY <1>b
    <3>3. handed'[key.id] = <<{c}>> /\ \A k \in 1..MaxRequests : k # key.id => handed'[k] = handed[k]
      <4>1. Append(<<>>, {c}) = <<{c}>>
        OBVIOUS
      <4>2. handed'[key.id] = Append(handed[key.id], {c})
        BY <1>a, <2>5, <3>1, <3>2
      <4>3. \A k \in 1..MaxRequests : k # key.id => handed'[k] = handed[k]
        BY <1>a, <2>5, <3>1, <3>2
      <4> QED
        BY <3>1, <4>1, <4>2, <4>3
    <3>4. \A other \in keys : other.id = key.id => other = key
      BY <1>0 DEF KeysAreCounted
    <3>5. \A other \in keys : other # key => handed'[other.id] = handed[other.id]
      BY <1>b, <3>3, <3>4
    <3>6. \A other \in keys : handed'[other.id] \in {<<>>, <<other.for>>}
      BY <1>0, <3>1, <3>3, <3>5 DEF KeysAreHeld
    <3>7. \A id, for : HeldBy(id, for) /\ id # key.id => HeldNext(id, for)
      BY <2>2, <3>5 DEF HeldBy, HeldNext
    <3>8. \A g \in Desks : serving'[g].pc = "mark" => serving[g].key # key.id
      BY <1>0, <2>1, <2>5, <3>1 DEF KeysAreHeld
    <3>9. ASSUME NEW d \in Claims, claim'[d].status = "ready" PROVE claim[d].key # key.id
      <4>1. d # c
        <5>1. claim'[c].status # "ready"
          BY <1>7, <1>a, <2>5 DEF Consumes
        <5> QED
          BY <3>9, <5>1
      <4>2. HeldBy(claim[d].key, {d})
        BY <1>0, <2>3, <3>9 DEF KeysAreHeld
      <4>3. PICK other \in keys : other.id = claim[d].key /\ other.for = {d}
        BY <4>2 DEF HeldBy, HeldNext
      <4> QED
        BY <3>1, <3>4, <4>1, <4>3
    <3>10. \A g \in Desks : serving'[g].pc = "mark" => HeldNext(serving'[g].key, serving'[g].claim)
      BY <1>0, <2>1, <3>7, <3>8 DEF KeysAreHeld
    <3>11. \A d \in Claims : claim'[d].status = "ready" => HeldNext(claim'[d].key, {d})
      BY <1>0, <2>3, <3>7, <3>9, ZenonT(60) DEF KeysAreHeld
    <3>12. /\ \A f, g \in Desks :
              serving'[f].pc = "mark" /\ serving'[g].pc = "mark" /\ serving'[f].key = serving'[g].key => f = g
           /\ \A g \in Desks, d \in Claims :
              serving'[g].pc = "mark" /\ claim'[d].status = "ready" => serving'[g].key # claim'[d].key
      BY <1>0, <2>1, <2>3 DEF KeysAreHeld
    <3>13. \A k \in 1..MaxRequests : k > Cardinality(keys') => handed'[k] = <<>>
      <4>1. key.id <= Cardinality(keys)
        BY <1>0 DEF KeysAreCounted
      <4>2. Cardinality(keys) \in Nat
        BY <1>0, KeysHavePlaces
      <4> QED
        BY <1>b, <2>2, <3>2, <3>3, <4>1, <4>2
    <3> QED
      BY <2>2, <3>6, <3>10, <3>11, <3>12, <3>13 DEF KeysAreHeld, HeldBy, HeldNext
  <2> QED
    BY <1>7, <2>4, <2>5 DEF Consumes
<1>8. ASSUME NEW c \in Claims, Expire(c) PROVE KeysAreHeld'
  <2>1. \A d \in Claims : claim'[d].status = "ready" => claim'[d] = claim[d]
    BY <1>8, <1>a DEF Expire
  <2> QED
    BY <1>8, <1>c, <2>1 DEF Expire
<1>9. CASE UNCHANGED claimVars
  BY <1>9, <1>c DEF claimVars
<1> QED
  BY <1>1, <1>2, <1>3, <1>4, <1>5, <1>6, <1>7, <1>8, <1>9 DEF ClaimShape

LEMMA ServedAloneStays == ClaimInv /\ ClaimShape => ServedAlone'
<1> SUFFICES ASSUME ClaimInv, ClaimShape PROVE ServedAlone'
  OBVIOUS
<1> USE DEF ClaimInv, ClaimTypes, ServedAlone, NoRequest
<1>1. ASSUME NEW h \in Desks, NEW next \in ServingType, TakesUp(h, next) PROVE ServedAlone'
  BY <1>1, Turns DEF TakesUp
<1>2. ASSUME NEW h \in Desks, NEW next \in ServingType, Moved(h, next) PROVE ServedAlone'
  BY <1>2, Turns DEF Moved
<1>3. ASSUME NEW h \in Desks, Dropped(h) PROVE ServedAlone'
  BY <1>3, Turns DEF Dropped
<1>4. ASSUME NEW h \in Desks, MintsForClaim(h) PROVE ServedAlone'
  BY <1>4, Turns DEF MintsForClaim
<1>5. ASSUME NEW h \in Desks, MintsToAnswer(h) PROVE ServedAlone'
  BY <1>5, Turns DEF MintsToAnswer
<1>6. ASSUME NEW h \in Desks, NEW c \in Claims, Marks(h, c) PROVE ServedAlone'
  BY <1>6, Turns DEF Marks
<1>7. ASSUME NEW h \in Desks, NEW c \in Claims, Consumes(h, c) PROVE ServedAlone'
  BY <1>7, Turns DEF Consumes
<1>8. ASSUME NEW c \in Claims, Expire(c) PROVE ServedAlone'
  BY <1>8, Turns DEF Expire
<1>9. CASE UNCHANGED claimVars
  BY <1>9 DEF claimVars, Minting, HeldBy, Held
<1> QED
  BY <1>1, <1>2, <1>3, <1>4, <1>5, <1>6, <1>7, <1>8, <1>9 DEF ClaimShape

LEMMA KeysStayWhere == ClaimInv /\ ClaimShape => KeysStay'
<1> SUFFICES ASSUME ClaimInv, ClaimShape PROVE KeysStay'
  OBVIOUS
<1>0. (ClaimTypes /\ CarriesItsClaim /\ KeysAreCounted)'
  BY ClaimTypesStay, KeysStayCounted DEF ClaimInv
<1> USE DEF ClaimInv, ClaimTypes, CarriesItsClaim, ServedAlone, KeysStay, Held, ClaimSteps, NoRequest
<1>1. ASSUME NEW h \in Desks, NEW next \in ServingType, TakesUp(h, next) PROVE KeysStay'
  BY <1>1, Turns, SMTT(60) DEF TakesUp
<1>2. ASSUME NEW h \in Desks, NEW next \in ServingType, Moved(h, next) PROVE KeysStay'
  BY <1>2, Turns DEF Moved
<1>3. ASSUME NEW h \in Desks, Dropped(h) PROVE KeysStay'
  BY <1>3, Turns, SMTT(60) DEF Dropped
<1>4. ASSUME NEW h \in Desks, MintsForClaim(h) PROVE KeysStay'
  <2> DEFINE n == Cardinality(keys) + 1
  <2>1. PICK next \in ServingType : Hands(h, next) /\ next.pc = "mark" /\ next.claim = serving[h].claim /\ next.key = n
    BY <1>4 DEF MintsForClaim
  <2>2. serving'[h] = next /\ \A g \in Desks : g # h => serving'[g] = serving[g]
    BY <2>1, Turns
  <2>3. UNCHANGED <<claim, handed, claimScene>> /\ serving[h].pc = "mint" /\ serving[h].key = NoKey
    BY <1>4 DEF MintsForClaim
  <2>4. \A key \in keys' : key \in keys \/ key.id = n
    BY <1>4 DEF MintsForClaim, Minted
  <2>5. \A key \in keys : key.id # NoKey
    BY DEF KeyType, NoKey
  <2> HIDE DEF n
  <2>6. \A key \in keys : Held(key) => Held(key)'
    BY <2>2, <2>3, <2>5, ZenonT(60)
  <2> QED
    BY <2>1, <2>2, <2>3, <2>4, <2>6
<1>5. ASSUME NEW h \in Desks, MintsToAnswer(h) PROVE KeysStay'
  <2> DEFINE n == Cardinality(keys) + 1
  <2>1. serving'[h] = NoRequest /\ \A g \in Desks : g # h => serving'[g] = serving[g]
    BY <1>5, Turns DEF MintsToAnswer
  <2>2. UNCHANGED <<claim, claimScene>> /\ serving[h].pc = "mint" /\ serving[h].key = NoKey
    BY <1>5 DEF MintsToAnswer
  <2>3. \A key \in keys' : key \in keys \/ key.id = n
    BY <1>5 DEF MintsToAnswer, Minted
  <2>4. \A key \in keys : key.id # NoKey /\ key.id \in 1..MaxRequests
    BY KeysHavePlaces DEF KeyType, NoKey
  <2>5. n \in 1..MaxRequests
    BY <2>2, KeysHavePlaces
  <2>6. \A k \in 1..MaxRequests : handed'[k] = handed[k] \/ handed'[k] = Append(handed[k], {})
    BY <1>5 DEF MintsToAnswer
  <2>7. handed'[n] = Append(handed[n], {})
    BY <1>5, <2>5 DEF MintsToAnswer
  <2>8. \A k \in 1..MaxRequests : Append(handed[k], {}) # <<>>
    <3>1. ASSUME NEW k \in 1..MaxRequests PROVE Append(handed[k], {}) # <<>>
      <4>1. handed[k] \in Seq(SUBSET Claims)
        OBVIOUS
      <4> QED
        BY <4>1, SMTT(60)
    <3> QED
      BY <3>1
  <2> HIDE DEF n
  <2>9. ASSUME NEW key \in keys, Held(key) PROVE Held(key)'
    <3>1. CASE handed[key.id] # <<>>
      BY <2>4, <2>6, <2>8, <3>1
    <3>2. CASE \E g \in Desks : serving[g].key = key.id
      BY <2>1, <2>2, <2>4, <3>2
    <3>3. CASE \E c \in Claims : claim[c] = [status |-> "ready", key |-> key.id]
      BY <2>2, <3>3
    <3> QED
      BY <2>9, <3>1, <3>2, <3>3
  <2>10. \A key \in keys' : key.id = n => Held(key)'
    BY <2>5, <2>7, <2>8
  <2> QED
    BY <2>1, <2>2, <2>3, <2>9, <2>10, NoRequestIsOne
<1>6. ASSUME NEW h \in Desks, NEW c \in Claims, Marks(h, c) PROVE KeysStay'
  BY <1>6, Turns DEF Marks
<1>7. ASSUME NEW h \in Desks, NEW c \in Claims, Consumes(h, c) PROVE KeysStay'
  <2> SUFFICES ASSUME claimScene.serial /\ claimScene.faults = {} /\ ~claimScene.expires PROVE KeysStay'
    BY <1>7 DEF Consumes
  <2>1. serving'[h] = NoRequest /\ \A g \in Desks : g # h => serving'[g] = serving[g]
    BY <1>7, Turns DEF Consumes
  <2>2. \A g \in Desks : serving'[g].pc = "idle"
    BY <1>7, <2>1, NoRequestIsOne DEF Consumes
  <2>3. UNCHANGED <<keys, claimScene>> /\ serving[h].key = NoKey
    BY <1>7 DEF Consumes
  <2>4. \A key \in keys : key.id # NoKey /\ key.id \in 1..MaxRequests
    BY KeysHavePlaces DEF KeyType, NoKey
  <2>5. \A k \in 1..MaxRequests : Append(handed[k], {c}) # <<>>
    <3>1. ASSUME NEW k \in 1..MaxRequests PROVE Append(handed[k], {c}) # <<>>
      <4>1. handed[k] \in Seq(SUBSET Claims)
        OBVIOUS
      <4> QED
        BY <4>1
    <3> QED
      BY <3>1
  <2>6. ASSUME NEW key \in keys PROVE Held(key)'
    <3>1. Held(key)
      OBVIOUS
    <3>2. CASE handed[key.id] # <<>>
      <4>1. handed'[key.id] = handed[key.id] \/ handed'[key.id] = Append(handed[key.id], {c})
        <5>1. CASE handed' = handed
          BY <5>1
        <5>2. CASE handed' = [handed EXCEPT ![claim[c].key] = Append(@, {c})]
          BY <2>4, <5>2
        <5> QED
          BY <1>7, <5>1, <5>2 DEF Consumes
      <4> QED
        BY <2>4, <2>5, <3>2, <4>1, SMTT(60)
    <3>3. CASE \E g \in Desks : serving[g].key = key.id
      BY <2>1, <2>3, <2>4, <3>3
    <3>4. CASE claim[c] = [status |-> "ready", key |-> key.id]
      <4>1. handed' = [handed EXCEPT ![key.id] = Append(@, {c})]
        BY <1>7, <3>4 DEF Consumes
      <4>2. handed'[key.id] = Append(handed[key.id], {c})
        BY <2>4, <4>1
      <4> QED
        BY <2>4, <2>5, <4>2
    <3>5. CASE \E d \in Claims : d # c /\ claim[d] = [status |-> "ready", key |-> key.id]
      <4>1. \A d \in Claims : d # c => claim'[d] = claim[d]
        BY <1>7 DEF Consumes
      <4> QED
        BY <3>5, <4>1
    <3> QED
      BY <3>1, <3>2, <3>3, <3>4, <3>5
  <2> QED
    BY <2>2, <2>3, <2>6
<1>8. ASSUME NEW c \in Claims, Expire(c) PROVE KeysStay'
  BY <1>8, Turns DEF Expire
<1>9. CASE UNCHANGED claimVars
  BY <1>9 DEF claimVars, Minting, HeldBy, Held
<1> QED
  BY <1>1, <1>2, <1>3, <1>4, <1>5, <1>6, <1>7, <1>8, <1>9 DEF ClaimShape

LEMMA JoinsOneStays == ClaimInv /\ ClaimShape => JoinsOne'
<1> SUFFICES ASSUME ClaimInv, ClaimShape PROVE JoinsOne'
  OBVIOUS
<1> USE DEF ClaimInv, ClaimTypes, ServedAlone, JoinsOne, NoRequest
<1>1. ASSUME NEW h \in Desks, NEW next \in ServingType, TakesUp(h, next) PROVE JoinsOne'
  BY <1>1, Turns DEF TakesUp
<1>2. ASSUME NEW h \in Desks, NEW next \in ServingType, Moved(h, next) PROVE JoinsOne'
  <2> SUFFICES ASSUME claimScene.serial PROVE JoinsOne'
    BY <1>2 DEF Moved
  <2>1. serving'[h] = next /\ \A g \in Desks : g # h => serving'[g] = serving[g]
    BY <1>2, Turns DEF Moved
  <2>2. \A g \in Desks : g # h => serving'[g].pc = "idle"
    BY <1>2, <2>1 DEF Moved
  <2>3. UNCHANGED <<keys, claimScene>> /\ next.claim = serving[h].claim
    BY <1>2 DEF Moved
  <2>4. CASE UNCHANGED joined
    BY <1>2, <2>1, <2>2, <2>3, <2>4 DEF Moved
  <2>5. CASE serving[h].pc = "join" /\ next.pc = "customer" /\ joined' = joined \cup {next.org}
    <3>1. joined' = {next.org} /\ joined = {}
      BY <2>5 DEF CarriesItsClaim
    <3> QED
      BY <2>1, <2>2, <2>3, <2>5, <3>1
  <2> QED
    BY <1>2, <2>4, <2>5 DEF Moved
<1>3. ASSUME NEW h \in Desks, Dropped(h) PROVE JoinsOne'
  <2> SUFFICES ASSUME claimScene.serial PROVE JoinsOne'
    BY <1>3 DEF Dropped
  <2>1. serving'[h] = NoRequest /\ \A g \in Desks : g # h => serving'[g] = serving[g]
    BY <1>3, Turns DEF Dropped
  <2>2. \A g \in Desks : serving'[g].pc = "idle"
    BY <1>3, <2>1, NoRequestIsOne DEF Dropped
  <2>3. \A key \in keys' : key.for # {} => key.org \in joined
    BY <1>3 DEF Dropped, Minted
  <2>4. \A o, q \in joined' : o = q
    <3>1. CASE UNCHANGED joined
      BY <3>1
    <3>2. CASE serving[h].pc = "join" /\ joined' = joined \cup {serving[h].org}
      <4>1. joined = {}
        BY <3>2 DEF CarriesItsClaim
      <4> QED
        BY <3>2, <4>1
    <3> QED
      BY <1>3, <3>1, <3>2 DEF Dropped
  <2>5. joined \subseteq joined'
    BY <1>3 DEF Dropped
  <2> QED
    BY <2>2, <2>3, <2>4, <2>5
<1>4. ASSUME NEW h \in Desks, MintsForClaim(h) PROVE JoinsOne'
  <2> SUFFICES ASSUME claimScene.serial PROVE JoinsOne'
    BY <1>4 DEF MintsForClaim
  <2>1. PICK next \in ServingType : Hands(h, next) /\ next.pc = "mark"
    BY <1>4 DEF MintsForClaim
  <2>2. serving'[h] = next /\ \A g \in Desks : g # h => serving'[g] = serving[g]
    BY <2>1, Turns
  <2>3. \A g \in Desks : serving'[g].pc \in {"idle", "mark"}
    BY <1>4, <2>1, <2>2 DEF MintsForClaim
  <2>4. UNCHANGED joined /\ \A key \in keys' : key.for # {} => key.org \in joined
    BY <1>4 DEF MintsForClaim, Minted, ForClaim
  <2> QED
    BY <2>3, <2>4
<1>5. ASSUME NEW h \in Desks, MintsToAnswer(h) PROVE JoinsOne'
  <2> SUFFICES ASSUME claimScene.serial PROVE JoinsOne'
    BY <1>5 DEF MintsToAnswer
  <2>1. serving'[h] = NoRequest /\ \A g \in Desks : g # h => serving'[g] = serving[g]
    BY <1>5, Turns DEF MintsToAnswer
  <2>2. \A g \in Desks : serving'[g].pc = "idle"
    BY <1>5, <2>1, NoRequestIsOne DEF MintsToAnswer
  <2>3. UNCHANGED joined /\ \A key \in keys' : key.for # {} => key.org \in joined
    BY <1>5 DEF MintsToAnswer, Minted, ForClaim
  <2> QED
    BY <2>2, <2>3
<1>6. ASSUME NEW h \in Desks, NEW c \in Claims, Marks(h, c) PROVE JoinsOne'
  BY <1>6, Turns DEF Marks
<1>7. ASSUME NEW h \in Desks, NEW c \in Claims, Consumes(h, c) PROVE JoinsOne'
  BY <1>7, Turns DEF Consumes
<1>8. ASSUME NEW c \in Claims, Expire(c) PROVE JoinsOne'
  BY <1>8, Turns DEF Expire
<1>9. CASE UNCHANGED claimVars
  BY <1>9 DEF claimVars, Minting, HeldBy, Held
<1> QED
  BY <1>1, <1>2, <1>3, <1>4, <1>5, <1>6, <1>7, <1>8, <1>9 DEF ClaimShape

LEMMA ClaimsStep == ClaimInv /\ [ClaimNext]_claimVars => ClaimInv'
<1> SUFFICES ASSUME ClaimInv, [ClaimNext]_claimVars PROVE ClaimInv'
  OBVIOUS
<1>1. ClaimShape
  BY ClaimShapes DEF ClaimInv
<1> QED
  BY <1>1, ClaimTypesStay, KeysStayCounted, KeysStayHeld, ServedAloneStays, KeysStayWhere, JoinsOneStays DEF ClaimInv

LEMMA ClaimIsKept == ClaimInv => OneOrgPerUser /\ KeyReachesItsAgent
<1> SUFFICES ASSUME ClaimInv PROVE OneOrgPerUser /\ KeyReachesItsAgent
  OBVIOUS
<1>1. claimScene.serial => Cardinality(joined) <= 1
  <2> SUFFICES ASSUME claimScene.serial PROVE Cardinality(joined) <= 1
    OBVIOUS
  <2>1. CASE joined = {}
    BY <2>1, FS_EmptySet
  <2>2. CASE joined # {}
    <3>1. PICK o \in joined : TRUE
      BY <2>2
    <3>2. joined = {o}
      BY <3>1 DEF ClaimInv, JoinsOne
    <3> QED
      BY <3>2, FS_Singleton
  <2> QED
    BY <2>1, <2>2
<1> QED
  BY <1>1 DEF ClaimInv, JoinsOne, KeysAreHeld, KeysStay, OneOrgPerUser, KeyReachesItsAgent

-----------------------------------------------------------------------------
(* The connector. *)

ServesType ==
    [pc : {"rest", "get", "park", "touch", "exchange", "rotate", "answer"},
     kind : {"none", "authorize", "refresh", "callback", "code"},
     trip : Trips \cup {"none"}, seen : Nat, good : BOOLEAN]
TokenType == [trip : Trips \cup {"none"}, age : Nat, good : BOOLEAN]

ConnectorTypes ==
    /\ connectorScene \in ConnectorSceneType
    /\ known \in BOOLEAN /\ unused \in Nat
    /\ age \subseteq Nat /\ \A since, other \in age : since = other
    /\ token \subseteq TokenType
    /\ paidOut \in [Trips -> Nat]
    /\ serves \in [Served -> ServesType]

\* Who is at a step, and why.
KindsOfSteps ==
    \A r \in Served :
        /\ ServedAt(r, "get") => serves[r].kind \in {"authorize", "refresh"}
        /\ ServedAt(r, "rotate") => serves[r].kind = "refresh"
        /\ ServedAt(r, "answer") => serves[r].kind \in {"refresh", "code"}

\* The trip a request still has to end.
OnTrip(r, t) ==
    /\ serves[r].trip = t
    /\ \/ ServedAt(r, "get") /\ serves[r].kind = "authorize"
       \/ ServedAt(r, "park") \/ ServedAt(r, "exchange")
       \/ ServedAt(r, "answer") /\ serves[r].kind = "code"

\* A trip is begun once, and is in one place.
TripsEnd ==
    \A t \in Trips :
        /\ t \in parked \cup coded => t \in away /\ paidOut[t] = 0 /\ \A r \in Served : ~OnTrip(r, t)
        /\ ~(t \in parked /\ t \in coded)
        /\ \A r \in Served : OnTrip(r, t) =>
              t \in away /\ paidOut[t] = 0 /\ \A q \in Served : OnTrip(q, t) => q = r
        /\ paidOut[t] > 0 => t \in away
        /\ paidOut[t] <= 1

\* A registration is extended before half its life has gone by, counted from the
\* last time the connector was served; and no time passes while it is.
TwoLifetimesFit == \A ttl \in connectorScene.clientTtl : 2 * connectorScene.refreshTtl <= ttl
Extended ==
    /\ ~known => age = {} /\ unused = 0 /\ \A r \in Served : serves[r].pc \notin {"park", "touch"}
    /\ Reliable /\ TwoLifetimesFit =>
          /\ known => age # {}
          /\ \A since \in age, ttl \in connectorScene.clientTtl : 2 * since < ttl + 2 * unused
          /\ \A r \in Served : serves[r].pc \in {"park", "touch"} => \A since \in age : since <= serves[r].seen

\* A connector that asks again only when it has been answered holds the last
\* token of its sign-in, except while the next one is on its way.
HoldsTheLast ==
    Reliable /\ connectorScene.turns =>
        /\ \A r, q \in Served : ~ServedAt(r, "rest") /\ ~ServedAt(q, "rest") => r = q
        /\ \A r \in Served : ~ServedAt(r, "rest") /\ serves[r].kind \in {"refresh", "code"} => serves[r].good
        /\ \A held \in token : held.age < connectorScene.refreshTtl
        /\ (\A r \in Served : ~ServedAt(r, "answer")) => \A held \in token : held.good
        /\ (\E t \in Trips : paidOut[t] > 0) => token # {}

ConnectorInv == ConnectorTypes /\ KindsOfSteps /\ TripsEnd /\ Extended /\ HoldsTheLast

LEMMA ConnectorBegins == ConnectorInit => ConnectorInv
<1> SUFFICES ASSUME ConnectorInit PROVE ConnectorInv
  OBVIOUS
<1> USE DEF ConnectorInit, ServesType, Resting, ServedAt
<1>1. ConnectorTypes
  BY ConnectorSceneAssumption DEF ConnectorTypes
<1>2. KindsOfSteps
  BY DEF KindsOfSteps
<1>3. TripsEnd
  BY DEF TripsEnd, OnTrip
<1>4. Extended
  BY DEF Extended
<1>5. HoldsTheLast
  BY DEF HoldsTheLast
<1> QED
  BY <1>1, <1>2, <1>3, <1>4, <1>5 DEF ConnectorInv

\* The parts of the invariant, apart: each needs the types, and no other but the kinds.
LEMMA ConnectorTypesStay ==
    ConnectorTypes /\ KindsOfSteps /\ [ConnectorNext]_connectorVars => ConnectorTypes' /\ KindsOfSteps'
<1> SUFFICES ASSUME ConnectorTypes, KindsOfSteps, [ConnectorNext]_connectorVars
             PROVE  ConnectorTypes' /\ KindsOfSteps'
  OBVIOUS
<1> USE DEF ConnectorTypes, KindsOfSteps, ServesType, TokenType, Resting, ServedAt, StepTo, Over, MayAsk
<1>1. ASSUME NEW r \in Served, Register(r) PROVE ConnectorTypes' /\ KindsOfSteps'
  BY <1>1 DEF Register
<1>2. ASSUME NEW r \in Served, NEW t \in Trips, BeginAuthorize(r, t) PROVE ConnectorTypes' /\ KindsOfSteps'
  BY <1>2 DEF BeginAuthorize
<1>3. ASSUME NEW r \in Served, NEW t \in Trips, TakeSession(r, t) PROVE ConnectorTypes' /\ KindsOfSteps'
  BY <1>3 DEF TakeSession
<1>4. ASSUME NEW r \in Served, NEW t \in Trips, NEW right \in BOOLEAN, TakeCode(r, t, right)
      PROVE ConnectorTypes' /\ KindsOfSteps'
  BY <1>4 DEF TakeCode
<1>5. ASSUME NEW r \in Served, BeginRefresh(r) PROVE ConnectorTypes' /\ KindsOfSteps'
  <2> PICK held \in token :
        IF held.age < connectorScene.refreshTtl
        THEN /\ serves' = [serves EXCEPT ![r] =
                   [Resting EXCEPT !.pc = "get", !.kind = "refresh", !.trip = held.trip, !.good = held.good]]
             /\ UNCHANGED token
        ELSE token' = {} /\ UNCHANGED serves
    BY <1>5 DEF BeginRefresh
  <2>1. CASE held.age < connectorScene.refreshTtl
    <3> DEFINE next == [Resting EXCEPT !.pc = "get", !.kind = "refresh", !.trip = held.trip, !.good = held.good]
    <3>1. held.trip \in Trips \cup {"none"} /\ held.good \in BOOLEAN
      OBVIOUS
    <3>2. next \in ServesType /\ next.pc = "get" /\ next.kind = "refresh"
      BY <3>1
    <3>3. serves' = [serves EXCEPT ![r] = next] /\ UNCHANGED token
      BY <2>1
    <3> HIDE DEF next
    <3> QED
      BY <1>5, <3>2, <3>3 DEF BeginRefresh
  <2>2. CASE ~(held.age < connectorScene.refreshTtl)
    BY <1>5, <2>2 DEF BeginRefresh
  <2> QED
    BY <2>1, <2>2
<1>6. ASSUME NEW r \in Served, GetClient(r) PROVE ConnectorTypes' /\ KindsOfSteps'
  <2>1. CASE \E since \in age :
                serves' = [serves EXCEPT ![r].pc = IF @ = "get" /\ serves[r].kind = "refresh" THEN "touch" ELSE "park",
                                         ![r].seen = since]
    <3> PICK since \in age :
          serves' = [serves EXCEPT ![r].pc = IF @ = "get" /\ serves[r].kind = "refresh" THEN "touch" ELSE "park",
                                   ![r].seen = since]
      BY <2>1
    <3> DEFINE to == IF serves[r].kind = "refresh" THEN "touch" ELSE "park"
               next == [serves[r] EXCEPT !.pc = to, !.seen = since]
    <3>1. serves[r] \in ServesType /\ serves[r].pc = "get" /\ since \in Nat
      BY <1>6 DEF GetClient
    <3>2. next \in ServesType /\ next.pc \in {"touch", "park"}
      BY <3>1
    <3>3. serves' = [serves EXCEPT ![r] = next]
      BY <3>1
    <3> HIDE DEF next
    <3>4. serves' \in [Served -> ServesType]
      BY <3>2, <3>3, ZenonT(60)
    <3>5. KindsOfSteps'
      BY <3>2, <3>3
    <3> QED
      BY <1>6, <3>4, <3>5 DEF GetClient
  <2>2. CASE IF serves[r].kind = "refresh" THEN StepTo(r, "rotate") ELSE Over(r)
    <3>1. CASE serves[r].kind = "refresh"
      BY <1>6, <2>2, <3>1 DEF GetClient
    <3>2. CASE serves[r].kind # "refresh"
      <4>1. serves' = [serves EXCEPT ![r] = Resting]
        BY <2>2, <3>2
      <4>2. Resting \in ServesType
        OBVIOUS
      <4> QED
        BY <1>6, <4>1, <4>2, ZenonT(60) DEF GetClient
    <3> QED
      BY <3>1, <3>2
  <2> QED
    BY <1>6, <2>1, <2>2, SMTT(60) DEF GetClient
<1>7. ASSUME NEW r \in Served, Park(r) PROVE ConnectorTypes' /\ KindsOfSteps'
  <2>1. CASE StepTo(r, "touch")
    BY <1>7, <2>1 DEF Park
  <2>2. CASE Over(r)
    BY <1>7, <2>2 DEF Park
  <2> QED
    BY <1>7, <2>1, <2>2 DEF Park
<1>8. ASSUME NEW r \in Served, Touch(r) PROVE ConnectorTypes' /\ KindsOfSteps'
  <2>1. age' \subseteq Nat /\ unused' \in Nat
    BY <1>8 DEF Touch
  <2>2. CASE serves[r].kind = "refresh"
    <3>1. serves' = [serves EXCEPT ![r].pc = "rotate"]
      BY <1>8, <2>2 DEF Touch
    <3> QED
      BY <1>8, <2>1, <2>2, <3>1 DEF Touch
  <2>3. CASE serves[r].kind # "refresh"
    <3>1. serves' = [serves EXCEPT ![r] = Resting]
      BY <1>8, <2>3 DEF Touch
    <3>2. Resting \in ServesType
      OBVIOUS
    <3> QED
      BY <1>8, <2>1, <3>1, <3>2 DEF Touch
  <2> QED
    BY <2>2, <2>3
<1>9. ASSUME NEW r \in Served, ExchangeCode(r) PROVE ConnectorTypes' /\ KindsOfSteps'
  BY <1>9 DEF ExchangeCode
<1>10. ASSUME NEW r \in Served, Rotate(r) PROVE ConnectorTypes' /\ KindsOfSteps'
  <2>1. token' \subseteq TokenType
    <3> SUFFICES ASSUME NEW held \in token
                 PROVE (IF held.trip = serves[r].trip THEN [held EXCEPT !.good = FALSE] ELSE held) \in TokenType
      BY <1>10 DEF Rotate
    <3>1. held \in TokenType
      OBVIOUS
    <3>2. [held EXCEPT !.good = FALSE] \in TokenType
      BY <3>1
    <3> QED
      BY <3>1, <3>2
  <2>2. \A other \in Served :
           /\ other = r => serves'[other] = [serves[r] EXCEPT !.pc = "answer"]
           /\ other # r /\ serves[other].trip = serves[r].trip =>
                 serves'[other] = [serves[other] EXCEPT !.good = FALSE]
           /\ other # r /\ serves[other].trip # serves[r].trip => serves'[other] = serves[other]
    BY <1>10 DEF Rotate
  <2>3. serves' \in [Served -> ServesType]
    <3>1. ASSUME NEW other \in Served PROVE serves'[other] \in ServesType
      <4>1. serves[other] \in ServesType /\ serves[r] \in ServesType
        OBVIOUS
      <4>2. [serves[r] EXCEPT !.pc = "answer"] \in ServesType
        BY <4>1
      <4>3. [serves[other] EXCEPT !.good = FALSE] \in ServesType
        BY <4>1
      <4> QED
        BY <2>2, <4>1, <4>2, <4>3
    <3>2. serves' = [other \in Served |-> serves'[other]]
      BY <1>10 DEF Rotate
    <3> QED
      BY <3>1, <3>2
  <2>4. KindsOfSteps'
    BY <1>10, <2>2 DEF Rotate
  <2> QED
    BY <1>10, <2>1, <2>3, <2>4 DEF Rotate
<1>11. ASSUME NEW r \in Served, Refused(r) PROVE ConnectorTypes' /\ KindsOfSteps'
  BY <1>11 DEF Refused
<1>12. ASSUME NEW r \in Served, Answer(r) PROVE ConnectorTypes' /\ KindsOfSteps'
  <2>1. token' \subseteq TokenType
    BY <1>12 DEF Answer
  <2>2. paidOut' \in [Trips -> Nat]
    <3>1. CASE serves[r].kind = "code"
      <4>1. paidOut' = [paidOut EXCEPT ![serves[r].trip] = @ + 1]
        BY <1>12, <3>1 DEF Answer
      <4>2. CASE serves[r].trip \in Trips
        BY <4>1, <4>2
      <4>3. CASE serves[r].trip \notin Trips
        BY <4>1, <4>3
      <4> QED
        BY <4>2, <4>3
    <3>2. CASE serves[r].kind # "code"
      BY <1>12, <3>2 DEF Answer
    <3> QED
      BY <3>1, <3>2
  <2> QED
    BY <1>12, <2>1, <2>2 DEF Answer
<1>13. ASSUME NEW r \in Served, Lost(r) PROVE ConnectorTypes' /\ KindsOfSteps'
  BY <1>13 DEF Lost
<1>14. ASSUME NEW t \in Trips, RunsOut(t) PROVE ConnectorTypes' /\ KindsOfSteps'
  BY <1>14 DEF RunsOut
<1>15. CASE Restart
  BY <1>15 DEF Restart
<1>16. CASE TimePasses
  BY <1>16 DEF TimePasses
<1>17. CASE UNCHANGED connectorVars
  BY <1>17, SMTT(60) DEF connectorVars
<1> QED
  BY <1>1, <1>2, <1>3, <1>4, <1>5, <1>6, <1>7, <1>8, <1>9, <1>10, <1>11, <1>12, <1>13, <1>14,
     <1>15, <1>16, <1>17 DEF ConnectorNext

LEMMA TripsStay == ConnectorInv /\ [ConnectorNext]_connectorVars => TripsEnd'
<1> SUFFICES ASSUME ConnectorInv, [ConnectorNext]_connectorVars PROVE TripsEnd'
  OBVIOUS
<1>0. ConnectorTypes'
  BY ConnectorTypesStay DEF ConnectorInv
<1> USE <1>0 DEF ConnectorInv, ConnectorTypes, ServesType, TokenType, KindsOfSteps, TripsEnd, OnTrip, Resting, ServedAt, StepTo, Over, MayAsk
<1>1. ASSUME NEW r \in Served, Register(r) PROVE TripsEnd'
  BY <1>1 DEF Register
<1>2. ASSUME NEW r \in Served, NEW t \in Trips, BeginAuthorize(r, t) PROVE TripsEnd'
  BY <1>2 DEF BeginAuthorize
<1>3. ASSUME NEW r \in Served, NEW t \in Trips, TakeSession(r, t) PROVE TripsEnd'
  BY <1>3 DEF TakeSession
<1>4. ASSUME NEW r \in Served, NEW t \in Trips, NEW right \in BOOLEAN, TakeCode(r, t, right) PROVE TripsEnd'
  BY <1>4 DEF TakeCode
<1>5. ASSUME NEW r \in Served, BeginRefresh(r) PROVE TripsEnd'
  <2> PICK held \in token :
        IF held.age < connectorScene.refreshTtl
        THEN /\ serves' = [serves EXCEPT ![r] =
                   [Resting EXCEPT !.pc = "get", !.kind = "refresh", !.trip = held.trip, !.good = held.good]]
             /\ UNCHANGED token
        ELSE token' = {} /\ UNCHANGED serves
    BY <1>5 DEF BeginRefresh
  <2>1. CASE held.age < connectorScene.refreshTtl
    <3> DEFINE next == [Resting EXCEPT !.pc = "get", !.kind = "refresh", !.trip = held.trip, !.good = held.good]
    <3>1. serves' = [serves EXCEPT ![r] = next] /\ next.pc = "get" /\ next.kind = "refresh" /\ next.good = held.good
      BY <2>1
    <3> HIDE DEF next
    <3> QED
      BY <1>5, <2>1, <3>1 DEF BeginRefresh
  <2>2. CASE ~(held.age < connectorScene.refreshTtl)
    BY <1>5, <2>2 DEF BeginRefresh
  <2> QED
    BY <2>1, <2>2
<1>6. ASSUME NEW r \in Served, GetClient(r) PROVE TripsEnd'
  BY <1>6 DEF GetClient
<1>7. ASSUME NEW r \in Served, Park(r) PROVE TripsEnd'
  <2>1. CASE StepTo(r, "touch") /\ parked' = parked \cup {serves[r].trip}
    BY <1>7, <2>1 DEF Park
  <2>2. CASE Over(r) /\ UNCHANGED parked
    BY <1>7, <2>2 DEF Park
  <2> QED
    BY <1>7, <2>1, <2>2 DEF Park
<1>8. ASSUME NEW r \in Served, Touch(r) PROVE TripsEnd'
  BY <1>8 DEF Touch
<1>9. ASSUME NEW r \in Served, ExchangeCode(r) PROVE TripsEnd'
  BY <1>9 DEF ExchangeCode
<1>10. ASSUME NEW r \in Served, Rotate(r) PROVE TripsEnd'
  BY <1>10 DEF Rotate
<1>11. ASSUME NEW r \in Served, Refused(r) PROVE TripsEnd'
  BY <1>11 DEF Refused
<1>12. ASSUME NEW r \in Served, Answer(r) PROVE TripsEnd'
  BY <1>12 DEF Answer
<1>13. ASSUME NEW r \in Served, Lost(r) PROVE TripsEnd'
  BY <1>13 DEF Lost
<1>14. ASSUME NEW t \in Trips, RunsOut(t) PROVE TripsEnd'
  BY <1>14 DEF RunsOut
<1>15. CASE Restart
  BY <1>15 DEF Restart
<1>16. CASE TimePasses
  BY <1>16 DEF TimePasses
<1>17. CASE UNCHANGED connectorVars
  BY <1>17 DEF connectorVars
<1> QED
  BY <1>1, <1>2, <1>3, <1>4, <1>5, <1>6, <1>7, <1>8, <1>9, <1>10, <1>11, <1>12, <1>13, <1>14, <1>15, <1>16, <1>17 DEF ConnectorNext

LEMMA OneTtl ==
  ASSUME ConnectorInv, connectorScene.clientTtl # {}
  PROVE  \E ttl \in Nat : connectorScene.clientTtl = {ttl}
<1>1. connectorScene.clientTtl \in {{ttl} : ttl \in 1..8} \cup {{}}
  BY DEF ConnectorInv, ConnectorTypes, ConnectorSceneType
<1>2. PICK ttl \in 1..8 : connectorScene.clientTtl = {ttl}
  BY <1>1
<1> QED
  BY <1>2

LEMMA RegistrationsStay == ConnectorInv /\ [ConnectorNext]_connectorVars => Extended'
<1> SUFFICES ASSUME ConnectorInv, [ConnectorNext]_connectorVars PROVE Extended'
  OBVIOUS
<1>0. ConnectorTypes'
  BY ConnectorTypesStay DEF ConnectorInv
<1> USE <1>0 DEF ConnectorInv, ConnectorTypes, ServesType, TokenType, KindsOfSteps, Extended, Reliable, TwoLifetimesFit, Unreliable, ConnectorSceneType, Due, Expired, Resting, ServedAt, StepTo, Over, MayAsk
<1>1. ASSUME NEW r \in Served, Register(r) PROVE Extended'
  BY <1>1 DEF Register
<1>2. ASSUME NEW r \in Served, NEW t \in Trips, BeginAuthorize(r, t) PROVE Extended'
  BY <1>2 DEF BeginAuthorize
<1>3. ASSUME NEW r \in Served, NEW t \in Trips, TakeSession(r, t) PROVE Extended'
  BY <1>3 DEF TakeSession
<1>4. ASSUME NEW r \in Served, NEW t \in Trips, NEW right \in BOOLEAN, TakeCode(r, t, right) PROVE Extended'
  BY <1>4 DEF TakeCode
<1>5. ASSUME NEW r \in Served, BeginRefresh(r) PROVE Extended'
  <2> PICK held \in token :
        IF held.age < connectorScene.refreshTtl
        THEN /\ serves' = [serves EXCEPT ![r] =
                   [Resting EXCEPT !.pc = "get", !.kind = "refresh", !.trip = held.trip, !.good = held.good]]
             /\ UNCHANGED token
        ELSE token' = {} /\ UNCHANGED serves
    BY <1>5 DEF BeginRefresh
  <2>1. CASE held.age < connectorScene.refreshTtl
    <3> DEFINE next == [Resting EXCEPT !.pc = "get", !.kind = "refresh", !.trip = held.trip, !.good = held.good]
    <3>1. serves' = [serves EXCEPT ![r] = next] /\ next.pc = "get" /\ next.kind = "refresh" /\ next.good = held.good
      BY <2>1
    <3> HIDE DEF next
    <3> QED
      BY <1>5, <2>1, <3>1 DEF BeginRefresh
  <2>2. CASE ~(held.age < connectorScene.refreshTtl)
    BY <1>5, <2>2 DEF BeginRefresh
  <2> QED
    BY <2>1, <2>2
<1>6. ASSUME NEW r \in Served, GetClient(r) PROVE Extended'
  <2>1. CASE \E since \in age :
                serves' = [serves EXCEPT ![r].pc = IF @ = "get" /\ serves[r].kind = "refresh" THEN "touch" ELSE "park",
                                         ![r].seen = since]
    <3> PICK since \in age :
          serves' = [serves EXCEPT ![r].pc = IF @ = "get" /\ serves[r].kind = "refresh" THEN "touch" ELSE "park",
                                   ![r].seen = since]
      BY <2>1
    <3>1. /\ serves'[r].seen = since
          /\ \A other \in Served : other # r => serves'[other] = serves[other]
      OBVIOUS
    <3>2. \A other \in age : other = since
      OBVIOUS
    <3>3. since <= since
      OBVIOUS
    <3>4. /\ UNCHANGED <<connectorScene, known, age, unused>>
      BY <1>6 DEF GetClient
    <3> QED
      BY <3>1, <3>2, <3>3, <3>4
  <2>2. CASE IF serves[r].kind = "refresh" THEN StepTo(r, "rotate") ELSE Over(r)
    <3>1. \A other \in Served :
             /\ serves'[other].pc \in {"park", "touch"} => serves[other].pc \in {"park", "touch"}
             /\ serves'[other].pc \in {"park", "touch"} => serves'[other].seen = serves[other].seen
      BY <2>2
    <3> QED
      BY <1>6, <3>1 DEF GetClient
  <2> QED
    BY <1>6, <2>1, <2>2, SMTT(60) DEF GetClient
<1>7. ASSUME NEW r \in Served, Park(r) PROVE Extended'
  BY <1>7 DEF Park
<1>8. ASSUME NEW r \in Served, Touch(r) PROVE Extended'
  <2>1. \A other \in Served :
           /\ serves'[other].pc \in {"park", "touch"} => serves[other].pc \in {"park", "touch"}
           /\ serves'[other].pc \in {"park", "touch"} => serves'[other].seen = serves[other].seen
    <3>1. CASE serves[r].kind = "refresh"
      BY <1>8, <3>1 DEF Touch
    <3>2. CASE serves[r].kind # "refresh"
      BY <1>8, <3>2 DEF Touch
    <3> QED
      BY <3>1, <3>2
  <2>2. CASE Unreliable("store") /\ UNCHANGED age
    BY <1>8, <2>1, <2>2 DEF Touch
  <2>3. CASE age' = {0} /\ Due(serves[r].seen)
    <3>1. \A ttl \in connectorScene.clientTtl : ttl \in Nat /\ ttl > 0
      OBVIOUS
    <3>2. \A other \in Served : serves'[other].pc \in {"park", "touch"} => serves'[other].seen \in Nat
      BY <2>1
    <3>3. unused' = 0
      BY <1>8 DEF Touch
    <3>4. \A ttl \in connectorScene.clientTtl : 2 * 0 < ttl + 2 * unused'
      BY <3>1, <3>3
    <3>5. known
      BY <1>8 DEF Touch
    <3>6. UNCHANGED <<known, connectorScene>>
      BY <1>8 DEF Touch
    <3> QED
      BY <2>3, <3>2, <3>4, <3>5, <3>6
  <2>4. CASE age' = age /\ ~Due(serves[r].seen)
    <3> SUFFICES ASSUME Reliable, TwoLifetimesFit, NEW since \in age, NEW ttl \in connectorScene.clientTtl
                 PROVE 2 * since < ttl
      BY <1>8, <2>1, <2>4 DEF Touch
    <3>1. since <= serves[r].seen /\ serves[r].seen \in Nat /\ since \in Nat
      BY <1>8 DEF Touch
    <3>2. ttl \in Nat
      OBVIOUS
    <3>3. 2 * serves[r].seen < ttl
      BY <2>4, <3>1, <3>2
    <3> QED
      BY <3>1, <3>2, <3>3
  <2> QED
    BY <1>8, <2>2, <2>3, <2>4 DEF Touch
<1>9. ASSUME NEW r \in Served, ExchangeCode(r) PROVE Extended'
  BY <1>9 DEF ExchangeCode
<1>10. ASSUME NEW r \in Served, Rotate(r) PROVE Extended'
  BY <1>10 DEF Rotate
<1>11. ASSUME NEW r \in Served, Refused(r) PROVE Extended'
  BY <1>11 DEF Refused
<1>12. ASSUME NEW r \in Served, Answer(r) PROVE Extended'
  BY <1>12 DEF Answer
<1>13. ASSUME NEW r \in Served, Lost(r) PROVE Extended'
  BY <1>13 DEF Lost
<1>14. ASSUME NEW t \in Trips, RunsOut(t) PROVE Extended'
  BY <1>14 DEF RunsOut
<1>15. CASE Restart
  BY <1>15 DEF Restart
<1>16. CASE TimePasses
  <2> SUFFICES ASSUME Reliable, TwoLifetimesFit
               PROVE  /\ age' # {}
                      /\ \A since \in age', ttl \in connectorScene.clientTtl : 2 * since < ttl + 2 * unused'
    BY <1>16 DEF TimePasses
  <2>1. PICK a \in age : TRUE
    BY <1>16 DEF TimePasses
  <2>2. a \in Nat /\ age = {a} /\ unused \in Nat /\ connectorScene.refreshTtl \in Nat
    <3>1. \A other \in age : other = a
      OBVIOUS
    <3>2. connectorScene.refreshTtl \in Nat
      OBVIOUS
    <3>3. a \in age
      BY <2>1
    <3>4. age = {a}
      BY ONLY <3>1, <3>3, Zenon
    <3> QED
      BY <3>2, <3>4
  <2>3. unused + 1 < connectorScene.refreshTtl /\ unused' = unused + 1
    BY <1>16 DEF TimePasses
  <2>4. CASE connectorScene.clientTtl = {}
    <3>1. a \in age'
      BY <1>16, <2>2, <2>4 DEF TimePasses
    <3> QED
      BY <1>16, <2>4, <3>1 DEF TimePasses
  <2>5. CASE connectorScene.clientTtl # {}
    <3>1. PICK ttl \in Nat : connectorScene.clientTtl = {ttl}
      BY <2>5, OneTtl
    <3>2. 2 * a < ttl + 2 * unused /\ 2 * connectorScene.refreshTtl <= ttl
      BY <2>2, <3>1
    <3>3. ~(a + 1 >= ttl)
      BY <2>2, <2>3, <3>1, <3>2
    <3>4. ~Expired(connectorScene.clientTtl, a + 1)
      BY <3>1, <3>3
    <3>5. age' = {a + 1}
      BY <1>16, <2>2, <2>5, <3>4 DEF TimePasses
    <3>6. 2 * (a + 1) < ttl + 2 * (unused + 1)
      BY <2>2, <3>1, <3>2
    <3> QED
      BY <2>3, <3>1, <3>5, <3>6
  <2> QED
    BY <2>4, <2>5
<1>17. CASE UNCHANGED connectorVars
  BY <1>17 DEF connectorVars
<1> QED
  BY <1>1, <1>2, <1>3, <1>4, <1>5, <1>6, <1>7, <1>8, <1>9, <1>10, <1>11, <1>12, <1>13, <1>14, <1>15, <1>16, <1>17 DEF ConnectorNext

LEMMA SessionsStay == ConnectorInv /\ [ConnectorNext]_connectorVars => HoldsTheLast'
<1> SUFFICES ASSUME ConnectorInv, [ConnectorNext]_connectorVars PROVE HoldsTheLast'
  OBVIOUS
<1>0. ConnectorTypes'
  BY ConnectorTypesStay DEF ConnectorInv
<1> USE <1>0 DEF ConnectorInv, ConnectorTypes, ServesType, TokenType, KindsOfSteps, HoldsTheLast, Reliable, Unreliable, ConnectorSceneType, Resting, ServedAt, StepTo, Over, MayAsk
<1>1. ASSUME NEW r \in Served, Register(r) PROVE HoldsTheLast'
  BY <1>1 DEF Register
<1>2. ASSUME NEW r \in Served, NEW t \in Trips, BeginAuthorize(r, t) PROVE HoldsTheLast'
  BY <1>2 DEF BeginAuthorize
<1>3. ASSUME NEW r \in Served, NEW t \in Trips, TakeSession(r, t) PROVE HoldsTheLast'
  BY <1>3 DEF TakeSession
<1>4. ASSUME NEW r \in Served, NEW t \in Trips, NEW right \in BOOLEAN, TakeCode(r, t, right) PROVE HoldsTheLast'
  BY <1>4 DEF TakeCode
<1>5. ASSUME NEW r \in Served, BeginRefresh(r) PROVE HoldsTheLast'
  <2> PICK held \in token :
        IF held.age < connectorScene.refreshTtl
        THEN /\ serves' = [serves EXCEPT ![r] =
                   [Resting EXCEPT !.pc = "get", !.kind = "refresh", !.trip = held.trip, !.good = held.good]]
             /\ UNCHANGED token
        ELSE token' = {} /\ UNCHANGED serves
    BY <1>5 DEF BeginRefresh
  <2>1. CASE held.age < connectorScene.refreshTtl
    <3> DEFINE next == [Resting EXCEPT !.pc = "get", !.kind = "refresh", !.trip = held.trip, !.good = held.good]
    <3>1. serves' = [serves EXCEPT ![r] = next] /\ next.pc = "get" /\ next.kind = "refresh" /\ next.good = held.good
      BY <2>1
    <3> HIDE DEF next
    <3> QED
      BY <1>5, <2>1, <3>1 DEF BeginRefresh
  <2>2. CASE ~(held.age < connectorScene.refreshTtl)
    BY <1>5, <2>2 DEF BeginRefresh
  <2> QED
    BY <2>1, <2>2
<1>6. ASSUME NEW r \in Served, GetClient(r) PROVE HoldsTheLast'
  BY <1>6, SMTT(60) DEF GetClient
<1>7. ASSUME NEW r \in Served, Park(r) PROVE HoldsTheLast'
  BY <1>7 DEF Park
<1>8. ASSUME NEW r \in Served, Touch(r) PROVE HoldsTheLast'
  BY <1>8 DEF Touch
<1>9. ASSUME NEW r \in Served, ExchangeCode(r) PROVE HoldsTheLast'
  BY <1>9 DEF ExchangeCode
<1>10. ASSUME NEW r \in Served, Rotate(r) PROVE HoldsTheLast'
  <2>1. \A other \in Served :
           /\ serves'[other].kind = serves[other].kind
           /\ serves'[other].pc = "rest" => serves[other].pc = "rest"
    BY <1>10 DEF Rotate
  <2>2. serves'[r].pc = "answer" /\ serves'[r].good
    BY <1>10 DEF Rotate
  <2>3. \A held \in token' : \E old \in token : held.age = old.age
    BY <1>10 DEF Rotate
  <2>4. ASSUME token # {} PROVE token' # {}
    <3>1. PICK held \in token : TRUE
      BY <2>4
    <3> DEFINE told(old) == IF old.trip = serves[r].trip THEN [old EXCEPT !.good = FALSE] ELSE old
    <3>2. token' = {told(old) : old \in token}
      BY <1>10 DEF Rotate
    <3> HIDE DEF told
    <3> QED
      BY <3>1, <3>2
  <2>5. Reliable /\ connectorScene.turns => \A other \in Served : serves[other].pc # "rest" => other = r
    BY <1>10 DEF Rotate
  <2> QED
    BY <1>10, <2>1, <2>2, <2>3, <2>4, <2>5 DEF Rotate
<1>11. ASSUME NEW r \in Served, Refused(r) PROVE HoldsTheLast'
  BY <1>11 DEF Refused
<1>12. ASSUME NEW r \in Served, Answer(r) PROVE HoldsTheLast'
  BY <1>12 DEF Answer
<1>13. ASSUME NEW r \in Served, Lost(r) PROVE HoldsTheLast'
  BY <1>13 DEF Lost
<1>14. ASSUME NEW t \in Trips, RunsOut(t) PROVE HoldsTheLast'
  BY <1>14 DEF RunsOut
<1>15. CASE Restart
  BY <1>15 DEF Restart
<1>16. CASE TimePasses
  <2> SUFFICES ASSUME Reliable, connectorScene.turns PROVE HoldsTheLast'
    BY <1>16 DEF TimePasses
  <2>1. \A held \in token : held.age + 1 < connectorScene.refreshTtl
    BY <1>16 DEF TimePasses
  <2>2. ASSUME NEW held \in token' PROVE held.age < connectorScene.refreshTtl /\ held.good
    <3>1. PICK old \in token : held = [old EXCEPT !.age = IF @ < connectorScene.refreshTtl THEN @ + 1 ELSE @]
      BY <1>16 DEF TimePasses
    <3>2. old.age \in Nat /\ old.age + 1 < connectorScene.refreshTtl /\ connectorScene.refreshTtl \in Nat
      BY <2>1
    <3>3. held.age = old.age + 1 /\ held.good = old.good
      BY <3>1, <3>2
    <3>4. old.good
      BY <1>16 DEF TimePasses
    <3> QED
      BY <3>2, <3>3, <3>4
  <2>3. ASSUME token # {} PROVE token' # {}
    <3>1. PICK held \in token : TRUE
      BY <2>3
    <3>2. [held EXCEPT !.age = IF @ < connectorScene.refreshTtl THEN @ + 1 ELSE @] \in token'
      BY <1>16 DEF TimePasses
    <3> QED
      BY <3>2
  <2> QED
    BY <1>16, <2>2, <2>3 DEF TimePasses
<1>17. CASE UNCHANGED connectorVars
  BY <1>17 DEF connectorVars
<1> QED
  BY <1>1, <1>2, <1>3, <1>4, <1>5, <1>6, <1>7, <1>8, <1>9, <1>10, <1>11, <1>12, <1>13, <1>14, <1>15, <1>16, <1>17 DEF ConnectorNext

LEMMA ConnectorSteps == ConnectorInv /\ [ConnectorNext]_connectorVars => ConnectorInv'
BY ConnectorTypesStay, TripsStay, RegistrationsStay, SessionsStay DEF ConnectorInv

LEMMA ConnectorIsKept == ConnectorInv => ConnectorStays
BY DEF ConnectorInv, ConnectorTypes, TripsEnd, Extended, HoldsTheLast, TwoLifetimesFit, ConnectorStays, ServedAt

-----------------------------------------------------------------------------
(* Together. *)

AccessInv == MirrorInv /\ ClaimInv /\ ConnectorInv

\* A step of the organization is a step of a part, or leaves the part alone.
LEMMA PartsStep ==
    [Next]_vars => [MirrorNext]_mirrorVars /\ [ClaimNext]_claimVars /\ [ConnectorNext]_connectorVars
<1> SUFFICES ASSUME [Next]_vars
             PROVE  [MirrorNext]_mirrorVars /\ [ClaimNext]_claimVars /\ [ConnectorNext]_connectorVars
  OBVIOUS
<1>1. CASE QueuesNext /\ UNCHANGED <<workspaceVars, claimVars, connectorVars>>
  BY <1>1 DEF workspaceVars
<1>2. CASE WorkspaceNext /\ UNCHANGED <<queueVars, claimVars, connectorVars>>
  BY <1>2 DEF WorkspaceNext
<1>3. CASE ClaimNext /\ UNCHANGED <<queueVars, workspaceVars, connectorVars>>
  BY <1>3 DEF workspaceVars
<1>4. CASE ConnectorNext /\ UNCHANGED <<queueVars, workspaceVars, claimVars>>
  BY <1>4 DEF workspaceVars
<1>5. CASE UNCHANGED vars
  BY <1>5 DEF vars, workspaceVars
<1> QED
  BY <1>1, <1>2, <1>3, <1>4, <1>5 DEF Next

LEMMA AccessIsInvariant == Spec => []AccessInv
<1>1. Init => AccessInv
  BY MirrorBegins, ClaimsBegin, ConnectorBegins DEF Init, WorkspaceInit, AccessInv
<1>2. AccessInv /\ [Next]_vars => AccessInv'
  BY PartsStep, MirrorSteps, ClaimsStep, ConnectorSteps DEF AccessInv
<1> QED
  BY <1>1, <1>2, PTL DEF Spec

\* Whoever asks first, however many times and whatever fails: a row of the
\* application has one organization of WorkOS, its first reads race without being
\* refused, and a user whose sign-ins follow one another has one of their own.
THEOREM EverybodyHasOneOrganization == Spec => []OneOrganization
<1>1. AccessInv => OneOrganization
  BY MirrorIsKept, ClaimIsKept DEF AccessInv, OneOrganization
<1> QED
  BY <1>1, AccessIsInvariant, PTL

\* A key is handed out at most once, and to the agent whose claim it answers; one
\* that was minted is never lost where nothing fails; a connector in use keeps its
\* registration and its session, and a code's tokens go out once.
THEOREM AccessGivenStays == Spec => []AccessIsKept
<1>1. AccessInv => AccessIsKept
  BY ClaimIsKept, ConnectorIsKept DEF AccessInv, AccessIsKept
<1> QED
  BY <1>1, AccessIsInvariant, PTL
=============================================================================
