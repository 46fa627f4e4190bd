----------------------------- MODULE Membership -----------------------------
(***************************************************************************)
(* Who is in a workspace and on which seat. The memberships, the           *)
(* invitations and each person's metadata live in WorkOS; every operation  *)
(* reads, decides and writes in calls of its own, and nothing is held in   *)
(* between.                                                                *)
(***************************************************************************)
EXTENDS Ladder, FiniteSets
LOCAL INSTANCE Functions

CONSTANTS
    Orgs, People,
    Actors,         \* who runs one operation at a time
    Model,          \* the plan every workspace is on
    MaxCalls,       \* bound: operations begun
    MemberScenes    \* what varies between deployments

SeatNames == SeatKeys(Model)
Roles == {"admin", "member"}
Kinds == {"assign", "invite", "role", "remove", "accept", "revoke"}
Locks == {"admins", "seats", "places", "records"}

ASSUME MembershipAssumption ==
    /\ IsFiniteSet(People) /\ IsFiniteSet(Actors) /\ IsFiniteSet(Orgs)
    /\ MaxCalls \in Nat /\ Model.sells = "seats"

\* staff, admins, held: who is in each workspace at first, and on which seat
\* ("none": no record). legacy: seats in the organization's own value. bought:
\* the recorded purchase, if there is one. kinds: the operations called. serial:
\* of those that touch the same of Locks, one at a time. naming: invitations
\* name a seat. stand: people may accept for each other (hooks.canAccept).
MemberSceneType ==
    [staff : [Orgs -> SUBSET People], admins : SUBSET People, held : [People -> SeatNames \cup {"none"}],
     legacy : [Orgs -> [People -> SeatNames \cup {"none"}]],
     bought : [Orgs -> SUBSET [SeatNames -> Nat]],
     kinds : SUBSET (Kinds \cup {"close"}), serial : SUBSET Locks, naming : BOOLEAN, stand : BOOLEAN,
     calls : 0..MaxCalls, faults : SUBSET {"fails", "memberRead", "memberList", "bought", "roles"}]
ASSUME MemberSceneAssumption == MemberScenes \subseteq MemberSceneType

VARIABLES
    memberScene,
    member,     \* member[o][p]: [status, role] of the membership
    invited,    \* invited[o][p]: [state, role, n] of the last invitation, the n-th
    record,     \* record[p][o]: p's metadata, the seat in each workspace
    op,         \* op[a]: the operation a runs, and what it has read
    calls       \* operations begun

memberVars == <<memberScene, member, invited, record, op, calls>>

-----------------------------------------------------------------------------
(* Reads. *)

Active(o) == {p \in People : member[o][p].status = "active"}
Admins(o) == {p \in Active(o) : member[o][p].role = "admin"}
Pending(o) == {p \in People : invited[o][p].state = "pending"}
Rejects(fault) == fault \in memberScene.faults

NoRecord == [o \in Orgs |-> "none"]

\* readMemberSeats: a failed read counts as an empty record.
Record(p) == {record[p]} \cup (IF Rejects("memberRead") THEN {NoRecord} ELSE {})

\* What listMemberIds(o).catch(() => []) brings.
Listed(o) == {Active(o)} \cup (IF Rejects("memberList") THEN {{}} ELSE {})

\* getSubscription(o).catch(() => null): a purchase that cannot be read is none.
PurchaseRead(o) == {memberScene.bought[o]} \cup (IF Rejects("bought") THEN {{}} ELSE {})

\* A member's own record wins over the organization's; "" is a cleared seat,
\* which the organization's value must not bring back.
SeatFrom(own, old) ==
    CASE own = "none" -> old
      [] own = "" -> "none"
      [] OTHER -> own

\* listSeatAssignments: the organization's value, and the records of those listed.
ListSeatAssignments(o, listed, read) ==
    [p \in People |-> IF p \in listed THEN SeatFrom(read[p][o], memberScene.legacy[o][p])
                      ELSE memberScene.legacy[o][p]]

\* getSeatType: what a person draws, none meaning the default seat.
SeatOf(o, p) == SeatFrom(record[p][o], memberScene.legacy[o][p])

\* (mutant of Occupancy)
OccupancyGiven(o, seat, listed, implicit, read, exclude) ==
    LET assigned == ListSeatAssignments(o, listed, read)
    IN Cardinality({p \in People : assigned[p] = seat} \ exclude)

\* How many hold a seat, leaving one person out. The default seat is also held
\* by everybody who was not given one.
Occupancy(o, seat, listed, implicit, read, exclude) ==
    LET assigned == ListSeatAssignments(o, listed, read)
        drawn == IF DefaultSeatOf(Model) = {seat}
                 THEN {p \in implicit : assigned[p] = "none"} ELSE {}
    IN Cardinality(({p \in People : assigned[p] = seat} \cup drawn) \ exclude)

\* A purchase that is not known allows; a type missing from one counts zero.
SeatAssignable(seat, taken, bought) ==
    /\ \A s \in SeatTypeOf(Model, seat) : AtMost(taken + 1, s.max)
    /\ \A counts \in bought : taken + 1 <= counts[seat]

\* The ceiling that binds: the seats bought, or the plan's own limit.
MemberLimit(bought) ==
    LET ceilings == {SumFunction(counts) : counts \in bought} \cup Model.members
    IN IF ceilings = {} THEN {} ELSE {Least(ceilings)}

\* memberSeats: an invitation sent is a place promised.
MemberSeats(o) == Cardinality(Active(o)) + Cardinality(Pending(o))

-----------------------------------------------------------------------------
(* Beginning and ending an operation. *)

Nobody == CHOOSE p \in People : TRUE
Nowhere == CHOOSE o \in Orgs : TRUE
IdleOp == [pc |-> "idle", kind |-> "none", org |-> Nowhere, who |-> Nobody, role |-> "member",
           seat |-> "", n |-> 0, mine |-> NoRecord, todo |-> {}]

Is(a, pc) == op[a].pc = pc
Goes(a, pc) == op' = [op EXCEPT ![a].pc = pc]
Ends(a) == op' = [op EXCEPT ![a] = IdleOp]

\* What an operation decides on.
LocksOf(kind) ==
    CASE kind = "role" -> {"admins"}
      [] kind = "remove" -> {"admins", "records"}
      [] kind = "assign" -> {"seats", "records"}
      [] kind \in {"invite", "accept", "revoke"} -> {"places", "seats"}
      [] OTHER -> {}

Begins(a, kind, pc, o, p) ==
    /\ Is(a, "idle") /\ kind \in memberScene.kinds /\ calls < memberScene.calls
    /\ \A b \in Actors : LocksOf(op[b].kind) \cap LocksOf(kind) \cap memberScene.serial = {}
    /\ op' = [op EXCEPT ![a] = [IdleOp EXCEPT !.pc = pc, !.kind = kind, !.org = o, !.who = p,
                                              !.role = invited[o][p].role, !.n = invited[o][p].n]]
    /\ calls' = calls + 1
    /\ UNCHANGED <<memberScene, member, invited, record>>

\* A call to WorkOS throws: what was written stays written.
Throws(a) ==
    /\ Rejects("fails") /\ op[a].kind \in Kinds
    /\ Ends(a)
    /\ UNCHANGED <<memberScene, member, invited, record, calls>>

-----------------------------------------------------------------------------
(* assign (bound-api.ts) and assign_seat_type: a member, a seat of the plan, *)
(* room on it, and the write.                                              *)

\* enforceMember.
BeginAssign(a, o, p) == p \in Active(o) /\ Begins(a, "assign", "naming", o, p)

\* The seat asked for, "" to clear.
Name(a, seat) ==
    /\ Is(a, "naming")
    /\ op' = [op EXCEPT ![a].seat = seat, ![a].pc = IF seat = "" THEN "own" ELSE "room"]
    /\ UNCHANGED <<memberScene, member, invited, record, calls>>

Placeholder(a) == IF op[a].kind = "invite" THEN {} ELSE {op[a].who}

\* Each read of the count may fail on its own.
Room(a) ==
    /\ Is(a, "room")
    /\ \E listed, implicit \in Listed(op[a].org) :
       \E bought \in PurchaseRead(op[a].org) :
       \E blind \in {{}} \cup (IF Rejects("memberRead") THEN {{p} : p \in People} ELSE {}) :
          LET read == [p \in People |-> IF p \in blind THEN NoRecord ELSE record[p]]
              taken == Occupancy(op[a].org, op[a].seat, listed, implicit, read, Placeholder(a))
          IN IF SeatAssignable(op[a].seat, taken, bought)
             THEN Goes(a, IF op[a].kind = "invite" THEN "send" ELSE "own")
             ELSE Ends(a)
    /\ UNCHANGED <<memberScene, member, invited, record, calls>>

ReadOwn(a) ==
    /\ Is(a, "own")
    /\ \E mine \in Record(op[a].who) : op' = [op EXCEPT ![a].mine = mine, ![a].pc = "assign"]
    /\ UNCHANGED <<memberScene, member, invited, record, calls>>

\* The value of every workspace is written back.
WriteSeat(a) ==
    /\ Is(a, "assign")
    /\ record' = [record EXCEPT ![op[a].who] = [op[a].mine EXCEPT ![op[a].org] = op[a].seat]]
    /\ Ends(a)
    /\ UNCHANGED <<memberScene, member, invited, calls>>

-----------------------------------------------------------------------------
(* inviteMember. *)

\* WorkOS refuses to invite a member, or twice.
BeginInvite(a, o, p) ==
    /\ member[o][p].status = "none" /\ p \notin Pending(o)
    /\ Begins(a, "invite", "places", o, p)

CountPlaces(a, role, seat) ==
    /\ Is(a, "places")
    /\ seat # "" => memberScene.naming
    /\ \E bought \in PurchaseRead(op[a].org) :
          IF AtMost(MemberSeats(op[a].org) + 1, MemberLimit(bought))
          THEN op' = [op EXCEPT ![a].role = role, ![a].seat = seat,
                                ![a].pc = IF seat = "" THEN "send" ELSE "room"]
          ELSE Ends(a)
    /\ UNCHANGED <<memberScene, member, invited, record, calls>>

\* Sending makes the user and a pending membership; the seat is recorded at once,
\* if the user is found.
Send(a) ==
    /\ Is(a, "send")
    /\ LET o == op[a].org
           p == op[a].who
       IN IF member[o][p].status = "none" /\ p \notin Pending(o)
          THEN /\ member' = [member EXCEPT ![o][p] = [status |-> "pending", role |-> op[a].role]]
               /\ invited' = [invited EXCEPT ![o][p] = [state |-> "pending", role |-> op[a].role, n |-> @.n + 1]]
               /\ IF op[a].seat = "" THEN Ends(a) ELSE Ends(a) \/ Goes(a, "own")
          ELSE UNCHANGED <<member, invited>> /\ Ends(a)
    /\ UNCHANGED <<memberScene, record, calls>>

-----------------------------------------------------------------------------
(* accept and revoke (invitations.ts). *)

\* The invitation the operation read is still pending.
Stands(a) ==
    LET i == invited[op[a].org][op[a].who] IN i.state = "pending" /\ i.n = op[a].n

\* p's invitation, accepted by p or, where the hook allows, by somebody else:
\* get, and the check of who may.
BeginAccept(a, o, p) == p \in Pending(o) /\ Begins(a, "accept", "enrol", o, p)

\* create-first; refused for a pending membership, which WorkOS's own accept takes.
Enrol(a, user) ==
    LET o == op[a].org
        join == [status |-> "active", role |-> op[a].role]
    IN /\ Is(a, "enrol")
       /\ user # op[a].who => memberScene.stand
       /\ CASE member[o][user].status = "pending" -> Goes(a, "take") /\ UNCHANGED member
            [] member[o][user].status = "active" -> Goes(a, "consume") /\ UNCHANGED member
            [] OTHER -> Goes(a, "consume") /\ member' = [member EXCEPT ![o][user] = join]
       /\ UNCHANGED <<memberScene, invited, record, calls>>

\* acceptInvitation, which admits the person it was sent to.
Take(a) ==
    /\ Is(a, "take")
    /\ LET o == op[a].org
           p == op[a].who
       IN IF Stands(a)
          THEN /\ member' = [member EXCEPT ![o][p] = [status |-> "active", role |-> op[a].role]]
               /\ invited' = [invited EXCEPT ![o][p].state = "accepted"]
          ELSE UNCHANGED <<member, invited>>
    /\ Ends(a)
    /\ UNCHANGED <<memberScene, record, calls>>

\* get and the belongs-to check; then revokeInvitation, also the end of an accept
\* that made the membership itself. What WorkOS does with the pending membership
\* is its own affair.
BeginRevoke(a, o, p) == p \in Pending(o) /\ Begins(a, "revoke", "consume", o, p)

Consume(a) ==
    /\ Is(a, "consume")
    /\ LET o == op[a].org
           p == op[a].who
       IN IF Stands(a)
          THEN /\ invited' = [invited EXCEPT ![o][p].state = "revoked"]
               /\ \/ UNCHANGED member
                  \/ /\ member[o][p].status = "pending"
                     /\ member' = [member EXCEPT ![o][p].status = "none"]
          ELSE UNCHANGED <<member, invited>>
    /\ Ends(a)
    /\ UNCHANGED <<memberScene, record, calls>>

-----------------------------------------------------------------------------
(* changeMemberRole and removeMember: the members are listed twice, for who *)
(* is one and for the last admin; WorkOS lists the active ones.            *)

BeginRole(a, o, p, role) ==
    /\ Is(a, "idle") /\ p \in Active(o)
    /\ "role" \in memberScene.kinds /\ calls < memberScene.calls
    /\ \A b \in Actors : "admins" \notin LocksOf(op[b].kind) \cap memberScene.serial
    /\ op' = [op EXCEPT ![a] = [IdleOp EXCEPT
                  !.pc = IF role = "admin" THEN "set" ELSE "admins",
                  !.kind = "role", !.org = o, !.who = p, !.role = role]]
    /\ calls' = calls + 1
    /\ UNCHANGED <<memberScene, member, invited, record>>

BeginRemove(a, o, p) == p \in Active(o) /\ Begins(a, "remove", "admins", o, p)

\* (mutant of IsLastAdmin)
IsLastMember(o, p) == {IF Active(o) = {p} THEN "true" ELSE "false"}

\* isLastAdmin: TRUE, FALSE, or null where no role can be read.
IsLastAdmin(o, p) ==
    {IF Active(o) = {} THEN "null" ELSE IF Admins(o) = {p} THEN "true" ELSE "false"}
    \cup (IF Rejects("roles") THEN {"null"} ELSE {})

\* A demotion goes on only when the answer is false, a removal unless it is true.
AskLastAdmin(a) ==
    /\ Is(a, "admins")
    /\ \E last \in IsLastAdmin(op[a].org, op[a].who) :
          IF op[a].kind = "role"
          THEN IF last = "false" THEN Goes(a, "set") ELSE Ends(a)
          ELSE IF last = "true" THEN Ends(a) ELSE Goes(a, "clearing")
    /\ UNCHANGED <<memberScene, member, invited, record, calls>>

SetRole(a) ==
    /\ Is(a, "set")
    /\ LET o == op[a].org
           p == op[a].who
       IN member' = IF p \in Active(o) THEN [member EXCEPT ![o][p].role = op[a].role] ELSE member
    /\ Ends(a)
    /\ UNCHANGED <<memberScene, invited, record, calls>>

\* clearMemberRecords, one person: a read that fails skips the person, a value
\* without this workspace is left alone.
ReadToClear(a, p, next) ==
    /\ \/ /\ record[p][op[a].org] # "none"
          /\ op' = [op EXCEPT ![a].who = p, ![a].mine = record[p], ![a].pc = "clear"]
       \/ /\ record[p][op[a].org] = "none" \/ Rejects("memberRead")
          /\ op' = [op EXCEPT ![a].who = p, ![a].pc = next]
    /\ UNCHANGED <<memberScene, member, invited, record, calls>>

WriteCleared(a, next) ==
    /\ Is(a, "clear")
    /\ record' = [record EXCEPT ![op[a].who] = [op[a].mine EXCEPT ![op[a].org] = "none"]]
    /\ Goes(a, next)
    /\ UNCHANGED <<memberScene, member, invited, calls>>

ClearRemoved(a) ==
    /\ op[a].kind = "remove"
    /\ (Is(a, "clearing") /\ ReadToClear(a, op[a].who, "drop")) \/ WriteCleared(a, "drop")

Drop(a) ==
    /\ Is(a, "drop")
    /\ LET o == op[a].org
           p == op[a].who
       IN member' = IF p \in Active(o) THEN [member EXCEPT ![o][p].status = "none"] ELSE member
    /\ Ends(a)
    /\ UNCHANGED <<memberScene, invited, record, calls>>

-----------------------------------------------------------------------------
MemberInit ==
    /\ memberScene \in MemberScenes
    /\ member = [o \in Orgs |-> [p \in People |->
                   [status |-> IF p \in memberScene.staff[o] THEN "active" ELSE "none",
                    role |-> IF p \in memberScene.admins THEN "admin" ELSE "member"]]]
    /\ invited = [o \in Orgs |-> [p \in People |-> [state |-> "none", role |-> "member", n |-> 0]]]
    /\ record = [p \in People |-> [o \in Orgs |->
                   IF p \in memberScene.staff[o] THEN memberScene.held[p] ELSE "none"]]
    /\ op = [a \in Actors |-> IdleOp]
    /\ calls = 0

BeginNext(a) ==
    /\ Is(a, "idle") /\ calls < memberScene.calls
    /\ \E o \in Orgs, p \in People :
       \/ BeginAssign(a, o, p)
       \/ BeginInvite(a, o, p)
       \/ \E role \in Roles : BeginRole(a, o, p, role)
       \/ BeginRemove(a, o, p)
       \/ BeginAccept(a, o, p)
       \/ BeginRevoke(a, o, p)

MemberNext ==
    \E a \in Actors :
       \/ BeginNext(a)
       \/ \E seat \in SeatNames \cup {""} : Name(a, seat)
       \/ Room(a)
       \/ ReadOwn(a)
       \/ WriteSeat(a)
       \/ \E role \in Roles, seat \in SeatNames \cup {""} : CountPlaces(a, role, seat)
       \/ Send(a)
       \/ \E user \in People : Enrol(a, user)
       \/ Take(a)
       \/ Consume(a)
       \/ AskLastAdmin(a)
       \/ SetRole(a)
       \/ ClearRemoved(a)
       \/ Drop(a)
       \/ Throws(a)

-----------------------------------------------------------------------------
(* Properties. *)

\* How far actors that decide at once can go beyond a ceiling together.
Overlap(lock) == IF lock \in memberScene.serial THEN 0 ELSE Cardinality(Actors) - 1

\* n people are no more than a seat was bought for, nor than the plan allows.
Suffice(o, seat, n, slack) ==
    /\ \A counts \in memberScene.bought[o] : n <= counts[seat] + slack
    /\ \A s \in SeatTypeOf(Model, seat) : AtMost(n - slack, s.max)

\* Who was given a seat, and who draws it: the default seat is drawn by everybody
\* who was given none (seats.ts:191-193).
Given(o, seat) == {p \in Active(o) : SeatOf(o, p) = seat}
Drawing(o, seat) ==
    Given(o, seat) \cup {p \in Active(o) : DefaultSeatOf(Model) = {seat} /\ SeatOf(o, p) = "none"}
Places(o) == Cardinality(Active(o)) + Cardinality(Pending(o))
=============================================================================
