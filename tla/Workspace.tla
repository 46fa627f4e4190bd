------------------------------ MODULE Workspace ------------------------------
(***************************************************************************)
(* Closing a workspace while its members come, go and change seats, and    *)
(* while somebody may still be paying for it: stop the billing, clear the  *)
(* members' records, delete the organization last.                         *)
(***************************************************************************)
EXTENDS Membership, OrgMirror

CONSTANTS
    Home,           \* the workspace that closes
    Subscriptions,
    Closers,        \* who closes it, one close at a time each
    MaxCloses       \* bound: closes begun
ASSUME WorkspaceAssumption == Home \in Orgs /\ IsFiniteSet(Subscriptions) /\ MaxCloses \in Nat

\* sub: the subscriptions at first. late: one may begin at any time. mapped: the
\* application keeps rows of its own. clears: what clearMembers may be.
CloseSceneType ==
    [sub : [Subscriptions -> {"none", "active", "past_due"}], late : BOOLEAN, mapped : BOOLEAN,
     clears : SUBSET BOOLEAN, closes : 0..MaxCloses,
     faults : SUBSET {"stripe", "list", "write", "delete", "dies"}]

VARIABLES
    closeScene,
    exists,     \* WorkOS has the organization of Home
    customer,   \* Home has a Stripe customer
    sub,        \* sub[s]: its status; "ending" at the period's end
    close,      \* close[k]: where the close k runs is, and what it has read
    closes,     \* closes begun
    late        \* ghost: subscriptions begun behind a close's back

closeVars == <<closeScene, exists, customer, sub, close, closes, late>>
workspaceVars == <<memberVars, mirrorVars, closeVars>>

-----------------------------------------------------------------------------
OpenSub == [pc |-> "idle", at |-> "now", delete |-> FALSE, clear |-> FALSE, live |-> {}, stuck |-> FALSE,
            todo |-> {}, who |-> Nobody, mine |-> NoRecord]
Closing(k, pc) == close[k].pc = pc
Suffers(fault) == fault \in closeScene.faults

LIVE == {"active", "past_due", "ending"}

\* A close that deletes cannot wait for the period's end: refused up front. The
\* customer is read; without one there is no billing to stop.
BeginClose(k, at, delete, clear) ==
    /\ Closing(k, "idle") /\ closes < closeScene.closes /\ exists
    /\ ~(at = "period_end" /\ delete)
    /\ clear \in closeScene.clears
    /\ "records" \in memberScene.serial => \A a \in Actors : "records" \notin LocksOf(op[a].kind)
    /\ close' = [close EXCEPT ![k] = [OpenSub EXCEPT
                    !.pc = IF customer THEN "list" ELSE "members",
                    !.at = at, !.delete = delete, !.clear = clear]]
    /\ closes' = closes + 1
    /\ UNCHANGED <<closeScene, exists, customer, sub, late, memberVars>>

ListLive(k) ==
    /\ Closing(k, "list")
    /\ close' = [close EXCEPT ![k].live = {s \in Subscriptions : sub[s] \in LIVE}, ![k].pc = "stop"]
    /\ UNCHANGED <<closeScene, exists, customer, sub, closes, late, memberVars>>

\* A subscription that cannot be stopped is a warning, and the close goes on;
\* one that has ended meanwhile is one.
Stop(k) ==
    /\ Closing(k, "stop")
    /\ \E s \in close[k].live :
          \/ /\ sub[s] # "canceled"
             /\ sub' = [sub EXCEPT ![s] = IF close[k].at = "now" THEN "canceled" ELSE "ending"]
             /\ close' = [close EXCEPT ![k].live = @ \ {s}]
          \/ /\ sub[s] = "canceled" \/ Suffers("stripe")
             /\ close' = [close EXCEPT ![k].live = @ \ {s}, ![k].stuck = TRUE]
             /\ UNCHANGED sub
    /\ UNCHANGED <<closeScene, exists, customer, closes, late, memberVars>>

AllStopped(k) ==
    /\ Closing(k, "stop") /\ close[k].live = {}
    /\ close' = [close EXCEPT ![k].pc = "members"]
    /\ UNCHANGED <<closeScene, exists, customer, sub, closes, late, memberVars>>

\* Giving the members their room back; a failure is a warning.
ListMembers(k) ==
    /\ Closing(k, "members")
    /\ close' = [close EXCEPT ![k] =
                    IF close[k].clear THEN [@ EXCEPT !.pc = "clearing", !.todo = Active(Home)]
                    ELSE [@ EXCEPT !.pc = "delete"]]
    /\ UNCHANGED <<closeScene, exists, customer, sub, closes, late, memberVars>>

ReadMember(k) ==
    /\ Closing(k, "clearing")
    /\ IF close[k].todo = {} THEN close' = [close EXCEPT ![k].pc = "delete"]
       ELSE \E p \in close[k].todo :
              \/ /\ record[p][Home] # "none"
                 /\ close' = [close EXCEPT ![k].pc = "clear", ![k].todo = @ \ {p},
                                           ![k].who = p, ![k].mine = record[p]]
              \/ /\ record[p][Home] = "none" \/ Rejects("memberRead")
                 /\ close' = [close EXCEPT ![k].todo = @ \ {p}]
    /\ UNCHANGED <<closeScene, exists, customer, sub, closes, late, memberVars>>

ClearMember(k) ==
    /\ Closing(k, "clear")
    /\ record' = [record EXCEPT ![close[k].who] = [close[k].mine EXCEPT ![Home] = "none"]]
    /\ close' = [close EXCEPT ![k].pc = "clearing"]
    /\ UNCHANGED <<closeScene, exists, customer, sub, closes, late,
                   memberScene, member, invited, op, calls>>

\* The list, or one of the writes, throws: the rest is left as it is.
ClearFails(k) ==
    /\ \/ Closing(k, "members") /\ close[k].clear /\ Suffers("list")
       \/ Closing(k, "clear") /\ Suffers("write")
    /\ close' = [close EXCEPT ![k].pc = "delete"]
    /\ UNCHANGED <<closeScene, exists, customer, sub, closes, late, memberVars>>

\* (mutant of MayDelete)
MayDeleteAnyway(k) == close[k].delete
MayDelete(k) == close[k].delete /\ ~close[k].stuck

\* The last step. An application with rows of its own names the row, which WorkOS
\* does not know.
Delete(k) ==
    /\ Closing(k, "delete")
    /\ \/ /\ MayDelete(k) /\ ~closeScene.mapped
          /\ exists' = FALSE
          /\ member' = [member EXCEPT ![Home] = [p \in People |-> [@[p] EXCEPT !.status = "none"]]]
          /\ invited' = [invited EXCEPT ![Home] = [p \in People |->
                            IF @[p].state = "pending" THEN [@[p] EXCEPT !.state = "revoked"] ELSE @[p]]]
       \/ /\ ~MayDelete(k) \/ closeScene.mapped \/ Suffers("delete")
          /\ UNCHANGED <<exists, member, invited>>
    /\ close' = [close EXCEPT ![k] = OpenSub]
    /\ UNCHANGED <<closeScene, customer, sub, closes, late, memberScene, record, op, calls>>

Dies(k) ==
    /\ Suffers("dies") /\ ~Closing(k, "idle")
    /\ close' = [close EXCEPT ![k] = OpenSub]
    /\ UNCHANGED <<closeScene, exists, customer, sub, closes, late, memberVars>>

-----------------------------------------------------------------------------
(* Around it. *)

\* Members' records are changed by one operation at a time, where that is so.
RecordsFree(begun) ==
    "records" \in memberScene.serial =>
        \/ \A k \in Closers : Closing(k, "idle")
        \/ \A a \in begun : "records" \notin LocksOf(op'[a].kind)

\* A payment page left open: Stripe knows nothing of the organization.
Subscribe(s) ==
    /\ closeScene.late /\ sub[s] = "none"
    /\ sub' = [sub EXCEPT ![s] = "active"]
    /\ customer' = TRUE
    /\ late' = IF ~exists \/ \E k \in Closers : close[k].pc \notin {"idle", "list"}
               THEN late \cup {s} ELSE late
    /\ UNCHANGED <<closeScene, exists, close, closes, memberVars>>

SubscriptionMoves(s) ==
    /\ closeScene.late
    /\ \/ sub[s] = "active" /\ sub' = [sub EXCEPT ![s] = "past_due"]
       \/ sub[s] \in {"past_due", "ending"} /\ sub' = [sub EXCEPT ![s] = "canceled"]
    /\ UNCHANGED <<closeScene, exists, customer, close, closes, late, memberVars>>

\* Members act as before; once the organization is gone, what needs it throws.
\* A person's metadata does not.
MembersAct ==
    /\ MemberNext
    /\ ~exists => member'[Home] = member[Home] /\ invited'[Home] = invited[Home]
    /\ LET begun == IF calls' = calls THEN {} ELSE {a \in Actors : op'[a] # op[a]}
       IN RecordsFree(begun) /\ (~exists => \A a \in begun : op'[a].org # Home)
    /\ UNCHANGED closeVars

OrgIsGone(a) ==
    /\ ~exists /\ op[a].kind # "none" /\ op[a].org = Home
    /\ Ends(a)
    /\ UNCHANGED <<memberScene, member, invited, record, calls, closeVars>>

WorkspaceInit ==
    /\ MemberInit /\ MirrorInit
    /\ closeScene \in CloseSceneType
    /\ exists = TRUE /\ late = {} /\ closes = 0
    /\ sub = closeScene.sub
    /\ customer = (\E s \in Subscriptions : sub[s] # "none")
    /\ close = [k \in Closers |-> OpenSub]

CloseNext ==
    \/ \E k \in Closers :
          \/ \E at \in {"now", "period_end"}, delete \in BOOLEAN, clear \in BOOLEAN :
                BeginClose(k, at, delete, clear)
          \/ ListLive(k) \/ Stop(k) \/ AllStopped(k)
          \/ ListMembers(k) \/ ReadMember(k) \/ ClearMember(k) \/ ClearFails(k)
          \/ Delete(k) \/ Dies(k)
    \/ \E s \in Subscriptions : Subscribe(s) \/ SubscriptionMoves(s)
    \/ \E a \in Actors : OrgIsGone(a)

WorkspaceNext ==
    \/ MembersAct /\ UNCHANGED mirrorVars
    \/ CloseNext /\ UNCHANGED mirrorVars
    \/ MirrorNext /\ UNCHANGED <<memberVars, closeVars>>

-----------------------------------------------------------------------------
(* Properties. *)

\* Where roles can be read, and role changes and removals run one at a time, a
\* workspace that exists always has somebody who may administer it: "demote or
\* remove them and isAdmin answers false for everybody" (members.ts:23-26).
AdminRemains ==
    "admins" \in memberScene.serial /\ ~Rejects("roles") =>
        \A o \in Orgs : memberScene.staff[o] \cap memberScene.admins # {} /\ (o = Home => exists) =>
                            Admins(o) # {}

\* Seats are not given away. An assignment, to whatever seat, leaves no more people
\* drawing it than were bought or than the plan allows, those on the default seat
\* unassigned included (seats.ts:191-193); no more were ever given a seat than that,
\* and no more are in or invited than there are places. Assignments that decide at
\* once go beyond it together by one each, no further. Not so where the members, a
\* record or the purchase cannot be read, an invitation names a seat, or somebody
\* else accepts it. Nothing counts who comes to draw the default seat without an
\* assignment: by joining, or when the seat he was given is cleared.
NothingGivenAway ==
    [][\A o \in Orgs :
         /\ memberScene.faults \cap {"memberList", "memberRead", "bought"} = {} =>
              \A seat \in SeatNames :
                 /\ ~memberScene.naming => Suffice(o, seat, Cardinality(Given(o, seat)'), Overlap("seats"))
                 /\ /\ {"seats", "records"} \subseteq memberScene.serial
                    /\ \E p \in People : record'[p][o] = seat /\ record[p][o] # seat
                    => Suffice(o, seat, Cardinality(Drawing(o, seat)'), 0)
         /\ ~memberScene.stand /\ ~Rejects("bought") =>
              AtMost(Places(o)' - Overlap("places"), MemberLimit(memberScene.bought[o]))]_memberVars

Quiet == (\A a \in Actors : Is(a, "idle")) /\ (\A k \in Closers : Closing(k, "idle"))

\* An organization that is gone owes nothing: no subscription of it is live but one
\* that began behind the close (close-workspace.ts:66-71, 170-175). And once the
\* operations are over, nobody who has left still carries the workspace in their
\* own metadata (members.ts:293-299), unless operations on records overlapped, a
\* call failed, or the seat was recorded for an invitation.
NothingLeftBehind ==
    /\ ~exists => \A s \in Subscriptions : sub[s] \in {"active", "past_due", "ending"} => s \in late
    /\ /\ Quiet /\ "records" \in memberScene.serial /\ ~memberScene.naming
       /\ memberScene.faults \cap {"fails", "memberRead"} = {}
       /\ closeScene.faults = {} /\ closeScene.clears = {TRUE}
       => \A o \in Orgs, p \in People : member[o][p].status # "active" => record[p][o] = "none"
=============================================================================
