------------------------------- MODULE TopUps -------------------------------
(***************************************************************************)
(* Extra allowance: a member asks, an administrator approves, denies, or   *)
(* grants unasked. The queue of asks is one value of the organization's    *)
(* metadata; what is granted is one value of each member's. Both are read, *)
(* changed and written back whole, and nothing is held in between.         *)
(*                                                                         *)
(* A grant is filed under the key of a window, <<every, turn>>, and counts *)
(* only while that window is the current one.                              *)
(***************************************************************************)
EXTENDS Integers, Sequences, FiniteSets

CONSTANTS
    Members, Administrators,    \* who runs one operation at a time
    Windows,                    \* the windows a member can be blocked on
    MaxTurns,                   \* bound: windows of one length
    MaxTopUpCalls,                   \* bound: operations begun
    Amount,                     \* credits of one ask or grant
    RequestSize, GrantSize,     \* room a record takes in the value
    ValueLimit,                 \* METADATA_VALUE_LIMIT
    KeysPerOrg,                 \* KEYS_PER_ORG
    TopUpScenes                 \* what varies between deployments

Callers == Members \cup Administrators
ASSUME TopUpAssumption ==
    /\ IsFiniteSet(Callers) /\ Members # {}
    /\ IsFiniteSet(Windows) /\ "cycle" \in Windows
    /\ Amount \in Nat \ {0} /\ MaxTurns \in Nat /\ MaxTopUpCalls \in Nat
    /\ RequestSize \in Nat \ {0} /\ GrantSize \in Nat
    /\ GrantSize >= RequestSize  \* a grant also records who granted it
    /\ ValueLimit \in Nat /\ KeysPerOrg \in Nat \ {0}

\* serial: one operation at a time. legacy: grants still in the organization's
\* own value, by member. max: maxPerCycle. clicks: a grant names its own id, so
\* that a second click is the same grant. calls: bound, below MaxTopUpCalls.
TopUpSceneType ==
    [serial : BOOLEAN, legacy : SUBSET Members, max : SUBSET Nat, clicks : BOOLEAN,
     calls : 0..MaxTopUpCalls, turns : SUBSET Windows, faults : SUBSET {"fails", "memberRead"}]
ASSUME TopUpSceneAssumption == TopUpScenes \subseteq TopUpSceneType

VARIABLES
    topUpScene, \* one of TopUpScenes
    topUps,     \* the queue: [id, member, key, status, by]
    grants,     \* grants[m]: [key, credits] in the order of first insertion
    legacy,     \* legacy[m]: the same, in the organization's value
    turn,       \* turn[w]: how many windows of that length have started
    topUpOp,         \* topUpOp[p]: the operation p runs, and what it has read
    begun,      \* operations begun
    promised,   \* ghost: promised[m][key], what was granted
    given       \* ghost: given[id], how many times a record's credits were granted

topUpVars == <<topUpScene, topUps, grants, legacy, turn, topUpOp, begun, promised, given>>

-----------------------------------------------------------------------------
Keys == Windows \X (0..MaxTurns)
KeyOf(w) == <<w, turn[w]>>
Ids == {<<n>> : n \in 1..MaxTopUpCalls} \cup (Members \X Keys)
Faulty(fault) == fault \in topUpScene.faults

\* The elements of a sequence at some of its places, in order.
Subseq(seq, places) ==
    [k \in 1..Cardinality(places) |->
        seq[CHOOSE i \in places : Cardinality({j \in places : j < i}) = k - 1]]

Fits(list) ==
    LET by(who) == Cardinality({i \in DOMAIN list : list[i].by = who})
    IN GrantSize * by("admin") + RequestSize * by("member") <= ValueLimit

\* What is given up first: settled records, oldest first, then the oldest.
GivenUpBefore(list, i) ==
    LET settled == {j \in DOMAIN list : list[j].status # "pending"}
    IN IF i \in settled THEN {j \in settled : j < i}
       ELSE settled \cup {j \in DOMAIN list \ settled : j < i}

\* (mutant of TrimRequestsToBudget)
TrimOldestFirst(list) ==
    LET kept(n) == Subseq(list, {i \in DOMAIN list : i > n})
        enough == {n \in 0..Len(list) : Fits(kept(n))}
    IN kept(CHOOSE n \in enough : \A m \in enough : n <= m)

TrimRequestsToBudget(list) ==
    LET kept(n) == Subseq(list, {i \in DOMAIN list : Cardinality(GivenUpBefore(list, i)) >= n})
        enough == {n \in 0..Len(list) : Fits(kept(n))}
    IN kept(CHOOSE n \in enough : \A m \in enough : n <= m)

-----------------------------------------------------------------------------
(* The grants of one member, as an object that keeps the order of its keys. *)

Holds(held, key) == \E i \in DOMAIN held : held[i].key = key
CreditsOf(held, key) == held[CHOOSE i \in DOMAIN held : held[i].key = key].credits

Put(held, key, credits) ==
    IF Holds(held, key)
    THEN [i \in DOMAIN held |-> IF held[i].key = key THEN [held[i] EXCEPT !.credits = credits]
                                ELSE held[i]]
    ELSE Append(held, [key |-> key, credits |-> credits])

\* (mutant of Newest)
NewestOne(held) == SubSeq(held, Len(held), Len(held))
Newest(held) == SubSeq(held, IF Len(held) > KeysPerOrg THEN Len(held) - KeysPerOrg + 1 ELSE 1, Len(held))

\* readGrant: the member's own record, else the organization's, else nothing.
ReadGrant(own, m, key) ==
    CASE Holds(own, key) -> CreditsOf(own, key)
      [] ~Holds(own, key) /\ Holds(legacy[m], key) -> CreditsOf(legacy[m], key)
      [] OTHER -> 0

\* What a read of the member's metadata brings; a failed one counts as empty.
Read(m) == {grants[m]} \cup (IF Faulty("memberRead") THEN {<<>>} ELSE {})

Migrated(own, old) ==
    LET missing == Subseq(old, {i \in DOMAIN old : ~Holds(own, old[i].key)})
    IN own \o missing

NoLegacy == [m \in Members |-> <<>>]
HasLegacy == \E m \in Members : legacy[m] # <<>>

-----------------------------------------------------------------------------
(* Beginning an operation: its first read of the queue. *)

IdleTopUp == [pc |-> "idle", id |-> <<0>>, member |-> CHOOSE m \in Members : TRUE, key |-> <<"cycle", 0>>,
           list |-> <<>>, base |-> 0, mine |-> <<>>, todo |-> {}, drop |-> FALSE]
AtStep(p, pc) == topUpOp[p].pc = pc
Free(p) == AtStep(p, "idle") /\ (topUpScene.serial => \A q \in Callers : AtStep(q, "idle"))

Continues(p, next) == topUpOp' = [topUpOp EXCEPT ![p] = next]
Starts(p, next) ==
    /\ Free(p) /\ begun < topUpScene.calls
    /\ begun' = begun + 1
    /\ Continues(p, next)
    /\ UNCHANGED <<topUps, grants, legacy, turn, promised, given>>

\* A random id.
Fresh == <<begun + 1>>
Entry(id, m, key, status, by) ==
    [id |-> id, member |-> m, key |-> key, status |-> status, by |-> by]

Waiting(list, m, key) ==
    {i \in DOMAIN list : list[i].member = m /\ list[i].key = key /\ list[i].status = "pending"}

\* requestExtraAllowance: refused while the member's ask for this window waits.
RequestExtraAllowance(m) ==
    \E w \in Windows :
        /\ Waiting(topUps, m, KeyOf(w)) = {}
        /\ Starts(m, [IdleTopUp EXCEPT !.pc = IF topUpScene.max = {} THEN "filing" ELSE "granted",
                                    !.id = Fresh, !.member = m, !.key = KeyOf(w)])

\* requestTopUp named outright, which checks nothing first.
RequestOutright(m) ==
    \E w \in Windows :
        Starts(m, [IdleTopUp EXCEPT !.pc = "filing", !.id = Fresh, !.member = m, !.key = KeyOf(w)])

\* (mutant of ApproveTopUp)
ApproveAgain(p) ==
    \E i \in DOMAIN topUps :
        /\ topUps[i].status # "denied"
        /\ Starts(p, [IdleTopUp EXCEPT !.pc = "granting", !.id = topUps[i].id,
                                    !.member = topUps[i].member, !.key = topUps[i].key,
                                    !.list = [topUps EXCEPT ![i].status = "approved"]])

ApproveTopUp(p) ==
    \E i \in DOMAIN topUps :
        /\ topUps[i].status = "pending"
        /\ Starts(p, [IdleTopUp EXCEPT !.pc = "granting", !.id = topUps[i].id,
                                    !.member = topUps[i].member, !.key = topUps[i].key,
                                    !.list = [topUps EXCEPT ![i].status = "approved"]])

DenyTopUp(p) ==
    \E i \in DOMAIN topUps :
        /\ topUps[i].status = "pending"
        /\ Starts(p, [IdleTopUp EXCEPT !.pc = "recording",
                                    !.list = [topUps EXCEPT ![i].status = "denied"]])

\* grantTopUp: unasked, once per id the caller names.
GrantTopUp(p) ==
    \E m \in Members, w \in Windows :
        LET id == IF topUpScene.clicks THEN <<m, KeyOf(w)>> ELSE Fresh IN
        /\ \A i \in DOMAIN topUps : topUps[i].id # id
        /\ Starts(p, [IdleTopUp EXCEPT !.pc = "granting", !.id = id, !.member = m, !.key = KeyOf(w),
                                    !.list = Append(topUps, Entry(id, m, KeyOf(w), "approved", "admin"))])

-----------------------------------------------------------------------------
(* The steps of an operation, one per await. *)

\* maxPerCycle: what is granted is read, then what is queued.
CountGranted(p) ==
    /\ AtStep(p, "granted")
    /\ \E own \in Read(topUpOp[p].member) :
          Continues(p, [topUpOp[p] EXCEPT !.pc = "queued", !.base = ReadGrant(own, topUpOp[p].member, topUpOp[p].key)])
    /\ UNCHANGED <<topUps, grants, legacy, turn, begun, promised, given>>

CountQueued(p) ==
    /\ AtStep(p, "queued")
    /\ LET queued == Amount * Cardinality(Waiting(topUps, topUpOp[p].member, topUpOp[p].key))
           over == \E max \in topUpScene.max : topUpOp[p].base + queued + Amount > max
       IN Continues(p, IF over THEN IdleTopUp ELSE [topUpOp[p] EXCEPT !.pc = "filing"])
    /\ UNCHANGED <<topUps, grants, legacy, turn, begun, promised, given>>

RequestTopUp(p) ==
    /\ AtStep(p, "filing")
    /\ Continues(p, [topUpOp[p] EXCEPT !.pc = "recording",
                   !.list = Append(topUps, Entry(topUpOp[p].id, topUpOp[p].member, topUpOp[p].key, "pending", "member"))])
    /\ UNCHANGED <<topUps, grants, legacy, turn, begun, promised, given>>

\* addGrant: what the member has for this window, then all the member has.
ReadBase(p) ==
    /\ AtStep(p, "granting")
    /\ \E own \in Read(topUpOp[p].member) :
          Continues(p, [topUpOp[p] EXCEPT !.pc = "merging", !.base = ReadGrant(own, topUpOp[p].member, topUpOp[p].key)])
    /\ UNCHANGED <<topUps, grants, legacy, turn, begun, promised, given>>

ReadMine(p) ==
    /\ AtStep(p, "merging")
    /\ \E own \in Read(topUpOp[p].member) : Continues(p, [topUpOp[p] EXCEPT !.pc = "giving", !.mine = own])
    /\ UNCHANGED <<topUps, grants, legacy, turn, begun, promised, given>>

AddGrant(p) ==
    /\ AtStep(p, "giving")
    /\ LET m == topUpOp[p].member
           key == topUpOp[p].key
       IN /\ grants' = [grants EXCEPT ![m] = Newest(Put(topUpOp[p].mine, key, topUpOp[p].base + Amount))]
          /\ promised' = [promised EXCEPT ![m][key] = @ + Amount]
          /\ given' = [given EXCEPT ![topUpOp[p].id] = @ + 1]
    /\ Continues(p, [topUpOp[p] EXCEPT !.pc = "recording"])
    /\ UNCHANGED <<topUps, legacy, turn, begun>>

\* Writing the queue. The store first moves the organization's own grants to
\* their members, and drops them once every one of them is copied.
RecordApproval(p) ==
    /\ AtStep(p, "recording") /\ ~HasLegacy
    /\ topUps' = TrimRequestsToBudget(topUpOp[p].list)
    /\ Continues(p, IdleTopUp)
    /\ UNCHANGED <<grants, legacy, turn, begun, promised, given>>

StartMigration(p) ==
    /\ AtStep(p, "recording") /\ HasLegacy
    /\ Continues(p, [topUpOp[p] EXCEPT !.pc = "migrating", !.drop = TRUE,
                             !.todo = {m \in Members : legacy[m] # <<>>}])
    /\ UNCHANGED <<topUps, grants, legacy, turn, begun, promised, given>>

MigrateRead(p) ==
    /\ AtStep(p, "migrating")
    /\ \E m \in topUpOp[p].todo : Continues(p, [topUpOp[p] EXCEPT !.pc = "copying", !.member = m, !.mine = grants[m]])
    /\ UNCHANGED <<topUps, grants, legacy, turn, begun, promised, given>>

MigrateWrite(p) ==
    /\ AtStep(p, "copying")
    /\ LET m == topUpOp[p].member IN
          /\ grants' = IF Migrated(topUpOp[p].mine, legacy[m]) = topUpOp[p].mine THEN grants
                       ELSE [grants EXCEPT ![m] = Migrated(topUpOp[p].mine, legacy[m])]
          /\ Continues(p, [topUpOp[p] EXCEPT !.pc = "migrating", !.todo = @ \ {m}])
    /\ UNCHANGED <<topUps, legacy, turn, begun, promised, given>>

\* A member that cannot be read or written keeps the organization's record.
MigrateFails(p) ==
    /\ Faulty("fails")
    /\ AtStep(p, "copying") \/ (AtStep(p, "migrating") /\ topUpOp[p].todo # {})
    /\ Continues(p, [topUpOp[p] EXCEPT !.pc = "migrating", !.todo = {}, !.drop = FALSE])
    /\ UNCHANGED <<topUps, grants, legacy, turn, begun, promised, given>>

RecordMigrated(p) ==
    /\ AtStep(p, "migrating") /\ topUpOp[p].todo = {}
    /\ topUps' = TrimRequestsToBudget(topUpOp[p].list)
    /\ legacy' = IF topUpOp[p].drop THEN NoLegacy ELSE legacy
    /\ Continues(p, IdleTopUp)
    /\ UNCHANGED <<grants, turn, begun, promised, given>>

\* A read or a write that rejects ends the operation, and so does a crash.
TopUpFails(p) ==
    /\ Faulty("fails") /\ ~AtStep(p, "idle")
    /\ Continues(p, IdleTopUp)
    /\ UNCHANGED <<topUps, grants, legacy, turn, begun, promised, given>>

NewWindow(w) ==
    /\ w \in topUpScene.turns /\ turn[w] < MaxTurns
    /\ turn' = [turn EXCEPT ![w] = @ + 1]
    /\ UNCHANGED <<topUps, grants, legacy, topUpOp, begun, promised, given>>

Steps(p) ==
    \/ CountGranted(p) \/ CountQueued(p) \/ RequestTopUp(p)
    \/ ReadBase(p) \/ ReadMine(p) \/ AddGrant(p)
    \/ RecordApproval(p) \/ StartMigration(p) \/ MigrateRead(p) \/ MigrateWrite(p) \/ MigrateFails(p)
    \/ RecordMigrated(p) \/ TopUpFails(p)

TopUpInit ==
    /\ topUpScene \in TopUpScenes
    /\ topUps = <<>>
    /\ grants = NoLegacy
    /\ legacy = [m \in Members |-> IF m \in topUpScene.legacy
                                   THEN <<[key |-> <<"cycle", 0>>, credits |-> Amount]>> ELSE <<>>]
    /\ turn = [w \in Windows |-> 0]
    /\ topUpOp = [p \in Callers |-> IdleTopUp]
    /\ begun = 0
    /\ promised = [m \in Members |-> [key \in Keys |->
                     IF m \in topUpScene.legacy /\ key = <<"cycle", 0>> THEN Amount ELSE 0]]
    /\ given = [id \in Ids |-> 0]

TopUpNext ==
    /\ \/ \E m \in Members : RequestExtraAllowance(m) \/ RequestOutright(m)
       \/ \E p \in Administrators : ApproveTopUp(p) \/ DenyTopUp(p) \/ GrantTopUp(p)
       \/ \E p \in Callers : Steps(p)
       \/ \E w \in Windows : NewWindow(w)
    /\ UNCHANGED topUpScene

TopUpSpec == TopUpInit /\ [][TopUpNext]_topUpVars

-----------------------------------------------------------------------------
(* Properties. *)

\* A member never has more for a window than was granted for it, and one
\* operation at a time loses nothing: what the meter reads is the sum of what
\* was granted, wherever it is stored and whatever fails, as long as the member
\* has been granted no more windows than a value keeps.
GrantsAreKept ==
    \A m \in Members, key \in Keys :
        LET extra == ReadGrant(grants[m], m, key) IN
        /\ extra <= promised[m][key]
        /\ (/\ topUpScene.serial /\ ~Faulty("memberRead")
            /\ Cardinality({k \in Keys : promised[m][k] > 0}) <= KeysPerOrg)
           => extra = promised[m][key]

\* An approved record has been granted, whatever failed afterwards. One operation
\* at a time grants it once, and never one it denied; a second click finds the
\* first only while the queue has had room for everything filed.
AnsweredOnce ==
    \A i \in DOMAIN topUps :
        LET r == topUps[i] IN
        /\ r.status = "approved" => given[r.id] > 0
        /\ (/\ topUpScene.serial /\ ~Faulty("fails") /\ \A p \in Callers : AtStep(p, "idle")
            /\ topUpScene.clicks => begun * GrantSize <= ValueLimit)
           => given[r.id] = (IF r.status = "approved" THEN 1 ELSE 0)

\* One operation at a time drops an ask that still waits only for want of room,
\* once no settled record is left to give up.
WaitingAsksAreKept ==
    [][topUpScene.serial =>
        \A i \in DOMAIN topUps :
            topUps[i].status = "pending" /\ (\A k \in DOMAIN topUps' : topUps'[k].id # topUps[i].id)
                => \A k \in DOMAIN topUps' : topUps'[k].status = "pending"]_topUpVars
=============================================================================
