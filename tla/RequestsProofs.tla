--------------------------- MODULE RequestsProofs ---------------------------
(***************************************************************************)
(* What the two queues of an organization keep, for any members, windows,  *)
(* deployments and room in a value: grants are neither inflated nor, one   *)
(* operation at a time, lost; what is answered is answered once; and what  *)
(* waits is not given up for want of room while something settled is left. *)
(***************************************************************************)
EXTENDS Organization, FiniteSetTheorems, TLAPS

-----------------------------------------------------------------------------
(* Numbers and sequences. *)

LEMMA LeastOf == ASSUME NEW T, T \subseteq Nat, T # {} PROVE \E x \in T : \A y \in T : x <= y
<1> DEFINE Below == {0..t : t \in T}
<1>1. Below \subseteq FiniteSubsetsOf(Nat) /\ Below # {}
  <2>1. \A t \in T : 0..t \subseteq Nat /\ IsFiniteSet(0..t)
    BY FS_Interval
  <2>2. QED
    BY <2>1 DEF FiniteSubsetsOf
<1>2. \E x \in Below : \A y \in Below : <<y, x>> \notin StrictSubsetOrdering(Nat)
  BY <1>1, WFMin, FS_StrictSubsetOrderingWellFounded
<1>3. PICK x \in T : \A y \in T : <<0..y, 0..x>> \notin StrictSubsetOrdering(Nat)
  BY <1>2
<1>4. ASSUME NEW y \in T, y < x PROVE FALSE
  <2>1. x \in 0..x /\ x \notin 0..y
    BY <1>4
  <2>2. 0..y \subseteq 0..x /\ 0..y # 0..x /\ 0..y \in SUBSET Nat /\ 0..x \in SUBSET Nat
    BY <1>4, <2>1
  <2>3. QED
    BY <1>3, <2>2 DEF StrictSubsetOrdering
<1>5. QED
  BY <1>4

LEMMA GreatestOf ==
    ASSUME NEW T, T \subseteq Nat, T # {}, NEW bound \in Nat, \A t \in T : t <= bound
    PROVE  \E x \in T : \A y \in T : y <= x
<1> DEFINE S == {bound - t : t \in T}
<1>1. S \subseteq Nat /\ S # {}
  <2>1. \A t \in T : t \in Nat /\ bound - t \in Nat
    OBVIOUS
  <2>2. QED
    BY <2>1
<1>2. PICK s \in S : \A r \in S : s <= r
  <2> HIDE DEF S
  <2> QED BY <1>1, LeastOf
<1>3. PICK t \in T : s = bound - t
  OBVIOUS
<1>4. ASSUME NEW y \in T PROVE y <= t
  <2>1. bound - y \in S /\ t \in Nat /\ y \in Nat
    OBVIOUS
  <2>2. bound - t <= bound - y
    BY <1>2, <1>3, <2>1
  <2>3. QED
    BY <2>1, <2>2
<1>5. QED
  BY <1>4

\* How many numbers there are up to one.
LEMMA CountUpTo ==
    ASSUME NEW n \in Nat
    PROVE  IsFiniteSet(1..n) /\ Cardinality(1..n) = n
<1>1. 1 \in Int /\ n \in Int
  OBVIOUS
<1>2. IsFiniteSet(1..n) /\ Cardinality(1..n) = IF 1 > n THEN 0 ELSE n - 1 + 1
  BY <1>1, FS_Interval
<1>3. CASE n = 0
  BY <1>2, <1>3
<1>4. CASE n > 0
  BY <1>2, <1>4
<1>5. QED
  BY <1>3, <1>4

\* How many of some places come before one.
Before(places, i) == {j \in places : j < i}

LEMMA BeforeIsFinite ==
    ASSUME NEW n \in Nat, NEW places \in SUBSET (1..n), NEW i \in Int
    PROVE  /\ IsFiniteSet(places) /\ IsFiniteSet(Before(places, i))
           /\ Cardinality(places) \in Nat /\ Cardinality(places) <= n
           /\ Cardinality(Before(places, i)) \in Nat
           /\ i \in places => Cardinality(Before(places, i)) < Cardinality(places)
<1>1. IsFiniteSet(1..n) /\ Cardinality(1..n) = n
  BY CountUpTo
<1>2. IsFiniteSet(places) /\ Cardinality(places) <= n
  BY <1>1, FS_Subset
<1>3. Before(places, i) \in SUBSET places
  BY DEF Before
<1>4. IsFiniteSet(Before(places, i)) /\ Cardinality(Before(places, i)) <= Cardinality(places)
      /\ (Cardinality(places) = Cardinality(Before(places, i)) => places = Before(places, i))
  BY <1>2, <1>3, FS_Subset
<1>5. Cardinality(places) \in Nat /\ Cardinality(Before(places, i)) \in Nat
  BY <1>2, <1>4, FS_CardinalityType
<1>6. i \in places => places # Before(places, i)
  BY DEF Before
<1>7. QED
  BY <1>1, <1>2, <1>4, <1>5, <1>6

LEMMA BeforeGrows ==
    ASSUME NEW n \in Nat, NEW places \in SUBSET (1..n), NEW i \in places, NEW j \in places, i < j
    PROVE  Cardinality(Before(places, i)) < Cardinality(Before(places, j))
<1>0. \A x \in places : x \in Int
  OBVIOUS
<1>1. Before(places, i) \in SUBSET Before(places, j) /\ i \in Before(places, j) /\ i \notin Before(places, i)
  <2>1. \A x : x \in Before(places, i) => x \in Before(places, j)
    BY <1>0 DEF Before
  <2>2. i \in Before(places, j) /\ i \notin Before(places, i)
    BY <1>0 DEF Before
  <2>3. QED
    BY <2>1, <2>2
<1>2. IsFiniteSet(Before(places, j))
  BY <1>0, BeforeIsFinite
<1>3. /\ Cardinality(Before(places, i)) <= Cardinality(Before(places, j))
      /\ Cardinality(Before(places, i)) # Cardinality(Before(places, j))
  BY <1>1, <1>2, FS_Subset
<1>4. Cardinality(Before(places, i)) \in Nat /\ Cardinality(Before(places, j)) \in Nat
  BY <1>0, BeforeIsFinite
<1>5. QED
  BY <1>3, <1>4

\* Of so many places, each number has its own.
LEMMA PlaceExists ==
    ASSUME NEW n \in Nat, NEW places \in SUBSET (1..n), NEW k \in 1..Cardinality(places)
    PROVE  \E i \in places : Cardinality(Before(places, i)) = k - 1
<1> DEFINE size(i) == Cardinality(Before(places, i))
<1> DEFINE T == {i \in places : size(i) >= k - 1}
<1>0. Cardinality(places) \in Nat /\ IsFiniteSet(places)
  BY BeforeIsFinite, 0 \in Int
<1>a. \A x \in places : x \in Nat /\ x \in Int /\ x <= n
  OBVIOUS
<1>1. \A i \in places : size(i) \in Nat
  BY <1>a, BeforeIsFinite
<1>2. T # {}
  <2>1. places # {}
    BY <1>0, FS_EmptySet
  <2>2. PICK m \in places : \A i \in places : i <= m
    <3>1. places \subseteq Nat
      BY <1>a
    <3>2. QED
      BY <1>a, <2>1, <3>1, GreatestOf
  <2>3. Before(places, m) = places \ {m}
    <3>1. \A x : x \in Before(places, m) <=> x \in places /\ x < m
      BY DEF Before
    <3>2. ASSUME NEW x \in places PROVE x < m <=> x # m
      <4>1. x \in Nat /\ m \in Nat /\ x <= m
        BY <1>a, <2>2
      <4>2. QED
        BY <4>1
    <3>3. QED
      BY <2>2, <3>1, <3>2
  <2>4. size(m) = Cardinality(places) - 1
    BY <1>0, <2>3, FS_RemoveElement
  <2>5. QED
    BY <1>0, <2>4
<1>3. PICK i \in T : \A y \in T : i <= y
  <2>1. T \subseteq Nat
    BY <1>a
  <2> HIDE DEF T
  <2>2. QED
    BY <1>2, <2>1, LeastOf
<1>4. size(i) = k - 1
  <2> SUFFICES ASSUME size(i) # k - 1 PROVE FALSE
    OBVIOUS
  <2>1. size(i) \in Nat /\ size(i) > k - 1 /\ k - 1 \in Nat
    BY <1>0, <1>1
  <2>2. IsFiniteSet(Before(places, i)) /\ Before(places, i) # {}
    <3>1. IsFiniteSet(Before(places, i))
      BY <1>a, BeforeIsFinite
    <3>2. size(i) # 0
      BY <2>1
    <3>3. QED
      BY <3>1, <3>2, FS_EmptySet
  <2>3. PICK p \in Before(places, i) : \A j \in Before(places, i) : j <= p
    <3>1. Before(places, i) \subseteq Nat /\ \A t \in Before(places, i) : t <= n
      BY <1>a DEF Before
    <3>2. QED
      BY <2>2, <3>1, GreatestOf
  <2>4. p \in places /\ p < i
    BY <2>3 DEF Before
  <2>5. Before(places, p) = Before(places, i) \ {p}
    <3>1. \A x : x \in Before(places, i) => x \in places /\ x < i /\ x <= p
      BY <2>3 DEF Before
    <3>2. \A x \in places : x < p => x \in Before(places, i) /\ x # p
      BY <1>a, <2>4 DEF Before
    <3>3. \A x : x \in Before(places, p) <=> x \in Before(places, i) \ {p}
      <4>1. \A x : x \in Before(places, p) <=> x \in places /\ x < p
        BY DEF Before
      <4>2. ASSUME NEW x \in places, x < i, x <= p, x # p PROVE x < p
        <5>1. x \in Nat /\ p \in Nat
          BY <1>a, <2>4
        <5>2. QED
          BY <4>2, <5>1
      <4>3. ~(p < p)
        BY <1>a, <2>4
      <4>4. QED
        BY <3>1, <3>2, <4>1, <4>2, <4>3
    <3>4. QED
      BY <3>3
  <2>6. size(p) = size(i) - 1
    BY <2>2, <2>3, <2>5, FS_RemoveElement
  <2>7. p \in T
    BY <2>1, <2>4, <2>6
  <2>8. QED
    BY <1>3, <2>4, <2>7
<1>5. QED
  BY <1>4

\* A part of a sequence has the elements at its places and no other, in order.
LEMMA SubseqHas ==
    ASSUME NEW S, NEW seq \in Seq(S), NEW places \in SUBSET (DOMAIN seq)
    PROVE  /\ Subseq(seq, places) \in Seq(S)
           /\ Len(Subseq(seq, places)) = Cardinality(places) /\ Cardinality(places) <= Len(seq)
           /\ \A k \in DOMAIN Subseq(seq, places) : \E i \in places :
                 Subseq(seq, places)[k] = seq[i] /\ Cardinality(Before(places, i)) = k - 1
           /\ \A i \in places : \E k \in DOMAIN Subseq(seq, places) :
                 Subseq(seq, places)[k] = seq[i] /\ Cardinality(Before(places, i)) = k - 1
<1> DEFINE N == Cardinality(places)
<1> DEFINE at(k) == CHOOSE i \in places : Cardinality(Before(places, i)) = k - 1
<1> DEFINE s == [k \in 1..N |-> seq[at(k)]]
<1>1. Len(seq) \in Nat /\ places \in SUBSET (1..Len(seq))
  OBVIOUS
<1>2. N \in Nat /\ N <= Len(seq)
  BY <1>1, BeforeIsFinite, 0 \in Int
<1>3. Subseq(seq, places) = s
  BY DEF Subseq, Before
<1>4. \A k \in 1..N : at(k) \in places /\ Cardinality(Before(places, at(k))) = k - 1
  BY <1>1, PlaceExists
<1>5. s \in Seq(S) /\ Len(s) = N /\ DOMAIN s = 1..N
  <2>1. \A k \in 1..N : seq[at(k)] \in S
    BY <1>4
  <2> HIDE DEF at
  <2>2. QED
    BY <1>2, <2>1
<1>6. \A k \in 1..N : s[k] = seq[at(k)]
  OBVIOUS
<1>7. ASSUME NEW i \in places
      PROVE  \E k \in 1..N : s[k] = seq[i] /\ Cardinality(Before(places, i)) = k - 1
  <2> DEFINE k == Cardinality(Before(places, i)) + 1
  <2>0. i \in Int /\ Cardinality(Before(places, i)) \in Nat /\ Cardinality(Before(places, i)) < N
    <3>1. i \in Int
      OBVIOUS
    <3>2. QED
      BY <1>1, <3>1, BeforeIsFinite
  <2>1. k \in 1..N
    BY <1>2, <2>0
  <2>2. Cardinality(Before(places, i)) = k - 1
    BY <2>0
  <2>3. at(k) = i
    <3>1. at(k) \in places /\ Cardinality(Before(places, at(k))) = k - 1
      BY <1>4, <2>1
    <3> DEFINE a == at(k)
    <3>2. a \in places /\ a \in Int /\ Cardinality(Before(places, a)) = Cardinality(Before(places, i))
      BY <2>2, <3>1
    <3> HIDE DEF a
    <3>a. Len(seq) \in Nat /\ places \in SUBSET (1..Len(seq)) /\ i \in places
      BY <1>1
    <3>b. ASSUME a < i PROVE FALSE
      <4>1. Cardinality(Before(places, a)) < Cardinality(Before(places, i))
        BY <3>2, <3>a, <3>b, BeforeGrows, Zenon
      <4>2. QED
        BY <2>0, <3>2, <4>1
    <3>c. ASSUME i < a PROVE FALSE
      <4>1. Cardinality(Before(places, i)) < Cardinality(Before(places, a))
        BY <3>2, <3>a, <3>c, BeforeGrows, Zenon
      <4>2. QED
        BY <2>0, <3>2, <4>1
    <3>3. ~(a < i) /\ ~(i < a)
      BY <3>b, <3>c
    <3>4. a = i
      BY <2>0, <3>2, <3>3
    <3>5. QED
      BY <3>4 DEF a
  <2>4. QED
    BY <1>6, <2>1, <2>2, <2>3
<1> HIDE DEF s, at
<1>8. QED
  BY <1>2, <1>3, <1>4, <1>5, <1>6, <1>7

-----------------------------------------------------------------------------
(* The queue of top-ups, and what each operation on it has in hand. *)

Cycle == <<"cycle", 0>>
GrantType == [key : Keys, credits : Nat]
EntryType ==
    [id : Ids, member : Members, key : Keys, status : {"pending", "approved", "denied"},
     by : {"admin", "member"}]
TopUpOpType ==
    [pc : {"idle", "granted", "queued", "filing", "granting", "merging", "giving", "recording",
           "migrating", "copying"},
     id : Ids \cup {<<0>>}, member : Members, key : Keys, list : Seq(EntryType), base : Nat,
     mine : Seq(GrantType), todo : SUBSET Members, drop : BOOLEAN]

Filing(o) == o.pc \in {"granted", "queued", "filing"}
Granting(o) == o.pc \in {"granting", "merging", "giving"}
Recording(o) == o.pc \in {"recording", "migrating", "copying"}

TopUpTypes ==
    /\ topUpScene \in TopUpSceneType
    /\ topUps \in Seq(EntryType)
    /\ grants \in [Members -> Seq(GrantType)] /\ legacy \in [Members -> Seq(GrantType)]
    /\ turn \in [Windows -> 0..MaxTurns]
    /\ topUpOp \in [Callers -> TopUpOpType]
    /\ begun \in 0..topUpScene.calls
    /\ promised \in [Members -> [Keys -> Nat]]
    /\ given \in [Ids -> Nat]

\* Nothing that is stored, or that an operation has read and will store, is more than
\* was granted for its window.
Backed(held, m) == \A i \in DOMAIN held : held[i].credits <= promised[m][held[i].key]
NeverMore == \A m \in Members : Backed(grants[m], m) /\ Backed(legacy[m], m)
StoresNoMore(o) ==
    /\ o.pc \in {"merging", "giving"} => o.base <= promised[o.member][o.key]
    /\ o.pc \in {"giving", "copying"} => Backed(o.mine, o.member)

\* The organization's own record is never written but to drop it.
OldGrant == [key |-> Cycle, credits |-> Amount]
OldGrants == \A m \in Members : legacy[m] \in {<<>>, <<OldGrant>>}

TopUpsInTurn == \A p, q \in Callers : ~AtStep(p, "idle") /\ ~AtStep(q, "idle") => p = q

\* The windows a member was granted something for; a member who has no more of them
\* than a value keeps.
GrantedWindows(m) == {key \in Keys : promised[m][key] > 0}
Few(m) == Cardinality(GrantedWindows(m)) <= KeysPerOrg
OfItsOwn(held) == \A i, j \in DOMAIN held : held[i].key = held[j].key => i = j

\* One operation at a time and no read failing: each window has one entry, which is
\* what was granted; what an operation has read is still so; and the organization's
\* record is dropped only once all of it has been copied.
KeptWhole == ~Faulty("memberRead") /\ topUpScene.serial
NeverLess ==
    \A m \in Members :
        /\ OfItsOwn(grants[m])
        /\ \A i \in DOMAIN grants[m] : promised[m][grants[m][i].key] > 0
        /\ Few(m) => \A key \in Keys : ReadGrant(grants[m], m, key) = promised[m][key]
StoresNoLess(o) ==
    /\ o.pc \in {"merging", "giving"} => o.base = ReadGrant(grants[o.member], o.member, o.key)
    /\ o.pc \in {"giving", "copying"} => o.mine = grants[o.member]
    /\ o.pc = "copying" => o.member \in o.todo
    /\ o.pc \in {"migrating", "copying"} /\ o.drop =>
          \A m \in Members \ o.todo : legacy[m] # <<>> => Holds(grants[m], Cycle)

\* An approved record on file, or about to be filed, has been granted, or is what the
\* operation that holds it is granting.
ApprovedAreGiven == \A i \in DOMAIN topUps : topUps[i].status = "approved" => given[topUps[i].id] > 0
FilesWhatIsGiven(o) ==
    \A i \in DOMAIN o.list : o.list[i].status = "approved" =>
        given[o.list[i].id] > 0 \/ (Granting(o) /\ o.list[i].id = o.id)

\* One operation at a time: what is about to be written is the queue with one more
\* record, or with one answer.
OnFile(id) == \E i \in DOMAIN topUps : topUps[i].id = id
Files(o) == \E e \in EntryType :
    /\ o.list = Append(topUps, e) /\ ~OnFile(e.id)
    /\ Granting(o) => e.id = o.id /\ e.status = "approved"
Answers(o) == \E i \in DOMAIN topUps, answer \in {"approved", "denied"} :
    /\ o.list = [topUps EXCEPT ![i].status = answer] /\ topUps[i].status = "pending"
    /\ Granting(o) => topUps[i].id = o.id /\ answer = "approved"

QueueInTurn ==
    /\ TopUpsInTurn
    /\ Fits(topUps) /\ Len(topUps) <= begun
    /\ \A i, j \in DOMAIN topUps : topUps[i].id = topUps[j].id => i = j
    /\ \A n \in 1..MaxTopUpCalls : n > begun => ~OnFile(<<n>>)
NotAhead(list) == \A i \in DOMAIN list : \A n \in 1..MaxTopUpCalls : n > begun => list[i].id # <<n>>
ActsInTurn(o) ==
    /\ o.pc # "idle" => Len(topUps) < begun
    /\ Filing(o) => o.id = <<begun>> /\ ~OnFile(<<begun>>)
    /\ Granting(o) \/ Recording(o) => (Files(o) \/ Answers(o)) /\ NotAhead(o.list)

\* ... and nothing failing, as long as nothing need be given up: what is approved was
\* granted once, what is not was not, and what was granted is on file.
NothingFails == topUpScene.serial /\ ~Faulty("fails")
Roomy == topUpScene.clicks => begun * GrantSize <= ValueLimit
Once(list) ==
    /\ \A i \in DOMAIN list : given[list[i].id] = (IF list[i].status = "approved" THEN 1 ELSE 0)
    /\ topUpScene.clicks => \A id \in Ids : given[id] > 0 => \E i \in DOMAIN list : list[i].id = id
GrantedOnce ==
    /\ \A n \in 1..MaxTopUpCalls : n > begun => given[<<n>>] = 0
    /\ Roomy /\ (\A p \in Callers : ~Recording(topUpOp[p])) => Once(topUps)
GrantsOnce(o) ==
    /\ Recording(o) => Once(o.list)
    /\ Filing(o) \/ Granting(o) => given[o.id] = 0

QueueSound ==
    /\ TopUpTypes
    /\ NeverMore /\ OldGrants
    /\ KeptWhole => NeverLess
    /\ ApprovedAreGiven
    /\ topUpScene.serial => QueueInTurn
    /\ NothingFails => GrantedOnce
OpSound(o) ==
    /\ Filing(o) \/ Granting(o) => o.id \in Ids
    /\ StoresNoMore(o)
    /\ KeptWhole => StoresNoLess(o)
    /\ FilesWhatIsGiven(o)
    /\ topUpScene.serial => ActsInTurn(o)
    /\ NothingFails /\ Roomy => GrantsOnce(o)
TopUpInv == QueueSound /\ \A p \in Callers : OpSound(topUpOp[p])

(* The queue of plan asks. *)

SeatsAboveIn(model) == UNION {NextSeatUp(model, held) : held \in SeatsHeld(model)}
SeatsAbove == UNION {SeatsAboveIn(model) : model \in UNION {PlanOf(Catalogue, key) : key \in PlanKeys}}
PlansAbove == UNION {UpgradeTo(Catalogue, on) : on \in SUBSET PlanKeys}
Targets == PlanKeys \cup PlansAbove \cup SeatsAbove
QuoteType == [total : Totals, until : SUBSET (0..Days), note : BOOLEAN]
AskType ==
    [id : Nat, member : Askers, kind : {"plan", "seat"}, target : Targets,
     status : {"pending", "quoted", "done", "denied"}, note : BOOLEAN, blank : BOOLEAN,
     quote : SUBSET QuoteType, accepted : SUBSET (Totals \cup {0})]
ActType ==
    [pc : {"idle", "writing", "selling", "marking"}, id : Nat, list : Seq(AskType), total : Totals \cup {0}]

AskTypes ==
    /\ askScene \in AskSceneType
    /\ current \in SUBSET PlanKeys /\ day \in 0..Days /\ asked \in Nat
    /\ asks \in Seq(AskType)
    /\ act \in [AskActors -> ActType]

AsksInTurn == \A p, q \in AskActors : ~At(p, "idle") /\ ~At(q, "idle") => p = q

\* What is accepted was invoiced, nothing open is accepted, and ids are counted.
InvoicedAt(r) == \E q \in r.quote, v \in invoices : v.id = r.id /\ v.total = q.total
Proper(list, n) ==
    /\ \A i \in DOMAIN list : list[i].id <= n
    /\ \A i, j \in DOMAIN list : list[i].id = list[j].id => i = j
    /\ \A i \in DOMAIN list :
          (list[i].accepted # {} => InvoicedAt(list[i])) /\ (IsOpen(list[i]) => list[i].accepted = {})
HasEach(list) == \A i \in DOMAIN asks : \E k \in DOMAIN list : list[k].id = asks[i].id
QuotedAt(id, total) == \A i \in DOMAIN asks : asks[i].id = id => \E q \in asks[i].quote : q.total = total

\* One operation at a time: what is about to be written has every ask, and a price that
\* is being accepted is still the one it was read at.
ActSound(a) ==
    /\ a.pc = "writing" => Proper(a.list, asked) /\ HasEach(a.list)
    /\ a.pc \in {"selling", "marking"} => QuotedAt(a.id, a.total)
    /\ a.pc = "marking" => \E v \in invoices : v.id = a.id /\ v.total = a.total

AskInv ==
    /\ AskTypes
    /\ ~Trouble("forget") => \A v, u \in invoices : v.id = u.id => v = u
    /\ askScene.serial => AsksInTurn /\ Proper(asks, asked) /\ \A p \in AskActors : ActSound(act[p])

-----------------------------------------------------------------------------
(* What trimming keeps. *)

\* The same, as one fact.
IsPart(t, S, seq, places) ==
    /\ t \in Seq(S) /\ Len(t) = Cardinality(places) /\ Cardinality(places) <= Len(seq)
    /\ \A k \in DOMAIN t : \E i \in places : t[k] = seq[i] /\ Cardinality(Before(places, i)) = k - 1
    /\ \A i \in places : \E k \in DOMAIN t : t[k] = seq[i] /\ Cardinality(Before(places, i)) = k - 1

LEMMA PartHas ==
    ASSUME NEW S, NEW seq \in Seq(S), NEW places \in SUBSET (DOMAIN seq)
    PROVE  IsPart(Subseq(seq, places), S, seq, places)
  BY SubseqHas DEF IsPart

\* The whole of a sequence is the sequence.
LEMMA SubseqOfAll ==
    ASSUME NEW S, NEW seq \in Seq(S)
    PROVE  Subseq(seq, DOMAIN seq) = seq
<1> DEFINE s == Subseq(seq, DOMAIN seq)
<1>1. Len(seq) \in Nat /\ DOMAIN seq = 1..Len(seq) /\ DOMAIN seq \in SUBSET (DOMAIN seq)
  OBVIOUS
<1>2. \A i \in DOMAIN seq : Cardinality(Before(DOMAIN seq, i)) = i - 1
  <2> SUFFICES ASSUME NEW i \in DOMAIN seq PROVE Cardinality(Before(DOMAIN seq, i)) = i - 1
    OBVIOUS
  <2>1. i \in Nat /\ i >= 1 /\ i <= Len(seq) /\ Len(seq) \in Nat /\ i - 1 \in Int /\ 1 \in Int
    BY <1>1
  <2>2. Before(DOMAIN seq, i) = 1..(i - 1)
    <3>1. \A x : x \in Before(DOMAIN seq, i) <=> x \in 1..Len(seq) /\ x < i
      BY <1>1 DEF Before
    <3>2. \A x : x \in 1..(i - 1) <=> x \in 1..Len(seq) /\ x < i
      BY <2>1, SMTT(60)
    <3>3. QED
      BY <3>1, <3>2
  <2>3. Cardinality(1..(i - 1)) = i - 1
    <3>1. i - 1 \in Nat
      BY <2>1
    <3>2. QED
      BY <3>1, CountUpTo
  <2>4. QED
    BY <2>2, <2>3
<1>3. /\ s \in Seq(S) /\ Len(s) = Cardinality(DOMAIN seq)
      /\ \A k \in DOMAIN s : \E i \in DOMAIN seq : s[k] = seq[i] /\ Cardinality(Before(DOMAIN seq, i)) = k - 1
  <2>1. IsPart(s, S, seq, DOMAIN seq)
    BY PartHas
  <2> HIDE DEF s
  <2>2. QED
    BY <2>1 DEF IsPart
<1>4. Cardinality(DOMAIN seq) = Len(seq)
  BY <1>1, CountUpTo
<1> HIDE DEF s
<1>5. DOMAIN s = 1..Len(seq)
  BY <1>3, <1>4
<1>6. ASSUME NEW k \in 1..Len(seq) PROVE s[k] = seq[k]
  <2>1. PICK i \in DOMAIN seq : s[k] = seq[i] /\ Cardinality(Before(DOMAIN seq, i)) = k - 1
    BY <1>3, <1>5
  <2>2. i - 1 = k - 1 /\ i \in Nat /\ k \in Nat
    BY <1>1, <1>2, <2>1
  <2>3. QED
    BY <2>1, <2>2
<1>7. s = seq
  <2>1. Len(s) = Len(seq)
    BY <1>3, <1>4
  <2>2. s \in [1..Len(seq) -> S] /\ seq \in [1..Len(seq) -> S]
    BY <1>1, <1>3, <2>1
  <2>3. QED
    BY <1>6, <2>2
<1>8. QED
  BY <1>7 DEF s

LEMMA NoneFits == Fits(<<>>)
<1>1. \A who : {i \in DOMAIN <<>> : <<>>[i].by = who} = {}
  OBVIOUS
<1>2. Cardinality({}) = 0
  BY FS_EmptySet
<1>3. QED
  BY <1>1, <1>2, TopUpAssumption DEF Fits

\* Settled records are given up before those that wait.
LEMMA GivenUpInOrder ==
    ASSUME NEW list \in Seq(EntryType), NEW i \in DOMAIN list
    PROVE  /\ Cardinality(GivenUpBefore(list, i)) \in Nat
           /\ Cardinality(GivenUpBefore(list, i)) < Len(list)
           /\ list[i].status = "pending" =>
                 \A j \in DOMAIN list : list[j].status # "pending" =>
                    Cardinality(GivenUpBefore(list, j)) < Cardinality(GivenUpBefore(list, i))
<1> DEFINE settled == {j \in DOMAIN list : list[j].status # "pending"}
<1>1. Len(list) \in Nat /\ DOMAIN list = 1..Len(list) /\ IsFiniteSet(DOMAIN list) /\ Cardinality(DOMAIN list) = Len(list)
  BY FS_Interval, 1 \in Int
<1>2. \A j \in DOMAIN list : GivenUpBefore(list, j) \in SUBSET (DOMAIN list) /\ j \notin GivenUpBefore(list, j)
  <2>1. \A j \in DOMAIN list : ~(j < j)
    BY <1>1
  <2>2. QED
    BY <2>1 DEF GivenUpBefore
<1>3. \A j \in DOMAIN list : IsFiniteSet(GivenUpBefore(list, j)) /\ Cardinality(GivenUpBefore(list, j)) \in Nat
  BY <1>1, <1>2, FS_Subset, FS_CardinalityType
<1>4. Cardinality(GivenUpBefore(list, i)) < Len(list)
  <2>1. /\ Cardinality(GivenUpBefore(list, i)) <= Cardinality(DOMAIN list)
        /\ Cardinality(DOMAIN list) = Cardinality(GivenUpBefore(list, i)) => DOMAIN list = GivenUpBefore(list, i)
    BY <1>1, <1>2, FS_Subset
  <2>2. QED
    BY <1>1, <1>2, <1>3, <2>1
<1>5. ASSUME list[i].status = "pending", NEW j \in DOMAIN list, list[j].status # "pending"
      PROVE  Cardinality(GivenUpBefore(list, j)) < Cardinality(GivenUpBefore(list, i))
  <2>1. GivenUpBefore(list, j) \in SUBSET settled
    BY <1>5 DEF GivenUpBefore
  <2>2. settled \in SUBSET GivenUpBefore(list, i)
    BY <1>5 DEF GivenUpBefore
  <2>3. j \in settled
    BY <1>5
  <2> HIDE DEF settled
  <2>4. /\ Cardinality(GivenUpBefore(list, j)) <= Cardinality(GivenUpBefore(list, i))
        /\ Cardinality(GivenUpBefore(list, i)) = Cardinality(GivenUpBefore(list, j)) => GivenUpBefore(list, i) = GivenUpBefore(list, j)
    <3>1. GivenUpBefore(list, j) \in SUBSET GivenUpBefore(list, i)
      BY <2>1, <2>2
    <3>2. QED
      BY <1>3, <3>1, FS_Subset
  <2>5. GivenUpBefore(list, i) # GivenUpBefore(list, j)
    BY <1>2, <2>2, <2>3
  <2>6. QED
    BY <1>3, <2>4, <2>5
<1>6. QED
  BY <1>3, <1>4, <1>5

LEMMA TrimHas ==
    ASSUME NEW list \in Seq(EntryType), NEW t, t = TrimRequestsToBudget(list)
    PROVE  /\ t \in Seq(EntryType) /\ Len(t) <= Len(list) /\ Fits(t)
           /\ Fits(list) => t = list
           /\ \A k \in DOMAIN t : \E i \in DOMAIN list : t[k] = list[i]
           /\ (\A i, j \in DOMAIN list : list[i].id = list[j].id => i = j) =>
                 \A k, l \in DOMAIN t : t[k].id = t[l].id => k = l
           /\ \A i \in DOMAIN list : list[i].status = "pending" /\ (\A k \in DOMAIN t : t[k] # list[i]) =>
                 \A k \in DOMAIN t : t[k].status = "pending"
<1> DEFINE from(n) == {i \in DOMAIN list : Cardinality(GivenUpBefore(list, i)) >= n}
<1> DEFINE enough == {n \in 0..Len(list) : Fits(Subseq(list, from(n)))}
<1> DEFINE N == CHOOSE n \in enough : \A m \in enough : n <= m
<1>1. t = Subseq(list, from(N))
  BY Zenon DEF TrimRequestsToBudget
<1>2. \A n : from(n) \in SUBSET (DOMAIN list)
  OBVIOUS
<1>3. Len(list) \in Nat /\ 0 \in 0..Len(list) /\ Len(list) \in 0..Len(list)
  OBVIOUS
<1>4. Fits(list) => 0 \in enough
  <2>1. from(0) = DOMAIN list
    <3>1. \A i \in DOMAIN list : Cardinality(GivenUpBefore(list, i)) >= 0
      BY GivenUpInOrder
    <3>2. QED
      BY <3>1
  <2>2. QED
    BY <1>3, <2>1, SubseqOfAll
<1>5. Len(list) \in enough
  <2>1. from(Len(list)) = {}
    BY <1>3, GivenUpInOrder
  <2>2. Subseq(list, {}) = <<>>
    <3>1. Subseq(list, {}) \in Seq(EntryType) /\ Len(Subseq(list, {})) = Cardinality({})
      BY SubseqHas
    <3>2. Cardinality({}) = 0
      BY FS_EmptySet
    <3>3. QED
      BY <3>1, <3>2
  <2>3. QED
    BY <1>3, <2>1, <2>2, NoneFits
<1>6. N \in enough /\ \A m \in enough : N <= m
  <2>1. enough \subseteq Nat
    OBVIOUS
  <2>2. \E n \in enough : \A m \in enough : n <= m
    <3> HIDE DEF enough
    <3> QED BY <1>5, <2>1, LeastOf
  <2> HIDE DEF enough
  <2>3. QED
    BY <2>2
<1>7. Fits(t)
  BY <1>1, <1>6
<1>8. Fits(list) => t = list
  <2>1. N \in 0..Len(list)
    BY <1>6
  <2>2. Fits(list) => N = 0
    BY <1>3, <1>4, <1>6, <2>1
  <2>3. from(0) = DOMAIN list
    <3>1. \A i \in DOMAIN list : Cardinality(GivenUpBefore(list, i)) >= 0
      BY GivenUpInOrder
    <3>2. QED
      BY <3>1
  <2> HIDE DEF N, from
  <2>4. QED
    BY <1>1, <2>2, <2>3, SubseqOfAll
<1> HIDE DEF N
<1> DEFINE P == from(N)
<1>9. /\ t \in Seq(EntryType)
      /\ Len(t) = Cardinality(P) /\ Cardinality(P) <= Len(list)
      /\ \A k \in DOMAIN t : \E i \in P : t[k] = list[i] /\ Cardinality(Before(P, i)) = k - 1
      /\ \A i \in P : \E k \in DOMAIN t : t[k] = list[i] /\ Cardinality(Before(P, i)) = k - 1
  <2> HIDE DEF from
  <2> QED BY <1>1, <1>2, SubseqHas
<1>10. \A k \in DOMAIN t : \E i \in DOMAIN list : t[k] = list[i]
  BY <1>2, <1>9
<1>11. ASSUME \A i, j \in DOMAIN list : list[i].id = list[j].id => i = j,
              NEW k \in DOMAIN t, NEW l \in DOMAIN t, t[k].id = t[l].id
       PROVE  k = l
  <2>1. PICK i \in P : t[k] = list[i] /\ Cardinality(Before(P, i)) = k - 1
    BY <1>9
  <2>2. PICK j \in P : t[l] = list[j] /\ Cardinality(Before(P, j)) = l - 1
    BY <1>9
  <2>3. i = j
    BY <1>2, <1>11, <2>1, <2>2
  <2>4. k \in Int /\ l \in Int
    BY <1>9
  <2>5. QED
    BY <2>1, <2>2, <2>3, <2>4
<1>12. ASSUME NEW i \in DOMAIN list, list[i].status = "pending", \A k \in DOMAIN t : t[k] # list[i], NEW k \in DOMAIN t
       PROVE  t[k].status = "pending"
  <2>1. i \notin P
    BY <1>9, <1>12
  <2>2. PICK j \in P : t[k] = list[j]
    BY <1>9
  <2>3. j \in DOMAIN list /\ Cardinality(GivenUpBefore(list, j)) >= N /\ ~(Cardinality(GivenUpBefore(list, i)) >= N)
    BY <2>1, <2>2
  <2>4. N \in Nat /\ Cardinality(GivenUpBefore(list, i)) \in Nat /\ Cardinality(GivenUpBefore(list, j)) \in Nat
    BY <1>6, <2>3, GivenUpInOrder
  <2>5. ~(Cardinality(GivenUpBefore(list, j)) < Cardinality(GivenUpBefore(list, i)))
    BY <2>3, <2>4
  <2>6. list[j].status = "pending"
    BY <1>12, <2>3, <2>5, GivenUpInOrder
  <2>7. QED
    BY <2>2, <2>6
<1>13. QED
  BY <1>7, <1>8, <1>9, <1>10, <1>11, <1>12

IsTrimmed(t, list) ==
    /\ t \in Seq(EntryType)
    /\ Fits(list) => t = list
    /\ \A i \in DOMAIN list : list[i].status = "pending" /\ (\A k \in DOMAIN t : t[k] # list[i]) =>
          \A k \in DOMAIN t : t[k].status = "pending"

LEMMA TrimIs ==
    ASSUME NEW list \in Seq(EntryType), NEW t, t = TrimRequestsToBudget(list)
    PROVE  IsTrimmed(t, list)
  BY TrimHas DEF IsTrimmed

-----------------------------------------------------------------------------
(* What a member's grants hold after they are changed. *)

LEMMA KeysHave == Cycle \in Keys /\ \A w \in Windows, n \in 0..MaxTurns : <<w, n>> \in Keys
  BY TopUpAssumption DEF Cycle, Keys

LEMMA CreditsAre ==
    ASSUME NEW held, NEW key, Holds(held, key)
    PROVE  \E i \in DOMAIN held : held[i].key = key /\ CreditsOf(held, key) = held[i].credits
<1> DEFINE i == CHOOSE i \in DOMAIN held : held[i].key = key
<1>1. i \in DOMAIN held /\ held[i].key = key
  BY DEF Holds
<1>2. CreditsOf(held, key) = held[i].credits
  BY DEF CreditsOf
<1> HIDE DEF i
<1>3. QED
  BY <1>1, <1>2

LEMMA PutHas ==
    ASSUME NEW held \in Seq(GrantType), NEW key \in Keys, NEW credits \in Nat,
           NEW t, t = Put(held, key, credits)
    PROVE  /\ t \in Seq(GrantType) /\ Holds(t, key) /\ Len(t) >= Len(held)
           /\ \A i \in DOMAIN t : t[i].key = key => t[i].credits = credits
           /\ \A i \in DOMAIN t : t[i].key # key => i \in DOMAIN held /\ t[i] = held[i]
           /\ \A i \in DOMAIN held : i \in DOMAIN t /\ t[i].key = held[i].key
           /\ OfItsOwn(held) => OfItsOwn(t)
<1>1. CASE Holds(held, key)
  <2> DEFINE f == [i \in DOMAIN held |-> IF held[i].key = key THEN [held[i] EXCEPT !.credits = credits] ELSE held[i]]
  <2>1. t = f
    BY <1>1 DEF Put
  <2>2. \A i \in DOMAIN held : held[i] \in GrantType
    OBVIOUS
  <2>3. \A i \in DOMAIN held : f[i] \in GrantType /\ f[i].key = held[i].key
            /\ (held[i].key = key => f[i].credits = credits) /\ (held[i].key # key => f[i] = held[i])
    BY <2>2 DEF GrantType
  <2>4. DOMAIN f = DOMAIN held
    OBVIOUS
  <2> HIDE DEF f
  <2>5. DOMAIN held = 1..Len(held) /\ Len(held) \in Nat
    OBVIOUS
  <2>6. f \in [1..Len(held) -> GrantType]
    <3>1. f = [i \in DOMAIN held |-> f[i]]
      BY DEF f
    <3>2. QED
      BY <2>3, <2>5, <3>1
  <2>7. f \in Seq(GrantType) /\ Len(f) = Len(held)
    BY <2>5, <2>6
  <2>8. Holds(f, key)
    BY <1>1, <2>3, <2>4 DEF Holds
  <2>9. OfItsOwn(held) => OfItsOwn(f)
    BY <2>3, <2>4 DEF OfItsOwn
  <2>10. QED
    BY <2>1, <2>3, <2>4, <2>5, <2>7, <2>8, <2>9
<1>2. CASE ~Holds(held, key)
  <2> DEFINE e == [key |-> key, credits |-> credits]
  <2>1. t = Append(held, e)
    BY <1>2 DEF Put
  <2>2. e \in GrantType /\ e.key = key /\ e.credits = credits
    BY DEF GrantType
  <2> HIDE DEF e
  <2>3. t \in Seq(GrantType) /\ Len(t) = Len(held) + 1 /\ DOMAIN t = 1..(Len(held) + 1)
    BY <2>1, <2>2
  <2>4. /\ t[Len(held) + 1] = e
        /\ \A i \in DOMAIN held : t[i] = held[i] /\ i \in DOMAIN t
        /\ \A i \in DOMAIN t : i # Len(held) + 1 => i \in DOMAIN held
    BY <2>1, <2>2, <2>3
  <2>5. \A i \in DOMAIN held : held[i].key # key
    BY <1>2 DEF Holds
  <2>6. Holds(t, key)
    BY <2>2, <2>3, <2>4 DEF Holds
  <2>7. OfItsOwn(held) => OfItsOwn(t)
    BY <2>2, <2>4, <2>5 DEF OfItsOwn
  <2>8. \A i \in DOMAIN t : (t[i].key = key => t[i].credits = credits) /\ (t[i].key # key => i \in DOMAIN held /\ t[i] = held[i])
    BY <2>2, <2>4, <2>5
  <2>9. Len(t) >= Len(held)
    BY <2>3
  <2>10. QED
    BY <2>3, <2>4, <2>6, <2>7, <2>8, <2>9
<1>3. QED
  BY <1>1, <1>2

LEMMA NewestHas ==
    ASSUME NEW held \in Seq(GrantType), NEW t, t = Newest(held)
    PROVE  /\ t \in Seq(GrantType)
           /\ \A k \in DOMAIN t : \E i \in DOMAIN held : t[k] = held[i]
           /\ OfItsOwn(held) => OfItsOwn(t)
           /\ Len(held) <= KeysPerOrg => t = held
<1> DEFINE a == IF Len(held) > KeysPerOrg THEN Len(held) - KeysPerOrg + 1 ELSE 1
<1>1. Len(held) \in Nat /\ KeysPerOrg \in Nat /\ KeysPerOrg > 0
  BY TopUpAssumption
<1>2. t = SubSeq(held, a, Len(held))
  BY DEF Newest
<1>3. a \in Nat /\ a >= 1 /\ a <= Len(held) + 1 /\ (Len(held) <= KeysPerOrg => a = 1)
  BY <1>1
<1> HIDE DEF a
<1>4. t \in Seq(GrantType) /\ Len(t) = Len(held) - a + 1
  BY <1>1, <1>2, <1>3
<1>5. \A k \in DOMAIN t : k \in Nat /\ t[k] = held[a + k - 1] /\ a + k - 1 \in DOMAIN held
  BY <1>1, <1>2, <1>3, <1>4
<1>6. OfItsOwn(held) => OfItsOwn(t)
  <2> SUFFICES ASSUME OfItsOwn(held), NEW k \in DOMAIN t, NEW l \in DOMAIN t, t[k].key = t[l].key PROVE k = l
    BY DEF OfItsOwn
  <2>1. a + k - 1 = a + l - 1
    BY <1>5 DEF OfItsOwn
  <2>2. k \in Nat /\ l \in Nat
    BY <1>5
  <2>3. QED
    BY <1>3, <2>1, <2>2
<1>7. Len(held) <= KeysPerOrg => t = held
  <2> SUFFICES ASSUME Len(held) <= KeysPerOrg PROVE t = held
    OBVIOUS
  <2>1. a = 1 /\ Len(t) = Len(held)
    BY <1>1, <1>3, <1>4
  <2>2. t \in [1..Len(held) -> GrantType] /\ held \in [1..Len(held) -> GrantType]
    BY <1>1, <1>4, <2>1
  <2>3. \A k \in 1..Len(held) : t[k] = held[k]
    BY <1>1, <1>4, <1>5, <2>1
  <2>4. QED
    BY <2>2, <2>3
<1>8. QED
  BY <1>4, <1>5, <1>6, <1>7

LEMMA MigratedHas ==
    ASSUME NEW own \in Seq(GrantType), NEW old \in {<<>>, <<OldGrant>>}, NEW t, t = Migrated(own, old)
    PROVE  /\ t \in Seq(GrantType)
           /\ old = <<>> \/ Holds(own, Cycle) => t = own
           /\ old # <<>> /\ ~Holds(own, Cycle) => t = Append(own, OldGrant)
<1> DEFINE P == {i \in DOMAIN old : ~Holds(own, old[i].key)}
<1>1. OldGrant \in GrantType /\ OldGrant.key = Cycle
  BY KeysHave, TopUpAssumption DEF OldGrant, GrantType
<1>2. old \in Seq(GrantType)
  <2>1. <<>> \in Seq(GrantType)
    OBVIOUS
  <2>2. <<OldGrant>> \in Seq(GrantType)
    BY <1>1
  <2>3. QED
    BY <2>1, <2>2
<1>a. own \o <<>> = own
  OBVIOUS
<1>3. t = own \o Subseq(old, P)
  BY DEF Migrated
<1>4. Subseq(old, {}) = <<>>
  <2>1. {} \in SUBSET (DOMAIN old)
    OBVIOUS
  <2>2. Subseq(old, {}) \in Seq(GrantType) /\ Len(Subseq(old, {})) = Cardinality({})
    BY <1>2, <2>1, SubseqHas, Zenon
  <2>3. Cardinality({}) = 0
    BY FS_EmptySet
  <2>4. QED
    BY <2>2, <2>3
<1>5. Subseq(old, DOMAIN old) = old
  BY <1>2, SubseqOfAll
<1>6. CASE old = <<>>
  <2>1. DOMAIN old = {}
    BY <1>6
  <2>2. P = {}
    BY <2>1
  <2>3. QED
    BY <1>3, <1>4, <1>6, <1>a, <2>2
<1>7. CASE old = <<OldGrant>> /\ Holds(own, Cycle)
  <2>1. DOMAIN old = {1} /\ old[1].key = Cycle
    BY <1>1, <1>7
  <2>2. P = {}
    BY <1>7, <2>1
  <2>3. QED
    BY <1>3, <1>4, <1>7, <1>a, <2>2
<1>8. CASE old = <<OldGrant>> /\ ~Holds(own, Cycle)
  <2>1. DOMAIN old = {1} /\ old[1].key = Cycle
    BY <1>1, <1>8
  <2>2. P = DOMAIN old
    BY <1>8, <2>1
  <2>3. t = own \o <<OldGrant>>
    BY <1>3, <1>5, <1>8, <2>2
  <2>4. own \o <<OldGrant>> = Append(own, OldGrant)
    BY <1>1
  <2>5. Append(own, OldGrant) \in Seq(GrantType) /\ old # <<>>
    BY <1>1, <1>8
  <2>6. QED
    BY <1>8, <2>3, <2>4, <2>5
<1>9. QED
  BY <1>6, <1>7, <1>8

IsMigrated(t, own, old) ==
    /\ t \in Seq(GrantType)
    /\ old = <<>> \/ Holds(own, Cycle) => t = own
    /\ old # <<>> /\ ~Holds(own, Cycle) => t = Append(own, OldGrant)

LEMMA MigratedIs ==
    ASSUME NEW own \in Seq(GrantType), NEW old \in {<<>>, <<OldGrant>>}, NEW t, t = Migrated(own, old)
    PROVE  IsMigrated(t, own, old)
  BY MigratedHas DEF IsMigrated

\* A read of a window is one of the entries, or nothing.
LEMMA ReadGrantIs ==
    ASSUME NEW own \in Seq(GrantType), NEW m \in Members, legacy[m] \in {<<>>, <<OldGrant>>}, NEW key \in Keys
    PROVE  /\ ReadGrant(own, m, key) \in Nat
           /\ Holds(own, key) => ReadGrant(own, m, key) = CreditsOf(own, key)
           /\ ~Holds(own, key) /\ legacy[m] # <<>> /\ key = Cycle => ReadGrant(own, m, key) = Amount
           /\ ~Holds(own, key) /\ (legacy[m] = <<>> \/ key # Cycle) => ReadGrant(own, m, key) = 0
<1>1. OldGrant.key = Cycle /\ OldGrant.credits = Amount /\ Amount \in Nat
  BY TopUpAssumption DEF OldGrant
<1>2. CASE Holds(own, key)
  <2>1. ReadGrant(own, m, key) = CreditsOf(own, key)
    BY <1>2, Zenon DEF ReadGrant
  <2>2. CreditsOf(own, key) \in Nat
    <3>1. PICK i \in DOMAIN own : CreditsOf(own, key) = own[i].credits
      BY <1>2, CreditsAre
    <3>2. own[i] \in GrantType
      OBVIOUS
    <3>3. QED
      BY <3>1, <3>2 DEF GrantType
  <2>3. QED
    BY <1>2, <2>1, <2>2
<1>3. CASE ~Holds(own, key) /\ legacy[m] = <<OldGrant>> /\ key = Cycle
  <2>1. DOMAIN legacy[m] = {1} /\ legacy[m][1] = OldGrant
    BY <1>3
  <2>2. Holds(legacy[m], key)
    BY <1>1, <1>3, <2>1 DEF Holds
  <2>3. CreditsOf(legacy[m], key) = Amount
    BY <1>1, <2>1, <2>2, CreditsAre
  <2>4. ReadGrant(own, m, key) = CreditsOf(legacy[m], key)
    BY <1>3, <2>2, Zenon DEF ReadGrant
  <2>5. legacy[m] # <<>>
    BY <1>3
  <2>6. QED
    BY <1>1, <1>3, <2>3, <2>4, <2>5
<1>4. CASE ~Holds(own, key) /\ (legacy[m] = <<>> \/ key # Cycle)
  <2>1. ~Holds(legacy[m], key)
    <3>1. CASE legacy[m] = <<>>
      BY <3>1 DEF Holds
    <3>2. CASE legacy[m] = <<OldGrant>> /\ key # Cycle
      <4>1. DOMAIN legacy[m] = {1} /\ legacy[m][1] = OldGrant
        BY <3>2
      <4>2. QED
        BY <1>1, <3>2, <4>1 DEF Holds
    <3>3. QED
      BY <1>4, <3>1, <3>2
  <2>2. ReadGrant(own, m, key) = 0
    BY <1>4, <2>1, Zenon DEF ReadGrant
  <2>3. QED
    BY <1>4, <2>2
<1>5. QED
  BY <1>2, <1>3, <1>4

-----------------------------------------------------------------------------
(* Operations on the queue of top-ups. *)

\* Everything of the top-ups but the operations.
queue == <<topUpScene, topUps, grants, legacy, turn, begun, promised, given>>

LEMMA OpKept ==
    ASSUME NEW q \in Callers, NEW o, topUpOp'[q] = o, OpSound(o), UNCHANGED queue
    PROVE  OpSound(topUpOp[q])'
<1>1. (Filing(topUpOp[q]) \/ Granting(topUpOp[q]) => topUpOp[q].id \in Ids)'
  BY DEF OpSound, Filing, Granting
<1>2. StoresNoMore(topUpOp[q])'
  BY DEF OpSound, StoresNoMore, Backed, queue
<1>3. (KeptWhole => StoresNoLess(topUpOp[q]))'
  BY DEF OpSound, StoresNoLess, KeptWhole, Faulty, ReadGrant, queue
<1>4. FilesWhatIsGiven(topUpOp[q])'
  BY DEF OpSound, FilesWhatIsGiven, Granting, queue
<1>5. (topUpScene.serial => ActsInTurn(topUpOp[q]))'
  <2>1. Files(o) => Files(topUpOp[q])'
    BY DEF Files, OnFile, Granting, queue
  <2>2. Answers(o) => Answers(topUpOp[q])'
    BY DEF Answers, Granting, queue
  <2>3. QED
    BY <2>1, <2>2 DEF OpSound, ActsInTurn, Filing, Granting, Recording, OnFile, NotAhead, queue
<1>6. (NothingFails /\ Roomy => GrantsOnce(topUpOp[q]))'
  BY DEF OpSound, GrantsOnce, NothingFails, Roomy, Faulty, Once, Filing, Granting, Recording, queue
<1>7. QED
  BY <1>1, <1>2, <1>3, <1>4, <1>5, <1>6 DEF OpSound

LEMMA Continued ==
    ASSUME TopUpTypes, NEW p \in Callers, NEW next \in TopUpOpType, Continues(p, next)
    PROVE  /\ topUpOp' \in [Callers -> TopUpOpType] /\ topUpOp'[p] = next
           /\ \A q \in Callers : q # p => topUpOp'[q] = topUpOp[q]
  BY DEF TopUpTypes, Continues

LEMMA IdleSound == IdleTopUp \in TopUpOpType /\ IdleTopUp.pc = "idle" /\ OpSound(IdleTopUp)
<1>1. IdleTopUp \in TopUpOpType /\ IdleTopUp.pc = "idle" /\ IdleTopUp.list = <<>>
  <2>1. (CHOOSE m \in Members : TRUE) \in Members
    BY TopUpAssumption
  <2>2. <<"cycle", 0>> \in Keys
    BY KeysHave DEF Cycle
  <2>3. QED
    BY <2>1, <2>2 DEF IdleTopUp, TopUpOpType
<1> HIDE DEF IdleTopUp
<1>2. DOMAIN IdleTopUp.list = {}
  BY <1>1
<1>3. QED
  BY <1>1, <1>2 DEF OpSound, StoresNoMore, StoresNoLess, FilesWhatIsGiven, ActsInTurn, GrantsOnce, Filing, Granting, Recording

\* Where only an operation moves on, only what it has in hand is at stake.
LEMMA OnlyOpMoves ==
    ASSUME TopUpInv, NEW p \in Callers, NEW next \in TopUpOpType, Continues(p, next), UNCHANGED queue,
           OpSound(next), ~AtStep(p, "idle"), Recording(topUpOp[p]) => Recording(next) \/ ~NothingFails
    PROVE  TopUpInv'
<1>1. /\ topUpOp' \in [Callers -> TopUpOpType] /\ topUpOp'[p] = next
      /\ \A q \in Callers : q # p => topUpOp'[q] = topUpOp[q]
  BY Continued DEF TopUpInv, QueueSound
<1>2. \A q \in Callers : OpSound(topUpOp[q])'
  <2> SUFFICES ASSUME NEW q \in Callers PROVE OpSound(topUpOp[q])'
    OBVIOUS
  <2>1. CASE q = p
    BY <1>1, <2>1, OpKept
  <2>2. CASE q # p
    <3>1. OpSound(topUpOp[q]) /\ topUpOp'[q] = topUpOp[q]
      BY <1>1, <2>2 DEF TopUpInv
    <3>2. QED
      BY <3>1, OpKept
  <2>3. QED
    BY <2>1, <2>2
<1>3. TopUpTypes'
  BY <1>1 DEF TopUpInv, QueueSound, TopUpTypes, queue
<1>4. NeverMore' /\ OldGrants' /\ ApprovedAreGiven'
  BY DEF TopUpInv, QueueSound, NeverMore, Backed, OldGrants, ApprovedAreGiven, queue
<1>5. (KeptWhole => NeverLess)'
  BY DEF TopUpInv, QueueSound, KeptWhole, Faulty, NeverLess, Few, GrantedWindows, ReadGrant, queue
<1>6. (topUpScene.serial => QueueInTurn)'
  <2>1. topUpScene.serial => TopUpsInTurn'
    BY <1>1 DEF TopUpInv, QueueSound, QueueInTurn, TopUpsInTurn, AtStep
  <2>2. QED
    BY <2>1 DEF TopUpInv, QueueSound, QueueInTurn, OnFile, Fits, queue
<1>7. (NothingFails => GrantedOnce)'
  <2>1. NothingFails /\ (\A q \in Callers : ~Recording(topUpOp[q]))' => \A q \in Callers : ~Recording(topUpOp[q])
    BY <1>1 DEF Recording
  <2>2. QED
    BY <2>1 DEF TopUpInv, QueueSound, NothingFails, Faulty, GrantedOnce, Roomy, Once, queue
<1>8. QED
  BY <1>2, <1>3, <1>4, <1>5, <1>6, <1>7 DEF TopUpInv, QueueSound

\* What a read of a member brings.
LEMMA ReadBrings ==
    ASSUME QueueSound, NEW m \in Members, NEW own \in Read(m)
    PROVE  own \in Seq(GrantType) /\ Backed(own, m) /\ (KeptWhole => own = grants[m])
<1>1. grants[m] \in Seq(GrantType) /\ Backed(grants[m], m)
  BY DEF QueueSound, TopUpTypes, NeverMore
<1>2. <<>> \in Seq(GrantType) /\ Backed(<<>>, m)
  BY DEF Backed
<1>3. own = grants[m] \/ (own = <<>> /\ ~KeptWhole)
  BY DEF Read, KeptWhole
<1>4. QED
  BY <1>1, <1>2, <1>3

LEMMA ReadNoMore ==
    ASSUME QueueSound, NEW m \in Members, NEW own \in Seq(GrantType), Backed(own, m), NEW key \in Keys
    PROVE  ReadGrant(own, m, key) \in Nat /\ ReadGrant(own, m, key) <= promised[m][key]
<1>1. legacy[m] \in {<<>>, <<OldGrant>>}
  BY DEF QueueSound, OldGrants
<1>2. ReadGrant(own, m, key) \in Nat /\ promised[m][key] \in Nat
  BY <1>1, ReadGrantIs DEF QueueSound, TopUpTypes
<1>3. CASE Holds(own, key)
  <2>1. PICK i \in DOMAIN own : own[i].key = key /\ CreditsOf(own, key) = own[i].credits
    BY <1>3, CreditsAre
  <2>2. ReadGrant(own, m, key) = own[i].credits
    BY <1>1, <1>3, <2>1, ReadGrantIs
  <2>3. QED
    BY <1>2, <2>1, <2>2 DEF Backed
<1>4. CASE ~Holds(own, key) /\ legacy[m] # <<>> /\ key = Cycle
  <2>1. legacy[m] = <<OldGrant>>
    BY <1>1, <1>4
  <2>2. 1 \in DOMAIN legacy[m] /\ legacy[m][1].key = Cycle /\ legacy[m][1].credits = Amount
    BY <2>1 DEF OldGrant
  <2>3. Amount <= promised[m][Cycle]
    BY <2>2 DEF QueueSound, NeverMore, Backed
  <2>4. ReadGrant(own, m, key) = Amount
    BY <1>1, <1>4, ReadGrantIs
  <2>5. QED
    BY <1>2, <1>4, <2>3, <2>4
<1>5. CASE ~Holds(own, key) /\ (legacy[m] = <<>> \/ key # Cycle)
  <2>1. ReadGrant(own, m, key) = 0
    BY <1>1, <1>5, ReadGrantIs
  <2>2. QED
    BY <1>2, <2>1
<1>6. QED
  BY <1>3, <1>4, <1>5

LEMMA CountGrantedKeeps ==
    ASSUME TopUpInv, NEW p \in Callers, CountGranted(p), topUpScene' = topUpScene
    PROVE  TopUpInv'
<1> DEFINE o == topUpOp[p]
<1>1. QueueSound /\ OpSound(o) /\ o \in TopUpOpType /\ o.pc = "granted"
  BY DEF TopUpInv, QueueSound, TopUpTypes, CountGranted, AtStep
<1>2. PICK own \in Read(o.member) : Continues(p, [o EXCEPT !.pc = "queued", !.base = ReadGrant(own, o.member, o.key)])
  BY DEF CountGranted
<1> DEFINE n == ReadGrant(own, o.member, o.key)
<1> DEFINE next == [o EXCEPT !.pc = "queued", !.base = n]
<1>3. n \in Nat
  <2>1. o.member \in Members /\ o.key \in Keys
    BY <1>1 DEF TopUpOpType
  <2>2. own \in Seq(GrantType) /\ Backed(own, o.member)
    BY <1>1, <2>1, ReadBrings
  <2>3. QED
    BY <1>1, <2>1, <2>2, ReadNoMore
<1> HIDE DEF n
<1>4. /\ next \in TopUpOpType /\ next.pc = "queued"
      /\ next.id = o.id /\ next.list = o.list
  BY <1>1, <1>3 DEF TopUpOpType
<1>5. Continues(p, next)
  BY <1>2 DEF n
<1> HIDE DEF next
<1>6. OpSound(next)
  BY <1>1, <1>4 DEF OpSound, StoresNoMore, StoresNoLess, FilesWhatIsGiven, ActsInTurn, GrantsOnce, Filing, Granting, Recording
<1>7. UNCHANGED queue
  BY DEF CountGranted, queue
<1>8. QED
  BY <1>1, <1>4, <1>5, <1>6, <1>7, OnlyOpMoves DEF AtStep, Recording

LEMMA CountQueuedKeeps ==
    ASSUME TopUpInv, NEW p \in Callers, CountQueued(p), topUpScene' = topUpScene
    PROVE  TopUpInv'
<1> DEFINE o == topUpOp[p]
<1>1. QueueSound /\ OpSound(o) /\ o \in TopUpOpType /\ o.pc = "queued"
  BY DEF TopUpInv, QueueSound, TopUpTypes, CountQueued, AtStep
<1> DEFINE filed == [o EXCEPT !.pc = "filing"]
<1>2. Continues(p, IdleTopUp) \/ Continues(p, filed)
  BY DEF CountQueued
<1>3. /\ filed \in TopUpOpType /\ filed.pc = "filing"
      /\ filed.id = o.id /\ filed.list = o.list
  BY <1>1 DEF TopUpOpType
<1> HIDE DEF filed
<1>4. OpSound(filed)
  BY <1>1, <1>3 DEF OpSound, StoresNoMore, StoresNoLess, FilesWhatIsGiven, ActsInTurn, GrantsOnce, Filing, Granting, Recording
<1>5. UNCHANGED queue
  BY DEF CountQueued, queue
<1>6. IdleTopUp \in TopUpOpType /\ OpSound(IdleTopUp)
  BY <1>1, IdleSound DEF QueueSound
<1>7. ~AtStep(p, "idle") /\ ~Recording(o)
  BY <1>1 DEF AtStep, Recording
<1>8. CASE Continues(p, IdleTopUp)
  BY <1>5, <1>6, <1>7, <1>8, OnlyOpMoves
<1>9. CASE Continues(p, filed)
  BY <1>3, <1>4, <1>5, <1>7, <1>9, OnlyOpMoves
<1>10. QED
  BY <1>2, <1>8, <1>9

LEMMA TopUpFailsKeeps ==
    ASSUME TopUpInv, NEW p \in Callers, TopUpFails(p), topUpScene' = topUpScene
    PROVE  TopUpInv'
<1>1. UNCHANGED queue
  BY DEF TopUpFails, queue
<1>2. IdleTopUp \in TopUpOpType /\ OpSound(IdleTopUp)
  BY IdleSound DEF TopUpInv, QueueSound
<1>3. ~AtStep(p, "idle") /\ ~NothingFails /\ Continues(p, IdleTopUp)
  BY DEF TopUpFails, NothingFails
<1>4. QED
  BY <1>1, <1>2, <1>3, OnlyOpMoves

LEMMA ReadBaseKeeps ==
    ASSUME TopUpInv, NEW p \in Callers, ReadBase(p), topUpScene' = topUpScene
    PROVE  TopUpInv'
<1> DEFINE o == topUpOp[p]
<1>1. QueueSound /\ OpSound(o) /\ o \in TopUpOpType /\ o.pc = "granting"
  BY DEF TopUpInv, QueueSound, TopUpTypes, ReadBase, AtStep
<1>2. PICK own \in Read(o.member) : Continues(p, [o EXCEPT !.pc = "merging", !.base = ReadGrant(own, o.member, o.key)])
  BY DEF ReadBase
<1> DEFINE n == ReadGrant(own, o.member, o.key)
<1> DEFINE next == [o EXCEPT !.pc = "merging", !.base = n]
<1>3. n \in Nat /\ n <= promised[o.member][o.key] /\ (KeptWhole => n = ReadGrant(grants[o.member], o.member, o.key))
  <2>1. o.member \in Members /\ o.key \in Keys
    BY <1>1 DEF TopUpOpType
  <2>2. own \in Seq(GrantType) /\ Backed(own, o.member) /\ (KeptWhole => own = grants[o.member])
    BY <1>1, <2>1, ReadBrings
  <2>3. QED
    BY <1>1, <2>1, <2>2, ReadNoMore
<1> HIDE DEF n
<1>4. /\ next \in TopUpOpType /\ next.pc = "merging" /\ next.base = n
      /\ next.id = o.id /\ next.list = o.list /\ next.member = o.member /\ next.key = o.key
  BY <1>1, <1>3 DEF TopUpOpType
<1>5. Continues(p, next)
  BY <1>2 DEF n
<1> HIDE DEF next
<1>6. OpSound(next)
  <2>1. (Filing(next) \/ Granting(next) => next.id \in Ids) /\ StoresNoMore(next) /\ FilesWhatIsGiven(next)
    BY <1>1, <1>3, <1>4 DEF OpSound, StoresNoMore, FilesWhatIsGiven, Filing, Granting
  <2>2. KeptWhole => StoresNoLess(next)
    BY <1>1, <1>3, <1>4 DEF StoresNoLess
  <2>3. topUpScene.serial => ActsInTurn(next)
    BY <1>1, <1>4 DEF OpSound, ActsInTurn, Filing, Granting, Recording, Files, Answers
  <2>4. NothingFails /\ Roomy => GrantsOnce(next)
    BY <1>1, <1>4 DEF OpSound, GrantsOnce, Filing, Granting, Recording
  <2>5. QED
    BY <2>1, <2>2, <2>3, <2>4 DEF OpSound
<1>7. UNCHANGED queue
  BY DEF ReadBase, queue
<1>8. QED
  BY <1>1, <1>4, <1>5, <1>6, <1>7, OnlyOpMoves DEF AtStep, Recording

LEMMA ReadMineKeeps ==
    ASSUME TopUpInv, NEW p \in Callers, ReadMine(p), topUpScene' = topUpScene
    PROVE  TopUpInv'
<1> DEFINE o == topUpOp[p]
<1>1. QueueSound /\ OpSound(o) /\ o \in TopUpOpType /\ o.pc = "merging"
  BY DEF TopUpInv, QueueSound, TopUpTypes, ReadMine, AtStep
<1>2. PICK own \in Read(o.member) : Continues(p, [o EXCEPT !.pc = "giving", !.mine = own])
  BY DEF ReadMine
<1> DEFINE next == [o EXCEPT !.pc = "giving", !.mine = own]
<1>3. own \in Seq(GrantType) /\ Backed(own, o.member) /\ (KeptWhole => own = grants[o.member])
  <2>1. o.member \in Members
    BY <1>1 DEF TopUpOpType
  <2>2. QED
    BY <1>1, <2>1, ReadBrings
<1>4. /\ next \in TopUpOpType /\ next.pc = "giving" /\ next.mine = own /\ next.base = o.base
      /\ next.id = o.id /\ next.list = o.list /\ next.member = o.member /\ next.key = o.key
  BY <1>1, <1>3 DEF TopUpOpType
<1>5. Continues(p, next)
  BY <1>2
<1> HIDE DEF next
<1>6. OpSound(next)
  <2>1. (Filing(next) \/ Granting(next) => next.id \in Ids) /\ StoresNoMore(next) /\ FilesWhatIsGiven(next)
    BY <1>1, <1>3, <1>4 DEF OpSound, StoresNoMore, FilesWhatIsGiven, Filing, Granting
  <2>2. KeptWhole => StoresNoLess(next)
    BY <1>1, <1>3, <1>4 DEF OpSound, StoresNoLess
  <2>3. topUpScene.serial => ActsInTurn(next)
    BY <1>1, <1>4 DEF OpSound, ActsInTurn, Filing, Granting, Recording, Files, Answers
  <2>4. NothingFails /\ Roomy => GrantsOnce(next)
    BY <1>1, <1>4 DEF OpSound, GrantsOnce, Filing, Granting, Recording
  <2>5. QED
    BY <2>1, <2>2, <2>3, <2>4 DEF OpSound
<1>7. UNCHANGED queue
  BY DEF ReadMine, queue
<1>8. QED
  BY <1>1, <1>4, <1>5, <1>6, <1>7, OnlyOpMoves DEF AtStep, Recording

LEMMA AppendHas ==
    ASSUME NEW S, NEW list \in Seq(S), NEW e \in S, NEW t, t = Append(list, e)
    PROVE  /\ t \in Seq(S) /\ Len(t) = Len(list) + 1 /\ Len(list) \in Nat
           /\ \A i \in DOMAIN t : (i \in DOMAIN list /\ t[i] = list[i]) \/ (i = Len(list) + 1 /\ t[i] = e)
           /\ \A i \in DOMAIN list : i \in DOMAIN t /\ t[i] = list[i] /\ i # Len(list) + 1
           /\ Len(t) \in DOMAIN t /\ t[Len(t)] = e
  OBVIOUS

\* One operation at a time, no other is recording when this one is not.
LEMMA NobodyElse ==
    ASSUME TopUpInv, topUpScene.serial, NEW p \in Callers, ~AtStep(p, "idle"), ~Recording(topUpOp[p])
    PROVE  \A q \in Callers : ~Recording(topUpOp[q])
  BY DEF TopUpInv, QueueSound, QueueInTurn, TopUpsInTurn, AtStep, Recording

LEMMA OnceWithOneMore ==
    ASSUME TopUpTypes, Once(topUps), NEW e \in EntryType, given[e.id] = (IF e.status = "approved" THEN 1 ELSE 0),
           NEW t, t = Append(topUps, e)
    PROVE  Once(t)
<1>1. topUps \in Seq(EntryType)
  BY DEF TopUpTypes
<1>2. /\ \A i \in DOMAIN t : (i \in DOMAIN topUps /\ t[i] = topUps[i]) \/ t[i] = e
      /\ \A i \in DOMAIN topUps : i \in DOMAIN t /\ t[i] = topUps[i]
  BY <1>1, AppendHas
<1>3. QED
  BY <1>2 DEF Once

LEMMA RequestTopUpKeeps ==
    ASSUME TopUpInv, NEW p \in Callers, RequestTopUp(p), topUpScene' = topUpScene
    PROVE  TopUpInv'
<1> DEFINE o == topUpOp[p]
<1>1. QueueSound /\ OpSound(o) /\ o \in TopUpOpType /\ o.pc = "filing" /\ topUps \in Seq(EntryType)
  BY DEF TopUpInv, QueueSound, TopUpTypes, RequestTopUp, AtStep
<1> DEFINE e == Entry(o.id, o.member, o.key, "pending", "member")
<1> DEFINE list == Append(topUps, e)
<1> DEFINE next == [o EXCEPT !.pc = "recording", !.list = list]
<1>2. Continues(p, next)
  BY DEF RequestTopUp
<1>3. e \in EntryType /\ e.id = o.id /\ e.status = "pending"
  <2>1. o.id \in Ids /\ o.member \in Members /\ o.key \in Keys
    BY <1>1 DEF OpSound, Filing, TopUpOpType
  <2>2. QED
    BY <2>1 DEF Entry, EntryType
<1> HIDE DEF e
<1>4. /\ list \in Seq(EntryType)
      /\ \A i \in DOMAIN list : (i \in DOMAIN topUps /\ list[i] = topUps[i]) \/ list[i] = e
  BY <1>1, <1>3, AppendHas
<1>5. list = Append(topUps, e)
  OBVIOUS
<1> HIDE DEF list
<1>6. /\ next \in TopUpOpType /\ next.pc = "recording" /\ next.list = list
  BY <1>1, <1>4 DEF TopUpOpType
<1> HIDE DEF next
<1>7. OpSound(next)
  <2>1. (Filing(next) \/ Granting(next) => next.id \in Ids) /\ StoresNoMore(next) /\ StoresNoLess(next)
    BY <1>6 DEF Filing, Granting, StoresNoMore, StoresNoLess
  <2>2. FilesWhatIsGiven(next)
    <3>1. \A i \in DOMAIN list : list[i].status = "approved" => given[list[i].id] > 0
      BY <1>1, <1>3, <1>4 DEF QueueSound, ApprovedAreGiven
    <3>2. QED
      BY <1>6, <3>1 DEF FilesWhatIsGiven
  <2>3. topUpScene.serial => ActsInTurn(next)
    <3>1. topUpScene.serial => Len(topUps) < begun /\ ~OnFile(e.id)
      BY <1>1, <1>3 DEF OpSound, ActsInTurn, Filing
    <3>2. ~OnFile(e.id) => Files(next)
      BY <1>3, <1>5, <1>6 DEF Files, Granting
    <3>3. topUpScene.serial => NotAhead(list)
      <4>1. topUpScene.serial => e.id = <<begun>>
        BY <1>1, <1>3 DEF OpSound, ActsInTurn, Filing
      <4>2. topUpScene.serial => NotAhead(topUps)
        BY <1>1 DEF QueueSound, QueueInTurn, NotAhead, OnFile
      <4>3. begun \in Nat /\ \A n \in 1..MaxTopUpCalls : n > begun => <<begun>> # <<n>>
        BY <1>1, TopUpAssumption DEF QueueSound, TopUpTypes, TopUpSceneType
      <4>4. QED
        BY <1>4, <4>1, <4>2, <4>3 DEF NotAhead
    <3>4. QED
      BY <1>6, <3>1, <3>2, <3>3 DEF ActsInTurn, Filing
  <2>4. NothingFails /\ Roomy => GrantsOnce(next)
    <3> SUFFICES ASSUME NothingFails, Roomy PROVE GrantsOnce(next)
      OBVIOUS
    <3>1. \A q \in Callers : ~Recording(topUpOp[q])
      BY <1>1, NobodyElse DEF NothingFails, AtStep, Recording
    <3>2. Once(topUps)
      BY <1>1, <3>1 DEF QueueSound, GrantedOnce
    <3>3. given[e.id] = 0
      BY <1>1, <1>3 DEF OpSound, GrantsOnce, Filing
    <3>4. Once(list)
      BY <1>1, <1>3, <1>5, <3>2, <3>3, OnceWithOneMore DEF QueueSound
    <3>5. QED
      BY <1>6, <3>4 DEF GrantsOnce, Filing, Granting, Recording
  <2>5. QED
    BY <2>1, <2>2, <2>3, <2>4 DEF OpSound
<1>8. UNCHANGED queue
  BY DEF RequestTopUp, queue
<1>9. QED
  BY <1>1, <1>2, <1>6, <1>7, <1>8, OnlyOpMoves DEF AtStep, Recording

\* An operation on its way to write a list goes on with the same one.
LEMMA StillRecords ==
    ASSUME TopUpTypes, NEW o, NEW next, OpSound(o), Recording(o), Recording(next),
           next.list = o.list, next.pc # "copying" \/ Backed(next.mine, next.member), KeptWhole => StoresNoLess(next)
    PROVE  OpSound(next)
<1>1. (Filing(next) \/ Granting(next) => next.id \in Ids) /\ StoresNoMore(next)
  BY DEF Filing, Granting, Recording, StoresNoMore
<1>2. FilesWhatIsGiven(next)
  BY DEF OpSound, FilesWhatIsGiven, Granting, Recording
<1>3. topUpScene.serial => ActsInTurn(next)
  BY DEF OpSound, ActsInTurn, Filing, Granting, Recording, Files, Answers
<1>4. NothingFails /\ Roomy => GrantsOnce(next)
  BY DEF OpSound, GrantsOnce, Filing, Granting, Recording
<1>5. QED
  BY <1>1, <1>2, <1>3, <1>4 DEF OpSound

LEMMA StartMigrationKeeps ==
    ASSUME TopUpInv, NEW p \in Callers, StartMigration(p), topUpScene' = topUpScene
    PROVE  TopUpInv'
<1> DEFINE o == topUpOp[p]
<1>1. QueueSound /\ OpSound(o) /\ o \in TopUpOpType /\ o.pc = "recording"
  BY DEF TopUpInv, QueueSound, TopUpTypes, StartMigration, AtStep
<1> DEFINE holders == {m \in Members : legacy[m] # <<>>}
<1> DEFINE next == [o EXCEPT !.pc = "migrating", !.drop = TRUE, !.todo = holders]
<1>2. Continues(p, next)
  BY DEF StartMigration
<1>3. holders \in SUBSET Members /\ \A m \in Members \ holders : legacy[m] = <<>>
  OBVIOUS
<1> HIDE DEF holders
<1>4. /\ next \in TopUpOpType /\ next.pc = "migrating" /\ next.list = o.list /\ next.todo = holders
  BY <1>1, <1>3 DEF TopUpOpType
<1> HIDE DEF next
<1>5. StoresNoLess(next)
  BY <1>3, <1>4 DEF StoresNoLess
<1>6. OpSound(next)
  BY <1>1, <1>4, <1>5, StillRecords DEF Recording, QueueSound
<1>7. UNCHANGED queue
  BY DEF StartMigration, queue
<1>8. QED
  BY <1>1, <1>2, <1>4, <1>6, <1>7, OnlyOpMoves DEF AtStep, Recording

LEMMA MigrateReadKeeps ==
    ASSUME TopUpInv, NEW p \in Callers, MigrateRead(p), topUpScene' = topUpScene
    PROVE  TopUpInv'
<1> DEFINE o == topUpOp[p]
<1>1. QueueSound /\ OpSound(o) /\ o \in TopUpOpType /\ o.pc = "migrating"
  BY DEF TopUpInv, QueueSound, TopUpTypes, MigrateRead, AtStep
<1>2. PICK m \in o.todo : Continues(p, [o EXCEPT !.pc = "copying", !.member = m, !.mine = grants[m]])
  BY DEF MigrateRead
<1> DEFINE next == [o EXCEPT !.pc = "copying", !.member = m, !.mine = grants[m]]
<1>3. m \in Members /\ grants[m] \in Seq(GrantType) /\ Backed(grants[m], m)
  <2>1. m \in Members
    BY <1>1, <1>2 DEF TopUpOpType
  <2>2. QED
    BY <1>1, <2>1 DEF QueueSound, TopUpTypes, NeverMore
<1>4. /\ next \in TopUpOpType /\ next.pc = "copying" /\ next.list = o.list /\ next.todo = o.todo
      /\ next.member = m /\ next.mine = grants[m] /\ next.drop = o.drop
  BY <1>1, <1>3 DEF TopUpOpType
<1>5. Continues(p, next)
  BY <1>2
<1> HIDE DEF next
<1>6. KeptWhole => StoresNoLess(next)
  BY <1>1, <1>2, <1>4 DEF OpSound, StoresNoLess
<1>7. OpSound(next)
  BY <1>1, <1>3, <1>4, <1>6, StillRecords DEF Recording, QueueSound
<1>8. UNCHANGED queue
  BY DEF MigrateRead, queue
<1>9. QED
  BY <1>1, <1>4, <1>5, <1>7, <1>8, OnlyOpMoves DEF AtStep, Recording

LEMMA MigrateFailsKeeps ==
    ASSUME TopUpInv, NEW p \in Callers, MigrateFails(p), topUpScene' = topUpScene
    PROVE  TopUpInv'
<1> DEFINE o == topUpOp[p]
<1>1. QueueSound /\ OpSound(o) /\ o \in TopUpOpType /\ o.pc \in {"migrating", "copying"}
  BY DEF TopUpInv, QueueSound, TopUpTypes, MigrateFails, AtStep
<1> DEFINE next == [o EXCEPT !.pc = "migrating", !.todo = {}, !.drop = FALSE]
<1>2. Continues(p, next)
  BY DEF MigrateFails
<1>3. /\ next \in TopUpOpType /\ next.pc = "migrating" /\ next.list = o.list /\ next.drop = FALSE
  BY <1>1 DEF TopUpOpType
<1> HIDE DEF next
<1>4. StoresNoLess(next)
  BY <1>3 DEF StoresNoLess
<1>5. OpSound(next)
  BY <1>1, <1>3, <1>4, StillRecords DEF Recording, QueueSound
<1>6. UNCHANGED queue
  BY DEF MigrateFails, queue
<1>7. QED
  BY <1>1, <1>2, <1>3, <1>5, <1>6, OnlyOpMoves DEF AtStep, Recording

\* What an operation may begin with.
NotFarAhead(list) == \A i \in DOMAIN list : \A n \in 1..MaxTopUpCalls : n > begun + 1 => list[i].id # <<n>>
BeginsSound(next) ==
    /\ next.pc \in {"granted", "filing", "granting", "recording"}
    /\ Filing(next) \/ Granting(next) => next.id \in Ids
    /\ FilesWhatIsGiven(next)
    /\ topUpScene.serial =>
          /\ Filing(next) => next.id = Fresh
          /\ Granting(next) \/ Recording(next) => (Files(next) \/ Answers(next)) /\ NotFarAhead(next.list)
    /\ NothingFails /\ Roomy => GrantsOnce(next)

LEMMA FreshIsNew ==
    ASSUME QueueSound, begun < topUpScene.calls
    PROVE  /\ Fresh \in Ids /\ Fresh = <<begun + 1>>
           /\ topUpScene.serial => ~OnFile(Fresh)
           /\ NothingFails => given[Fresh] = 0
<1>1. begun \in Nat /\ begun + 1 \in 1..MaxTopUpCalls /\ begun + 1 > begun
  BY TopUpAssumption DEF QueueSound, TopUpTypes, TopUpSceneType
<1>2. Fresh = <<begun + 1>> /\ Fresh \in Ids
  BY <1>1 DEF Fresh, Ids
<1>3. QED
  BY <1>1, <1>2 DEF QueueSound, QueueInTurn, GrantedOnce

LEMMA Began ==
    ASSUME TopUpInv, NEW p \in Callers, NEW next \in TopUpOpType, Starts(p, next), topUpScene' = topUpScene,
           BeginsSound(next)
    PROVE  TopUpInv'
<1>1. /\ topUpOp' \in [Callers -> TopUpOpType] /\ topUpOp'[p] = next
      /\ \A q \in Callers : q # p => topUpOp'[q] = topUpOp[q]
  BY Continued DEF TopUpInv, QueueSound, Starts
<1>2. /\ begun' = begun + 1 /\ begun < topUpScene.calls
      /\ UNCHANGED <<topUpScene, topUps, grants, legacy, turn, promised, given>>
      /\ topUpScene.serial => \A q \in Callers : topUpOp[q].pc = "idle"
  BY DEF Starts, Free, AtStep
<1>3. begun \in Nat /\ begun' \in 0..topUpScene.calls
  BY <1>2 DEF TopUpInv, QueueSound, TopUpTypes, TopUpSceneType
<1>4. Roomy' => Roomy
  <2>1. GrantSize \in Nat /\ ValueLimit \in Nat
    BY TopUpAssumption
  <2>2. (begun + 1) * GrantSize = begun * GrantSize + GrantSize /\ begun * GrantSize \in Nat
    BY <1>3, <2>1
  <2>3. (begun + 1) * GrantSize <= ValueLimit => begun * GrantSize <= ValueLimit
    BY <2>1, <2>2
  <2>4. QED
    BY <1>2, <2>3 DEF Roomy
<1>5. NothingFails' = NothingFails /\ KeptWhole' = KeptWhole
  BY <1>2 DEF NothingFails, KeptWhole, Faulty
<1>6. topUpScene.serial => ~OnFile(Fresh) /\ Len(topUps) < begun + 1 /\ Fresh = <<begun'>>
  BY <1>2, <1>3, FreshIsNew DEF TopUpInv, QueueSound, QueueInTurn, TopUpTypes
<1>7. OpSound(topUpOp[p])'
  <2>1. (Filing(topUpOp[p]) \/ Granting(topUpOp[p]) => topUpOp[p].id \in Ids)'
    BY <1>1 DEF BeginsSound, Filing, Granting
  <2>2. StoresNoMore(topUpOp[p])'
    BY <1>1 DEF BeginsSound, StoresNoMore
  <2>3. StoresNoLess(topUpOp[p])'
    BY <1>1 DEF BeginsSound, StoresNoLess
  <2>4. FilesWhatIsGiven(topUpOp[p])'
    BY <1>1, <1>2 DEF BeginsSound, FilesWhatIsGiven, Granting
  <2>5. (topUpScene.serial => ActsInTurn(topUpOp[p]))'
    <3>1. Files(next) => Files(topUpOp[p])'
      BY <1>1, <1>2 DEF Files, OnFile, Granting
    <3>2. Answers(next) => Answers(topUpOp[p])'
      BY <1>1, <1>2 DEF Answers, Granting
    <3>3. topUpScene.serial => (~OnFile(<<begun>>))'
      BY <1>2, <1>6 DEF OnFile
    <3>4. NotFarAhead(next.list) => NotAhead(topUpOp[p].list)'
      BY <1>1, <1>2 DEF NotAhead, NotFarAhead
    <3>5. QED
      BY <1>1, <1>2, <1>6, <3>1, <3>2, <3>3, <3>4 DEF BeginsSound, ActsInTurn, Filing, Granting, Recording
  <2>6. (NothingFails /\ Roomy => GrantsOnce(topUpOp[p]))'
    BY <1>1, <1>2, <1>4, <1>5 DEF BeginsSound, GrantsOnce, Once, Filing, Granting, Recording
  <2>7. QED
    BY <2>1, <2>2, <2>3, <2>4, <2>5, <2>6 DEF OpSound
<1>8. ASSUME NEW q \in Callers, q # p PROVE OpSound(topUpOp[q])'
  <2>0. topUpOp'[q] = topUpOp[q] /\ OpSound(topUpOp[q]) /\ (topUpScene.serial => topUpOp[q].pc = "idle")
    BY <1>1, <1>2, <1>8 DEF TopUpInv
  <2>1. (Filing(topUpOp[q]) \/ Granting(topUpOp[q]) => topUpOp[q].id \in Ids)'
    BY <2>0 DEF OpSound, Filing, Granting
  <2>2. StoresNoMore(topUpOp[q])'
    BY <1>2, <2>0 DEF OpSound, StoresNoMore, Backed
  <2>3. (KeptWhole => StoresNoLess(topUpOp[q]))'
    BY <1>2, <2>0 DEF OpSound, StoresNoLess, KeptWhole
  <2>4. FilesWhatIsGiven(topUpOp[q])'
    BY <1>2, <2>0 DEF OpSound, FilesWhatIsGiven, Granting
  <2>5. (topUpScene.serial => ActsInTurn(topUpOp[q]))'
    BY <1>2, <2>0 DEF ActsInTurn, Filing, Granting, Recording
  <2>6. (NothingFails => GrantsOnce(topUpOp[q]))'
    BY <1>2, <2>0 DEF NothingFails, GrantsOnce, Filing, Granting, Recording
  <2>7. QED
    BY <2>1, <2>2, <2>3, <2>4, <2>5, <2>6 DEF OpSound
<1>9. \A q \in Callers : OpSound(topUpOp[q])'
  BY <1>7, <1>8
<1>10. TopUpTypes'
  BY <1>1, <1>2, <1>3 DEF TopUpInv, QueueSound, TopUpTypes
<1>11. NeverMore' /\ OldGrants' /\ ApprovedAreGiven'
  BY <1>2 DEF TopUpInv, QueueSound, NeverMore, Backed, OldGrants, ApprovedAreGiven
<1>12. (KeptWhole => NeverLess)'
  BY <1>2 DEF TopUpInv, QueueSound, KeptWhole, Faulty, NeverLess, Few, GrantedWindows, ReadGrant
<1>13. (topUpScene.serial => QueueInTurn)'
  <2>1. topUpScene.serial => TopUpsInTurn'
    BY <1>1, <1>2 DEF TopUpsInTurn, AtStep
  <2>2. topUps \in Seq(EntryType)
    BY DEF TopUpInv, QueueSound, TopUpTypes
  <2>3. topUpScene.serial => (Fits(topUps) /\ Len(topUps) <= begun)'
    BY <1>2, <1>3, <2>2 DEF TopUpInv, QueueSound, QueueInTurn, Fits
  <2>4. topUpScene.serial => (\A i, j \in DOMAIN topUps : topUps[i].id = topUps[j].id => i = j)'
    BY <1>2 DEF TopUpInv, QueueSound, QueueInTurn
  <2>5. topUpScene.serial => (\A n \in 1..MaxTopUpCalls : n > begun => ~OnFile(<<n>>))'
    BY <1>2, <1>3, TopUpAssumption DEF TopUpInv, QueueSound, QueueInTurn, OnFile
  <2>6. QED
    BY <1>2, <2>1, <2>3, <2>4, <2>5 DEF QueueInTurn
<1>14. (NothingFails => GrantedOnce)'
  <2>1. NothingFails => \A q \in Callers : ~Recording(topUpOp[q])
    BY <1>2 DEF NothingFails, Recording
  <2>2. NothingFails => (\A n \in 1..MaxTopUpCalls : n > begun => given[<<n>>] = 0)'
    BY <1>2, <1>3, TopUpAssumption DEF TopUpInv, QueueSound, GrantedOnce
  <2>3. NothingFails /\ Roomy' => Once(topUps)'
    BY <1>2, <1>4, <2>1 DEF TopUpInv, QueueSound, GrantedOnce, Once
  <2>4. QED
    BY <1>5, <2>2, <2>3 DEF GrantedOnce
<1>15. QED
  BY <1>9, <1>10, <1>11, <1>12, <1>13, <1>14 DEF TopUpInv, QueueSound

\* An answered queue: the same records, one with another status.
IsAnswered(t, list, i, answer) ==
    /\ t \in Seq(EntryType) /\ Len(t) = Len(list) /\ DOMAIN t = DOMAIN list
    /\ \A j \in DOMAIN list : j # i => t[j] = list[j]
    /\ \A j \in DOMAIN list : t[j].id = list[j].id /\ t[j].by = list[j].by
    /\ t[i].status = answer

LEMMA AnswerHas ==
    ASSUME NEW list \in Seq(EntryType), NEW i \in DOMAIN list, NEW answer \in {"approved", "denied"},
           NEW t, t = [list EXCEPT ![i].status = answer]
    PROVE  IsAnswered(t, list, i, answer)
<1>1. list[i] \in EntryType
  OBVIOUS
<1> DEFINE r == [list[i] EXCEPT !.status = answer]
<1>2. r \in EntryType /\ r.id = list[i].id /\ r.by = list[i].by /\ r.status = answer
  BY <1>1 DEF EntryType
<1>3. t = [list EXCEPT ![i] = r]
  OBVIOUS
<1> HIDE DEF r
<1>4. t \in Seq(EntryType) /\ Len(t) = Len(list) /\ DOMAIN t = DOMAIN list
  BY <1>2, <1>3
<1>5. t[i] = r /\ \A j \in DOMAIN list : j # i => t[j] = list[j]
  BY <1>3
<1>6. QED
  BY <1>2, <1>4, <1>5 DEF IsAnswered

LEMMA AllIdle ==
    ASSUME TopUpInv, NEW p \in Callers, Free(p)
    PROVE  NothingFails /\ Roomy => Once(topUps)
<1>1. topUpScene.serial => \A q \in Callers : ~Recording(topUpOp[q])
  BY DEF Free, AtStep, Recording
<1>2. QED
  BY <1>1 DEF TopUpInv, QueueSound, GrantedOnce, NothingFails

LEMMA KeyOfTypes == ASSUME TopUpTypes, NEW w \in Windows PROVE KeyOf(w) \in Keys
  BY DEF TopUpTypes, KeyOf, Keys

LEMMA RequestKeeps ==
    ASSUME TopUpInv, topUpScene' = topUpScene, NEW m \in Members, NEW w \in Windows, NEW pc \in {"granted", "filing"},
           Starts(m, [IdleTopUp EXCEPT !.pc = pc, !.id = Fresh, !.member = m, !.key = KeyOf(w)])
    PROVE  TopUpInv'
<1> DEFINE next == [IdleTopUp EXCEPT !.pc = pc, !.id = Fresh, !.member = m, !.key = KeyOf(w)]
<1>1. Starts(m, next) /\ m \in Callers
  BY DEF Callers
<1>2. QueueSound /\ TopUpTypes /\ begun < topUpScene.calls
  BY <1>1 DEF TopUpInv, QueueSound, Starts
<1>3. Fresh \in Ids /\ (NothingFails => given[Fresh] = 0) /\ KeyOf(w) \in Keys
  BY <1>2, FreshIsNew, KeyOfTypes
<1>4. IdleTopUp \in TopUpOpType /\ IdleTopUp.list = <<>>
  BY <1>2, IdleSound DEF IdleTopUp
<1>5. next \in TopUpOpType /\ next.pc = pc /\ next.id = Fresh /\ next.list = <<>>
  BY <1>3, <1>4 DEF TopUpOpType
<1> HIDE DEF next
<1>6. BeginsSound(next)
  <2>1. DOMAIN next.list = {}
    BY <1>5
  <2>2. FilesWhatIsGiven(next)
    BY <2>1 DEF FilesWhatIsGiven
  <2>3. NothingFails => GrantsOnce(next)
    BY <1>3, <1>5 DEF GrantsOnce, Recording
  <2>4. QED
    BY <1>3, <1>5, <2>2, <2>3 DEF BeginsSound, Filing, Granting, Recording
<1>7. QED
  BY <1>1, <1>5, <1>6, Began

LEMMA AnswersAreNotAhead ==
    ASSUME QueueSound, topUpScene.serial, NEW i \in DOMAIN topUps, NEW list, DOMAIN list = DOMAIN topUps,
           \A j \in DOMAIN topUps : j # i => list[j] = topUps[j], list[i].id = topUps[i].id
    PROVE  NotFarAhead(list)
<1>1. \A j \in DOMAIN topUps : list[j].id = topUps[j].id
  OBVIOUS
<1>2. begun \in Nat /\ \A n \in 1..MaxTopUpCalls : n > begun + 1 => n > begun
  BY TopUpAssumption DEF QueueSound, TopUpTypes, TopUpSceneType
<1>3. QED
  BY <1>1, <1>2 DEF QueueSound, QueueInTurn, OnFile, NotFarAhead

LEMMA ApproveKeeps ==
    ASSUME TopUpInv, NEW p \in Callers, ApproveTopUp(p), topUpScene' = topUpScene
    PROVE  TopUpInv'
<1>1. PICK i \in DOMAIN topUps :
          /\ topUps[i].status = "pending"
          /\ Starts(p, [IdleTopUp EXCEPT !.pc = "granting", !.id = topUps[i].id,
                                    !.member = topUps[i].member, !.key = topUps[i].key,
                                    !.list = [topUps EXCEPT ![i].status = "approved"]])
  BY DEF ApproveTopUp
<1> DEFINE list == [topUps EXCEPT ![i].status = "approved"]
<1> DEFINE next == [IdleTopUp EXCEPT !.pc = "granting", !.id = topUps[i].id,
                       !.member = topUps[i].member, !.key = topUps[i].key, !.list = list]
<1>2. Starts(p, next)
  BY <1>1
<1>3. QueueSound /\ TopUpTypes /\ topUps \in Seq(EntryType) /\ topUps[i] \in EntryType
  BY DEF TopUpInv, QueueSound, TopUpTypes
<1>4. list = [topUps EXCEPT ![i].status = "approved"]
  OBVIOUS
<1> HIDE DEF list
<1>5. /\ list \in Seq(EntryType) /\ DOMAIN list = DOMAIN topUps
      /\ \A j \in DOMAIN topUps : j # i => list[j] = topUps[j]
      /\ list[i].id = topUps[i].id
  <2>1. IsAnswered(list, topUps, i, "approved")
    BY <1>3, <1>4, AnswerHas
  <2>2. QED
    BY <2>1 DEF IsAnswered
<1>6. IdleTopUp \in TopUpOpType
  BY <1>3, IdleSound
<1>7. next \in TopUpOpType /\ next.pc = "granting" /\ next.id = topUps[i].id /\ next.list = list /\ next.id \in Ids
  BY <1>3, <1>5, <1>6 DEF TopUpOpType, EntryType
<1> HIDE DEF next
<1>8. BeginsSound(next)
  <2>1. FilesWhatIsGiven(next)
    <3>1. Granting(next)
      BY <1>7 DEF Granting
    <3>2. ASSUME NEW j \in DOMAIN next.list, next.list[j].status = "approved"
          PROVE  given[next.list[j].id] > 0 \/ (Granting(next) /\ next.list[j].id = next.id)
      <4>1. CASE j = i
        BY <1>5, <1>7, <3>1, <4>1
      <4>2. CASE j # i
        BY <1>3, <1>5, <1>7, <3>2, <4>2 DEF QueueSound, ApprovedAreGiven
      <4>3. QED
        BY <4>1, <4>2
    <3>3. QED
      BY <3>2 DEF FilesWhatIsGiven
  <2>2. Answers(next) /\ (topUpScene.serial => NotFarAhead(next.list))
    <3>1. Answers(next)
      BY <1>1, <1>4, <1>7 DEF Answers
    <3>2. topUpScene.serial => NotFarAhead(list)
      BY <1>3, <1>5, AnswersAreNotAhead
    <3> QED
      BY <1>7, <3>1, <3>2
  <2>3. NothingFails /\ Roomy => GrantsOnce(next)
    <3>1. NothingFails /\ Roomy => Once(topUps)
      BY <1>2, AllIdle DEF Starts
    <3>2. Once(topUps) => given[next.id] = 0
      BY <1>1, <1>7 DEF Once
    <3>3. QED
      BY <1>7, <3>1, <3>2 DEF GrantsOnce, Recording
  <2>4. QED
    BY <1>7, <2>1, <2>2, <2>3 DEF BeginsSound, Filing
<1>9. QED
  BY <1>2, <1>7, <1>8, Began

LEMMA DenyKeeps ==
    ASSUME TopUpInv, NEW p \in Callers, DenyTopUp(p), topUpScene' = topUpScene
    PROVE  TopUpInv'
<1>1. PICK i \in DOMAIN topUps :
          /\ topUps[i].status = "pending"
          /\ Starts(p, [IdleTopUp EXCEPT !.pc = "recording", !.list = [topUps EXCEPT ![i].status = "denied"]])
  BY DEF DenyTopUp
<1> DEFINE list == [topUps EXCEPT ![i].status = "denied"]
<1> DEFINE next == [IdleTopUp EXCEPT !.pc = "recording", !.list = list]
<1>2. Starts(p, next)
  BY <1>1
<1>3. QueueSound /\ TopUpTypes /\ topUps \in Seq(EntryType)
  BY DEF TopUpInv, QueueSound, TopUpTypes
<1>4. list = [topUps EXCEPT ![i].status = "denied"]
  OBVIOUS
<1> HIDE DEF list
<1>5. /\ list \in Seq(EntryType) /\ DOMAIN list = DOMAIN topUps
      /\ \A j \in DOMAIN topUps : j # i => list[j] = topUps[j]
      /\ list[i].id = topUps[i].id /\ list[i].status = "denied"
  <2>1. IsAnswered(list, topUps, i, "denied")
    BY <1>3, <1>4, AnswerHas
  <2>2. QED
    BY <2>1 DEF IsAnswered
<1>6. IdleTopUp \in TopUpOpType
  BY <1>3, IdleSound
<1>7. next \in TopUpOpType /\ next.pc = "recording" /\ next.list = list
  BY <1>5, <1>6 DEF TopUpOpType
<1> HIDE DEF next
<1>8. BeginsSound(next)
  <2>1. FilesWhatIsGiven(next)
    <3>1. ASSUME NEW j \in DOMAIN list, list[j].status = "approved" PROVE given[list[j].id] > 0
      <4>1. j # i
        BY <1>5, <3>1
      <4>2. QED
        BY <1>3, <1>5, <3>1, <4>1 DEF QueueSound, ApprovedAreGiven
    <3>2. QED
      BY <1>7, <3>1 DEF FilesWhatIsGiven
  <2>2. Answers(next) /\ (topUpScene.serial => NotFarAhead(next.list))
    <3>1. Answers(next)
      BY <1>1, <1>4, <1>7 DEF Answers, Granting
    <3>2. topUpScene.serial => NotFarAhead(list)
      BY <1>3, <1>5, AnswersAreNotAhead
    <3> QED
      BY <1>7, <3>1, <3>2
  <2>3. NothingFails /\ Roomy => GrantsOnce(next)
    <3>1. NothingFails /\ Roomy => Once(topUps)
      BY <1>2, AllIdle DEF Starts
    <3>2. ASSUME Once(topUps) PROVE Once(list)
      <4>1. \A j \in DOMAIN list : given[list[j].id] = (IF list[j].status = "approved" THEN 1 ELSE 0)
        <5>1. given[topUps[i].id] = 0
          BY <1>1, <3>2 DEF Once
        <5>2. given[list[i].id] = (IF list[i].status = "approved" THEN 1 ELSE 0)
          BY <1>5, <5>1
        <5>3. QED
          BY <1>5, <3>2, <5>2 DEF Once
      <4>2. \A j \in DOMAIN topUps : j \in DOMAIN list /\ list[j].id = topUps[j].id
        BY <1>5
      <4>3. QED
        BY <3>2, <4>1, <4>2 DEF Once
    <3>3. QED
      BY <1>7, <3>1, <3>2 DEF GrantsOnce, Filing, Granting
  <2>4. QED
    BY <1>7, <2>1, <2>2, <2>3 DEF BeginsSound, Filing, Granting
<1>9. QED
  BY <1>2, <1>7, <1>8, Began

LEMMA GrantKeeps ==
    ASSUME TopUpInv, NEW p \in Callers, GrantTopUp(p), topUpScene' = topUpScene
    PROVE  TopUpInv'
<1>1. PICK m \in Members, w \in Windows :
          LET id == IF topUpScene.clicks THEN <<m, KeyOf(w)>> ELSE Fresh IN
          /\ \A i \in DOMAIN topUps : topUps[i].id # id
          /\ Starts(p, [IdleTopUp EXCEPT !.pc = "granting", !.id = id, !.member = m, !.key = KeyOf(w),
                                      !.list = Append(topUps, Entry(id, m, KeyOf(w), "approved", "admin"))])
  BY DEF GrantTopUp
<1> DEFINE id == IF topUpScene.clicks THEN <<m, KeyOf(w)>> ELSE Fresh
<1> DEFINE e == Entry(id, m, KeyOf(w), "approved", "admin")
<1> DEFINE list == Append(topUps, e)
<1> DEFINE next == [IdleTopUp EXCEPT !.pc = "granting", !.id = id, !.member = m, !.key = KeyOf(w), !.list = list]
<1>2. Starts(p, next) /\ ~OnFile(id)
  BY <1>1 DEF OnFile
<1>3. QueueSound /\ TopUpTypes /\ topUps \in Seq(EntryType) /\ given \in [Ids -> Nat] /\ begun < topUpScene.calls
  BY <1>2 DEF TopUpInv, QueueSound, TopUpTypes, Starts
<1>4. Fresh \in Ids /\ (NothingFails => given[Fresh] = 0) /\ KeyOf(w) \in Keys
  BY <1>3, FreshIsNew, KeyOfTypes
<1>5. id \in Ids
  BY <1>4 DEF Ids
<1>6. NothingFails /\ Roomy => given[id] = 0
  <2>1. NothingFails /\ Roomy => Once(topUps)
    BY <1>2, AllIdle DEF Starts
  <2>2. CASE topUpScene.clicks
    <3> HIDE DEF id
    <3>1. Once(topUps) => ~(given[id] > 0)
      BY <1>2, <1>5, <2>2 DEF Once, OnFile
    <3>2. given[id] \in Nat
      BY <1>3, <1>5
    <3>3. QED
      BY <2>1, <3>1, <3>2
  <2>3. CASE ~topUpScene.clicks
    BY <1>4, <2>3
  <2>4. QED
    BY <2>2, <2>3
<1> HIDE DEF id
<1>7. e \in EntryType /\ e.id = id /\ e.status = "approved"
  BY <1>4, <1>5 DEF Entry, EntryType
<1> HIDE DEF e
<1>8. /\ list \in Seq(EntryType)
      /\ \A i \in DOMAIN list : (i \in DOMAIN topUps /\ list[i] = topUps[i]) \/ list[i] = e
  BY <1>3, <1>7, AppendHas
<1>9. list = Append(topUps, e)
  OBVIOUS
<1> HIDE DEF list
<1>10. IdleTopUp \in TopUpOpType
  BY <1>3, IdleSound
<1>11. next \in TopUpOpType /\ next.pc = "granting" /\ next.id = id /\ next.list = list
  BY <1>4, <1>5, <1>8, <1>10 DEF TopUpOpType
<1> HIDE DEF next
<1>12. BeginsSound(next)
  <2>1. FilesWhatIsGiven(next)
    BY <1>3, <1>7, <1>8, <1>11 DEF QueueSound, ApprovedAreGiven, FilesWhatIsGiven, Granting
  <2>2. Files(next) /\ (topUpScene.serial => NotFarAhead(next.list))
    <3>1. Files(next)
      BY <1>2, <1>7, <1>9, <1>11 DEF Files
    <3>2. begun \in Nat /\ \A n \in 1..MaxTopUpCalls : n > begun + 1 => n > begun /\ id # <<n>>
      <4>1. begun \in Nat /\ begun + 1 \in Nat
        BY <1>3, TopUpAssumption DEF TopUpTypes, TopUpSceneType
      <4>2. \A n \in 1..MaxTopUpCalls : n > begun + 1 => n > begun /\ <<begun + 1>> # <<n>>
        BY <4>1, TopUpAssumption
      <4>3. \A n \in 1..MaxTopUpCalls : <<m, KeyOf(w)>> # <<n>>
        OBVIOUS
      <4>4. QED
        BY <4>1, <4>2, <4>3, Zenon DEF id, Fresh
    <3>3. topUpScene.serial => \A i \in DOMAIN topUps : \A n \in 1..MaxTopUpCalls : n > begun => topUps[i].id # <<n>>
      BY <1>3 DEF QueueSound, QueueInTurn, OnFile
    <3>4. QED
      BY <1>7, <1>8, <1>11, <3>1, <3>2, <3>3 DEF NotFarAhead
  <2>3. NothingFails /\ Roomy => GrantsOnce(next)
    BY <1>6, <1>11 DEF GrantsOnce, Recording
  <2>4. QED
    BY <1>5, <1>11, <2>1, <2>2, <2>3 DEF BeginsSound, Filing
<1>13. QED
  BY <1>2, <1>11, <1>12, Began

-----------------------------------------------------------------------------
(* A grant is added. *)

LEMMA EntryHas ==
    ASSUME NEW list \in Seq(EntryType), NEW i \in DOMAIN list
    PROVE  list[i].id \in Ids /\ list[i].by \in {"admin", "member"}
<1>1. list[i] \in EntryType
  OBVIOUS
<1>2. QED
  BY <1>1 DEF EntryType

LEMMA GrantHas ==
    ASSUME NEW held \in Seq(GrantType), NEW i \in DOMAIN held
    PROVE  held[i].key \in Keys /\ held[i].credits \in Nat
<1>1. held[i] \in GrantType
  OBVIOUS
<1>2. QED
  BY <1>1 DEF GrantType

\* A record of a member has no more entries than windows it was granted.
LEMMA NoMoreThanWindows ==
    ASSUME NEW held \in Seq(GrantType), OfItsOwn(held), NEW W \in SUBSET Keys,
           \A i \in DOMAIN held : held[i].key \in W
    PROVE  Len(held) <= Cardinality(W) /\ IsFiniteSet(W) /\ Cardinality(W) \in Nat
<1>1. IsFiniteSet(Windows) /\ MaxTurns \in Nat
  BY TopUpAssumption
<1>2. IsFiniteSet(0..MaxTurns)
  BY <1>1, FS_Interval, 0 \in Int
<1>3. IsFiniteSet(Keys)
  BY <1>1, <1>2, FS_Product DEF Keys
<1>4. IsFiniteSet(W) /\ Cardinality(W) \in Nat
  BY <1>3, FS_Subset, FS_CardinalityType
<1>5. Len(held) \in Nat /\ DOMAIN held = 1..Len(held)
  OBVIOUS
<1>6. Cardinality(DOMAIN held) = Len(held)
  <2>1. Cardinality(1..Len(held)) = Len(held)
    BY <1>5, CountUpTo
  <2>2. QED
    BY <1>5, <2>1
<1> DEFINE f == [i \in DOMAIN held |-> held[i].key]
<1>7. f \in Injection(DOMAIN held, W)
  BY DEF OfItsOwn, Injection, IsInjective
<1> HIDE DEF f
<1>8. Cardinality(DOMAIN held) <= Cardinality(W)
  BY <1>4, <1>7, FS_Injection
<1>9. QED
  BY <1>4, <1>6, <1>8

\* What the member has for each window once one of them is given more.
LEMMA PutReads ==
    ASSUME NEW held \in Seq(GrantType), OfItsOwn(held), NEW m \in Members, legacy[m] \in {<<>>, <<OldGrant>>},
           NEW key \in Keys, NEW credits \in Nat, NEW t, t = Put(held, key, credits)
    PROVE  /\ ReadGrant(t, m, key) = credits
           /\ \A k \in Keys : k # key => ReadGrant(t, m, k) = ReadGrant(held, m, k)
<1>1. /\ t \in Seq(GrantType) /\ Holds(t, key)
      /\ \A i \in DOMAIN t : t[i].key = key => t[i].credits = credits
      /\ \A i \in DOMAIN t : t[i].key # key => i \in DOMAIN held /\ t[i] = held[i]
      /\ \A i \in DOMAIN held : i \in DOMAIN t /\ t[i].key = held[i].key
  BY PutHas
<1>2. ReadGrant(t, m, key) = credits
  <2>1. PICK i \in DOMAIN t : t[i].key = key /\ CreditsOf(t, key) = t[i].credits
    BY <1>1, CreditsAre
  <2>2. ReadGrant(t, m, key) = CreditsOf(t, key)
    BY <1>1, ReadGrantIs, Zenon
  <2>3. QED
    BY <1>1, <2>1, <2>2
<1>3. ASSUME NEW k \in Keys, k # key PROVE ReadGrant(t, m, k) = ReadGrant(held, m, k)
  <2>1. Holds(t, k) <=> Holds(held, k)
    BY <1>1, <1>3 DEF Holds
  <2>2. CASE Holds(held, k)
    <3>1. PICK i \in DOMAIN t : t[i].key = k /\ CreditsOf(t, k) = t[i].credits
      BY <2>1, <2>2, CreditsAre
    <3>2. PICK j \in DOMAIN held : held[j].key = k /\ CreditsOf(held, k) = held[j].credits
      BY <2>2, CreditsAre
    <3>3. i = j /\ t[i] = held[j]
      BY <1>1, <1>3, <3>1, <3>2 DEF OfItsOwn
    <3>4. ReadGrant(t, m, k) = CreditsOf(t, k) /\ ReadGrant(held, m, k) = CreditsOf(held, k)
      BY <1>1, <2>1, <2>2, ReadGrantIs, Zenon
    <3>5. QED
      BY <3>1, <3>2, <3>3, <3>4
  <2>3. CASE ~Holds(held, k)
    BY <1>1, <2>1, <2>3, ReadGrantIs
  <2>4. QED
    BY <2>2, <2>3
<1>4. QED
  BY <1>2, <1>3

LEMMA AddGrantKeeps ==
    ASSUME TopUpInv, NEW p \in Callers, AddGrant(p), topUpScene' = topUpScene
    PROVE  TopUpInv'
<1> DEFINE o == topUpOp[p]
<1> DEFINE credits == o.base + Amount
<1> DEFINE next == [o EXCEPT !.pc = "recording"]
<1>1. /\ QueueSound /\ OpSound(o) /\ o \in TopUpOpType /\ o.pc = "giving" /\ Granting(o) /\ o.id \in Ids
      /\ TopUpTypes
  BY DEF TopUpInv, QueueSound, TopUpTypes, AddGrant, AtStep, OpSound, Granting
<1>0. PICK m \in Members, key \in Keys : m = o.member /\ key = o.key
  BY <1>1 DEF TopUpOpType
<1>2. /\ m \in Members /\ key \in Keys /\ o.mine \in Seq(GrantType) /\ o.base \in Nat /\ credits \in Nat
      /\ Amount \in Nat /\ Amount > 0
  BY <1>1, TopUpAssumption DEF TopUpOpType
<1> DEFINE put == Put(o.mine, key, credits)
<1>3. /\ grants' = [grants EXCEPT ![m] = Newest(put)]
      /\ promised' = [promised EXCEPT ![m][key] = @ + Amount]
      /\ given' = [given EXCEPT ![o.id] = @ + 1]
      /\ Continues(p, next)
  BY <1>0 DEF AddGrant
<1>4. UNCHANGED <<topUpScene, topUps, legacy, turn, begun>>
  BY DEF AddGrant
<1>5. /\ next \in TopUpOpType /\ next.pc = "recording" /\ next.list = o.list
  BY <1>1 DEF TopUpOpType
<1> HIDE DEF next
<1>6. /\ topUpOp' \in [Callers -> TopUpOpType] /\ topUpOp'[p] = next
      /\ \A q \in Callers : q # p => topUpOp'[q] = topUpOp[q]
  BY <1>1, <1>3, <1>5, Continued
<1>7. /\ put \in Seq(GrantType)
      /\ \A i \in DOMAIN put : put[i].key = key => put[i].credits = credits
      /\ \A i \in DOMAIN put : put[i].key # key => i \in DOMAIN o.mine /\ put[i] = o.mine[i]
      /\ OfItsOwn(o.mine) => OfItsOwn(put)
  BY <1>2, PutHas, SMTT(60)
<1>8. /\ Newest(put) \in Seq(GrantType)
      /\ \A k \in DOMAIN Newest(put) : \E i \in DOMAIN put : Newest(put)[k] = put[i]
      /\ OfItsOwn(put) => OfItsOwn(Newest(put))
      /\ Len(put) <= KeysPerOrg => Newest(put) = put
  BY <1>7, NewestHas, Zenon
<1>9. put = Put(o.mine, key, credits)
  OBVIOUS
<1> HIDE DEF put
<1> DEFINE new == Newest(put)
<1> HIDE DEF new
<1>10. /\ new \in Seq(GrantType)
       /\ \A k \in DOMAIN new : \E i \in DOMAIN put : new[k] = put[i]
       /\ OfItsOwn(put) => OfItsOwn(new)
       /\ Len(put) <= KeysPerOrg => new = put
       /\ grants' \in [Members -> Seq(GrantType)] /\ grants'[m] = new
       /\ \A mm \in Members : mm # m => grants'[mm] = grants[mm]
  BY <1>1, <1>2, <1>3, <1>8 DEF new, TopUpTypes
<1>11. /\ promised' \in [Members -> [Keys -> Nat]]
       /\ promised'[m][key] = promised[m][key] + Amount
       /\ \A k \in Keys : k # key => promised'[m][k] = promised[m][k]
       /\ \A mm \in Members : mm # m => promised'[mm] = promised[mm]
       /\ \A mm \in Members, k \in Keys : promised[mm][k] \in Nat /\ promised'[mm][k] \in Nat /\ promised'[mm][k] >= promised[mm][k]
  <2>1. promised \in [Members -> [Keys -> Nat]]
    BY <1>1 DEF TopUpTypes
  <2>2. promised[m] \in [Keys -> Nat] /\ promised[m][key] + Amount \in Nat
    BY <1>2, <2>1
  <2> DEFINE row == [promised[m] EXCEPT ![key] = @ + Amount]
  <2>3. /\ row \in [Keys -> Nat] /\ row[key] = promised[m][key] + Amount
        /\ \A k \in Keys : k # key => row[k] = promised[m][k]
    BY <1>2, <2>2
  <2>4. promised' = [promised EXCEPT ![m] = row]
    BY <1>3
  <2> HIDE DEF row
  <2>5. /\ promised' \in [Members -> [Keys -> Nat]] /\ promised'[m] = row
        /\ \A mm \in Members : mm # m => promised'[mm] = promised[mm]
    BY <1>2, <2>1, <2>3, <2>4
  <2>6. ASSUME NEW mm \in Members, NEW k \in Keys
        PROVE  promised[mm][k] \in Nat /\ promised'[mm][k] \in Nat /\ promised'[mm][k] >= promised[mm][k]
    <3>1. promised[mm][k] \in Nat /\ promised'[mm][k] \in Nat
      BY <2>1, <2>5
    <3>2. CASE mm = m /\ k = key
      BY <1>2, <2>3, <2>5, <3>1, <3>2
    <3>3. CASE ~(mm = m /\ k = key)
      BY <2>3, <2>5, <3>1, <3>3
    <3>4. QED
      BY <3>2, <3>3
  <2>7. QED
    BY <2>3, <2>5, <2>6
<1>12. /\ given' \in [Ids -> Nat] /\ given'[o.id] = given[o.id] + 1 /\ given[o.id] \in Nat
       /\ \A id \in Ids : id # o.id => given'[id] = given[id]
       /\ \A id \in Ids : given[id] > 0 => given'[id] > 0
  <2>1. given \in [Ids -> Nat]
    BY <1>1 DEF TopUpTypes
  <2>2. given[o.id] \in Nat
    BY <1>1, <2>1
  <2>3. /\ given' \in [Ids -> Nat] /\ given'[o.id] = given[o.id] + 1
        /\ \A id \in Ids : id # o.id => given'[id] = given[id]
    BY <1>1, <1>3, <2>1, <2>2
  <2>4. \A id \in Ids : given[id] > 0 => given'[id] > 0
    BY <2>2, <2>3
  <2>5. QED
    BY <2>2, <2>3, <2>4
<1>13. ASSUME NEW held \in Seq(GrantType), NEW mm \in Members, Backed(held, mm)
       PROVE  \A i \in DOMAIN held : held[i].credits <= promised'[mm][held[i].key]
  <2>1. SUFFICES ASSUME NEW i \in DOMAIN held PROVE held[i].credits <= promised'[mm][held[i].key]
    OBVIOUS
  <2>2. held[i].key \in Keys /\ held[i].credits \in Nat
    BY GrantHas
  <2>3. held[i].credits <= promised[mm][held[i].key]
    BY <1>13 DEF Backed
  <2>4. QED
    BY <1>11, <2>2, <2>3
<1>14. TopUpTypes'
  BY <1>1, <1>4, <1>6, <1>10, <1>11, <1>12 DEF TopUpTypes
<1>15. NeverMore'
  <2>1. ASSUME NEW k \in DOMAIN new PROVE new[k].credits <= promised'[m][new[k].key]
    <3>1. PICK i \in DOMAIN put : new[k] = put[i]
      BY <1>10
    <3>2. CASE put[i].key = key
      <4>1. o.base <= promised[m][key]
        BY <1>0, <1>1 DEF OpSound, StoresNoMore
      <4>2. promised[m][key] \in Nat
        BY <1>2, <1>11
      <4>3. credits <= promised'[m][key]
        BY <1>2, <1>11, <4>1, <4>2
      <4>4. QED
        BY <1>7, <3>1, <3>2, <4>3
    <3>3. CASE put[i].key # key
      <4>1. Backed(o.mine, m)
        BY <1>0, <1>1 DEF OpSound, StoresNoMore
      <4>2. i \in DOMAIN o.mine /\ put[i] = o.mine[i]
        BY <1>7, <3>3
      <4>3. o.mine[i].credits <= promised'[m][o.mine[i].key]
        BY <1>2, <1>13, <4>1, <4>2
      <4>4. QED
        BY <3>1, <4>2, <4>3
    <3>4. QED
      BY <3>2, <3>3
  <2>2. ASSUME NEW mm \in Members, mm # m
        PROVE  \A i \in DOMAIN grants'[mm] : grants'[mm][i].credits <= promised'[mm][grants'[mm][i].key]
    <3>1. grants[mm] \in Seq(GrantType) /\ Backed(grants[mm], mm)
      BY <1>1 DEF QueueSound, NeverMore, TopUpTypes
    <3>2. grants'[mm] = grants[mm]
      BY <1>10, <2>2
    <3>3. QED
      BY <1>13, <3>1, <3>2
  <2>3. ASSUME NEW mm \in Members
        PROVE  \A i \in DOMAIN legacy[mm] : legacy[mm][i].credits <= promised'[mm][legacy[mm][i].key]
    <3>1. legacy[mm] \in Seq(GrantType) /\ Backed(legacy[mm], mm)
      BY <1>1 DEF QueueSound, NeverMore, TopUpTypes
    <3>2. QED
      BY <1>13, <3>1
  <2>4. QED
    BY <1>4, <1>10, <2>1, <2>2, <2>3 DEF NeverMore, Backed
<1>16. (OldGrants /\ ApprovedAreGiven)'
  <2>1. OldGrants /\ ApprovedAreGiven /\ topUps \in Seq(EntryType)
    BY <1>1 DEF QueueSound, TopUpTypes
  <2>2. \A i \in DOMAIN topUps : topUps[i].id \in Ids
    BY <2>1, EntryHas
  <2>3. QED
    BY <1>4, <1>12, <2>1, <2>2 DEF OldGrants, ApprovedAreGiven
<1>17. (KeptWhole => NeverLess)'
  <2> SUFFICES ASSUME KeptWhole PROVE NeverLess'
    BY <1>4 DEF KeptWhole, Faulty
  <2>1. /\ NeverLess /\ OldGrants
        /\ o.base = ReadGrant(grants[m], m, key) /\ o.mine = grants[m]
    BY <1>0, <1>1 DEF QueueSound, OpSound, StoresNoLess
  <2>2. /\ OfItsOwn(o.mine) /\ OfItsOwn(put) /\ OfItsOwn(new)
        /\ \A i \in DOMAIN o.mine : promised[m][o.mine[i].key] > 0
    BY <1>2, <1>7, <1>10, <2>1 DEF NeverLess
  <2>3. \A i \in DOMAIN put : put[i].key \in GrantedWindows(m)'
    <3> SUFFICES ASSUME NEW i \in DOMAIN put PROVE put[i].key \in Keys /\ promised'[m][put[i].key] > 0
      BY DEF GrantedWindows
    <3>1. put[i].key \in Keys
      BY <1>7, GrantHas
    <3>2. CASE put[i].key = key
      <4>1. promised[m][key] \in Nat
        BY <1>2, <1>11
      <4>2. QED
        BY <1>2, <1>11, <3>2, <4>1
    <3>3. CASE put[i].key # key
      <4>1. promised[m][put[i].key] > 0
        BY <1>7, <2>2, <3>3
      <4>2. QED
        BY <1>11, <3>1, <3>3, <4>1
    <3>4. QED
      BY <3>1, <3>2, <3>3
  <2>4. ASSUME Few(m)' PROVE /\ new = put
                             /\ \A k \in Keys : ReadGrant(new, m, k) = promised'[m][k]
    <3>1. GrantedWindows(m)' \in SUBSET Keys
      BY DEF GrantedWindows
    <3>2. Len(put) <= Cardinality(GrantedWindows(m)') /\ Cardinality(GrantedWindows(m)') \in Nat
          /\ IsFiniteSet(GrantedWindows(m)')
      BY <1>7, <2>2, <2>3, <3>1, NoMoreThanWindows
    <3>3. Cardinality(GrantedWindows(m)') <= KeysPerOrg
      BY <2>4 DEF Few
    <3>4. Len(put) \in Nat /\ KeysPerOrg \in Nat
      BY <1>7, TopUpAssumption
    <3>5. new = put
      BY <1>10, <3>2, <3>3, <3>4
    <3>6. GrantedWindows(m) \in SUBSET (GrantedWindows(m)')
      BY <1>2, <1>11 DEF GrantedWindows
    <3>7. Cardinality(GrantedWindows(m)) <= Cardinality(GrantedWindows(m)') /\ Cardinality(GrantedWindows(m)) \in Nat
      BY <3>2, <3>6, FS_Subset, FS_CardinalityType
    <3>8. Few(m)
      BY <3>2, <3>3, <3>4, <3>7 DEF Few
    <3>9. \A k \in Keys : ReadGrant(o.mine, m, k) = promised[m][k]
      BY <1>2, <2>1, <3>8 DEF NeverLess
    <3>10. legacy[m] \in {<<>>, <<OldGrant>>}
      BY <1>2, <2>1 DEF OldGrants
    <3>11. /\ ReadGrant(put, m, key) = credits
           /\ \A k \in Keys : k # key => ReadGrant(put, m, k) = ReadGrant(o.mine, m, k)
      BY <1>2, <1>9, <2>2, <3>10, PutReads
    <3>12. credits = promised'[m][key]
      BY <1>2, <1>11, <2>1, <3>9
    <3>13. QED
      BY <1>11, <3>5, <3>9, <3>11, <3>12
  <2>5. \A k \in Keys : ReadGrant(grants[m], m, k)' = ReadGrant(new, m, k)
    BY <1>4, <1>10 DEF ReadGrant
  <2>6. (/\ OfItsOwn(grants[m])
         /\ \A i \in DOMAIN grants[m] : promised[m][grants[m][i].key] > 0
         /\ Few(m) => \A k \in Keys : ReadGrant(grants[m], m, k) = promised[m][k])'
    <3>1. OfItsOwn(grants[m])'
      BY <1>10, <2>2 DEF OfItsOwn
    <3>2. ASSUME NEW i \in DOMAIN new PROVE promised'[m][new[i].key] > 0
      BY <1>10, <2>3 DEF GrantedWindows
    <3>3. QED
      BY <1>10, <2>4, <2>5, <3>1, <3>2
  <2>7. ASSUME NEW mm \in Members, mm # m
        PROVE (/\ OfItsOwn(grants[mm])
               /\ \A i \in DOMAIN grants[mm] : promised[mm][grants[mm][i].key] > 0
               /\ Few(mm) => \A k \in Keys : ReadGrant(grants[mm], mm, k) = promised[mm][k])'
    <3>1. grants'[mm] = grants[mm] /\ promised'[mm] = promised[mm]
      BY <1>10, <1>11, <2>7
    <3>2. GrantedWindows(mm)' = GrantedWindows(mm)
      BY <3>1 DEF GrantedWindows
    <3>3. \A k \in Keys : ReadGrant(grants[mm], mm, k)' = ReadGrant(grants[mm], mm, k)
      BY <1>4, <3>1 DEF ReadGrant
    <3>4. OfItsOwn(grants[mm])'
      BY <2>1, <3>1 DEF NeverLess, OfItsOwn
    <3>5. QED
      BY <2>1, <3>1, <3>2, <3>3, <3>4 DEF NeverLess, Few
  <2>8. QED
    BY <2>6, <2>7 DEF NeverLess
<1>18. topUpScene.serial => \A q \in Callers : q # p => topUpOp[q].pc = "idle"
  BY <1>1 DEF QueueSound, QueueInTurn, TopUpsInTurn, AtStep
<1>19. (topUpScene.serial => QueueInTurn)'
  <2>1. topUpScene.serial => TopUpsInTurn'
    BY <1>6, <1>18 DEF TopUpsInTurn, AtStep
  <2>2. QED
    BY <1>1, <1>4, <2>1 DEF QueueSound, QueueInTurn, OnFile, Fits
<1>20. ASSUME topUpScene.serial
       PROVE  \E i \in DOMAIN o.list :
                 /\ o.list[i].id = o.id /\ o.list[i].status = "approved"
                 /\ \A j \in DOMAIN o.list : j # i => j \in DOMAIN topUps /\ o.list[j] = topUps[j] /\ topUps[j].id # o.id
                 /\ \A j \in DOMAIN topUps : \E k \in DOMAIN o.list : o.list[k].id = topUps[j].id
  <2>1. topUps \in Seq(EntryType) /\ (Files(o) \/ Answers(o)) /\ \A i, j \in DOMAIN topUps : topUps[i].id = topUps[j].id => i = j
    BY <1>1, <1>20 DEF TopUpTypes, OpSound, ActsInTurn, QueueSound, QueueInTurn
  <2>2. CASE Files(o)
    <3>1. PICK e \in EntryType : o.list = Append(topUps, e) /\ ~OnFile(e.id) /\ e.id = o.id /\ e.status = "approved"
      BY <1>1, <2>2 DEF Files
    <3>2. /\ \A i \in DOMAIN o.list : (i \in DOMAIN topUps /\ o.list[i] = topUps[i]) \/ (i = Len(topUps) + 1 /\ o.list[i] = e)
          /\ \A i \in DOMAIN topUps : i \in DOMAIN o.list /\ o.list[i] = topUps[i] /\ i # Len(topUps) + 1
          /\ Len(o.list) \in DOMAIN o.list /\ o.list[Len(o.list)] = e /\ Len(o.list) = Len(topUps) + 1
      BY <2>1, <3>1, AppendHas
    <3>3. QED
      BY <3>1, <3>2 DEF OnFile
  <2>3. CASE Answers(o)
    <3>1. PICK i \in DOMAIN topUps : o.list = [topUps EXCEPT ![i].status = "approved"] /\ topUps[i].id = o.id
      BY <1>1, <2>3 DEF Answers
    <3>2. /\ DOMAIN o.list = DOMAIN topUps
          /\ \A j \in DOMAIN topUps : j # i => o.list[j] = topUps[j]
          /\ \A j \in DOMAIN topUps : o.list[j].id = topUps[j].id
          /\ o.list[i].status = "approved"
      BY <2>1, <3>1, "approved" \in {"approved", "denied"}, AnswerHas DEF IsAnswered
    <3>3. QED
      BY <2>1, <3>1, <3>2
  <2>4. QED
    BY <2>1, <2>2, <2>3
<1>21. (NothingFails => GrantedOnce)'
  <2> SUFFICES ASSUME NothingFails PROVE GrantedOnce'
    BY <1>4 DEF NothingFails, Faulty
  <2>1. \A n \in 1..MaxTopUpCalls : n > begun => o.id # <<n>>
    <3>1. NotAhead(o.list)
      BY <1>1 DEF OpSound, ActsInTurn, NothingFails
    <3>2. QED
      BY <1>20, <3>1 DEF NotAhead, NothingFails
  <2>2. \A n \in 1..MaxTopUpCalls : <<n>> \in Ids
    BY DEF Ids
  <2>3. Recording(topUpOp[p])'
    BY <1>5, <1>6 DEF Recording
  <2>4. (\A n \in 1..MaxTopUpCalls : n > begun => given[<<n>>] = 0)'
    BY <1>1, <1>4, <1>12, <2>1, <2>2 DEF QueueSound, GrantedOnce
  <2>5. QED
    BY <2>3, <2>4 DEF GrantedOnce
<1>22. OpSound(topUpOp[p])'
  <2>1. (Filing(topUpOp[p]) \/ Granting(topUpOp[p]) => topUpOp[p].id \in Ids)'
    BY <1>5, <1>6 DEF Filing, Granting
  <2>2. StoresNoMore(topUpOp[p])' /\ StoresNoLess(topUpOp[p])'
    BY <1>5, <1>6 DEF StoresNoMore, StoresNoLess
  <2>3. FilesWhatIsGiven(topUpOp[p])'
    <3>1. o.list \in Seq(EntryType)
      BY <1>1 DEF TopUpOpType
    <3>2. \A i \in DOMAIN o.list : o.list[i].id \in Ids
      BY <3>1, EntryHas
    <3>3. \A i \in DOMAIN o.list : o.list[i].status = "approved" => given'[o.list[i].id] > 0
      BY <1>1, <1>12, <3>2 DEF OpSound, FilesWhatIsGiven
    <3>4. QED
      BY <1>5, <1>6, <3>3 DEF FilesWhatIsGiven
  <2>4. (topUpScene.serial => ActsInTurn(topUpOp[p]))'
    <3>1. Files(o) => Files(topUpOp[p])'
      BY <1>4, <1>5, <1>6 DEF Files, OnFile, Granting
    <3>2. Answers(o) => Answers(topUpOp[p])'
      BY <1>4, <1>5, <1>6 DEF Answers, Granting
    <3>3. NotAhead(o.list) => NotAhead(topUpOp[p].list)'
      BY <1>4, <1>5, <1>6 DEF NotAhead
    <3>4. QED
      BY <1>1, <1>4, <1>5, <1>6, <3>1, <3>2, <3>3 DEF OpSound, ActsInTurn, Filing, Granting, Recording
  <2>5. (NothingFails /\ Roomy => GrantsOnce(topUpOp[p]))'
    <3> SUFFICES ASSUME NothingFails, Roomy PROVE Once(o.list)'
      BY <1>4, <1>5, <1>6 DEF NothingFails, Roomy, Faulty, GrantsOnce, Filing, Granting, Once
    <3>1. Once(topUps)
      <4>1. \A q \in Callers : ~Recording(topUpOp[q])
        BY <1>1, NobodyElse DEF NothingFails, AtStep, Recording
      <4>2. QED
        BY <1>1, <4>1 DEF QueueSound, GrantedOnce
    <3>2. given[o.id] = 0
      BY <1>1 DEF OpSound, GrantsOnce
    <3>3. PICK i \in DOMAIN o.list :
                 /\ o.list[i].id = o.id /\ o.list[i].status = "approved"
                 /\ \A j \in DOMAIN o.list : j # i => j \in DOMAIN topUps /\ o.list[j] = topUps[j] /\ topUps[j].id # o.id
                 /\ \A j \in DOMAIN topUps : \E k \in DOMAIN o.list : o.list[k].id = topUps[j].id
      BY <1>20 DEF NothingFails
    <3>4. \A j \in DOMAIN topUps : topUps[j].id \in Ids
      BY <1>1, EntryHas DEF TopUpTypes
    <3>5. ASSUME NEW j \in DOMAIN o.list PROVE given'[o.list[j].id] = (IF o.list[j].status = "approved" THEN 1 ELSE 0)
      <4>1. CASE j = i
        BY <1>12, <3>2, <3>3, <4>1
      <4>2. CASE j # i
        BY <1>12, <3>1, <3>3, <3>4, <4>2 DEF Once
      <4>3. QED
        BY <4>1, <4>2
    <3>6. ASSUME topUpScene.clicks, NEW id \in Ids, given'[id] > 0 PROVE \E k \in DOMAIN o.list : o.list[k].id = id
      <4>1. CASE id = o.id
        BY <3>3, <4>1
      <4>2. CASE id # o.id
        <5>1. PICK j \in DOMAIN topUps : topUps[j].id = id
          BY <1>12, <3>1, <3>6, <4>2 DEF Once
        <5>2. QED
          BY <3>3, <5>1
      <4>3. QED
        BY <4>1, <4>2
    <3>7. ((\A j \in DOMAIN o.list : given[o.list[j].id] = (IF o.list[j].status = "approved" THEN 1 ELSE 0))
           /\ (topUpScene.clicks => \A id \in Ids : given[id] > 0 => \E k \in DOMAIN o.list : o.list[k].id = id))'
      BY <1>4, <1>5, <1>6, <3>5, <3>6
    <3>8. QED
      BY <3>7 DEF Once
  <2>6. QED
    BY <2>1, <2>2, <2>3, <2>4, <2>5 DEF OpSound
<1>23. ASSUME NEW q \in Callers, q # p PROVE OpSound(topUpOp[q])'
  <2>0. /\ topUpOp'[q] = topUpOp[q] /\ OpSound(topUpOp[q]) /\ (topUpScene.serial => topUpOp[q].pc = "idle")
        /\ topUpOp[q] \in TopUpOpType
    BY <1>1, <1>6, <1>18, <1>23 DEF TopUpInv, TopUpTypes
  <2>1. (Filing(topUpOp[q]) \/ Granting(topUpOp[q]) => topUpOp[q].id \in Ids)'
    BY <2>0 DEF OpSound, Filing, Granting
  <2>2. StoresNoMore(topUpOp[q])'
    <3>1. topUpOp[q].member \in Members /\ topUpOp[q].key \in Keys /\ topUpOp[q].base \in Nat /\ topUpOp[q].mine \in Seq(GrantType)
      BY <2>0 DEF TopUpOpType
    <3>2. topUpOp[q].pc \in {"merging", "giving"} => topUpOp[q].base <= promised'[topUpOp[q].member][topUpOp[q].key]
      BY <1>11, <2>0, <3>1 DEF OpSound, StoresNoMore
    <3>3. topUpOp[q].pc \in {"giving", "copying"} =>
             \A i \in DOMAIN topUpOp[q].mine :
                topUpOp[q].mine[i].credits <= promised'[topUpOp[q].member][topUpOp[q].mine[i].key]
      BY <1>13, <2>0, <3>1 DEF OpSound, StoresNoMore
    <3>4. QED
      BY <2>0, <3>2, <3>3 DEF StoresNoMore, Backed
  <2>3. (KeptWhole => StoresNoLess(topUpOp[q]))'
    BY <1>4, <2>0 DEF StoresNoLess, KeptWhole
  <2>4. FilesWhatIsGiven(topUpOp[q])'
    <3>1. topUpOp[q].list \in Seq(EntryType)
      BY <2>0 DEF TopUpOpType
    <3>2. \A i \in DOMAIN topUpOp[q].list : topUpOp[q].list[i].id \in Ids
      BY <3>1, EntryHas
    <3>3. QED
      BY <1>12, <2>0, <3>2 DEF OpSound, FilesWhatIsGiven, Granting
  <2>5. (topUpScene.serial => ActsInTurn(topUpOp[q]))'
    BY <1>4, <2>0 DEF ActsInTurn, Filing, Granting, Recording
  <2>6. (NothingFails => GrantsOnce(topUpOp[q]))'
    BY <1>4, <2>0 DEF NothingFails, GrantsOnce, Filing, Granting, Recording
  <2>7. QED
    BY <2>1, <2>2, <2>3, <2>4, <2>5, <2>6 DEF OpSound
<1>24. QED
  BY <1>14, <1>15, <1>16, <1>17, <1>19, <1>21, <1>22, <1>23 DEF TopUpInv, QueueSound

-----------------------------------------------------------------------------
(* The queue is written, and what the organization held is moved. *)

LEMMA StaysSound ==
    ASSUME NEW q \in Callers, OpSound(topUpOp[q]), topUpOp'[q] = topUpOp[q],
           UNCHANGED <<topUpScene, begun, promised, given>>, topUpScene.serial => topUpOp[q].pc = "idle"
    PROVE  OpSound(topUpOp[q])'
<1>1. (Filing(topUpOp[q]) \/ Granting(topUpOp[q]) => topUpOp[q].id \in Ids)'
  BY DEF OpSound, Filing, Granting
<1>2. StoresNoMore(topUpOp[q])'
  BY DEF OpSound, StoresNoMore, Backed
<1>3. (KeptWhole => StoresNoLess(topUpOp[q]))'
  BY DEF StoresNoLess, KeptWhole
<1>4. FilesWhatIsGiven(topUpOp[q])'
  BY DEF OpSound, FilesWhatIsGiven, Granting
<1>5. (topUpScene.serial => ActsInTurn(topUpOp[q]))'
  BY DEF ActsInTurn, Filing, Granting, Recording
<1>6. (NothingFails => GrantsOnce(topUpOp[q]))'
  BY DEF NothingFails, GrantsOnce, Filing, Granting, Recording
<1>7. QED
  BY <1>1, <1>2, <1>3, <1>4, <1>5, <1>6 DEF OpSound

LEMMA RestsSound ==
    ASSUME NEW q \in Callers, topUpOp'[q].pc = "idle", topUpOp'[q].list = <<>>
    PROVE  OpSound(topUpOp[q])'
<1>1. DOMAIN topUpOp'[q].list = {}
  OBVIOUS
<1>2. (Filing(topUpOp[q]) \/ Granting(topUpOp[q]) => topUpOp[q].id \in Ids)'
  BY DEF Filing, Granting
<1>3. StoresNoMore(topUpOp[q])' /\ StoresNoLess(topUpOp[q])'
  BY DEF StoresNoMore, StoresNoLess
<1>4. FilesWhatIsGiven(topUpOp[q])'
  BY <1>1 DEF FilesWhatIsGiven
<1>5. ActsInTurn(topUpOp[q])'
  BY DEF ActsInTurn, Filing, Granting, Recording
<1>6. GrantsOnce(topUpOp[q])'
  BY DEF GrantsOnce, Filing, Granting, Recording
<1>7. QED
  BY <1>2, <1>3, <1>4, <1>5, <1>6 DEF OpSound

\* The organization's record may be dropped once the member has a copy.
LEMMA ReadsTheSame ==
    ASSUME NEW own \in Seq(GrantType), NEW m \in Members, NEW key \in Keys, legacy[m] \in {<<>>, <<OldGrant>>},
           grants'[m] = own,
           legacy'[m] = legacy[m] \/ (legacy'[m] = <<>> /\ (legacy[m] # <<>> => Holds(own, Cycle)))
    PROVE  ReadGrant(grants[m], m, key)' = ReadGrant(own, m, key)
<1>1. CASE legacy'[m] = legacy[m]
  BY <1>1 DEF ReadGrant
<1>2. CASE legacy'[m] = <<>> /\ (legacy[m] # <<>> => Holds(own, Cycle))
  <2>1. ~Holds(legacy'[m], key)
    BY <1>2 DEF Holds
  <2>2. CASE Holds(own, key)
    <3>1. ReadGrant(own, m, key) = CreditsOf(own, key)
      BY <2>2, ReadGrantIs
    <3>2. ReadGrant(grants[m], m, key)' = CreditsOf(own, key)
      BY <2>2, Zenon DEF ReadGrant
    <3>3. QED
      BY <3>1, <3>2
  <2>3. CASE ~Holds(own, key)
    <3>1. legacy[m] = <<>> \/ key # Cycle
      BY <1>2, <2>3
    <3>2. ReadGrant(own, m, key) = 0
      BY <2>3, <3>1, ReadGrantIs
    <3>3. ReadGrant(grants[m], m, key)' = 0
      BY <2>1, <2>3, Zenon DEF ReadGrant
    <3>4. QED
      BY <3>2, <3>3
  <2>4. QED
    BY <2>2, <2>3
<1>3. QED
  BY <1>1, <1>2

\* With a copy of the organization's record, a member reads what it read before.
ReadsAsBefore(t, own, m) ==
    /\ t \in Seq(GrantType) /\ (legacy[m] # <<>> => Holds(t, Cycle)) /\ (Holds(own, Cycle) => Holds(t, Cycle))
    /\ \A i \in DOMAIN t : (\E j \in DOMAIN own : t[i] = own[j]) \/ (legacy[m] = <<OldGrant>> /\ t[i] = OldGrant)
    /\ OfItsOwn(own) => OfItsOwn(t) /\ \A k \in Keys : ReadGrant(t, m, k) = ReadGrant(own, m, k)

LEMMA MigratedReads ==
    ASSUME NEW own \in Seq(GrantType), NEW m \in Members, legacy[m] \in {<<>>, <<OldGrant>>},
           NEW t, t = Migrated(own, legacy[m])
    PROVE  ReadsAsBefore(t, own, m)
<1>1. /\ t \in Seq(GrantType)
      /\ legacy[m] = <<>> \/ Holds(own, Cycle) => t = own
      /\ legacy[m] # <<>> /\ ~Holds(own, Cycle) => t = Append(own, OldGrant)
  <2>1. IsMigrated(t, own, legacy[m])
    BY MigratedIs
  <2>2. QED
    BY <2>1 DEF IsMigrated
<1>2. CASE legacy[m] = <<>> \/ Holds(own, Cycle)
  <2>1. t = own
    BY <1>1, <1>2
  <2>2. QED
    BY <1>1, <1>2, <2>1 DEF ReadsAsBefore
<1>3. CASE legacy[m] # <<>> /\ ~Holds(own, Cycle)
  <2>1. t = Put(own, Cycle, Amount)
    BY <1>1, <1>3 DEF Put, OldGrant
  <2>2. Cycle \in Keys /\ Amount \in Nat
    BY KeysHave, TopUpAssumption
  <2>3. /\ Holds(t, Cycle) /\ (OfItsOwn(own) => OfItsOwn(t))
    BY <2>1, <2>2, PutHas, ZenonT(60)
  <2>4. \A i \in DOMAIN t : (\E j \in DOMAIN own : t[i] = own[j]) \/ t[i] = OldGrant
    BY <1>1, <1>3
  <2>5. ASSUME OfItsOwn(own), NEW k \in Keys PROVE ReadGrant(t, m, k) = ReadGrant(own, m, k)
    <3>1. /\ ReadGrant(t, m, Cycle) = Amount
          /\ k # Cycle => ReadGrant(t, m, k) = ReadGrant(own, m, k)
      BY <2>1, <2>2, <2>5, PutReads
    <3>2. ReadGrant(own, m, Cycle) = Amount
      BY <1>3, <2>2, ReadGrantIs
    <3>3. QED
      BY <3>1, <3>2
  <2>6. QED
    BY <1>1, <1>3, <2>3, <2>4, <2>5 DEF ReadsAsBefore
<1>4. QED
  BY <1>2, <1>3

\* What each member holds, where nothing but the copies of the organization's record
\* is added, and that record is dropped only where it is copied.
LEMMA MovedSound ==
    ASSUME QueueSound, UNCHANGED <<topUpScene, promised>>,
           grants' \in [Members -> Seq(GrantType)], legacy' \in [Members -> Seq(GrantType)],
           \A m \in Members :
              /\ legacy'[m] = legacy[m]
                   \/ (legacy'[m] = <<>> /\ (KeptWhole /\ legacy[m] # <<>> => Holds(grants'[m], Cycle)))
              /\ \/ grants'[m] = grants[m]
                 \/ \E own \in Seq(GrantType) :
                       /\ grants'[m] = Migrated(own, legacy[m]) /\ Backed(own, m) /\ (KeptWhole => own = grants[m])
    PROVE  (NeverMore /\ OldGrants /\ (KeptWhole => NeverLess))'
<1>1. \A m \in Members : legacy[m] \in {<<>>, <<OldGrant>>} /\ legacy'[m] \in {<<>>, <<OldGrant>>}
  BY DEF QueueSound, OldGrants
<1>2. OldGrants'
  BY <1>1 DEF OldGrants
<1>3. \A m \in Members : /\ grants[m] \in Seq(GrantType) /\ Backed(grants[m], m) /\ Backed(legacy[m], m)
  BY DEF QueueSound, TopUpTypes, NeverMore
<1>4. ASSUME NEW m \in Members, legacy[m] = <<OldGrant>>
      PROVE  OldGrant.credits <= promised[m][OldGrant.key] /\ promised[m][OldGrant.key] > 0
  <2>1. 1 \in DOMAIN legacy[m] /\ legacy[m][1] = OldGrant
    BY <1>4
  <2>2. OldGrant.credits <= promised[m][OldGrant.key]
    BY <1>3, <2>1 DEF Backed
  <2>3. OldGrant.credits = Amount /\ Amount \in Nat /\ Amount > 0 /\ OldGrant.key = Cycle
    BY TopUpAssumption DEF OldGrant
  <2>4. promised[m][Cycle] \in Nat
    BY KeysHave DEF QueueSound, TopUpTypes
  <2>5. QED
    BY <2>2, <2>3, <2>4
<1>5. NeverMore'
  <2>1. ASSUME NEW m \in Members
        PROVE  /\ \A i \in DOMAIN grants'[m] : grants'[m][i].credits <= promised[m][grants'[m][i].key]
               /\ \A i \in DOMAIN legacy'[m] : legacy'[m][i].credits <= promised[m][legacy'[m][i].key]
    <3>1. \A i \in DOMAIN legacy'[m] : legacy'[m][i].credits <= promised[m][legacy'[m][i].key]
      BY <1>3, <2>1 DEF Backed
    <3>2. CASE grants'[m] = grants[m]
      BY <1>3, <3>1, <3>2 DEF Backed
    <3>3. CASE \E own \in Seq(GrantType) : grants'[m] = Migrated(own, legacy[m]) /\ Backed(own, m)
      <4>1. PICK own \in Seq(GrantType) : grants'[m] = Migrated(own, legacy[m]) /\ Backed(own, m)
        BY <3>3
      <4>2. \A i \in DOMAIN grants'[m] : (\E j \in DOMAIN own : grants'[m][i] = own[j])
                                         \/ (legacy[m] = <<OldGrant>> /\ grants'[m][i] = OldGrant)
        <5>1. legacy[m] \in {<<>>, <<OldGrant>>}
          BY <1>1
        <5>2. QED
          <6>1. ReadsAsBefore(grants'[m], own, m)
            BY <4>1, <5>1, MigratedReads
          <6>2. QED
            BY <6>1 DEF ReadsAsBefore
      <4>3. QED
        BY <1>4, <3>1, <4>1, <4>2 DEF Backed
    <3>4. QED
      BY <3>2, <3>3
  <2>2. QED
    BY <2>1 DEF NeverMore, Backed
<1>6. ASSUME KeptWhole PROVE NeverLess'
  <2>1. NeverLess
    BY <1>6 DEF QueueSound
  <2>2. ASSUME NEW m \in Members
        PROVE  (/\ OfItsOwn(grants[m])
                /\ \A i \in DOMAIN grants[m] : promised[m][grants[m][i].key] > 0
                /\ Few(m) => \A key \in Keys : ReadGrant(grants[m], m, key) = promised[m][key])'
    <3>1. /\ OfItsOwn(grants[m]) /\ (\A i \in DOMAIN grants[m] : promised[m][grants[m][i].key] > 0)
          /\ Few(m) => \A key \in Keys : ReadGrant(grants[m], m, key) = promised[m][key]
      BY <2>1 DEF NeverLess
    <3>2. /\ OfItsOwn(grants'[m]) /\ (\A i \in DOMAIN grants'[m] : promised[m][grants'[m][i].key] > 0)
          /\ \A key \in Keys : ReadGrant(grants'[m], m, key) = ReadGrant(grants[m], m, key)
      <4>1. CASE grants'[m] = grants[m]
        BY <3>1, <4>1
      <4>2. CASE grants'[m] = Migrated(grants[m], legacy[m])
        <5>1. /\ OfItsOwn(grants'[m])
              /\ \A key \in Keys : ReadGrant(grants'[m], m, key) = ReadGrant(grants[m], m, key)
              /\ \A i \in DOMAIN grants'[m] : (\E j \in DOMAIN grants[m] : grants'[m][i] = grants[m][j])
                                              \/ (legacy[m] = <<OldGrant>> /\ grants'[m][i] = OldGrant)
          <6>1. legacy[m] \in {<<>>, <<OldGrant>>} /\ grants[m] \in Seq(GrantType) /\ OfItsOwn(grants[m])
            BY <1>1, <1>3, <3>1
          <6>2. QED
            <7>1. ReadsAsBefore(grants'[m], grants[m], m)
              BY <4>2, <6>1, MigratedReads
            <7>2. QED
              BY <6>1, <7>1 DEF ReadsAsBefore
        <5>2. QED
          BY <1>4, <3>1, <5>1
      <4>3. QED
        BY <1>6, <4>1, <4>2
    <3>3. \A key \in Keys : ReadGrant(grants[m], m, key)' = ReadGrant(grants'[m], m, key)
      BY <1>1, <1>6, ReadsTheSame
    <3>4. Few(m)' = Few(m)
      BY DEF Few, GrantedWindows
    <3>5. OfItsOwn(grants[m])'
      BY <3>2 DEF OfItsOwn
    <3>6. QED
      BY <3>1, <3>2, <3>3, <3>4, <3>5
  <2>3. QED
    BY <2>2 DEF NeverLess
<1>7. KeptWhole' => KeptWhole
  BY DEF KeptWhole, Faulty
<1>8. QED
  BY <1>2, <1>5, <1>6, <1>7

LEMMA MigrateWriteKeeps ==
    ASSUME TopUpInv, NEW p \in Callers, MigrateWrite(p), topUpScene' = topUpScene
    PROVE  TopUpInv'
<1> DEFINE o == topUpOp[p]
<1>1. QueueSound /\ TopUpTypes /\ OpSound(o) /\ o \in TopUpOpType /\ o.pc = "copying"
  BY DEF TopUpInv, QueueSound, TopUpTypes, MigrateWrite, AtStep
<1>2. PICK m \in Members : m = o.member
  BY <1>1 DEF TopUpOpType
<1> DEFINE left == o.todo \ {m}
<1> DEFINE next == [o EXCEPT !.pc = "migrating", !.todo = left]
<1>3. /\ Continues(p, next)
      /\ grants' = IF Migrated(o.mine, legacy[m]) = o.mine THEN grants
                   ELSE [grants EXCEPT ![m] = Migrated(o.mine, legacy[m])]
      /\ UNCHANGED <<topUps, legacy, turn, begun, promised, given>>
  BY <1>2 DEF MigrateWrite
<1>4. left \in SUBSET Members /\ left = o.todo \ {m}
  BY <1>1 DEF TopUpOpType
<1> HIDE DEF left
<1>5. /\ next \in TopUpOpType /\ next.pc = "migrating" /\ next.list = o.list /\ next.todo = left /\ next.drop = o.drop
  BY <1>1, <1>4 DEF TopUpOpType
<1> HIDE DEF next
<1>6. /\ topUpOp' \in [Callers -> TopUpOpType] /\ topUpOp'[p] = next
      /\ \A q \in Callers : q # p => topUpOp'[q] = topUpOp[q]
  BY <1>1, <1>3, <1>5, Continued
<1>7. legacy[m] \in {<<>>, <<OldGrant>>} /\ grants \in [Members -> Seq(GrantType)] /\ o.mine \in Seq(GrantType)
  BY <1>1 DEF QueueSound, OldGrants, TopUpTypes, TopUpOpType
<1> DEFINE t == Migrated(o.mine, legacy[m])
<1>8. t \in Seq(GrantType) /\ (legacy[m] # <<>> => Holds(t, Cycle)) /\ (Holds(o.mine, Cycle) => Holds(t, Cycle))
  BY <1>7, MigratedReads DEF ReadsAsBefore
<1>9. t = Migrated(o.mine, legacy[m])
  OBVIOUS
<1>10. (t = o.mine /\ grants' = grants) \/ grants' = [grants EXCEPT ![m] = t]
  BY <1>3
<1> HIDE DEF t
<1>12. /\ grants' \in [Members -> Seq(GrantType)]
       /\ \A mm \in Members : mm # m => grants'[mm] = grants[mm]
       /\ grants'[m] = grants[m] \/ grants'[m] = t
  BY <1>7, <1>8, <1>10
<1>13. Backed(o.mine, m) /\ (KeptWhole => o.mine = grants[m])
  BY <1>1, <1>2 DEF OpSound, StoresNoMore, StoresNoLess
<1>14. (NeverMore /\ OldGrants /\ (KeptWhole => NeverLess))'
  <2>1. legacy' \in [Members -> Seq(GrantType)]
    BY <1>1, <1>3 DEF TopUpTypes
  <2>2. \A mm \in Members :
           \/ grants'[mm] = grants[mm]
           \/ \E own \in Seq(GrantType) :
                 /\ grants'[mm] = Migrated(own, legacy[mm]) /\ Backed(own, mm) /\ (KeptWhole => own = grants[mm])
    <3> SUFFICES ASSUME NEW mm \in Members, grants'[mm] # grants[mm]
                 PROVE \E own \in Seq(GrantType) :
                 /\ grants'[mm] = Migrated(own, legacy[mm]) /\ Backed(own, mm) /\ (KeptWhole => own = grants[mm])
      OBVIOUS
    <3>1. mm = m /\ grants'[m] = Migrated(o.mine, legacy[m])
      BY <1>9, <1>12
    <3>2. QED
      BY <1>7, <1>13, <3>1
  <2>3. \A mm \in Members : legacy'[mm] = legacy[mm]
    BY <1>3
  <2>4. UNCHANGED <<topUpScene, promised>>
    BY <1>3
  <2>5. QED
    BY <1>1, <1>12, <2>1, <2>2, <2>3, <2>4, MovedSound
<1>15. KeptWhole => grants'[m] = t
  BY <1>7, <1>10, <1>13
<1>16. (KeptWhole => StoresNoLess(topUpOp[p]))'
  <2> SUFFICES ASSUME KeptWhole
               PROVE  next.drop => \A mm \in Members \ left : legacy[mm] # <<>> => Holds(grants'[mm], Cycle)
    BY <1>3, <1>5, <1>6 DEF KeptWhole, Faulty, StoresNoLess
  <2> SUFFICES ASSUME next.drop, NEW mm \in Members \ left, legacy[mm] # <<>> PROVE Holds(grants'[mm], Cycle)
    OBVIOUS
  <2>1. CASE mm = m
    BY <1>8, <1>15, <2>1
  <2>2. CASE mm # m
    <3>1. mm \in Members \ o.todo
      BY <1>4, <2>2
    <3>2. Holds(grants[mm], Cycle)
      BY <1>1, <1>5, <3>1 DEF OpSound, StoresNoLess
    <3>3. QED
      BY <1>12, <2>2, <3>2
  <2>3. QED
    BY <2>1, <2>2
<1>17. OpSound(topUpOp[p])'
  <2>1. (Filing(topUpOp[p]) \/ Granting(topUpOp[p]) => topUpOp[p].id \in Ids)'
    BY <1>5, <1>6 DEF Filing, Granting
  <2>2. StoresNoMore(topUpOp[p])'
    BY <1>5, <1>6 DEF StoresNoMore
  <2>3. FilesWhatIsGiven(topUpOp[p])'
    BY <1>1, <1>3, <1>5, <1>6 DEF OpSound, FilesWhatIsGiven, Granting
  <2>4. (topUpScene.serial => ActsInTurn(topUpOp[p]))'
    <3>1. Files(o) => Files(topUpOp[p])'
      BY <1>3, <1>5, <1>6 DEF Files, OnFile, Granting
    <3>2. Answers(o) => Answers(topUpOp[p])'
      BY <1>3, <1>5, <1>6 DEF Answers, Granting
    <3>3. NotAhead(o.list) => NotAhead(topUpOp[p].list)'
      BY <1>3, <1>5, <1>6 DEF NotAhead
    <3>4. QED
      BY <1>1, <1>3, <1>5, <1>6, <3>1, <3>2, <3>3 DEF OpSound, ActsInTurn, Filing, Granting, Recording
  <2>5. (NothingFails /\ Roomy => GrantsOnce(topUpOp[p]))'
    BY <1>1, <1>3, <1>5, <1>6 DEF OpSound, NothingFails, Roomy, Faulty, GrantsOnce, Once, Filing, Granting, Recording
  <2>6. QED
    BY <1>16, <2>1, <2>2, <2>3, <2>4, <2>5 DEF OpSound
<1>18. \A q \in Callers : OpSound(topUpOp[q])'
  <2> SUFFICES ASSUME NEW q \in Callers, q # p PROVE OpSound(topUpOp[q])'
    BY <1>17
  <2>1. topUpScene.serial => topUpOp[q].pc = "idle"
    BY <1>1 DEF QueueSound, QueueInTurn, TopUpsInTurn, AtStep
  <2>2. OpSound(topUpOp[q]) /\ topUpOp'[q] = topUpOp[q] /\ UNCHANGED <<topUpScene, begun, promised, given>>
    BY <1>3, <1>6 DEF TopUpInv
  <2>3. QED
    BY <2>1, <2>2, StaysSound
<1>19. TopUpTypes' /\ ApprovedAreGiven'
  BY <1>1, <1>3, <1>6, <1>12 DEF QueueSound, TopUpTypes, ApprovedAreGiven
<1>20. (topUpScene.serial => QueueInTurn)'
  <2>1. topUpScene.serial => TopUpsInTurn'
    BY <1>1, <1>6 DEF QueueSound, QueueInTurn, TopUpsInTurn, AtStep
  <2>2. QED
    BY <1>1, <1>3, <2>1 DEF QueueSound, QueueInTurn, OnFile, Fits
<1>21. (NothingFails => GrantedOnce)'
  <2>1. Recording(topUpOp[p])'
    BY <1>5, <1>6 DEF Recording
  <2>2. QED
    BY <1>1, <1>3, <2>1 DEF QueueSound, NothingFails, Faulty, GrantedOnce
<1>22. QED
  BY <1>14, <1>18, <1>19, <1>20, <1>21 DEF TopUpInv, QueueSound

\* A list with room for every record to be a grant fits.
LEMMA RoomForAll ==
    ASSUME NEW list \in Seq(EntryType), Len(list) * GrantSize <= ValueLimit
    PROVE  Fits(list)
<1> DEFINE of(who) == {i \in DOMAIN list : list[i].by = who}
<1>1. Len(list) \in Nat /\ DOMAIN list = 1..Len(list) /\ IsFiniteSet(DOMAIN list)
  BY FS_Interval, 1 \in Int
<1>2. Cardinality(DOMAIN list) = Len(list)
  <2>1. Cardinality(1..Len(list)) = Len(list)
    BY <1>1, CountUpTo
  <2>2. QED
    BY <1>1, <2>1
<1>3. /\ of("admin") \in SUBSET (DOMAIN list) /\ of("member") \in SUBSET (DOMAIN list)
      /\ of("admin") \cap of("member") = {}
  OBVIOUS
<1>4. /\ IsFiniteSet(of("admin")) /\ IsFiniteSet(of("member"))
      /\ Cardinality(of("admin")) \in Nat /\ Cardinality(of("member")) \in Nat
  BY <1>1, <1>3, FS_Subset, FS_CardinalityType
<1>5. Cardinality(of("admin") \cup of("member")) = Cardinality(of("admin")) + Cardinality(of("member"))
  <2>1. Cardinality(of("admin") \cap of("member")) = 0
    BY <1>3, FS_EmptySet
  <2>2. Cardinality(of("admin") \cup of("member"))
           = Cardinality(of("admin")) + Cardinality(of("member")) - Cardinality(of("admin") \cap of("member"))
    BY <1>4, FS_Union
  <2>3. QED
    BY <1>4, <2>1, <2>2
<1>6. Cardinality(of("admin") \cup of("member")) <= Len(list)
  BY <1>1, <1>2, <1>3, FS_Subset
<1> DEFINE a == Cardinality(of("admin"))
<1> DEFINE b == Cardinality(of("member"))
<1>7. a \in Nat /\ b \in Nat /\ a + b <= Len(list)
  BY <1>4, <1>5, <1>6
<1>8. Fits(list) <=> GrantSize * a + RequestSize * b <= ValueLimit
  BY DEF Fits
<1> HIDE DEF a, b
<1>9. GrantSize * a + RequestSize * b <= Len(list) * GrantSize
  <2>1. GrantSize \in Nat /\ RequestSize \in Nat /\ GrantSize >= RequestSize
    BY TopUpAssumption
  <2>2. PICK spare \in Nat : Len(list) = a + b + spare
    <3>1. Len(list) - (a + b) \in Nat
      BY <1>1, <1>7
    <3>2. Len(list) = a + b + (Len(list) - (a + b))
      BY <1>1, <1>7
    <3>3. QED
      BY <3>1, <3>2, Zenon
  <2>3. PICK more \in Nat : GrantSize = RequestSize + more
    <3>1. GrantSize - RequestSize \in Nat
      BY <2>1
    <3>2. QED
      BY <2>1, <3>1
  <2>4. Len(list) * GrantSize = GrantSize * a + GrantSize * b + GrantSize * spare
    BY <1>7, <2>1, <2>2
  <2>5. GrantSize * b = RequestSize * b + more * b
    BY <1>7, <2>1, <2>3
  <2>6. /\ GrantSize * a \in Nat /\ RequestSize * b \in Nat /\ more * b \in Nat /\ GrantSize * spare \in Nat
    BY <1>7, <2>1, <2>2, <2>3
  <2>7. QED
    BY <2>4, <2>5, <2>6
<1>10. QED
  <2>1. GrantSize * a \in Nat /\ RequestSize * b \in Nat /\ Len(list) * GrantSize \in Nat /\ ValueLimit \in Nat
    BY <1>1, <1>7, TopUpAssumption
  <2>2. QED
    BY <1>8, <1>9, <2>1

LEMMA LessTimesSize ==
    ASSUME NEW n \in Nat, NEW k \in Nat, NEW size \in Nat, NEW limit \in Nat, n <= k, k * size <= limit
    PROVE  n * size <= limit
<1>1. PICK spare \in Nat : k = n + spare
  <2>1. k - n \in Nat /\ k = n + (k - n)
    OBVIOUS
  <2>2. QED
    BY <2>1, Zenon
<1>2. k * size = n * size + spare * size /\ n * size \in Nat /\ spare * size \in Nat
  BY <1>1
<1>3. QED
  BY <1>2

\* What is about to be written, one operation at a time.
LEMMA ListHas ==
    ASSUME QueueSound, topUpScene.serial, NEW o, OpSound(o), Recording(o)
    PROVE  /\ Len(o.list) <= begun
           /\ \A i, j \in DOMAIN o.list : o.list[i].id = o.list[j].id => i = j
           /\ NotAhead(o.list)
<1>1. /\ topUps \in Seq(EntryType) /\ begun \in Nat /\ Len(topUps) < begun /\ Len(topUps) \in Nat
      /\ \A i, j \in DOMAIN topUps : topUps[i].id = topUps[j].id => i = j
      /\ Files(o) \/ Answers(o)
      /\ NotAhead(o.list)
  BY DEF QueueSound, QueueInTurn, TopUpTypes, TopUpSceneType, OpSound, ActsInTurn, Recording
<1>2. CASE Files(o)
  <2>1. PICK e \in EntryType : o.list = Append(topUps, e) /\ ~OnFile(e.id)
    BY <1>2 DEF Files
  <2>2. /\ \A i \in DOMAIN o.list : (i \in DOMAIN topUps /\ o.list[i] = topUps[i]) \/ (i = Len(topUps) + 1 /\ o.list[i] = e)
        /\ Len(o.list) = Len(topUps) + 1
    BY <1>1, <2>1, AppendHas
  <2>3. QED
    BY <1>1, <2>1, <2>2 DEF OnFile
<1>3. CASE Answers(o)
  <2>1. PICK i \in DOMAIN topUps, answer \in {"approved", "denied"} : o.list = [topUps EXCEPT ![i].status = answer]
    BY <1>3 DEF Answers
  <2>2. DOMAIN o.list = DOMAIN topUps /\ Len(o.list) = Len(topUps) /\ \A j \in DOMAIN topUps : o.list[j].id = topUps[j].id
    BY <1>1, <2>1, AnswerHas DEF IsAnswered
  <2>3. QED
    BY <1>1, <2>2
<1>4. QED
  BY <1>1, <1>2, <1>3

LEMMA Recorded ==
    ASSUME TopUpInv, NEW p \in Callers, Recording(topUpOp[p]), topUps' = TrimRequestsToBudget(topUpOp[p].list),
           Continues(p, IdleTopUp), UNCHANGED <<topUpScene, grants, turn, begun, promised, given>>,
           legacy' = legacy \/ (legacy' = NoLegacy /\ (KeptWhole => \A m \in Members : legacy[m] # <<>> => Holds(grants[m], Cycle)))
    PROVE  TopUpInv'
<1> DEFINE o == topUpOp[p]
<1> DEFINE list == o.list
<1>1. QueueSound /\ TopUpTypes /\ OpSound(o) /\ o \in TopUpOpType /\ o.pc # "idle" /\ ~Granting(o)
  BY DEF TopUpInv, QueueSound, TopUpTypes, Recording, Granting
<1>2. list \in Seq(EntryType)
  BY <1>1 DEF TopUpOpType
<1>3. /\ topUps' \in Seq(EntryType) /\ Len(topUps') <= Len(list) /\ Fits(topUps')
      /\ Fits(list) => topUps' = list
      /\ \A k \in DOMAIN topUps' : \E i \in DOMAIN list : topUps'[k] = list[i]
      /\ (\A i, j \in DOMAIN list : list[i].id = list[j].id => i = j) =>
            \A k, l \in DOMAIN topUps' : topUps'[k].id = topUps'[l].id => k = l
  BY <1>2, TrimHas
<1>4. /\ topUpOp' \in [Callers -> TopUpOpType] /\ topUpOp'[p] = IdleTopUp
      /\ \A q \in Callers : q # p => topUpOp'[q] = topUpOp[q]
  BY <1>1, IdleSound, Continued
<1>5. IdleTopUp.pc = "idle" /\ IdleTopUp.list = <<>>
  BY DEF IdleTopUp
<1>6. topUpScene.serial => \A q \in Callers : q # p => topUpOp[q].pc = "idle"
  BY <1>1 DEF QueueSound, QueueInTurn, TopUpsInTurn, AtStep
<1>7. \A q \in Callers : OpSound(topUpOp[q])'
  <2> SUFFICES ASSUME NEW q \in Callers PROVE OpSound(topUpOp[q])'
    OBVIOUS
  <2>1. CASE q = p
    BY <1>4, <1>5, <2>1, RestsSound
  <2>2. CASE q # p
    <3>1. OpSound(topUpOp[q]) /\ topUpOp'[q] = topUpOp[q] /\ (topUpScene.serial => topUpOp[q].pc = "idle")
      BY <1>4, <1>6, <2>2 DEF TopUpInv
    <3>2. QED
      BY <3>1, StaysSound
  <2>3. QED
    BY <2>1, <2>2
<1>8. legacy' \in [Members -> Seq(GrantType)]
  <2>1. NoLegacy \in [Members -> Seq(GrantType)]
    BY DEF NoLegacy
  <2>2. QED
    BY <1>1, <2>1 DEF TopUpTypes
<1>9. TopUpTypes'
  BY <1>1, <1>3, <1>4, <1>8 DEF TopUpTypes
<1>10. (NeverMore /\ OldGrants /\ (KeptWhole => NeverLess))'
  <2>1. \A m \in Members : NoLegacy[m] = <<>>
    BY DEF NoLegacy
  <2>2. \A m \in Members :
           /\ legacy'[m] = legacy[m]
                \/ (legacy'[m] = <<>> /\ (KeptWhole /\ legacy[m] # <<>> => Holds(grants'[m], Cycle)))
           /\ grants'[m] = grants[m]
    BY <2>1
  <2>3. grants' \in [Members -> Seq(GrantType)] /\ UNCHANGED <<topUpScene, promised>>
    BY <1>1 DEF TopUpTypes
  <2>4. QED
    BY <1>1, <1>8, <2>2, <2>3, MovedSound, Zenon
<1>11. ApprovedAreGiven'
  <2>1. \A i \in DOMAIN list : list[i].status = "approved" => given[list[i].id] > 0
    BY <1>1 DEF OpSound, FilesWhatIsGiven
  <2>2. QED
    BY <1>3, <2>1 DEF ApprovedAreGiven
<1>12. (topUpScene.serial => QueueInTurn)'
  <2> SUFFICES ASSUME topUpScene.serial PROVE QueueInTurn'
    OBVIOUS
  <2>1. TopUpsInTurn'
    BY <1>4, <1>5, <1>6 DEF TopUpsInTurn, AtStep
  <2>2. /\ Len(list) <= begun /\ NotAhead(list)
        /\ \A i, j \in DOMAIN list : list[i].id = list[j].id => i = j
    BY <1>1, ListHas
  <2>3. Len(topUps') <= begun'
    <3>1. Len(topUps') \in Nat /\ Len(list) \in Nat /\ begun \in Nat
      BY <1>1, <1>2, <1>3 DEF TopUpTypes, TopUpSceneType
    <3>2. QED
      BY <1>3, <2>2, <3>1
  <2>4. (\A n \in 1..MaxTopUpCalls : n > begun => ~OnFile(<<n>>))'
    <3> SUFFICES ASSUME NEW n \in 1..MaxTopUpCalls, n > begun', NEW i \in DOMAIN topUps' PROVE topUps'[i].id # <<n>>
      BY DEF OnFile
    <3>1. QED
      BY <1>3, <2>2 DEF NotAhead
  <2>5. Fits(topUps)'
    BY <1>3 DEF Fits
  <2>6. (\A i, j \in DOMAIN topUps : topUps[i].id = topUps[j].id => i = j)'
    BY <1>3, <2>2
  <2>7. QED
    BY <2>1, <2>3, <2>4, <2>5, <2>6 DEF QueueInTurn
<1>13. (NothingFails => GrantedOnce)'
  <2> SUFFICES ASSUME NothingFails, Roomy => Once(topUps)' PROVE GrantedOnce'
    <3>1. NothingFails' = NothingFails
      BY DEF NothingFails, Faulty
    <3>2. ASSUME NothingFails PROVE Roomy => Once(topUps)'
      <4> SUFFICES ASSUME Roomy PROVE Once(topUps)'
        OBVIOUS
      <4>1. Once(list)
        BY <1>1, <3>2 DEF OpSound, GrantsOnce
      <4>2. \A k \in DOMAIN topUps' : given[topUps'[k].id] = (IF topUps'[k].status = "approved" THEN 1 ELSE 0)
        BY <1>3, <4>1 DEF Once
      <4>3. ASSUME topUpScene.clicks PROVE topUps' = list
        <5>1. begun * GrantSize <= ValueLimit
          BY <4>3 DEF Roomy
        <5>2. Len(list) <= begun /\ Len(list) \in Nat /\ begun \in Nat
          BY <1>1, <1>2, <3>2, ListHas DEF NothingFails, TopUpTypes, TopUpSceneType
        <5>3. GrantSize \in Nat /\ ValueLimit \in Nat
          BY TopUpAssumption
        <5>4. Len(list) * GrantSize <= ValueLimit
          BY <5>1, <5>2, <5>3, LessTimesSize
        <5>5. QED
          BY <1>2, <1>3, <5>4, RoomForAll
      <4>4. topUpScene.clicks => \A id \in Ids : given[id] > 0 => \E i \in DOMAIN topUps' : topUps'[i].id = id
        BY <4>1, <4>3 DEF Once
      <4>5. ((\A i \in DOMAIN topUps : given[topUps[i].id] = (IF topUps[i].status = "approved" THEN 1 ELSE 0))
             /\ (topUpScene.clicks => \A id \in Ids : given[id] > 0 => \E i \in DOMAIN topUps : topUps[i].id = id))'
        BY <4>2, <4>4
      <4>6. QED
        BY <4>5 DEF Once
    <3>3. QED
      BY <3>1, <3>2
  <2>1. Roomy' = Roomy
    BY DEF Roomy
  <2>2. QED
    BY <1>1, <2>1 DEF QueueSound, GrantedOnce
<1>14. QED
  BY <1>7, <1>9, <1>10, <1>11, <1>12, <1>13 DEF TopUpInv, QueueSound

LEMMA RecordApprovalKeeps ==
    ASSUME TopUpInv, NEW p \in Callers, RecordApproval(p), topUpScene' = topUpScene
    PROVE  TopUpInv'
<1>1. Recording(topUpOp[p])
  BY DEF RecordApproval, AtStep, Recording
<1>2. /\ topUps' = TrimRequestsToBudget(topUpOp[p].list) /\ Continues(p, IdleTopUp)
      /\ UNCHANGED <<topUpScene, grants, turn, begun, promised, given>> /\ legacy' = legacy
  BY DEF RecordApproval
<1>3. QED
  BY <1>1, <1>2, Recorded

LEMMA RecordMigratedKeeps ==
    ASSUME TopUpInv, NEW p \in Callers, RecordMigrated(p), topUpScene' = topUpScene
    PROVE  TopUpInv'
<1>1. Recording(topUpOp[p]) /\ topUpOp[p].pc = "migrating" /\ topUpOp[p].todo = {}
  BY DEF RecordMigrated, AtStep, Recording
<1>2. /\ topUps' = TrimRequestsToBudget(topUpOp[p].list) /\ Continues(p, IdleTopUp)
      /\ UNCHANGED <<topUpScene, grants, turn, begun, promised, given>>
      /\ legacy' = IF topUpOp[p].drop THEN NoLegacy ELSE legacy
  BY DEF RecordMigrated
<1>3. KeptWhole /\ topUpOp[p].drop => \A m \in Members : legacy[m] # <<>> => Holds(grants[m], Cycle)
  BY <1>1 DEF TopUpInv, OpSound, StoresNoLess
<1>4. QED
  BY <1>1, <1>2, <1>3, Recorded

\* Nothing the operations go by is touched.
LEMMA TopUpsStay ==
    ASSUME TopUpInv, UNCHANGED queue \/ UNCHANGED <<topUpScene, topUps, grants, legacy, begun, promised, given>>,
           turn' \in [Windows -> 0..MaxTurns], topUpOp' = topUpOp
    PROVE  TopUpInv'
<1>0. UNCHANGED <<topUpScene, topUps, grants, legacy, begun, promised, given>>
  BY DEF queue
<1>1. ASSUME NEW q \in Callers PROVE OpSound(topUpOp[q])'
  <2> DEFINE o == topUpOp[q]
  <2>1. OpSound(o) /\ topUpOp'[q] = o
    BY DEF TopUpInv
  <2>2. (Filing(topUpOp[q]) \/ Granting(topUpOp[q]) => topUpOp[q].id \in Ids)'
    BY <2>1 DEF OpSound, Filing, Granting
  <2>3. StoresNoMore(topUpOp[q])'
    BY <1>0, <2>1 DEF OpSound, StoresNoMore, Backed
  <2>4. (KeptWhole => StoresNoLess(topUpOp[q]))'
    BY <1>0, <2>1 DEF OpSound, StoresNoLess, KeptWhole, Faulty, ReadGrant
  <2>5. FilesWhatIsGiven(topUpOp[q])'
    BY <1>0, <2>1 DEF OpSound, FilesWhatIsGiven, Granting
  <2>6. (topUpScene.serial => ActsInTurn(topUpOp[q]))'
    <3>1. Files(o) => Files(topUpOp[q])'
      BY <1>0, <2>1 DEF Files, OnFile, Granting
    <3>2. Answers(o) => Answers(topUpOp[q])'
      BY <1>0, <2>1 DEF Answers, Granting
    <3>3. QED
      BY <1>0, <2>1, <3>1, <3>2 DEF OpSound, ActsInTurn, Filing, Granting, Recording, OnFile, NotAhead
  <2>7. (NothingFails /\ Roomy => GrantsOnce(topUpOp[q]))'
    BY <1>0, <2>1 DEF OpSound, GrantsOnce, NothingFails, Roomy, Faulty, Once, Filing, Granting, Recording
  <2>8. QED
    BY <2>2, <2>3, <2>4, <2>5, <2>6, <2>7 DEF OpSound
<1>2. TopUpTypes'
  BY <1>0 DEF TopUpInv, QueueSound, TopUpTypes
<1>3. NeverMore' /\ OldGrants' /\ ApprovedAreGiven'
  BY <1>0 DEF TopUpInv, QueueSound, NeverMore, Backed, OldGrants, ApprovedAreGiven
<1>4. (KeptWhole => NeverLess)'
  BY <1>0 DEF TopUpInv, QueueSound, KeptWhole, Faulty, NeverLess, Few, GrantedWindows, ReadGrant
<1>5. (topUpScene.serial => QueueInTurn)'
  BY <1>0 DEF TopUpInv, QueueSound, QueueInTurn, TopUpsInTurn, AtStep, OnFile, Fits
<1>6. (NothingFails => GrantedOnce)'
  BY <1>0 DEF TopUpInv, QueueSound, NothingFails, Faulty, GrantedOnce, Roomy, Once, Recording
<1>7. QED
  BY <1>1, <1>2, <1>3, <1>4, <1>5, <1>6 DEF TopUpInv, QueueSound

LEMMA NewWindowKeeps ==
    ASSUME TopUpInv, NEW w \in Windows, NewWindow(w), topUpScene' = topUpScene
    PROVE  TopUpInv'
<1>1. turn \in [Windows -> 0..MaxTurns] /\ MaxTurns \in Nat /\ turn[w] < MaxTurns
  BY TopUpAssumption DEF TopUpInv, QueueSound, TopUpTypes, NewWindow
<1>2. turn' = [turn EXCEPT ![w] = @ + 1]
  BY DEF NewWindow
<1>3. turn[w] + 1 \in 0..MaxTurns
  BY <1>1
<1>4. turn' \in [Windows -> 0..MaxTurns]
  BY <1>1, <1>2, <1>3
<1>5. UNCHANGED <<topUpScene, topUps, grants, legacy, begun, promised, given>> /\ topUpOp' = topUpOp
  BY DEF NewWindow
<1>6. QED
  BY <1>4, <1>5, TopUpsStay

\* A plan ask is written, and what the organization held is moved first.
LEMMA MoveLegacyKeeps ==
    ASSUME TopUpInv, MigrateLegacyKeys, topUpScene.serial => \A q \in Callers : AtStep(q, "idle")
    PROVE  TopUpInv'
<1>1. QueueSound /\ TopUpTypes
  BY DEF TopUpInv, QueueSound
<1>2. /\ grants' = [m \in Members |-> Migrated(grants[m], legacy[m])] /\ legacy' = NoLegacy
      /\ UNCHANGED <<topUpScene, topUps, turn, topUpOp, begun, promised, given>>
  BY DEF MigrateLegacyKeys
<1>3. ASSUME NEW m \in Members
      PROVE  /\ grants'[m] = Migrated(grants[m], legacy[m]) /\ grants'[m] \in Seq(GrantType) /\ grants[m] \in Seq(GrantType)
             /\ legacy'[m] = <<>> /\ (legacy[m] # <<>> => Holds(grants'[m], Cycle)) /\ Backed(grants[m], m)
  <2>1. grants'[m] = Migrated(grants[m], legacy[m]) /\ legacy'[m] = <<>>
    BY <1>2 DEF NoLegacy
  <2>2. legacy[m] \in {<<>>, <<OldGrant>>} /\ grants[m] \in Seq(GrantType) /\ Backed(grants[m], m)
    BY <1>1 DEF QueueSound, TopUpTypes, OldGrants, NeverMore
  <2>3. grants'[m] \in Seq(GrantType) /\ (legacy[m] # <<>> => Holds(grants'[m], Cycle))
    BY <2>1, <2>2, MigratedReads DEF ReadsAsBefore
  <2>4. QED
    BY <2>1, <2>2, <2>3
<1>4. grants' \in [Members -> Seq(GrantType)] /\ legacy' \in [Members -> Seq(GrantType)]
  <2>1. \A m \in Members : Migrated(grants[m], legacy[m]) \in Seq(GrantType)
    BY <1>3
  <2>2. QED
    BY <1>2, <2>1 DEF NoLegacy
<1>5. (NeverMore /\ OldGrants /\ (KeptWhole => NeverLess))'
  <2>1. \A m \in Members :
           /\ legacy'[m] = <<>> /\ (KeptWhole /\ legacy[m] # <<>> => Holds(grants'[m], Cycle))
           /\ \E own \in Seq(GrantType) :
                 /\ grants'[m] = Migrated(own, legacy[m]) /\ Backed(own, m) /\ (KeptWhole => own = grants[m])
    BY <1>3
  <2>2. UNCHANGED <<topUpScene, promised>>
    BY <1>2
  <2>3. QED
    BY <1>1, <1>4, <2>1, <2>2, MovedSound, Zenon
<1>6. \A q \in Callers : OpSound(topUpOp[q])'
  <2> SUFFICES ASSUME NEW q \in Callers PROVE OpSound(topUpOp[q])'
    OBVIOUS
  <2>1. OpSound(topUpOp[q]) /\ topUpOp'[q] = topUpOp[q] /\ (topUpScene.serial => topUpOp[q].pc = "idle")
    BY <1>2 DEF TopUpInv, AtStep
  <2>2. UNCHANGED <<topUpScene, begun, promised, given>>
    BY <1>2
  <2>3. QED
    BY <2>1, <2>2, StaysSound
<1>7. TopUpTypes' /\ ApprovedAreGiven'
  BY <1>1, <1>2, <1>4 DEF QueueSound, TopUpTypes, ApprovedAreGiven
<1>8. (topUpScene.serial => QueueInTurn)'
  BY <1>1, <1>2 DEF QueueSound, QueueInTurn, TopUpsInTurn, AtStep, OnFile, Fits
<1>9. (NothingFails => GrantedOnce)'
  BY <1>1, <1>2 DEF QueueSound, NothingFails, Faulty, GrantedOnce, Roomy, Once, Recording
<1>10. QED
  BY <1>5, <1>6, <1>7, <1>8, <1>9 DEF TopUpInv, QueueSound

LEMMA TopUpsBegin == TopUpInit => TopUpInv
<1> SUFFICES ASSUME TopUpInit PROVE TopUpInv
  OBVIOUS
<1>1. /\ topUpScene \in TopUpSceneType /\ topUps = <<>> /\ grants = NoLegacy
      /\ legacy = [m \in Members |-> IF m \in topUpScene.legacy
                                     THEN <<[key |-> <<"cycle", 0>>, credits |-> Amount]>> ELSE <<>>]
      /\ turn = [w \in Windows |-> 0] /\ topUpOp = [p \in Callers |-> IdleTopUp] /\ begun = 0
      /\ promised = [m \in Members |-> [key \in Keys |->
                       IF m \in topUpScene.legacy /\ key = <<"cycle", 0>> THEN Amount ELSE 0]]
      /\ given = [id \in Ids |-> 0]
  BY TopUpSceneAssumption DEF TopUpInit
<1>2. Cycle \in Keys /\ Amount \in Nat /\ Amount > 0 /\ MaxTurns \in Nat /\ MaxTopUpCalls \in Nat
      /\ OldGrant \in GrantType
  BY KeysHave, TopUpAssumption DEF OldGrant, GrantType
<1>3. \A m \in Members : /\ grants[m] = <<>> /\ (m \in topUpScene.legacy => legacy[m] = <<OldGrant>>)
                         /\ (m \notin topUpScene.legacy => legacy[m] = <<>>)
  BY <1>1 DEF NoLegacy, OldGrant, Cycle
<1>4. \A m \in Members, key \in Keys :
         promised[m][key] = (IF m \in topUpScene.legacy /\ key = Cycle THEN Amount ELSE 0)
  BY <1>1 DEF Cycle
<1>5. TopUpTypes
  <2>1. <<>> \in Seq(GrantType) /\ <<OldGrant>> \in Seq(GrantType)
    BY <1>2
  <2>2. grants \in [Members -> Seq(GrantType)] /\ legacy \in [Members -> Seq(GrantType)]
    BY <1>1, <2>1 DEF NoLegacy, OldGrant, Cycle
  <2>3. promised \in [Members -> [Keys -> Nat]]
    <3>1. \A m \in Members : [key \in Keys |-> IF m \in topUpScene.legacy /\ key = <<"cycle", 0>> THEN Amount ELSE 0] \in [Keys -> Nat]
      BY <1>2
    <3>2. QED
      BY <1>1, <3>1
  <2>4. IdleTopUp \in TopUpOpType
    BY IdleSound
  <2>5. topUps \in Seq(EntryType) /\ turn \in [Windows -> 0..MaxTurns] /\ given \in [Ids -> Nat]
        /\ topUpOp \in [Callers -> TopUpOpType]
    BY <1>1, <1>2, <2>4
  <2>6. begun \in 0..topUpScene.calls
    BY <1>1, <1>2 DEF TopUpSceneType
  <2>7. QED
    BY <1>1, <2>2, <2>3, <2>5, <2>6 DEF TopUpTypes
<1>6. NeverMore /\ OldGrants
  <2>1. OldGrants
    BY <1>3 DEF OldGrants
  <2>2. ASSUME NEW m \in Members PROVE Backed(grants[m], m) /\ Backed(legacy[m], m)
    <3>1. Backed(<<>>, m)
      BY DEF Backed
    <3>2. m \in topUpScene.legacy => Backed(<<OldGrant>>, m)
      <4>1. m \in topUpScene.legacy => promised[m][Cycle] = Amount
        BY <1>2, <1>4
      <4>2. OldGrant.credits = Amount /\ OldGrant.key = Cycle
        BY DEF OldGrant
      <4>3. DOMAIN <<OldGrant>> = {1} /\ <<OldGrant>>[1] = OldGrant
        OBVIOUS
      <4>4. QED
        BY <1>2, <4>1, <4>2, <4>3 DEF Backed
    <3>3. QED
      BY <1>3, <3>1, <3>2
  <2>3. QED
    BY <2>1, <2>2 DEF NeverMore
<1>7. NeverLess
  <2> SUFFICES ASSUME NEW m \in Members
               PROVE  /\ OfItsOwn(grants[m])
                      /\ \A i \in DOMAIN grants[m] : promised[m][grants[m][i].key] > 0
                      /\ \A key \in Keys : ReadGrant(grants[m], m, key) = promised[m][key]
    BY DEF NeverLess
  <2>0. grants[m] = <<>>
    BY <1>3, Zenon
  <2>1. grants[m] = <<>> /\ DOMAIN grants[m] = {} /\ grants[m] \in Seq(GrantType)
    BY <2>0
  <2>2. \A key : ~Holds(grants[m], key)
    BY <2>1 DEF Holds
  <2>3. \/ m \in topUpScene.legacy /\ legacy[m] = <<OldGrant>>
        \/ m \notin topUpScene.legacy /\ legacy[m] = <<>>
    BY <1>3, Zenon
  <2>6. <<OldGrant>> # <<>>
    OBVIOUS
  <2>4. ASSUME NEW key \in Keys PROVE ReadGrant(grants[m], m, key) = promised[m][key]
    <3>1. legacy[m] \in {<<>>, <<OldGrant>>} /\ (m \in topUpScene.legacy <=> legacy[m] # <<>>)
      BY <2>3, <2>6
    <3>2. promised[m][key] = (IF m \in topUpScene.legacy /\ key = Cycle THEN Amount ELSE 0)
      BY <1>4, Zenon
    <3>3. QED
      BY <2>1, <2>2, <3>1, <3>2, ReadGrantIs
  <2>5. QED
    BY <2>1, <2>4 DEF OfItsOwn
<1>8. DOMAIN topUps = {} /\ Len(topUps) = 0 /\ topUps = <<>>
  BY <1>1
<1>9. ApprovedAreGiven /\ QueueInTurn
  <2>1. Fits(topUps)
    BY <1>8, NoneFits
  <2>2. TopUpsInTurn
    BY <1>1 DEF TopUpsInTurn, AtStep, IdleTopUp
  <2>3. QED
    BY <1>1, <1>8, <2>1, <2>2 DEF ApprovedAreGiven, QueueInTurn, OnFile
<1>10. GrantedOnce
  <2>1. \A id \in Ids : given[id] = 0
    BY <1>1
  <2>2. \A n \in 1..MaxTopUpCalls : <<n>> \in Ids
    BY DEF Ids
  <2>3. QED
    BY <1>8, <2>1, <2>2 DEF GrantedOnce, Once
<1>11. \A p \in Callers : OpSound(topUpOp[p])
  BY <1>1, <1>5, IdleSound
<1>12. QED
  BY <1>5, <1>6, <1>7, <1>9, <1>10, <1>11 DEF TopUpInv, QueueSound

LEMMA TopUpsGoOn == TopUpInv /\ TopUpNext => TopUpInv'
<1> SUFFICES ASSUME TopUpInv, TopUpNext PROVE TopUpInv'
  OBVIOUS
<1>1. topUpScene' = topUpScene
  BY DEF TopUpNext
<1>2. ASSUME NEW m \in Members, RequestExtraAllowance(m) \/ RequestOutright(m)
      PROVE  \E w \in Windows, pc \in {"granted", "filing"} :
                Starts(m, [IdleTopUp EXCEPT !.pc = pc, !.id = Fresh, !.member = m, !.key = KeyOf(w)])
  <2>1. CASE RequestExtraAllowance(m)
    BY <2>1 DEF RequestExtraAllowance
  <2>2. CASE RequestOutright(m)
    BY <2>2 DEF RequestOutright
  <2>3. QED
    BY <1>2, <2>1, <2>2
<1>3. ASSUME NEW m \in Members, RequestExtraAllowance(m) \/ RequestOutright(m) PROVE TopUpInv'
  BY <1>1, <1>2, <1>3, RequestKeeps
<1>4. ASSUME NEW p \in Administrators, ApproveTopUp(p) \/ DenyTopUp(p) \/ GrantTopUp(p) PROVE TopUpInv'
  <2>1. p \in Callers
    BY DEF Callers
  <2>2. QED
    BY <1>1, <1>4, <2>1, ApproveKeeps, DenyKeeps, GrantKeeps
<1>5. ASSUME NEW p \in Callers, Steps(p) PROVE TopUpInv'
  <2>1. CASE CountGranted(p) \/ CountQueued(p) \/ RequestTopUp(p) \/ ReadBase(p) \/ ReadMine(p) \/ AddGrant(p)
    BY <1>1, <2>1, CountGrantedKeeps, CountQueuedKeeps, RequestTopUpKeeps, ReadBaseKeeps, ReadMineKeeps, AddGrantKeeps
  <2>2. CASE RecordApproval(p) \/ StartMigration(p) \/ MigrateRead(p) \/ MigrateWrite(p) \/ MigrateFails(p)
               \/ RecordMigrated(p) \/ TopUpFails(p)
    BY <1>1, <2>2, RecordApprovalKeeps, StartMigrationKeeps, MigrateReadKeeps, MigrateWriteKeeps, MigrateFailsKeeps,
       RecordMigratedKeeps, TopUpFailsKeeps
  <2>3. QED
    BY <1>5, <2>1, <2>2 DEF Steps
<1>6. ASSUME NEW w \in Windows, NewWindow(w) PROVE TopUpInv'
  BY <1>1, <1>6, NewWindowKeeps
<1>7. QED
  BY <1>3, <1>4, <1>5, <1>6 DEF TopUpNext

LEMMA GrantsAreWhole == TopUpInv => GrantsAreKept
<1> SUFFICES ASSUME TopUpInv, NEW m \in Members, NEW key \in Keys
             PROVE  /\ ReadGrant(grants[m], m, key) <= promised[m][key]
                    /\ (/\ topUpScene.serial /\ ~Faulty("memberRead")
                        /\ Cardinality({k \in Keys : promised[m][k] > 0}) <= KeysPerOrg)
                       => ReadGrant(grants[m], m, key) = promised[m][key]
  BY DEF GrantsAreKept
<1>1. QueueSound /\ grants[m] \in Seq(GrantType) /\ Backed(grants[m], m)
  BY DEF TopUpInv, QueueSound, TopUpTypes, NeverMore
<1>2. ReadGrant(grants[m], m, key) <= promised[m][key]
  BY <1>1, ReadNoMore
<1>3. (/\ topUpScene.serial /\ ~Faulty("memberRead")
       /\ Cardinality({k \in Keys : promised[m][k] > 0}) <= KeysPerOrg)
      => ReadGrant(grants[m], m, key) = promised[m][key]
  BY <1>1 DEF QueueSound, KeptWhole, NeverLess, Few, GrantedWindows
<1>4. QED
  BY <1>2, <1>3

LEMMA ApprovedOnce == TopUpInv => AnsweredOnce
<1> SUFFICES ASSUME TopUpInv, NEW i \in DOMAIN topUps
             PROVE  /\ topUps[i].status = "approved" => given[topUps[i].id] > 0
                    /\ (/\ topUpScene.serial /\ ~Faulty("fails") /\ \A p \in Callers : AtStep(p, "idle")
                        /\ topUpScene.clicks => begun * GrantSize <= ValueLimit)
                       => given[topUps[i].id] = (IF topUps[i].status = "approved" THEN 1 ELSE 0)
  BY DEF AnsweredOnce
<1>1. topUps[i].status = "approved" => given[topUps[i].id] > 0
  BY DEF TopUpInv, QueueSound, ApprovedAreGiven
<1>2. ASSUME topUpScene.serial, ~Faulty("fails"), \A p \in Callers : AtStep(p, "idle"),
             topUpScene.clicks => begun * GrantSize <= ValueLimit
      PROVE  given[topUps[i].id] = (IF topUps[i].status = "approved" THEN 1 ELSE 0)
  <2>1. NothingFails /\ Roomy /\ \A p \in Callers : ~Recording(topUpOp[p])
    BY <1>2 DEF NothingFails, Roomy, AtStep, Recording
  <2>2. Once(topUps)
    BY <2>1 DEF TopUpInv, QueueSound, GrantedOnce
  <2>3. QED
    BY <2>2 DEF Once
<1>3. QED
  BY <1>1, <1>2

\* Only the write at the end of an operation changes the queue.
LEMMA OnlyWritesChange ==
    ASSUME TopUpNext
    PROVE  \/ topUps' = topUps
           \/ \E p \in Callers : Recording(topUpOp[p]) /\ topUps' = TrimRequestsToBudget(topUpOp[p].list)
<1>1. ASSUME NEW m \in Members, RequestExtraAllowance(m) \/ RequestOutright(m) PROVE topUps' = topUps
  BY <1>1 DEF RequestExtraAllowance, RequestOutright, Starts
<1>2. ASSUME NEW p \in Administrators, ApproveTopUp(p) \/ DenyTopUp(p) \/ GrantTopUp(p) PROVE topUps' = topUps
  BY <1>2 DEF ApproveTopUp, DenyTopUp, GrantTopUp, Starts
<1>3. ASSUME NEW w \in Windows, NewWindow(w) PROVE topUps' = topUps
  BY <1>3 DEF NewWindow
<1>4. ASSUME NEW p \in Callers, Steps(p)
      PROVE topUps' = topUps \/ (Recording(topUpOp[p]) /\ topUps' = TrimRequestsToBudget(topUpOp[p].list))
  <2>1. CASE RecordApproval(p) \/ RecordMigrated(p)
    BY <2>1 DEF RecordApproval, RecordMigrated, AtStep, Recording
  <2>2. CASE CountGranted(p) \/ CountQueued(p) \/ RequestTopUp(p) \/ ReadBase(p) \/ ReadMine(p) \/ AddGrant(p)
               \/ StartMigration(p) \/ MigrateRead(p) \/ MigrateWrite(p) \/ MigrateFails(p) \/ TopUpFails(p)
    BY <2>2 DEF CountGranted, CountQueued, RequestTopUp, ReadBase, ReadMine, AddGrant, StartMigration, MigrateRead,
       MigrateWrite, MigrateFails, TopUpFails
  <2>3. QED
    BY <1>4, <2>1, <2>2 DEF Steps
<1>5. QED
  BY <1>1, <1>2, <1>3, <1>4 DEF TopUpNext

LEMMA SameSendersFit ==
    ASSUME NEW list, DOMAIN list = DOMAIN topUps, \A i \in DOMAIN topUps : list[i].by = topUps[i].by, Fits(topUps)
    PROVE  Fits(list)
<1>1. \A who : {i \in DOMAIN list : list[i].by = who} = {i \in DOMAIN topUps : topUps[i].by = who}
  OBVIOUS
<1>2. QED
  BY <1>1, Zenon DEF Fits

LEMMA WaitingStay ==
    ASSUME TopUpInv, TopUpNext, topUpScene.serial, NEW i \in DOMAIN topUps, topUps[i].status = "pending",
           \A k \in DOMAIN topUps' : topUps'[k].id # topUps[i].id
    PROVE  \A k \in DOMAIN topUps' : topUps'[k].status = "pending"
<1>1. PICK p \in Callers : Recording(topUpOp[p]) /\ topUps' = TrimRequestsToBudget(topUpOp[p].list)
  BY OnlyWritesChange
<1> DEFINE o == topUpOp[p]
<1>2. QueueSound /\ OpSound(o) /\ o \in TopUpOpType /\ topUps \in Seq(EntryType)
  BY DEF TopUpInv, QueueSound, TopUpTypes
<1>3. o.list \in Seq(EntryType) /\ (Files(o) \/ Answers(o)) /\ Fits(topUps)
  BY <1>1, <1>2 DEF TopUpOpType, OpSound, ActsInTurn, QueueSound, QueueInTurn
<1>4. /\ Fits(o.list) => topUps' = o.list
      /\ \A j \in DOMAIN o.list : o.list[j].status = "pending" /\ (\A k \in DOMAIN topUps' : topUps'[k] # o.list[j]) =>
            \A k \in DOMAIN topUps' : topUps'[k].status = "pending"
  <2>1. IsTrimmed(topUps', o.list)
    BY <1>1, <1>3, TrimIs
  <2>2. QED
    BY <1>3, <2>1 DEF IsTrimmed
<1>5. CASE Files(o)
  <2>1. i \in DOMAIN o.list /\ o.list[i] = topUps[i]
    <3>1. PICK e \in EntryType : o.list = Append(topUps, e)
      BY <1>5 DEF Files
    <3>2. QED
      BY <1>2, <3>1, AppendHas
  <2>2. \A k \in DOMAIN topUps' : topUps'[k] # o.list[i]
    BY <2>1
  <2>3. QED
    BY <1>4, <2>1, <2>2
<1>6. CASE Answers(o)
  <2>1. PICK j \in DOMAIN topUps, answer \in {"approved", "denied"} : o.list = [topUps EXCEPT ![j].status = answer]
    BY <1>6 DEF Answers
  <2>2. DOMAIN o.list = DOMAIN topUps /\ \A k \in DOMAIN topUps : o.list[k].id = topUps[k].id /\ o.list[k].by = topUps[k].by
    BY <1>2, <2>1, AnswerHas DEF IsAnswered
  <2>3. Fits(o.list)
    BY <1>3, <2>2, SameSendersFit
  <2>4. QED
    BY <1>4, <2>2, <2>3
<1>7. QED
  BY <1>3, <1>5, <1>6

-----------------------------------------------------------------------------
(* What packing the plan asks keeps. *)

\* The same ask for all that the properties tell apart.
Like(r, s) ==
    /\ r.id = s.id /\ r.status = s.status /\ r.accepted = s.accepted
    /\ \A q \in s.quote : \E u \in r.quote : u.total = q.total

LEMMA CompactIsLike ==
    ASSUME NEW r \in AskType
    PROVE  CompactContact(r) \in AskType /\ Like(CompactContact(r), r)
  BY DEF CompactContact, AskType, Like

LEMMA StripIsLike ==
    ASSUME NEW r \in AskType
    PROVE  Strip(r) \in AskType /\ Like(Strip(r), r)
<1> DEFINE bare(q) == [q EXCEPT !.note = FALSE]
<1> DEFINE bares == {bare(q) : q \in r.quote}
<1>1. \A q \in QuoteType : bare(q) \in QuoteType /\ bare(q).total = q.total
  BY DEF QuoteType
<1>2. r.quote \in SUBSET QuoteType
  BY DEF AskType
<1>3. bares \in SUBSET QuoteType /\ \A q \in r.quote : \E u \in bares : u.total = q.total
  BY <1>1, <1>2
<1>4. Strip(r) = [r EXCEPT !.note = FALSE, !.quote = bares]
  BY DEF Strip
<1> HIDE DEF bares
<1> DEFINE s == [r EXCEPT !.note = FALSE, !.quote = bares]
<1>5. s \in AskType /\ s.id = r.id /\ s.status = r.status /\ s.accepted = r.accepted /\ s.quote = bares
  BY <1>3 DEF AskType
<1>6. QED
  BY <1>3, <1>4, <1>5 DEF Like

\* t has what the places of s up to some of them have, every open ask among them.
Shortens(t, s) ==
    /\ t \in Seq(AskType)
    /\ \A k \in DOMAIN t : k \in DOMAIN s /\ Like(t[k], s[k])
    /\ \A k \in DOMAIN s : IsOpen(s[k]) => k \in DOMAIN t

LEMMA EachShortens ==
    ASSUME NEW s \in Seq(AskType), NEW t, t = EachOf(s, CompactContact) \/ t = EachOf(s, StripSettled) \/ t = EachOf(s, Strip)
    PROVE  Shortens(t, s) /\ Len(t) = Len(s) /\ DOMAIN t = DOMAIN s
<1>1. ASSUME NEW i \in DOMAIN s
      PROVE  /\ CompactContact(s[i]) \in AskType /\ Like(CompactContact(s[i]), s[i])
             /\ Strip(s[i]) \in AskType /\ Like(Strip(s[i]), s[i])
             /\ StripSettled(s[i]) \in AskType /\ Like(StripSettled(s[i]), s[i])
  <2>1. s[i] \in AskType
    OBVIOUS
  <2>2. Like(s[i], s[i])
    BY DEF Like
  <2>3. QED
    BY <2>1, <2>2, CompactIsLike, StripIsLike DEF StripSettled
<1>2. /\ DOMAIN t = DOMAIN s
      /\ \A i \in DOMAIN s : t[i] \in {CompactContact(s[i]), StripSettled(s[i]), Strip(s[i])}
      /\ t = [i \in DOMAIN s |-> t[i]]
  <2>1. CASE t = EachOf(s, CompactContact)
    <3>1. t = [i \in DOMAIN s |-> CompactContact(s[i])]
      BY <2>1 DEF EachOf
    <3>2. QED
      BY <3>1
  <2>2. CASE t = EachOf(s, StripSettled)
    <3>1. t = [i \in DOMAIN s |-> StripSettled(s[i])]
      BY <2>2 DEF EachOf
    <3>2. QED
      BY <3>1
  <2>3. CASE t = EachOf(s, Strip)
    <3>1. t = [i \in DOMAIN s |-> Strip(s[i])]
      BY <2>3 DEF EachOf
    <3>2. QED
      BY <3>1
  <2>4. QED
    BY <2>1, <2>2, <2>3
<1>3. \A i \in DOMAIN s : t[i] \in AskType /\ Like(t[i], s[i])
  BY <1>1, <1>2
<1>4. Len(s) \in Nat /\ DOMAIN s = 1..Len(s)
  OBVIOUS
<1>5. t \in [1..Len(s) -> AskType]
  BY <1>2, <1>3, <1>4
<1>6. t \in Seq(AskType) /\ Len(t) = Len(s)
  BY <1>4, <1>5
<1>7. QED
  BY <1>2, <1>3, <1>6 DEF Shortens

LEMMA ShortensAgain ==
    ASSUME NEW s, NEW t, NEW u, Shortens(t, s), Shortens(u, t)
    PROVE  Shortens(u, s)
<1>1. \A k \in DOMAIN s : IsOpen(s[k]) => k \in DOMAIN t /\ IsOpen(t[k])
  BY DEF Shortens, Like, IsOpen
<1>2. \A k \in DOMAIN u : k \in DOMAIN t /\ k \in DOMAIN s /\ Like(u[k], t[k]) /\ Like(t[k], s[k])
  BY DEF Shortens
<1>3. \A k \in DOMAIN u : Like(u[k], s[k])
  <2> SUFFICES ASSUME NEW k \in DOMAIN u PROVE Like(u[k], s[k])
    OBVIOUS
  <2>1. Like(u[k], t[k]) /\ Like(t[k], s[k])
    BY <1>2
  <2>2. QED
    BY <2>1 DEF Like
<1>4. QED
  BY <1>1, <1>2, <1>3 DEF Shortens

LEMMA CutShortens ==
    ASSUME NEW s \in Seq(AskType), NEW n \in Nat, n <= Len(s), \A k \in DOMAIN s : IsOpen(s[k]) => k <= Len(s) - n,
           NEW t, t = SubSeq(s, 1, Len(s) - n)
    PROVE  Shortens(t, s)
<1>1. Len(s) \in Nat /\ DOMAIN s = 1..Len(s) /\ Len(s) - n \in Nat /\ Len(s) - n <= Len(s)
  OBVIOUS
<1>2. /\ t \in Seq(AskType) /\ DOMAIN t = 1..(Len(s) - n)
      /\ \A k \in DOMAIN t : k \in DOMAIN s /\ t[k] = s[k]
  BY <1>1
<1>3. \A k \in DOMAIN t : Like(t[k], s[k])
  BY <1>2 DEF Like
<1>4. QED
  BY <1>1, <1>2, <1>3 DEF Shortens

LEMMA PlacesOf ==
    ASSUME NEW S, NEW list \in Seq(S)
    PROVE  /\ Len(list) \in Nat /\ DOMAIN list = 1..Len(list)
           /\ IsFiniteSet(DOMAIN list) /\ Cardinality(DOMAIN list) = Len(list)
<1>1. Len(list) \in Int /\ 1 \in Int /\ Len(list) >= 0 /\ DOMAIN list = 1..Len(list)
  OBVIOUS
<1>2. IsFiniteSet(1..Len(list)) /\ Cardinality(1..Len(list)) = (IF 1 > Len(list) THEN 0 ELSE Len(list) - 1 + 1)
  BY <1>1, FS_Interval
<1>3. QED
  BY <1>1, <1>2

LEMMA JoinHas ==
    ASSUME NEW S, NEW a \in Seq(S), NEW b \in Seq(S), NEW t, t = a \o b
    PROVE  /\ t \in Seq(S) /\ Len(t) = Len(a) + Len(b) /\ DOMAIN t = 1..(Len(a) + Len(b))
           /\ \A k \in DOMAIN t : \/ k \in DOMAIN a /\ t[k] = a[k] /\ k <= Len(a)
                                  \/ k - Len(a) \in DOMAIN b /\ t[k] = b[k - Len(a)] /\ k > Len(a)
           /\ \A k \in DOMAIN a : k \in DOMAIN t /\ t[k] = a[k]
<1>1. Len(a) \in Nat /\ Len(b) \in Nat /\ DOMAIN a = 1..Len(a) /\ DOMAIN b = 1..Len(b)
  OBVIOUS
<1>2. t \in Seq(S) /\ Len(t) = Len(a) + Len(b)
  OBVIOUS
<1>3. DOMAIN t = 1..(Len(a) + Len(b))
  BY <1>2
<1>4. \A k \in DOMAIN t : t[k] = IF k <= Len(a) THEN a[k] ELSE b[k - Len(a)]
  BY <1>1, <1>3
<1>5. QED
  BY <1>1, <1>2, <1>3, <1>4

Joins(t, S, a, b) ==
    /\ t \in Seq(S) /\ Len(t) = Len(a) + Len(b) /\ DOMAIN t = 1..(Len(a) + Len(b))
    /\ \A k \in DOMAIN t : \/ k \in DOMAIN a /\ t[k] = a[k] /\ k <= Len(a)
                           \/ k - Len(a) \in DOMAIN b /\ t[k] = b[k - Len(a)] /\ k > Len(a)
    /\ \A k \in DOMAIN a : k \in DOMAIN t /\ t[k] = a[k]

LEMMA JoinIs ==
    ASSUME NEW S, NEW a \in Seq(S), NEW b \in Seq(S), NEW t, t = a \o b
    PROVE  Joins(t, S, a, b)
  BY JoinHas DEF Joins

\* Sorted, the open asks come first.
IsSorted(s, list, n, m) ==
    /\ s \in Seq(AskType) /\ Len(s) = Len(list) /\ n \in Nat /\ m \in Nat /\ Len(list) = n + m
    /\ \A k \in DOMAIN s : IsOpen(s[k]) => k <= n
    /\ \A k \in DOMAIN s : \E i \in DOMAIN list : s[k] = list[i]
    /\ \A i \in DOMAIN list : IsOpen(list[i]) => \E k \in DOMAIN s : s[k] = list[i]
    /\ (\A i, j \in DOMAIN list : list[i].id = list[j].id => i = j) =>
          \A k, l \in DOMAIN s : s[k].id = s[l].id => k = l

LEMMA SortedHas ==
    ASSUME NEW list \in Seq(AskType), NEW open, open = {i \in DOMAIN list : IsOpen(list[i])},
           NEW s, s = Keeping(list, open) \o Keeping(list, DOMAIN list \ open)
    PROVE  IsSorted(s, list, Cardinality(open), Cardinality(DOMAIN list \ open))
<1> DEFINE settled == DOMAIN list \ open
<1> DEFINE a == Keeping(list, open)
<1> DEFINE b == Keeping(list, settled)
<1>1. open \in SUBSET (DOMAIN list) /\ settled \in SUBSET (DOMAIN list) /\ open \cap settled = {} /\ open \cup settled = DOMAIN list
  OBVIOUS
<1>2. a = Subseq(list, open) /\ b = Subseq(list, settled)
  BY DEF Keeping, Subseq
<1>3. /\ a \in Seq(AskType) /\ Len(a) = Cardinality(open)
      /\ \A k \in DOMAIN a : \E i \in open : a[k] = list[i] /\ Cardinality(Before(open, i)) = k - 1
      /\ \A i \in open : \E k \in DOMAIN a : a[k] = list[i] /\ Cardinality(Before(open, i)) = k - 1
  <2>1. IsPart(Subseq(list, open), AskType, list, open)
    BY <1>1, PartHas
  <2>2. IsPart(a, AskType, list, open)
    BY <1>2, <2>1
  <2> HIDE DEF a
  <2>3. QED
    BY <2>2 DEF IsPart
<1>4. /\ b \in Seq(AskType) /\ Len(b) = Cardinality(settled)
      /\ \A k \in DOMAIN b : \E i \in settled : b[k] = list[i] /\ Cardinality(Before(settled, i)) = k - 1
  <2>1. IsPart(Subseq(list, settled), AskType, list, settled)
    BY <1>1, PartHas
  <2>2. IsPart(b, AskType, list, settled)
    BY <1>2, <2>1
  <2> HIDE DEF b
  <2>3. QED
    BY <2>2 DEF IsPart
<1>5. s = a \o b
  OBVIOUS
<1> HIDE DEF a, b
<1>6. Len(a) \in Nat /\ Len(b) \in Nat /\ DOMAIN a = 1..Len(a) /\ DOMAIN b = 1..Len(b)
  BY <1>3, <1>4
<1>7. /\ s \in Seq(AskType) /\ Len(s) = Len(a) + Len(b) /\ DOMAIN s = 1..(Len(a) + Len(b))
      /\ \A k \in DOMAIN s : \/ k \in DOMAIN a /\ s[k] = a[k] /\ k <= Len(a)
                             \/ k - Len(a) \in DOMAIN b /\ s[k] = b[k - Len(a)] /\ k > Len(a)
      /\ \A k \in DOMAIN a : k \in DOMAIN s /\ s[k] = a[k]
  <2>1. Joins(s, AskType, a, b)
    BY <1>3, <1>4, <1>5, JoinIs
  <2>2. QED
    BY <2>1 DEF Joins
<1>8. Len(a) + Len(b) = Len(list)
  <2>1. Len(list) \in Nat /\ IsFiniteSet(DOMAIN list)
    BY PlacesOf
  <2>2. Cardinality(DOMAIN list) = Len(list)
    BY PlacesOf
  <2>3. IsFiniteSet(open) /\ IsFiniteSet(settled)
    BY <1>1, <2>1, FS_Subset
  <2>4. Cardinality(DOMAIN list) = Cardinality(open) + Cardinality(settled) - Cardinality(open \cap settled)
    <3>1. Cardinality(open \cup settled) = Cardinality(open) + Cardinality(settled) - Cardinality(open \cap settled)
      BY <2>3, FS_Union
    <3>2. QED
      BY <1>1, <3>1
  <2>5. Cardinality(open \cap settled) = 0
    BY <1>1, FS_EmptySet
  <2>6. QED
    BY <1>3, <1>4, <1>6, <2>2, <2>4, <2>5
<1>9. ASSUME NEW k \in DOMAIN s, k <= Len(a)
      PROVE  \E i \in open : s[k] = list[i] /\ Cardinality(Before(open, i)) = k - 1
  <2>1. k \in DOMAIN a /\ s[k] = a[k]
    <3>1. k \in Nat
      BY <1>6, <1>7
    <3>2. ~(k > Len(a))
      BY <1>6, <1>9, <3>1
    <3>3. QED
      BY <1>7, <3>2, Zenon
  <2>2. QED
    BY <1>3, <2>1
<1>19. ASSUME NEW k \in DOMAIN s, k > Len(a)
       PROVE  \E i \in settled : s[k] = list[i] /\ Cardinality(Before(settled, i)) = k - Len(a) - 1
  <2>1. k - Len(a) \in DOMAIN b /\ s[k] = b[k - Len(a)]
    <3>1. k \in Nat
      BY <1>6, <1>7
    <3>2. ~(k <= Len(a))
      BY <1>6, <1>19, <3>1
    <3>3. QED
      BY <1>7, <3>2, Zenon
  <2>2. QED
    BY <1>4, <2>1
<1>20. \A k \in DOMAIN s : k \in Nat /\ (k <= Len(a) \/ k > Len(a))
  BY <1>6, <1>7
<1>10. \A i \in open : IsOpen(list[i])
  OBVIOUS
<1>11. \A i \in settled : ~IsOpen(list[i])
  OBVIOUS
<1>12. \A k \in DOMAIN s : IsOpen(s[k]) => k <= Len(a)
  BY <1>11, <1>19, <1>20
<1>13. \A k \in DOMAIN s : \E i \in DOMAIN list : s[k] = list[i]
  <2> SUFFICES ASSUME NEW k \in DOMAIN s PROVE \E i \in DOMAIN list : s[k] = list[i]
    OBVIOUS
  <2>1. CASE k <= Len(a)
    <3>1. PICK i \in open : s[k] = list[i]
      BY <1>9, <2>1
    <3>2. QED
      BY <1>1, <3>1
  <2>2. CASE k > Len(a)
    <3>1. PICK i \in settled : s[k] = list[i]
      BY <1>19, <2>2
    <3>2. QED
      BY <1>1, <3>1
  <2>3. QED
    BY <1>20, <2>1, <2>2
<1>14. \A i \in DOMAIN list : IsOpen(list[i]) => \E k \in DOMAIN s : s[k] = list[i]
  <2> SUFFICES ASSUME NEW i \in DOMAIN list, IsOpen(list[i]) PROVE \E k \in DOMAIN s : s[k] = list[i]
    OBVIOUS
  <2>1. i \in open
    OBVIOUS
  <2>2. PICK k \in DOMAIN a : a[k] = list[i]
    BY <1>3, <2>1
  <2>3. QED
    BY <1>7, <2>2
<1>15. ASSUME \A i, j \in DOMAIN list : list[i].id = list[j].id => i = j
       PROVE  \A k, l \in DOMAIN s : s[k].id = s[l].id => k = l
  <2> SUFFICES ASSUME NEW k \in DOMAIN s, NEW l \in DOMAIN s, s[k].id = s[l].id PROVE k = l
    OBVIOUS
  <2>1. k \in Nat /\ l \in Nat
    BY <1>20
  <2>2. CASE k <= Len(a) /\ l <= Len(a)
    <3>1. PICK i \in open : s[k] = list[i] /\ Cardinality(Before(open, i)) = k - 1
      BY <1>9, <2>2
    <3>2. PICK j \in open : s[l] = list[j] /\ Cardinality(Before(open, j)) = l - 1
      BY <1>9, <2>2
    <3>3. i = j
      BY <1>1, <1>15, <3>1, <3>2
    <3>4. QED
      BY <2>1, <3>1, <3>2, <3>3
  <2>3. CASE k > Len(a) /\ l > Len(a)
    <3>1. PICK i \in settled : s[k] = list[i] /\ Cardinality(Before(settled, i)) = k - Len(a) - 1
      BY <1>19, <2>3
    <3>2. PICK j \in settled : s[l] = list[j] /\ Cardinality(Before(settled, j)) = l - Len(a) - 1
      BY <1>19, <2>3
    <3>3. i = j
      BY <1>1, <1>15, <3>1, <3>2
    <3>4. k - Len(a) - 1 = l - Len(a) - 1
      BY <3>1, <3>2, <3>3
    <3>5. QED
      BY <1>6, <2>1, <3>4
  <2>4. ASSUME NEW x \in DOMAIN s, NEW y \in DOMAIN s, x <= Len(a), y > Len(a) PROVE s[x].id # s[y].id
    <3>1. PICK i \in open : s[x] = list[i]
      BY <1>9, <2>4
    <3>2. PICK j \in settled : s[y] = list[j]
      BY <1>19, <2>4
    <3>3. i # j /\ i \in DOMAIN list /\ j \in DOMAIN list
      BY <1>1
    <3>4. QED
      BY <1>15, <3>1, <3>2, <3>3
  <2>5. (k <= Len(a) \/ k > Len(a)) /\ (l <= Len(a) \/ l > Len(a))
    BY <1>20
  <2>6. QED
    BY <2>2, <2>3, <2>4, <2>5
<1>16. Cardinality(open) \in Nat /\ Cardinality(settled) \in Nat /\ Len(list) = Cardinality(open) + Cardinality(settled)
  BY <1>3, <1>4, <1>6, <1>8
<1>17. Len(s) = Len(list) /\ \A k \in DOMAIN s : IsOpen(s[k]) => k <= Cardinality(open)
  BY <1>3, <1>7, <1>8, <1>12
<1>18. QED
  BY <1>7, <1>13, <1>14, <1>15, <1>16, <1>17 DEF IsSorted

\* What is packed is every open ask, and of the settled ones some.
LEMMA PackHas ==
    ASSUME NEW list \in Seq(AskType), NEW t, t = Pack(list)
    PROVE  /\ t \in Seq(AskType)
           /\ \A k \in DOMAIN t : \E i \in DOMAIN list : Like(t[k], list[i])
           /\ \A i \in DOMAIN list : IsOpen(list[i]) => \E k \in DOMAIN t : Like(t[k], list[i])
           /\ (\A i, j \in DOMAIN list : list[i].id = list[j].id => i = j) =>
                 \A k, l \in DOMAIN t : t[k].id = t[l].id => k = l
<1> DEFINE open == {i \in DOMAIN list : IsOpen(list[i])}
<1> DEFINE settled == DOMAIN list \ open
<1> DEFINE sorted == Keeping(list, open) \o Keeping(list, settled)
<1> DEFINE compact == EachOf(sorted, CompactContact)
<1> DEFINE bare == EachOf(compact, StripSettled)
<1> DEFINE without(n) == SubSeq(bare, 1, Len(list) - n)
<1> DEFINE enough == {n \in 0..Cardinality(settled) : RoomTaken(without(n)) <= AskLimit}
<1>1. /\ sorted \in Seq(AskType) /\ Len(sorted) = Len(list)
      /\ Cardinality(open) \in Nat /\ Cardinality(settled) \in Nat
      /\ Len(list) = Cardinality(open) + Cardinality(settled)
      /\ \A k \in DOMAIN sorted : IsOpen(sorted[k]) => k <= Cardinality(open)
      /\ \A k \in DOMAIN sorted : \E i \in DOMAIN list : sorted[k] = list[i]
      /\ \A i \in DOMAIN list : IsOpen(list[i]) => \E k \in DOMAIN sorted : sorted[k] = list[i]
      /\ (\A i, j \in DOMAIN list : list[i].id = list[j].id => i = j) =>
            \A k, l \in DOMAIN sorted : sorted[k].id = sorted[l].id => k = l
  <2>1. IsSorted(sorted, list, Cardinality(open), Cardinality(settled))
    BY SortedHas, Zenon
  <2> HIDE DEF sorted, open, settled
  <2>2. QED
    BY <2>1 DEF IsSorted
<1>2. \/ t = sorted \/ t = compact
      \/ enough # {} /\ t = without(Least(enough))
      \/ t = EachOf(without(Cardinality(settled)), Strip)
  <2>1. t = CASE RoomTaken(sorted) <= AskLimit -> sorted
              [] RoomTaken(sorted) > AskLimit /\ RoomTaken(compact) <= AskLimit -> compact
              [] RoomTaken(compact) > AskLimit /\ enough # {} -> without(Least(enough))
              [] OTHER -> EachOf(without(Cardinality(settled)), Strip)
    BY Zenon DEF Pack
  <2> HIDE DEF sorted, compact, without, enough, settled
  <2>2. QED
    BY <2>1, Zenon
<1>3. Least(enough) = CHOOSE n \in enough : \A m \in enough : n <= m
  BY DEF Least
<1> HIDE DEF sorted
<1>4. Shortens(compact, sorted) /\ compact \in Seq(AskType) /\ Len(compact) = Len(sorted) /\ DOMAIN compact = DOMAIN sorted
  BY <1>1, EachShortens, Zenon DEF Shortens
<1> HIDE DEF compact
<1>5. Shortens(bare, compact) /\ bare \in Seq(AskType) /\ Len(bare) = Len(compact) /\ DOMAIN bare = DOMAIN compact
  BY <1>4, EachShortens, Zenon DEF Shortens
<1> HIDE DEF bare
<1>6. Shortens(bare, sorted)
  BY <1>4, <1>5, ShortensAgain, Zenon
<1>7. ASSUME NEW n \in 0..Cardinality(settled) PROVE Shortens(without(n), sorted)
  <2>1. n \in Nat /\ n <= Cardinality(settled) /\ Len(bare) = Len(list) /\ Len(bare) \in Nat
    BY <1>1, <1>4, <1>5
  <2>2. n <= Len(bare) /\ Cardinality(open) <= Len(bare) - n
    BY <1>1, <2>1
  <2>3. \A k \in DOMAIN bare : IsOpen(bare[k]) => k \in Nat /\ k <= Cardinality(open)
    <3>1. \A k \in DOMAIN bare : k \in DOMAIN sorted /\ bare[k].status = sorted[k].status /\ k \in Nat
      BY <1>5, <1>6 DEF Shortens, Like
    <3>2. QED
      BY <1>1, <3>1 DEF IsOpen
  <2>4. \A k \in DOMAIN bare : IsOpen(bare[k]) => k <= Len(bare) - n
    <3> SUFFICES ASSUME NEW k \in DOMAIN bare, IsOpen(bare[k]) PROVE k <= Len(bare) - n
      OBVIOUS
    <3> DEFINE kept == Cardinality(open)
    <3>1. k \in Nat /\ k <= kept
      BY <2>3
    <3>2. kept \in Nat /\ kept <= Len(bare) - n
      BY <1>1, <2>2
    <3> HIDE DEF kept
    <3>3. QED
      BY <2>1, <3>1, <3>2
  <2>5. without(n) = SubSeq(bare, 1, Len(bare) - n)
    BY <2>1
  <2>6. Shortens(without(n), bare)
    BY <1>5, <2>1, <2>2, <2>4, <2>5, CutShortens, Zenon
  <2>7. QED
    BY <1>6, <2>6, ShortensAgain, Zenon
<1>8. Shortens(sorted, sorted)
  BY <1>1 DEF Shortens, Like
<1>9. enough # {} => Shortens(without(Least(enough)), sorted)
  <2>1. enough \in SUBSET (0..Cardinality(settled)) /\ enough \in SUBSET Nat
    BY <1>1
  <2> HIDE DEF enough
  <2>2. enough # {} => Least(enough) \in enough
    BY <1>3, <2>1, LeastOf
  <2>3. QED
    BY <1>7, <2>1, <2>2
<1>10. Shortens(EachOf(without(Cardinality(settled)), Strip), sorted)
  <2>1. Cardinality(settled) \in 0..Cardinality(settled)
    BY <1>1
  <2>2. Shortens(without(Cardinality(settled)), sorted)
    BY <1>7, <2>1
  <2> DEFINE w == without(Cardinality(settled))
  <2>3. Shortens(w, sorted) /\ w \in Seq(AskType)
    BY <2>2 DEF Shortens
  <2> HIDE DEF w
  <2>4. Shortens(EachOf(w, Strip), w)
    BY <2>3, EachShortens, Zenon
  <2>5. Shortens(EachOf(w, Strip), sorted)
    BY <2>3, <2>4, ShortensAgain, Zenon
  <2>6. QED
    BY <2>5 DEF w
<1>11. Shortens(t, sorted)
  BY <1>2, <1>4, <1>8, <1>9, <1>10, Zenon
<1>12. /\ t \in Seq(AskType)
       /\ \A k \in DOMAIN t : k \in DOMAIN sorted /\ Like(t[k], sorted[k])
       /\ \A k \in DOMAIN sorted : IsOpen(sorted[k]) => k \in DOMAIN t
  BY <1>11 DEF Shortens
<1>13. \A k \in DOMAIN t : \E i \in DOMAIN list : Like(t[k], list[i])
  <2> SUFFICES ASSUME NEW k \in DOMAIN t PROVE \E i \in DOMAIN list : Like(t[k], list[i])
    OBVIOUS
  <2>1. PICK i \in DOMAIN list : sorted[k] = list[i]
    BY <1>1, <1>12
  <2>2. QED
    BY <1>12, <2>1
<1>14. \A i \in DOMAIN list : IsOpen(list[i]) => \E k \in DOMAIN t : Like(t[k], list[i])
  <2> SUFFICES ASSUME NEW i \in DOMAIN list, IsOpen(list[i]) PROVE \E k \in DOMAIN t : Like(t[k], list[i])
    OBVIOUS
  <2>1. PICK k \in DOMAIN sorted : sorted[k] = list[i]
    BY <1>1
  <2>2. QED
    BY <1>12, <2>1
<1>15. (\A i, j \in DOMAIN list : list[i].id = list[j].id => i = j) =>
          \A k, l \in DOMAIN t : t[k].id = t[l].id => k = l
  <2>1. \A k \in DOMAIN t : k \in DOMAIN sorted /\ t[k].id = sorted[k].id
    BY <1>12 DEF Like
  <2>2. (\A i, j \in DOMAIN list : list[i].id = list[j].id => i = j) =>
           \A k, l \in DOMAIN sorted : sorted[k].id = sorted[l].id => k = l
    BY <1>1
  <2>3. QED
    BY <2>1, <2>2
<1>16. QED
  BY <1>12, <1>13, <1>14, <1>15

-----------------------------------------------------------------------------
(* Operations on the queue of plan asks. *)

LEMMA IdleActIs == IdleAct \in ActType /\ IdleAct.pc = "idle"
  BY DEF IdleAct, ActType

LEMMA Done ==
    ASSUME AskTypes, NEW p \in AskActors, NEW next \in ActType, Does(p, next)
    PROVE  /\ act' \in [AskActors -> ActType] /\ act'[p] = next
           /\ \A q \in AskActors : q # p => act'[q] = act[q]
  BY DEF AskTypes, Does

\* What is proper stays so while no invoice is lost.
LEMMA StaysProper ==
    ASSUME NEW list \in Seq(AskType), NEW n \in Nat, NEW m \in Nat, n <= m, Proper(list, n), invoices \subseteq invoices'
    PROVE  /\ \A i \in DOMAIN list : list[i].id <= m
           /\ \A i, j \in DOMAIN list : list[i].id = list[j].id => i = j
           /\ \A i \in DOMAIN list :
                 /\ list[i].accepted # {} =>
                       \E q \in list[i].quote, v \in invoices' : v.id = list[i].id /\ v.total = q.total
                 /\ IsOpen(list[i]) => list[i].accepted = {}
<1>1. \A i \in DOMAIN list : list[i].id \in Nat
  <2> SUFFICES ASSUME NEW i \in DOMAIN list PROVE list[i].id \in Nat
    OBVIOUS
  <2>1. list[i] \in AskType
    OBVIOUS
  <2>2. QED
    BY <2>1 DEF AskType
<1>2. \A i \in DOMAIN list : list[i].id <= m
  BY <1>1 DEF Proper
<1>3. QED
  BY <1>2 DEF Proper, InvoicedAt

LEMMA ActBegins ==
    ASSUME AskInv, NEW p \in AskActors, NEW next \in ActType, Undertakes(p, next), askScene' = askScene,
           next.pc \in {"writing", "selling"},
           askScene.serial =>
              /\ next.pc = "writing" => Proper(next.list, asked + 1) /\ HasEach(next.list)
              /\ next.pc = "selling" => QuotedAt(next.id, next.total)
    PROVE  AskInv'
<1>1. AskTypes /\ asks \in Seq(AskType) /\ asked \in Nat /\ asked + 1 \in Nat /\ asked <= asked + 1
  BY DEF AskInv, AskTypes
<1>2. /\ Does(p, next) /\ asked' = asked + 1 /\ UNCHANGED <<current, day, asks, invoices>>
      /\ askScene.serial => \A q \in AskActors : act[q].pc = "idle"
  BY DEF Undertakes, MayUndertake, MayAct, At
<1>3. /\ act' \in [AskActors -> ActType] /\ act'[p] = next
      /\ \A q \in AskActors : q # p => act'[q] = act[q]
  BY <1>1, <1>2, Done
<1>4. AskTypes'
  BY <1>1, <1>2, <1>3 DEF AskTypes
<1>5. (~Trouble("forget") => \A v, u \in invoices : v.id = u.id => v = u)'
  BY <1>2 DEF AskInv, Trouble
<1>6. ASSUME askScene.serial PROVE (AsksInTurn /\ Proper(asks, asked) /\ \A q \in AskActors : ActSound(act[q]))'
  <2>1. AsksInTurn'
    BY <1>2, <1>3, <1>6 DEF AsksInTurn, At
  <2>2. Proper(asks, asked)'
    <3>1. Proper(asks, asked) /\ invoices \subseteq invoices'
      BY <1>2, <1>6 DEF AskInv
    <3>2. QED
      BY <1>1, <1>2, <3>1, StaysProper DEF Proper, InvoicedAt
  <2>3. ActSound(act[p])'
    <3>1. next.pc = "writing" => Proper(act[p].list, asked)' /\ HasEach(act[p].list)'
      BY <1>2, <1>3, <1>6 DEF Proper, HasEach, InvoicedAt
    <3>2. next.pc = "selling" => QuotedAt(act[p].id, act[p].total)'
      BY <1>2, <1>3, <1>6 DEF QuotedAt
    <3>3. QED
      BY <1>3, <3>1, <3>2 DEF ActSound
  <2>4. \A q \in AskActors : q # p => ActSound(act[q])'
    BY <1>2, <1>3, <1>6 DEF ActSound
  <2>5. QED
    BY <2>1, <2>2, <2>3, <2>4
<1>7. QED
  BY <1>2, <1>4, <1>5, <1>6 DEF AskInv

LEMMA ActMoves ==
    ASSUME AskInv, NEW p \in AskActors, NEW next \in ActType, Does(p, next), ~At(p, "idle"),
           UNCHANGED <<askScene, current, day, asks, asked>>, invoices \subseteq invoices',
           ~Trouble("forget") => \A v, u \in invoices' : v.id = u.id => v = u,
           askScene.serial =>
              /\ next.pc = "writing" => Proper(next.list, asked) /\ HasEach(next.list)
              /\ next.pc \in {"selling", "marking"} => QuotedAt(next.id, next.total)
              /\ next.pc = "marking" => \E v \in invoices' : v.id = next.id /\ v.total = next.total
    PROVE  AskInv'
<1>1. AskTypes /\ asks \in Seq(AskType) /\ asked \in Nat /\ asked <= asked
  BY DEF AskInv, AskTypes
<1>2. /\ act' \in [AskActors -> ActType] /\ act'[p] = next
      /\ \A q \in AskActors : q # p => act'[q] = act[q]
  BY <1>1, Done
<1>3. AskTypes'
  BY <1>1, <1>2 DEF AskTypes
<1>4. (~Trouble("forget") => \A v, u \in invoices : v.id = u.id => v = u)'
  BY DEF Trouble
<1>5. ASSUME askScene.serial PROVE (AsksInTurn /\ Proper(asks, asked) /\ \A q \in AskActors : ActSound(act[q]))'
  <2>1. \A q \in AskActors : q # p => act'[q].pc = "idle"
    BY <1>2, <1>5 DEF AskInv, AsksInTurn, At
  <2>2. AsksInTurn'
    BY <2>1 DEF AsksInTurn, At
  <2>3. Proper(asks, asked)'
    <3>1. Proper(asks, asked)
      BY <1>5 DEF AskInv
    <3>2. QED
      BY <1>1, <3>1, StaysProper DEF Proper, InvoicedAt
  <2>4. ActSound(act[p])'
    <3>1. ASSUME next.pc = "writing" PROVE Proper(act[p].list, asked)' /\ HasEach(act[p].list)'
      <4>1. next.list \in Seq(AskType) /\ Proper(next.list, asked) /\ HasEach(next.list)
        BY <1>5, <3>1 DEF ActType
      <4>2. Proper(act[p].list, asked)'
        BY <1>1, <1>2, <4>1, StaysProper DEF Proper, InvoicedAt
      <4>3. HasEach(act[p].list)'
        BY <1>2, <4>1 DEF HasEach
      <4>4. QED
        BY <4>2, <4>3
    <3>2. next.pc \in {"selling", "marking"} => QuotedAt(act[p].id, act[p].total)'
      BY <1>2, <1>5 DEF QuotedAt
    <3>3. QED
      BY <1>2, <1>5, <3>1, <3>2 DEF ActSound
  <2>5. \A q \in AskActors : q # p => ActSound(act[q])'
    BY <2>1 DEF ActSound
  <2>6. QED
    BY <2>2, <2>3, <2>4, <2>5
<1>6. QED
  BY <1>3, <1>4, <1>5 DEF AskInv

LEMMA AsksStay ==
    ASSUME AskInv, UNCHANGED <<askScene, asks, act, asked, invoices>>, current' \in SUBSET PlanKeys, day' \in 0..Days
    PROVE  AskInv'
<1>1. AskTypes'
  BY DEF AskInv, AskTypes
<1>2. (~Trouble("forget") => \A v, u \in invoices : v.id = u.id => v = u)'
  BY DEF AskInv, Trouble
<1>3. ASSUME askScene.serial PROVE (AsksInTurn /\ Proper(asks, asked))'
  BY <1>3 DEF AskInv, AsksInTurn, At, Proper, InvoicedAt
<1>4. ASSUME askScene.serial, NEW q \in AskActors PROVE ActSound(act[q])'
  <2>1. ActSound(act[q])
    BY <1>4 DEF AskInv
  <2>2. QED
    BY <2>1 DEF ActSound, Proper, HasEach, QuotedAt, InvoicedAt
<1>5. QED
  BY <1>1, <1>2, <1>3, <1>4 DEF AskInv

LEMMA PackedIsProper ==
    ASSUME NEW list \in Seq(AskType), Proper(list, asked)
    PROVE  Proper(Pack(list), asked)
<1> DEFINE t == Pack(list)
<1>1. /\ \A k \in DOMAIN t : \E i \in DOMAIN list : Like(t[k], list[i])
      /\ (\A i, j \in DOMAIN list : list[i].id = list[j].id => i = j) =>
            \A k, l \in DOMAIN t : t[k].id = t[l].id => k = l
  BY PackHas, Zenon
<1> HIDE DEF t
<1>2. \A k, l \in DOMAIN t : t[k].id = t[l].id => k = l
  BY <1>1 DEF Proper
<1>3. ASSUME NEW k \in DOMAIN t
      PROVE  /\ t[k].id <= asked
             /\ (t[k].accepted # {} => InvoicedAt(t[k])) /\ (IsOpen(t[k]) => t[k].accepted = {})
  <2>1. PICK i \in DOMAIN list : Like(t[k], list[i])
    BY <1>1
  <2>2. t[k].id <= asked
    BY <2>1 DEF Like, Proper
  <2>3. t[k].accepted # {} => InvoicedAt(t[k])
    <3>1. SUFFICES ASSUME t[k].accepted # {} PROVE InvoicedAt(t[k])
      OBVIOUS
    <3>2. InvoicedAt(list[i])
      BY <2>1, <3>1 DEF Like, Proper
    <3>3. PICK q \in list[i].quote, v \in invoices : v.id = list[i].id /\ v.total = q.total
      BY <3>2 DEF InvoicedAt
    <3>4. PICK u \in t[k].quote : u.total = q.total
      BY <2>1 DEF Like
    <3>5. v.id = t[k].id /\ v.total = u.total
      BY <2>1, <3>3, <3>4 DEF Like
    <3>6. QED
      BY <3>5 DEF InvoicedAt
  <2>4. IsOpen(t[k]) => t[k].accepted = {}
    BY <2>1 DEF Like, Proper, IsOpen
  <2>5. QED
    BY <2>2, <2>3, <2>4
<1>4. Proper(t, asked)
  BY <1>2, <1>3 DEF Proper
<1>5. QED
  BY <1>4 DEF t

LEMMA WriteKeeps ==
    ASSUME AskInv, NEW p \in AskActors, Write(p), askScene' = askScene
    PROVE  AskInv'
<1>1. AskTypes /\ act[p] \in ActType /\ act[p].pc = "writing" /\ act[p].list \in Seq(AskType) /\ asks \in Seq(AskType)
  BY DEF AskInv, AskTypes, ActType, Write, At
<1>2. /\ asks' = IF RoomTaken(Pack(act[p].list)) <= AskLimit THEN Pack(act[p].list) ELSE asks
      /\ Does(p, IdleAct) /\ UNCHANGED <<current, day, asked, invoices>>
  BY DEF Write
<1>3. /\ act' \in [AskActors -> ActType] /\ act'[p] = IdleAct
      /\ \A q \in AskActors : q # p => act'[q] = act[q]
  BY <1>1, <1>2, IdleActIs, Done
<1>4. Pack(act[p].list) \in Seq(AskType)
  BY <1>1, PackHas
<1>5. AskTypes'
  BY <1>1, <1>2, <1>3, <1>4 DEF AskTypes
<1>6. (~Trouble("forget") => \A v, u \in invoices : v.id = u.id => v = u)'
  BY <1>2 DEF AskInv, Trouble
<1>7. ASSUME askScene.serial PROVE (AsksInTurn /\ Proper(asks, asked) /\ \A q \in AskActors : ActSound(act[q]))'
  <2>1. \A q \in AskActors : act'[q].pc = "idle"
    BY <1>1, <1>3, <1>7, IdleActIs DEF AskInv, AsksInTurn, At
  <2>2. AsksInTurn'
    BY <2>1 DEF AsksInTurn, At
  <2>3. \A q \in AskActors : ActSound(act[q])'
    BY <2>1 DEF ActSound
  <2>4. Proper(asks, asked) /\ Proper(act[p].list, asked)
    BY <1>1, <1>7 DEF AskInv, ActSound
  <2>5. Proper(Pack(act[p].list), asked)
    BY <1>1, <2>4, PackedIsProper
  <2>6. asks' = Pack(act[p].list) \/ asks' = asks
    BY <1>2
  <2>7. Proper(asks, asked)'
    BY <1>2, <2>4, <2>5, <2>6 DEF Proper, InvoicedAt
  <2>8. QED
    BY <2>2, <2>3, <2>7
<1>8. QED
  BY <1>5, <1>6, <1>7 DEF AskInv

LEMMA SellKeeps ==
    ASSUME AskInv, NEW p \in AskActors, SellCredits(p), askScene' = askScene
    PROVE  AskInv'
<1> DEFINE a == act[p]
<1> DEFINE mine == {v \in invoices : v.id = a.id}
<1> DEFINE invoice == [id |-> a.id, total |-> a.total, nth |-> Cardinality(mine) + 1]
<1> DEFINE next == [a EXCEPT !.pc = "marking"]
<1>1. AskTypes /\ a \in ActType /\ a.pc = "selling" /\ ~At(p, "idle")
  BY DEF AskInv, AskTypes, SellCredits, At
<1>2. /\ next \in ActType /\ next.pc = "marking" /\ next.id = a.id /\ next.total = a.total
  BY <1>1 DEF ActType
<1>3. UNCHANGED <<askScene, current, day, asks, asked>>
  BY DEF SellCredits
<1>4. \/ (mine = {} \/ Trouble("forget")) /\ invoices' = invoices \cup {invoice} /\ Does(p, next)
      \/ (\E v \in mine : v.total = a.total) /\ Does(p, next) /\ invoices' = invoices
      \/ Does(p, IdleAct) /\ invoices' = invoices
  BY DEF SellCredits
<1>5. invoice.id = a.id /\ invoice.total = a.total
  OBVIOUS
<1>6. mine = {v \in invoices : v.id = a.id}
  OBVIOUS
<1> HIDE DEF next, mine, invoice
<1>7. ~Trouble("forget") => \A v, u \in invoices : v.id = u.id => v = u
  BY DEF AskInv
<1>8. askScene.serial => QuotedAt(a.id, a.total)
  BY <1>1 DEF AskInv, ActSound
<1>9. CASE (mine = {} \/ Trouble("forget")) /\ invoices' = invoices \cup {invoice} /\ Does(p, next)
  <2>1. invoices \subseteq invoices' /\ \E v \in invoices' : v.id = next.id /\ v.total = next.total
    BY <1>2, <1>5, <1>9
  <2>2. ~Trouble("forget") => \A v, u \in invoices' : v.id = u.id => v = u
    <3> SUFFICES ASSUME ~Trouble("forget"), NEW v \in invoices', NEW u \in invoices', v.id = u.id PROVE v = u
      OBVIOUS
    <3>1. \A w \in invoices : w.id # a.id
      BY <1>6, <1>9
    <3>2. (v \in invoices \/ v = invoice) /\ (u \in invoices \/ u = invoice)
      BY <1>9
    <3>3. QED
      BY <1>5, <1>7, <3>1, <3>2
  <2>3. Does(p, next)
    BY <1>9
  <2>4. QED
    BY <1>1, <1>2, <1>3, <1>8, <2>1, <2>2, <2>3, ActMoves
<1>10. CASE (\E v \in mine : v.total = a.total) /\ Does(p, next) /\ invoices' = invoices
  <2>1. \E v \in invoices' : v.id = next.id /\ v.total = next.total
    BY <1>2, <1>6, <1>10
  <2>2. QED
    BY <1>1, <1>2, <1>3, <1>7, <1>8, <1>10, <2>1, ActMoves
<1>11. CASE Does(p, IdleAct) /\ invoices' = invoices
  BY <1>1, <1>3, <1>7, <1>11, IdleActIs, ActMoves
<1>12. QED
  BY <1>4, <1>9, <1>10, <1>11

LEMMA GiveUpKeeps ==
    ASSUME AskInv, NEW p \in AskActors, GivesUp(p), askScene' = askScene
    PROVE  AskInv'
<1>1. UNCHANGED <<askScene, current, day, asks, asked>> /\ invoices' = invoices /\ Does(p, IdleAct) /\ ~At(p, "idle")
  BY DEF GivesUp
<1>2. ~Trouble("forget") => \A v, u \in invoices : v.id = u.id => v = u
  BY DEF AskInv
<1>3. QED
  BY <1>1, <1>2, IdleActIs, ActMoves

LEMMA MarkKeeps ==
    ASSUME AskInv, NEW p \in AskActors, MarkPlanQuoteAccepted(p), askScene' = askScene
    PROVE  AskInv'
<1> DEFINE a == act[p]
<1> DEFINE found == {i \in DOMAIN asks : asks[i].id = a.id /\ asks[i].status = "quoted"}
<1> DEFINE mark(i) == [asks[i] EXCEPT !.status = "done", !.accepted = {a.total}]
<1> DEFINE list == [i \in DOMAIN asks |-> IF i \notin found THEN asks[i] ELSE mark(i)]
<1> DEFINE next == [a EXCEPT !.pc = "writing", !.list = list]
<1>1. AskTypes /\ asks \in Seq(AskType) /\ a \in ActType /\ a.pc = "marking" /\ ~At(p, "idle") /\ a.total \in Totals \cup {0}
  BY DEF AskInv, AskTypes, ActType, MarkPlanQuoteAccepted, At
<1>2. UNCHANGED <<askScene, current, day, asks, asked>> /\ invoices' = invoices
  BY DEF MarkPlanQuoteAccepted
<1>3. Does(p, IdleAct) \/ Does(p, next)
  BY DEF MarkPlanQuoteAccepted
<1>4. ASSUME NEW i \in DOMAIN asks
      PROVE  /\ list[i] \in AskType /\ list[i].id = asks[i].id /\ list[i].quote = asks[i].quote
             /\ i \notin found => list[i] = asks[i]
             /\ i \in found => asks[i].id = a.id /\ list[i].status = "done" /\ list[i].accepted = {a.total}
  <2>1. asks[i] \in AskType
    BY <1>1
  <2>2. mark(i) \in AskType /\ mark(i).id = asks[i].id /\ mark(i).quote = asks[i].quote
        /\ mark(i).status = "done" /\ mark(i).accepted = {a.total}
    BY <1>1, <2>1 DEF AskType
  <2> HIDE DEF mark
  <2>3. QED
    BY <2>1, <2>2
<1>5. list \in Seq(AskType) /\ DOMAIN list = DOMAIN asks
  <2>1. list = [i \in DOMAIN asks |-> list[i]]
    OBVIOUS
  <2> HIDE DEF list
  <2>2. DOMAIN list = DOMAIN asks /\ Len(asks) \in Nat /\ DOMAIN asks = 1..Len(asks)
    BY <1>1, <2>1
  <2>3. list \in [1..Len(asks) -> AskType]
    BY <1>4, <2>1, <2>2
  <2>4. QED
    BY <2>2, <2>3
<1> HIDE DEF list, found
<1>6. next \in ActType /\ next.pc = "writing" /\ next.list = list
  BY <1>1, <1>5 DEF ActType
<1> HIDE DEF next
<1>7. ~Trouble("forget") => \A v, u \in invoices : v.id = u.id => v = u
  BY DEF AskInv
<1>8. ASSUME askScene.serial PROVE Proper(list, asked) /\ HasEach(list)
  <2>1. Proper(asks, asked) /\ QuotedAt(a.id, a.total) /\ \E v \in invoices : v.id = a.id /\ v.total = a.total
    BY <1>1, <1>8 DEF AskInv, ActSound
  <2>2. HasEach(list)
    BY <1>4, <1>5 DEF HasEach
  <2>3. ASSUME NEW i \in DOMAIN list
        PROVE  /\ list[i].id <= asked
               /\ (list[i].accepted # {} => InvoicedAt(list[i])) /\ (IsOpen(list[i]) => list[i].accepted = {})
    <3>1. i \in DOMAIN asks
      BY <1>5
    <3>2. CASE i \notin found
      BY <1>4, <2>1, <3>1, <3>2 DEF Proper
    <3>3. CASE i \in found
      <4>1. PICK q \in asks[i].quote : q.total = a.total
        BY <1>4, <2>1, <3>1, <3>3 DEF QuotedAt
      <4>2. PICK v \in invoices : v.id = a.id /\ v.total = a.total
        BY <2>1
      <4>3. list[i].id = a.id /\ list[i].quote = asks[i].quote /\ list[i].status = "done" /\ list[i].id = asks[i].id
        BY <1>4, <3>1, <3>3
      <4>4. InvoicedAt(list[i])
        BY <4>1, <4>2, <4>3 DEF InvoicedAt
      <4>5. ~IsOpen(list[i]) /\ list[i].id <= asked
        BY <2>1, <3>1, <4>3 DEF IsOpen, Proper
      <4>6. QED
        BY <4>4, <4>5
    <3>4. QED
      BY <3>2, <3>3
  <2>4. \A i, j \in DOMAIN list : list[i].id = list[j].id => i = j
    BY <1>4, <1>5, <2>1 DEF Proper
  <2>5. QED
    BY <2>2, <2>3, <2>4 DEF Proper
<1>9. CASE Does(p, IdleAct)
  BY <1>1, <1>2, <1>7, <1>9, IdleActIs, ActMoves
<1>10. CASE Does(p, next)
  BY <1>1, <1>2, <1>6, <1>7, <1>8, <1>10, ActMoves
<1>11. QED
  BY <1>3, <1>9, <1>10

\* One more ask, or an answer to one.
LEMMA AskedIsProper ==
    ASSUME AskTypes, Proper(asks, asked), NEW r \in AskType, r.id = asked + 1, r.accepted = {},
           NEW list, list = Append(asks, r)
    PROVE  Proper(list, asked + 1) /\ HasEach(list)
<1>1. asks \in Seq(AskType) /\ asked \in Nat
  BY DEF AskTypes
<1>2. \A i \in DOMAIN asks : asks[i].id \in Nat /\ asks[i].id <= asked
  <2> SUFFICES ASSUME NEW i \in DOMAIN asks PROVE asks[i].id \in Nat /\ asks[i].id <= asked
    OBVIOUS
  <2>1. asks[i] \in AskType
    BY <1>1
  <2>2. QED
    BY <2>1 DEF AskType, Proper
<1>3. /\ \A i \in DOMAIN list : (i \in DOMAIN asks /\ list[i] = asks[i]) \/ (i = Len(asks) + 1 /\ list[i] = r)
      /\ \A i \in DOMAIN asks : i \in DOMAIN list /\ list[i] = asks[i]
  BY <1>1, AppendHas
<1>4. \A i \in DOMAIN asks : asks[i].id # asked + 1 /\ asks[i].id <= asked + 1
  BY <1>1, <1>2
<1>5. \A i \in DOMAIN list : list[i].id <= asked + 1
  BY <1>1, <1>3, <1>4
<1>6. \A i, j \in DOMAIN list : list[i].id = list[j].id => i = j
  BY <1>3, <1>4 DEF Proper
<1>7. \A i \in DOMAIN list : (list[i].accepted # {} => InvoicedAt(list[i])) /\ (IsOpen(list[i]) => list[i].accepted = {})
  BY <1>3 DEF Proper
<1>8. HasEach(list)
  BY <1>3 DEF HasEach
<1>9. QED
  BY <1>5, <1>6, <1>7, <1>8 DEF Proper

LEMMA AnswerHasProper ==
    ASSUME AskTypes, NEW i \in DOMAIN asks, NEW r \in AskType, r.id = asks[i].id, r.accepted = asks[i].accepted,
           IsOpen(asks[i]), NEW list, list = [asks EXCEPT ![i] = r]
    PROVE  /\ list \in Seq(AskType)
           /\ Proper(asks, asked) => Proper(list, asked + 1) /\ HasEach(list)
<1>1. asks \in Seq(AskType) /\ asked \in Nat
  BY DEF AskTypes
<1>2. \A j \in DOMAIN asks : asks[j].id \in Nat
  <2> SUFFICES ASSUME NEW j \in DOMAIN asks PROVE asks[j].id \in Nat
    OBVIOUS
  <2>1. asks[j] \in AskType
    BY <1>1
  <2>2. QED
    BY <2>1 DEF AskType
<1>3. /\ list \in Seq(AskType) /\ DOMAIN list = DOMAIN asks /\ list[i] = r
      /\ \A j \in DOMAIN asks : j # i => list[j] = asks[j]
  BY <1>1
<1>4. \A j \in DOMAIN asks : list[j].id = asks[j].id
  BY <1>3
<1>5. ASSUME Proper(asks, asked) PROVE Proper(list, asked + 1) /\ HasEach(list)
  <2>1. \A j \in DOMAIN list : list[j].id <= asked + 1
    BY <1>1, <1>2, <1>3, <1>4, <1>5 DEF Proper
  <2>2. \A j, k \in DOMAIN list : list[j].id = list[k].id => j = k
    BY <1>3, <1>4, <1>5 DEF Proper
  <2>3. r.accepted = {}
    BY <1>5 DEF Proper
  <2>4. \A j \in DOMAIN list : (list[j].accepted # {} => InvoicedAt(list[j])) /\ (IsOpen(list[j]) => list[j].accepted = {})
    BY <1>3, <1>5, <2>3 DEF Proper
  <2>5. HasEach(list)
    BY <1>3, <1>4 DEF HasEach
  <2>6. QED
    BY <2>1, <2>2, <2>4, <2>5 DEF Proper
<1>6. QED
  BY <1>3, <1>5

\* What an operation writes, as it begins.
LEMMA WritingIs ==
    ASSUME NEW list \in Seq(AskType), NEW next, next = [IdleAct EXCEPT !.pc = "writing", !.list = list]
    PROVE  next \in ActType /\ next.pc = "writing" /\ next.list = list
  BY DEF IdleAct, ActType

LEMMA AskKeeps ==
    ASSUME AskInv, NEW m \in Askers, NEW kind \in {"plan", "seat"}, NEW target \in Targets, askScene' = askScene,
           Undertakes(m, [IdleAct EXCEPT !.pc = "writing", !.list = Append(asks, NewAsk(m, kind, target))])
    PROVE  AskInv'
<1> DEFINE r == NewAsk(m, kind, target)
<1> DEFINE list == Append(asks, r)
<1> DEFINE next == [IdleAct EXCEPT !.pc = "writing", !.list = list]
<1>1. AskTypes /\ asks \in Seq(AskType) /\ asked + 1 \in Nat /\ askScene.noted \in BOOLEAN /\ askScene.blank \in BOOLEAN
      /\ m \in AskActors
  BY DEF AskInv, AskTypes, AskSceneType, AskActors
<1>2. r \in AskType /\ r.id = asked + 1 /\ r.accepted = {}
  BY <1>1 DEF NewAsk, AskType
<1> HIDE DEF r
<1>3. list \in Seq(AskType) /\ list = Append(asks, r)
  BY <1>1, <1>2
<1> HIDE DEF list
<1>4. next \in ActType /\ next.pc = "writing" /\ next.list = list
  BY <1>3, WritingIs, Zenon
<1>5. Undertakes(m, next)
  BY DEF r, list
<1> HIDE DEF next
<1>6. askScene.serial => Proper(list, asked + 1) /\ HasEach(list)
  BY <1>1, <1>2, <1>3, AskedIsProper DEF AskInv
<1>7. QED
  BY <1>1, <1>4, <1>5, <1>6, ActBegins

LEMMA AnswerKeeps ==
    ASSUME AskInv, NEW p \in AskActors, NEW i \in DOMAIN asks, NEW r \in AskType, IsOpen(asks[i]),
           r.id = asks[i].id, r.accepted = asks[i].accepted, askScene' = askScene,
           Undertakes(p, [IdleAct EXCEPT !.pc = "writing", !.list = [asks EXCEPT ![i] = r]])
    PROVE  AskInv'
<1> DEFINE list == [asks EXCEPT ![i] = r]
<1> DEFINE next == [IdleAct EXCEPT !.pc = "writing", !.list = list]
<1>1. AskTypes
  BY DEF AskInv
<1>2. list \in Seq(AskType) /\ (Proper(asks, asked) => Proper(list, asked + 1) /\ HasEach(list))
  BY <1>1, AnswerHasProper, Zenon
<1> HIDE DEF list
<1>3. next \in ActType /\ next.pc = "writing" /\ next.list = list
  BY <1>2, WritingIs, Zenon
<1>4. Undertakes(p, next)
  BY DEF list
<1> HIDE DEF next
<1>5. askScene.serial => Proper(list, asked + 1) /\ HasEach(list)
  BY <1>2 DEF AskInv
<1>6. QED
  BY <1>3, <1>4, <1>5, ActBegins

LEMMA RequestPlanChangeKeeps ==
    ASSUME AskInv, NEW m \in Askers, RequestPlanChange(m), askScene' = askScene
    PROVE  AskInv'
<1>1. PICK target \in IF askScene.named THEN PlanKeys ELSE UpgradeTo(Catalogue, current) :
         Undertakes(m, [IdleAct EXCEPT !.pc = "writing", !.list = Append(asks, NewAsk(m, "plan", target))])
  BY DEF RequestPlanChange
<1>2. current \in SUBSET PlanKeys
  BY DEF AskInv, AskTypes
<1>3. target \in Targets
  <2>1. UpgradeTo(Catalogue, current) \subseteq PlansAbove
    BY <1>2 DEF PlansAbove
  <2>2. QED
    BY <1>1, <2>1 DEF Targets
<1>4. QED
  BY <1>1, <1>3, AskKeeps

LEMMA RequestSeatChangeKeeps ==
    ASSUME AskInv, NEW m \in Askers, RequestSeatChange(m), askScene' = askScene
    PROVE  AskInv'
<1> DEFINE sold == UNION {PlanOf(Catalogue, key) : key \in PlanKeys}
<1>1. PICK plan \in UNION {PlanOf(Catalogue, key) : key \in current} :
         \E held \in SeatsHeld(plan) : \E target \in NextSeatUp(plan, held) :
            Undertakes(m, [IdleAct EXCEPT !.pc = "writing", !.list = Append(asks, NewAsk(m, "seat", target))])
  BY DEF RequestSeatChange
<1>2. current \in SUBSET PlanKeys
  BY DEF AskInv, AskTypes
<1>3. plan \in sold
  BY <1>2
<1>4. SeatsAbove = UNION {SeatsAboveIn(model) : model \in sold}
  BY DEF SeatsAbove
<1> HIDE DEF sold
<1>5. SeatsAboveIn(plan) \subseteq SeatsAbove
  BY <1>3, <1>4, Zenon
<1>6. \A held \in SeatsHeld(plan) : NextSeatUp(plan, held) \subseteq Targets
  <2>1. \A held \in SeatsHeld(plan) : NextSeatUp(plan, held) \subseteq SeatsAboveIn(plan)
    BY Zenon DEF SeatsAboveIn
  <2> QED
    BY <1>5, <2>1 DEF Targets
<1>7. QED
  BY <1>1, <1>6, AskKeeps

LEMMA QuotePlanRequestKeeps ==
    ASSUME AskInv, NEW p \in Handlers, QuotePlanRequest(p), askScene' = askScene
    PROVE  AskInv'
<1>1. PICK i \in DOMAIN asks, total \in Totals, until \in {{}, {day}} :
         /\ IsOpen(asks[i])
         /\ Undertakes(p, [IdleAct EXCEPT !.pc = "writing",
                !.list = [asks EXCEPT ![i].status = "quoted",
                                      ![i].quote = {[total |-> total, until |-> until,
                                                     note |-> askScene.noted]}]])
  BY DEF QuotePlanRequest
<1>2. /\ asks \in Seq(AskType) /\ askScene.noted \in BOOLEAN /\ day \in 0..Days /\ p \in AskActors
  BY DEF AskInv, AskTypes, AskSceneType, AskActors
<1> DEFINE price == [total |-> total, until |-> until, note |-> askScene.noted]
<1>3. price \in QuoteType
  BY <1>2 DEF QuoteType
<1> HIDE DEF price
<1>4. asks[i] \in AskType
  BY <1>2
<1> DEFINE r == [asks[i] EXCEPT !.status = "quoted", !.quote = {price}]
<1>5. r \in AskType /\ r.id = asks[i].id /\ r.accepted = asks[i].accepted
  BY <1>3, <1>4 DEF AskType
<1>6. [asks EXCEPT ![i].status = "quoted", ![i].quote = {price}] = [asks EXCEPT ![i] = r]
  BY <1>2, <1>4 DEF AskType
<1> HIDE DEF r
<1>7. Undertakes(p, [IdleAct EXCEPT !.pc = "writing", !.list = [asks EXCEPT ![i].status = "quoted", ![i].quote = {price}]])
  BY <1>1 DEF price
<1>8. Undertakes(p, [IdleAct EXCEPT !.pc = "writing", !.list = [asks EXCEPT ![i] = r]])
  BY <1>6, <1>7
<1>9. QED
  BY <1>1, <1>2, <1>5, <1>8, AnswerKeeps

LEMMA ResolvePlanRequestKeeps ==
    ASSUME AskInv, NEW p \in Handlers, ResolvePlanRequest(p), askScene' = askScene
    PROVE  AskInv'
<1>1. PICK i \in DOMAIN asks, status \in {"done", "denied"} :
         /\ asks[i].status = "pending"
         /\ Undertakes(p, [IdleAct EXCEPT !.pc = "writing", !.list = [asks EXCEPT ![i].status = status]])
  BY DEF ResolvePlanRequest
<1>2. asks \in Seq(AskType) /\ p \in AskActors
  BY DEF AskInv, AskTypes, AskActors
<1>3. asks[i] \in AskType
  BY <1>2
<1> DEFINE r == [asks[i] EXCEPT !.status = status]
<1>4. r \in AskType /\ r.id = asks[i].id /\ r.accepted = asks[i].accepted
  BY <1>3 DEF AskType
<1>5. Undertakes(p, [IdleAct EXCEPT !.pc = "writing", !.list = [asks EXCEPT ![i] = r]])
  BY <1>1
<1> HIDE DEF r
<1>6. IsOpen(asks[i])
  BY <1>1 DEF IsOpen
<1>7. QED
  BY <1>2, <1>4, <1>5, <1>6, AnswerKeeps

LEMMA AcceptPlanQuoteKeeps ==
    ASSUME AskInv, NEW p \in Handlers, AcceptPlanQuote(p), askScene' = askScene
    PROVE  AskInv'
<1>1. PICK i \in DOMAIN asks :
         \E q \in asks[i].quote : Undertakes(p, [IdleAct EXCEPT !.pc = "selling", !.id = asks[i].id, !.total = q.total])
  BY DEF AcceptPlanQuote
<1> PICK q \in asks[i].quote : Undertakes(p, [IdleAct EXCEPT !.pc = "selling", !.id = asks[i].id, !.total = q.total])
  BY <1>1
<1>2. asks \in Seq(AskType) /\ p \in AskActors
  BY DEF AskInv, AskTypes, AskActors
<1>3. asks[i] \in AskType
  BY <1>2
<1>4. asks[i].id \in Nat /\ q \in QuoteType
  BY <1>3 DEF AskType
<1> DEFINE next == [IdleAct EXCEPT !.pc = "selling", !.id = asks[i].id, !.total = q.total]
<1>9. q.total \in Totals \cup {0}
  BY <1>4 DEF QuoteType
<1>5. next \in ActType /\ next.pc = "selling" /\ next.id = asks[i].id /\ next.total = q.total
  BY <1>4, <1>9, IdleActIs DEF ActType
<1>6. Undertakes(p, next)
  OBVIOUS
<1> HIDE DEF next
<1>7. askScene.serial => QuotedAt(next.id, next.total)
  BY <1>5 DEF AskInv, Proper, QuotedAt
<1>8. QED
  BY <1>2, <1>5, <1>6, <1>7, ActBegins

LEMMA AsksGoOn == AskInv /\ AskNext => AskInv'
<1> SUFFICES ASSUME AskInv, AskNext PROVE AskInv'
  OBVIOUS
<1>1. askScene' = askScene
  BY DEF AskNext
<1>2. ASSUME NEW m \in Askers, RequestPlanChange(m) \/ RequestSeatChange(m) PROVE AskInv'
  BY <1>1, <1>2, RequestPlanChangeKeeps, RequestSeatChangeKeeps
<1>3. ASSUME NEW p \in Handlers, QuotePlanRequest(p) \/ ResolvePlanRequest(p) \/ AcceptPlanQuote(p) PROVE AskInv'
  BY <1>1, <1>3, QuotePlanRequestKeeps, ResolvePlanRequestKeeps, AcceptPlanQuoteKeeps
<1>4. ASSUME NEW p \in AskActors, AskSteps(p) PROVE AskInv'
  BY <1>1, <1>4, SellKeeps, MarkKeeps, WriteKeeps, GiveUpKeeps DEF AskSteps
<1>5. ASSUME NEW key \in PlanKeys, PlanMoves(key) PROVE AskInv'
  <2>1. UNCHANGED <<asks, act, asked, invoices>> /\ current' \in SUBSET PlanKeys /\ day' \in 0..Days
    BY <1>5 DEF PlanMoves, AskInv, AskTypes
  <2>2. QED
    BY <1>1, <2>1, AsksStay
<1>6. CASE NextDay
  <2>1. UNCHANGED <<asks, act, asked, invoices>> /\ current' \in SUBSET PlanKeys /\ day' \in 0..Days
    BY <1>6, PlanAskAssumption DEF NextDay, AskInv, AskTypes
  <2>2. QED
    BY <1>1, <2>1, AsksStay
<1>7. QED
  BY <1>2, <1>3, <1>4, <1>5, <1>6 DEF AskNext

LEMMA AsksBegin == AskInit => AskInv
<1> SUFFICES ASSUME AskInit PROVE AskInv
  OBVIOUS
<1>1. /\ askScene \in AskSceneType /\ current = askScene.current /\ day = 0 /\ asks = <<>>
      /\ act = [p \in AskActors |-> IdleAct] /\ asked = 0 /\ invoices = {}
  BY AskSceneAssumption DEF AskInit
<1>2. current \in SUBSET PlanKeys /\ day \in 0..Days
  BY <1>1, PlanAskAssumption DEF AskSceneType
<1>3. asks \in Seq(AskType) /\ DOMAIN asks = {}
  BY <1>1
<1>4. AskTypes
  BY <1>1, <1>2, <1>3, IdleActIs DEF AskTypes
<1>5. Proper(asks, asked)
  BY <1>3 DEF Proper
<1>6. \A p \in AskActors : act[p].pc = "idle"
  BY <1>1, IdleActIs
<1>7. QED
  BY <1>1, <1>4, <1>5, <1>6 DEF AskInv, AsksInTurn, At, ActSound

LEMMA InvoicedOnce == AskInv => QuoteIsInvoicedOnce
  BY DEF AskInv, QuoteIsInvoicedOnce, Proper, InvoicedAt

\* Only the write at the end of an operation changes the queue of asks.
LEMMA OnlyWritesAnswer ==
    ASSUME AskNext
    PROVE  asks' = asks \/ \E p \in AskActors : Write(p)
<1>1. ASSUME NEW m \in Askers, RequestPlanChange(m) \/ RequestSeatChange(m) PROVE asks' = asks
  BY <1>1 DEF RequestPlanChange, RequestSeatChange, Undertakes
<1>2. ASSUME NEW p \in Handlers, QuotePlanRequest(p) \/ ResolvePlanRequest(p) \/ AcceptPlanQuote(p) PROVE asks' = asks
  BY <1>2 DEF QuotePlanRequest, ResolvePlanRequest, AcceptPlanQuote, Undertakes
<1>3. ASSUME NEW p \in AskActors, SellCredits(p) \/ MarkPlanQuoteAccepted(p) \/ GivesUp(p) PROVE asks' = asks
  BY <1>3 DEF SellCredits, MarkPlanQuoteAccepted, GivesUp
<1>4. ASSUME NEW key \in PlanKeys, PlanMoves(key) PROVE asks' = asks
  BY <1>4 DEF PlanMoves
<1>5. NextDay => asks' = asks
  BY DEF NextDay
<1>6. QED
  BY <1>1, <1>2, <1>3, <1>4, <1>5 DEF AskNext, AskSteps

\* What a write leaves out of the queue it answers, or it had been settled.
LEMMA OpenAsksStay ==
    ASSUME AskInv, NEW p \in AskActors, Write(p), askScene.serial, NEW i \in DOMAIN asks, IsOpen(asks[i])
    PROVE  \/ \E k \in DOMAIN asks' : asks'[k].id = asks[i].id
           \/ \E r \in {act[p].list[k] : k \in DOMAIN act[p].list} : r.id = asks[i].id /\ ~IsOpen(r)
<1> DEFINE list == act[p].list
<1>1. list \in Seq(AskType) /\ HasEach(list)
  BY DEF AskInv, AskTypes, ActType, ActSound, Write, At
<1>2. asks' = Pack(list) \/ asks' = asks
  BY DEF Write
<1>3. PICK k \in DOMAIN list : list[k].id = asks[i].id
  BY <1>1 DEF HasEach
<1>4. ASSUME IsOpen(list[k]), NEW t, t = Pack(list) PROVE \E j \in DOMAIN t : t[j].id = asks[i].id
  <2>1. \A n \in DOMAIN list : IsOpen(list[n]) => \E j \in DOMAIN t : Like(t[j], list[n])
    BY <1>1, <1>4, PackHas
  <2>2. QED
    BY <1>3, <1>4, <2>1 DEF Like
<1>5. CASE ~IsOpen(list[k])
  BY <1>3, <1>5
<1>6. CASE IsOpen(list[k]) /\ asks' = Pack(list)
  BY <1>4, <1>6
<1>7. CASE asks' = asks
  BY <1>7
<1>8. QED
  BY <1>2, <1>5, <1>6, <1>7

-----------------------------------------------------------------------------
(* The two queues together. *)

QueueInv == TopUpInv /\ AskInv

LEMMA TopUpsRest == ASSUME TopUpInv, UNCHANGED topUpVars PROVE TopUpInv'
<1>1. UNCHANGED <<topUpScene, topUps, grants, legacy, begun, promised, given>> /\ turn' = turn /\ topUpOp' = topUpOp
  BY DEF topUpVars
<1>2. turn' \in [Windows -> 0..MaxTurns]
  BY <1>1 DEF TopUpInv, QueueSound, TopUpTypes
<1>3. QED
  BY <1>1, <1>2, TopUpsStay

LEMMA AsksRest == ASSUME AskInv, UNCHANGED askVars PROVE AskInv'
<1>1. UNCHANGED <<askScene, asks, act, asked, invoices>> /\ current' = current /\ day' = day
  BY DEF askVars
<1>2. current' \in SUBSET PlanKeys /\ day' \in 0..Days
  BY <1>1 DEF AskInv, AskTypes
<1>3. QED
  BY <1>1, <1>2, AsksStay

\* A step of the organization, seen from the queues.
LEMMA QueueSteps ==
    ASSUME [Next]_vars
    PROVE  \/ TopUpNext /\ UNCHANGED askVars
           \/ AskNext /\ UNCHANGED topUpVars
           \/ \E p \in AskActors : WriteAsks(p)
           \/ UNCHANGED topUpVars /\ UNCHANGED askVars
<1>1. CASE QueuesNext
  BY <1>1 DEF QueuesNext, AskStep
<1>2. CASE UNCHANGED queueVars
  BY <1>2 DEF queueVars
<1>3. QED
  BY <1>1, <1>2 DEF Next, vars

LEMMA QueuesGoOn == QueueInv /\ [Next]_vars => QueueInv'
<1> SUFFICES ASSUME QueueInv, [Next]_vars PROVE QueueInv'
  OBVIOUS
<1>1. TopUpInv /\ AskInv
  BY DEF QueueInv
<1>2. CASE TopUpNext /\ UNCHANGED askVars
  BY <1>1, <1>2, TopUpsGoOn, AsksRest DEF QueueInv
<1>3. CASE AskNext /\ UNCHANGED topUpVars
  BY <1>1, <1>3, TopUpsRest, AsksGoOn DEF QueueInv
<1>4. ASSUME NEW p \in AskActors, WriteAsks(p) PROVE QueueInv'
  <2>1. Write(p) /\ askScene' = askScene
    BY <1>4 DEF WriteAsks
  <2>2. MigrateLegacyKeys /\ (topUpScene.serial => \A q \in Callers : AtStep(q, "idle"))
    BY <1>4 DEF WriteAsks
  <2>3. QED
    BY <1>1, <2>1, <2>2, WriteKeeps, MoveLegacyKeeps DEF QueueInv
<1>5. CASE UNCHANGED topUpVars /\ UNCHANGED askVars
  BY <1>1, <1>5, TopUpsRest, AsksRest DEF QueueInv
<1>6. QED
  BY <1>2, <1>3, <1>4, <1>5, QueueSteps

LEMMA QueuesAreSound == Spec => []QueueInv
<1>1. Init => QueueInv
  BY TopUpsBegin, AsksBegin DEF Init, QueuesInit, QueueInv
<1>2. QED
  BY <1>1, QueuesGoOn, PTL DEF Spec

\* A member never has more of a window than was granted for it; and where the
\* top-ups run one operation at a time and the member's metadata can be read, has
\* all of it, as long as it was granted no more windows than a value keeps.
THEOREM GrantsKept == Spec => []GrantsAreKept
<1>1. QueueInv => GrantsAreKept
  BY GrantsAreWhole DEF QueueInv
<1>2. QED
  BY <1>1, QueuesAreSound, PTL

\* An approved top-up has been given, and one operation at a time gives it once; a
\* quoted ask is invoiced once, as long as Stripe remembers the sale, and one that is
\* recorded as accepted has been invoiced at a price it was quoted.
THEOREM SettledIsSettled == Spec => []SettledOnce
<1>1. QueueInv => SettledOnce
  BY ApprovedOnce, InvoicedOnce DEF QueueInv, SettledOnce
<1>2. QED
  BY <1>1, QueuesAreSound, PTL

\* Nothing that waits for an answer leaves either queue for want of room: an open
\* plan ask stays until an operation answers it, and a pending top-up is given up
\* only when nothing settled is left to give up.
THEOREM AsksKept == Spec => AsksAreKept
<1>1. QueueInv /\ [Next]_vars =>
        [askScene.serial =>
            \A i \in DOMAIN asks : IsOpen(asks[i]) =>
                \/ \E k \in DOMAIN asks' : asks'[k].id = asks[i].id
                \/ \E p \in AskActors : \E r \in {act[p].list[k] : k \in DOMAIN act[p].list} :
                      r.id = asks[i].id /\ ~IsOpen(r)]_askVars
  <2> SUFFICES ASSUME QueueInv, [Next]_vars, askScene.serial, NEW i \in DOMAIN asks, IsOpen(asks[i])
               PROVE  \/ \E k \in DOMAIN asks' : asks'[k].id = asks[i].id
                      \/ \E p \in AskActors : \E r \in {act[p].list[k] : k \in DOMAIN act[p].list} :
                            r.id = asks[i].id /\ ~IsOpen(r)
    OBVIOUS
  <2>1. asks' = asks \/ \E p \in AskActors : Write(p)
    BY QueueSteps, OnlyWritesAnswer DEF askVars, WriteAsks
  <2>2. CASE asks' = asks
    BY <2>2
  <2>3. CASE \E p \in AskActors : Write(p)
    BY <2>3, OpenAsksStay DEF QueueInv
  <2>4. QED
    BY <2>1, <2>2, <2>3
<1>2. QueueInv /\ [Next]_vars =>
        [topUpScene.serial =>
            \A i \in DOMAIN topUps :
                topUps[i].status = "pending" /\ (\A k \in DOMAIN topUps' : topUps'[k].id # topUps[i].id)
                    => \A k \in DOMAIN topUps' : topUps'[k].status = "pending"]_topUpVars
  <2> SUFFICES ASSUME QueueInv, [Next]_vars, topUpScene.serial, NEW i \in DOMAIN topUps, topUps[i].status = "pending",
                      \A k \in DOMAIN topUps' : topUps'[k].id # topUps[i].id
               PROVE  \A k \in DOMAIN topUps' : topUps'[k].status = "pending"
    OBVIOUS
  <2>1. topUps' # topUps
    OBVIOUS
  <2>2. TopUpNext
    BY <2>1, QueueSteps DEF topUpVars, WriteAsks, MigrateLegacyKeys
  <2>3. QED
    BY <2>2, WaitingStay DEF QueueInv
<1>3. QED
  BY <1>1, <1>2, QueuesAreSound, PTL DEF Spec, AsksAreKept, OpenAsksAreKept, WaitingAsksAreKept

=============================================================================
