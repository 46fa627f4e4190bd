-------------------------- MODULE StorefrontProofs --------------------------
(***************************************************************************)
(* Proofs about Storefront, for any customer, charges, processes, places,  *)
(* tax numbers, rates and deployments.                                     *)
(***************************************************************************)
EXTENDS Storefront, SequenceTheorems, TLAPS
LOCAL INSTANCE SequencesExt

-----------------------------------------------------------------------------
(* What the account and its calls are made of. *)

TaxIdType == [id : Nat, number : Numbers]
AddressType == [line : Lines \cup {NoLine}, country : Countries \cup {NoCountry}]
ChorePcs == {"idle", "read", "write", "list", "create", "delete", "look", "own", "set", "detach", "touch"}
ChoreStateType ==
    [pc : ChorePcs, ask : ChoreType, line : Lines \cup {NoLine}, country : Countries \cup {NoCountry},
     ids : Seq(TaxIdType), doomed : SUBSET Nat, got : SUBSET {"default", "cards"},
     default : Cards \cup {NoCard}, cards : Seq(Cards), todo : Seq(Cards)]

AccountTypes ==
    /\ accountScene \in AccountSceneType
    /\ address \in AddressType
    /\ taxIds \in Seq(TaxIdType) /\ madeIds \in Nat
    /\ cards \in Seq(Cards) /\ default \in Cards \cup {NoCard}
    /\ rank \in [Cards -> Nat] /\ moment \in Nat
    /\ chore \in [Holders -> ChoreStateType] /\ chores \in Nat /\ saved \subseteq Cards

(* What a charge is made of, and what it knows where it stands. *)

ChargePcs == Ended \cup {"account", "customer", "vies", "list", "joining", "mint", "session"}
IsCharge(call) ==
    /\ call = [pc |-> call.pc, kind |-> call.kind, process |-> call.process, place |-> call.place,
               number |-> call.number, decision |-> call.decision, rate |-> call.rate]
    /\ call.pc \in ChargePcs /\ call.kind \in {"charge", "open", "retax"} /\ call.process \in Servers
    /\ call.number \in Numbers \cup {NoNumber}

TaxTypes ==
    /\ taxScene \in TaxSceneType
    /\ charge = [c \in Sales |-> charge[c]] /\ \A c \in Sales : IsCharge(charge[c])
    /\ verified \in [Servers -> [Vats -> Nat]] /\ stood \in [Vats -> Nat] /\ now \in Nat

\* Whoever takes a number as confirmed has had that answer within a day, or the
\* number was withdrawn less than a day after it.
VerifiedOnce ==
    /\ standing \subseteq taxScene.confirmed
    /\ \A p \in Servers, vat \in Vats :
          verified[p][vat] > 0 =>
             /\ vat \in taxScene.confirmed /\ verified[p][vat] <= now + Ttl
             /\ vat \in standing \/ verified[p][vat] <= stood[vat] + Ttl

\* VIES is asked about a number of the customer's own country, across a border.
AskedIfItMatters ==
    \A c \in Sales : charge[c].pc = "vies" =>
        MayReverse(Tax, charge[c].place) /\ WorthAsking(charge[c].number, charge[c].place)

\* What is billed was decided from the declaration and the charge's own place, and
\* not guessed.
IsDecided(call) ==
    ~call.decision.approximate
       /\ \E confirmed \in BOOLEAN : call.decision = ResolveTax(Tax, call.place, confirmed)
DecidedIfBilled ==
    \A c \in Sales : charge[c].pc \in {"list", "joining", "mint", "session", "billed"} => IsDecided(charge[c])

\* One session is open at a time in a serial scene, and whoever writes it is the last
\* that began.
Writes(c) == charge[c].kind # "charge"
WritersInTurn ==
    /\ \A c \in Sales : Stage(c, "idle") => ~Writes(c)
    /\ \A c \in Sales : Stage(c, "session") => Writes(c)
    /\ (\E c \in Sales : Writes(c)) => newest \in Sales /\ Writes(newest)
    /\ openRate # <<>> => \E c \in Sales : Writes(c)
    /\ taxScene.serial => \A c \in Sales : Writes(c) /\ charge[c].pc \notin Ended => c = newest

(* What keeps the account: what its calls hold is of the account. *)

\* Calls that are to follow one another do.
Calling(h) == chore[h].pc # "idle"
OneAtATime == accountScene.serial => \A g, h \in Holders : Calling(g) /\ Calling(h) => g = h

\* A tax id has a name of its own, that nobody has written down before it was made.
TaxIdCall(h) == chore[h].ask \in accountScene.chores /\ chore[h].ask.kind = "taxId"
IdsAreTold ==
    /\ \A i \in DOMAIN taxIds : taxIds[i].id <= madeIds
    /\ \A i, j \in DOMAIN taxIds : taxIds[i].id = taxIds[j].id => i = j
    /\ \A h \in Holders :
          /\ \A i \in DOMAIN chore[h].ids : chore[h].ids[i].id <= madeIds
          /\ \A id \in chore[h].doomed : id <= madeIds
          /\ chore[h].doomed # {} => chore[h].pc = "delete"
          /\ chore[h].pc \in {"list", "create", "delete"} => TaxIdCall(h)

\* Two calls at once that save new numbers: between them they make no more than two,
\* a call that has still to make its own leaves room for it, what is not of the
\* first numbers is made since, and nobody means to delete the newest.
InPairs == Removals = {} /\ OnFileAlready = {} /\ accountScene.count <= 2
KeepsAnId == accountScene.numbers # <<>> /\ Removals = {} /\ (accountScene.serial \/ InPairs)
Made == madeIds - Len(accountScene.numbers)
MayMake(h) == chore[h].pc \in {"list", "create"}
InPairsMade ==
    InPairs =>
       /\ chores <= 2 /\ Made \in Nat /\ Made <= chores
       /\ \A h \in Holders : MayMake(h) => Made + 1 <= chores
       /\ \A g, h \in Holders : MayMake(g) /\ MayMake(h) /\ g # h => Made + 2 <= chores
       /\ \A f, g, h \in Holders : MayMake(f) /\ MayMake(g) /\ MayMake(h) => f = g \/ g = h \/ f = h
       /\ \A i \in DOMAIN taxIds :
             taxIds[i].id <= Len(accountScene.numbers) => taxIds[i].number \in ToSet(accountScene.numbers)
       /\ Made > 0 => \A h \in Holders : madeIds \notin chore[h].doomed

\* There is a tax id that nobody means to delete.
OneSurvives ==
    KeepsAnId => \E i \in DOMAIN taxIds : \A h \in Holders : taxIds[i].id \notin chore[h].doomed

\* The cards on file differ, and the default is one of them.
Announces(h) == chore[h].ask.kind \in {"attached", "chosen"}
CardsAreOnFile ==
    /\ Distinct(cards) /\ \A card \in ToSet(cards) : rank[card] > 0
    /\ default \in ToSet(cards) \cup {NoCard}
    /\ saved \subseteq accountScene.saves
    /\ \A h \in Holders : Announces(h) =>
          chore[h].ask.card \in accountScene.saves /\ chore[h].pc \in {"look", "own", "set"}

\* Without a default there are only cards nobody has been told of yet; and what a
\* call saw of the cards and the default is so, but for a card saved meanwhile.
OneByOne == accountScene.serial /\ accountScene.faults = {} /\ (\A a, b \in accountScene.saves : a = b)
Awaits(card) == card \in saved \/ \E h \in Holders : Announces(h) /\ chore[h].ask.card = card
Sees(h) ==
    /\ "default" \in chore[h].got => chore[h].default = default
    /\ "cards" \in chore[h].got =>
          ToSet(chore[h].cards) \subseteq ToSet(cards) /\ ToSet(cards) \subseteq ToSet(chore[h].cards) \cup saved
    /\ chore[h].ask.kind = "detach" =>
          Attached(chore[h].ask.card) /\ ("cards" \in chore[h].got => chore[h].ask.card \in ToSet(chore[h].cards))
DefaultAwaited ==
    OneByOne =>
       /\ default = NoCard => \A card \in ToSet(cards) : Awaits(card)
       /\ \A h \in Holders : chore[h].pc \in {"look", "detach"} => Sees(h)
       /\ \A h \in Holders : chore[h].pc = "detach" =>
             chore[h].ask.kind = "detach" /\ chore[h].got = {"default", "cards"} /\ MayDetach(h)

KeepInv == OneAtATime /\ IdsAreTold /\ InPairsMade /\ OneSurvives /\ CardsAreOnFile /\ DefaultAwaited

TaxInv == TaxTypes /\ VerifiedOnce /\ AskedIfItMatters /\ DecidedIfBilled /\ WritersInTurn /\ SessionFollows
StorefrontInv == AccountTypes /\ KeepInv /\ TaxInv

-----------------------------------------------------------------------------
(* Lists. *)

\* A list without one of its places keeps the others.
LEMMA WithoutOne ==
  ASSUME NEW S, NEW list \in Seq(S), NEW i \in DOMAIN list
  PROVE  /\ RemoveAt(list, i) \in Seq(S) /\ Len(RemoveAt(list, i)) = Len(list) - 1
         /\ \A j \in 1..Len(list) - 1 : RemoveAt(list, i)[j] = IF j < i THEN list[j] ELSE list[j + 1]
<1>1. i \in 1..Len(list) /\ Len(list) \in Nat /\ \A j \in 1..Len(list) : list[j] \in S
  BY LenProperties
<1> DEFINE front == SubSeq(list, 1, i - 1)
           back == SubSeq(list, i + 1, Len(list))
<1>2. front \in Seq(S) /\ Len(front) = i - 1 /\ \A j \in 1..i - 1 : front[j] = list[j]
  <2>1. 1 \in Int /\ i - 1 \in Int /\ \A j \in 1..i - 1 : list[j] \in S
    BY <1>1
  <2>2. /\ SubSeq(list, 1, i - 1) \in Seq(S)
        /\ Len(SubSeq(list, 1, i - 1)) = IF 1 <= i - 1 THEN (i - 1) - 1 + 1 ELSE 0
        /\ \A j \in 1..(i - 1) - 1 + 1 : SubSeq(list, 1, i - 1)[j] = list[1 + j - 1]
    BY <2>1, SubSeqProperties
  <2> QED
    BY <1>1, <2>2
<1>3. back \in Seq(S) /\ Len(back) = Len(list) - i /\ \A j \in 1..Len(list) - i : back[j] = list[i + j]
  <2>1. i + 1 \in Int /\ Len(list) \in Int /\ \A j \in i + 1..Len(list) : list[j] \in S
    BY <1>1
  <2>2. /\ SubSeq(list, i + 1, Len(list)) \in Seq(S)
        /\ Len(SubSeq(list, i + 1, Len(list))) = IF i + 1 <= Len(list) THEN Len(list) - (i + 1) + 1 ELSE 0
        /\ \A j \in 1..Len(list) - (i + 1) + 1 : SubSeq(list, i + 1, Len(list))[j] = list[i + 1 + j - 1]
    BY <2>1, SubSeqProperties
  <2> QED
    BY <1>1, <2>2
<1>4. RemoveAt(list, i) = front \o back
  BY DEF RemoveAt
<1> HIDE DEF front, back
<1>5. /\ front \o back \in Seq(S) /\ Len(front \o back) = Len(front) + Len(back)
      /\ \A j \in 1..Len(front) + Len(back) :
            (front \o back)[j] = IF j <= Len(front) THEN front[j] ELSE back[j - Len(front)]
  BY <1>2, <1>3, ConcatProperties
<1>6. ASSUME NEW j \in 1..Len(list) - 1
      PROVE  (front \o back)[j] = IF j < i THEN list[j] ELSE list[j + 1]
  <2>0. j \in Int /\ i \in Int /\ Len(list) \in Int /\ 1 <= j /\ j <= Len(list) - 1 /\ 1 <= i /\ i <= Len(list)
    BY <1>1
  <2>1. (front \o back)[j] = IF j <= i - 1 THEN front[j] ELSE back[j - (i - 1)]
    <3>1. Len(front) = i - 1 /\ Len(back) = Len(list) - i
      BY <1>2, <1>3
    <3>2. j \in 1..Len(front) + Len(back)
      BY <2>0, <3>1
    <3> QED
      BY <1>5, <3>1, <3>2
  <2>2. j < i => front[j] = list[j]
    BY <1>2, <2>0
  <2>3. ASSUME j >= i PROVE back[j - (i - 1)] = list[j + 1]
    <3> DEFINE k == j - (i - 1)
    <3>1. k \in 1..Len(list) - i /\ i + k = j + 1
      BY <2>0, <2>3
    <3> HIDE DEF k
    <3> QED
      BY <1>3, <3>1 DEF k
  <2> QED
    BY <2>0, <2>1, <2>2, <2>3
<1>7. Len(front \o back) = Len(list) - 1
  BY <1>1, <1>2, <1>3, <1>5
<1> QED
  BY <1>4, <1>5, <1>6, <1>7

LEMMA MembersOf ==
  ASSUME NEW S, NEW list \in Seq(S)
  PROVE  ToSet(list) \subseteq S
BY DEF ToSet
-----------------------------------------------------------------------------
(* The account keeps its types. *)

LEMMA IdleIs == Idle \in ChoreStateType
BY DEF Idle, ChoreStateType, ChorePcs, Chore, ChoreType

\* A call goes on with its request, and with what it has read.
LEMMA ChoreMoves ==
  ASSUME NEW call \in ChoreStateType, NEW pc \in ChorePcs
  PROVE  [call EXCEPT !.pc = pc] \in ChoreStateType
BY DEF ChoreStateType

LEMMA AccountBegins ==
  ASSUME AccountTypes, NEW h \in Holders, NEW ask \in accountScene.chores, Begin(h, ask)
  PROVE  AccountTypes'
<1> DEFINE next == [Idle EXCEPT !.pc = First(ask), !.ask = ask]
<1>1. ask \in ChoreType
  BY DEF AccountTypes, AccountSceneType
<1>2. First(ask) \in ChorePcs
  BY <1>1 DEF First, ChoreType, ChorePcs
<1>3. next \in ChoreStateType
  BY <1>1, <1>2, IdleIs DEF ChoreStateType
<1> HIDE DEF next
<1>4. chore' = [chore EXCEPT ![h] = next] /\ chores' = chores + 1 /\ saved' \subseteq saved
  BY DEF Begin, Becomes, next
<1> QED
  BY <1>3, <1>4 DEF AccountTypes, Begin

LEMMA AddressStep ==
  ASSUME AccountTypes, NEW h \in Holders, ReadAddress(h) \/ WriteAddress(h)
  PROVE  AccountTypes'
<1>1. chore[h] \in ChoreStateType /\ chore[h].ask \in ChoreType
  BY DEF AccountTypes, ChoreStateType
<1>2. CASE ReadAddress(h)
  <2> DEFINE ask == chore[h].ask
             line == IF ask.line = Keep THEN address.line ELSE ask.line
             country == IF ask.country = Keep THEN address.country ELSE ask.country
             wrote == [chore[h] EXCEPT !.pc = "write", !.line = line, !.country = country]
             next == IF NoLine = line \/ NoCountry = country THEN Idle ELSE wrote
  <2>1. line \in Lines \cup {NoLine} /\ country \in Countries \cup {NoCountry}
    BY <1>1 DEF ChoreType, AccountTypes, AddressType
  <2> HIDE DEF line, country
  <2>2. wrote \in ChoreStateType
    BY <1>1, <2>1 DEF ChoreStateType, ChorePcs
  <2>3. chore' = [chore EXCEPT ![h] = next]
    BY <1>2 DEF ReadAddress, Becomes, line, country
  <2>4. next \in ChoreStateType
    BY <2>2, IdleIs
  <2> HIDE DEF next
  <2> QED
    BY <1>2, <2>3, <2>4 DEF AccountTypes, ReadAddress
<1>3. CASE WriteAddress(h)
  <2>1. address' \in AddressType
    BY <1>1, <1>3 DEF WriteAddress, ChoreStateType, AddressType
  <2> QED
    BY <1>3, <2>1, IdleIs DEF AccountTypes, WriteAddress, Becomes
<1> QED
  BY <1>2, <1>3

LEMMA IdsAreNumbers ==
  ASSUME NEW list \in Seq(TaxIdType), NEW places \in SUBSET DOMAIN list
  PROVE  {list[i].id : i \in places} \in SUBSET Nat
<1>1. \A i \in DOMAIN list : list[i] \in TaxIdType
  OBVIOUS
<1>2. \A i \in DOMAIN list : list[i].id \in Nat
  BY <1>1 DEF TaxIdType
<1> QED
  BY <1>2

LEMMA TaxIdsListed ==
  ASSUME AccountTypes, NEW h \in Holders, ListTaxIds(h)
  PROVE  AccountTypes'
<1> DEFINE number == chore[h].ask.number
           same == {i \in DOMAIN taxIds : taxIds[i].number = number}
           all == {taxIds[i].id : i \in DOMAIN taxIds}
           others == {taxIds[i].id : i \in DOMAIN taxIds \ same}
           deletes(ids) == [chore[h] EXCEPT !.pc = "delete", !.doomed = ids]
           creates == [chore[h] EXCEPT !.pc = "create", !.ids = taxIds]
           next == IF number = NoNumber THEN deletes(all) ELSE IF same # {} THEN deletes(others) ELSE creates
<1>1. chore[h] \in ChoreStateType /\ taxIds \in Seq(TaxIdType)
  BY DEF AccountTypes
<1>2. all \subseteq Nat /\ others \subseteq Nat
  <2> DEFINE rest == DOMAIN taxIds \ same
  <2>1. rest \in SUBSET DOMAIN taxIds
    OBVIOUS
  <2> HIDE DEF rest
  <2>2. {taxIds[i].id : i \in rest} \in SUBSET Nat
    BY <1>1, <2>1, IdsAreNumbers
  <2>3. all \in SUBSET Nat
    BY <1>1, IdsAreNumbers
  <2> QED
    BY <2>2, <2>3 DEF rest
<1>3. \A ids \in SUBSET Nat : deletes(ids) \in ChoreStateType
  BY <1>1 DEF ChoreStateType, ChorePcs
<1>4. creates \in ChoreStateType
  BY <1>1 DEF ChoreStateType, ChorePcs
<1>5. chore' = [chore EXCEPT ![h] = next]
  BY DEF ListTaxIds, Becomes
<1> HIDE DEF deletes, creates, all, others, same
<1>6. next \in ChoreStateType
  BY <1>2, <1>3, <1>4
<1> HIDE DEF next
<1> QED
  BY <1>5, <1>6 DEF AccountTypes, ListTaxIds

LEMMA TaxIdCreated ==
  ASSUME AccountTypes, NEW h \in Holders, CreateTaxId(h)
  PROVE  AccountTypes'
<1> DEFINE number == chore[h].ask.number
           doomed == {chore[h].ids[i].id : i \in DOMAIN chore[h].ids}
           next == [chore[h] EXCEPT !.pc = "delete", !.doomed = doomed]
           made == [id |-> madeIds + 1, number |-> number]
<1>1. chore[h] \in ChoreStateType /\ taxIds \in Seq(TaxIdType) /\ chore[h].ids \in Seq(TaxIdType) /\ madeIds \in Nat
  BY DEF AccountTypes, ChoreStateType
<1>2. CASE number.formed /\ madeIds' = madeIds + 1 /\ taxIds' = <<made>> \o taxIds /\ Becomes(h, next)
  <2>1. number \in Numbers
    BY <1>1, <1>2 DEF ChoreStateType, ChoreType, NoNumber
  <2>2. made \in TaxIdType
    BY <1>1, <2>1 DEF TaxIdType
  <2>3. taxIds' \in Seq(TaxIdType)
    BY <1>1, <1>2, <2>2, ConcatProperties
  <2>4. doomed \subseteq Nat
    BY <1>1, IdsAreNumbers
  <2> HIDE DEF doomed
  <2>5. next \in ChoreStateType
    BY <1>1, <2>4 DEF ChoreStateType, ChorePcs
  <2>6. madeIds' \in Nat /\ chore' \in [Holders -> ChoreStateType]
    BY <1>1, <1>2, <2>5 DEF Becomes, AccountTypes
  <2> QED
    BY <2>3, <2>6 DEF AccountTypes, CreateTaxId
<1>3. CASE Becomes(h, Idle) /\ UNCHANGED <<taxIds, madeIds>>
  <2>1. chore' \in [Holders -> ChoreStateType]
    BY <1>3, IdleIs DEF Becomes, AccountTypes
  <2> QED
    BY <1>3, <2>1 DEF AccountTypes, CreateTaxId
<1> QED
  BY <1>2, <1>3 DEF CreateTaxId

LEMMA TaxIdDeleted ==
  ASSUME AccountTypes, NEW h \in Holders, DeleteTaxId(h)
  PROVE  AccountTypes'
<1>1. chore[h] \in ChoreStateType /\ taxIds \in Seq(TaxIdType)
  BY DEF AccountTypes
<1>2. taxIds' \in Seq(TaxIdType)
  <2>1. ASSUME NEW i \in DOMAIN taxIds PROVE RemoveAt(taxIds, i) \in Seq(TaxIdType)
    BY <1>1, WithoutOne
  <2> QED
    BY <1>1, <2>1 DEF DeleteTaxId
<1>3. chore' \in [Holders -> ChoreStateType]
  <2>1. \A id : [chore[h] EXCEPT !.doomed = @ \ {id}] \in ChoreStateType
    BY <1>1 DEF ChoreStateType
  <2>2. PICK next \in ChoreStateType : chore' = [chore EXCEPT ![h] = next]
    BY <2>1, IdleIs DEF DeleteTaxId, Becomes
  <2> QED
    BY <2>2 DEF AccountTypes
<1> QED
  BY <1>2, <1>3 DEF AccountTypes, DeleteTaxId

LEMMA CardsLookedAt ==
  ASSUME AccountTypes, NEW h \in Holders, LookAtDefault(h) \/ LookAtCards(h) \/ Announced(h) \/ Looked(h)
  PROVE  AccountTypes'
<1>1. chore[h] \in ChoreStateType /\ cards \in Seq(Cards) /\ default \in Cards \cup {NoCard}
  BY DEF AccountTypes
<1>2. [chore[h] EXCEPT !.got = @ \cup {"default"}, !.default = default] \in ChoreStateType
  BY <1>1 DEF ChoreStateType
<1>3. [chore[h] EXCEPT !.got = @ \cup {"cards"}, !.cards = cards] \in ChoreStateType
  BY <1>1 DEF ChoreStateType
<1>4. [chore[h] EXCEPT !.pc = "own"] \in ChoreStateType /\ [chore[h] EXCEPT !.pc = "detach"] \in ChoreStateType
  BY <1>1, ChoreMoves DEF ChorePcs
<1>5. PICK next \in ChoreStateType : chore' = [chore EXCEPT ![h] = next]
  BY <1>2, <1>3, <1>4, IdleIs DEF LookAtDefault, LookAtCards, Announced, Looked, Becomes
<1> QED
  BY <1>5 DEF AccountTypes, LookAtDefault, LookAtCards, Announced, Looked

\* Cards to prune, the stalest first.
LEMMA PruneBegins ==
  ASSUME AccountTypes, NEW h \in Holders, Pruned(h)
  PROVE  AccountTypes'
<1>1. chore[h] \in ChoreStateType /\ chore[h].cards \in Seq(Cards)
  BY DEF AccountTypes, ChoreStateType
<1> DEFINE kept == ToSet(chore[h].cards) \ {chore[h].default}
           goes(order) == [Idle EXCEPT !.pc = "own", !.todo = Tail(order),
                                       !.ask = [Chore("detach") EXCEPT !.card = Head(order)]]
<1>2. kept \subseteq Cards
  BY <1>1, MembersOf
<1>3. ASSUME NEW n \in 1..Len(chore[h].cards), NEW order \in [1..n -> kept]
      PROVE  goes(order) \in ChoreStateType
  <2> HIDE DEF kept
  <2>1. order \in Seq(Cards) /\ order # <<>>
    BY <1>2, <1>3
  <2>2. Head(order) \in Cards /\ Tail(order) \in Seq(Cards)
    BY <2>1, HeadTailProperties
  <2>3. [Chore("detach") EXCEPT !.card = Head(order)] \in ChoreType
    BY <2>2, SMTT(60) DEF Chore, ChoreType
  <2> QED
    BY <2>2, <2>3, IdleIs DEF ChoreStateType, ChorePcs
<1> HIDE DEF goes
<1>4. PICK next \in ChoreStateType : chore' = [chore EXCEPT ![h] = next]
  BY <1>3, IdleIs DEF Pruned, Becomes, goes
<1> QED
  BY <1>4 DEF AccountTypes, Pruned

LEMMA CardChosen ==
  ASSUME AccountTypes, NEW h \in Holders, CheckOwner(h) \/ SetDefault(h)
  PROVE  AccountTypes'
<1>1. chore[h] \in ChoreStateType /\ cards \in Seq(Cards)
  BY DEF AccountTypes
<1>2. [chore[h] EXCEPT !.pc = "look", !.got = {}] \in ChoreStateType
  BY <1>1 DEF ChoreStateType, ChorePcs
<1>3. [chore[h] EXCEPT !.pc = "set"] \in ChoreStateType
  BY <1>1, ChoreMoves DEF ChorePcs
<1>4. PICK next \in ChoreStateType : chore' = [chore EXCEPT ![h] = next]
  BY <1>2, <1>3, IdleIs DEF CheckOwner, SetDefault, Becomes
<1>5. default' \in Cards \cup {NoCard}
  BY <1>1, MembersOf DEF CheckOwner, SetDefault, Attached, AccountTypes
<1> QED
  BY <1>4, <1>5 DEF AccountTypes, CheckOwner, SetDefault

LEMMA CardDetached ==
  ASSUME AccountTypes, NEW h \in Holders, Detach(h)
  PROVE  AccountTypes'
<1>1. chore[h] \in ChoreStateType /\ cards \in Seq(Cards) /\ chore[h].todo \in Seq(Cards) /\ chore[h].ask \in ChoreType
  BY DEF AccountTypes, ChoreStateType
<1>2. cards' \in Seq(Cards)
  <2>1. ASSUME NEW i \in DOMAIN cards PROVE RemoveAt(cards, i) \in Seq(Cards)
    BY <1>1, WithoutOne
  <2> QED
    BY <1>1, <2>1 DEF Detach
<1> DEFINE goes == [chore[h] EXCEPT !.pc = "own", !.todo = Tail(@), !.ask.card = Head(chore[h].todo)]
<1>3. ASSUME chore[h].todo # <<>> PROVE goes \in ChoreStateType
  <2> DEFINE ask == [chore[h].ask EXCEPT !.card = Head(chore[h].todo)]
             next == [chore[h] EXCEPT !.pc = "own", !.todo = Tail(@), !.ask = ask]
  <2>1. Head(chore[h].todo) \in Cards /\ Tail(chore[h].todo) \in Seq(Cards)
    BY <1>1, <1>3, HeadTailProperties
  <2>2. ask \in ChoreType
    BY <1>1, <2>1 DEF ChoreType
  <2>3. goes = next
    BY <1>1 DEF ChoreStateType
  <2> HIDE DEF ask
  <2>4. next \in ChoreStateType
    BY <1>1, <2>1, <2>2 DEF ChoreStateType, ChorePcs
  <2> QED
    BY <2>3, <2>4
<1> HIDE DEF goes
<1>4. PICK next \in ChoreStateType : chore' = [chore EXCEPT ![h] = next]
  BY <1>3, IdleIs DEF Detach, Becomes, goes
<1>5. default' \in Cards \cup {NoCard}
  BY DEF Detach, AccountTypes
<1> QED
  BY <1>2, <1>4, <1>5 DEF AccountTypes, Detach

LEMMA CardTouched ==
  ASSUME AccountTypes, NEW h \in Holders, Touch(h)
  PROVE  AccountTypes'
<1>1. rank' \in [Cards -> Nat] /\ moment' \in Nat
  <2>1. rank \in [Cards -> Nat] /\ moment + 1 \in Nat /\ moment' = moment + 1
    BY DEF Touch, AccountTypes
  <2>2. \A card : [rank EXCEPT ![card] = moment + 1] \in [Cards -> Nat]
    BY <2>1
  <2> QED
    BY <2>1, <2>2 DEF Touch
<1>2. chore' \in [Holders -> ChoreStateType]
  BY IdleIs DEF Touch, Becomes, AccountTypes
<1> QED
  BY <1>1, <1>2 DEF AccountTypes, Touch

LEMMA CallGivesUp ==
  ASSUME AccountTypes, NEW h \in Holders, GivesUp(h)
  PROVE  AccountTypes'
BY IdleIs DEF AccountTypes, GivesUp, Becomes

LEMMA CardSaved ==
  ASSUME AccountTypes, NEW card \in Cards, SaveCard(card)
  PROVE  AccountTypes'
<1>1. cards' \in Seq(Cards)
  BY ConcatProperties DEF SaveCard, AccountTypes
<1>2. rank' \in [Cards -> Nat] /\ moment' \in Nat
  BY DEF SaveCard, AccountTypes
<1> QED
  BY <1>1, <1>2 DEF AccountTypes, SaveCard

LEMMA AccountTypesStep ==
  ASSUME AccountTypes, AccountStep
  PROVE  AccountTypes'
BY AccountBegins, AddressStep, TaxIdsListed, TaxIdCreated, TaxIdDeleted, CardsLookedAt, PruneBegins,
   CardChosen, CardDetached, CardTouched, CallGivesUp, CardSaved DEF AccountStep

LEMMA AccountTypesInit ==
  ASSUME AccountInit
  PROVE  AccountTypes
<1> DEFINE numbers == accountScene.numbers
<1>1. accountScene \in AccountSceneType
  BY AccountAssumption DEF AccountInit
<1>2. numbers \in Seq(Numbers) /\ cards \in Seq(Cards) /\ address \in AddressType
  BY <1>1 DEF AccountSceneType, AddressType, AccountInit
<1> HIDE DEF numbers
<1>3. taxIds \in Seq(TaxIdType) /\ madeIds \in Nat
  <2>1. Len(numbers) \in Nat /\ DOMAIN numbers = 1..Len(numbers)
    BY <1>2
  <2>2. taxIds = [i \in 1..Len(numbers) |-> [id |-> 1 + Len(numbers) - i, number |-> numbers[i]]]
    BY <2>1 DEF AccountInit, numbers
  <2>3. \A i \in 1..Len(numbers) : 1 + Len(numbers) - i \in Nat /\ numbers[i] \in Numbers
    BY <1>2, <2>1
  <2>4. \A i \in 1..Len(numbers) : [id |-> 1 + Len(numbers) - i, number |-> numbers[i]] \in TaxIdType
    BY <2>3 DEF TaxIdType
  <2>5. taxIds \in [1..Len(numbers) -> TaxIdType]
    BY <2>2, <2>4
  <2>6. taxIds \in Seq(TaxIdType)
    BY <2>1, <2>5
  <2> QED
    BY <2>6 DEF AccountInit
<1>4. default \in Cards \cup {NoCard}
  BY <1>2, HeadTailProperties DEF AccountInit
<1>5. rank \in [Cards -> Nat] /\ moment \in Nat
  <2>1. ASSUME NEW card \in Cards, Attached(card)
        PROVE  1 + Len(cards) - (CHOOSE i \in DOMAIN cards : cards[i] = card) \in Nat
    <3> DEFINE i == CHOOSE i \in DOMAIN cards : cards[i] = card
    <3>1. i \in DOMAIN cards
      BY <2>1 DEF Attached, ToSet
    <3> HIDE DEF i
    <3>2. i \in 1..Len(cards) /\ Len(cards) \in Nat
      BY <1>2, <3>1
    <3> QED
      BY <3>2 DEF i
  <2>2. moment \in Nat
    BY <1>2 DEF AccountInit
  <2> QED
    BY <2>1, <2>2 DEF AccountInit
<1>6. chore \in [Holders -> ChoreStateType] /\ chores \in Nat /\ saved \subseteq Cards
  BY IdleIs DEF AccountInit
<1> QED
  BY <1>1, <1>2, <1>3, <1>4, <1>5, <1>6 DEF AccountTypes
-----------------------------------------------------------------------------
(* What a charge becomes. *)

\* Fields of a charge that stay whatever it is carried into.
Same(next, call) ==
    /\ next.kind = call.kind /\ next.process = call.process
    /\ next.place = call.place /\ next.number = call.number

\* A charge that knows its rate is a charge, decided as before.
LEMMA CarriedOn ==
  ASSUME NEW call, IsCharge(call), NEW rate
  PROVE  LET next == Carrying(call, rate)
         IN  /\ IsCharge(next) /\ Same(next, call) /\ next.decision = call.decision /\ next.rate = rate
             /\ next.pc = IF call.kind = "charge" THEN "billed" ELSE "session"
<1> DEFINE rated == [call EXCEPT !.rate = rate]
           pc == IF call.kind = "charge" THEN "billed" ELSE "session"
           next == [rated EXCEPT !.pc = pc]
<1>1. IsCharge(rated) /\ Same(rated, call) /\ rated.decision = call.decision /\ rated.rate = rate
  BY DEF IsCharge, Same
<1>2. Carrying(call, rate) = next
  BY DEF Carrying, IsCharge
<1>3. pc \in ChargePcs
  BY DEF ChargePcs, Ended
<1> HIDE DEF rated, pc
<1>4. IsCharge(next) /\ Same(next, rated) /\ next.decision = rated.decision /\ next.rate = rated.rate /\ next.pc = pc
  BY <1>1, <1>3 DEF IsCharge, Same
<1>5. Same(next, call)
  BY <1>1, <1>4 DEF Same
<1> QED
  BY <1>1, <1>2, <1>4, <1>5 DEF pc

\* What deciding makes of a charge: the decision of its place, refused if it is a
\* guess; otherwise carried on, or in search of its rate.
Decided(next, call, confirmed) ==
    /\ IsCharge(next) /\ Same(next, call)
    /\ next.decision = ResolveTax(Tax, call.place, confirmed)
    /\ next.pc \in {"refused", "list", "joining", IF call.kind = "charge" THEN "billed" ELSE "session"}
    /\ next.pc # "refused" => ~next.decision.approximate

LEMMA DecidingDecides ==
  ASSUME NEW c, NEW call, IsCharge(call), NEW confirmed \in BOOLEAN, Decides(c, call, confirmed)
  PROVE  \E next : Decided(next, call, confirmed) /\ charge' = [charge EXCEPT ![c] = next]
<1> DEFINE decision == ResolveTax(Tax, call.place, confirmed)
           decided == [call EXCEPT !.decision = decision]
           hit == (CHOOSE f \in Cached(decided) : TRUE).id
           next == IF decided.decision.approximate THEN [decided EXCEPT !.pc = "refused"]
                   ELSE IF RateNamed(decided.decision, Tax.notes) = {} THEN Carrying(decided, 0)
                   ELSE IF Cached(decided) # {} THEN Carrying(decided, hit)
                   ELSE [decided EXCEPT !.pc = IF Joins(decided) THEN "joining" ELSE "list"]
<1>1. charge' = [charge EXCEPT ![c] = next]
  BY DEF Decides
<1> HIDE DEF decision
<1>2. IsCharge(decided) /\ Same(decided, call) /\ decided.decision = decision /\ decided.kind = call.kind
  BY DEF IsCharge, Same
<1> HIDE DEF decided
<1>3. \A pc \in {"refused", "joining", "list"} :
         LET at == [decided EXCEPT !.pc = pc]
         IN  IsCharge(at) /\ Same(at, decided) /\ at.decision = decided.decision /\ at.pc = pc
  BY <1>2 DEF IsCharge, Same, ChargePcs, Ended
<1>4. \A rate : LET at == Carrying(decided, rate)
                IN  /\ IsCharge(at) /\ Same(at, decided) /\ at.decision = decided.decision
                    /\ at.pc = IF decided.kind = "charge" THEN "billed" ELSE "session"
  BY <1>2, CarriedOn
<1>5. Same(next, decided) => Same(next, call)
  BY <1>2 DEF Same
<1>6. IsCharge(next) /\ Same(next, decided) /\ next.decision = decided.decision
  BY <1>3, <1>4
<1>7. next.pc \in {"refused", "list", "joining", IF decided.kind = "charge" THEN "billed" ELSE "session"}
  BY <1>3, <1>4
<1>8. next.pc # "refused" => ~decided.decision.approximate
  BY <1>3
<1> HIDE DEF next
<1>9. Decided(next, call, confirmed)
  BY <1>2, <1>5, <1>6, <1>7, <1>8 DEF Decided, decision
<1> QED
  BY <1>1, <1>9

LEMMA VatOfNumber == ASSUME NEW number \in Numbers PROVE ParseVat(number).vat \in Vats
BY DEF Vats

\* What placing a charge makes of it: decided at once, on a confirmed number if VIES
\* has confirmed it lately; or VIES is asked, if its answer could matter.
Matters(call) == MayReverse(Tax, call.place) /\ WorthAsking(call.number, call.place)
Placing(call, next) ==
    \/ \E confirmed \in BOOLEAN :
          /\ Decided(next, call, confirmed)
          /\ confirmed => Matters(call) /\ verified[call.process][ParseVat(call.number).vat] > now
    \/ /\ IsCharge(next) /\ Same(next, call) /\ next.decision = call.decision
       /\ next.pc = "vies" /\ Matters(call)

LEMMA PlacingPlaces ==
  ASSUME NEW c, NEW call, IsCharge(call), Placed(c, call)
  PROVE  \E next : Placing(call, next) /\ charge' = [charge EXCEPT ![c] = next]
<1> DEFINE asks == [call EXCEPT !.pc = "vies"]
<1>1. IsCharge(asks) /\ Same(asks, call) /\ asks.decision = call.decision /\ asks.pc = "vies"
  BY DEF IsCharge, Same, ChargePcs
<1>2. CASE Matters(call) /\ Remembers(call.process, ParseVat(call.number).vat)
  <2>1. Decides(c, call, TRUE)
    BY <1>2 DEF Placed, Matters
  <2>2. PICK next : Decided(next, call, TRUE) /\ charge' = [charge EXCEPT ![c] = next]
    BY <2>1, DecidingDecides
  <2> QED
    BY <1>2, <2>2 DEF Placing, Remembers
<1>3. CASE Matters(call) /\ ~Remembers(call.process, ParseVat(call.number).vat)
  <2>1. charge' = [charge EXCEPT ![c] = asks]
    BY <1>3 DEF Placed, Matters
  <2> HIDE DEF asks
  <2> QED
    BY <1>1, <1>3, <2>1 DEF Placing
<1>4. CASE ~Matters(call)
  <2>1. Decides(c, call, FALSE)
    BY <1>4 DEF Placed, Matters
  <2>2. PICK next : Decided(next, call, FALSE) /\ charge' = [charge EXCEPT ![c] = next]
    BY <2>1, DecidingDecides
  <2> QED
    BY <2>2 DEF Placing
<1> QED
  BY <1>2, <1>3, <1>4

-----------------------------------------------------------------------------
(* What each step does to the charges. *)

Others(c) == charge' = [charge EXCEPT ![c] = charge'[c]]

\* A charge that was decided goes on as it was.
Onward(old, new) ==
    /\ IsCharge(new) /\ Same(new, old) /\ new.decision = old.decision
    /\ \/ old.pc = "account" /\ new.pc \in {"customer", "untaxed"}
       \/ /\ old.pc \in {"list", "joining", "mint"}
          /\ new.pc \in {"mint", "failed", IF old.kind = "charge" THEN "billed" ELSE "session"}
       \/ old.pc = "session" /\ new.pc = "billed" /\ new.rate = old.rate

LEMMA OneCharge ==
  ASSUME NEW c \in Sales, TaxTypes, NEW next, charge' = [charge EXCEPT ![c] = next]
  PROVE  Others(c) /\ charge'[c] = next
BY DEF Others, TaxTypes

LEMMA NewSaleIs ==
  ASSUME NEW c \in Sales
  PROVE  /\ IsCharge(NewSale(c)) /\ NewSale(c).kind = "charge" /\ NewSale(c).pc = "idle"
         /\ NewSale(c).decision = Undecided /\ NewSale(c).number = NoNumber
BY TaxingAssumption DEF IsCharge, NewSale, ChargePcs, Ended

LEMMA ChargeBegins ==
  ASSUME TaxTypes, NEW c \in Sales, NEW kind \in taxScene.kinds, BeginCharge(c, kind)
  PROVE  /\ Others(c) /\ IsCharge(charge'[c]) /\ charge'[c].kind = kind /\ kind \in {"charge", "open"}
         /\ charge'[c].pc \in {"hook", "automatic", "untaxed", "customer", "account"}
         /\ charge'[c].decision = Undecided
<1> DEFINE call == [NewSale(c) EXCEPT !.kind = kind]
<1>1. kind \in {"charge", "open"}
  BY DEF TaxTypes, TaxSceneType, BeginCharge
<1>2. IsCharge(call) /\ call.kind = kind /\ call.decision = Undecided
  BY <1>1, NewSaleIs DEF IsCharge
<1> HIDE DEF call
<1>3. PICK pc \in {"hook", "automatic", "untaxed", "customer", "account"} :
         charge' = [charge EXCEPT ![c] = [call EXCEPT !.pc = pc]]
  <2>1. CASE taxScene.hook = "rates"
    BY <2>1 DEF BeginCharge, call
  <2>2. CASE taxScene.hook # "rates" /\ taxScene.mode = "stripe"
    BY <2>2 DEF BeginCharge, call
  <2>3. CASE taxScene.hook # "rates" /\ taxScene.mode = "none"
    BY <2>3 DEF BeginCharge, call
  <2>4. CASE taxScene.hook # "rates" /\ taxScene.mode \notin {"stripe", "none"}
    BY <2>4 DEF BeginCharge, call
  <2> QED
    BY <2>1, <2>2, <2>3, <2>4
<1> DEFINE next == [call EXCEPT !.pc = pc]
<1>4. IsCharge(next) /\ next.kind = kind /\ next.decision = Undecided /\ next.pc = pc
  BY <1>2, <1>3 DEF IsCharge, ChargePcs, Ended
<1> HIDE DEF next
<1>5. charge' = [charge EXCEPT ![c] = next]
  BY <1>3 DEF next
<1> QED
  BY <1>1, <1>3, <1>4, <1>5, OneCharge

LEMMA RetaxBegins ==
  ASSUME TaxTypes, NEW c \in Sales, NEW typed \in taxScene.typed, BeginRetax(c, typed)
  PROVE  /\ Others(c)
         /\ \E call : /\ IsCharge(call) /\ call.kind = "retax" /\ call.decision = Undecided
                      /\ Placing(call, charge'[c])
<1> DEFINE call == [NewSale(c) EXCEPT !.kind = "retax", !.place = typed[1], !.number = typed[2]]
<1>1. typed[2] \in Numbers \cup {NoNumber}
  BY DEF TaxTypes, TaxSceneType
<1>2. IsCharge(call) /\ call.kind = "retax" /\ call.decision = Undecided
  <2> DEFINE one == [NewSale(c) EXCEPT !.kind = "retax"]
             two == [one EXCEPT !.place = typed[1]]
             three == [two EXCEPT !.number = typed[2]]
  <2>1. IsCharge(one) /\ one.kind = "retax" /\ one.decision = Undecided
    BY NewSaleIs DEF IsCharge
  <2>2. call = three
    BY NewSaleIs DEF IsCharge
  <2> HIDE DEF one
  <2>3. IsCharge(two) /\ two.kind = "retax" /\ two.decision = Undecided
    BY <2>1 DEF IsCharge
  <2> HIDE DEF two
  <2>4. IsCharge(three) /\ three.kind = "retax" /\ three.decision = Undecided
    BY <1>1, <2>3 DEF IsCharge
  <2> QED
    BY <2>2, <2>4
<1>3. Placed(c, call)
  BY DEF BeginRetax
<1> HIDE DEF call
<1>4. PICK next : Placing(call, next) /\ charge' = [charge EXCEPT ![c] = next]
  BY <1>2, <1>3, PlacingPlaces
<1> QED
  BY <1>2, <1>4, OneCharge

\* A charge in which only its place in the handler changes.
LEMMA MovesOn ==
  ASSUME NEW call, IsCharge(call), NEW pc \in ChargePcs
  PROVE  LET next == [call EXCEPT !.pc = pc]
         IN  /\ IsCharge(next) /\ Same(next, call) /\ next.decision = call.decision
             /\ next.rate = call.rate /\ next.pc = pc
BY DEF IsCharge, Same

LEMMA AccountAsked ==
  ASSUME TaxTypes, NEW c \in Sales, AskAccount(c)
  PROVE  Others(c) /\ Onward(charge[c], charge'[c])
<1>1. PICK pc \in {"customer", "untaxed"} : charge' = [charge EXCEPT ![c].pc = pc]
  BY DEF AskAccount
<1>2. Stage(c, "account") /\ IsCharge(charge[c])
  BY DEF AskAccount, TaxTypes
<1> DEFINE next == [charge[c] EXCEPT !.pc = pc]
<1>3. IsCharge(next) /\ Same(next, charge[c]) /\ next.decision = charge[c].decision /\ next.pc = pc
  BY <1>1, <1>2, MovesOn DEF ChargePcs, Ended
<1>4. charge' = [charge EXCEPT ![c] = next]
  BY <1>1
<1> HIDE DEF next
<1>5. Onward(charge[c], next)
  BY <1>1, <1>2, <1>3 DEF Onward, Stage
<1> QED
  BY <1>4, <1>5, OneCharge

\* What is on file is a number of the customer's, or none.
LEMMA OnFileIs == ASSUME AccountTypes PROVE OnFile \in Numbers \cup {NoNumber}
<1>1. CASE taxIds # <<>>
  <2>1. Head(taxIds) \in TaxIdType
    BY <1>1, HeadTailProperties DEF AccountTypes
  <2> QED
    BY <1>1, <2>1 DEF OnFile, TaxIdType
<1> QED
  BY <1>1 DEF OnFile

LEMMA CustomerRead ==
  ASSUME AccountTypes, TaxTypes, NEW c \in Sales, ReadCustomer(c)
  PROVE  /\ Others(c) /\ Stage(c, "customer")
         /\ \E call : /\ IsCharge(call) /\ call.kind = charge[c].kind
                      /\ call.decision = charge[c].decision /\ Placing(call, charge'[c])
<1>1. Stage(c, "customer") /\ IsCharge(charge[c])
  BY DEF ReadCustomer, TaxTypes
<1>2. \E call : /\ IsCharge(call) /\ call.kind = charge[c].kind /\ call.decision = charge[c].decision
                /\ Placed(c, call)
  <2>1. \A place : LET call == [charge[c] EXCEPT !.number = OnFile, !.place = place]
                   IN  IsCharge(call) /\ call.kind = charge[c].kind /\ call.decision = charge[c].decision
    <3> TAKE place
    <3> DEFINE one == [charge[c] EXCEPT !.number = OnFile]
               two == [one EXCEPT !.place = place]
    <3>1. IsCharge(one) /\ one.kind = charge[c].kind /\ one.decision = charge[c].decision
      BY <1>1, OnFileIs DEF IsCharge
    <3> HIDE DEF one
    <3>2. IsCharge(two) /\ two.kind = charge[c].kind /\ two.decision = charge[c].decision
      BY <3>1 DEF IsCharge
    <3> QED
      BY <3>2 DEF one
  <2>2. \A place : LET call == [charge[c] EXCEPT !.place = place]
                   IN  IsCharge(call) /\ call.kind = charge[c].kind /\ call.decision = charge[c].decision
    BY <1>1 DEF IsCharge
  <2>3. \/ \E place : Placed(c, [charge[c] EXCEPT !.number = OnFile, !.place = place])
        \/ \E place : Placed(c, [charge[c] EXCEPT !.place = place])
    BY DEF ReadCustomer
  <2> QED
    BY <2>1, <2>2, <2>3
<1>3. PICK call : /\ IsCharge(call) /\ call.kind = charge[c].kind /\ call.decision = charge[c].decision
                  /\ Placed(c, call)
  BY <1>2
<1>4. PICK next : Placing(call, next) /\ charge' = [charge EXCEPT ![c] = next]
  BY <1>3, PlacingPlaces
<1> QED
  BY <1>1, <1>3, <1>4, OneCharge

LEMMA ViesAnswered ==
  ASSUME TaxTypes, NEW c \in Sales, AnswerVies(c)
  PROVE  /\ Others(c) /\ Stage(c, "vies")
         /\ \E confirmed \in BOOLEAN :
               /\ Decided(charge'[c], charge[c], confirmed)
               /\ LET vat == ParseVat(charge[c].number).vat
                  IN  \/ /\ confirmed /\ vat \in standing
                         /\ verified' = [verified EXCEPT ![charge[c].process][vat] = now + Ttl]
                      \/ ~confirmed /\ verified' = verified
<1>1. Stage(c, "vies") /\ IsCharge(charge[c])
  BY DEF AnswerVies, TaxTypes
<1> DEFINE vat == ParseVat(charge[c].number).vat
<1>2. PICK confirmed \in BOOLEAN :
         /\ Decides(c, charge[c], confirmed)
         /\ \/ /\ confirmed /\ vat \in standing
               /\ verified' = [verified EXCEPT ![charge[c].process][vat] = now + Ttl]
            \/ ~confirmed /\ verified' = verified
  BY DEF AnswerVies
<1>3. PICK next : Decided(next, charge[c], confirmed) /\ charge' = [charge EXCEPT ![c] = next]
  BY <1>1, <1>2, DecidingDecides
<1> QED
  BY <1>1, <1>2, <1>3, OneCharge

\* Charges that wait for a rate, or write a session, go on or stay.
GoOn == /\ charge' = [d \in Sales |-> charge'[d]]
        /\ \A d \in Sales : charge'[d] = charge[d] \/ Onward(charge[d], charge'[d])

SessionsWait == \A d \in Sales : Stage(d, "session") => charge'[d] = charge[d]

LEMMA SharersSearch ==
  ASSUME NEW c \in Sales, Stage(c, "list") \/ Stage(c, "mint"), NEW d \in Sharers(c)
  PROVE  charge[d].pc \in {"list", "joining", "mint"}
BY DEF Sharers, Stage

LEMMA ResolvedGoesOn ==
  ASSUME TaxTypes, NEW c \in Sales, Stage(c, "list") \/ Stage(c, "mint"), NEW id, Resolves(c, id)
  PROVE  GoOn /\ SessionsWait
<1>1. charge' = [d \in Sales |-> IF d \in Sharers(c) THEN Carrying(charge[d], id) ELSE charge[d]]
  BY DEF Resolves
<1>2. ASSUME NEW d \in Sharers(c) PROVE Onward(charge[d], Carrying(charge[d], id))
  <2>1. d \in Sales /\ charge[d].pc \in {"list", "joining", "mint"}
    BY SharersSearch DEF Sharers
  <2>2. IsCharge(charge[d])
    BY <2>1 DEF TaxTypes
  <2> QED
    BY <2>1, <2>2, CarriedOn DEF Onward
<1>3. SessionsWait
  BY <1>1, SharersSearch DEF SessionsWait, Stage
<1> QED
  BY <1>1, <1>2, <1>3 DEF GoOn

LEMMA ListGoesOn ==
  ASSUME TaxTypes, NEW c \in Sales, ListRates(c)
  PROVE  GoOn /\ SessionsWait
<1>1. Stage(c, "list") /\ IsCharge(charge[c])
  BY DEF ListRates, TaxTypes
<1>2. (\E id : Resolves(c, id)) \/ charge' = [charge EXCEPT ![c].pc = "mint"]
  BY DEF ListRates
<1>3. CASE \E id : Resolves(c, id)
  BY <1>1, <1>3, ResolvedGoesOn
<1>4. CASE charge' = [charge EXCEPT ![c].pc = "mint"]
  <2> DEFINE next == [charge[c] EXCEPT !.pc = "mint"]
  <2>1. IsCharge(next) /\ Same(next, charge[c]) /\ next.decision = charge[c].decision /\ next.pc = "mint"
    BY <1>1, MovesOn DEF ChargePcs
  <2>2. charge' = [charge EXCEPT ![c] = next]
    BY <1>4
  <2> HIDE DEF next
  <2>3. Onward(charge[c], next)
    BY <1>1, <2>1 DEF Onward, Stage
  <2> QED
    BY <1>1, <2>2, <2>3 DEF GoOn, SessionsWait, Stage, TaxTypes
<1> QED
  BY <1>2, <1>3, <1>4

LEMMA MintGoesOn ==
  ASSUME TaxTypes, NEW c \in Sales, MintRate(c)
  PROVE  GoOn /\ SessionsWait
BY ResolvedGoesOn DEF MintRate

LEMMA FailureGoesOn ==
  ASSUME TaxTypes, NEW c \in Sales, RateFails(c)
  PROVE  GoOn /\ SessionsWait
<1>1. /\ Stage(c, "list") \/ Stage(c, "mint")
      /\ charge' = [d \in Sales |-> IF d \in Sharers(c) THEN [charge[d] EXCEPT !.pc = "failed"] ELSE charge[d]]
  BY DEF RateFails
<1>2. ASSUME NEW d \in Sharers(c) PROVE Onward(charge[d], [charge[d] EXCEPT !.pc = "failed"])
  <2>1. d \in Sales /\ charge[d].pc \in {"list", "joining", "mint"}
    BY <1>1, SharersSearch DEF Sharers
  <2>2. IsCharge(charge[d])
    BY <2>1 DEF TaxTypes
  <2> DEFINE next == [charge[d] EXCEPT !.pc = "failed"]
  <2>3. IsCharge(next) /\ Same(next, charge[d]) /\ next.decision = charge[d].decision /\ next.pc = "failed"
    BY <2>2, MovesOn DEF ChargePcs, Ended
  <2> HIDE DEF next
  <2>4. Onward(charge[d], next)
    BY <2>1, <2>3 DEF Onward
  <2> QED
    BY <2>4 DEF next
<1>3. SessionsWait
  BY <1>1, SharersSearch DEF SessionsWait, Stage
<1> QED
  BY <1>1, <1>2, <1>3 DEF GoOn

LEMMA SessionWritten ==
  ASSUME TaxTypes, NEW c \in Sales, WriteSession(c)
  PROVE  Others(c) /\ GoOn /\ charge'[c].pc = "billed" /\ charge'[c].rate = charge[c].rate
<1>1. Stage(c, "session") /\ IsCharge(charge[c])
  BY DEF WriteSession, TaxTypes
<1> DEFINE next == [charge[c] EXCEPT !.pc = "billed"]
<1>2. /\ IsCharge(next) /\ Same(next, charge[c]) /\ next.decision = charge[c].decision
      /\ next.rate = charge[c].rate /\ next.pc = "billed"
  BY <1>1, MovesOn DEF ChargePcs, Ended
<1>3. charge' = [charge EXCEPT ![c] = next]
  BY DEF WriteSession
<1> HIDE DEF next
<1>4. Onward(charge[c], next)
  BY <1>1, <1>2 DEF Onward, Stage
<1>5. Others(c) /\ charge'[c] = next
  BY <1>3, OneCharge
<1> QED
  BY <1>2, <1>3, <1>4, <1>5 DEF GoOn, TaxTypes

-----------------------------------------------------------------------------
(* What every step leaves of the charges: those that do not go on are sound. *)

Sound(call) ==
    /\ IsCharge(call)
    /\ \/ call.pc \in {"hook", "automatic", "untaxed", "customer", "account", "refused"}
       \/ call.pc = "vies" /\ Matters(call)
       \/ call.pc \in {"list", "joining", "session", "billed"} /\ IsDecided(call)

LEMMA DecidedIsSound ==
  ASSUME NEW call, NEW next, NEW confirmed \in BOOLEAN, Decided(next, call, confirmed)
  PROVE  Sound(next)
<1>1. next.pc = "refused" \/ next.pc \in {"list", "joining", "session", "billed"}
  BY DEF Decided
<1>2. next.pc # "refused" => IsDecided(next)
  BY DEF Decided, IsDecided, Same
<1> QED
  BY <1>1, <1>2 DEF Sound, Decided

LEMMA PlacingIsSound ==
  ASSUME NEW call, NEW next, Placing(call, next)
  PROVE  Sound(next)
<1>1. CASE \E confirmed \in BOOLEAN : Decided(next, call, confirmed)
  BY <1>1, DecidedIsSound
<1>2. CASE IsCharge(next) /\ Same(next, call) /\ next.pc = "vies" /\ Matters(call)
  BY <1>2 DEF Sound, Matters, Same
<1> QED
  BY <1>1, <1>2 DEF Placing

LEMMA ChargesStep ==
  ASSUME AccountTypes, TaxTypes, TaxingNext
  PROVE  /\ taxScene' = taxScene
         /\ \/ charge' = charge
            \/ GoOn
            \/ \E c \in Sales : Others(c) /\ Sound(charge'[c])
<1>1. CASE AccountStep /\ UNCHANGED taxVars
  BY <1>1 DEF taxVars
<1>2. ASSUME NEW c \in Sales, NEW kind \in taxScene.kinds, BeginCharge(c, kind)
      PROVE  taxScene' = taxScene /\ Others(c) /\ Sound(charge'[c])
  <2>1. taxScene' = taxScene
    BY <1>2 DEF BeginCharge
  <2> QED
    BY <1>2, <2>1, ChargeBegins DEF Sound
<1>3. ASSUME NEW c \in Sales, NEW typed \in taxScene.typed, BeginRetax(c, typed)
      PROVE  taxScene' = taxScene /\ Others(c) /\ Sound(charge'[c])
  <2>1. taxScene' = taxScene
    BY <1>3 DEF BeginRetax
  <2> QED
    BY <1>3, <2>1, RetaxBegins, PlacingIsSound
<1>4. ASSUME NEW c \in Sales, AskAccount(c) PROVE taxScene' = taxScene /\ GoOn
  <2>1. taxScene' = taxScene
    BY <1>4 DEF AskAccount
  <2> QED
    BY <1>4, <2>1, AccountAsked DEF GoOn, Others, TaxTypes
<1>5. ASSUME NEW c \in Sales, ReadCustomer(c) PROVE taxScene' = taxScene /\ Others(c) /\ Sound(charge'[c])
  <2>1. taxScene' = taxScene
    BY <1>5 DEF ReadCustomer
  <2> QED
    BY <1>5, <2>1, CustomerRead, PlacingIsSound
<1>6. ASSUME NEW c \in Sales, AnswerVies(c) PROVE taxScene' = taxScene /\ Others(c) /\ Sound(charge'[c])
  <2>1. taxScene' = taxScene
    BY <1>6 DEF AnswerVies
  <2> QED
    BY <1>6, <2>1, ViesAnswered, DecidedIsSound
<1>7. ASSUME NEW c \in Sales, ListRates(c) \/ MintRate(c) \/ RateFails(c) \/ WriteSession(c)
      PROVE  taxScene' = taxScene /\ GoOn
  <2>1. taxScene' = taxScene
    BY <1>7 DEF ListRates, MintRate, RateFails, WriteSession
  <2> QED
    BY <1>7, <2>1, ListGoesOn, MintGoesOn, FailureGoesOn, SessionWritten
<1>8. ASSUME NEW p \in Servers, Invalidate(p) PROVE taxScene' = taxScene /\ charge' = charge
  BY <1>8 DEF Invalidate
<1>9. ASSUME NEW vat \in Vats, Withdraw(vat) PROVE taxScene' = taxScene /\ charge' = charge
  BY <1>9 DEF Withdraw
<1>10. CASE Tick
  BY <1>10 DEF Tick
<1> QED
  BY <1>1, <1>2, <1>3, <1>4, <1>5, <1>6, <1>7, <1>8, <1>9, <1>10 DEF TaxingNext

LEMMA TaxIsFixed == ASSUME taxScene' = taxScene PROVE Tax' = Tax
BY DEF Tax

\* Nothing is billed that was not decided, and VIES is asked only what matters.
LEMMA ChargesStaySound ==
  ASSUME AccountTypes, TaxTypes, AskedIfItMatters, DecidedIfBilled, TaxingNext
  PROVE  /\ charge' = [c \in Sales |-> charge'[c]] /\ \A c \in Sales : IsCharge(charge'[c])
         /\ AskedIfItMatters' /\ DecidedIfBilled'
<1>1. taxScene' = taxScene /\ Tax' = Tax
  BY ChargesStep, TaxIsFixed
<1>2. ASSUME NEW c \in Sales, charge'[c] = charge[c] \/ Onward(charge[c], charge'[c]) \/ Sound(charge'[c])
      PROVE  /\ IsCharge(charge'[c])
             /\ charge'[c].pc = "vies" => Matters(charge'[c])
             /\ charge'[c].pc \in {"list", "joining", "mint", "session", "billed"} => IsDecided(charge'[c])
  <2>1. CASE charge'[c] = charge[c]
    BY <2>1 DEF TaxTypes, AskedIfItMatters, DecidedIfBilled, Matters
  <2>2. CASE Onward(charge[c], charge'[c])
    <3>1. IsCharge(charge'[c]) /\ charge'[c].pc # "vies"
      BY <2>2 DEF Onward
    <3>2. ASSUME charge'[c].pc \in {"list", "joining", "mint", "session", "billed"} PROVE IsDecided(charge[c])
      BY <2>2, <3>2 DEF Onward, DecidedIfBilled
    <3>3. IsDecided(charge[c]) => IsDecided(charge'[c])
      BY <2>2 DEF Onward, Same, IsDecided
    <3> QED
      BY <3>1, <3>2, <3>3
  <2>3. CASE Sound(charge'[c])
    BY <2>3 DEF Sound
  <2> QED
    BY <1>2, <2>1, <2>2, <2>3
<1>3. /\ charge' = [c \in Sales |-> charge'[c]]
      /\ \A c \in Sales : charge'[c] = charge[c] \/ Onward(charge[c], charge'[c]) \/ Sound(charge'[c])
  <2>1. CASE charge' = charge
    BY <2>1 DEF TaxTypes
  <2>2. CASE GoOn
    BY <2>2 DEF GoOn
  <2>3. CASE \E c \in Sales : Others(c) /\ Sound(charge'[c])
    BY <2>3 DEF Others, TaxTypes
  <2> QED
    BY <2>1, <2>2, <2>3, ChargesStep
<1>4. AskedIfItMatters'
  BY <1>1, <1>2, <1>3 DEF AskedIfItMatters, Matters
<1>5. DecidedIfBilled'
  BY <1>1, <1>2, <1>3 DEF DecidedIfBilled, IsDecided
<1> QED
  BY <1>2, <1>3, <1>4, <1>5

-----------------------------------------------------------------------------
(* What processes remember of numbers. *)

MemoryTypes == verified \in [Servers -> [Vats -> Nat]] /\ stood \in [Vats -> Nat] /\ now \in Nat
Remembered == <<taxScene, verified, standing, now, stood>>

LEMMA MemoryStep ==
  ASSUME TaxTypes, VerifiedOnce, AskedIfItMatters, TaxingNext
  PROVE  MemoryTypes' /\ VerifiedOnce'
<1> USE TaxingAssumption
<1>0. MemoryTypes
  BY DEF TaxTypes, MemoryTypes
<1>1. ASSUME UNCHANGED Remembered PROVE MemoryTypes' /\ VerifiedOnce'
  BY <1>0, <1>1 DEF Remembered, MemoryTypes, VerifiedOnce
<1>2. CASE AccountStep /\ UNCHANGED taxVars
  BY <1>1, <1>2 DEF taxVars, Remembered
<1>3. ASSUME NEW c \in Sales,
             \/ \E kind \in taxScene.kinds : BeginCharge(c, kind)
             \/ \E typed \in taxScene.typed : BeginRetax(c, typed)
             \/ AskAccount(c) \/ ReadCustomer(c)
             \/ ListRates(c) \/ MintRate(c) \/ RateFails(c) \/ WriteSession(c)
      PROVE  MemoryTypes' /\ VerifiedOnce'
  <2>1. UNCHANGED Remembered
    BY <1>3, ZenonT(60) DEF Remembered, BeginCharge, BeginRetax, AskAccount, ReadCustomer, ListRates, MintRate, RateFails, WriteSession
  <2> QED
    BY <1>1, <2>1, SMTT(60)
<1>4. ASSUME NEW c \in Sales, AnswerVies(c) PROVE MemoryTypes' /\ VerifiedOnce'
  <2> DEFINE vat == ParseVat(charge[c].number).vat
  <2>1. UNCHANGED <<taxScene, standing, now, stood>>
    BY <1>4 DEF AnswerVies
  <2>2. CASE verified' = verified
    BY <1>1, <2>1, <2>2 DEF Remembered
  <2>3. CASE vat \in standing /\ verified' = [verified EXCEPT ![charge[c].process][vat] = now + Ttl]
    <3>1. vat \in Vats /\ charge[c].process \in Servers
      BY <1>4, VatOfNumber DEF AnswerVies, AskedIfItMatters, WorthAsking, TaxTypes, IsCharge, Stage
    <3> DEFINE p == charge[c].process
    <3> HIDE DEF p, vat
    <3>2. verified' = [verified EXCEPT ![p][vat] = now + Ttl] /\ vat \in standing /\ vat \in Vats /\ p \in Servers
      BY <2>3, <3>1 DEF p, vat
    <3>3. now + Ttl \in Nat /\ vat \in taxScene.confirmed
      BY <1>0, <3>2 DEF MemoryTypes, VerifiedOnce
    <3>4. MemoryTypes'
      BY <1>0, <2>1, <3>2, <3>3 DEF MemoryTypes
    <3>5. \A q \in Servers, v \in Vats : verified'[q][v] = IF q = p /\ v = vat THEN now + Ttl ELSE verified[q][v]
      BY <1>0, <3>2 DEF MemoryTypes
    <3>6. VerifiedOnce'
      BY <1>0, <2>1, <3>2, <3>3, <3>5 DEF VerifiedOnce, MemoryTypes
    <3> QED
      BY <3>4, <3>6
  <2> QED
    BY <1>4, <2>2, <2>3, ViesAnswered
<1>5. ASSUME NEW p \in Servers, Invalidate(p) PROVE MemoryTypes' /\ VerifiedOnce'
  <2>1. UNCHANGED <<taxScene, standing, now, stood>>
    BY <1>5 DEF Invalidate
  <2>2. verified' = verified \/ verified' = [verified EXCEPT ![p] = [vat \in Vats |-> 0]]
    BY <1>5 DEF Invalidate
  <2>3. CASE verified' = verified
    BY <1>1, <2>1, <2>3 DEF Remembered
  <2>4. CASE verified' = [verified EXCEPT ![p] = [vat \in Vats |-> 0]]
    <3>1. MemoryTypes'
      BY <1>0, <2>1, <2>4 DEF MemoryTypes
    <3>2. \A q \in Servers, v \in Vats : verified'[q][v] = IF q = p THEN 0 ELSE verified[q][v]
      BY <1>0, <2>4 DEF MemoryTypes
    <3>3. VerifiedOnce'
      BY <1>0, <2>1, <3>2 DEF VerifiedOnce, MemoryTypes
    <3> QED
      BY <3>1, <3>3
  <2> QED
    BY <2>2, <2>3, <2>4
<1>6. ASSUME NEW vat \in Vats, Withdraw(vat) PROVE MemoryTypes' /\ VerifiedOnce'
  BY <1>0, <1>6 DEF Withdraw, MemoryTypes, VerifiedOnce
<1>7. CASE Tick
  BY <1>0, <1>7 DEF Tick, MemoryTypes, VerifiedOnce
<1> QED
  BY <1>2, <1>3, <1>4, <1>5, <1>6, <1>7 DEF TaxingNext

-----------------------------------------------------------------------------
(* A reverse charge rests on a confirmed number. *)

LEMMA ParsedCountry ==
  ASSUME NEW call, Matters(call)
  PROVE  LET parsed == ParseVat(call.number)
         IN  parsed.country = call.place.country /\ parsed.country # Tax.origin
BY DEF Matters, MayReverse, WorthAsking

\* A number that a process takes as confirmed makes a charge a confirmed one.
LEMMA RememberedIsConfirmed ==
  ASSUME MemoryTypes, VerifiedOnce, NEW p \in Servers, NEW vat \in Vats, verified[p][vat] > now
  PROVE  vat \in taxScene.confirmed /\ (vat \in standing \/ now - stood[vat] < Ttl)
<1>1. verified[p][vat] > 0 /\ verified[p][vat] \in Nat /\ stood[vat] \in Nat /\ now \in Nat /\ Ttl \in Nat
  BY TaxingAssumption DEF MemoryTypes
<1>2. /\ vat \in taxScene.confirmed
      /\ vat \in standing \/ verified[p][vat] <= stood[vat] + Ttl
  BY <1>1 DEF VerifiedOnce
<1> QED
  BY <1>1, <1>2

\* Deciding puts a reverse charge only on a confirmed number.
LEMMA ReverseWasConfirmed ==
  ASSUME NEW call, NEW next, NEW confirmed \in BOOLEAN, Decided(next, call, confirmed), next.decision.reverse
  PROVE  confirmed /\ next.number = call.number /\ next.place = call.place
<1>1. ResolveTax(Tax, call.place, confirmed).reverse = (MayReverse(Tax, call.place) /\ confirmed)
  BY DEF ResolveTax
<1>2. MayReverse(Tax, call.place) /\ confirmed
  BY <1>1 DEF Decided
<1> QED
  BY <1>2 DEF Decided, Same

LEMMA PlacedIsConfirmed ==
  ASSUME TaxTypes, VerifiedOnce, NEW c \in Sales, NEW call, IsCharge(call),
         Placing(call, charge'[c]), charge'[c].decision.reverse, ~call.decision.reverse
  PROVE  Confirmed(c)
<1>1. PICK confirmed \in BOOLEAN :
         /\ Decided(charge'[c], call, confirmed)
         /\ confirmed => Matters(call) /\ verified[call.process][ParseVat(call.number).vat] > now
  BY DEF Placing
<1>2. confirmed /\ charge'[c].number = call.number /\ charge'[c].place = call.place
  BY <1>1, ReverseWasConfirmed
<1> DEFINE vat == ParseVat(call.number).vat
<1>3. vat \in Vats /\ call.process \in Servers
  BY <1>1, <1>2, VatOfNumber DEF Matters, WorthAsking, IsCharge
<1>4. vat \in taxScene.confirmed /\ (vat \in standing \/ now - stood[vat] < Ttl)
  <2> MemoryTypes
    BY DEF TaxTypes, MemoryTypes
  <2> QED
    BY <1>1, <1>2, <1>3, RememberedIsConfirmed
<1> QED
  BY <1>1, <1>2, <1>4, ParsedCountry DEF Confirmed

LEMMA AnsweredIsConfirmed ==
  ASSUME TaxTypes, VerifiedOnce, AskedIfItMatters, NEW c \in Sales, AnswerVies(c), charge'[c].decision.reverse
  PROVE  Confirmed(c)
<1> DEFINE vat == ParseVat(charge[c].number).vat
<1>1. PICK confirmed \in BOOLEAN :
         Decided(charge'[c], charge[c], confirmed) /\ (confirmed => vat \in standing)
  BY ViesAnswered
<1>2. confirmed /\ charge'[c].number = charge[c].number /\ charge'[c].place = charge[c].place
  BY <1>1, ReverseWasConfirmed
<1>3. Matters(charge[c])
  BY DEF AnswerVies, AskedIfItMatters, Matters, Stage
<1>4. vat \in standing /\ vat \in taxScene.confirmed
  BY <1>1, <1>2 DEF VerifiedOnce
<1> QED
  BY <1>2, <1>3, <1>4, ParsedCountry DEF Confirmed

LEMMA ReverseStep ==
  ASSUME AccountTypes, TaxTypes, VerifiedOnce, AskedIfItMatters, TaxingNext,
         NEW c \in Sales, charge'[c].decision.reverse, ~charge[c].decision.reverse
  PROVE  Confirmed(c)
<1>0. ~Undecided.reverse
  BY DEF Undecided
<1>1. charge' # charge
  OBVIOUS
<1>2. ASSUME GoOn PROVE FALSE
  BY <1>2 DEF GoOn, Onward
<1>3. ASSUME NEW d \in Sales, Others(d) PROVE d = c
  BY <1>3 DEF Others, TaxTypes
<1>4. ASSUME NEW d \in Sales, NEW kind \in taxScene.kinds, BeginCharge(d, kind) PROVE FALSE
  BY <1>0, <1>3, <1>4, ChargeBegins
<1>5. ASSUME NEW d \in Sales, NEW typed \in taxScene.typed, BeginRetax(d, typed) PROVE Confirmed(c)
  <2>1. d = c
    BY <1>3, <1>5, RetaxBegins
  <2>2. PICK call : IsCharge(call) /\ call.decision = Undecided /\ Placing(call, charge'[c])
    BY <1>5, <2>1, RetaxBegins
  <2> QED
    BY <1>0, <2>2, PlacedIsConfirmed
<1>6. ASSUME NEW d \in Sales, AskAccount(d) PROVE FALSE
  <2>1. d = c
    BY <1>3, <1>6, AccountAsked
  <2> QED
    BY <1>6, <2>1, AccountAsked DEF Onward
<1>7. ASSUME NEW d \in Sales, ReadCustomer(d) PROVE Confirmed(c)
  <2>1. d = c
    BY <1>3, <1>7, CustomerRead
  <2>2. PICK call : IsCharge(call) /\ call.decision = charge[c].decision /\ Placing(call, charge'[c])
    BY <1>7, <2>1, CustomerRead
  <2> QED
    BY <2>2, PlacedIsConfirmed
<1>8. ASSUME NEW d \in Sales, AnswerVies(d) PROVE Confirmed(c)
  <2>1. d = c
    BY <1>3, <1>8, ViesAnswered
  <2> QED
    BY <1>8, <2>1, AnsweredIsConfirmed
<1>9. ASSUME NEW d \in Sales, ListRates(d) \/ MintRate(d) \/ RateFails(d) \/ WriteSession(d) PROVE FALSE
  BY <1>2, <1>9, ListGoesOn, MintGoesOn, FailureGoesOn, SessionWritten
<1>10. ~(AccountStep /\ UNCHANGED taxVars) /\ ~Tick
  BY <1>1 DEF taxVars, Tick
<1>11. ASSUME NEW p \in Servers PROVE ~Invalidate(p)
  BY <1>1 DEF Invalidate
<1>12. ASSUME NEW vat \in Vats PROVE ~Withdraw(vat)
  BY <1>1 DEF Withdraw
<1> QED
  BY <1>4, <1>5, <1>6, <1>7, <1>8, <1>9, <1>10, <1>11, <1>12 DEF TaxingNext

-----------------------------------------------------------------------------
(* What a charge carries is what its seller's registrations say. *)

\* For a decision that is neither a guess nor a reverse charge, the rate is that of
\* the country whose rate applies, or nothing.
LEMMA RateOfDecision ==
  ASSUME NEW tax, NEW place, NEW confirmed \in BOOLEAN,
         ~ResolveTax(tax, place, confirmed).reverse, ~ResolveTax(tax, place, confirmed).approximate
  PROVE  /\ RatedAt(tax, place) = {} => ResolveTax(tax, place, confirmed).percent = 0
         /\ \A country : RatedAt(tax, place) = {country}
                         => ResolveTax(tax, place, confirmed).percent = StandardRate[country]
BY DEF ResolveTax

\* Whose rate applies, for a seller who says where it is registered.
LEMMA RatedAsRegistered ==
  ASSUME NEW place, NEW seller \in RegimeType(Countries, States),
         seller.oss \/ \A r \in seller.alsoCollectIn : ~({r.country, seller.country} \subseteq EUMembers)
  PROVE  LET tax == SellerRegime(seller)
             collects(at) ==
                \/ seller.vatRegistered /\ at.country = seller.country
                \/ IsRegisteredIn(seller.alsoCollectIn, at)
                \/ /\ at.country \in EUMembers \ {seller.country}
                   /\ seller.oss \/ seller.country \notin EUMembers
             base == Place(seller.country, Unstated)
         IN  RatedAt(tax, place) =
                IF collects(place) THEN {place.country}
                ELSE IF {place.country, seller.country} \subseteq EUMembers /\ collects(base)
                     THEN {seller.country} ELSE {}
<1> DEFINE tax == SellerRegime(seller)
           also == seller.alsoCollectIn
           base == Place(seller.country, Unstated)
           registered(at) == (seller.vatRegistered /\ at.country = seller.country) \/ IsRegisteredIn(also, at)
<1>1. /\ tax.origin = seller.country /\ tax.declared /\ tax.oss = seller.oss
      /\ tax.registrations = (IF seller.vatRegistered THEN {Place(seller.country, Anywhere)} ELSE {}) \cup also
  BY DEF SellerRegime
<1>2. \A at : IsRegisteredIn(tax.registrations, at) <=> registered(at)
  <2>1. CASE seller.vatRegistered
    <3>1. \A r : r \in tax.registrations <=> r = Place(seller.country, Anywhere) \/ r \in also
      BY <1>1, <2>1
    <3>2. Place(seller.country, Anywhere).country = seller.country /\ Place(seller.country, Anywhere).state = Anywhere
      BY DEF Place
    <3> QED
      BY <2>1, <3>1, <3>2 DEF IsRegisteredIn
  <2>2. CASE ~seller.vatRegistered
    BY <1>1, <2>2 DEF IsRegisteredIn
  <2> QED
    BY <2>1, <2>2
<1>3. base.country = seller.country /\ seller.oss \in BOOLEAN
  BY DEF Place, RegimeType
<1> DEFINE within == seller.country \in EUMembers /\ MayReverse(tax, place)
           outside == seller.country \notin EUMembers /\ MayReverse(tax, place)
           collects(at) == \/ registered(at)
                           \/ /\ at.country \in EUMembers \ {seller.country}
                              /\ seller.oss \/ seller.country \notin EUMembers
<1>4. MayReverse(tax, place) <=> place.country \in EUMembers /\ place.country # seller.country
  BY <1>1 DEF MayReverse
<1>5. RatedAt(tax, place) =
         {country \in {seller.country, place.country} :
            IF within
            THEN IF seller.oss THEN country = place.country ELSE country = seller.country /\ registered(base)
            ELSE country = place.country /\ (outside \/ registered(place))}
  BY <1>1, <1>2 DEF RatedAt
<1>6. ASSUME IsRegisteredIn(also, base) PROVE \E r \in also : r.country = seller.country /\ r.state = Anywhere
  BY <1>3, <1>6, AccountAssumption DEF IsRegisteredIn, RegimeType, Place, Unstated, Anywhere
<1>7. CASE within /\ seller.oss
  <2>1. RatedAt(tax, place) = {place.country}
    BY <1>5, <1>7
  <2>2. collects(place)
    BY <1>4, <1>7
  <2> QED
    BY <2>1, <2>2
<1>8. CASE within /\ ~seller.oss
  <2>1. ~collects(place)
    BY <1>4, <1>8 DEF IsRegisteredIn
  <2>2. collects(base) <=> registered(base)
    BY <1>3
  <2>3. RatedAt(tax, place) = IF registered(base) THEN {seller.country} ELSE {}
    BY <1>5, <1>8
  <2> QED
    BY <1>4, <1>8, <2>1, <2>2, <2>3
<1>9. CASE ~within /\ collects(place)
  <2>1. outside \/ registered(place)
    BY <1>4, <1>9
  <2>2. RatedAt(tax, place) = {place.country}
    BY <1>5, <1>9, <2>1
  <2> QED
    BY <1>9, <2>2
<1>10. CASE ~within /\ ~collects(place)
  <2>1. ~outside /\ ~registered(place)
    BY <1>4, <1>10
  <2>2. RatedAt(tax, place) = {}
    BY <1>5, <1>10, <2>1
  <2>3. ~({place.country, seller.country} \subseteq EUMembers /\ collects(base))
    <3> SUFFICES ASSUME {place.country, seller.country} \subseteq EUMembers, collects(base) PROVE FALSE
      OBVIOUS
    <3>1. place.country = seller.country
      BY <1>4, <1>10
    <3>2. registered(base)
      BY <1>3
    <3>3. ~seller.vatRegistered
      BY <2>1, <3>1
    <3> QED
      BY <1>6, <2>1, <3>1, <3>2, <3>3 DEF IsRegisteredIn
  <2> QED
    BY <1>10, <2>2, <2>3
<1> QED
  BY <1>7, <1>8, <1>9, <1>10

LEMMA BilledIsAsRegistered ==
  ASSUME TaxTypes, DecidedIfBilled
  PROVE  ChargedAsRegistered
<1> SUFFICES ASSUME NEW c \in Sales, taxScene.stated, ~Elsewhere, charge[c].pc = "billed", ~charge[c].decision.reverse
             PROVE  charge[c].decision.percent =
                      IF Collects(charge[c].place) THEN StandardRate[charge[c].place.country]
                      ELSE IF WithinUnion(charge[c].place) /\ Collects(AtHome) THEN StandardRate[AtHome.country] ELSE 0
  BY DEF ChargedAsRegistered
<1> DEFINE place == charge[c].place
           seller == taxScene.seller
<1>1. seller \in RegimeType(Countries, States)
  BY DEF TaxTypes, TaxSceneType
<1>2. Tax = SellerRegime(seller)
  BY DEF Tax
<1>3. PICK confirmed \in BOOLEAN :
         /\ charge[c].decision = ResolveTax(Tax, place, confirmed)
         /\ ~ResolveTax(Tax, place, confirmed).approximate /\ ~ResolveTax(Tax, place, confirmed).reverse
  BY DEF DecidedIfBilled, IsDecided
<1>4. seller.oss \/ \A r \in seller.alsoCollectIn : ~({r.country, seller.country} \subseteq EUMembers)
  BY DEF Elsewhere, WithinUnion
<1>5. RatedAt(Tax, place) =
         IF Collects(place) THEN {place.country}
         ELSE IF WithinUnion(place) /\ Collects(AtHome) THEN {seller.country} ELSE {}
  BY <1>1, <1>2, <1>4, RatedAsRegistered DEF Collects, AtHome, WithinUnion
<1>6. AtHome.country = seller.country
  BY DEF AtHome, Place
<1> HIDE DEF place, seller
<1>7. /\ RatedAt(Tax, place) = {} => charge[c].decision.percent = 0
      /\ \A country : RatedAt(Tax, place) = {country} => charge[c].decision.percent = StandardRate[country]
  BY <1>3, RateOfDecision
<1>8. CASE Collects(place)
  BY <1>5, <1>7, <1>8 DEF place
<1>9. CASE ~Collects(place) /\ WithinUnion(place) /\ Collects(AtHome)
  BY <1>5, <1>6, <1>7, <1>9 DEF place
<1>10. CASE ~Collects(place) /\ ~(WithinUnion(place) /\ Collects(AtHome))
  BY <1>5, <1>7, <1>10 DEF place
<1> QED
  BY <1>8, <1>9, <1>10

-----------------------------------------------------------------------------
(* Sessions. *)

InTurn == WritersInTurn /\ SessionFollows
LEMMA SessionStep ==
  ASSUME AccountTypes, TaxTypes, InTurn, TaxingNext
  PROVE  InTurn'
<1> DEFINE about == <<taxScene, openRate, newest>>
<1>1. ASSUME UNCHANGED about, charge' = charge PROVE InTurn'
  BY <1>1 DEF InTurn, WritersInTurn, SessionFollows, Writes, Stage
\* A charge that does not begin and does not write leaves the session alone.
<1>2. ASSUME UNCHANGED about, \A d \in Sales : charge'[d] = charge[d]
                \/ /\ charge[d].pc \notin Ended /\ charge'[d].kind = charge[d].kind
                   /\ charge'[d].pc # "idle" /\ (charge'[d].pc = "session" => Writes(d))
                   /\ charge'[d].pc = "billed" => ~Writes(d)
      PROVE  InTurn'
  <2>1. \A d \in Sales : charge'[d].kind = charge[d].kind
    BY <1>2
  <2>2. \A d \in Sales : charge'[d].pc \notin Ended => charge[d].pc \notin Ended
    BY <1>2
  <2>3. WritersInTurn'
    BY <1>2, <2>1, <2>2 DEF InTurn, WritersInTurn, Writes, Stage
  <2>4. SessionFollows'
    <3> SUFFICES ASSUME taxScene.serial, openRate # <<>>, charge'[newest].pc = "billed"
                 PROVE  openRate = <<charge'[newest].rate>>
      BY <1>2 DEF SessionFollows
    <3>1. newest \in Sales /\ Writes(newest)
      BY DEF InTurn, WritersInTurn
    <3>2. charge'[newest] = charge[newest]
      BY <1>2, <3>1
    <3> QED
      BY <3>2 DEF InTurn, SessionFollows
  <2> QED
    BY <2>3, <2>4 DEF InTurn
<1>3. CASE AccountStep /\ UNCHANGED taxVars
  BY <1>1, <1>3 DEF taxVars
<1>4. ASSUME NEW c \in Sales, NEW kind \in taxScene.kinds, BeginCharge(c, kind)
      PROVE  InTurn'
  <2>1. /\ UNCHANGED <<taxScene, openRate>> /\ Stage(c, "idle") /\ (taxScene.serial => Resting)
        /\ newest' = (IF kind = "open" THEN c ELSE newest) /\ (kind = "open" => openRate = <<>>)
    BY <1>4 DEF BeginCharge
  <2>2. /\ \A d \in Sales : d # c => charge'[d] = charge[d]
        /\ charge'[c].kind = kind /\ kind \in {"charge", "open"}
        /\ charge'[c].pc \in {"hook", "automatic", "untaxed", "customer", "account"}
    BY <1>4, ChargeBegins DEF Others, TaxTypes
  <2>3. ~Writes(c) /\ (taxScene.serial => \A d \in Sales : charge[d].pc \in Ended)
    BY <2>1 DEF InTurn, WritersInTurn, Resting
  <2>4. CASE kind = "open"
    BY <2>1, <2>2, <2>3, <2>4 DEF InTurn, WritersInTurn, SessionFollows, Writes, Stage, Resting
  <2>5. CASE kind = "charge"
    <3>1. Writes(newest) => newest # c
      BY <2>3
    <3> QED
      BY <2>1, <2>2, <2>3, <2>5, <3>1 DEF InTurn, WritersInTurn, SessionFollows, Writes, Stage, Resting
  <2> QED
    BY <2>2, <2>4, <2>5
<1>5. ASSUME NEW c \in Sales, NEW typed \in taxScene.typed, BeginRetax(c, typed)
      PROVE  InTurn'
  <2>1. /\ UNCHANGED <<taxScene, openRate>> /\ Stage(c, "idle") /\ (taxScene.serial => Resting) /\ newest' = c
    BY <1>5 DEF BeginRetax
  <2>2. /\ \A d \in Sales : d # c => charge'[d] = charge[d]
        /\ charge'[c].kind = "retax" /\ charge'[c].pc \in {"refused", "list", "joining", "session", "vies"}
    BY <1>5, RetaxBegins DEF Others, TaxTypes, Placing, Decided, Same
  <2>3. ~Writes(c) /\ (taxScene.serial => \A d \in Sales : charge[d].pc \in Ended)
    BY <2>1 DEF InTurn, WritersInTurn, Resting
  <2> QED
    BY <2>1, <2>2, <2>3 DEF InTurn, WritersInTurn, SessionFollows, Writes, Stage
<1>6. ASSUME NEW c \in Sales, AskAccount(c) PROVE InTurn'
  <2>1. UNCHANGED about /\ Stage(c, "account")
    BY <1>6 DEF AskAccount
  <2>2. \A d \in Sales : charge'[d] = charge[d] \/ d = c
    BY <1>6, AccountAsked DEF Others, TaxTypes
  <2>3. charge'[c].kind = charge[c].kind /\ charge'[c].pc \in {"customer", "untaxed"}
    BY <1>6, <2>1, AccountAsked DEF Onward, Same, Stage
  <2>4. charge[c].pc \notin Ended
    BY <2>1 DEF Stage, Ended
  <2> QED
    BY <1>2, <2>1, <2>2, <2>3, <2>4
<1>7. ASSUME NEW c \in Sales, ReadCustomer(c) \/ AnswerVies(c) PROVE InTurn'
  <2>1. UNCHANGED about /\ charge[c].pc \notin Ended
    BY <1>7 DEF ReadCustomer, AnswerVies, Stage, Ended
  <2>2. \A d \in Sales : charge'[d] = charge[d] \/ d = c
    BY <1>7, CustomerRead, ViesAnswered DEF Others, TaxTypes
  <2>3. /\ charge'[c].kind = charge[c].kind
        /\ charge'[c].pc \in {"vies", "refused", "list", "joining", IF charge[c].kind = "charge" THEN "billed" ELSE "session"}
    <3>1. CASE ReadCustomer(c)
      BY <3>1, CustomerRead DEF Placing, Decided, Same
    <3>2. CASE AnswerVies(c)
      BY <3>2, ViesAnswered DEF Decided, Same
    <3> QED
      BY <1>7, <3>1, <3>2
  <2> QED
    BY <1>2, <2>1, <2>2, <2>3 DEF Writes
<1>8. ASSUME NEW c \in Sales, ListRates(c) \/ MintRate(c) \/ RateFails(c) PROVE InTurn'
  <2>1. UNCHANGED about
    BY <1>8 DEF ListRates, MintRate, RateFails
  <2>2. GoOn /\ SessionsWait
    BY <1>8, ListGoesOn, MintGoesOn, FailureGoesOn
  <2>3. ASSUME NEW d \in Sales, charge'[d] # charge[d]
        PROVE  /\ charge[d].pc \notin Ended /\ charge'[d].kind = charge[d].kind
               /\ charge'[d].pc # "idle" /\ (charge'[d].pc = "session" => Writes(d))
               /\ charge'[d].pc = "billed" => ~Writes(d)
    <3>1. Onward(charge[d], charge'[d]) /\ charge[d].pc # "session"
      BY <2>2, <2>3 DEF GoOn, SessionsWait, Stage
    <3> QED
      BY <3>1 DEF Onward, Same, Writes, Ended
  <2> QED
    BY <1>2, <2>1, <2>3
<1>9. ASSUME NEW c \in Sales, WriteSession(c) PROVE InTurn'
  <2>1. /\ UNCHANGED <<taxScene, newest>> /\ openRate' = <<charge[c].rate>> /\ Stage(c, "session")
    BY <1>9 DEF WriteSession
  <2>2. Onward(charge[c], charge'[c]) \/ charge'[c] = charge[c]
    BY <1>9, SessionWritten DEF GoOn
  <2>3. /\ \A d \in Sales : d # c => charge'[d] = charge[d]
        /\ charge'[c].pc = "billed" /\ charge'[c].rate = charge[c].rate /\ charge'[c].kind = charge[c].kind
    BY <1>9, <2>2, SessionWritten DEF Others, TaxTypes, Onward, Same
  <2>4. Writes(c) /\ (taxScene.serial => c = newest) /\ charge[c].pc \notin Ended
    BY <2>1 DEF InTurn, WritersInTurn, Stage, Ended
  <2> QED
    BY <2>1, <2>3, <2>4 DEF InTurn, WritersInTurn, SessionFollows, Writes, Stage, Ended
<1>10. ASSUME NEW p \in Servers, Invalidate(p) PROVE InTurn'
  BY <1>1, <1>10 DEF Invalidate
<1>11. ASSUME NEW vat \in Vats, Withdraw(vat) PROVE InTurn'
  BY <1>1, <1>11 DEF Withdraw
<1>12. CASE Tick
  BY <1>1, <1>12 DEF Tick
<1> QED
  BY <1>3, <1>4, <1>5, <1>6, <1>7, <1>8, <1>9, <1>10, <1>11, <1>12 DEF TaxingNext
-----------------------------------------------------------------------------
(* Calls on the account. *)

\* A step is of one call, that was made or begins with it; but for a saved card.
OthersCall(h) == \A g \in Holders \ {h} : chore'[g] = chore[g]
LEMMA OneBecomes ==
  ASSUME AccountTypes, NEW h \in Holders, NEW next, Becomes(h, next)
  PROVE  OthersCall(h) /\ chore'[h] = next
BY DEF AccountTypes, Becomes, OthersCall

LEMMA OneCallActs ==
  ASSUME AccountTypes, AccountStep
  PROVE  /\ accountScene' = accountScene
         /\ \/ chore' = chore
            \/ \E h \in Holders :
                  OthersCall(h) /\ (Calling(h) \/ \E ask \in accountScene.chores : Begin(h, ask))
<1>1. \A h \in Holders : \A next : Becomes(h, next) => OthersCall(h)
  BY OneBecomes
<1>2. ASSUME NEW h \in Holders, NEW ask \in accountScene.chores, Begin(h, ask) PROVE OthersCall(h)
  BY <1>1, <1>2 DEF Begin
<1>3. ASSUME NEW h \in Holders, ReadAddress(h) \/ WriteAddress(h) PROVE OthersCall(h) /\ Calling(h)
  BY <1>1, <1>3 DEF ReadAddress, WriteAddress, Doing, Calling
<1>4. ASSUME NEW h \in Holders, ListTaxIds(h) \/ CreateTaxId(h) \/ DeleteTaxId(h)
      PROVE  OthersCall(h) /\ Calling(h)
  BY <1>1, <1>4 DEF ListTaxIds, CreateTaxId, DeleteTaxId, Doing, Calling
<1>5. ASSUME NEW h \in Holders, LookAtDefault(h) \/ LookAtCards(h) \/ Announced(h) \/ Looked(h)
      PROVE  OthersCall(h) /\ Calling(h)
  BY <1>1, <1>5 DEF LookAtDefault, LookAtCards, Announced, Looked, Doing, Calling
<1>6. ASSUME NEW h \in Holders, Pruned(h) \/ CheckOwner(h) PROVE OthersCall(h) /\ Calling(h)
  BY <1>1, <1>6 DEF Pruned, CheckOwner, Doing, Calling
<1>7. ASSUME NEW h \in Holders, SetDefault(h) \/ Detach(h) \/ Touch(h) \/ GivesUp(h)
      PROVE  OthersCall(h) /\ Calling(h)
  BY <1>1, <1>7 DEF SetDefault, Detach, Touch, GivesUp, Doing, Calling
<1>8. ASSUME NEW card \in Cards, SaveCard(card) PROVE chore' = chore
  BY <1>8, SMTT(60) DEF SaveCard
<1>9. accountScene' = accountScene
  BY ZenonT(60) DEF AccountStep, Begin, ReadAddress, WriteAddress, ListTaxIds, CreateTaxId, DeleteTaxId, LookAtDefault,
         LookAtCards, Announced, Looked, Pruned, CheckOwner, SetDefault, Detach, Touch, GivesUp, SaveCard
<1> QED
  BY <1>2, <1>3, <1>4, <1>5, <1>6, <1>7, <1>8, <1>9 DEF AccountStep

LEMMA OneAtATimeStep ==
  ASSUME AccountTypes, OneAtATime, AccountStep
  PROVE  OneAtATime'
<1>1. accountScene' = accountScene
  BY OneCallActs
<1>2. CASE chore' = chore
  BY <1>1, <1>2 DEF OneAtATime, Calling
<1>3. ASSUME NEW h \in Holders, OthersCall(h), Calling(h) PROVE OneAtATime'
  BY <1>1, <1>3 DEF OneAtATime, Calling, OthersCall
<1>4. ASSUME NEW h \in Holders, NEW ask \in accountScene.chores, OthersCall(h), Begin(h, ask) PROVE OneAtATime'
  <2>1. accountScene.serial => \A g \in Holders : ~Calling(g)
    BY <1>4 DEF Begin, NoChore, Doing, Calling
  <2> QED
    BY <1>1, <1>4, <2>1 DEF OneAtATime, Calling, OthersCall
<1> QED
  BY <1>2, <1>3, <1>4, OneCallActs

-----------------------------------------------------------------------------
(* Tax ids. *)

\* Calls that are not about tax ids, and a call that gives up, delete none and make none.
LeavesIds(old, next) ==
    next.pc \notin {"list", "create", "delete"} /\ next.ids \in {old.ids, <<>>} /\ next.doomed = {}
IdsAreLeft ==
    /\ UNCHANGED <<accountScene, taxIds, madeIds, chores>>
    /\ \A g \in Holders : chore'[g] = chore[g] \/ LeavesIds(chore[g], chore'[g])

LEMMA OthersLeaveIds ==
  ASSUME AccountTypes, IdsAreTold, AccountStep
  PROVE  \/ IdsAreLeft
         \/ \E h \in Holders : \/ \E ask \in accountScene.chores : Begin(h, ask)
                             \/ ListTaxIds(h) \/ CreateTaxId(h) \/ DeleteTaxId(h)
<1> DEFINE quiet == \A g \in Holders : chore'[g] = chore[g] \/ LeavesIds(chore[g], chore'[g])
<1>1. ASSUME NEW h \in Holders, NEW next, Becomes(h, next), LeavesIds(chore[h], next) PROVE quiet
  BY <1>1, OneBecomes DEF OthersCall
<1>2. \A h \in Holders : LeavesIds(chore[h], Idle)
  BY DEF LeavesIds, Idle
<1>3. ASSUME NEW h \in Holders, chore[h].pc # "delete"
      PROVE  /\ chore[h] \in ChoreStateType /\ chore[h].doomed = {}
             /\ Idle \in ChoreStateType /\ Idle.doomed = {} /\ Idle.ids = <<>>
  BY <1>3, IdleIs DEF IdsAreTold, AccountTypes, Idle
<1> HIDE DEF quiet
<1>4. ASSUME NEW h \in Holders, ReadAddress(h) \/ WriteAddress(h) PROVE IdsAreLeft
  <2>1. chore[h].pc \in {"read", "write"}
    BY <1>4 DEF ReadAddress, WriteAddress, Doing
  <2>2. \A line, country : LeavesIds(chore[h], [chore[h] EXCEPT !.pc = "write", !.line = line, !.country = country])
    BY <1>3, <2>1 DEF LeavesIds, ChoreStateType
  <2>3. quiet
    BY <1>1, <1>2, <1>4, <2>2 DEF ReadAddress, WriteAddress
  <2> QED
    BY <1>4, <2>3 DEF quiet, IdsAreLeft, ReadAddress, WriteAddress
<1>5. ASSUME NEW h \in Holders, LookAtDefault(h) \/ LookAtCards(h) \/ Announced(h) \/ Looked(h)
      PROVE  IdsAreLeft
  <2>1. chore[h].pc = "look"
    BY <1>5 DEF LookAtDefault, LookAtCards, Announced, Looked, Doing
  <2>2. /\ LeavesIds(chore[h], [chore[h] EXCEPT !.got = @ \cup {"default"}, !.default = default])
        /\ LeavesIds(chore[h], [chore[h] EXCEPT !.got = @ \cup {"cards"}, !.cards = cards])
        /\ LeavesIds(chore[h], [chore[h] EXCEPT !.pc = "own"])
        /\ LeavesIds(chore[h], [chore[h] EXCEPT !.pc = "detach"])
    BY <1>3, <2>1 DEF LeavesIds, ChoreStateType
  <2>3. quiet
    BY <1>1, <1>2, <1>5, <2>2, SMTT(60) DEF LookAtDefault, LookAtCards, Announced, Looked
  <2> QED
    BY <1>5, <2>3 DEF quiet, IdsAreLeft, LookAtDefault, LookAtCards, Announced, Looked
<1>6. ASSUME NEW h \in Holders, Pruned(h) PROVE IdsAreLeft
  <2>1. \A todo, ask : LeavesIds(chore[h], [Idle EXCEPT !.pc = "own", !.todo = todo, !.ask = ask])
    BY <1>3, <1>6, SMTT(60) DEF LeavesIds, Idle
  <2>2. quiet
    BY <1>1, <1>2, <1>6, <2>1 DEF Pruned
  <2> QED
    BY <1>6, <2>2 DEF quiet, IdsAreLeft, Pruned
<1>7. ASSUME NEW h \in Holders, CheckOwner(h) \/ SetDefault(h) PROVE IdsAreLeft
  <2>1. chore[h].pc \in {"own", "set"}
    BY <1>7 DEF CheckOwner, SetDefault, Doing
  <2>2. /\ LeavesIds(chore[h], [chore[h] EXCEPT !.pc = "look", !.got = {}])
        /\ LeavesIds(chore[h], [chore[h] EXCEPT !.pc = "set"])
    BY <1>3, <2>1 DEF LeavesIds, ChoreStateType
  <2>3. quiet
    BY <1>1, <1>2, <1>7, <2>2 DEF CheckOwner, SetDefault
  <2> QED
    BY <1>7, <2>3 DEF quiet, IdsAreLeft, CheckOwner, SetDefault
<1>8. ASSUME NEW h \in Holders, Detach(h) PROVE IdsAreLeft
  <2>1. chore[h].pc = "detach"
    BY <1>8 DEF Detach, Doing
  <2> DEFINE goes == [chore[h] EXCEPT !.pc = "own", !.todo = Tail(@), !.ask.card = Head(chore[h].todo)]
  <2>2. goes.pc = "own" /\ goes.ids = chore[h].ids /\ goes.doomed = chore[h].doomed
    BY <1>3, <2>1 DEF ChoreStateType
  <2> HIDE DEF goes
  <2>3. LeavesIds(chore[h], goes)
    BY <1>3, <2>1, <2>2 DEF LeavesIds
  <2>4. Becomes(h, Idle) \/ Becomes(h, goes)
    BY <1>8 DEF Detach, goes
  <2>5. quiet
    BY <1>1, <1>2, <2>3, <2>4
  <2> QED
    BY <1>8, <2>5 DEF quiet, IdsAreLeft, Detach
<1>9. ASSUME NEW h \in Holders, Touch(h) \/ GivesUp(h) PROVE IdsAreLeft
  <2>1. quiet
    BY <1>1, <1>2, <1>9 DEF Touch, GivesUp
  <2> QED
    BY <1>9, <2>1 DEF quiet, IdsAreLeft, Touch, GivesUp
<1>10. ASSUME NEW card \in Cards, SaveCard(card) PROVE IdsAreLeft
  BY <1>10 DEF SaveCard, IdsAreLeft
<1> QED
  BY <1>4, <1>5, <1>6, <1>7, <1>8, <1>9, <1>10 DEF AccountStep

LEMMA SceneOfIds ==
  ASSUME accountScene' = accountScene
  PROVE  KeepsAnId' = KeepsAnId /\ InPairs' = InPairs
BY DEF KeepsAnId, InPairs, OnFileAlready, Removals

LEMMA FirstNumbers ==
  ASSUME AccountTypes
  PROVE  accountScene.numbers \in Seq(Numbers) /\ Len(accountScene.numbers) \in Nat /\ madeIds \in Nat /\ chores \in Nat
BY DEF AccountTypes, AccountSceneType

LEMMA IdListed ==
  ASSUME AccountTypes, NEW i \in DOMAIN taxIds
  PROVE  taxIds[i] \in TaxIdType /\ taxIds[i].id \in Nat /\ taxIds[i].number \in Numbers
<1>1. taxIds[i] \in TaxIdType
  BY DEF AccountTypes
<1> QED
  BY <1>1 DEF TaxIdType

LEMMA LeftIdsStay ==
  ASSUME AccountTypes, IdsAreTold, InPairsMade, OneSurvives, IdsAreLeft
  PROVE  IdsAreTold' /\ InPairsMade' /\ OneSurvives'
<1>1. /\ accountScene' = accountScene /\ taxIds' = taxIds /\ madeIds' = madeIds /\ chores' = chores
      /\ KeepsAnId' = KeepsAnId /\ InPairs' = InPairs
  BY SceneOfIds DEF IdsAreLeft
<1>2. \A g \in Holders : chore'[g] = chore[g] \/ LeavesIds(chore[g], chore'[g])
  BY DEF IdsAreLeft
<1>3. \A g \in Holders : chore'[g].doomed \subseteq chore[g].doomed /\ (MayMake(g)' => MayMake(g))
  <2>1. \A g \in Holders : chore'[g].pc \in {"list", "create"} => chore'[g] = chore[g]
    BY <1>2 DEF LeavesIds
  <2>2. \A g \in Holders : chore'[g].doomed \subseteq chore[g].doomed
    BY <1>2 DEF LeavesIds
  <2> QED
    BY <2>1, <2>2 DEF MayMake
<1>4. IdsAreTold'
  <2>1. ASSUME NEW h \in Holders
        PROVE  /\ \A i \in DOMAIN chore'[h].ids : chore'[h].ids[i].id <= madeIds
               /\ \A id \in chore'[h].doomed : id <= madeIds
               /\ chore'[h].doomed # {} => chore'[h].pc = "delete"
               /\ chore'[h].pc \in {"list", "create", "delete"} => TaxIdCall(h)'
    <3>1. CASE chore'[h] = chore[h]
      BY <1>1, <3>1 DEF IdsAreTold, TaxIdCall
    <3>2. CASE LeavesIds(chore[h], chore'[h])
      <4>1. DOMAIN <<>> = {}
        OBVIOUS
      <4> QED
        BY <3>2, <4>1 DEF IdsAreTold, LeavesIds
    <3> QED
      BY <1>2, <3>1, <3>2
  <2> QED
    BY <1>1, <2>1 DEF IdsAreTold
<1>5. InPairsMade'
  <2>1. ASSUME InPairs PROVE InPairsMade'
    BY <1>1, <1>3, <2>1 DEF InPairsMade, Made
  <2> QED
    BY <1>1, <2>1 DEF InPairsMade
<1>6. OneSurvives'
  BY <1>1, <1>3 DEF OneSurvives
<1> QED
  BY <1>4, <1>5, <1>6

LEMMA CallBegins ==
  ASSUME AccountTypes, IdsAreTold, InPairsMade, OneSurvives,
         NEW h \in Holders, NEW ask \in accountScene.chores, Begin(h, ask)
  PROVE  IdsAreTold' /\ InPairsMade' /\ OneSurvives'
<1>1. /\ accountScene' = accountScene /\ taxIds' = taxIds /\ madeIds' = madeIds
      /\ chores' = chores + 1 /\ chores < accountScene.count /\ chore[h].pc = "idle"
      /\ KeepsAnId' = KeepsAnId /\ InPairs' = InPairs
  BY SceneOfIds DEF Begin, Doing
<1>2. /\ \A g \in Holders \ {h} : chore'[g] = chore[g]
      /\ chore'[h].pc = First(ask) /\ chore'[h].ids = <<>> /\ chore'[h].doomed = {} /\ chore'[h].ask = ask
  <2> DEFINE next == [Idle EXCEPT !.pc = First(ask), !.ask = ask]
  <2>1. next.pc = First(ask) /\ next.ids = <<>> /\ next.doomed = {} /\ next.ask = ask
    BY DEF Idle
  <2> HIDE DEF next
  <2>2. Becomes(h, next)
    BY DEF Begin, next
  <2> QED
    BY <2>1, <2>2, OneBecomes DEF OthersCall
<1>3. First(ask) \notin {"create", "delete"} /\ (First(ask) = "list" => ask.kind = "taxId")
  <2>1. ask.kind \in {"address", "taxId", "attached", "chosen", "default", "detach", "prune", "touch"}
    BY DEF AccountTypes, AccountSceneType, ChoreType
  <2> QED
    BY <2>1 DEF First
<1>4. \A g \in Holders : chore'[g].doomed \subseteq chore[g].doomed /\ (g # h => MayMake(g)' = MayMake(g))
  BY <1>2 DEF MayMake
<1>5. IdsAreTold'
  <2>1. ASSUME NEW g \in Holders
        PROVE  /\ \A i \in DOMAIN chore'[g].ids : chore'[g].ids[i].id <= madeIds
               /\ \A id \in chore'[g].doomed : id <= madeIds
               /\ chore'[g].doomed # {} => chore'[g].pc = "delete"
               /\ chore'[g].pc \in {"list", "create", "delete"} => TaxIdCall(g)'
    <3>1. CASE g # h
      BY <1>1, <1>2, <3>1 DEF IdsAreTold, TaxIdCall
    <3>2. CASE g = h
      <4>1. DOMAIN <<>> = {}
        OBVIOUS
      <4> QED
        BY <1>1, <1>2, <1>3, <3>2, <4>1 DEF TaxIdCall
    <3> QED
      BY <3>1, <3>2
  <2> QED
    BY <1>1, <2>1 DEF IdsAreTold
<1>6. InPairsMade'
  <2> SUFFICES ASSUME InPairs PROVE InPairsMade'
    BY <1>1 DEF InPairsMade
  <2>1. chores + 1 <= 2 /\ chores \in Nat /\ Made' = Made
    <3>1. accountScene.count \in Nat /\ accountScene.count <= 2
      BY AccountAssumption DEF InPairs, AccountTypes, AccountSceneType
    <3> QED
      BY <1>1, <3>1, FirstNumbers DEF Made
  <2>2. \A f, g \in Holders : MayMake(f) /\ MayMake(g) => f = g
    BY <2>1 DEF InPairsMade
  <2>3. /\ \A g \in Holders : MayMake(g)' => Made + 1 <= chores + 1
        /\ \A f, g \in Holders : MayMake(f)' /\ MayMake(g)' /\ f # g => Made + 2 <= chores + 1
    BY <1>4, <2>1, <2>2 DEF InPairsMade
  <2>4. \A e, f, g \in Holders : MayMake(e)' /\ MayMake(f)' /\ MayMake(g)' => e = f \/ f = g \/ e = g
    BY <1>4, <2>2
  <2>5. Made > 0 => \A g \in Holders : madeIds \notin chore'[g].doomed
    BY <1>4 DEF InPairsMade
  <2> QED
    BY <1>1, <2>1, <2>3, <2>4, <2>5 DEF InPairsMade
<1>7. OneSurvives'
  BY <1>1, <1>4 DEF OneSurvives
<1> QED
  BY <1>5, <1>6, <1>7

\* What is on file already is kept by whoever saves it: it was made since, and so it is
\* the newest, which nobody else means to delete.
LEMMA IdsListed ==
  ASSUME AccountTypes, OneAtATime, IdsAreTold, InPairsMade, OneSurvives, NEW h \in Holders, ListTaxIds(h)
  PROVE  IdsAreTold' /\ InPairsMade' /\ OneSurvives'
<1> DEFINE number == chore[h].ask.number
           same == {i \in DOMAIN taxIds : taxIds[i].number = number}
           ids(places) == {taxIds[i].id : i \in places}
<1>1. /\ accountScene' = accountScene /\ taxIds' = taxIds /\ madeIds' = madeIds /\ chores' = chores
      /\ chore[h].pc = "list" /\ KeepsAnId' = KeepsAnId /\ InPairs' = InPairs
  BY SceneOfIds DEF ListTaxIds, Doing
<1>2. chore[h] \in ChoreStateType /\ chore[h].doomed = {} /\ taxIds \in Seq(TaxIdType) /\ same \subseteq DOMAIN taxIds
  BY <1>1 DEF AccountTypes, IdsAreTold
<1>3. TaxIdCall(h)
  BY <1>1 DEF IdsAreTold
<1> HIDE DEF same
\* What the call becomes: it deletes some, or makes its own.
<1> DEFINE deletes(places) == [chore[h] EXCEPT !.pc = "delete", !.doomed = ids(places)]
           creates == [chore[h] EXCEPT !.pc = "create", !.ids = taxIds]
<1>4. \/ number = NoNumber /\ Becomes(h, deletes(DOMAIN taxIds))
      \/ number # NoNumber /\ same # {} /\ Becomes(h, deletes(DOMAIN taxIds \ same))
      \/ number # NoNumber /\ same = {} /\ Becomes(h, creates)
  BY DEF ListTaxIds, same
<1>5. \A places : /\ deletes(places).pc = "delete" /\ deletes(places).ids = chore[h].ids
                  /\ deletes(places).doomed = ids(places) /\ deletes(places).ask = chore[h].ask
  BY <1>2 DEF ChoreStateType
<1>6. /\ creates.pc = "create" /\ creates.ids = taxIds
      /\ creates.doomed = {} /\ creates.ask = chore[h].ask
  BY <1>2 DEF ChoreStateType
<1>7. \A places \in SUBSET DOMAIN taxIds : \A id : id \in ids(places) <=> \E i \in places : id = taxIds[i].id
  OBVIOUS
<1> HIDE DEF deletes, creates, ids
<1>8. /\ OthersCall(h) /\ chore'[h].ask = chore[h].ask
      /\ \/ /\ chore'[h].pc = "delete" /\ chore'[h].ids = chore[h].ids
            /\ number = NoNumber \/ same # {}
            /\ chore'[h].doomed = ids(IF number = NoNumber THEN DOMAIN taxIds ELSE DOMAIN taxIds \ same)
         \/ chore'[h].pc = "create" /\ chore'[h].ids = taxIds /\ chore'[h].doomed = {}
  BY <1>4, <1>5, <1>6, OneBecomes
<1>9. \A g \in Holders \ {h} : chore'[g] = chore[g]
  BY <1>8 DEF OthersCall
<1>10. \A id \in chore'[h].doomed : \E i \in DOMAIN taxIds : id = taxIds[i].id
  BY <1>2, <1>7, <1>8
<1>11. IdsAreTold'
  <2>1. /\ \A i \in DOMAIN chore'[h].ids : chore'[h].ids[i].id <= madeIds
        /\ \A id \in chore'[h].doomed : id <= madeIds
        /\ chore'[h].doomed # {} => chore'[h].pc = "delete"
        /\ TaxIdCall(h)'
    BY <1>1, <1>3, <1>8, <1>10 DEF IdsAreTold, TaxIdCall
  <2>2. \A g \in Holders \ {h} :
           /\ \A i \in DOMAIN chore'[g].ids : chore'[g].ids[i].id <= madeIds
           /\ \A id \in chore'[g].doomed : id <= madeIds
           /\ chore'[g].doomed # {} => chore'[g].pc = "delete"
           /\ chore'[g].pc \in {"list", "create", "delete"} => TaxIdCall(g)'
    BY <1>1, <1>9 DEF IdsAreTold, TaxIdCall
  <2> QED
    BY <1>1, <2>1, <2>2 DEF IdsAreTold
\* One of the same number was made since the first, and it is the newest.
<1>12. ASSUME InPairs, number # NoNumber, NEW i \in same
       PROVE  taxIds[i].id = madeIds /\ Made > 0
  <2>1. i \in DOMAIN taxIds /\ taxIds[i].number = number
    BY <1>12 DEF same
  <2>2. number \notin ToSet(accountScene.numbers)
    BY <1>3, <1>12 DEF TaxIdCall, InPairs, OnFileAlready
  <2>3. taxIds[i].id > Len(accountScene.numbers) /\ taxIds[i].id <= madeIds
    <3>1. taxIds[i].id \in Nat
      BY <2>1, IdListed
    <3> QED
      BY <1>12, <2>1, <2>2, <3>1, FirstNumbers DEF InPairsMade, IdsAreTold
  <2>4. MayMake(h)
    BY <1>1 DEF MayMake
  <2>5. Made \in Nat /\ Made + 1 <= chores /\ chores <= 2
    BY <1>12, <2>4 DEF InPairsMade
  <2>6. taxIds[i].id \in Nat
    BY <2>1, IdListed
  <2> QED
    BY <2>3, <2>5, <2>6, FirstNumbers DEF Made
<1>13. ASSUME number # NoNumber, NEW i \in same PROVE taxIds[i].id \notin chore'[h].doomed
  <2>1. i \in DOMAIN taxIds
    BY <1>2, <1>13
  <2>2. \A j \in DOMAIN taxIds \ same : taxIds[i].id # taxIds[j].id
    BY <1>13, <2>1 DEF IdsAreTold
  <2> QED
    BY <1>7, <1>8, <1>13, <2>2
<1>14. InPairsMade'
  <2> SUFFICES ASSUME InPairs PROVE InPairsMade'
    BY <1>1 DEF InPairsMade
  <2>1. \A g \in Holders : MayMake(g)' => MayMake(g)
    BY <1>1, <1>9 DEF MayMake
  <2>2. number # NoNumber
    BY <1>3 DEF TaxIdCall, InPairs, Removals
  <2>3. madeIds \notin chore'[h].doomed
    <3>1. CASE same = {}
      BY <1>8, <2>2, <3>1
    <3>2. ASSUME NEW i \in same PROVE madeIds \notin chore'[h].doomed
      BY <1>12, <1>13, <2>2, <3>2
    <3> QED
      BY <3>1, <3>2
  <2>4. Made > 0 => \A g \in Holders : madeIds \notin chore'[g].doomed
    BY <1>9, <2>3 DEF InPairsMade
  <2> QED
    BY <1>1, <2>1, <2>4 DEF InPairsMade, Made
<1>15. OneSurvives'
  <2> SUFFICES ASSUME KeepsAnId
               PROVE  \E i \in DOMAIN taxIds : \A g \in Holders : taxIds[i].id \notin chore'[g].doomed
    BY <1>1 DEF OneSurvives
  <2>1. number # NoNumber
    BY <1>3 DEF TaxIdCall, KeepsAnId, Removals
  <2>2. CASE same = {}
    <3>1. chore'[h].doomed = {}
      BY <1>8, <2>1, <2>2
    <3> QED
      BY <1>9, <3>1 DEF OneSurvives
  <2>3. ASSUME NEW i \in same
        PROVE  \A g \in Holders : taxIds[i].id \notin chore'[g].doomed
    <3>1. taxIds[i].id \notin chore'[h].doomed
      BY <1>13, <2>1, <2>3
    <3>2. ASSUME accountScene.serial, NEW g \in Holders \ {h} PROVE chore'[g].doomed = {}
      BY <1>1, <1>9, <3>2 DEF OneAtATime, Calling, IdsAreTold
    <3>3. ASSUME InPairs, NEW g \in Holders \ {h} PROVE taxIds[i].id \notin chore'[g].doomed
      BY <1>9, <1>12, <2>1, <2>3, <3>3 DEF InPairsMade
    <3> QED
      BY <3>1, <3>2, <3>3 DEF KeepsAnId
  <2> QED
    BY <1>2, <2>2, <2>3
<1> QED
  BY <1>11, <1>14, <1>15

\* A list with one more before it, and a list without one of its places.
LEMMA Prepended ==
  ASSUME NEW S, NEW list \in Seq(S), NEW x \in S
  PROVE  LET longer == <<x>> \o list
         IN  /\ longer \in Seq(S) /\ 1 \in DOMAIN longer /\ longer[1] = x
             /\ \A i \in DOMAIN list : i + 1 \in DOMAIN longer /\ longer[i + 1] = list[i]
             /\ \A i \in DOMAIN longer : i = 1 \/ (i - 1 \in DOMAIN list /\ longer[i] = list[i - 1])
<1>1. <<x>> \in Seq(S) /\ Len(<<x>>) = 1 /\ <<x>>[1] = x
  OBVIOUS
<1> DEFINE longer == <<x>> \o list
<1>2. /\ longer \in Seq(S) /\ Len(longer) = Len(<<x>>) + Len(list)
      /\ \A i \in 1..Len(<<x>>) + Len(list) :
            longer[i] = IF i <= Len(<<x>>) THEN <<x>>[i] ELSE list[i - Len(<<x>>)]
  BY <1>1, ConcatProperties
<1> HIDE DEF longer
<1>3. Len(list) \in Nat /\ DOMAIN list = 1..Len(list) /\ Len(longer) = 1 + Len(list) /\ DOMAIN longer = 1..Len(longer)
  BY <1>1, <1>2
<1>4. \A i \in 1..1 + Len(list) : longer[i] = IF i <= 1 THEN x ELSE list[i - 1]
  BY <1>1, <1>2, <1>3
<1> QED
  BY <1>2, <1>3, <1>4 DEF longer

LEMMA Removed ==
  ASSUME NEW S, NEW list \in Seq(S), NEW i \in DOMAIN list
  PROVE  LET rest == RemoveAt(list, i)
         IN  /\ \A k \in DOMAIN list \ {i} : \E j \in DOMAIN rest : rest[j] = list[k]
             /\ \A a, b \in DOMAIN rest : \E k, l \in DOMAIN list \ {i} :
                   rest[a] = list[k] /\ rest[b] = list[l] /\ (k = l => a = b)
<1> DEFINE rest == RemoveAt(list, i)
           place(j) == IF j < i THEN j ELSE j + 1
<1>1. /\ rest \in Seq(S) /\ Len(rest) = Len(list) - 1
      /\ \A j \in 1..Len(list) - 1 : rest[j] = IF j < i THEN list[j] ELSE list[j + 1]
  BY WithoutOne
<1> HIDE DEF rest
<1>2. Len(list) \in Nat /\ DOMAIN list = 1..Len(list) /\ DOMAIN rest = 1..Len(list) - 1 /\ i \in 1..Len(list)
  BY <1>1
<1>3. \A j \in DOMAIN rest : place(j) \in DOMAIN list \ {i} /\ rest[j] = list[place(j)]
  BY <1>1, <1>2
<1>4. \A k \in DOMAIN list \ {i} : \E j \in DOMAIN rest : place(j) = k
  <2> SUFFICES ASSUME NEW k \in DOMAIN list \ {i} PROVE \E j \in DOMAIN rest : place(j) = k
    OBVIOUS
  <2> DEFINE j == IF k < i THEN k ELSE k - 1
  <2>1. j \in DOMAIN rest /\ place(j) = k
    BY <1>2
  <2> QED
    BY <2>1
<1>5. \A a, b \in DOMAIN rest : place(a) = place(b) => a = b
  BY <1>2
<1> HIDE DEF place
<1>6. \A a, b \in DOMAIN rest : \E k, l \in DOMAIN list \ {i} :
         rest[a] = list[k] /\ rest[b] = list[l] /\ (k = l => a = b)
  BY <1>3, <1>5
<1>7. \A k \in DOMAIN list \ {i} : \E j \in DOMAIN rest : rest[j] = list[k]
  BY <1>3, <1>4
<1> QED
  BY <1>6, <1>7 DEF rest

LEMMA IdCreated ==
  ASSUME AccountTypes, IdsAreTold, InPairsMade, OneSurvives, NEW h \in Holders, CreateTaxId(h)
  PROVE  IdsAreTold' /\ InPairsMade' /\ OneSurvives'
<1> DEFINE number == chore[h].ask.number
           new == [id |-> madeIds + 1, number |-> number]
           doomed == {chore[h].ids[i].id : i \in DOMAIN chore[h].ids}
           deletes == [chore[h] EXCEPT !.pc = "delete", !.doomed = doomed]
<1>1. \/ Becomes(h, Idle) /\ UNCHANGED <<accountScene, taxIds, madeIds, chores>>
      \/ /\ number.formed /\ taxIds' = <<new>> \o taxIds /\ madeIds' = madeIds + 1 /\ Becomes(h, deletes)
         /\ UNCHANGED <<accountScene, chores>>
  BY DEF CreateTaxId
<1>2. CASE Becomes(h, Idle) /\ UNCHANGED <<accountScene, taxIds, madeIds, chores>>
  <2>1. IdsAreLeft
    <3>1. \A g \in Holders : chore'[g] = chore[g] \/ (g = h /\ chore'[g] = Idle)
      BY <1>2, OneBecomes DEF OthersCall
    <3>2. LeavesIds(chore[h], Idle)
      BY DEF LeavesIds, Idle
    <3> QED
      BY <1>2, <3>1, <3>2 DEF IdsAreLeft
  <2> QED
    BY <2>1, LeftIdsStay
<1>3. ASSUME number.formed, taxIds' = <<new>> \o taxIds, madeIds' = madeIds + 1, Becomes(h, deletes),
             UNCHANGED <<accountScene, chores>>
      PROVE  IdsAreTold' /\ InPairsMade' /\ OneSurvives'
  <2>1. /\ taxIds' = <<new>> \o taxIds /\ madeIds' = madeIds + 1 /\ Becomes(h, deletes)
        /\ accountScene' = accountScene /\ chores' = chores /\ chore[h].pc = "create"
        /\ KeepsAnId' = KeepsAnId /\ InPairs' = InPairs
    BY <1>3, SceneOfIds DEF CreateTaxId, Doing
  <2>2. chore[h] \in ChoreStateType /\ taxIds \in Seq(TaxIdType) /\ madeIds \in Nat
    BY DEF AccountTypes
  <2>3. new \in TaxIdType
    <3>1. TaxIdCall(h)
      BY <2>1 DEF IdsAreTold
    <3>2. number \in Numbers
      <4>1. number \in Numbers \cup {NoNumber}
        BY <2>2 DEF ChoreStateType, ChoreType
      <4> QED
        BY <1>3, <4>1 DEF NoNumber
    <3> QED
      BY <2>2, <3>2 DEF TaxIdType
  <2>4. deletes.pc = "delete" /\ deletes.ids = chore[h].ids /\ deletes.doomed = doomed /\ deletes.ask = chore[h].ask
    BY <2>2 DEF ChoreStateType
  <2> HIDE DEF deletes
  <2>5. /\ \A g \in Holders \ {h} : chore'[g] = chore[g]
        /\ chore'[h].pc = "delete" /\ chore'[h].ids = chore[h].ids /\ chore'[h].doomed = doomed
        /\ chore'[h].ask = chore[h].ask
    BY <2>1, <2>4, OneBecomes DEF OthersCall
  <2>6. new.id = madeIds + 1
    OBVIOUS
  <2> HIDE DEF new
  <2>7. /\ taxIds' \in Seq(TaxIdType) /\ 1 \in DOMAIN taxIds' /\ taxIds'[1] = new
        /\ \A i \in DOMAIN taxIds' : i = 1 \/ (i - 1 \in DOMAIN taxIds /\ taxIds'[i] = taxIds[i - 1])
    BY <2>1, <2>2, <2>3, Prepended
  <2>8. \A id \in doomed : id \in Nat /\ id <= madeIds
    <3>1. ASSUME NEW i \in DOMAIN chore[h].ids PROVE chore[h].ids[i].id \in Nat /\ chore[h].ids[i].id <= madeIds
      <4>1. chore[h].ids[i] \in TaxIdType
        BY <2>2, <3>1 DEF ChoreStateType
      <4> QED
        BY <3>1, <4>1 DEF IdsAreTold, TaxIdType
    <3> QED
      BY <3>1
  <2> HIDE DEF doomed
  <2>9. \A g \in Holders : \A id \in chore'[g].doomed : id \in Nat /\ id <= madeIds
    <3>1. ASSUME NEW g \in Holders \ {h} PROVE \A id \in chore[g].doomed : id \in Nat /\ id <= madeIds
      <4>1. chore[g].doomed \subseteq Nat
        BY DEF AccountTypes, ChoreStateType
      <4> QED
        BY <4>1 DEF IdsAreTold
    <3> QED
      BY <2>5, <2>8, <3>1
  <2>10. IdsAreTold'
    <3>1. \A i \in DOMAIN taxIds' : taxIds'[i].id <= madeIds'
      <4>1. ASSUME NEW i \in DOMAIN taxIds, taxIds[i].id <= madeIds PROVE taxIds[i].id <= madeIds + 1
        BY <2>2, <4>1, IdListed
      <4> QED
        BY <2>1, <2>2, <2>6, <2>7, <4>1 DEF IdsAreTold
    <3>2. \A i, j \in DOMAIN taxIds' : taxIds'[i].id = taxIds'[j].id => i = j
      <4>1. \A i \in DOMAIN taxIds : taxIds[i].id # new.id
        BY <2>2, <2>6, IdListed DEF IdsAreTold
      <4>2. \A i \in DOMAIN taxIds' : i \in Int
        BY <2>7
      <4> QED
        BY <2>7, <4>1, <4>2 DEF IdsAreTold
    <3>3. ASSUME NEW g \in Holders
          PROVE  /\ \A i \in DOMAIN chore'[g].ids : chore'[g].ids[i].id <= madeIds'
                 /\ \A id \in chore'[g].doomed : id <= madeIds'
                 /\ chore'[g].doomed # {} => chore'[g].pc = "delete"
                 /\ chore'[g].pc \in {"list", "create", "delete"} => TaxIdCall(g)'
      <4>1. chore'[g].ids = chore[g].ids /\ \A id \in chore'[g].doomed : id <= madeIds + 1
        BY <2>2, <2>5, <2>9
      <4>2. ASSUME NEW i \in DOMAIN chore[g].ids PROVE chore[g].ids[i].id <= madeIds + 1
        <5>1. chore[g].ids[i] \in TaxIdType
          BY <4>2 DEF AccountTypes, ChoreStateType
        <5> QED
          BY <2>2, <4>2, <5>1 DEF IdsAreTold, TaxIdType
      <4>3. chore'[g].doomed # {} => chore'[g].pc = "delete"
        BY <2>5 DEF IdsAreTold
      <4>4. chore'[g].pc \in {"list", "create", "delete"} => TaxIdCall(g)'
        BY <2>1, <2>5 DEF IdsAreTold, TaxIdCall
      <4> QED
        BY <2>1, <4>1, <4>2, <4>3, <4>4
    <3> QED
      BY <3>1, <3>2, <3>3 DEF IdsAreTold
  <2>11. InPairsMade'
    <3> SUFFICES ASSUME InPairs PROVE InPairsMade'
      BY <2>1 DEF InPairsMade
    <3>1. MayMake(h) /\ Made' = Made + 1 /\ \A g \in Holders : MayMake(g)' => g # h /\ MayMake(g)
      <4>1. MayMake(h) /\ \A g \in Holders : MayMake(g)' => g # h /\ MayMake(g)
        BY <2>1, <2>5 DEF MayMake
      <4>2. Made' = Made + 1
        BY <2>1, <2>2, FirstNumbers DEF Made
      <4> QED
        BY <4>1, <4>2
    <3>2. Made \in Nat /\ Made + 1 <= chores /\ chores <= 2 /\ chores \in Nat
      BY <3>1, FirstNumbers DEF InPairsMade
    <3>3. \A g \in Holders : MayMake(g)' => Made + 2 <= chores
      BY <3>1 DEF InPairsMade
    <3>4. \A f, g \in Holders : MayMake(f)' /\ MayMake(g)' => f = g
      BY <3>1 DEF InPairsMade
    <3>5. \A i \in DOMAIN taxIds' :
             taxIds'[i].id <= Len(accountScene.numbers) => taxIds'[i].number \in ToSet(accountScene.numbers)
      <4>1. taxIds'[1].id > Len(accountScene.numbers)
        BY <2>2, <2>6, <2>7, <3>2, FirstNumbers DEF Made
      <4>2. \A i \in DOMAIN taxIds :
               taxIds[i].id <= Len(accountScene.numbers) => taxIds[i].number \in ToSet(accountScene.numbers)
        BY DEF InPairsMade
      <4>3. taxIds'[1].id \in Nat
        BY <2>2, <2>6, <2>7
      <4> QED
        BY <2>7, <4>1, <4>2, <4>3, FirstNumbers
    <3>6. \A g \in Holders : madeIds' \notin chore'[g].doomed
      BY <2>1, <2>2, <2>9
    <3> QED
      BY <2>1, <3>1, <3>2, <3>3, <3>4, <3>5, <3>6 DEF InPairsMade
  <2>12. OneSurvives'
    <3>1. \A g \in Holders : taxIds'[1].id \notin chore'[g].doomed
      BY <2>2, <2>6, <2>7, <2>9
    <3> QED
      BY <2>7, <3>1 DEF OneSurvives
  <2> QED
    BY <2>10, <2>11, <2>12
<1> QED
  BY <1>1, <1>2, <1>3

LEMMA IdDeleted ==
  ASSUME AccountTypes, IdsAreTold, InPairsMade, OneSurvives, NEW h \in Holders, DeleteTaxId(h)
  PROVE  IdsAreTold' /\ InPairsMade' /\ OneSurvives'
<1>1. /\ accountScene' = accountScene /\ madeIds' = madeIds /\ chores' = chores /\ chore[h].pc = "delete"
      /\ KeepsAnId' = KeepsAnId /\ InPairs' = InPairs /\ chore[h] \in ChoreStateType /\ taxIds \in Seq(TaxIdType)
  BY SceneOfIds DEF DeleteTaxId, Doing, AccountTypes
<1>2. CASE chore[h].doomed = {}
  <2>1. Becomes(h, Idle) /\ taxIds' = taxIds
    BY <1>2 DEF DeleteTaxId
  <2>2. IdsAreLeft
    <3>1. \A g \in Holders : chore'[g] = chore[g] \/ (g = h /\ chore'[g] = Idle)
      BY <2>1, OneBecomes DEF OthersCall
    <3>2. LeavesIds(chore[h], Idle)
      BY DEF LeavesIds, Idle
    <3> QED
      BY <1>1, <2>1, <3>1, <3>2 DEF IdsAreLeft
  <2> QED
    BY <2>2, LeftIdsStay
<1>3. ASSUME chore[h].doomed # {} PROVE IdsAreTold' /\ InPairsMade' /\ OneSurvives'
  <2>1. PICK id \in chore[h].doomed :
           /\ Becomes(h, [chore[h] EXCEPT !.doomed = @ \ {id}])
           /\ taxIds' = taxIds \/ \E i \in DOMAIN taxIds : taxIds[i].id = id /\ taxIds' = RemoveAt(taxIds, i)
    BY <1>3 DEF DeleteTaxId
  <2> DEFINE next == [chore[h] EXCEPT !.doomed = @ \ {id}]
  <2>2. /\ next.pc = chore[h].pc /\ next.ids = chore[h].ids /\ next.doomed = chore[h].doomed \ {id}
        /\ next.ask = chore[h].ask
    BY <1>1 DEF ChoreStateType
  <2> HIDE DEF next
  <2>3. Becomes(h, next)
    BY <2>1 DEF next
  <2>4. \A g \in Holders : /\ chore'[g].pc = chore[g].pc /\ chore'[g].ids = chore[g].ids
                           /\ chore'[g].doomed \subseteq chore[g].doomed /\ chore'[g].ask = chore[g].ask
    BY <2>2, <2>3, OneBecomes DEF OthersCall
  \* What is left on file was on file; and only the id that is deleted has gone.
  <2>5. /\ \A a, b \in DOMAIN taxIds' : \E k, l \in DOMAIN taxIds :
              taxIds'[a] = taxIds[k] /\ taxIds'[b] = taxIds[l] /\ (k = l => a = b)
        /\ \A k \in DOMAIN taxIds : taxIds[k].id # id => \E a \in DOMAIN taxIds' : taxIds'[a] = taxIds[k]
    <3>1. CASE taxIds' = taxIds
      BY <3>1
    <3>2. ASSUME NEW i \in DOMAIN taxIds, taxIds[i].id = id, taxIds' = RemoveAt(taxIds, i)
          PROVE  /\ \A a, b \in DOMAIN taxIds' : \E k, l \in DOMAIN taxIds :
                       taxIds'[a] = taxIds[k] /\ taxIds'[b] = taxIds[l] /\ (k = l => a = b)
                 /\ \A k \in DOMAIN taxIds : taxIds[k].id # id => \E a \in DOMAIN taxIds' : taxIds'[a] = taxIds[k]
      <4>1. /\ \A k \in DOMAIN taxIds \ {i} : \E j \in DOMAIN taxIds' : taxIds'[j] = taxIds[k]
            /\ \A a, b \in DOMAIN taxIds' : \E k, l \in DOMAIN taxIds \ {i} :
                  taxIds'[a] = taxIds[k] /\ taxIds'[b] = taxIds[l] /\ (k = l => a = b)
        <5> DEFINE rest == RemoveAt(taxIds, i)
        <5>1. /\ \A k \in DOMAIN taxIds \ {i} : \E j \in DOMAIN rest : rest[j] = taxIds[k]
              /\ \A a, b \in DOMAIN rest : \E k, l \in DOMAIN taxIds \ {i} :
                    rest[a] = taxIds[k] /\ rest[b] = taxIds[l] /\ (k = l => a = b)
          BY <1>1, Removed
        <5>2. taxIds' = rest
          BY <3>2
        <5> HIDE DEF rest
        <5> QED
          BY <5>1, <5>2
      <4>2. \A k \in DOMAIN taxIds : taxIds[k].id # id => k # i
        BY <3>2
      <4>3. \A a, b \in DOMAIN taxIds' : \E k, l \in DOMAIN taxIds :
               taxIds'[a] = taxIds[k] /\ taxIds'[b] = taxIds[l] /\ (k = l => a = b)
        BY <4>1
      <4> QED
        BY <4>1, <4>2, <4>3
    <3> QED
      BY <2>1, <3>1, <3>2
  <2>6. IdsAreTold'
    <3>1. \A a \in DOMAIN taxIds' : taxIds'[a].id <= madeIds
      BY <2>5 DEF IdsAreTold
    <3>2. \A a, b \in DOMAIN taxIds' : taxIds'[a].id = taxIds'[b].id => a = b
      BY <2>5 DEF IdsAreTold
    <3>3. \A g \in Holders :
             /\ \A i \in DOMAIN chore'[g].ids : chore'[g].ids[i].id <= madeIds
             /\ \A i \in chore'[g].doomed : i <= madeIds
             /\ chore'[g].doomed # {} => chore'[g].pc = "delete"
             /\ chore'[g].pc \in {"list", "create", "delete"} => TaxIdCall(g)'
      BY <1>1, <2>4 DEF IdsAreTold, TaxIdCall
    <3> QED
      BY <1>1, <3>1, <3>2, <3>3 DEF IdsAreTold
  <2>7. InPairsMade'
    <3>1. \A g \in Holders : MayMake(g)' = MayMake(g)
      BY <2>4 DEF MayMake
    <3>2. \A a \in DOMAIN taxIds' : \E k \in DOMAIN taxIds : taxIds'[a] = taxIds[k]
      BY <2>5
    <3>3. InPairs => \A a \in DOMAIN taxIds' :
             taxIds'[a].id <= Len(accountScene.numbers) => taxIds'[a].number \in ToSet(accountScene.numbers)
      BY <3>2 DEF InPairsMade
    <3>4. InPairs /\ Made > 0 => \A g \in Holders : madeIds \notin chore'[g].doomed
      BY <2>4 DEF InPairsMade
    <3>5. InPairs =>
             /\ chores <= 2 /\ Made \in Nat /\ Made <= chores
             /\ \A g \in Holders : MayMake(g)' => Made + 1 <= chores
             /\ \A f, g \in Holders : MayMake(f)' /\ MayMake(g)' /\ f # g => Made + 2 <= chores
             /\ \A e, f, g \in Holders : MayMake(e)' /\ MayMake(f)' /\ MayMake(g)' => e = f \/ f = g \/ e = g
      BY <3>1 DEF InPairsMade
    <3> QED
      BY <1>1, <3>3, <3>4, <3>5 DEF InPairsMade, Made
  <2>8. OneSurvives'
    <3> SUFFICES ASSUME KeepsAnId
                 PROVE  \E a \in DOMAIN taxIds' : \A g \in Holders : taxIds'[a].id \notin chore'[g].doomed
      BY <1>1 DEF OneSurvives
    <3>1. PICK k \in DOMAIN taxIds : \A g \in Holders : taxIds[k].id \notin chore[g].doomed
      BY DEF OneSurvives
    <3>2. taxIds[k].id # id
      BY <2>1, <3>1
    <3>3. PICK a \in DOMAIN taxIds' : taxIds'[a] = taxIds[k]
      BY <2>5, <3>2
    <3> QED
      BY <2>4, <3>1, <3>3
  <2> QED
    BY <2>6, <2>7, <2>8
<1> QED
  BY <1>2, <1>3

LEMMA IdsStep ==
  ASSUME AccountTypes, OneAtATime, IdsAreTold, InPairsMade, OneSurvives, AccountStep
  PROVE  IdsAreTold' /\ InPairsMade' /\ OneSurvives'
BY OthersLeaveIds, LeftIdsStay, CallBegins, IdsListed, IdCreated, IdDeleted

-----------------------------------------------------------------------------
(* Cards and the default. *)

\* Calls that are not about the default card leave it, and the cards.
LeavesCards(g) == chore'[g] = chore[g] \/ (~Announces(g) /\ ~Announces(g)' /\ chore'[g].pc \notin {"look", "detach"})
CardsAreLeft ==
    /\ UNCHANGED <<accountScene, cards, default, saved>>
    /\ \A card \in Cards : rank[card] > 0 => rank'[card] > 0
    /\ \A g \in Holders : LeavesCards(g)

LEMMA OthersLeaveCards ==
  ASSUME AccountTypes, CardsAreOnFile, AccountStep
  PROVE  \/ CardsAreLeft
         \/ \E h \in Holders :
               \/ \E ask \in accountScene.chores : Begin(h, ask)
               \/ LookAtDefault(h) \/ LookAtCards(h) \/ Announced(h) \/ Looked(h) \/ Pruned(h)
               \/ CheckOwner(h) \/ SetDefault(h) \/ Detach(h) \/ GivesUp(h)
         \/ \E card \in Cards : SaveCard(card)
<1> DEFINE quiet == \A g \in Holders : LeavesCards(g)
<1>1. ASSUME NEW h \in Holders, chore[h].pc \notin {"look", "own", "set"},
             NEW next, Becomes(h, next), next = Idle \/ (next.ask = chore[h].ask /\ next.pc \notin {"look", "detach"})
      PROVE  quiet
  <2>1. \A g \in Holders \ {h} : LeavesCards(g)
    BY <1>1, OneBecomes DEF OthersCall, LeavesCards
  <2>2. ~Announces(h)
    BY <1>1 DEF CardsAreOnFile
  <2>3. chore'[h] = next
    BY <1>1, OneBecomes
  <2>4. Idle.ask.kind = "touch" /\ Idle.pc = "idle"
    BY DEF Idle, Chore
  <2>5. LeavesCards(h)
    BY <1>1, <2>2, <2>3, <2>4 DEF LeavesCards, Announces
  <2> QED
    BY <2>1, <2>5
<1>2. \A h \in Holders : chore[h] \in ChoreStateType
  BY DEF AccountTypes
<1> HIDE DEF quiet
<1>3. ASSUME NEW h \in Holders, ReadAddress(h) \/ WriteAddress(h) PROVE CardsAreLeft
  <2>1. chore[h].pc \in {"read", "write"}
    BY <1>3 DEF ReadAddress, WriteAddress, Doing
  <2>2. \A line, country :
           /\ [chore[h] EXCEPT !.pc = "write", !.line = line, !.country = country].ask = chore[h].ask
           /\ [chore[h] EXCEPT !.pc = "write", !.line = line, !.country = country].pc = "write"
    BY <1>2 DEF ChoreStateType
  <2>3. quiet
    BY <1>1, <1>3, <2>1, <2>2 DEF ReadAddress, WriteAddress
  <2> QED
    BY <1>3, <2>3 DEF quiet, CardsAreLeft, ReadAddress, WriteAddress
<1>4. ASSUME NEW h \in Holders, ListTaxIds(h) PROVE CardsAreLeft
  <2>1. chore[h].pc = "list"
    BY <1>4 DEF ListTaxIds, Doing
  <2>2. \A doomed : /\ [chore[h] EXCEPT !.pc = "delete", !.doomed = doomed].ask = chore[h].ask
                    /\ [chore[h] EXCEPT !.pc = "delete", !.doomed = doomed].pc = "delete"
    BY <1>2 DEF ChoreStateType
  <2>3. \A ids : /\ [chore[h] EXCEPT !.pc = "create", !.ids = ids].ask = chore[h].ask
                 /\ [chore[h] EXCEPT !.pc = "create", !.ids = ids].pc = "create"
    BY <1>2 DEF ChoreStateType
  <2>4. PICK next : Becomes(h, next) /\ next.ask = chore[h].ask /\ next.pc \in {"delete", "create"}
    <3> DEFINE same == {i \in DOMAIN taxIds : taxIds[i].number = chore[h].ask.number}
               ids(places) == {taxIds[i].id : i \in places}
               deletes(doomed) == [chore[h] EXCEPT !.pc = "delete", !.doomed = doomed]
               creates == [chore[h] EXCEPT !.pc = "create", !.ids = taxIds]
    <3>1. \/ Becomes(h, deletes(ids(DOMAIN taxIds))) \/ Becomes(h, deletes(ids(DOMAIN taxIds \ same)))
          \/ Becomes(h, creates)
      BY <1>4 DEF ListTaxIds
    <3>2. /\ \A doomed : deletes(doomed).ask = chore[h].ask /\ deletes(doomed).pc = "delete"
          /\ creates.ask = chore[h].ask /\ creates.pc = "create"
      BY <2>2, <2>3
    <3> HIDE DEF deletes, creates, ids
    <3> QED
      BY <3>1, <3>2
  <2>5. quiet
    BY <1>1, <2>1, <2>4
  <2> QED
    BY <1>4, <2>5 DEF quiet, CardsAreLeft, ListTaxIds
<1>5. ASSUME NEW h \in Holders, CreateTaxId(h) PROVE CardsAreLeft
  <2>1. chore[h].pc = "create"
    BY <1>5 DEF CreateTaxId, Doing
  <2>2. \A doomed : /\ [chore[h] EXCEPT !.pc = "delete", !.doomed = doomed].ask = chore[h].ask
                    /\ [chore[h] EXCEPT !.pc = "delete", !.doomed = doomed].pc = "delete"
    BY <1>2 DEF ChoreStateType
  <2>3. PICK next : Becomes(h, next) /\ (next = Idle \/ (next.ask = chore[h].ask /\ next.pc = "delete"))
    BY <1>5, <2>2 DEF CreateTaxId
  <2>4. quiet
    BY <1>1, <2>1, <2>3
  <2> QED
    BY <1>5, <2>4 DEF quiet, CardsAreLeft, CreateTaxId
<1>6. ASSUME NEW h \in Holders, DeleteTaxId(h) PROVE CardsAreLeft
  <2>1. chore[h].pc = "delete"
    BY <1>6 DEF DeleteTaxId, Doing
  <2>2. \A id : /\ [chore[h] EXCEPT !.doomed = @ \ {id}].ask = chore[h].ask
                /\ [chore[h] EXCEPT !.doomed = @ \ {id}].pc = "delete"
    BY <1>2, <2>1 DEF ChoreStateType
  <2>3. PICK next : Becomes(h, next) /\ (next = Idle \/ (next.ask = chore[h].ask /\ next.pc = "delete"))
    BY <1>6, <2>2 DEF DeleteTaxId
  <2>4. quiet
    BY <1>1, <2>1, <2>3
  <2> QED
    BY <1>6, <2>4 DEF quiet, CardsAreLeft, DeleteTaxId
<1>7. ASSUME NEW h \in Holders, Touch(h) PROVE CardsAreLeft
  <2>1. chore[h].pc = "touch" /\ Becomes(h, Idle)
    BY <1>7 DEF Touch, Doing
  <2>2. quiet
    BY <1>1, <2>1
  <2>3. \A card \in Cards : rank[card] > 0 => rank'[card] > 0
    BY <1>7 DEF Touch, AccountTypes
  <2> QED
    BY <1>7, <2>2, <2>3 DEF quiet, CardsAreLeft, Touch
<1> QED
  BY <1>3, <1>4, <1>5, <1>6, <1>7 DEF AccountStep

LEMMA SceneOfCards ==
  ASSUME accountScene' = accountScene
  PROVE  OneByOne' = OneByOne
BY DEF OneByOne

LEMMA LeftCardsStay ==
  ASSUME AccountTypes, CardsAreOnFile, DefaultAwaited, CardsAreLeft
  PROVE  CardsAreOnFile' /\ DefaultAwaited'
<1>1. /\ accountScene' = accountScene /\ cards' = cards /\ default' = default /\ saved' = saved
      /\ OneByOne' = OneByOne
  BY SceneOfCards DEF CardsAreLeft
<1>2. \A g \in Holders : Announces(g)' = Announces(g) /\ (Announces(g) => chore'[g] = chore[g])
  BY DEF CardsAreLeft, LeavesCards, Announces
<1>3. \A g \in Holders : chore'[g].pc \in {"look", "detach"} => chore'[g] = chore[g]
  BY DEF CardsAreLeft, LeavesCards
<1>4. CardsAreOnFile'
  <2>1. ToSet(cards) \subseteq Cards
    BY MembersOf DEF AccountTypes
  <2>2. \A card \in ToSet(cards) : rank'[card] > 0
    BY <2>1 DEF CardsAreLeft, CardsAreOnFile
  <2> QED
    BY <1>1, <1>2, <2>2 DEF CardsAreOnFile, Announces
<1>5. DefaultAwaited'
  <2> SUFFICES ASSUME OneByOne PROVE DefaultAwaited'
    BY <1>1 DEF DefaultAwaited
  <2>1. \A card : Awaits(card) => Awaits(card)'
    BY <1>1, <1>2 DEF Awaits
  <2>2. default = NoCard => \A card \in ToSet(cards) : Awaits(card)'
    BY <2>1 DEF DefaultAwaited
  <2>3. ASSUME NEW g \in Holders, chore'[g].pc \in {"look", "detach"}
        PROVE  Sees(g)' /\ (chore'[g].pc = "detach" =>
                 chore'[g].ask.kind = "detach" /\ chore'[g].got = {"default", "cards"} /\ MayDetach(g)')
    BY <1>1, <1>3, <2>3 DEF DefaultAwaited, Sees, MayDetach, Attached
  <2> QED
    BY <1>1, <2>2, <2>3 DEF DefaultAwaited
<1> QED
  BY <1>4, <1>5

\* In a serial scene the call that is made is the only one.
OneAwaits(h, card) == card \in saved \/ (Announces(h) /\ chore[h].ask.card = card)
Wallet == AccountTypes /\ OneAtATime /\ CardsAreOnFile /\ DefaultAwaited

LEMMA AwaitedByOne ==
  ASSUME Wallet, OneByOne, NEW h \in Holders, Calling(h)
  PROVE  /\ \A g \in Holders \ {h} : chore[g].pc = "idle"
         /\ default = NoCard => \A card \in ToSet(cards) : OneAwaits(h, card)
         /\ chore[h].pc \in {"look", "detach"} => Sees(h)
         /\ chore[h].pc = "detach" =>
               chore[h].ask.kind = "detach" /\ chore[h].got = {"default", "cards"} /\ MayDetach(h)
<1>1. \A g \in Holders \ {h} : chore[g].pc = "idle"
  BY DEF Wallet, OneByOne, OneAtATime, Calling
<1>2. \A g \in Holders \ {h} : ~Announces(g)
  BY <1>1 DEF Wallet, CardsAreOnFile
<1>3. \A card : Awaits(card) => OneAwaits(h, card)
  BY <1>2 DEF Awaits, OneAwaits
<1> QED
  BY <1>1, <1>3 DEF Wallet, DefaultAwaited

\* What it becomes is enough.
LEMMA OneDecidesAll ==
  ASSUME Wallet, accountScene' = accountScene, NEW h \in Holders, Calling(h), OthersCall(h),
         OneByOne =>
            /\ default' = NoCard => \A card \in ToSet(cards') : OneAwaits(h, card)'
            /\ chore'[h].pc \in {"look", "detach"} => Sees(h)'
            /\ chore'[h].pc = "detach" =>
                  chore'[h].ask.kind = "detach" /\ chore'[h].got = {"default", "cards"} /\ MayDetach(h)'
  PROVE  DefaultAwaited'
<1>1. OneByOne' = OneByOne
  BY SceneOfCards
<1> SUFFICES ASSUME OneByOne PROVE DefaultAwaited'
  BY <1>1 DEF DefaultAwaited
<1>2. \A g \in Holders \ {h} : chore'[g].pc = "idle"
  BY AwaitedByOne DEF OthersCall
<1>3. default' = NoCard => \A card \in ToSet(cards') : Awaits(card)'
  BY DEF OneAwaits, Awaits
<1>4. \A g \in Holders : chore'[g].pc \in {"look", "detach"} => g = h
  BY <1>2
<1> QED
  BY <1>1, <1>3, <1>4 DEF DefaultAwaited

LEMMA WalletBegins ==
  ASSUME Wallet, NEW h \in Holders, NEW ask \in accountScene.chores, Begin(h, ask)
  PROVE  CardsAreOnFile' /\ DefaultAwaited'
<1>1. /\ accountScene' = accountScene /\ cards' = cards /\ default' = default /\ rank' = rank
      /\ chore[h].pc = "idle" /\ OneByOne' = OneByOne
      /\ saved' = (IF ask.kind \in {"attached", "chosen"} THEN saved \ {ask.card} ELSE saved)
      /\ (ask.kind \in {"attached", "chosen"} => ask.card \in saved)
  BY SceneOfCards DEF Begin, Doing
<1>2. OthersCall(h) /\ chore'[h].pc = First(ask) /\ chore'[h].got = {} /\ chore'[h].ask = ask
  <2> DEFINE next == [Idle EXCEPT !.pc = First(ask), !.ask = ask]
  <2>1. next.pc = First(ask) /\ next.got = {} /\ next.ask = ask
    BY DEF Idle
  <2> HIDE DEF next
  <2>2. Becomes(h, next)
    BY DEF Begin, next
  <2> QED
    BY <2>1, <2>2, OneBecomes DEF Wallet
<1>3. /\ ask.kind \in {"attached", "chosen"} => First(ask) = "look"
      /\ First(ask) # "detach" /\ (First(ask) = "look" => ask.kind # "detach")
  <2>1. ask.kind \in {"address", "taxId", "attached", "chosen", "default", "detach", "prune", "touch"}
    BY DEF Wallet, AccountTypes, AccountSceneType, ChoreType
  <2> QED
    BY <2>1 DEF First
<1>4. ~Announces(h) /\ (Announces(h)' <=> ask.kind \in {"attached", "chosen"})
  BY <1>1, <1>2 DEF Wallet, CardsAreOnFile, Announces
<1>5. CardsAreOnFile'
  <2>1. ASSUME NEW g \in Holders, Announces(g)'
        PROVE  chore'[g].ask.card \in accountScene.saves /\ chore'[g].pc \in {"look", "own", "set"}
    <3>1. CASE g = h
      BY <1>1, <1>2, <1>3, <1>4, <2>1, <3>1 DEF Wallet, CardsAreOnFile
    <3>2. CASE g # h
      BY <1>2, <2>1, <3>2 DEF Wallet, CardsAreOnFile, Announces, OthersCall
    <3> QED
      BY <3>1, <3>2
  <2> QED
    BY <1>1, <2>1 DEF Wallet, CardsAreOnFile
<1>6. DefaultAwaited'
  <2> SUFFICES ASSUME OneByOne PROVE DefaultAwaited'
    BY <1>1 DEF DefaultAwaited
  <2>1. \A g \in Holders \ {h} : chore'[g].pc = "idle"
    BY <1>2 DEF Begin, OneByOne, NoChore, Doing, OthersCall
  <2>2. \A card : Awaits(card) => Awaits(card)'
    <3>1. ASSUME NEW card, card \in saved PROVE Awaits(card)'
      BY <1>1, <1>2, <1>4, <3>1 DEF Awaits
    <3>2. ASSUME NEW card, NEW g \in Holders, Announces(g), chore[g].ask.card = card PROVE Awaits(card)'
      <4>1. g # h
        BY <1>4, <3>2
      <4>2. chore'[g] = chore[g]
        BY <1>2, <4>1 DEF OthersCall
      <4> QED
        BY <3>2, <4>2 DEF Awaits, Announces
    <3> QED
      BY <3>1, <3>2 DEF Awaits
  <2>3. default = NoCard => \A card \in ToSet(cards) : Awaits(card)'
    BY <2>2 DEF Wallet, DefaultAwaited
  <2>4. chore'[h].pc # "detach" /\ (chore'[h].pc = "look" => Sees(h)')
    BY <1>2, <1>3 DEF Sees
  <2>5. \A g \in Holders : chore'[g].pc \in {"look", "detach"} => g = h /\ Sees(g)' /\ chore'[g].pc # "detach"
    BY <2>1, <2>4
  <2> QED
    BY <1>1, <2>3, <2>5 DEF DefaultAwaited
<1> QED
  BY <1>5, <1>6

\* A call that begins nothing announces no other card.
LEMMA OneOnFile ==
  ASSUME Wallet, accountScene' = accountScene, NEW h \in Holders, OthersCall(h),
         UNCHANGED <<saved, rank>>, Distinct(cards'), ToSet(cards') \subseteq ToSet(cards),
         default' \in ToSet(cards') \cup {NoCard},
         Announces(h)' => /\ Announces(h) /\ chore'[h].ask.card = chore[h].ask.card
                          /\ chore'[h].pc \in {"look", "own", "set"}
  PROVE  CardsAreOnFile'
<1>1. ASSUME NEW g \in Holders, Announces(g)'
      PROVE  chore'[g].ask.card \in accountScene.saves /\ chore'[g].pc \in {"look", "own", "set"}
  <2>1. CASE g = h
    BY <1>1, <2>1 DEF Wallet, CardsAreOnFile
  <2>2. CASE g # h
    BY <1>1, <2>2 DEF Wallet, CardsAreOnFile, Announces, OthersCall
  <2> QED
    BY <2>1, <2>2
<1> QED
  BY <1>1 DEF Wallet, CardsAreOnFile

LEMMA WalletLooked ==
  ASSUME Wallet, NEW h \in Holders, LookAtDefault(h) \/ LookAtCards(h)
  PROVE  CardsAreOnFile' /\ DefaultAwaited'
<1>1. /\ accountScene' = accountScene /\ cards' = cards /\ default' = default /\ saved' = saved /\ rank' = rank
      /\ chore[h].pc = "look" /\ chore[h] \in ChoreStateType
  BY DEF LookAtDefault, LookAtCards, Doing, Wallet, AccountTypes
<1>2. /\ OthersCall(h) /\ chore'[h].pc = "look" /\ chore'[h].ask = chore[h].ask
      /\ \/ /\ chore'[h].got = chore[h].got \cup {"default"} /\ chore'[h].default = default
            /\ chore'[h].cards = chore[h].cards
         \/ /\ chore'[h].got = chore[h].got \cup {"cards"} /\ chore'[h].cards = cards
            /\ chore'[h].default = chore[h].default
  <2>1. CASE LookAtDefault(h)
    <3> DEFINE next == [chore[h] EXCEPT !.got = @ \cup {"default"}, !.default = default]
    <3>1. /\ next.pc = "look" /\ next.ask = chore[h].ask /\ next.got = chore[h].got \cup {"default"}
          /\ next.default = default /\ next.cards = chore[h].cards
      BY <1>1 DEF ChoreStateType
    <3> HIDE DEF next
    <3>2. Becomes(h, next)
      BY <2>1 DEF LookAtDefault, next
    <3> QED
      BY <3>1, <3>2, OneBecomes DEF Wallet
  <2>2. CASE LookAtCards(h)
    <3> DEFINE next == [chore[h] EXCEPT !.got = @ \cup {"cards"}, !.cards = cards]
    <3>1. /\ next.pc = "look" /\ next.ask = chore[h].ask /\ next.got = chore[h].got \cup {"cards"}
          /\ next.default = chore[h].default /\ next.cards = cards
      BY <1>1 DEF ChoreStateType
    <3> HIDE DEF next
    <3>2. Becomes(h, next)
      BY <2>2 DEF LookAtCards, next
    <3> QED
      BY <3>1, <3>2, OneBecomes DEF Wallet
  <2> QED
    BY <2>1, <2>2
<1>3. Announces(h)' = Announces(h)
  BY <1>2 DEF Announces
<1>4. CardsAreOnFile'
  <2>1. Distinct(cards') /\ default' \in ToSet(cards') \cup {NoCard} /\ ToSet(cards') \subseteq ToSet(cards)
    BY <1>1 DEF Wallet, CardsAreOnFile
  <2> QED
    BY <1>1, <1>2, <1>3, <2>1, OneOnFile
<1>5. DefaultAwaited'
  <2>1. ASSUME OneByOne
        PROVE  /\ default = NoCard => \A card \in ToSet(cards) : OneAwaits(h, card)'
               /\ Sees(h)'
    <3>1. Calling(h)
      BY <1>1 DEF Calling
    <3>2. Sees(h) /\ (default = NoCard => \A card \in ToSet(cards) : OneAwaits(h, card))
      BY <1>1, <2>1, <3>1, AwaitedByOne
    <3>3. \A card : OneAwaits(h, card) => OneAwaits(h, card)'
      BY <1>1, <1>2, <1>3 DEF OneAwaits
    <3>4. Sees(h)'
      BY <1>1, <1>2, <3>2 DEF Sees, Attached
    <3> QED
      BY <3>2, <3>3, <3>4
  <2>2. Calling(h)
    BY <1>1 DEF Calling
  <2> QED
    BY <1>1, <1>2, <2>1, <2>2, OneDecidesAll
<1> QED
  BY <1>4, <1>5

\* A card that is not the first is announced to an account with a default.
LEMMA WalletAnnounced ==
  ASSUME Wallet, NEW h \in Holders, Announced(h)
  PROVE  CardsAreOnFile' /\ DefaultAwaited'
<1>1. /\ accountScene' = accountScene /\ cards' = cards /\ default' = default /\ saved' = saved /\ rank' = rank
      /\ chore[h].pc = "look" /\ chore[h] \in ChoreStateType /\ chore[h].got = {"default", "cards"} /\ Announces(h)
  BY DEF Announced, Doing, Wallet, AccountTypes, Announces
<1>2. /\ OthersCall(h)
      /\ \/ chore'[h].pc = "own" /\ chore'[h].ask = chore[h].ask
         \/ /\ chore'[h] = Idle
            /\ ~(ToSet(chore[h].cards) \subseteq {chore[h].ask.card})
  <2>1. [chore[h] EXCEPT !.pc = "own"].pc = "own" /\ [chore[h] EXCEPT !.pc = "own"].ask = chore[h].ask
    BY <1>1 DEF ChoreStateType
  <2> DEFINE next == [chore[h] EXCEPT !.pc = "own"]
  <2>2. \/ Becomes(h, next)
        \/ Becomes(h, Idle) /\ ~(ToSet(chore[h].cards) \subseteq {chore[h].ask.card})
    BY DEF Announced
  <2> HIDE DEF next
  <2>3. next.pc = "own" /\ next.ask = chore[h].ask
    BY <2>1 DEF next
  <2> QED
    BY <2>2, <2>3, OneBecomes DEF Wallet
<1>3. Idle.pc = "idle" /\ Idle.ask.kind = "touch"
  BY DEF Idle, Chore
<1>4. Announces(h)' => chore'[h].pc = "own" /\ chore'[h].ask = chore[h].ask
  BY <1>2, <1>3 DEF Announces
<1>5. CardsAreOnFile'
  <2>1. Distinct(cards') /\ default' \in ToSet(cards') \cup {NoCard} /\ ToSet(cards') \subseteq ToSet(cards)
    BY <1>1 DEF Wallet, CardsAreOnFile
  <2> QED
    BY <1>1, <1>2, <1>4, <2>1, OneOnFile
<1>6. DefaultAwaited'
  <2>1. ASSUME OneByOne, default = NoCard PROVE \A card \in ToSet(cards) : OneAwaits(h, card)'
    <3>1. \A card \in ToSet(cards) : OneAwaits(h, card)
      BY <1>1, <2>1, AwaitedByOne DEF Calling
    <3>2. CASE chore'[h].pc = "own" /\ chore'[h].ask = chore[h].ask
      BY <1>1, <3>1, <3>2 DEF OneAwaits, Announces
    <3>3. ASSUME ~(ToSet(chore[h].cards) \subseteq {chore[h].ask.card}) PROVE FALSE
      <4>1. PICK card \in ToSet(chore[h].cards) : card # chore[h].ask.card
        BY <3>3
      <4>2. ToSet(chore[h].cards) \subseteq ToSet(cards)
        BY <1>1, <2>1, AwaitedByOne DEF Calling, Sees
      <4>3. card \in saved
        BY <3>1, <4>1, <4>2 DEF OneAwaits
      <4>4. card \in accountScene.saves /\ chore[h].ask.card \in accountScene.saves
        BY <1>1, <4>3 DEF Wallet, CardsAreOnFile
      <4> QED
        BY <2>1, <4>1, <4>4 DEF OneByOne
    <3> QED
      BY <1>2, <3>2, <3>3
  <2>2. Calling(h) /\ chore'[h].pc \notin {"look", "detach"}
    BY <1>1, <1>2, <1>3, SMTT(60) DEF Calling
  <2> QED
    BY <1>1, <1>2, <2>1, <2>2, OneDecidesAll
<1> QED
  BY <1>5, <1>6

LEMMA WalletDecided ==
  ASSUME Wallet, NEW h \in Holders, Looked(h) \/ Pruned(h)
  PROVE  CardsAreOnFile' /\ DefaultAwaited'
<1>1. /\ accountScene' = accountScene /\ cards' = cards /\ default' = default /\ saved' = saved /\ rank' = rank
      /\ chore[h].pc = "look" /\ chore[h] \in ChoreStateType /\ chore[h].got = {"default", "cards"} /\ ~Announces(h)
  BY DEF Looked, Pruned, Doing, Wallet, AccountTypes, Announces
<1>2. Idle.pc = "idle" /\ Idle.ask.kind = "touch"
  BY DEF Idle, Chore
<1> DEFINE detaches == [chore[h] EXCEPT !.pc = "detach"]
<1>3. /\ detaches.pc = "detach" /\ detaches.ask = chore[h].ask /\ detaches.got = chore[h].got
      /\ detaches.default = chore[h].default /\ detaches.cards = chore[h].cards
  BY <1>1 DEF ChoreStateType
<1> HIDE DEF detaches
<1>4. /\ OthersCall(h) /\ ~Announces(h)'
      /\ \/ chore'[h].pc \notin {"look", "detach"}
         \/ (chore[h].ask.kind = "detach" /\ MayDetach(h) /\ chore'[h] = detaches)
  <2>1. CASE Looked(h)
    <3>1. Becomes(h, Idle) \/ (chore[h].ask.kind = "detach" /\ MayDetach(h) /\ Becomes(h, detaches))
      <4>1. CASE MayDetach(h)
        BY <2>1, <4>1 DEF Looked, detaches
      <4>2. CASE ~MayDetach(h)
        BY <2>1, <4>2 DEF Looked
      <4> QED
        BY <4>1, <4>2
    <3> QED
      BY <1>1, <1>2, <1>3, <3>1, OneBecomes DEF Wallet, Announces
  <2>2. CASE Pruned(h)
    <3> DEFINE goes(todo, card) == [Idle EXCEPT !.pc = "own", !.todo = todo, !.ask = [Chore("detach") EXCEPT !.card = card]]
    <3>1. \A todo, card : goes(todo, card).pc = "own" /\ goes(todo, card).ask.kind = "detach"
      BY SMTT(60) DEF Idle, Chore
    <3>2. Becomes(h, Idle) \/ \E todo, card : Becomes(h, goes(todo, card))
      BY <2>2, ZenonT(60) DEF Pruned
    <3> HIDE DEF goes
    <3> QED
      BY <1>2, <3>1, <3>2, OneBecomes DEF Wallet, Announces
  <2> QED
    BY <2>1, <2>2
<1>5. CardsAreOnFile'
  <2>1. Distinct(cards') /\ default' \in ToSet(cards') \cup {NoCard} /\ ToSet(cards') \subseteq ToSet(cards)
    BY <1>1 DEF Wallet, CardsAreOnFile
  <2> QED
    BY <1>1, <1>4, <2>1, OneOnFile
<1>6. DefaultAwaited'
  <2>1. Calling(h)
    BY <1>1 DEF Calling
  <2>2. ASSUME OneByOne
        PROVE  /\ default = NoCard => \A card \in ToSet(cards) : OneAwaits(h, card)'
               /\ chore'[h].pc \in {"look", "detach"} => Sees(h)'
               /\ chore'[h].pc = "detach" =>
                     chore'[h].ask.kind = "detach" /\ chore'[h].got = {"default", "cards"} /\ MayDetach(h)'
    <3>1. Sees(h) /\ (default = NoCard => \A card \in ToSet(cards) : OneAwaits(h, card))
      BY <1>1, <2>1, <2>2, AwaitedByOne
    <3>2. default = NoCard => \A card \in ToSet(cards) : OneAwaits(h, card)'
      BY <1>1, <3>1 DEF OneAwaits
    <3>3. ASSUME chore[h].ask.kind = "detach", MayDetach(h), chore'[h] = detaches
          PROVE  Sees(h)' /\ chore'[h].ask.kind = "detach" /\ chore'[h].got = {"default", "cards"} /\ MayDetach(h)'
      BY <1>1, <1>3, <3>1, <3>3 DEF Sees, MayDetach, Attached
    <3> QED
      BY <1>4, <3>2, <3>3
  <2> QED
    BY <1>1, <1>4, <2>1, <2>2, OneDecidesAll
<1> QED
  BY <1>5, <1>6

LEMMA WalletOwned ==
  ASSUME Wallet, NEW h \in Holders, CheckOwner(h)
  PROVE  CardsAreOnFile' /\ DefaultAwaited'
<1>1. /\ accountScene' = accountScene /\ cards' = cards /\ default' = default /\ saved' = saved /\ rank' = rank
      /\ chore[h].pc = "own" /\ chore[h] \in ChoreStateType
  BY DEF CheckOwner, Doing, Wallet, AccountTypes
<1>2. Idle.pc = "idle" /\ Idle.ask.kind = "touch"
  BY DEF Idle, Chore
<1> DEFINE looks == [chore[h] EXCEPT !.pc = "look", !.got = {}]
           sets == [chore[h] EXCEPT !.pc = "set"]
<1>3. /\ looks.pc = "look" /\ looks.ask = chore[h].ask /\ looks.got = {}
      /\ sets.pc = "set" /\ sets.ask = chore[h].ask
  BY <1>1 DEF ChoreStateType
<1>4. \/ ~Attached(chore[h].ask.card) /\ Becomes(h, Idle)
      \/ Attached(chore[h].ask.card) /\ chore[h].ask.kind = "detach" /\ Becomes(h, looks)
      \/ chore[h].ask.kind # "detach" /\ Becomes(h, sets)
  BY DEF CheckOwner
<1> HIDE DEF looks, sets
<1>5. /\ OthersCall(h)
      /\ \/ chore'[h] = Idle /\ ~Attached(chore[h].ask.card)
         \/ /\ chore'[h].pc = "look" /\ chore'[h].ask = chore[h].ask /\ chore'[h].got = {}
            /\ Attached(chore[h].ask.card) /\ chore[h].ask.kind = "detach"
         \/ chore'[h].pc = "set" /\ chore'[h].ask = chore[h].ask
  BY <1>3, <1>4, OneBecomes DEF Wallet
<1>6. Announces(h)' => Announces(h) /\ chore'[h].ask = chore[h].ask /\ chore'[h].pc = "set"
  BY <1>2, <1>5 DEF Announces
<1>7. CardsAreOnFile'
  <2>1. Distinct(cards') /\ default' \in ToSet(cards') \cup {NoCard} /\ ToSet(cards') \subseteq ToSet(cards)
    BY <1>1 DEF Wallet, CardsAreOnFile
  <2> QED
    BY <1>1, <1>5, <1>6, <2>1, OneOnFile
<1>8. DefaultAwaited'
  <2>1. ASSUME OneByOne, default = NoCard PROVE \A card \in ToSet(cards) : OneAwaits(h, card)'
    <3>1. \A card \in ToSet(cards) : OneAwaits(h, card)
      BY <1>1, <2>1, AwaitedByOne DEF Calling
    <3> QED
      BY <1>1, <1>5, <3>1 DEF OneAwaits, Announces, Attached
  <2>2. chore'[h].pc = "look" => Sees(h)'
    BY <1>1, <1>2, <1>5 DEF Sees, Attached
  <2>3. Calling(h) /\ chore'[h].pc # "detach"
    BY <1>1, <1>2, <1>5 DEF Calling
  <2> QED
    BY <1>1, <1>5, <2>1, <2>2, <2>3, OneDecidesAll
<1> QED
  BY <1>7, <1>8

LEMMA WalletSet ==
  ASSUME Wallet, NEW h \in Holders, SetDefault(h)
  PROVE  CardsAreOnFile' /\ DefaultAwaited'
<1>1. /\ accountScene' = accountScene /\ cards' = cards /\ saved' = saved /\ rank' = rank
      /\ default' = (IF Attached(chore[h].ask.card) THEN chore[h].ask.card ELSE default)
      /\ chore[h].pc = "set" /\ cards \in Seq(Cards)
  BY DEF SetDefault, Doing, Wallet, AccountTypes
<1>2. OthersCall(h) /\ chore'[h] = Idle /\ Idle.pc = "idle" /\ Idle.ask.kind = "touch"
  BY OneBecomes DEF SetDefault, Wallet, Idle, Chore
<1>3. CardsAreOnFile'
  <2>1. Distinct(cards') /\ default' \in ToSet(cards') \cup {NoCard} /\ ToSet(cards') \subseteq ToSet(cards)
    BY <1>1 DEF Wallet, CardsAreOnFile, Attached
  <2>2. ~Announces(h)'
    BY <1>2 DEF Announces
  <2> QED
    BY <1>1, <1>2, <2>1, <2>2, OneOnFile
<1>4. DefaultAwaited'
  <2>1. ASSUME OneByOne, default' = NoCard PROVE \A card \in ToSet(cards) : OneAwaits(h, card)'
    <3>1. ~Attached(chore[h].ask.card) /\ default = NoCard
      BY <1>1, <2>1, MembersOf, AccountAssumption DEF Attached
    <3>2. \A card \in ToSet(cards) : OneAwaits(h, card)
      BY <1>1, <2>1, <3>1, AwaitedByOne DEF Calling
    <3> QED
      BY <1>1, <3>1, <3>2 DEF OneAwaits, Attached
  <2>2. Calling(h) /\ chore'[h].pc \notin {"look", "detach"}
    BY <1>1, <1>2 DEF Calling
  <2> QED
    BY <1>1, <1>2, <2>1, <2>2, OneDecidesAll
<1> QED
  BY <1>3, <1>4

LEMMA WalletGivesUp ==
  ASSUME Wallet, NEW h \in Holders, GivesUp(h)
  PROVE  CardsAreOnFile' /\ DefaultAwaited'
<1>1. /\ accountScene' = accountScene /\ cards' = cards /\ saved' = saved /\ rank' = rank /\ default' = default
      /\ accountScene.faults # {}
  BY DEF GivesUp, StripeFails
<1>2. OthersCall(h) /\ chore'[h] = Idle /\ Idle.pc = "idle" /\ Idle.ask.kind = "touch"
  BY OneBecomes DEF GivesUp, Wallet, Idle, Chore
<1>3. Distinct(cards') /\ default' \in ToSet(cards') \cup {NoCard} /\ ToSet(cards') \subseteq ToSet(cards)
  BY <1>1 DEF Wallet, CardsAreOnFile
<1>4. ~Announces(h)'
  BY <1>2 DEF Announces
<1>5. CardsAreOnFile'
  BY <1>1, <1>2, <1>3, <1>4, OneOnFile
<1>6. DefaultAwaited'
  BY <1>1 DEF DefaultAwaited, OneByOne
<1> QED
  BY <1>5, <1>6

\* The default goes only as the last card that has been announced.
LEMMA WalletDetached ==
  ASSUME Wallet, NEW h \in Holders, Detach(h)
  PROVE  CardsAreOnFile' /\ DefaultAwaited'
<1> DEFINE card == chore[h].ask.card
           goes == [chore[h] EXCEPT !.pc = "own", !.todo = Tail(@), !.ask.card = Head(chore[h].todo)]
<1>1. /\ accountScene' = accountScene /\ saved' = saved /\ rank' = rank
      /\ default' = (IF default = card THEN NoCard ELSE default)
      /\ chore[h].pc = "detach" /\ chore[h] \in ChoreStateType /\ cards \in Seq(Cards)
  BY DEF Detach, Doing, Wallet, AccountTypes
<1>2. goes.pc = "own" /\ goes.ask.kind = chore[h].ask.kind
  <2>1. chore[h].ask \in ChoreType
    BY <1>1 DEF ChoreStateType
  <2> QED
    BY <1>1, <2>1 DEF ChoreStateType, ChoreType
<1>3. Becomes(h, Idle) \/ Becomes(h, goes)
  BY DEF Detach
<1> HIDE DEF goes
<1>4. Idle.pc = "idle" /\ Idle.ask.kind = "touch"
  BY DEF Idle, Chore
<1>5. ~Announces(h)
  BY <1>1 DEF Wallet, CardsAreOnFile
<1>6. OthersCall(h) /\ chore'[h].pc \in {"idle", "own"} /\ ~Announces(h)'
  BY <1>2, <1>3, <1>4, <1>5, OneBecomes DEF Wallet, Announces
\* What is left of the cards, and that the card is gone from them.
<1>7. Distinct(cards') /\ ToSet(cards') = ToSet(cards) \ {card}
  <2>1. Distinct(cards)
    BY DEF Wallet, CardsAreOnFile
  <2>2. CASE cards' = cards /\ ~Attached(card)
    BY <2>1, <2>2 DEF Attached
  <2>3. ASSUME NEW i \in DOMAIN cards, cards[i] = card, cards' = RemoveAt(cards, i)
        PROVE  Distinct(cards') /\ ToSet(cards') = ToSet(cards) \ {card}
    <3> DEFINE rest == RemoveAt(cards, i)
    <3>1. /\ \A k \in DOMAIN cards \ {i} : \E j \in DOMAIN rest : rest[j] = cards[k]
          /\ \A a, b \in DOMAIN rest : \E k, l \in DOMAIN cards \ {i} :
                rest[a] = cards[k] /\ rest[b] = cards[l] /\ (k = l => a = b)
      BY <1>1, Removed
    <3> HIDE DEF rest
    <3>2. Distinct(rest)
      BY <2>1, <3>1 DEF Distinct
    <3>3. \A other : other \in ToSet(rest) <=> other \in ToSet(cards) /\ other # card
      BY <2>1, <2>3, <3>1 DEF Distinct, ToSet
    <3> QED
      BY <2>3, <3>2, <3>3 DEF rest
  <2> QED
    BY <2>2, <2>3 DEF Detach
<1>8. default' \in ToSet(cards') \cup {NoCard}
  BY <1>1, <1>7 DEF Wallet, CardsAreOnFile
<1>9. CardsAreOnFile'
  BY <1>1, <1>6, <1>7, <1>8, OneOnFile
<1>10. DefaultAwaited'
  <2>1. Calling(h)
    BY <1>1 DEF Calling
  <2>2. ASSUME OneByOne, default' = NoCard PROVE \A other \in ToSet(cards') : OneAwaits(h, other)'
    <3>1. /\ Sees(h) /\ MayDetach(h) /\ chore[h].got = {"default", "cards"} /\ chore[h].ask.kind = "detach"
          /\ default = NoCard => \A other \in ToSet(cards) : OneAwaits(h, other)
      BY <1>1, <2>1, <2>2, AwaitedByOne
    <3>2. CASE default = NoCard
      BY <1>1, <1>5, <1>7, <3>1, <3>2 DEF OneAwaits
    <3>3. CASE default = card
      <4>1. /\ chore[h].default = default /\ card \in ToSet(chore[h].cards)
            /\ ToSet(cards) \subseteq ToSet(chore[h].cards) \cup saved
        BY <3>1 DEF Sees
      <4>2. Len(chore[h].cards) <= 1 /\ chore[h].cards \in Seq(Cards)
        BY <1>1, <3>1, <3>3, <4>1 DEF MayDetach, ChoreStateType
      <4>3. ToSet(chore[h].cards) = {card}
        <5>1. \A i \in DOMAIN chore[h].cards : i = 1
          BY <4>2
        <5> QED
          BY <4>1, <5>1 DEF ToSet
      <4>4. ToSet(cards') \subseteq saved
        BY <1>7, <4>1, <4>3
      <4> QED
        BY <1>1, <4>4 DEF OneAwaits
    <3> QED
      BY <1>1, <2>2, <3>2, <3>3
  <2> QED
    BY <1>1, <1>6, <2>1, <2>2, OneDecidesAll
<1> QED
  BY <1>9, <1>10

LEMMA WalletSaves ==
  ASSUME Wallet, NEW card \in Cards, SaveCard(card)
  PROVE  CardsAreOnFile' /\ DefaultAwaited'
<1>1. /\ accountScene' = accountScene /\ default' = default /\ chore' = chore /\ saved' = saved \cup {card}
      /\ rank' = [rank EXCEPT ![card] = moment + 1] /\ cards' = <<card>> \o cards
      /\ card \in accountScene.saves /\ rank[card] = 0 /\ OneByOne' = OneByOne
  BY SceneOfCards DEF SaveCard
<1>2. cards \in Seq(Cards) /\ rank \in [Cards -> Nat] /\ moment \in Nat /\ ToSet(cards) \subseteq Cards
  BY MembersOf DEF Wallet, AccountTypes
<1>3. card \notin ToSet(cards)
  BY <1>1 DEF Wallet, CardsAreOnFile
<1>4. /\ cards' \in Seq(Cards) /\ 1 \in DOMAIN cards' /\ cards'[1] = card
      /\ \A i \in DOMAIN cards : i + 1 \in DOMAIN cards' /\ cards'[i + 1] = cards[i]
      /\ \A i \in DOMAIN cards' : i = 1 \/ (i - 1 \in DOMAIN cards /\ cards'[i] = cards[i - 1])
  BY <1>1, <1>2, Prepended
<1>5. Distinct(cards')
  <2>1. \A i \in DOMAIN cards : cards[i] # card
    BY <1>3 DEF ToSet
  <2>2. \A i \in DOMAIN cards' : i \in Int
    BY <1>4
  <2>3. \A i, j \in DOMAIN cards : cards[i] = cards[j] => i = j
    BY DEF Wallet, CardsAreOnFile, Distinct
  <2> QED
    BY <1>4, <2>1, <2>2, <2>3 DEF Distinct
<1>6. ToSet(cards') = ToSet(cards) \cup {card}
  <2>1. ToSet(cards') \subseteq ToSet(cards) \cup {card}
    BY <1>4 DEF ToSet
  <2>2. ToSet(cards) \subseteq ToSet(cards')
    BY <1>4 DEF ToSet
  <2>3. card \in ToSet(cards')
    BY <1>4 DEF ToSet
  <2> QED
    BY <2>1, <2>2, <2>3
<1>7. CardsAreOnFile'
  <2>1. \A other \in ToSet(cards') : rank'[other] > 0
    BY <1>1, <1>2, <1>6 DEF Wallet, CardsAreOnFile
  <2>2. \A g \in Holders : Announces(g)' = Announces(g)
    BY <1>1 DEF Announces
  <2> QED
    BY <1>1, <1>5, <1>6, <2>1, <2>2 DEF Wallet, CardsAreOnFile
<1>8. DefaultAwaited'
  <2> SUFFICES ASSUME OneByOne PROVE DefaultAwaited'
    BY <1>1 DEF DefaultAwaited
  <2>1. \A other : (Awaits(other) \/ other = card) => Awaits(other)'
    BY <1>1 DEF Awaits, Announces
  <2>2. default = NoCard => \A other \in ToSet(cards') : Awaits(other)'
    BY <1>6, <2>1 DEF Wallet, DefaultAwaited
  <2>3. \A g \in Holders : Sees(g) => Sees(g)'
    BY <1>1, <1>6 DEF Sees, Attached
  <2>4. \A g \in Holders : MayDetach(g)' = MayDetach(g)
    BY <1>1 DEF MayDetach
  <2> QED
    BY <1>1, <2>2, <2>3, <2>4 DEF Wallet, DefaultAwaited
<1> QED
  BY <1>7, <1>8

LEMMA WalletStep ==
  ASSUME Wallet, AccountStep
  PROVE  CardsAreOnFile' /\ DefaultAwaited'
BY OthersLeaveCards, LeftCardsStay, WalletBegins, WalletLooked, WalletAnnounced, WalletDecided, WalletOwned,
   WalletSet, WalletDetached, WalletGivesUp, WalletSaves DEF Wallet

LEMMA KeepInvInit ==
  ASSUME AccountInit
  PROVE  KeepInv
<1> DEFINE numbers == accountScene.numbers
<1>1. AccountTypes /\ accountScene \in AccountScenes
  BY AccountTypesInit DEF AccountInit
<1>2. numbers \in Seq(Numbers) /\ Len(numbers) \in Nat /\ DOMAIN numbers = 1..Len(numbers)
  BY <1>1 DEF AccountTypes, AccountSceneType
<1>3. \A h \in Holders : chore[h] = Idle
  BY DEF AccountInit
<1>4. Idle.pc = "idle" /\ Idle.ids = <<>> /\ Idle.doomed = {} /\ Idle.ask.kind = "touch"
  BY DEF Idle, Chore
<1> HIDE DEF numbers
<1>5. /\ DOMAIN taxIds = 1..Len(numbers) /\ madeIds = Len(numbers)
      /\ \A i \in 1..Len(numbers) : taxIds[i].id = 1 + Len(numbers) - i /\ taxIds[i].number = numbers[i]
  <2>1. taxIds = [i \in 1..Len(numbers) |-> [id |-> 1 + Len(numbers) - i, number |-> numbers[i]]]
    BY <1>2 DEF AccountInit, numbers
  <2>2. DOMAIN taxIds = 1..Len(numbers)
    BY <2>1
  <2>3. taxIds \in Seq(TaxIdType)
    BY <1>1 DEF AccountTypes
  <2>4. Len(taxIds) = Len(numbers)
    BY <1>2, <2>2, <2>3
  <2> QED
    BY <2>1, <2>2, <2>4 DEF AccountInit
<1>6. OneAtATime
  BY <1>3, <1>4 DEF OneAtATime, Calling
<1>7. IdsAreTold
  <2>1. DOMAIN <<>> = {}
    OBVIOUS
  <2> QED
    BY <1>2, <1>3, <1>4, <1>5, <2>1 DEF IdsAreTold
<1>8. InPairsMade
  <2>1. Made = 0 /\ chores = 0
    BY <1>2, <1>5 DEF Made, numbers, AccountInit
  <2>2. \A h \in Holders : ~MayMake(h)
    BY <1>3, <1>4 DEF MayMake
  <2>3. \A i \in DOMAIN taxIds : taxIds[i].number \in ToSet(numbers)
    BY <1>2, <1>5 DEF ToSet
  <2> QED
    BY <2>1, <2>2, <2>3 DEF InPairsMade, numbers
<1>9. OneSurvives
  <2> SUFFICES ASSUME numbers # <<>>
               PROVE  \E i \in DOMAIN taxIds : \A h \in Holders : taxIds[i].id \notin chore[h].doomed
    BY DEF OneSurvives, KeepsAnId, numbers
  <2>1. 1 \in DOMAIN taxIds
    BY <1>2, <1>5
  <2> QED
    BY <1>3, <1>4, <2>1
<1>10. cards \in Seq(Cards) /\ Distinct(cards) /\ Len(cards) \in Nat
  BY <1>1, AccountAssumption DEF AccountTypes, AccountInit
<1>11. cards # <<>> => Head(cards) \in ToSet(cards) /\ Head(cards) \in Cards
  BY <1>10, HeadTailProperties DEF ToSet
<1>12. CardsAreOnFile
  <2>1. ASSUME NEW card \in ToSet(cards) PROVE rank[card] > 0
    <3> DEFINE i == CHOOSE i \in DOMAIN cards : cards[i] = card
    <3>1. i \in DOMAIN cards
      BY <2>1 DEF ToSet
    <3>2. card \in Cards
      BY <1>10, <2>1, MembersOf
    <3>3. rank[card] = 1 + Len(cards) - i
      BY <2>1, <3>2 DEF AccountInit, Attached
    <3> HIDE DEF i
    <3> QED
      BY <1>10, <3>1, <3>3
  <2>2. default \in ToSet(cards) \cup {NoCard}
    BY <1>11 DEF AccountInit
  <2> QED
    BY <1>3, <1>4, <1>10, <2>1, <2>2 DEF CardsAreOnFile, Announces, AccountInit
<1>13. DefaultAwaited
  <2>1. default = NoCard => ToSet(cards) = {}
    <3>1. default = NoCard => cards = <<>>
      BY <1>11, AccountAssumption DEF AccountInit
    <3>2. ToSet(<<>>) = {}
      BY DEF ToSet
    <3> QED
      BY <3>1, <3>2
  <2> QED
    BY <1>3, <1>4, <2>1 DEF DefaultAwaited
<1> QED
  BY <1>6, <1>7, <1>8, <1>9, <1>12, <1>13 DEF KeepInv

\* Nothing is lost from the account.
LEMMA KeptByInv ==
  ASSUME AccountTypes, KeepInv
  PROVE  AccountIsKept
<1>1. TaxIdIsKept
  <2> SUFFICES ASSUME KeepsAnId PROVE taxIds # <<>>
    BY DEF TaxIdIsKept, KeepsAnId, InPairs
  <2>1. DOMAIN <<>> = {}
    OBVIOUS
  <2> QED
    BY <2>1 DEF KeepInv, OneSurvives
<1>2. DefaultIsKept
  <2> SUFFICES ASSUME OneByOne, NoChore, saved = {}, default = NoCard PROVE cards = <<>>
    BY DEF DefaultIsKept, OneByOne
  <2>1. \A h \in Holders : ~Announces(h)
    BY DEF KeepInv, CardsAreOnFile, NoChore, Doing
  <2>2. ToSet(cards) = {}
    BY <2>1 DEF KeepInv, DefaultAwaited, Awaits
  <2>3. DOMAIN cards = {} /\ cards \in Seq(Cards)
    BY <2>2 DEF ToSet, AccountTypes
  <2> QED
    BY <2>3
<1> QED
  BY <1>1, <1>2 DEF AccountIsKept

-----------------------------------------------------------------------------
(* The purchase: the workspace's customer, and the record of what was bought. *)

CountsType == Counts \cup {<<>>} \cup {Selected(basket) : basket \in [SeatKeys(Model) -> Nat]}
SubStatuses == {"none", "unread", "incomplete", "active", "past_due", "canceled"}
SubType == [status : SubStatuses, v : Nat, counts : CountsType, org : BOOLEAN]
EventType == [of : Nat, v : Nat, status : SubStatuses, counts : CountsType, org : BOOLEAN]
SessionType == [ask : AskType, customer : Nat, status : {"open", "complete", "expired"}]
FinishType == [pc : {"idle", "look", "attach", "read", "stamp", "mirror"}, session : Nat, look : {0},
               read : SubType, warned : BOOLEAN]

MoneyTypes ==
    /\ scene \in SceneType /\ calls \in [{"buys", "finishes", "welcomes"} -> Nat]
    /\ welcome \in [Welcomers -> [pc : {"idle", "create", "credit", "point"}, customer : Nat]]
    /\ customers \in Nat /\ pointer \in Nat /\ credited \in Seq(Nat) /\ keyHolder \in Nat
BuyerType ==
    [pc : {"idle", "wait", "customer", "session"}, at : Processes \cup {"none"}, ask : AskType,
     customer : Nat, got : Nat]
KeptType == [key : {ReuseKeyFor(ask) : ask \in AskType}, session : Nat, fresh : BOOLEAN]
SessionTypes ==
    /\ buyer \in [Buyers -> BuyerType] /\ cache \in [Processes -> SUBSET KeptType]
    /\ session \in Seq(SessionType)
RecordTypes ==
    /\ sub \in [1..MaxSessions -> SubType] /\ events \in Seq(EventType)
    /\ finish \in [Finishers -> FinishType] /\ overtaken \in BOOLEAN
MirrorType == record \in [of : Nat, v : Nat, status : SubStatuses, counts : CountsType]
PurchaseTypes == MoneyTypes /\ SessionTypes /\ RecordTypes /\ MirrorType

\* Calls that run one at a time do, and have found no customer while they may write one.
Finishing(f) == finish[f].pc # "idle"
Welcoming(w) == welcome[w].pc # "idle"
PointersInTurn ==
    scene.serial =>
       /\ \A f, g \in Finishers : Finishing(f) /\ Finishing(g) => f = g
       /\ \A w, v \in Welcomers : Welcoming(w) /\ Welcoming(v) => w = v
       /\ \A f \in Finishers, w \in Welcomers : ~(Finishing(f) /\ Welcoming(w))
       /\ \A f \in Finishers : At(f, "attach") => pointer = 0
       /\ \A w \in Welcomers : Welcoming(w) => pointer = 0

\* Calls that overlap have a customer each, and the key lets one of them through.
OneLetThrough ==
    /\ \A w \in Welcomers : welcome[w].pc \in {"credit", "point"} => welcome[w].customer \in 1..customers
    /\ \A w, v \in Welcomers :
          welcome[w].pc \in {"credit", "point"} /\ welcome[v].pc \in {"credit", "point"}
             /\ welcome[w].customer = welcome[v].customer => w = v
    /\ scene.finishes = 0 => \A f \in Finishers : At(f, "idle")
    /\ scene.finishes = 0 /\ scene.free =>
          /\ \A w \in Welcomers : welcome[w].pc = "point" =>
                pointer = 0 /\ keyHolder = welcome[w].customer
                   /\ credited # <<>> /\ Last(credited) = welcome[w].customer
          /\ pointer # 0 => \A w \in Welcomers : Welcoming(w) => keyHolder # 0

\* While the key is remembered, nothing was granted without it.
CreditedOnce ==
    /\ ~scene.free => credited = <<>>
    /\ ~Rejects("dies") => Len(credited) <= 1 /\ (keyHolder = 0 => credited = <<>>)

\* What Stripe tells, and what a completion has read, is of a session that is paid,
\* and no newer than its subscription.
Bought(s) == s \in DOMAIN session /\ session[s].status = "complete"
Reads(f) ==
    LET x == finish[f].read
        y == sub[finish[f].session]
    IN  x.v <= y.v /\ (x.v = y.v => x.status = y.status /\ x.counts = y.counts)
FoundPaid(f) ==
    Finishing(f) =>
       /\ Bought(finish[f].session)
       /\ finish[f].pc \in {"stamp", "mirror"} => Reads(f)
       /\ finish[f].pc = "mirror" /\ ~finish[f].warned => sub[finish[f].session].org
ToldOfPaid ==
    /\ \A i \in DOMAIN events : Bought(events[i].of)
    /\ \A s \in 1..MaxSessions : ~Bought(s) => sub[s] = NoSub
    /\ Len(session) <= MaxSessions
    /\ \A f \in Finishers : FoundPaid(f)
    /\ \A s \in whole : Bought(s) /\ sub[s].org

\* The last event that waits is of what the subscription is; if none waits, the
\* record is, unless a completion has overwritten it.
Recorded(s) == IF sub[s].status = "canceled" THEN record.status = "canceled"
               ELSE record = Mirrored(Snapshot(s, sub[s]))
NewestTold(s) == IF events # <<>> THEN events[Len(events)] = Snapshot(s, sub[s])
                 ELSE told = sub[s].v /\ (~overtaken => Recorded(s))
OnlyBought(s) == Bought(s) /\ \A t \in DOMAIN session : Bought(t) => t = s
NewestWaits == \A s \in 1..MaxSessions : OnlyBought(s) /\ sub[s].org => NewestTold(s)

PurchaseInv == PurchaseTypes /\ PointersInTurn /\ OneLetThrough /\ CreditedOnce /\ ToldOfPaid /\ NewestWaits

(* Its calls run one at a time where they are to. *)

LEMMA PointersStep ==
  ASSUME PurchaseInv, [Next]_vars PROVE PointersInTurn'
<1>a. PointersInTurn
  BY DEF PurchaseInv
<1>b. finish = [f \in Finishers |-> finish[f]] /\ welcome = [w \in Welcomers |-> welcome[w]]
  BY DEF PurchaseInv, PurchaseTypes, MoneyTypes, RecordTypes
<1>c. \A f \in Finishers : finish[f] \in FinishType
  BY DEF PurchaseInv, PurchaseTypes, MoneyTypes, RecordTypes
<1> USE DEF PointersInTurn, Finishing, Welcoming, At, FinishType
<1>1. ASSUME NEW b \in Buyers, NEW p \in Processes, NEW ask \in Asks, Request(b, p, ask) PROVE PointersInTurn'
  BY <1>1, <1>a, <1>b, <1>c DEF Request, saleVars, subVars, mirrorVars, welcomeVars, moneyVars
<1>2. ASSUME NEW b \in Buyers, NewCustomer(b) PROVE PointersInTurn'
  BY <1>2, <1>a, <1>b, <1>c DEF NewCustomer, saleVars, subVars, mirrorVars, welcomeVars, moneyVars
<1>3. ASSUME NEW b \in Buyers, OpenSession(b) PROVE PointersInTurn'
  BY <1>3, <1>a, <1>b, <1>c DEF OpenSession, saleVars, subVars, mirrorVars, welcomeVars, moneyVars
<1>4. ASSUME NEW b \in Buyers, OpenFails(b) PROVE PointersInTurn'
  BY <1>4, <1>a, <1>b, <1>c DEF OpenFails, saleVars, subVars, mirrorVars, welcomeVars, moneyVars
<1>5. ASSUME NEW b \in Buyers, Leaves(b) PROVE PointersInTurn'
  BY <1>5, <1>a, <1>b, <1>c DEF Leaves, saleVars, subVars, mirrorVars, welcomeVars, moneyVars
<1>6. ASSUME NEW p \in Processes, Ages(p) PROVE PointersInTurn'
  BY <1>6, <1>a, <1>b, <1>c DEF Ages, saleVars, subVars, mirrorVars, welcomeVars, moneyVars
<1>7. ASSUME NEW p \in Processes, Restart(p) PROVE PointersInTurn'
  BY <1>7, <1>a, <1>b, <1>c DEF Restart, saleVars, subVars, mirrorVars, welcomeVars, moneyVars
<1>8. ASSUME NEW p \in Processes, NEW s \in 1..MaxSessions, Expire(p, s) PROVE PointersInTurn'
  BY <1>8, <1>a, <1>b, <1>c DEF Expire, saleVars, subVars, mirrorVars, welcomeVars, moneyVars
<1>9. ASSUME NEW s \in 1..MaxSessions, Pay(s) PROVE PointersInTurn'
  BY <1>9, <1>a, <1>b, <1>c DEF Pay, saleVars, subVars, mirrorVars, welcomeVars, moneyVars
<1>10. ASSUME NEW s \in 1..MaxSessions, SeatsChange(s) PROVE PointersInTurn'
  BY <1>10, <1>a, <1>b, <1>c DEF SeatsChange, Changes, saleVars, subVars, mirrorVars, welcomeVars, moneyVars
<1>11. ASSUME NEW s \in 1..MaxSessions, StatusChanges(s) PROVE PointersInTurn'
  BY <1>11, <1>a, <1>b, <1>c DEF StatusChanges, Changes, saleVars, subVars, mirrorVars, welcomeVars, moneyVars
<1>12. CASE HandleEvent
  BY <1>12, <1>a, <1>b, <1>c DEF HandleEvent, saleVars, subVars, mirrorVars, welcomeVars, moneyVars
<1>13. ASSUME NEW f \in Finishers, NEW p \in Processes, NEW s \in 1..MaxSessions, BeginFinish(f, p, s) PROVE PointersInTurn'
  BY <1>13, <1>a, <1>b, <1>c DEF BeginFinish, Serial, Counted, NoFinish, saleVars, subVars, mirrorVars, welcomeVars, moneyVars
<1>14. ASSUME NEW f \in Finishers, LookAtPointer(f) PROVE PointersInTurn'
  BY <1>14, <1>a, <1>b, <1>c DEF LookAtPointer, saleVars, subVars, mirrorVars, welcomeVars, moneyVars
<1>15. ASSUME NEW f \in Finishers, Attach(f) PROVE PointersInTurn'
  BY <1>15, <1>a, <1>b, <1>c, SMTT(60) DEF Attach, saleVars, subVars, mirrorVars, welcomeVars, moneyVars
<1>16. ASSUME NEW f \in Finishers, ReadSub(f) PROVE PointersInTurn'
  BY <1>16, <1>a, <1>b, <1>c DEF ReadSub, saleVars, subVars, mirrorVars, welcomeVars, moneyVars
<1>17. ASSUME NEW f \in Finishers, Stamp(f) PROVE PointersInTurn'
  BY <1>17, <1>a, <1>b, <1>c DEF Stamp, saleVars, subVars, mirrorVars, welcomeVars, moneyVars
<1>18. ASSUME NEW f \in Finishers, Mirror(f) PROVE PointersInTurn'
  BY <1>18, <1>a, <1>b, <1>c DEF Mirror, NoFinish, saleVars, subVars, mirrorVars, welcomeVars, moneyVars
<1>19. ASSUME NEW f \in Finishers, StepFails(f) PROVE PointersInTurn'
  <2>1. Finishing(f) /\ finish'[f].pc # "attach" /\ \A g \in Finishers : g # f => finish'[g] = finish[g]
    BY <1>19, <1>a, <1>b, <1>c DEF StepFails, Warns, NoFinish
  <2>2. UNCHANGED <<scene, welcome, pointer>>
    BY <1>19, <1>a, <1>b, <1>c DEF StepFails, saleVars, subVars, mirrorVars, welcomeVars, moneyVars
  <2> QED
    BY <2>1, <2>2, <1>a, <1>b, <1>c
<1>20. ASSUME NEW w \in Welcomers, BeginWelcome(w) PROVE PointersInTurn'
  <2>1. UNCHANGED <<scene, finish, pointer>> /\ (scene.serial => \A f \in Finishers : ~Finishing(f))
    BY <1>20, <1>a, <1>b, <1>c DEF BeginWelcome, Serial, saleVars, subVars, mirrorVars, welcomeVars, moneyVars
  <2>2. UNCHANGED welcome \/ (pointer = 0 /\ (scene.serial => \A v \in Welcomers : ~Welcoming(v))
                               /\ \A v \in Welcomers : v # w => welcome'[v] = welcome[v])
    BY <1>20, <1>a, <1>b, <1>c DEF BeginWelcome, Serial, Goes
  <2> QED
    BY <2>1, <2>2, <1>a, <1>b, <1>c
<1>21. ASSUME NEW w \in Welcomers, CreateCustomer(w) PROVE PointersInTurn'
  BY <1>21, <1>a, <1>b, <1>c DEF CreateCustomer, saleVars, subVars, mirrorVars, welcomeVars, moneyVars
<1>22. ASSUME NEW w \in Welcomers, GrantWelcome(w) PROVE PointersInTurn'
  <2>1. Welcoming(w) /\ \A v \in Welcomers : v # w => welcome'[v] = welcome[v]
    BY <1>22, <1>a, <1>b, <1>c DEF GrantWelcome, Goes, NoWelcome
  <2>2. UNCHANGED <<scene, finish, pointer>>
    BY <1>22, <1>a, <1>b, <1>c DEF GrantWelcome, saleVars, subVars, mirrorVars, welcomeVars, moneyVars
  <2> QED
    BY <2>1, <2>2, <1>a, <1>b, <1>c
<1>23. ASSUME NEW w \in Welcomers, Point(w) PROVE PointersInTurn'
  BY <1>23, <1>a, <1>b, <1>c DEF Point, NoWelcome, saleVars, subVars, mirrorVars, welcomeVars, moneyVars
<1>24. ASSUME NEW w \in Welcomers, WelcomeEnds(w) PROVE PointersInTurn'
  BY <1>24, <1>a, <1>b, <1>c DEF WelcomeEnds, NoWelcome, saleVars, subVars, mirrorVars, welcomeVars, moneyVars
<1>25. CASE ForgetsKey
  BY <1>25, <1>a, <1>b, <1>c DEF ForgetsKey, saleVars, subVars, mirrorVars, welcomeVars, moneyVars
<1>26. CASE UNCHANGED vars
  BY <1>26, <1>a, <1>b, <1>c DEF vars, saleVars, subVars, mirrorVars, welcomeVars, moneyVars
<1> QED
  BY <1>1, <1>2, <1>3, <1>4, <1>5, <1>6, <1>7, <1>8, <1>9, <1>10, <1>11, <1>12, <1>13, <1>14, <1>15, <1>16, <1>17, <1>18, <1>19, <1>20, <1>21, <1>22, <1>23, <1>24, <1>25, <1>26 DEF Next

LEMMA LastOfAppend ==
  ASSUME NEW list \in Seq(Nat), NEW n \in Nat
  PROVE  Append(list, n) # <<>> /\ Last(Append(list, n)) = n
BY SMTT(60) DEF Last

LEMMA LetThroughStep ==
  ASSUME PurchaseInv, [Next]_vars PROVE OneLetThrough'
<1>a. OneLetThrough
  BY DEF PurchaseInv
<1>b. finish = [f \in Finishers |-> finish[f]] /\ welcome = [w \in Welcomers |-> welcome[w]]
  BY DEF PurchaseInv, PurchaseTypes, MoneyTypes, RecordTypes
<1>c. \A w \in Welcomers : welcome[w] \in [pc : {"idle", "create", "credit", "point"}, customer : Nat]
  BY DEF PurchaseInv, PurchaseTypes, MoneyTypes, RecordTypes
<1>d. customers \in Nat /\ credited \in Seq(Nat) /\ calls \in [{"buys", "finishes", "welcomes"} -> Nat] /\ scene \in SceneType
  BY DEF PurchaseInv, PurchaseTypes, MoneyTypes, RecordTypes
<1> USE DEF OneLetThrough, Welcoming, At
<1>1. ASSUME NEW b \in Buyers, NEW p \in Processes, NEW ask \in Asks, Request(b, p, ask) PROVE OneLetThrough'
  BY <1>1, <1>a, <1>b, <1>c, <1>d DEF Request, saleVars, subVars, mirrorVars, welcomeVars, moneyVars
<1>2. ASSUME NEW b \in Buyers, NewCustomer(b) PROVE OneLetThrough'
  BY <1>2, <1>a, <1>b, <1>c, <1>d DEF NewCustomer, saleVars, subVars, mirrorVars, welcomeVars, moneyVars
<1>3. ASSUME NEW b \in Buyers, OpenSession(b) PROVE OneLetThrough'
  BY <1>3, <1>a, <1>b, <1>c, <1>d DEF OpenSession, saleVars, subVars, mirrorVars, welcomeVars, moneyVars
<1>4. ASSUME NEW b \in Buyers, OpenFails(b) PROVE OneLetThrough'
  BY <1>4, <1>a, <1>b, <1>c, <1>d DEF OpenFails, saleVars, subVars, mirrorVars, welcomeVars, moneyVars
<1>5. ASSUME NEW b \in Buyers, Leaves(b) PROVE OneLetThrough'
  BY <1>5, <1>a, <1>b, <1>c, <1>d DEF Leaves, saleVars, subVars, mirrorVars, welcomeVars, moneyVars
<1>6. ASSUME NEW p \in Processes, Ages(p) PROVE OneLetThrough'
  BY <1>6, <1>a, <1>b, <1>c, <1>d DEF Ages, saleVars, subVars, mirrorVars, welcomeVars, moneyVars
<1>7. ASSUME NEW p \in Processes, Restart(p) PROVE OneLetThrough'
  BY <1>7, <1>a, <1>b, <1>c, <1>d DEF Restart, saleVars, subVars, mirrorVars, welcomeVars, moneyVars
<1>8. ASSUME NEW p \in Processes, NEW s \in 1..MaxSessions, Expire(p, s) PROVE OneLetThrough'
  BY <1>8, <1>a, <1>b, <1>c, <1>d DEF Expire, saleVars, subVars, mirrorVars, welcomeVars, moneyVars
<1>9. ASSUME NEW s \in 1..MaxSessions, Pay(s) PROVE OneLetThrough'
  BY <1>9, <1>a, <1>b, <1>c, <1>d DEF Pay, saleVars, subVars, mirrorVars, welcomeVars, moneyVars
<1>10. ASSUME NEW s \in 1..MaxSessions, SeatsChange(s) PROVE OneLetThrough'
  BY <1>10, <1>a, <1>b, <1>c, <1>d DEF SeatsChange, Changes, saleVars, subVars, mirrorVars, welcomeVars, moneyVars
<1>11. ASSUME NEW s \in 1..MaxSessions, StatusChanges(s) PROVE OneLetThrough'
  BY <1>11, <1>a, <1>b, <1>c, <1>d DEF StatusChanges, Changes, saleVars, subVars, mirrorVars, welcomeVars, moneyVars
<1>12. CASE HandleEvent
  BY <1>12, <1>a, <1>b, <1>c, <1>d DEF HandleEvent, saleVars, subVars, mirrorVars, welcomeVars, moneyVars
<1>13. ASSUME NEW f \in Finishers, NEW p \in Processes, NEW s \in 1..MaxSessions, BeginFinish(f, p, s) PROVE OneLetThrough'
  <2>1. scene.finishes # 0
    BY <1>13, <1>a, <1>b, <1>c, <1>d DEF BeginFinish, Counted, SceneType
  <2>2. UNCHANGED <<scene, welcome, customers, pointer, keyHolder, credited>>
    BY <1>13 DEF BeginFinish, saleVars, subVars, mirrorVars, welcomeVars, moneyVars
  <2> QED
    BY <2>1, <2>2, <1>a
<1>14. ASSUME NEW f \in Finishers, LookAtPointer(f) PROVE OneLetThrough'
  <2>1. scene.finishes # 0 /\ UNCHANGED <<scene, welcome, customers, pointer, keyHolder, credited>>
    BY <1>14, <1>a, <1>b, <1>c, <1>d DEF LookAtPointer, saleVars, subVars, mirrorVars, welcomeVars, moneyVars, Warns, NoFinish
  <2> QED
    BY <2>1, <1>a, <1>b, <1>c, <1>d
<1>15. ASSUME NEW f \in Finishers, Attach(f) PROVE OneLetThrough'
  <2>1. scene.finishes # 0 /\ UNCHANGED <<scene, welcome, customers, keyHolder, credited>>
    BY <1>15, <1>a, <1>b, <1>c, <1>d DEF Attach, saleVars, subVars, mirrorVars, welcomeVars, moneyVars
  <2> QED
    BY <2>1, <1>a, <1>b, <1>c, <1>d
<1>16. ASSUME NEW f \in Finishers, ReadSub(f) PROVE OneLetThrough'
  <2>1. scene.finishes # 0 /\ UNCHANGED <<scene, welcome, customers, pointer, keyHolder, credited>>
    BY <1>16, <1>a, <1>b, <1>c, <1>d DEF ReadSub, saleVars, subVars, mirrorVars, welcomeVars, moneyVars, Warns, NoFinish
  <2> QED
    BY <2>1, <1>a, <1>b, <1>c, <1>d
<1>17. ASSUME NEW f \in Finishers, Stamp(f) PROVE OneLetThrough'
  <2>1. scene.finishes # 0 /\ UNCHANGED <<scene, welcome, customers, pointer, keyHolder, credited>>
    BY <1>17, <1>a, <1>b, <1>c, <1>d DEF Stamp, saleVars, subVars, mirrorVars, welcomeVars, moneyVars, Warns, NoFinish
  <2> QED
    BY <2>1, <1>a, <1>b, <1>c, <1>d
<1>18. ASSUME NEW f \in Finishers, Mirror(f) PROVE OneLetThrough'
  <2>1. scene.finishes # 0 /\ UNCHANGED <<scene, welcome, customers, pointer, keyHolder, credited>>
    BY <1>18, <1>a, <1>b, <1>c, <1>d DEF Mirror, saleVars, subVars, mirrorVars, welcomeVars, moneyVars, Warns, NoFinish
  <2> QED
    BY <2>1, <1>a, <1>b, <1>c, <1>d
<1>19. ASSUME NEW f \in Finishers, StepFails(f) PROVE OneLetThrough'
  <2>1. scene.finishes # 0 /\ UNCHANGED <<scene, welcome, customers, pointer, keyHolder, credited>>
    BY <1>19, <1>a, <1>b, <1>c, <1>d DEF StepFails, saleVars, subVars, mirrorVars, welcomeVars, moneyVars, Warns, NoFinish
  <2> QED
    BY <2>1, <1>a, <1>b, <1>c, <1>d
<1>20. ASSUME NEW w \in Welcomers, BeginWelcome(w) PROVE OneLetThrough'
  <2>1. UNCHANGED <<scene, finish, pointer, customers, keyHolder, credited>>
    BY <1>20 DEF BeginWelcome, saleVars, subVars, mirrorVars, welcomeVars, moneyVars
  <2>2. UNCHANGED welcome \/ (pointer = 0 /\ welcome'[w].pc = "create"
                               /\ \A v \in Welcomers : v # w => welcome'[v] = welcome[v])
    BY <1>20, <1>a, <1>b, <1>c, <1>d DEF BeginWelcome, Goes
  <2> QED
    BY <2>1, <2>2, <1>a
<1>21. ASSUME NEW w \in Welcomers, CreateCustomer(w) PROVE OneLetThrough'
  <2>1. UNCHANGED <<scene, finish, pointer, keyHolder, credited>> /\ customers' = customers + 1
    BY <1>21 DEF CreateCustomer, saleVars, subVars, mirrorVars, welcomeVars, moneyVars
  <2>2. /\ welcome[w].pc = "create" /\ welcome'[w] = [pc |-> "credit", customer |-> customers + 1]
        /\ \A v \in Welcomers : v # w => welcome'[v] = welcome[v]
    BY <1>21, <1>a, <1>b, <1>c, <1>d DEF CreateCustomer
  <2>3. customers \in Nat
    BY <1>d
  <2>4. \A v \in Welcomers : v # w /\ welcome'[v].pc \in {"credit", "point"} =>
           welcome'[v].customer \in 1..customers
    BY <2>2, <1>a
  <2>5. /\ \A v \in Welcomers : welcome'[v].pc \in {"credit", "point"} => welcome'[v].customer \in 1..customers'
        /\ \A u, v \in Welcomers :
              welcome'[u].pc \in {"credit", "point"} /\ welcome'[v].pc \in {"credit", "point"}
                 /\ welcome'[u].customer = welcome'[v].customer => u = v
    BY <2>1, <2>2, <2>3, <2>4, <1>a
  <2>6. /\ scene.finishes = 0 => \A f \in Finishers : finish'[f].pc = "idle"
        /\ scene.finishes = 0 /\ scene.free =>
              /\ \A v \in Welcomers : welcome'[v].pc = "point" =>
                    pointer = 0 /\ keyHolder = welcome'[v].customer
                       /\ credited # <<>> /\ Last(credited) = welcome'[v].customer
              /\ pointer # 0 => \A v \in Welcomers : welcome'[v].pc # "idle" => keyHolder # 0
    BY <2>1, <2>2, <1>a
  <2> QED
    BY <2>1, <2>5, <2>6
<1>22. ASSUME NEW w \in Welcomers, GrantWelcome(w) PROVE OneLetThrough'
  <2>1. UNCHANGED <<scene, finish, pointer, customers>>
    BY <1>22 DEF GrantWelcome, saleVars, subVars, mirrorVars, welcomeVars, moneyVars
  <2>2. /\ welcome[w].pc = "credit" /\ welcome'[w].pc \in {"point", "idle"}
        /\ welcome'[w].pc = "point" => welcome'[w].customer = welcome[w].customer
        /\ \A v \in Welcomers : v # w => welcome'[v] = welcome[v]
    BY <1>22, <1>a, <1>b, <1>c, <1>d DEF GrantWelcome, Goes, NoWelcome
  <2>3. CASE keyHolder = 0 /\ scene.free
    <3>1. /\ keyHolder' = welcome[w].customer /\ credited' = Append(credited, welcome[w].customer)
          /\ welcome'[w].pc = "point"
      BY <1>22, <2>3, <1>a, <1>b, <1>c, <1>d DEF GrantWelcome, Goes
    <3>2. credited' # <<>> /\ Last(credited') = welcome[w].customer
      BY <3>1, <1>a, <1>b, <1>c, <1>d, LastOfAppend
    <3>3. scene.finishes = 0 => pointer = 0 /\ \A v \in Welcomers : v # w => welcome[v].pc # "point"
      BY <2>2, <2>3, <1>a, <1>b, <1>c, <1>d
    <3> QED
      BY <2>1, <2>2, <3>1, <3>2, <3>3, <2>3, <1>a
  <2>4. CASE ~(keyHolder = 0 /\ scene.free)
    <3>1. UNCHANGED <<keyHolder, credited>> /\ (scene.free => welcome'[w].pc = "idle")
      BY <1>22, <2>4, <1>a, <1>b, <1>c, <1>d DEF GrantWelcome, NoWelcome
    <3> QED
      BY <2>1, <2>2, <3>1, <1>a
  <2> QED
    BY <2>3, <2>4
<1>23. ASSUME NEW w \in Welcomers, Point(w) PROVE OneLetThrough'
  <2>1. UNCHANGED <<scene, finish, customers, keyHolder, credited>> /\ pointer' = welcome[w].customer
    BY <1>23 DEF Point, saleVars, subVars, mirrorVars, welcomeVars, moneyVars
  <2>2. /\ welcome[w].pc = "point" /\ welcome'[w].pc = "idle"
        /\ \A v \in Welcomers : v # w => welcome'[v] = welcome[v]
    BY <1>23, <1>a, <1>b, <1>c, <1>d DEF Point, NoWelcome
  <2>3. scene.finishes = 0 /\ scene.free => \A v \in Welcomers : v # w => welcome[v].pc # "point"
    BY <2>2, <1>a, <1>b, <1>c, <1>d
  <2>4. welcome[w].customer # 0
    BY <2>2, <1>a, <1>b, <1>c, <1>d
  <2> QED
    BY <2>1, <2>2, <2>3, <2>4, <1>a
<1>24. ASSUME NEW w \in Welcomers, WelcomeEnds(w) PROVE OneLetThrough'
  <2>1. UNCHANGED <<scene, finish, customers, pointer, keyHolder, credited>>
    BY <1>24 DEF WelcomeEnds, saleVars, subVars, mirrorVars, welcomeVars, moneyVars
  <2>2. /\ welcome'[w].pc = "idle"
        /\ \A v \in Welcomers : v # w => welcome'[v] = welcome[v]
    BY <1>24, <1>a, <1>b, <1>c, <1>d DEF WelcomeEnds, NoWelcome
  <2> QED
    BY <2>1, <2>2, <1>a
<1>25. CASE ForgetsKey
  BY <1>25, <1>a, <1>b, <1>c, <1>d DEF ForgetsKey, saleVars, subVars, mirrorVars, welcomeVars, moneyVars
<1>26. CASE UNCHANGED vars
  BY <1>26, <1>a, <1>b, <1>c, <1>d DEF vars, saleVars, subVars, mirrorVars, welcomeVars, moneyVars
<1> QED
  BY <1>1, <1>2, <1>3, <1>4, <1>5, <1>6, <1>7, <1>8, <1>9, <1>10, <1>11, <1>12, <1>13, <1>14, <1>15, <1>16, <1>17, <1>18, <1>19, <1>20, <1>21, <1>22, <1>23, <1>24, <1>25, <1>26 DEF Next

LEMMA CreditedStep ==
  ASSUME PurchaseInv, [Next]_vars PROVE CreditedOnce'
<1>a. CreditedOnce
  BY DEF PurchaseInv
<1>b. credited \in Seq(Nat)
  BY DEF PurchaseInv, PurchaseTypes, MoneyTypes, RecordTypes
<1>c. \A w \in Welcomers : welcome[w].pc = "credit" => welcome[w].customer \in Nat \ {0}
  BY DEF PurchaseInv, PurchaseTypes, MoneyTypes, RecordTypes, OneLetThrough
<1> USE DEF CreditedOnce, Rejects
<1>1. ASSUME NEW b \in Buyers, NEW p \in Processes, NEW ask \in Asks, Request(b, p, ask) PROVE CreditedOnce'
  BY <1>1, <1>a, <1>b, <1>c DEF Request, saleVars, subVars, mirrorVars, welcomeVars, moneyVars
<1>2. ASSUME NEW b \in Buyers, NewCustomer(b) PROVE CreditedOnce'
  BY <1>2, <1>a, <1>b, <1>c DEF NewCustomer, saleVars, subVars, mirrorVars, welcomeVars, moneyVars
<1>3. ASSUME NEW b \in Buyers, OpenSession(b) PROVE CreditedOnce'
  BY <1>3, <1>a, <1>b, <1>c DEF OpenSession, saleVars, subVars, mirrorVars, welcomeVars, moneyVars
<1>4. ASSUME NEW b \in Buyers, OpenFails(b) PROVE CreditedOnce'
  BY <1>4, <1>a, <1>b, <1>c DEF OpenFails, saleVars, subVars, mirrorVars, welcomeVars, moneyVars
<1>5. ASSUME NEW b \in Buyers, Leaves(b) PROVE CreditedOnce'
  BY <1>5, <1>a, <1>b, <1>c DEF Leaves, saleVars, subVars, mirrorVars, welcomeVars, moneyVars
<1>6. ASSUME NEW p \in Processes, Ages(p) PROVE CreditedOnce'
  BY <1>6, <1>a, <1>b, <1>c DEF Ages, saleVars, subVars, mirrorVars, welcomeVars, moneyVars
<1>7. ASSUME NEW p \in Processes, Restart(p) PROVE CreditedOnce'
  BY <1>7, <1>a, <1>b, <1>c DEF Restart, saleVars, subVars, mirrorVars, welcomeVars, moneyVars
<1>8. ASSUME NEW p \in Processes, NEW s \in 1..MaxSessions, Expire(p, s) PROVE CreditedOnce'
  BY <1>8, <1>a, <1>b, <1>c DEF Expire, saleVars, subVars, mirrorVars, welcomeVars, moneyVars
<1>9. ASSUME NEW s \in 1..MaxSessions, Pay(s) PROVE CreditedOnce'
  BY <1>9, <1>a, <1>b, <1>c DEF Pay, saleVars, subVars, mirrorVars, welcomeVars, moneyVars
<1>10. ASSUME NEW s \in 1..MaxSessions, SeatsChange(s) PROVE CreditedOnce'
  BY <1>10, <1>a, <1>b, <1>c DEF SeatsChange, Changes, saleVars, subVars, mirrorVars, welcomeVars, moneyVars
<1>11. ASSUME NEW s \in 1..MaxSessions, StatusChanges(s) PROVE CreditedOnce'
  BY <1>11, <1>a, <1>b, <1>c DEF StatusChanges, Changes, saleVars, subVars, mirrorVars, welcomeVars, moneyVars
<1>12. CASE HandleEvent
  BY <1>12, <1>a, <1>b, <1>c DEF HandleEvent, saleVars, subVars, mirrorVars, welcomeVars, moneyVars
<1>13. ASSUME NEW f \in Finishers, NEW p \in Processes, NEW s \in 1..MaxSessions, BeginFinish(f, p, s) PROVE CreditedOnce'
  BY <1>13, <1>a, <1>b, <1>c DEF BeginFinish, saleVars, subVars, mirrorVars, welcomeVars, moneyVars
<1>14. ASSUME NEW f \in Finishers, LookAtPointer(f) PROVE CreditedOnce'
  BY <1>14, <1>a, <1>b, <1>c DEF LookAtPointer, saleVars, subVars, mirrorVars, welcomeVars, moneyVars
<1>15. ASSUME NEW f \in Finishers, Attach(f) PROVE CreditedOnce'
  BY <1>15, <1>a, <1>b, <1>c DEF Attach, saleVars, subVars, mirrorVars, welcomeVars, moneyVars
<1>16. ASSUME NEW f \in Finishers, ReadSub(f) PROVE CreditedOnce'
  BY <1>16, <1>a, <1>b, <1>c DEF ReadSub, saleVars, subVars, mirrorVars, welcomeVars, moneyVars
<1>17. ASSUME NEW f \in Finishers, Stamp(f) PROVE CreditedOnce'
  BY <1>17, <1>a, <1>b, <1>c DEF Stamp, saleVars, subVars, mirrorVars, welcomeVars, moneyVars
<1>18. ASSUME NEW f \in Finishers, Mirror(f) PROVE CreditedOnce'
  BY <1>18, <1>a, <1>b, <1>c DEF Mirror, saleVars, subVars, mirrorVars, welcomeVars, moneyVars
<1>19. ASSUME NEW f \in Finishers, StepFails(f) PROVE CreditedOnce'
  BY <1>19, <1>a, <1>b, <1>c DEF StepFails, saleVars, subVars, mirrorVars, welcomeVars, moneyVars
<1>20. ASSUME NEW w \in Welcomers, BeginWelcome(w) PROVE CreditedOnce'
  BY <1>20, <1>a, <1>b, <1>c DEF BeginWelcome, saleVars, subVars, mirrorVars, welcomeVars, moneyVars
<1>21. ASSUME NEW w \in Welcomers, CreateCustomer(w) PROVE CreditedOnce'
  BY <1>21, <1>a, <1>b, <1>c DEF CreateCustomer, saleVars, subVars, mirrorVars, welcomeVars, moneyVars
<1>22. ASSUME NEW w \in Welcomers, GrantWelcome(w) PROVE CreditedOnce'
  <2>1. UNCHANGED scene
    BY <1>22 DEF GrantWelcome
  <2>2. \/ UNCHANGED <<credited, keyHolder>>
        \/ /\ keyHolder = 0 /\ scene.free /\ keyHolder' = welcome[w].customer
           /\ credited' = Append(credited, welcome[w].customer) /\ welcome[w].pc = "credit"
    BY <1>22 DEF GrantWelcome
  <2>3. welcome[w].pc = "credit" => welcome[w].customer \in Nat \ {0}
    BY <1>a, <1>b, <1>c
  <2>4. ASSUME credited = <<>>, credited' = Append(credited, welcome[w].customer), welcome[w].customer \in Nat
        PROVE  Len(credited') <= 1
    BY <2>4
  <2> QED
    BY <2>1, <2>2, <2>3, <2>4, <1>a, <1>b, <1>c
<1>23. ASSUME NEW w \in Welcomers, Point(w) PROVE CreditedOnce'
  BY <1>23, <1>a, <1>b, <1>c DEF Point, saleVars, subVars, mirrorVars, welcomeVars, moneyVars
<1>24. ASSUME NEW w \in Welcomers, WelcomeEnds(w) PROVE CreditedOnce'
  BY <1>24, <1>a, <1>b, <1>c DEF WelcomeEnds, saleVars, subVars, mirrorVars, welcomeVars, moneyVars
<1>25. CASE ForgetsKey
  BY <1>25, <1>a, <1>b, <1>c DEF ForgetsKey, saleVars, subVars, mirrorVars, welcomeVars, moneyVars
<1>26. CASE UNCHANGED vars
  BY <1>26, <1>a, <1>b, <1>c DEF vars, saleVars, subVars, mirrorVars, welcomeVars, moneyVars
<1> QED
  BY <1>1, <1>2, <1>3, <1>4, <1>5, <1>6, <1>7, <1>8, <1>9, <1>10, <1>11, <1>12, <1>13, <1>14, <1>15, <1>16, <1>17, <1>18, <1>19, <1>20, <1>21, <1>22, <1>23, <1>24, <1>25, <1>26 DEF Next

LEMMA AttachedCustomer ==
  ASSUME PurchaseInv PROVE \A f \in Finishers : At(f, "attach") => session[finish[f].session].customer \in Nat
<1> SUFFICES ASSUME NEW f \in Finishers, At(f, "attach") PROVE session[finish[f].session].customer \in Nat
  OBVIOUS
<1>1. finish[f].session \in DOMAIN session
  BY DEF PurchaseInv, ToldOfPaid, FoundPaid, Finishing, At, Bought
<1>2. session \in Seq(SessionType)
  BY DEF PurchaseInv, PurchaseTypes, SessionTypes
<1>3. session[finish[f].session] \in SessionType
  BY <1>1, <1>2
<1> QED
  BY <1>3 DEF SessionType

LEMMA MoneyTyped ==
  ASSUME PurchaseInv, [Next]_vars PROVE MoneyTypes'
<1>a. MoneyTypes
  BY DEF PurchaseInv, PurchaseTypes
<1>b. \A f \in Finishers : At(f, "attach") => session[finish[f].session].customer \in Nat
  BY AttachedCustomer
<1> USE DEF MoneyTypes
<1>1. ASSUME NEW b \in Buyers, NEW p \in Processes, NEW ask \in Asks, Request(b, p, ask) PROVE MoneyTypes'
  <2>1. UNCHANGED <<scene, welcome, customers, pointer, credited, keyHolder>>
    BY <1>1 DEF Request, saleVars, subVars, mirrorVars, welcomeVars, moneyVars
  <2>2. calls' \in [{"buys", "finishes", "welcomes"} -> Nat]
    BY <1>1, <1>a, <1>b DEF Request, Counted
  <2> QED
    BY <2>1, <2>2, <1>a
<1>2. ASSUME NEW b \in Buyers, NewCustomer(b) PROVE MoneyTypes'
  <2>1. UNCHANGED <<scene, calls, welcome, pointer, credited, keyHolder>>
    BY <1>2 DEF NewCustomer, saleVars, subVars, mirrorVars, welcomeVars, moneyVars
  <2>2. customers' \in Nat
    BY <1>2, <1>a, <1>b DEF NewCustomer
  <2> QED
    BY <2>1, <2>2, <1>a
<1>3. ASSUME NEW b \in Buyers, OpenSession(b) PROVE MoneyTypes'
  <2>1. UNCHANGED <<scene, calls, welcome, customers, pointer, credited, keyHolder>>
    BY <1>3 DEF OpenSession, saleVars, subVars, mirrorVars, welcomeVars, moneyVars
  <2> QED
    BY <2>1, <1>a
<1>4. ASSUME NEW b \in Buyers, OpenFails(b) PROVE MoneyTypes'
  <2>1. UNCHANGED <<scene, calls, welcome, customers, pointer, credited, keyHolder>>
    BY <1>4 DEF OpenFails, saleVars, subVars, mirrorVars, welcomeVars, moneyVars
  <2> QED
    BY <2>1, <1>a
<1>5. ASSUME NEW b \in Buyers, Leaves(b) PROVE MoneyTypes'
  <2>1. UNCHANGED <<scene, calls, welcome, customers, pointer, credited, keyHolder>>
    BY <1>5 DEF Leaves, saleVars, subVars, mirrorVars, welcomeVars, moneyVars
  <2> QED
    BY <2>1, <1>a
<1>6. ASSUME NEW p \in Processes, Ages(p) PROVE MoneyTypes'
  <2>1. UNCHANGED <<scene, calls, welcome, customers, pointer, credited, keyHolder>>
    BY <1>6 DEF Ages, saleVars, subVars, mirrorVars, welcomeVars, moneyVars
  <2> QED
    BY <2>1, <1>a
<1>7. ASSUME NEW p \in Processes, Restart(p) PROVE MoneyTypes'
  <2>1. UNCHANGED <<scene, calls, welcome, customers, pointer, credited, keyHolder>>
    BY <1>7 DEF Restart, saleVars, subVars, mirrorVars, welcomeVars, moneyVars
  <2> QED
    BY <2>1, <1>a
<1>8. ASSUME NEW p \in Processes, NEW s \in 1..MaxSessions, Expire(p, s) PROVE MoneyTypes'
  <2>1. UNCHANGED <<scene, calls, welcome, customers, pointer, credited, keyHolder>>
    BY <1>8 DEF Expire, saleVars, subVars, mirrorVars, welcomeVars, moneyVars
  <2> QED
    BY <2>1, <1>a
<1>9. ASSUME NEW s \in 1..MaxSessions, Pay(s) PROVE MoneyTypes'
  <2>1. UNCHANGED <<scene, calls, welcome, customers, pointer, credited, keyHolder>>
    BY <1>9 DEF Pay, saleVars, subVars, mirrorVars, welcomeVars, moneyVars
  <2> QED
    BY <2>1, <1>a
<1>10. ASSUME NEW s \in 1..MaxSessions, SeatsChange(s) PROVE MoneyTypes'
  <2>1. UNCHANGED <<scene, calls, welcome, customers, pointer, credited, keyHolder>>
    BY <1>10 DEF SeatsChange, Changes, saleVars, subVars, mirrorVars, welcomeVars, moneyVars
  <2> QED
    BY <2>1, <1>a
<1>11. ASSUME NEW s \in 1..MaxSessions, StatusChanges(s) PROVE MoneyTypes'
  <2>1. UNCHANGED <<scene, calls, welcome, customers, pointer, credited, keyHolder>>
    BY <1>11 DEF StatusChanges, Changes, saleVars, subVars, mirrorVars, welcomeVars, moneyVars
  <2> QED
    BY <2>1, <1>a
<1>12. CASE HandleEvent
  <2>1. UNCHANGED <<scene, calls, welcome, customers, pointer, credited, keyHolder>>
    BY <1>12 DEF HandleEvent, saleVars, subVars, mirrorVars, welcomeVars, moneyVars
  <2> QED
    BY <2>1, <1>a
<1>13. ASSUME NEW f \in Finishers, NEW p \in Processes, NEW s \in 1..MaxSessions, BeginFinish(f, p, s) PROVE MoneyTypes'
  <2>1. UNCHANGED <<scene, welcome, customers, pointer, credited, keyHolder>>
    BY <1>13 DEF BeginFinish, saleVars, subVars, mirrorVars, welcomeVars, moneyVars
  <2>2. calls' \in [{"buys", "finishes", "welcomes"} -> Nat]
    BY <1>13, <1>a, <1>b DEF BeginFinish, Counted
  <2> QED
    BY <2>1, <2>2, <1>a
<1>14. ASSUME NEW f \in Finishers, LookAtPointer(f) PROVE MoneyTypes'
  <2>1. UNCHANGED <<scene, calls, welcome, customers, pointer, credited, keyHolder>>
    BY <1>14 DEF LookAtPointer, saleVars, subVars, mirrorVars, welcomeVars, moneyVars
  <2> QED
    BY <2>1, <1>a
<1>15. ASSUME NEW f \in Finishers, Attach(f) PROVE MoneyTypes'
  <2>1. UNCHANGED <<scene, calls, welcome, customers, credited, keyHolder>>
    BY <1>15 DEF Attach, saleVars, subVars, mirrorVars, welcomeVars, moneyVars
  <2>2. pointer' \in Nat
    BY <1>15, <1>a, <1>b DEF Attach
  <2> QED
    BY <2>1, <2>2, <1>a
<1>16. ASSUME NEW f \in Finishers, ReadSub(f) PROVE MoneyTypes'
  <2>1. UNCHANGED <<scene, calls, welcome, customers, pointer, credited, keyHolder>>
    BY <1>16 DEF ReadSub, saleVars, subVars, mirrorVars, welcomeVars, moneyVars
  <2> QED
    BY <2>1, <1>a
<1>17. ASSUME NEW f \in Finishers, Stamp(f) PROVE MoneyTypes'
  <2>1. UNCHANGED <<scene, calls, welcome, customers, pointer, credited, keyHolder>>
    BY <1>17 DEF Stamp, saleVars, subVars, mirrorVars, welcomeVars, moneyVars
  <2> QED
    BY <2>1, <1>a
<1>18. ASSUME NEW f \in Finishers, Mirror(f) PROVE MoneyTypes'
  <2>1. UNCHANGED <<scene, calls, welcome, customers, pointer, credited, keyHolder>>
    BY <1>18 DEF Mirror, saleVars, subVars, mirrorVars, welcomeVars, moneyVars
  <2> QED
    BY <2>1, <1>a
<1>19. ASSUME NEW f \in Finishers, StepFails(f) PROVE MoneyTypes'
  <2>1. UNCHANGED <<scene, calls, welcome, customers, pointer, credited, keyHolder>>
    BY <1>19 DEF StepFails, saleVars, subVars, mirrorVars, welcomeVars, moneyVars
  <2> QED
    BY <2>1, <1>a
<1>20. ASSUME NEW w \in Welcomers, BeginWelcome(w) PROVE MoneyTypes'
  <2>1. UNCHANGED <<scene, customers, pointer, credited, keyHolder>> /\ (UNCHANGED welcome \/ welcome' = [welcome EXCEPT ![w] = [welcome[w] EXCEPT !.pc = "create"]])
    BY <1>20 DEF BeginWelcome, Goes, saleVars, subVars, mirrorVars, welcomeVars, moneyVars
  <2>2. calls' \in [{"buys", "finishes", "welcomes"} -> Nat]
    BY <1>20, <1>a DEF BeginWelcome, Counted
  <2>3. welcome' \in [Welcomers -> [pc : {"idle", "create", "credit", "point"}, customer : Nat]]
    BY <2>1, <1>a
  <2> QED
    BY <2>1, <2>2, <2>3, <1>a
<1>21. ASSUME NEW w \in Welcomers, CreateCustomer(w) PROVE MoneyTypes'
  <2>1. UNCHANGED <<scene, calls, pointer, credited, keyHolder>>
    BY <1>21 DEF CreateCustomer, saleVars, subVars, mirrorVars, welcomeVars, moneyVars
  <2>2. customers' \in Nat /\ welcome' \in [Welcomers -> [pc : {"idle", "create", "credit", "point"}, customer : Nat]]
    BY <1>21, <1>a, <1>b DEF CreateCustomer
  <2> QED
    BY <2>1, <2>2, <1>a
<1>22. ASSUME NEW w \in Welcomers, GrantWelcome(w) PROVE MoneyTypes'
  <2>1. UNCHANGED <<scene, calls, customers, pointer>>
    BY <1>22 DEF GrantWelcome, saleVars, subVars, mirrorVars, welcomeVars, moneyVars
  <2>2. UNCHANGED <<credited, keyHolder>> \/ (credited' = Append(credited, welcome[w].customer) /\ keyHolder' = welcome[w].customer)
    BY <1>22 DEF GrantWelcome
  <2>3. welcome[w].customer \in Nat
    BY <1>a
  <2>4. credited' \in Seq(Nat) /\ keyHolder' \in Nat
    <3>1. credited \in Seq(Nat) /\ keyHolder \in Nat
      BY <1>a
    <3>2. Append(credited, welcome[w].customer) \in Seq(Nat)
      BY <3>1, <2>3, AppendProperties
    <3> QED
      BY <2>2, <2>3, <3>1, <3>2
  <2>5. welcome' = [welcome EXCEPT ![w] = NoWelcome] \/ welcome' = [welcome EXCEPT ![w] = [welcome[w] EXCEPT !.pc = "point"]]
    BY <1>22 DEF GrantWelcome, Goes
  <2>6. welcome' \in [Welcomers -> [pc : {"idle", "create", "credit", "point"}, customer : Nat]]
    <3>1. welcome[w] \in [pc : {"idle", "create", "credit", "point"}, customer : Nat]
      BY <1>a
    <3>2. [welcome[w] EXCEPT !.pc = "point"] \in [pc : {"idle", "create", "credit", "point"}, customer : Nat]
      BY <3>1
    <3>3. NoWelcome \in [pc : {"idle", "create", "credit", "point"}, customer : Nat]
      BY DEF NoWelcome
    <3> DEFINE next == [welcome[w] EXCEPT !.pc = "point"]
    <3> HIDE DEF next
    <3>4. welcome' = [welcome EXCEPT ![w] = NoWelcome] \/ welcome' = [welcome EXCEPT ![w] = next]
      BY <2>5 DEF next
    <3>5. next \in [pc : {"idle", "create", "credit", "point"}, customer : Nat]
      BY <3>2 DEF next
    <3> QED
      BY <3>3, <3>4, <3>5, <1>a
  <2> QED
    BY <2>1, <2>4, <2>6, <1>a
<1>23. ASSUME NEW w \in Welcomers, Point(w) PROVE MoneyTypes'
  <2>1. UNCHANGED <<scene, calls, customers, credited, keyHolder>>
    BY <1>23 DEF Point, saleVars, subVars, mirrorVars, welcomeVars, moneyVars
  <2>2. pointer' \in Nat /\ welcome' \in [Welcomers -> [pc : {"idle", "create", "credit", "point"}, customer : Nat]]
    BY <1>23, <1>a, <1>b DEF Point, NoWelcome
  <2> QED
    BY <2>1, <2>2, <1>a
<1>24. ASSUME NEW w \in Welcomers, WelcomeEnds(w) PROVE MoneyTypes'
  <2>1. UNCHANGED <<scene, calls, customers, pointer, credited, keyHolder>>
    BY <1>24 DEF WelcomeEnds, saleVars, subVars, mirrorVars, welcomeVars, moneyVars
  <2>2. welcome' \in [Welcomers -> [pc : {"idle", "create", "credit", "point"}, customer : Nat]]
    BY <1>24, <1>a, <1>b DEF WelcomeEnds, NoWelcome
  <2> QED
    BY <2>1, <2>2, <1>a
<1>25. CASE ForgetsKey
  <2>1. UNCHANGED <<scene, calls, welcome, customers, pointer, credited>>
    BY <1>25 DEF ForgetsKey, saleVars, subVars, mirrorVars, welcomeVars, moneyVars
  <2>2. keyHolder' \in Nat
    BY <1>25, <1>a, <1>b DEF ForgetsKey
  <2> QED
    BY <2>1, <2>2, <1>a
<1>26. CASE UNCHANGED vars
  <2>1. UNCHANGED <<scene, calls, welcome, customers, pointer, credited, keyHolder>>
    BY <1>26 DEF vars, saleVars, subVars, mirrorVars, welcomeVars, moneyVars
  <2> QED
    BY <2>1, <1>a
<1> QED
  BY <1>1, <1>2, <1>3, <1>4, <1>5, <1>6, <1>7, <1>8, <1>9, <1>10, <1>11, <1>12, <1>13, <1>14, <1>15, <1>16, <1>17, <1>18, <1>19, <1>20, <1>21, <1>22, <1>23, <1>24, <1>25, <1>26 DEF Next

LEMMA SessionsTyped ==
  ASSUME PurchaseInv, [Next]_vars PROVE SessionTypes'
<1>a. SessionTypes
  BY DEF PurchaseInv, PurchaseTypes
<1>b. customers \in Nat
  BY DEF PurchaseInv, PurchaseTypes, MoneyTypes, SessionTypes, RecordTypes
<1>c. NoAsk \in AskType /\ \A ask \in Asks : ask \in AskType /\ ask.customer \in Nat
  BY PurchaseAssumption DEF AskType, NoAsk
<1> USE DEF SessionTypes
<1>1. ASSUME NEW b \in Buyers, NEW p \in Processes, NEW ask \in Asks, Request(b, p, ask) PROVE SessionTypes'
  <2>1. UNCHANGED <<session, cache>>
    BY <1>1 DEF Request
  <2> DEFINE hits == {e \in cache[p] : e.key = ReuseKeyFor(ask) /\ e.fresh}
             given == CHOOSE e \in hits : TRUE
             handed == [AtRest EXCEPT !.at = p, !.ask = ask, !.got = given.session]
             waits == [AtRest EXCEPT !.pc = "wait", !.at = p, !.ask = ask]
             opens == [AtRest EXCEPT !.pc = IF ask.customer = 0 THEN "customer" ELSE "session",
                                     !.at = p, !.ask = ask, !.customer = ask.customer]
  <2>2. \/ buyer' = [buyer EXCEPT ![b] = AtRest]
        \/ hits # {} /\ buyer' = [buyer EXCEPT ![b] = handed]
        \/ buyer' = [buyer EXCEPT ![b] = waits]
        \/ buyer' = [buyer EXCEPT ![b] = opens]
    <3>1. CASE Refused(ask)
      BY <1>1, <3>1 DEF Request
    <3>2. CASE ~Refused(ask) /\ Reusable(ask) /\ hits # {}
      BY <1>1, <3>2 DEF Request
    <3>3. CASE ~Refused(ask) /\ Reusable(ask) /\ hits = {} /\ Opening(p, ask)
      BY <1>1, <3>3 DEF Request
    <3>4. CASE ~Refused(ask) /\ ~(Reusable(ask) /\ (hits # {} \/ Opening(p, ask)))
      BY <1>1, <3>4 DEF Request
    <3> QED
      BY <3>1, <3>2, <3>3, <3>4
  <2>3. ask \in AskType /\ ask.customer \in Nat /\ AtRest \in BuyerType
    BY <1>c DEF AtRest, BuyerType
  <2>4. hits # {} => given.session \in Nat
    <3> SUFFICES ASSUME hits # {} PROVE given.session \in Nat
      OBVIOUS
    <3>1. given \in hits
      OBVIOUS
    <3>2. given \in KeptType
      BY <3>1, <1>a
    <3> QED
      BY <3>2 DEF KeptType
  <2>5. (hits # {} => handed \in BuyerType) /\ waits \in BuyerType /\ opens \in BuyerType
    <3> HIDE DEF given, hits
    <3> QED
      BY <2>3, <2>4 DEF BuyerType
  <2> HIDE DEF handed, waits, opens, hits
  <2>6. buyer' \in [Buyers -> BuyerType]
    BY <2>2, <2>3, <2>5, <1>a
  <2> QED
    BY <2>1, <2>6, <1>a
<1>2. ASSUME NEW b \in Buyers, NewCustomer(b) PROVE SessionTypes'
  <2> DEFINE next == [buyer[b] EXCEPT !.pc = "session", !.customer = customers + 1]
  <2>1. UNCHANGED <<session, cache>> /\ buyer' = [buyer EXCEPT ![b] = next]
    BY <1>2 DEF NewCustomer, AtRest
  <2>2. next \in BuyerType
    <3>1. buyer[b] \in BuyerType /\ customers + 1 \in Nat
      BY <1>a, <1>b
    <3> QED
      BY <3>1 DEF BuyerType
  <2> HIDE DEF next
  <2>3. buyer' \in [Buyers -> BuyerType]
    BY <2>1, <2>2, <1>a
  <2> QED
    BY <2>1, <2>3, <1>a
<1>3. ASSUME NEW b \in Buyers, OpenSession(b) PROVE SessionTypes'
  <2>1. \A c \in Buyers, s \in Nat : Done(c, s) \in BuyerType
    <3> SUFFICES ASSUME NEW c \in Buyers, NEW s \in Nat PROVE Done(c, s) \in BuyerType
      OBVIOUS
    <3>1. buyer[c] \in BuyerType
      BY <1>a
    <3> QED
      BY <3>1 DEF Done, BuyerType
  <2> DEFINE s == Len(session) + 1
             entry == [key |-> ReuseKeyFor(buyer[b].ask), session |-> s, fresh |-> TRUE]
  <2>2. s \in Nat /\ buyer[b].ask \in AskType /\ buyer[b].customer \in Nat
    <3>1. buyer[b] \in BuyerType
      BY <1>a
    <3> QED
      BY <3>1, <1>a DEF BuyerType
  <2>3. entry \in KeptType
    BY <2>2 DEF KeptType
  <2>4. buyer' \in [Buyers -> BuyerType]
    <3>1. buyer' = [c \in Buyers |-> IF c = b \/ (Reusable(buyer[b].ask) /\ c \in Waiting(b)) THEN Done(c, s) ELSE buyer[c]]
      BY <1>3 DEF OpenSession
    <3> HIDE DEF s
    <3> QED
      BY <3>1, <2>1, <2>2, <1>a
  <2>5. cache' \in [Processes -> SUBSET KeptType]
    <3> DEFINE p == buyer[b].at
               next == IF Reusable(buyer[b].ask) THEN {e \in cache[p] : e.key # ReuseKeyFor(buyer[b].ask)} \cup {entry} ELSE cache[p]
    <3>1. cache' = [cache EXCEPT ![p] = next]
      BY <1>3 DEF OpenSession
    <3> HIDE DEF entry, s
    <3>2. p \in Processes => next \in SUBSET KeptType
      BY <2>3, <1>a
    <3> HIDE DEF next, p
    <3> QED
      BY <3>1, <3>2, <1>a
  <2>6. session' \in Seq(SessionType)
    <3> DEFINE opened == [ask |-> buyer[b].ask, customer |-> buyer[b].customer, status |-> "open"]
    <3>1. opened \in SessionType /\ session' = Append(session, opened)
      BY <1>3, <2>2 DEF SessionType, OpenSession
    <3> HIDE DEF opened
    <3> QED
      BY <3>1, <1>a, AppendProperties
  <2> QED
    BY <2>4, <2>5, <2>6
<1>4. ASSUME NEW b \in Buyers, OpenFails(b) PROVE SessionTypes'
  <2>1. \A c \in Buyers, s \in Nat : Done(c, s) \in BuyerType
    <3> SUFFICES ASSUME NEW c \in Buyers, NEW s \in Nat PROVE Done(c, s) \in BuyerType
      OBVIOUS
    <3>1. buyer[c] \in BuyerType
      BY <1>a
    <3> QED
      BY <3>1 DEF Done, BuyerType
  <2>2. buyer' \in [Buyers -> BuyerType] /\ UNCHANGED <<session, cache>>
    <3>1. buyer' = [c \in Buyers |-> IF c = b \/ (Reusable(buyer[b].ask) /\ c \in Waiting(b)) THEN Done(c, 0) ELSE buyer[c]]
      BY <1>4 DEF OpenFails
    <3>2. UNCHANGED <<session, cache>>
      BY <1>4 DEF OpenFails
    <3> QED
      BY <3>1, <3>2, <2>1, <1>a
  <2> QED
    BY <2>2, <1>a
<1>5. ASSUME NEW b \in Buyers, Leaves(b) PROVE SessionTypes'
  <2>1. UNCHANGED <<session, cache>> /\ buyer' = [buyer EXCEPT ![b] = AtRest]
    BY <1>5 DEF Leaves
  <2>2. AtRest \in BuyerType
    BY <1>c DEF AtRest, BuyerType
  <2>3. buyer' \in [Buyers -> BuyerType]
    BY <2>1, <2>2, <1>a
  <2> QED
    BY <2>1, <2>3, <1>a
<1>6. ASSUME NEW p \in Processes, Ages(p) PROVE SessionTypes'
  <2>1. PICK e \in cache[p] : cache' = [cache EXCEPT ![p] = (cache[p] \ {e}) \cup {[e EXCEPT !.fresh = FALSE]}]
    BY <1>6 DEF Ages
  <2>2. UNCHANGED <<buyer, session>>
    BY <1>6 DEF Ages
  <2>3. e \in KeptType
    BY <1>a
  <2> DEFINE next == [e EXCEPT !.fresh = FALSE]
  <2>4. next \in KeptType
    BY <2>3 DEF KeptType
  <2> HIDE DEF next
  <2>5. cache' \in [Processes -> SUBSET KeptType]
    <3>1. cache' = [cache EXCEPT ![p] = (cache[p] \ {e}) \cup {next}]
      BY <2>1 DEF next
    <3> QED
      BY <3>1, <2>4, <1>a
  <2> QED
    BY <2>2, <2>5, <1>a
<1>7. ASSUME NEW p \in Processes, Restart(p) PROVE SessionTypes'
  <2>1. UNCHANGED session /\ buyer' = [b \in Buyers |-> IF buyer[b].at = p THEN AtRest ELSE buyer[b]]
    BY <1>7 DEF Restart
  <2>2. AtRest \in BuyerType
    BY <1>c DEF AtRest, BuyerType
  <2>3. cache' \in [Processes -> SUBSET KeptType]
    BY <1>7, <1>a DEF Restart
  <2> QED
    BY <2>1, <2>2, <2>3, <1>a
<1>8. ASSUME NEW p \in Processes, NEW s \in 1..MaxSessions, Expire(p, s) PROVE SessionTypes'
  <2>0. cache' \in [Processes -> SUBSET KeptType]
    BY <1>8, <1>a DEF Expire, Forget
  <2> DEFINE next == [session[s] EXCEPT !.status = IF session[s].status = "open" THEN "expired" ELSE session[s].status]
  <2>1. UNCHANGED buyer /\ session' = [session EXCEPT ![s] = next] /\ s \in DOMAIN session
    BY <1>8 DEF Expire
  <2>2. session[s] \in SessionType
    BY <2>1, <1>a
  <2>3. next \in SessionType
    BY <2>2 DEF SessionType
  <2> HIDE DEF next
  <2>4. session' \in Seq(SessionType)
    BY <2>1, <2>3, <1>a, ExceptSeq
  <2> QED
    BY <2>0, <2>1, <2>4, <1>a
<1>9. ASSUME NEW s \in 1..MaxSessions, Pay(s) PROVE SessionTypes'
  <2>0. cache' \in [Processes -> SUBSET KeptType]
    BY <1>9, <1>a DEF Pay
  <2> DEFINE next == [session[s] EXCEPT !.status = "complete"]
  <2>1. UNCHANGED buyer /\ session' = [session EXCEPT ![s] = next] /\ s \in DOMAIN session
    BY <1>9 DEF Pay
  <2>2. session[s] \in SessionType
    BY <2>1, <1>a
  <2>3. next \in SessionType
    BY <2>2 DEF SessionType
  <2> HIDE DEF next
  <2>4. session' \in Seq(SessionType)
    BY <2>1, <2>3, <1>a, ExceptSeq
  <2> QED
    BY <2>0, <2>1, <2>4, <1>a
<1>10. ASSUME NEW s \in 1..MaxSessions, SeatsChange(s) PROVE SessionTypes'
  <2>1. UNCHANGED <<buyer, session, cache>>
    BY <1>10 DEF SeatsChange, Changes, saleVars, subVars, mirrorVars, welcomeVars, moneyVars
  <2> QED
    BY <2>1, <1>a
<1>11. ASSUME NEW s \in 1..MaxSessions, StatusChanges(s) PROVE SessionTypes'
  <2>1. UNCHANGED <<buyer, session, cache>>
    BY <1>11 DEF StatusChanges, Changes, saleVars, subVars, mirrorVars, welcomeVars, moneyVars
  <2> QED
    BY <2>1, <1>a
<1>12. CASE HandleEvent
  <2>1. UNCHANGED <<buyer, session, cache>>
    BY <1>12 DEF HandleEvent, saleVars, subVars, mirrorVars, welcomeVars, moneyVars
  <2> QED
    BY <2>1, <1>a
<1>13. ASSUME NEW f \in Finishers, NEW p \in Processes, NEW s \in 1..MaxSessions, BeginFinish(f, p, s) PROVE SessionTypes'
  <2>1. UNCHANGED <<buyer, session>>
    BY <1>13 DEF BeginFinish
  <2>2. cache' \in [Processes -> SUBSET KeptType]
    BY <1>13, <1>a DEF BeginFinish, Forget
  <2> QED
    BY <2>1, <2>2, <1>a
<1>14. ASSUME NEW f \in Finishers, LookAtPointer(f) PROVE SessionTypes'
  <2>1. UNCHANGED <<buyer, session, cache>>
    BY <1>14 DEF LookAtPointer, saleVars, subVars, mirrorVars, welcomeVars, moneyVars
  <2> QED
    BY <2>1, <1>a
<1>15. ASSUME NEW f \in Finishers, Attach(f) PROVE SessionTypes'
  <2>1. UNCHANGED <<buyer, session, cache>>
    BY <1>15 DEF Attach, saleVars, subVars, mirrorVars, welcomeVars, moneyVars
  <2> QED
    BY <2>1, <1>a
<1>16. ASSUME NEW f \in Finishers, ReadSub(f) PROVE SessionTypes'
  <2>1. UNCHANGED <<buyer, session, cache>>
    BY <1>16 DEF ReadSub, saleVars, subVars, mirrorVars, welcomeVars, moneyVars
  <2> QED
    BY <2>1, <1>a
<1>17. ASSUME NEW f \in Finishers, Stamp(f) PROVE SessionTypes'
  <2>1. UNCHANGED <<buyer, session, cache>>
    BY <1>17 DEF Stamp, saleVars, subVars, mirrorVars, welcomeVars, moneyVars
  <2> QED
    BY <2>1, <1>a
<1>18. ASSUME NEW f \in Finishers, Mirror(f) PROVE SessionTypes'
  <2>1. UNCHANGED <<buyer, session, cache>>
    BY <1>18 DEF Mirror, saleVars, subVars, mirrorVars, welcomeVars, moneyVars
  <2> QED
    BY <2>1, <1>a
<1>19. ASSUME NEW f \in Finishers, StepFails(f) PROVE SessionTypes'
  <2>1. UNCHANGED <<buyer, session, cache>>
    BY <1>19 DEF StepFails, saleVars, subVars, mirrorVars, welcomeVars, moneyVars
  <2> QED
    BY <2>1, <1>a
<1>20. ASSUME NEW w \in Welcomers, BeginWelcome(w) PROVE SessionTypes'
  <2>1. UNCHANGED <<buyer, session, cache>>
    BY <1>20 DEF BeginWelcome, saleVars, subVars, mirrorVars, welcomeVars, moneyVars
  <2> QED
    BY <2>1, <1>a
<1>21. ASSUME NEW w \in Welcomers, CreateCustomer(w) PROVE SessionTypes'
  <2>1. UNCHANGED <<buyer, session, cache>>
    BY <1>21 DEF CreateCustomer, saleVars, subVars, mirrorVars, welcomeVars, moneyVars
  <2> QED
    BY <2>1, <1>a
<1>22. ASSUME NEW w \in Welcomers, GrantWelcome(w) PROVE SessionTypes'
  <2>1. UNCHANGED <<buyer, session, cache>>
    BY <1>22 DEF GrantWelcome, saleVars, subVars, mirrorVars, welcomeVars, moneyVars
  <2> QED
    BY <2>1, <1>a
<1>23. ASSUME NEW w \in Welcomers, Point(w) PROVE SessionTypes'
  <2>1. UNCHANGED <<buyer, session, cache>>
    BY <1>23 DEF Point, saleVars, subVars, mirrorVars, welcomeVars, moneyVars
  <2> QED
    BY <2>1, <1>a
<1>24. ASSUME NEW w \in Welcomers, WelcomeEnds(w) PROVE SessionTypes'
  <2>1. UNCHANGED <<buyer, session, cache>>
    BY <1>24 DEF WelcomeEnds, saleVars, subVars, mirrorVars, welcomeVars, moneyVars
  <2> QED
    BY <2>1, <1>a
<1>25. CASE ForgetsKey
  <2>1. UNCHANGED <<buyer, session, cache>>
    BY <1>25 DEF ForgetsKey, saleVars, subVars, mirrorVars, welcomeVars, moneyVars
  <2> QED
    BY <2>1, <1>a
<1>26. CASE UNCHANGED vars
  <2>1. UNCHANGED <<buyer, session, cache>>
    BY <1>26 DEF vars, saleVars, subVars, mirrorVars, welcomeVars, moneyVars
  <2> QED
    BY <2>1, <1>a
<1> QED
  BY <1>1, <1>2, <1>3, <1>4, <1>5, <1>6, <1>7, <1>8, <1>9, <1>10, <1>11, <1>12, <1>13, <1>14, <1>15, <1>16, <1>17, <1>18, <1>19, <1>20, <1>21, <1>22, <1>23, <1>24, <1>25, <1>26 DEF Next

(* What is recorded of it: the calls and events that matter. *)

RecordVars == <<sub, events, finish, record, told, whole, overtaken>>
RecordActs ==
    \/ \E s \in 1..MaxSessions : Pay(s) \/ SeatsChange(s) \/ StatusChanges(s)
    \/ HandleEvent
    \/ \E f \in Finishers :
          \/ \E p \in Processes, s \in 1..MaxSessions : BeginFinish(f, p, s)
          \/ LookAtPointer(f) \/ Attach(f) \/ ReadSub(f) \/ Stamp(f) \/ Mirror(f) \/ StepFails(f)
OthersBuyNothing ==
    /\ UNCHANGED RecordVars /\ Len(session') <= MaxSessions
    /\ \A s : Bought(s)' <=> Bought(s)

LEMMA OnlyRecordActs ==
  ASSUME PurchaseInv, [Next]_vars PROVE RecordActs \/ OthersBuyNothing
<1>a. session \in Seq(SessionType)
  BY DEF PurchaseInv, PurchaseTypes, SessionTypes
<1>b. Len(session) <= MaxSessions
  BY DEF PurchaseInv, ToldOfPaid
<1>c. ASSUME UNCHANGED RecordVars, UNCHANGED session PROVE OthersBuyNothing
  BY <1>b, <1>c DEF OthersBuyNothing, Bought
<1>1. ASSUME NEW b \in Buyers, OpenSession(b) PROVE OthersBuyNothing
  <2>1. UNCHANGED RecordVars
    BY <1>1 DEF OpenSession, RecordVars, subVars, mirrorVars
  <2>2. PICK ask, customer : session' = Append(session, [ask |-> ask, customer |-> customer, status |-> "open"])
    BY <1>1 DEF OpenSession
  <2> DEFINE opened == [ask |-> ask, customer |-> customer, status |-> "open"]
  <2>3. opened.status # "complete" /\ session' = Append(session, opened)
    BY <2>2
  <2> HIDE DEF opened
  <2>4. /\ DOMAIN session' = 1..(Len(session) + 1) /\ Len(session') = Len(session) + 1
        /\ \A s \in 1..Len(session) : session'[s] = session[s]
        /\ session'[Len(session) + 1] = opened
    BY <2>3, <1>a
  <2>5. ASSUME NEW s PROVE Bought(s)' <=> Bought(s)
    BY <2>3, <2>4, <1>a DEF Bought
  <2>6. Len(session') <= MaxSessions
    BY <1>1, <2>4 DEF OpenSession
  <2> QED
    BY <2>1, <2>5, <2>6 DEF OthersBuyNothing
<1>2. ASSUME NEW p \in Processes, NEW s \in 1..MaxSessions, Expire(p, s) PROVE OthersBuyNothing
  <2>1. UNCHANGED RecordVars
    BY <1>2 DEF Expire, RecordVars, subVars, mirrorVars
  <2> DEFINE next == [session[s] EXCEPT !.status = IF session[s].status = "open" THEN "expired" ELSE session[s].status]
  <2>2. session' = [session EXCEPT ![s] = next] /\ s \in DOMAIN session
    BY <1>2 DEF Expire
  <2>3. session[s] \in SessionType
    BY <2>2, <1>a
  <2>4. next.status = "complete" <=> session[s].status = "complete"
    BY <2>3 DEF SessionType
  <2> HIDE DEF next
  <2>5. DOMAIN session' = DOMAIN session /\ Len(session') = Len(session)
    BY <2>2, <1>a
  <2>6. ASSUME NEW t PROVE Bought(t)' <=> Bought(t)
    BY <2>2, <2>4, <2>5 DEF Bought
  <2> QED
    BY <2>1, <2>5, <2>6, <1>b DEF OthersBuyNothing
<1>3. CASE \E b \in Buyers : \/ \E p \in Processes, ask \in Asks : Request(b, p, ask)
                             \/ NewCustomer(b) \/ OpenFails(b) \/ Leaves(b)
  <2>1. UNCHANGED <<RecordVars, session>>
    BY <1>3, ZenonT(60) DEF Request, NewCustomer, OpenFails, Leaves, RecordVars, subVars, mirrorVars
  <2> QED
    BY <2>1, <1>c, SMTT(60)
<1>4. CASE \E p \in Processes : Ages(p) \/ Restart(p)
  <2>1. UNCHANGED <<RecordVars, session>>
    BY <1>4 DEF Ages, Restart, RecordVars, subVars, mirrorVars
  <2> QED
    BY <2>1, <1>c
<1>5. CASE (\E w \in Welcomers : \/ BeginWelcome(w) \/ CreateCustomer(w) \/ GrantWelcome(w)
                                 \/ Point(w) \/ WelcomeEnds(w)) \/ ForgetsKey
  <2>1. UNCHANGED <<RecordVars, session>>
    BY <1>5 DEF BeginWelcome, CreateCustomer, GrantWelcome, Point, WelcomeEnds, ForgetsKey,
                RecordVars, saleVars, subVars, mirrorVars
  <2> QED
    BY <2>1, <1>c
<1>6. CASE UNCHANGED vars
  <2>1. UNCHANGED <<RecordVars, session>>
    BY <1>6 DEF vars, RecordVars, saleVars, subVars, mirrorVars
  <2> QED
    BY <2>1, <1>c
<1> QED
  BY <1>1, <1>2, <1>3, <1>4, <1>5, <1>6 DEF Next, RecordActs

LEMMA FieldsTyped ==
  ASSUME NEW x \in SubType, NEW v \in Nat, NEW counts \in CountsType, NEW status \in SubStatuses
  PROVE  [x EXCEPT !.v = v, !.counts = counts] \in SubType /\ [x EXCEPT !.v = v, !.status = status] \in SubType
  BY DEF SubType

LEMMA BegunTyped ==
  ASSUME NEW x \in FinishType, NEW s \in Nat
  PROVE  [x EXCEPT !.pc = "look", !.session = s] \in FinishType
  BY DEF FinishType

LEMMA CompletionTyped ==
  ASSUME finish \in [Finishers -> FinishType], NEW f \in Finishers, NEW next \in FinishType,
         finish' = [finish EXCEPT ![f] = next]
  PROVE  finish' \in [Finishers -> FinishType]
  OBVIOUS

LEMMA SubscriptionTyped ==
  ASSUME RecordTypes, NEW s \in 1..MaxSessions, NEW x \in SubType, sub' = [sub EXCEPT ![s] = x],
         events' = events \/ events' = Append(events, Snapshot(s, x)),
         finish' \in [Finishers -> FinishType], UNCHANGED overtaken
  PROVE  RecordTypes'
<1>1. sub' \in [1..MaxSessions -> SubType]
  BY DEF RecordTypes
<1>2. Snapshot(s, x) \in EventType
  BY DEF Snapshot, SubType, EventType
<1>3. events \in Seq(EventType)
  BY DEF RecordTypes
<1>4. Append(events, Snapshot(s, x)) \in Seq(EventType)
  BY <1>2, <1>3, AppendProperties
<1>5. overtaken' \in BOOLEAN
  BY DEF RecordTypes
<1> QED
  BY <1>1, <1>3, <1>4, <1>5 DEF RecordTypes

LEMMA RecordsTyped ==
  ASSUME PurchaseInv, [Next]_vars PROVE RecordTypes'
<1>a. RecordTypes
  BY DEF PurchaseInv, PurchaseTypes
<1>b. /\ sub \in [1..MaxSessions -> SubType] /\ events \in Seq(EventType)
      /\ finish \in [Finishers -> FinishType] /\ overtaken \in BOOLEAN
  BY <1>a DEF RecordTypes
<1>c. NoSub \in SubType /\ [NoSub EXCEPT !.status = "unread"] \in SubType
  BY DEF NoSub, SubType, SubStatuses, CountsType
<1>d. NoFinish \in FinishType
  <2> DEFINE unread == [NoSub EXCEPT !.status = "unread"]
  <2>1. unread \in SubType
    BY <1>c
  <2>2. NoFinish = [pc |-> "idle", session |-> 0, look |-> 0, read |-> unread, warned |-> FALSE]
    BY DEF NoFinish
  <2> HIDE DEF unread
  <2> QED
    BY <2>1, <2>2 DEF FinishType
<1>e. \A f \in Finishers : ToldOfPaid /\ Finishing(f) => finish[f].session \in 1..MaxSessions
  <2>1. session \in Seq(SessionType)
    BY DEF PurchaseInv, PurchaseTypes, SessionTypes
  <2> SUFFICES ASSUME NEW f \in Finishers, ToldOfPaid, Finishing(f) PROVE finish[f].session \in 1..MaxSessions
    OBVIOUS
  <2>2. Bought(finish[f].session) /\ Len(session) <= MaxSessions
    BY DEF ToldOfPaid, FoundPaid
  <2>3. finish[f].session \in DOMAIN session
    BY <2>2 DEF Bought
  <2>4. MaxSessions \in Nat
    BY PurchaseAssumption
  <2> QED
    BY <2>1, <2>2, <2>3, <2>4
<1>f. ASSUME NEW f \in Finishers, NEW next \in FinishType, finish' = [finish EXCEPT ![f] = next],
             UNCHANGED <<sub, events, overtaken>>
      PROVE  RecordTypes'
  BY <1>f, <1>b, CompletionTyped DEF RecordTypes
<1>1. ASSUME NEW s \in 1..MaxSessions, Pay(s) PROVE RecordTypes'
  <2>1. PICK status \in {"active", "incomplete"} :
          LET x == [status |-> status, v |-> 1, counts |-> Selected(session[s].ask.basket), org |-> scene.carries]
          IN  sub' = [sub EXCEPT ![s] = x] /\ events' = Append(events, Snapshot(s, x))
    BY <1>1 DEF Pay
  <2> DEFINE x == [status |-> status, v |-> 1, counts |-> Selected(session[s].ask.basket), org |-> scene.carries]
  <2>2. s \in DOMAIN session /\ UNCHANGED <<finish, overtaken>>
    BY <1>1 DEF Pay, mirrorVars
  <2>3. scene.carries \in BOOLEAN
    BY DEF PurchaseInv, PurchaseTypes, MoneyTypes, SceneType
  <2>4. Selected(session[s].ask.basket) \in CountsType
    <3>1. session[s] \in SessionType
      BY <2>2 DEF PurchaseInv, PurchaseTypes, SessionTypes
    <3>2. session[s].ask.basket \in [SeatKeys(Model) -> Nat]
      BY <3>1 DEF SessionType, AskType
    <3> QED
      BY <3>2 DEF CountsType
  <2>5. x \in SubType
    <3> DEFINE counts == Selected(session[s].ask.basket)
    <3> HIDE DEF counts
    <3>1. counts \in CountsType /\ x = [status |-> status, v |-> 1, counts |-> counts, org |-> scene.carries]
      BY <2>4 DEF counts
    <3> QED
      BY <3>1, <2>3 DEF SubType, SubStatuses
  <2>6. sub' = [sub EXCEPT ![s] = x] /\ events' = Append(events, Snapshot(s, x))
    BY <2>1
  <2> HIDE DEF x
  <2> QED
    BY <2>2, <2>5, <2>6, <1>a, <1>b, SubscriptionTyped
<1>2. ASSUME NEW s \in 1..MaxSessions, SeatsChange(s) \/ StatusChanges(s) PROVE RecordTypes'
  <2>1. sub[s] \in SubType
    BY <1>b
  <2>a. sub[s].v + 1 \in Nat /\ "active" \in SubStatuses /\ <<>> \in CountsType
    BY <2>1 DEF SubType, SubStatuses, CountsType
  <2>2. PICK x \in SubType : Changes(s, x)
    <3>1. CASE SeatsChange(s)
      <4>1. PICK counts \in Counts : Changes(s, [sub[s] EXCEPT !.v = @ + 1, !.counts = counts])
        BY <3>1 DEF SeatsChange
      <4>2. counts \in CountsType
        BY SMTT(60) DEF CountsType
      <4>3. [sub[s] EXCEPT !.v = sub[s].v + 1, !.counts = counts] \in SubType
        BY <2>1, <2>a, <4>2, FieldsTyped
      <4> QED
        BY <4>1, <4>3
    <3>2. CASE StatusChanges(s)
      <4>1. PICK status \in {"active", "past_due", "canceled"} :
               Changes(s, [sub[s] EXCEPT !.v = @ + 1, !.status = status])
        BY <3>2 DEF StatusChanges
      <4>2. status \in SubStatuses
        BY DEF SubStatuses
      <4>3. [sub[s] EXCEPT !.v = sub[s].v + 1, !.status = status] \in SubType
        BY <2>1, <2>a, <4>2, FieldsTyped
      <4> QED
        BY <4>1, <4>3
    <3> QED
      BY <1>2, <3>1, <3>2
  <2>3. sub' = [sub EXCEPT ![s] = x] /\ events' = Append(events, Snapshot(s, x)) /\ UNCHANGED <<finish, overtaken>>
    BY <2>2 DEF Changes, mirrorVars
  <2> QED
    BY <2>3, <1>a, <1>b, SubscriptionTyped
<1>3. CASE HandleEvent
  <2>1. UNCHANGED <<sub, finish, overtaken>> /\ events # <<>> /\ events' = Tail(events)
    BY <1>3 DEF HandleEvent
  <2>2. events' \in Seq(EventType)
    BY <2>1, <1>b, HeadTailProperties
  <2> QED
    BY <2>1, <2>2, <1>b DEF RecordTypes
<1>4. ASSUME NEW f \in Finishers, NEW p \in Processes, NEW s \in 1..MaxSessions, BeginFinish(f, p, s) PROVE RecordTypes'
  <2> DEFINE next == [NoFinish EXCEPT !.pc = "look", !.session = s]
  <2>1. UNCHANGED <<sub, events, overtaken>> /\ (finish' = finish \/ finish' = [finish EXCEPT ![f] = next])
    BY <1>4 DEF BeginFinish, subVars
  <2>2. next \in FinishType
    <3>1. s \in Nat
      OBVIOUS
    <3> QED
      BY <3>1, <1>d, BegunTyped
  <2> HIDE DEF next
  <2>3. CASE finish' = finish
    BY <2>1, <2>3, <1>b DEF RecordTypes
  <2> QED
    BY <2>1, <2>2, <2>3, <1>f
<1>5. ASSUME NEW f \in Finishers, LookAtPointer(f) PROVE RecordTypes'
  <2> DEFINE goes == [finish[f] EXCEPT !.pc = "attach"]
             stays == [finish[f] EXCEPT !.pc = "read",
                                        !.warned = finish[f].warned \/ pointer # session[finish[f].session].customer]
  <2>1. UNCHANGED <<sub, events, overtaken>>
    BY <1>5 DEF LookAtPointer, subVars
  <2>2. finish' = [finish EXCEPT ![f] = goes] \/ finish' = [finish EXCEPT ![f] = stays]
    BY <1>5 DEF LookAtPointer
  <2>3. goes \in FinishType /\ stays \in FinishType
    BY <1>b DEF FinishType
  <2> HIDE DEF goes, stays
  <2> QED
    BY <2>1, <2>2, <2>3, <1>f
<1>6. ASSUME NEW f \in Finishers, Attach(f) PROVE RecordTypes'
  <2> DEFINE next == [finish[f] EXCEPT !.pc = "read"]
  <2>1. UNCHANGED <<sub, events, overtaken>> /\ finish' = [finish EXCEPT ![f] = next]
    BY <1>6 DEF Attach, subVars
  <2>2. next \in FinishType
    BY <1>b DEF FinishType
  <2> HIDE DEF next
  <2> QED
    BY <2>1, <2>2, <1>f
<1>7. ASSUME NEW f \in Finishers, ReadSub(f) PROVE RecordTypes'
  <2> DEFINE x == sub[finish[f].session]
             goes == [finish[f] EXCEPT !.pc = "mirror", !.read = x]
             stops == [finish[f] EXCEPT !.pc = "stamp", !.read = x]
  <2>1. UNCHANGED <<sub, events, overtaken>>
    BY <1>7 DEF ReadSub, subVars
  <2>2. finish' = [finish EXCEPT ![f] = goes] \/ finish' = [finish EXCEPT ![f] = stops]
    BY <1>7 DEF ReadSub
  <2>3. Finishing(f) /\ ToldOfPaid
    BY <1>7 DEF ReadSub, At, Finishing, PurchaseInv
  <2>4. x \in SubType
    BY <2>3, <1>b, <1>e
  <2> HIDE DEF x
  <2>5. goes \in FinishType /\ stops \in FinishType
    BY <2>4, <1>b DEF FinishType
  <2> HIDE DEF goes, stops
  <2> QED
    BY <2>1, <2>2, <2>5, <1>f
<1>8. ASSUME NEW f \in Finishers, Stamp(f) PROVE RecordTypes'
  <2> DEFINE s == finish[f].session
             x == [sub[s] EXCEPT !.org = TRUE]
             next == [finish[f] EXCEPT !.pc = "mirror"]
  <2>1. UNCHANGED overtaken /\ finish' = [finish EXCEPT ![f] = next] /\ sub' = [sub EXCEPT ![s] = x]
    BY <1>8 DEF Stamp
  <2>2. events' = events \/ events' = Append(events, Snapshot(s, x))
    BY <1>8 DEF Stamp
  <2>3. Finishing(f) /\ ToldOfPaid
    BY <1>8 DEF Stamp, At, Finishing, PurchaseInv
  <2>4. s \in 1..MaxSessions
    BY <2>3, <1>e
  <2>5. x \in SubType
    <3>1. sub[s] \in SubType
      BY <2>4, <1>b
    <3> HIDE DEF s
    <3> QED
      BY <3>1 DEF SubType
  <2>6. next \in FinishType
    BY <1>b DEF FinishType
  <2> HIDE DEF s, x, next
  <2>7. finish' \in [Finishers -> FinishType]
    BY <2>1, <2>6, <1>b, CompletionTyped
  <2> QED
    BY <2>1, <2>2, <2>4, <2>5, <2>7, <1>a, SubscriptionTyped
<1>9. ASSUME NEW f \in Finishers, Mirror(f) PROVE RecordTypes'
  <2>1. UNCHANGED <<sub, events>> /\ finish' = [finish EXCEPT ![f] = NoFinish] /\ overtaken' \in BOOLEAN
    BY <1>9 DEF Mirror, subVars
  <2>2. finish' \in [Finishers -> FinishType]
    BY <2>1, <1>b, <1>d, CompletionTyped
  <2> QED
    BY <2>1, <2>2, <1>b DEF RecordTypes
<1>10. ASSUME NEW f \in Finishers, StepFails(f) PROVE RecordTypes'
  <2> DEFINE reads == [finish[f] EXCEPT !.pc = "read", !.warned = TRUE]
             mirrors == [finish[f] EXCEPT !.pc = "mirror", !.warned = TRUE]
  <2>1. UNCHANGED <<sub, events, overtaken>>
    BY <1>10 DEF StepFails, subVars
  <2>2. \/ finish' = [finish EXCEPT ![f] = reads] \/ finish' = [finish EXCEPT ![f] = mirrors]
        \/ finish' = [finish EXCEPT ![f] = NoFinish]
    BY <1>10 DEF StepFails, Warns
  <2>3. reads \in FinishType /\ mirrors \in FinishType
    BY <1>b DEF FinishType
  <2> HIDE DEF reads, mirrors
  <2> QED
    BY <2>1, <2>2, <2>3, <1>d, <1>f
<1>11. CASE OthersBuyNothing
  BY <1>11, <1>a DEF OthersBuyNothing, RecordVars, RecordTypes
<1> QED
  BY <1>1, <1>2, <1>3, <1>4, <1>5, <1>6, <1>7, <1>8, <1>9, <1>10, <1>11, OnlyRecordActs DEF RecordActs

(* What is told and read stays of sessions that are paid. *)

\* A subscription never goes back.
Newer(s) ==
    /\ sub[s].v <= sub'[s].v /\ (sub[s].org => sub'[s].org)
    /\ sub[s].v = sub'[s].v => sub[s].status = sub'[s].status /\ sub[s].counts = sub'[s].counts

LEMMA FoundStays ==
  ASSUME PurchaseInv, NEW f \in Finishers, \A s : Bought(s) => Bought(s)',
         \A s \in 1..MaxSessions : Bought(s) => Newer(s), finish'[f] = finish[f],
         sub' \in [1..MaxSessions -> SubType]
  PROVE  FoundPaid(f)'
<1> SUFFICES ASSUME finish'[f].pc # "idle" PROVE FoundPaid(f)'
  BY DEF FoundPaid, Finishing
<1> DEFINE s == finish[f].session
<1>1. Finishing(f) /\ FoundPaid(f)
  BY DEF Finishing, PurchaseInv, ToldOfPaid
<1>2. Bought(s) /\ Bought(s)' /\ (finish[f].pc \in {"stamp", "mirror"} => Reads(f))
      /\ (finish[f].pc = "mirror" /\ ~finish[f].warned => sub[s].org)
  BY <1>1 DEF FoundPaid
<1>3. s \in 1..MaxSessions
  <2>1. session \in Seq(SessionType) /\ Len(session) <= MaxSessions /\ MaxSessions \in Nat
    BY PurchaseAssumption DEF PurchaseInv, PurchaseTypes, SessionTypes, ToldOfPaid
  <2>2. s \in DOMAIN session
    BY <1>2 DEF Bought
  <2> QED
    BY <2>1, <2>2
<1>4. Newer(s)
  BY <1>2, <1>3
<1>5. finish[f].read.v \in Nat /\ sub[s].v \in Nat /\ sub'[s].v \in Nat
  <2>1. finish[f].read \in SubType /\ sub[s] \in SubType /\ sub'[s] \in SubType
    BY <1>3 DEF PurchaseInv, PurchaseTypes, RecordTypes, FinishType
  <2> QED
    BY <2>1 DEF SubType
<1>6. finish'[f].session = s /\ finish'[f].read = finish[f].read
  OBVIOUS
<1>7. Reads(f) => Reads(f)'
  BY <1>4, <1>5, <1>6 DEF Reads, Newer
<1>8. sub[s].org => sub'[s].org
  BY <1>4 DEF Newer
<1> QED
  BY <1>2, <1>6, <1>7, <1>8 DEF FoundPaid

LEMMA PaidFrom ==
  ASSUME PurchaseInv, \A s : Bought(s) => Bought(s)', \A s \in 1..MaxSessions : Bought(s) => Newer(s),
         sub' \in [1..MaxSessions -> SubType], Len(session') <= MaxSessions,
         (\A i \in DOMAIN events : Bought(events[i].of))',
         \A s \in 1..MaxSessions : ~Bought(s)' => sub'[s] = NoSub,
         \A f \in Finishers : finish'[f] = finish[f] \/ FoundPaid(f)',
         \A s \in whole' : s \in whole \/ (Bought(s)' /\ sub'[s].org)
  PROVE  ToldOfPaid'
<1>1. \A f \in Finishers : FoundPaid(f)'
  BY FoundStays
<1>2. ASSUME NEW s \in whole' PROVE Bought(s)' /\ sub'[s].org
  <2> SUFFICES ASSUME s \in whole PROVE Bought(s)' /\ sub'[s].org
    BY <1>2
  <2>1. Bought(s) /\ sub[s].org
    BY DEF PurchaseInv, ToldOfPaid
  <2>2. s \in 1..MaxSessions
    <3>1. session \in Seq(SessionType) /\ Len(session) <= MaxSessions /\ MaxSessions \in Nat
      BY PurchaseAssumption DEF PurchaseInv, PurchaseTypes, SessionTypes, ToldOfPaid
    <3>2. s \in DOMAIN session
      BY <2>1 DEF Bought
    <3> QED
      BY <3>1, <3>2
  <2> QED
    BY <2>1, <2>2 DEF Newer
<1> QED
  BY <1>1, <1>2 DEF ToldOfPaid

LEMMA NothingBought ==
  ASSUME PurchaseInv, UNCHANGED <<sub, events>>, \A s : Bought(s)' <=> Bought(s), Len(session') <= MaxSessions,
         \A f \in Finishers : finish'[f] = finish[f] \/ FoundPaid(f)',
         \A s \in whole' : s \in whole \/ (Bought(s)' /\ sub'[s].org)
  PROVE  ToldOfPaid'
<1>1. sub' \in [1..MaxSessions -> SubType]
  BY DEF PurchaseInv, PurchaseTypes, RecordTypes
<1>2. \A s \in 1..MaxSessions : Newer(s)
  <2> SUFFICES ASSUME NEW s \in 1..MaxSessions PROVE Newer(s)
    OBVIOUS
  <2>1. sub[s].v \in Nat
    BY <1>1 DEF SubType
  <2> QED
    BY <2>1 DEF Newer
<1>3. (\A i \in DOMAIN events : Bought(events[i].of))'
  BY DEF PurchaseInv, ToldOfPaid
<1>4. \A s \in 1..MaxSessions : ~Bought(s)' => sub'[s] = NoSub
  BY DEF PurchaseInv, ToldOfPaid
<1> QED
  BY <1>1, <1>2, <1>3, <1>4, PaidFrom

LEMMA PaidStep ==
  ASSUME PurchaseInv, [Next]_vars PROVE ToldOfPaid'
<1>a. /\ sub \in [1..MaxSessions -> SubType] /\ events \in Seq(EventType)
      /\ finish \in [Finishers -> FinishType] /\ session \in Seq(SessionType)
      /\ Len(session) <= MaxSessions
  BY DEF PurchaseInv, PurchaseTypes, SessionTypes, RecordTypes, ToldOfPaid
<1>b. sub' \in [1..MaxSessions -> SubType]
  BY RecordsTyped DEF RecordTypes
<1>c. /\ \A i \in DOMAIN events : Bought(events[i].of)
      /\ \A s \in 1..MaxSessions : ~Bought(s) => sub[s] = NoSub
      /\ \A f \in Finishers : FoundPaid(f)
  BY DEF PurchaseInv, ToldOfPaid
<1>d. \A s \in 1..MaxSessions : sub[s].v \in Nat /\ sub[s].org \in BOOLEAN
  BY <1>a DEF SubType
<1>e. \A s : Bought(s) => s \in 1..MaxSessions
  <2> SUFFICES ASSUME NEW s, Bought(s) PROVE s \in 1..MaxSessions
    OBVIOUS
  <2>1. s \in DOMAIN session /\ MaxSessions \in Nat
    BY PurchaseAssumption DEF Bought
  <2> QED
    BY <2>1, <1>a
<1>f. ASSUME UNCHANGED session PROVE Len(session') <= MaxSessions /\ \A s : Bought(s)' <=> Bought(s)
  BY <1>a, <1>f DEF Bought
<1>1. ASSUME NEW s \in 1..MaxSessions, Pay(s) PROVE ToldOfPaid'
  <2>1. PICK x : sub' = [sub EXCEPT ![s] = x] /\ events' = Append(events, Snapshot(s, x))
    BY <1>1 DEF Pay
  <2> DEFINE paid == [session[s] EXCEPT !.status = "complete"]
  <2>2. s \in DOMAIN session /\ session[s].status = "open" /\ session' = [session EXCEPT ![s] = paid]
        /\ UNCHANGED <<finish, whole>>
    BY <1>1 DEF Pay, mirrorVars
  <2>3. paid.status = "complete"
    <3>1. session[s] \in SessionType
      BY <2>2, <1>a
    <3> QED
      BY <3>1 DEF SessionType
  <2> HIDE DEF paid
  <2>4. DOMAIN session' = DOMAIN session /\ Len(session') = Len(session)
    BY <2>2, <1>a
  <2>5. ~Bought(s) /\ \A t : Bought(t)' <=> Bought(t) \/ t = s
    BY <2>2, <2>3, <2>4 DEF Bought
  <2>6. ASSUME NEW t \in 1..MaxSessions, Bought(t) PROVE Newer(t)
    <3>1. sub'[t] = sub[t]
      BY <2>1, <2>5, <2>6, <1>a
    <3> QED
      BY <3>1, <1>d DEF Newer
  <2>7. ASSUME NEW t \in 1..MaxSessions, ~Bought(t)' PROVE sub'[t] = NoSub
    <3>1. ~Bought(t) /\ t # s
      BY <2>5, <2>7
    <3> QED
      BY <3>1, <2>1, <1>a, <1>c
  <2>8. (\A i \in DOMAIN events : Bought(events[i].of))'
    <3>1. ASSUME NEW i \in DOMAIN events' PROVE events'[i].of = s \/ Bought(events'[i].of)
      <4>1. Snapshot(s, x).of = s
        BY DEF Snapshot
      <4> DEFINE e == Snapshot(s, x)
      <4> HIDE DEF e
      <4>2. events' = Append(events, e) /\ e.of = s
        BY <2>1, <4>1 DEF e
      <4> QED
        BY <4>2, <1>a, <1>c
    <3>2. \A i \in DOMAIN events' : LET t == events'[i].of IN t = s \/ Bought(t)
      BY <3>1
    <3> QED
      BY <3>2, <2>5
  <2> QED
    BY <2>2, <2>4, <2>5, <2>6, <2>7, <2>8, <1>a, <1>b, PaidFrom
<1>2. ASSUME NEW s \in 1..MaxSessions, NEW x, Changes(s, x), x.v = sub[s].v + 1, x.org = sub[s].org
      PROVE  ToldOfPaid'
  <2>1. /\ sub' = [sub EXCEPT ![s] = x] /\ events' = Append(events, Snapshot(s, x)) /\ sub[s].status # "none"
        /\ UNCHANGED <<finish, whole, session>>
    BY <1>2 DEF Changes, saleVars, mirrorVars
  <2>2. Bought(s)
    BY <2>1, <1>c DEF NoSub
  <2>3. Len(session') <= MaxSessions /\ \A t : Bought(t)' <=> Bought(t)
    BY <2>1, <1>f
  <2>4. ASSUME NEW t \in 1..MaxSessions PROVE Newer(t)
    <3>1. CASE t = s
      <4>1. sub'[t] = x
        BY <3>1, <2>1, <1>a
      <4> QED
        BY <4>1, <3>1, <1>2, <1>d DEF Newer
    <3>2. CASE t # s
      <4>1. sub'[t] = sub[t]
        BY <3>2, <2>1, <1>a
      <4> QED
        BY <4>1, <1>d DEF Newer
    <3> QED
      BY <3>1, <3>2
  <2>5. ASSUME NEW t \in 1..MaxSessions, ~Bought(t)' PROVE sub'[t] = NoSub
    BY <2>1, <2>2, <2>3, <2>5, <1>a, <1>c
  <2>6. (\A i \in DOMAIN events : Bought(events[i].of))'
    <3>1. ASSUME NEW i \in DOMAIN events' PROVE events'[i].of = s \/ Bought(events'[i].of)
      <4>1. Snapshot(s, x).of = s
        BY DEF Snapshot
      <4> DEFINE e == Snapshot(s, x)
      <4> HIDE DEF e
      <4>2. events' = Append(events, e) /\ e.of = s
        BY <2>1, <4>1 DEF e
      <4> QED
        BY <4>2, <1>a, <1>c
    <3>2. \A i \in DOMAIN events' : LET t == events'[i].of IN t = s \/ Bought(t)
      BY <3>1
    <3> QED
      BY <3>2, <2>2, <2>3
  <2> QED
    BY <2>1, <2>3, <2>4, <2>5, <2>6, <1>b, PaidFrom
<1>3. ASSUME NEW s \in 1..MaxSessions, SeatsChange(s) PROVE ToldOfPaid'
  <2>1. PICK counts : Changes(s, [sub[s] EXCEPT !.v = sub[s].v + 1, !.counts = counts])
    BY <1>3 DEF SeatsChange
  <2> DEFINE x == [sub[s] EXCEPT !.v = sub[s].v + 1, !.counts = counts]
  <2>2. x.v = sub[s].v + 1 /\ x.org = sub[s].org
    BY <1>a DEF SubType
  <2> HIDE DEF x
  <2>3. Changes(s, x)
    BY <2>1 DEF x
  <2> QED
    BY <2>2, <2>3, <1>2
<1>4. ASSUME NEW s \in 1..MaxSessions, StatusChanges(s) PROVE ToldOfPaid'
  <2>1. PICK status : Changes(s, [sub[s] EXCEPT !.v = sub[s].v + 1, !.status = status])
    BY <1>4 DEF StatusChanges
  <2> DEFINE x == [sub[s] EXCEPT !.v = sub[s].v + 1, !.status = status]
  <2>2. x.v = sub[s].v + 1 /\ x.org = sub[s].org
    BY <1>a DEF SubType
  <2> HIDE DEF x
  <2>3. Changes(s, x)
    BY <2>1 DEF x
  <2> QED
    BY <2>2, <2>3, <1>2
<1>5. CASE HandleEvent
  <2>1. UNCHANGED <<sub, finish, whole, session>> /\ events # <<>> /\ events' = Tail(events)
    BY <1>5 DEF HandleEvent, saleVars
  <2>2. Len(session') <= MaxSessions /\ \A s : Bought(s)' <=> Bought(s)
    BY <2>1, <1>f
  <2>3. \A s \in 1..MaxSessions : Newer(s)
    BY <2>1, <1>d DEF Newer
  <2>4. (\A i \in DOMAIN events : Bought(events[i].of))'
    <3>1. ASSUME NEW i \in DOMAIN events' PROVE i + 1 \in DOMAIN events /\ events'[i] = events[i + 1]
      BY <2>1, <1>a, HeadTailProperties
    <3> QED
      BY <3>1, <2>2, <1>c
  <2>5. \A s \in 1..MaxSessions : ~Bought(s)' => sub'[s] = NoSub
    BY <2>1, <2>2, <1>c
  <2> QED
    BY <2>1, <2>2, <2>3, <2>4, <2>5, <1>b, PaidFrom
<1>6. ASSUME NEW f \in Finishers, NEW next, finish' = [finish EXCEPT ![f] = next], UNCHANGED <<sub, events, session>>,
             FoundPaid(f)', \A s \in whole' : s \in whole \/ (Bought(s)' /\ sub'[s].org)
      PROVE  ToldOfPaid'
  <2>1. \A g \in Finishers : finish'[g] = finish[g] \/ FoundPaid(g)'
    BY <1>6, <1>a
  <2>2. Len(session') <= MaxSessions /\ \A s : Bought(s)' <=> Bought(s)
    BY <1>6, <1>f
  <2> QED
    BY <2>1, <2>2, <1>6, NothingBought
<1>7. ASSUME NEW f \in Finishers, NEW p \in Processes, NEW s \in 1..MaxSessions, BeginFinish(f, p, s) PROVE ToldOfPaid'
  <2> DEFINE next == [NoFinish EXCEPT !.pc = "look", !.session = s]
  <2>1. UNCHANGED <<sub, events, session, whole>>
    BY <1>7 DEF BeginFinish, subVars
  <2>2. CASE ~Paid(s)
    <3>1. UNCHANGED finish
      BY <1>7, <2>2 DEF BeginFinish
    <3> QED
      BY <2>1, <3>1, <1>f, NothingBought
  <2>3. CASE Paid(s)
    <3>1. finish' = [finish EXCEPT ![f] = next] /\ s \in DOMAIN session
      BY <1>7, <2>3 DEF BeginFinish
    <3>2. next.pc = "look" /\ next.session = s
      BY DEF NoFinish
    <3> HIDE DEF next
    <3>3. finish'[f] = next
      BY <3>1, <1>a
    <3>4. Bought(s)'
      BY <2>1, <2>3, <3>1 DEF Paid, Bought
    <3>5. FoundPaid(f)'
      BY <3>2, <3>3, <3>4 DEF FoundPaid
    <3> QED
      BY <2>1, <3>1, <3>5, <1>6
  <2> QED
    BY <2>2, <2>3
<1>8. ASSUME NEW f \in Finishers, At(f, "look") \/ At(f, "attach") \/ At(f, "read"),
             NEW next, finish' = [finish EXCEPT ![f] = next], next.session = finish[f].session,
             next.pc \in {"attach", "read"}, UNCHANGED <<sub, events, session, whole>>
      PROVE  ToldOfPaid'
  <2>1. Bought(finish[f].session)
    BY <1>8, <1>c DEF FoundPaid, Finishing, At
  <2>2. finish'[f] = next
    BY <1>8, <1>a
  <2>3. FoundPaid(f)'
    BY <2>1, <2>2, <1>8, <1>f DEF FoundPaid
  <2> QED
    BY <2>3, <1>6, <1>8
<1>9. ASSUME NEW f \in Finishers, LookAtPointer(f) PROVE ToldOfPaid'
  <2> DEFINE goes == [finish[f] EXCEPT !.pc = "attach"]
             stays == [finish[f] EXCEPT !.pc = "read",
                                        !.warned = finish[f].warned \/ pointer # session[finish[f].session].customer]
  <2>1. UNCHANGED <<sub, events, session, whole>> /\ At(f, "look")
    BY <1>9 DEF LookAtPointer, subVars, saleVars
  <2>2. finish' = [finish EXCEPT ![f] = goes] \/ finish' = [finish EXCEPT ![f] = stays]
    BY <1>9 DEF LookAtPointer
  <2>3. /\ goes.session = finish[f].session /\ goes.pc = "attach"
        /\ stays.session = finish[f].session /\ stays.pc = "read"
    BY <1>a DEF FinishType
  <2> HIDE DEF goes, stays
  <2> QED
    BY <2>1, <2>2, <2>3, <1>8
<1>10. ASSUME NEW f \in Finishers, Attach(f) PROVE ToldOfPaid'
  <2> DEFINE next == [finish[f] EXCEPT !.pc = "read"]
  <2>1. UNCHANGED <<sub, events, session, whole>> /\ At(f, "attach") /\ finish' = [finish EXCEPT ![f] = next]
    BY <1>10 DEF Attach, subVars, saleVars
  <2>2. next.session = finish[f].session /\ next.pc = "read"
    BY <1>a DEF FinishType
  <2> HIDE DEF next
  <2> QED
    BY <2>1, <2>2, <1>8
<1>11. ASSUME NEW f \in Finishers, ReadSub(f) PROVE ToldOfPaid'
  <2> DEFINE s == finish[f].session
             x == sub[s]
             goes == [finish[f] EXCEPT !.pc = "mirror", !.read = x]
             stops == [finish[f] EXCEPT !.pc = "stamp", !.read = x]
  <2>1. UNCHANGED <<sub, events, session, whole>> /\ At(f, "read")
    BY <1>11 DEF ReadSub, subVars, saleVars
  <2>2. (x.org /\ finish' = [finish EXCEPT ![f] = goes]) \/ (~x.org /\ finish' = [finish EXCEPT ![f] = stops])
    BY <1>11 DEF ReadSub
  <2>3. Bought(s)
    BY <2>1, <1>c DEF FoundPaid, Finishing, At
  <2> HIDE DEF x
  <2>4. /\ goes.session = s /\ goes.pc = "mirror" /\ goes.read = x
        /\ stops.session = s /\ stops.pc = "stamp" /\ stops.read = x
    BY <1>a DEF FinishType
  <2>5. x.v \in Nat
    BY <2>3, <1>d, <1>e DEF x
  <2> HIDE DEF goes, stops, s
  <2>6. PICK next : finish' = [finish EXCEPT ![f] = next] /\ next.session = s /\ next.read = x
                    /\ (next.pc = "mirror" => x.org)
    BY <2>2, <2>4
  <2>7. finish'[f] = next /\ sub'[s] = x
    BY <2>1, <2>6, <1>a DEF x
  <2>8. Reads(f)'
    BY <2>5, <2>6, <2>7 DEF Reads
  <2>9. FoundPaid(f)'
    BY <2>1, <2>3, <2>6, <2>7, <2>8, <1>f DEF FoundPaid
  <2> QED
    BY <2>1, <2>6, <2>9, <1>6
<1>12. ASSUME NEW f \in Finishers, Stamp(f) PROVE ToldOfPaid'
  <2> DEFINE s == finish[f].session
             x == [sub[s] EXCEPT !.org = TRUE]
             next == [finish[f] EXCEPT !.pc = "mirror"]
  <2>1. /\ At(f, "stamp") /\ sub' = [sub EXCEPT ![s] = x] /\ finish' = [finish EXCEPT ![f] = next]
        /\ UNCHANGED <<session, whole>>
    BY <1>12 DEF Stamp, saleVars
  <2>2. events' = events \/ events' = Append(events, Snapshot(s, x))
    BY <1>12 DEF Stamp
  <2>3. Bought(s) /\ Reads(f)
    BY <2>1, <1>c DEF FoundPaid, Finishing, At
  <2>4. s \in 1..MaxSessions
    BY <2>3, <1>e
  <2>5. next.session = s /\ next.pc = "mirror" /\ next.read = finish[f].read
    BY <1>a DEF FinishType
  <2> HIDE DEF s, next
  <2>6. x.v = sub[s].v /\ x.status = sub[s].status /\ x.counts = sub[s].counts /\ x.org
    BY <2>4, <1>a DEF SubType
  <2>a. Snapshot(s, x).of = s
    BY DEF Snapshot
  <2> HIDE DEF x
  <2>7. Len(session') <= MaxSessions /\ \A t : Bought(t)' <=> Bought(t)
    BY <2>1, <1>f
  <2>8. sub'[s] = x /\ \A t \in 1..MaxSessions \ {s} : sub'[t] = sub[t]
    BY <2>1, <2>4, <1>a
  <2>9. ASSUME NEW t \in 1..MaxSessions PROVE Newer(t)
    <3>1. CASE t = s
      BY <3>1, <2>6, <2>8, <1>d DEF Newer
    <3>2. CASE t # s
      BY <3>2, <2>8, <1>d DEF Newer
    <3> QED
      BY <3>1, <3>2
  <2>10. \A t \in 1..MaxSessions : ~Bought(t)' => sub'[t] = NoSub
    BY <2>3, <2>7, <2>8, <1>c
  <2>11. (\A i \in DOMAIN events : Bought(events[i].of))'
    <3>1. ASSUME NEW i \in DOMAIN events' PROVE events'[i].of = s \/ Bought(events'[i].of)
      <4> DEFINE e == Snapshot(s, x)
      <4> HIDE DEF e
      <4>2. e.of = s /\ (events' = events \/ events' = Append(events, e))
        BY <2>2, <2>a DEF e, x
      <4>3. CASE events' = events
        BY <4>3, <1>c
      <4>4. CASE events' = Append(events, e)
        BY <4>2, <4>4, <1>a, <1>c
      <4> QED
        BY <4>2, <4>3, <4>4
    <3>2. \A i \in DOMAIN events' : LET t == events'[i].of IN t = s \/ Bought(t)
      BY <3>1
    <3> QED
      BY <3>2, <2>3, <2>7
  <2>12. finish'[f] = next /\ \A g \in Finishers \ {f} : finish'[g] = finish[g]
    BY <2>1, <1>a
  <2>13. Reads(f)'
    BY <2>3, <2>5, <2>6, <2>8, <2>12 DEF Reads, s
  <2>14. FoundPaid(f)'
    BY <2>3, <2>5, <2>6, <2>7, <2>8, <2>12, <2>13 DEF FoundPaid
  <2> QED
    BY <2>1, <2>7, <2>9, <2>10, <2>11, <2>12, <2>14, <1>b, PaidFrom
<1>13. ASSUME NEW f \in Finishers, Mirror(f) PROVE ToldOfPaid'
  <2> DEFINE s == finish[f].session
  <2>1. UNCHANGED <<sub, events, session>> /\ At(f, "mirror") /\ finish' = [finish EXCEPT ![f] = NoFinish]
        /\ whole' = IF finish[f].warned THEN whole ELSE whole \cup {s}
    BY <1>13 DEF Mirror, subVars, saleVars
  <2>2. Bought(s) /\ (~finish[f].warned => sub[s].org)
    BY <2>1, <1>c DEF FoundPaid, Finishing, At
  <2> HIDE DEF s
  <2>3. \A t \in whole' : t \in whole \/ (Bought(t)' /\ sub'[t].org)
    BY <2>1, <2>2, <1>f
  <2>4. FoundPaid(f)'
    <3>1. finish'[f].pc = "idle"
      BY <2>1, <1>a DEF NoFinish
    <3> QED
      BY <3>1 DEF FoundPaid, Finishing
  <2> QED
    BY <2>1, <2>3, <2>4, <1>6
<1>14. ASSUME NEW f \in Finishers, StepFails(f) PROVE ToldOfPaid'
  <2> DEFINE reads == [finish[f] EXCEPT !.pc = "read", !.warned = TRUE]
             mirrors == [finish[f] EXCEPT !.pc = "mirror", !.warned = TRUE]
  <2>1. UNCHANGED <<sub, events, session, whole>>
    BY <1>14 DEF StepFails, subVars, saleVars
  <2>2. \/ (At(f, "look") \/ At(f, "attach")) /\ finish' = [finish EXCEPT ![f] = reads]
        \/ At(f, "stamp") /\ finish' = [finish EXCEPT ![f] = mirrors]
        \/ finish' = [finish EXCEPT ![f] = NoFinish]
    BY <1>14 DEF StepFails, Warns
  <2>3. /\ reads.session = finish[f].session /\ reads.pc = "read"
        /\ mirrors.session = finish[f].session /\ mirrors.pc = "mirror"
        /\ mirrors.warned /\ mirrors.read = finish[f].read
    BY <1>a DEF FinishType
  <2> HIDE DEF reads, mirrors
  <2>4. CASE (At(f, "look") \/ At(f, "attach")) /\ finish' = [finish EXCEPT ![f] = reads]
    BY <2>1, <2>3, <2>4, <1>8
  <2>5. CASE At(f, "stamp") /\ finish' = [finish EXCEPT ![f] = mirrors]
    <3>1. Bought(finish[f].session) /\ Reads(f)
      BY <2>5, <1>c DEF FoundPaid, Finishing, At
    <3>2. finish'[f] = mirrors
      BY <2>5, <1>a
    <3>3. Reads(f)'
      BY <3>1, <3>2, <2>1, <2>3 DEF Reads
    <3>4. FoundPaid(f)'
      BY <3>1, <3>2, <3>3, <2>1, <2>3, <1>f DEF FoundPaid
    <3> QED
      BY <2>1, <2>5, <3>4, <1>6
  <2>6. CASE finish' = [finish EXCEPT ![f] = NoFinish]
    <3>1. finish'[f].pc = "idle"
      BY <2>6, <1>a DEF NoFinish
    <3>2. FoundPaid(f)'
      BY <3>1 DEF FoundPaid, Finishing
    <3> QED
      BY <2>1, <2>6, <3>2, <1>6
  <2> QED
    BY <2>2, <2>4, <2>5, <2>6
<1>15. CASE OthersBuyNothing
  BY <1>15, NothingBought DEF OthersBuyNothing, RecordVars
<1> QED
  BY <1>1, <1>3, <1>4, <1>5, <1>7, <1>9, <1>10, <1>11, <1>12, <1>13, <1>14, <1>15, OnlyRecordActs DEF RecordActs

(* What the record is left with. *)

LEMMA MirrorTyped ==
  ASSUME PurchaseInv, [Next]_vars PROVE MirrorType'
<1>a. MirrorType
  BY DEF PurchaseInv, PurchaseTypes
<1>b. events \in Seq(EventType) /\ finish \in [Finishers -> FinishType]
  BY DEF PurchaseInv, PurchaseTypes, RecordTypes
<1>1. CASE HandleEvent
  <2> DEFINE e == Head(events)
             ended == [record EXCEPT !.of = 0, !.v = e.v, !.status = "canceled"]
             kept == [of |-> e.of, v |-> e.v, status |-> e.status, counts |-> e.counts]
  <2>1. events # <<>> /\ (record' = record \/ record' = ended \/ record' = kept)
    BY <1>1 DEF HandleEvent, Mirrored
  <2>2. e \in EventType
    BY <2>1, <1>b, HeadTailProperties
  <2> HIDE DEF e
  <2>3. ended \in [of : Nat, v : Nat, status : SubStatuses, counts : CountsType]
    BY <2>2, <1>a DEF EventType, MirrorType, SubStatuses
  <2>4. kept \in [of : Nat, v : Nat, status : SubStatuses, counts : CountsType]
    BY <2>2 DEF EventType
  <2> HIDE DEF ended, kept
  <2> QED
    BY <2>1, <2>3, <2>4, <1>a DEF MirrorType
<1>2. ASSUME NEW f \in Finishers, Mirror(f) PROVE MirrorType'
  <2>1. record' = [of |-> finish[f].session, v |-> finish[f].read.v, status |-> finish[f].read.status,
                   counts |-> finish[f].read.counts]
    BY <1>2 DEF Mirror
  <2>2. finish[f].read \in SubType /\ finish[f].session \in Nat
    BY <1>b DEF FinishType
  <2> DEFINE x == finish[f].read
  <2> HIDE DEF x
  <2>3. x.v \in Nat /\ x.status \in SubStatuses /\ x.counts \in CountsType
    BY <2>2 DEF SubType, x
  <2>4. record' = [of |-> finish[f].session, v |-> x.v, status |-> x.status, counts |-> x.counts]
    BY <2>1 DEF x
  <2> QED
    BY <2>2, <2>3, <2>4 DEF MirrorType
<1>3. CASE \E s \in 1..MaxSessions : Pay(s) \/ SeatsChange(s) \/ StatusChanges(s)
  <2>1. UNCHANGED record
    BY <1>3, ZenonT(60) DEF Pay, SeatsChange, StatusChanges, Changes, mirrorVars
  <2> QED
    BY <2>1, <1>a, SMTT(60) DEF MirrorType
<1>4. CASE \E f \in Finishers : \/ \E p \in Processes, s \in 1..MaxSessions : BeginFinish(f, p, s)
                                \/ LookAtPointer(f) \/ Attach(f) \/ ReadSub(f) \/ Stamp(f) \/ StepFails(f)
  <2>1. UNCHANGED record
    BY <1>4 DEF BeginFinish, LookAtPointer, Attach, ReadSub, Stamp, StepFails
  <2> QED
    BY <2>1, <1>a DEF MirrorType
<1>5. CASE OthersBuyNothing
  BY <1>5, <1>a DEF OthersBuyNothing, RecordVars, MirrorType
<1> QED
  BY <1>1, <1>2, <1>3, <1>4, <1>5, OnlyRecordActs DEF RecordActs

LEMMA NewestStep ==
  ASSUME PurchaseInv, [Next]_vars PROVE NewestWaits'
<1>a. /\ sub \in [1..MaxSessions -> SubType] /\ events \in Seq(EventType)
      /\ finish \in [Finishers -> FinishType] /\ session \in Seq(SessionType)
  BY DEF PurchaseInv, PurchaseTypes, SessionTypes, RecordTypes
<1>b. NewestWaits
  BY DEF PurchaseInv
<1>c. /\ \A s \in 1..MaxSessions : ~Bought(s) => sub[s] = NoSub
      /\ \A f \in Finishers : FoundPaid(f)
  BY DEF PurchaseInv, ToldOfPaid
<1>d. \A s \in 1..MaxSessions : sub[s].v \in Nat
  BY <1>a DEF SubType
<1>e. \A s : Bought(s) => s \in 1..MaxSessions
  <2> SUFFICES ASSUME NEW s, Bought(s) PROVE s \in 1..MaxSessions
    OBVIOUS
  <2>1. s \in DOMAIN session /\ MaxSessions \in Nat /\ Len(session) <= MaxSessions
    BY PurchaseAssumption DEF Bought, PurchaseInv, ToldOfPaid
  <2> QED
    BY <2>1, <1>a
<1>f. ASSUME NEW s \in 1..MaxSessions, NEW x, Bought(s)', sub' = [sub EXCEPT ![s] = x],
             events' = Append(events, Snapshot(s, x))
      PROVE  NewestWaits'
  <2> SUFFICES ASSUME NEW t \in 1..MaxSessions, OnlyBought(t)' PROVE NewestTold(t)'
    BY DEF NewestWaits
  <2>1. t = s
    BY <1>f DEF OnlyBought, Bought
  <2> DEFINE e == Snapshot(s, x)
  <2> HIDE DEF e
  <2>2. events' = Append(events, e)
    BY <1>f DEF e
  <2>3. events' # <<>> /\ events'[Len(events')] = e
    BY <2>2, <1>a
  <2>4. Snapshot(t, sub[t])' = e
    <3>1. sub'[t] = x
      BY <2>1, <1>f, <1>a
    <3> QED
      BY <2>1, <3>1 DEF Snapshot, e
  <2> QED
    BY <2>3, <2>4 DEF NewestTold
<1>g. ASSUME UNCHANGED <<sub, events, record, told, overtaken>>, \A s : Bought(s)' <=> Bought(s)
      PROVE  NewestWaits'
  <2> SUFFICES ASSUME NEW t \in 1..MaxSessions, OnlyBought(t)', sub'[t].org PROVE NewestTold(t)'
    BY DEF NewestWaits
  <2>1. OnlyBought(t)
    BY <1>g DEF OnlyBought, Bought
  <2>2. NewestTold(t)
    BY <2>1, <1>b, <1>g DEF NewestWaits
  <2> QED
    BY <2>2, <1>g DEF NewestTold, Recorded, Snapshot, Mirrored
<1>1. ASSUME NEW s \in 1..MaxSessions, Pay(s) PROVE NewestWaits'
  <2>1. PICK x : sub' = [sub EXCEPT ![s] = x] /\ events' = Append(events, Snapshot(s, x))
    BY <1>1 DEF Pay
  <2> DEFINE paid == [session[s] EXCEPT !.status = "complete"]
  <2>2. s \in DOMAIN session /\ session' = [session EXCEPT ![s] = paid]
    BY <1>1 DEF Pay
  <2>3. paid.status = "complete"
    <3>1. session[s] \in SessionType
      BY <2>2, <1>a
    <3> QED
      BY <3>1 DEF SessionType
  <2> HIDE DEF paid
  <2>4. Bought(s)'
    BY <2>2, <2>3, <1>a DEF Bought
  <2> QED
    BY <2>1, <2>4, <1>f
<1>2. ASSUME NEW s \in 1..MaxSessions, SeatsChange(s) \/ StatusChanges(s) PROVE NewestWaits'
  <2>1. PICK x : Changes(s, x)
    BY <1>2 DEF SeatsChange, StatusChanges
  <2>2. /\ sub' = [sub EXCEPT ![s] = x] /\ events' = Append(events, Snapshot(s, x)) /\ sub[s].status # "none"
        /\ UNCHANGED session
    BY <2>1 DEF Changes, saleVars
  <2>3. Bought(s)'
    BY <2>2, <1>c DEF NoSub, Bought
  <2> QED
    BY <2>2, <2>3, <1>f
<1>3. CASE HandleEvent
  <2> DEFINE e == Head(events)
  <2>1. /\ UNCHANGED <<sub, session, overtaken>> /\ events # <<>> /\ events' = Tail(events)
        /\ told' = IF e.org THEN e.v ELSE told
    BY <1>3 DEF HandleEvent, saleVars
  <2>2. (e.org /\ e.status = "canceled" => record' = [record EXCEPT !.of = 0, !.v = e.v, !.status = "canceled"])
        /\ (e.org /\ e.status # "canceled" => record' = Mirrored(e))
    BY <1>3 DEF HandleEvent
  <2> SUFFICES ASSUME NEW t \in 1..MaxSessions, OnlyBought(t)', sub'[t].org PROVE NewestTold(t)'
    BY DEF NewestWaits
  <2>3. OnlyBought(t) /\ sub[t].org
    BY <2>1 DEF OnlyBought, Bought
  <2> DEFINE latest == Snapshot(t, sub[t])
  <2>4. events[Len(events)] = latest
    BY <2>1, <2>3, <1>b DEF NewestWaits, NewestTold
  <2>5. latest' = latest /\ latest.of = t /\ latest.v = sub[t].v /\ latest.status = sub[t].status
        /\ latest.counts = sub[t].counts /\ latest.org = sub[t].org
    BY <2>1 DEF Snapshot
  <2>6. CASE Len(events) = 1
    <3>1. e = latest /\ events' = <<>>
      <4> HIDE DEF latest
      <4> QED
        BY <2>1, <2>4, <2>6, <1>a, HeadTailProperties
    <3>2. e.org /\ told' = sub'[t].v
      BY <2>1, <2>3, <2>5, <3>1
    <3>3. Recorded(t)'
      <4>1. CASE sub[t].status = "canceled"
        <5>1. record' = [record EXCEPT !.of = 0, !.v = e.v, !.status = "canceled"]
          BY <4>1, <3>1, <3>2, <2>2, <2>5
        <5>2. record'.status = "canceled"
          BY <5>1 DEF PurchaseInv, PurchaseTypes, MirrorType
        <5> QED
          BY <4>1, <5>2, <2>1 DEF Recorded
      <4>2. CASE sub[t].status # "canceled"
        <5>1. record' = Mirrored(latest)
          BY <4>2, <3>1, <3>2, <2>2, <2>5
        <5> QED
          BY <4>2, <5>1, <2>1 DEF Recorded, Mirrored, Snapshot
      <4> QED
        BY <4>1, <4>2
    <3> QED
      BY <3>1, <3>2, <3>3 DEF NewestTold
  <2>7. CASE Len(events) # 1
    <3> HIDE DEF latest
    <3>1. events' # <<>> /\ events'[Len(events')] = latest
      <4>1. /\ Tail(events) \in Seq(EventType) /\ Len(Tail(events)) = Len(events) - 1
            /\ \A i \in 1..Len(Tail(events)) : Tail(events)[i] = events[i + 1]
        BY <2>1, <1>a, HeadTailProperties
      <4>2. Len(events) \in Nat /\ Len(events) > 1
        <5>1. events \in Seq(EventType) /\ events # <<>>
          BY <2>1, <1>a
        <5>2. Len(events) \in Nat \ {0}
          BY <5>1, EmptySeq
        <5>3. \A n \in Nat \ {0} : n # 1 => n \in Nat /\ n > 1
          OBVIOUS
        <5> QED
          BY <5>2, <5>3, <2>7, Zenon
      <4> DEFINE n == Len(events) - 1
      <4>3. n \in 1..Len(Tail(events)) /\ n + 1 = Len(events)
        BY <4>1, <4>2
      <4>4. Tail(events)[n] = events[Len(events)]
        BY <4>1, <4>3
      <4>5. Tail(events) # <<>>
        <5>1. Len(Tail(events)) # 0
          BY <4>3
        <5>2. Len(<<>>) = 0
          BY EmptySeq
        <5> QED
          BY <5>1, <5>2
      <4> HIDE DEF n
      <4> QED
        BY <2>1, <2>4, <4>1, <4>4, <4>5 DEF n
    <3>2. events'[Len(events')] = latest'
      BY <3>1, <2>5
    <3> QED
      BY <3>1, <3>2 DEF NewestTold, latest
  <2> QED
    BY <2>6, <2>7
<1>4. CASE \E f \in Finishers : \/ \E p \in Processes, s \in 1..MaxSessions : BeginFinish(f, p, s)
                                \/ LookAtPointer(f) \/ Attach(f) \/ ReadSub(f) \/ StepFails(f)
  <2>1. UNCHANGED <<sub, events, record, told, overtaken, session>>
    BY <1>4 DEF BeginFinish, LookAtPointer, Attach, ReadSub, StepFails, saleVars, subVars
  <2>2. \A s : Bought(s)' <=> Bought(s)
    BY <2>1 DEF Bought
  <2> QED
    BY <2>1, <2>2, <1>g, SMTT(60)
<1>5. ASSUME NEW f \in Finishers, Stamp(f) PROVE NewestWaits'
  <2> DEFINE s == finish[f].session
             x == [sub[s] EXCEPT !.org = TRUE]
  <2>1. /\ At(f, "stamp") /\ sub' = [sub EXCEPT ![s] = x] /\ UNCHANGED <<session, record, told, overtaken>>
        /\ events' = IF sub[s].org THEN events ELSE Append(events, Snapshot(s, x))
    BY <1>5 DEF Stamp, saleVars
  <2>2. Bought(s)
    BY <2>1, <1>c DEF FoundPaid, Finishing, At
  <2>3. s \in 1..MaxSessions /\ \A t : Bought(t)' <=> Bought(t)
    BY <2>1, <2>2, <1>e DEF Bought
  <2>4. sub[s] \in SubType
    BY <2>3, <1>a
  <2>5. sub[s].org => x = sub[s]
    <3> HIDE DEF s
    <3> QED
      BY <2>4 DEF SubType
  <2> HIDE DEF s, x
  <2>6. CASE sub[s].org
    <3>1. UNCHANGED <<sub, events>>
      BY <2>1, <2>3, <2>5, <2>6, <1>a
    <3> QED
      BY <3>1, <2>1, <2>3, <1>g
  <2>7. CASE ~sub[s].org
    BY <2>1, <2>2, <2>3, <2>7, <1>f
  <2> QED
    BY <2>6, <2>7
<1>6. ASSUME NEW f \in Finishers, Mirror(f) PROVE NewestWaits'
  <2> DEFINE s == finish[f].session
             x == finish[f].read
  <2>1. /\ At(f, "mirror") /\ UNCHANGED <<sub, events, session, told>> /\ overtaken' = (told > x.v)
        /\ record' = [of |-> s, v |-> x.v, status |-> x.status, counts |-> x.counts]
    BY <1>6 DEF Mirror, saleVars, subVars
  <2>2. Bought(s) /\ Reads(f) /\ x \in SubType
    BY <2>1, <1>a, <1>c DEF FoundPaid, Finishing, At, FinishType
  <2>3. s \in 1..MaxSessions /\ x.v \in Nat
    BY <2>2, <1>e DEF SubType
  <2> SUFFICES ASSUME NEW t \in 1..MaxSessions, OnlyBought(t)', sub'[t].org PROVE NewestTold(t)'
    BY DEF NewestWaits
  <2>4. OnlyBought(t) /\ t = s
    BY <2>1, <2>2 DEF OnlyBought, Bought
  <2>5. NewestTold(t)
    BY <2>1, <2>4, <1>b DEF NewestWaits
  <2>6. x.v <= sub[s].v /\ (x.v = sub[s].v => x.status = sub[s].status /\ x.counts = sub[s].counts)
    BY <2>2 DEF Reads
  <2> HIDE DEF s, x
  <2>7. CASE events # <<>>
    BY <2>1, <2>5, <2>7 DEF NewestTold, Snapshot
  <2>8. CASE events = <<>>
    <3>1. told = sub[t].v
      BY <2>5, <2>8 DEF NewestTold
    <3>2. ASSUME ~overtaken' PROVE Recorded(t)'
      <4>1. x.v = sub[s].v
        <5>1. ~(told > x.v)
          BY <2>1, <3>2
        <5> QED
          BY <2>3, <2>4, <2>6, <3>1, <5>1, <1>d
      <4>2. record' = [of |-> t, v |-> sub[t].v, status |-> sub[t].status, counts |-> sub[t].counts]
        BY <2>1, <2>4, <2>6, <4>1
      <4> QED
        BY <2>1, <4>2 DEF Recorded, Mirrored, Snapshot
    <3> QED
      BY <2>1, <2>8, <3>1, <3>2 DEF NewestTold
  <2> QED
    BY <2>7, <2>8
<1>7. CASE OthersBuyNothing
  BY <1>7, <1>g DEF OthersBuyNothing, RecordVars
<1> QED
  BY <1>1, <1>2, <1>3, <1>4, <1>5, <1>6, <1>7, OnlyRecordActs DEF RecordActs

(* The purchase, for every step. *)

LEMMA PurchaseBegins ==
  ASSUME Init PROVE PurchaseInv
<1>a. /\ scene \in Scenes /\ calls = [kind \in {"buys", "finishes", "welcomes"} |-> 0]
      /\ buyer = [b \in Buyers |-> AtRest] /\ cache = [p \in Processes |-> {}]
      /\ session = <<>> /\ sub = [s \in 1..MaxSessions |-> NoSub] /\ events = <<>>
      /\ finish = [f \in Finishers |-> NoFinish] /\ welcome = [w \in Welcomers |-> NoWelcome]
      /\ customers \in 0..1 /\ pointer = customers /\ credited = <<>> /\ keyHolder = 0
      /\ record = NoRecord /\ told = 0 /\ whole = {} /\ overtaken = FALSE
  BY DEF Init
<1>b. Scenes \subseteq SceneType /\ MaxSessions \in Nat /\ MaxCustomers \in Nat
  BY PurchaseAssumption
<1>c. NoFinish \in FinishType /\ NoFinish.pc = "idle"
  <2> DEFINE unread == [NoSub EXCEPT !.status = "unread"]
  <2>1. unread \in SubType
    BY DEF NoSub, SubType, SubStatuses, CountsType
  <2>2. NoFinish = [pc |-> "idle", session |-> 0, look |-> 0, read |-> unread, warned |-> FALSE]
    BY DEF NoFinish
  <2> HIDE DEF unread
  <2> QED
    BY <2>1, <2>2 DEF FinishType
<1>d. NoWelcome.pc = "idle" /\ NoWelcome \in [pc : {"idle", "create", "credit", "point"}, customer : Nat]
  BY DEF NoWelcome
<1>1. MoneyTypes
  <2>1. scene \in SceneType /\ customers \in Nat /\ pointer \in Nat /\ credited \in Seq(Nat) /\ keyHolder \in Nat
    BY <1>a, <1>b
  <2>2. calls \in [{"buys", "finishes", "welcomes"} -> Nat]
    BY <1>a
  <2>3. welcome \in [Welcomers -> [pc : {"idle", "create", "credit", "point"}, customer : Nat]]
    BY <1>a, <1>d
  <2> QED
    BY <2>1, <2>2, <2>3 DEF MoneyTypes
<1>2. SessionTypes
  <2>1. AtRest \in BuyerType
    <3>1. NoAsk \in AskType
      BY <1>b DEF NoAsk, AskType
    <3> QED
      BY <3>1 DEF AtRest, BuyerType
  <2>2. buyer \in [Buyers -> BuyerType] /\ cache \in [Processes -> SUBSET KeptType]
    BY <1>a, <2>1
  <2>3. session \in Seq(SessionType)
    BY <1>a
  <2> QED
    BY <2>2, <2>3 DEF SessionTypes
<1>3. RecordTypes
  <2>1. NoSub \in SubType
    BY DEF NoSub, SubType, SubStatuses, CountsType
  <2>2. sub \in [1..MaxSessions -> SubType] /\ finish \in [Finishers -> FinishType]
    BY <1>a, <1>c, <2>1
  <2>3. events \in Seq(EventType)
    BY <1>a, EmptySeq
  <2>4. overtaken \in BOOLEAN
    BY <1>a
  <2> QED
    BY <2>2, <2>3, <2>4 DEF RecordTypes
<1>4. MirrorType
  BY <1>a DEF NoRecord, MirrorType, SubStatuses, CountsType
<1>5. (\A f \in Finishers : finish[f].pc = "idle") /\ (\A w \in Welcomers : welcome[w].pc = "idle")
  BY <1>a, <1>c, <1>d
<1>6. PointersInTurn
  BY <1>5 DEF PointersInTurn, Finishing, Welcoming, At
<1>7. OneLetThrough
  BY <1>5 DEF OneLetThrough, Welcoming, At
<1>8. CreditedOnce
  BY <1>a DEF CreditedOnce
<1>9. ToldOfPaid
  <2>1. DOMAIN session = {} /\ DOMAIN events = {} /\ Len(session) = 0
    BY <1>a
  <2>2. \A s : ~Bought(s)
    BY <2>1 DEF Bought
  <2>3. \A s \in 1..MaxSessions : sub[s] = NoSub
    BY <1>a
  <2>4. \A f \in Finishers : FoundPaid(f)
    BY <1>5 DEF FoundPaid, Finishing
  <2> QED
    BY <2>1, <2>3, <2>4, <1>a, <1>b DEF ToldOfPaid
<1>10. NewestWaits
  <2>1. \A s : ~Bought(s)
    BY <1>a DEF Bought
  <2> QED
    BY <2>1, SMTT(60) DEF NewestWaits, OnlyBought
<1> QED
  BY <1>1, <1>2, <1>3, <1>4, <1>6, <1>7, <1>8, <1>9, <1>10 DEF PurchaseInv, PurchaseTypes

LEMMA PurchaseKept ==
  ASSUME PurchaseInv, [StorefrontNext]_<<vars, taxingVars>> PROVE PurchaseInv' /\ [Next]_vars
<1>1. [Next]_vars
  BY DEF StorefrontNext
<1>2. PurchaseTypes'
  BY <1>1, MoneyTyped, SessionsTyped, RecordsTyped, MirrorTyped DEF PurchaseTypes
<1> QED
  BY <1>1, <1>2, PointersStep, LetThroughStep, CreditedStep, PaidStep, NewestStep DEF PurchaseInv

\* A purchase is what it seems: calls that write the workspace's customer one at a
\* time find none before they do; of those that overlap the welcome credit's key lets
\* one through; what events tell and completions read is of a paid session and no
\* newer than its subscription; and the newest of it waits to be told, or is recorded.
THEOREM PurchaseIsSound == StorefrontSpec => []PurchaseInv
<1>1. StorefrontInit => PurchaseInv
  BY PurchaseBegins DEF StorefrontInit
<1>2. PurchaseInv /\ [StorefrontNext]_<<vars, taxingVars>> => PurchaseInv'
  BY PurchaseKept
<1> QED
  BY <1>1, <1>2, PTL DEF StorefrontSpec

LEMMA PointerActs ==
  ASSUME [Next]_vars
  PROVE  UNCHANGED scene /\ (UNCHANGED pointer \/ (\E f \in Finishers : Attach(f)) \/ \E w \in Welcomers : Point(w))
<1>1. CASE \E b \in Buyers : \/ \E p \in Processes, ask \in Asks : Request(b, p, ask)
                             \/ NewCustomer(b) \/ OpenSession(b) \/ OpenFails(b) \/ Leaves(b)
  BY <1>1, ZenonT(60) DEF Request, NewCustomer, OpenSession, OpenFails, Leaves, moneyVars
<1>2. CASE \E p \in Processes : Ages(p) \/ Restart(p) \/ \E s \in 1..MaxSessions : Expire(p, s)
  BY <1>2 DEF Ages, Restart, Expire, moneyVars
<1>3. CASE (\E s \in 1..MaxSessions : Pay(s) \/ SeatsChange(s) \/ StatusChanges(s)) \/ HandleEvent
  BY <1>3, ZenonT(60) DEF Pay, SeatsChange, StatusChanges, Changes, HandleEvent, moneyVars
<1>4. CASE \E f \in Finishers : \/ \E p \in Processes, s \in 1..MaxSessions : BeginFinish(f, p, s)
                                \/ LookAtPointer(f) \/ ReadSub(f) \/ Stamp(f) \/ Mirror(f) \/ StepFails(f)
  BY <1>4, ZenonT(60) DEF BeginFinish, LookAtPointer, ReadSub, Stamp, Mirror, StepFails, moneyVars
<1>5. CASE (\E w \in Welcomers : BeginWelcome(w) \/ CreateCustomer(w) \/ GrantWelcome(w) \/ WelcomeEnds(w))
           \/ ForgetsKey
  BY <1>5 DEF BeginWelcome, CreateCustomer, GrantWelcome, WelcomeEnds, ForgetsKey, moneyVars
<1>6. CASE UNCHANGED vars
  BY <1>6 DEF vars, moneyVars
<1>7. ASSUME NEW f \in Finishers, Attach(f) PROVE UNCHANGED scene
  BY <1>7 DEF Attach
<1>8. ASSUME NEW w \in Welcomers, Point(w) PROVE UNCHANGED scene
  BY <1>8 DEF Point
<1> QED
  BY <1>1, <1>2, <1>3, <1>4, <1>5, <1>6, <1>7, <1>8 DEF Next

LEMMA CustomerStays ==
  ASSUME PurchaseInv, [Next]_vars
  PROVE  LET alone == scene.finishes = 0 /\ scene.free IN
         /\ (scene.serial \/ alone) /\ pointer # 0 => pointer' = pointer
         /\ ~Rejects("dies") => Len(credited') <= 1
         /\ alone /\ pointer' # pointer => pointer' = Last(credited)
<1> DEFINE alone == scene.finishes = 0 /\ scene.free
<1>1. UNCHANGED scene /\ (UNCHANGED pointer \/ (\E f \in Finishers : Attach(f)) \/ \E w \in Welcomers : Point(w))
  BY PointerActs
<1>2. ~Rejects("dies") => Len(credited') <= 1
  BY <1>1, CreditedStep DEF CreditedOnce, Rejects
<1>3. PointersInTurn /\ OneLetThrough
  BY DEF PurchaseInv
<1>4. ASSUME NEW f \in Finishers, Attach(f) PROVE (scene.serial => pointer = 0) /\ ~alone
  <2>1. At(f, "attach")
    BY <1>4 DEF Attach
  <2>2. scene.serial => pointer = 0
    BY <2>1, <1>3 DEF PointersInTurn
  <2>3. scene.finishes # 0
    BY <2>1, <1>3 DEF OneLetThrough, At
  <2> QED
    BY <2>2, <2>3
<1>5. ASSUME NEW w \in Welcomers, Point(w)
      PROVE  (scene.serial => pointer = 0) /\ (alone => pointer = 0 /\ pointer' = Last(credited))
  <2>1. welcome[w].pc = "point" /\ pointer' = welcome[w].customer
    BY <1>5 DEF Point
  <2>2. scene.serial => pointer = 0
    BY <2>1, <1>3 DEF PointersInTurn, Welcoming
  <2>3. alone => pointer = 0 /\ Last(credited) = welcome[w].customer
    BY <2>1, <1>3 DEF OneLetThrough
  <2> QED
    BY <2>1, <2>2, <2>3
<1>6. (scene.serial \/ alone) /\ pointer # 0 => pointer' = pointer
  BY <1>1, <1>4, <1>5
<1>7. alone /\ pointer' # pointer => pointer' = Last(credited)
  BY <1>1, <1>4, <1>5
<1> QED
  BY <1>2, <1>6, <1>7

\* A workspace keeps the customer it points at where the calls that write it run one
\* at a time, and where those that overlap are all ensureStripeCustomer with a
\* welcome credit, which is granted once and to the customer the workspace is left
\* with (complete-checkout.ts, ensureStripeCustomer in billing.ts).
THEOREM CustomerKept == StorefrontSpec => CustomerIsKept
<1>1. PurchaseInv /\ [StorefrontNext]_<<vars, taxingVars>> =>
        [LET alone == scene.finishes = 0 /\ scene.free IN
         /\ (scene.serial \/ alone) /\ pointer # 0 => pointer' = pointer
         /\ ~Rejects("dies") => Len(credited') <= 1
         /\ alone /\ pointer' # pointer => pointer' = Last(credited)]_vars
  BY PurchaseKept, CustomerStays
<1> QED
  BY <1>1, PurchaseIsSound, PTL DEF StorefrontSpec, CustomerIsKept

LEMMA RecordFollows ==
  ASSUME PurchaseInv PROVE BoughtIsRecorded
<1> SUFFICES ASSUME NEW s \in whole, Quiet, ~overtaken,
                    \A t \in DOMAIN session : session[t].status = "complete" => t = s
             PROVE  Recorded(s)
  BY DEF BoughtIsRecorded, Recorded
<1>1. Bought(s) /\ sub[s].org
  BY DEF PurchaseInv, ToldOfPaid
<1>2. OnlyBought(s)
  BY <1>1 DEF OnlyBought, Bought
<1>3. s \in 1..MaxSessions
  <2>1. s \in DOMAIN session /\ MaxSessions \in Nat /\ Len(session) <= MaxSessions /\ session \in Seq(SessionType)
    BY <1>1, PurchaseAssumption DEF Bought, PurchaseInv, ToldOfPaid, PurchaseTypes, SessionTypes
  <2> QED
    BY <2>1
<1>4. NewestTold(s)
  BY <1>1, <1>2, <1>3 DEF PurchaseInv, NewestWaits
<1> QED
  BY <1>4 DEF NewestTold, Quiet

\* Once a purchase was completed without a warning, the workspace's record follows
\* its subscription: its organization is stamped, so that no later event is dropped
\* and the newest one waits or has been recorded, unless a completion wrote what it
\* had read before a newer event was handled (completeCheckout in complete-checkout.ts,
\* the subscription events of sync.ts).
THEOREM BoughtRecorded == StorefrontSpec => []BoughtIsRecorded
<1>1. PurchaseInv => BoughtIsRecorded
  BY RecordFollows
<1> QED
  BY <1>1, PurchaseIsSound, PTL

-----------------------------------------------------------------------------
(* The storefront. *)

LEMMA AccountAtRest ==
  ASSUME AccountTypes, KeepInv, UNCHANGED accountVars
  PROVE  AccountTypes' /\ KeepInv'
<1>1. /\ accountScene' = accountScene /\ address' = address /\ taxIds' = taxIds /\ madeIds' = madeIds
      /\ cards' = cards /\ default' = default /\ rank' = rank /\ moment' = moment
      /\ chore' = chore /\ chores' = chores /\ saved' = saved
  BY DEF accountVars
<1>2. AccountTypes'
  BY <1>1 DEF AccountTypes
<1>3. OneAtATime' /\ IdsAreTold'
  BY <1>1 DEF KeepInv, OneAtATime, Calling, IdsAreTold, TaxIdCall
<1>4. KeepsAnId' = KeepsAnId /\ InPairs' = InPairs /\ OneByOne' = OneByOne
  BY <1>1, SceneOfIds, SceneOfCards
<1>5. InPairsMade'
  BY <1>1, <1>4 DEF KeepInv, InPairsMade, Made, MayMake
<1>6. OneSurvives'
  BY <1>1, <1>4 DEF KeepInv, OneSurvives
<1>7. CardsAreOnFile'
  BY <1>1 DEF KeepInv, CardsAreOnFile, Announces
<1>8. DefaultAwaited'
  BY <1>1, <1>4 DEF KeepInv, DefaultAwaited, Awaits, Announces, Sees, Attached, MayDetach
<1> QED
  BY <1>2, <1>3, <1>5, <1>6, <1>7, <1>8 DEF KeepInv

LEMMA TaxInvInit ==
  ASSUME AccountTypes, TaxingInit
  PROVE  TaxInv
<1>1. /\ taxScene \in TaxSceneType /\ charge = [c \in Sales |-> NewSale(c)] /\ now = 0 /\ openRate = <<>>
      /\ verified = [p \in Servers |-> [vat \in Vats |-> 0]] /\ stood = [vat \in Vats |-> 0]
      /\ standing = taxScene.confirmed
  <2>1. PICK d \in Deployments : taxScene = d.tax
    BY DEF TaxingInit
  <2>2. d.tax \in TaxSceneType
    BY TaxingAssumption
  <2> QED
    BY <2>1, <2>2 DEF TaxingInit
<1>2. \A c \in Sales : IsCharge(charge[c]) /\ charge[c].pc = "idle" /\ charge[c].kind = "charge"
  BY <1>1, NewSaleIs
<1>3. charge = [c \in Sales |-> charge[c]]
  BY <1>1
<1>4. verified \in [Servers -> [Vats -> Nat]] /\ stood \in [Vats -> Nat] /\ now \in Nat
  BY <1>1
<1>5. TaxTypes
  BY <1>1, <1>2, <1>3, <1>4 DEF TaxTypes
<1>6. VerifiedOnce
  BY <1>1 DEF VerifiedOnce
<1>7. AskedIfItMatters /\ DecidedIfBilled
  BY <1>2 DEF AskedIfItMatters, DecidedIfBilled
<1>8. WritersInTurn /\ SessionFollows
  BY <1>1, <1>2 DEF WritersInTurn, SessionFollows, Writes, Stage
<1> QED
  BY <1>5, <1>6, <1>7, <1>8 DEF TaxInv

LEMMA TaxingStep ==
  ASSUME StorefrontInv, TaxingNext
  PROVE  StorefrontInv'
<1> USE DEF StorefrontInv, TaxInv
<1>1. AccountTypes' /\ KeepInv'
  <2>1. ASSUME AccountStep PROVE AccountTypes' /\ KeepInv'
    BY <2>1, AccountTypesStep, OneAtATimeStep, IdsStep, WalletStep DEF KeepInv, Wallet
  <2>2. CASE ~AccountStep
    <3>1. UNCHANGED accountVars
      BY <2>2, ZenonT(60) DEF TaxingNext, BeginCharge, BeginRetax, AskAccount, ReadCustomer, AnswerVies, ListRates,
                  MintRate, RateFails, WriteSession, Invalidate, Withdraw, Tick
    <3> QED
      BY <3>1, AccountAtRest, SMTT(60)
  <2> QED
    BY <2>1, <2>2
<1>2. taxScene' = taxScene
  BY ChargesStep
<1>3. /\ charge' = [c \in Sales |-> charge'[c]] /\ \A c \in Sales : IsCharge(charge'[c])
      /\ AskedIfItMatters' /\ DecidedIfBilled'
  BY ChargesStaySound
<1>4. MemoryTypes' /\ VerifiedOnce'
  BY MemoryStep
<1>5. WritersInTurn' /\ SessionFollows'
  BY SessionStep DEF InTurn
<1>6. TaxTypes'
  BY <1>2, <1>3, <1>4 DEF TaxTypes, MemoryTypes, IsCharge
<1> QED
  BY <1>1, <1>2, <1>3, <1>4, <1>5, <1>6

LEMMA StorefrontAtRest ==
  ASSUME StorefrontInv, UNCHANGED taxingVars
  PROVE  StorefrontInv'
<1>1. UNCHANGED accountVars /\ UNCHANGED taxVars
  BY DEF taxingVars
<1>2. AccountTypes' /\ KeepInv'
  BY <1>1, AccountAtRest DEF StorefrontInv
<1>3. TaxTypes'
  BY <1>1 DEF StorefrontInv, TaxInv, TaxTypes, IsCharge, taxVars
<1>4. VerifiedOnce'
  BY <1>1 DEF StorefrontInv, TaxInv, VerifiedOnce, taxVars
<1>5. AskedIfItMatters' /\ DecidedIfBilled'
  BY <1>1 DEF StorefrontInv, TaxInv, AskedIfItMatters, DecidedIfBilled, IsDecided, Tax, taxVars
<1>6. WritersInTurn' /\ SessionFollows'
  BY <1>1 DEF StorefrontInv, TaxInv, WritersInTurn, SessionFollows, Writes, Stage, taxVars
<1> QED
  BY <1>2, <1>3, <1>4, <1>5, <1>6 DEF StorefrontInv, TaxInv

\* Every state the storefront reaches: what the account and the charges are made of,
\* what was confirmed and what was decided.
THEOREM StorefrontIsSound == StorefrontSpec => []StorefrontInv
<1>1. StorefrontInit => StorefrontInv
  <2>1. StorefrontInit => TaxingInit /\ AccountInit
    BY DEF StorefrontInit, TaxingInit
  <2> QED
    BY <2>1, AccountTypesInit, KeepInvInit, TaxInvInit DEF StorefrontInv
<1>2. StorefrontInv /\ [StorefrontNext]_<<vars, taxingVars>> => StorefrontInv'
  BY TaxingStep, StorefrontAtRest DEF StorefrontNext
<1> QED
  BY <1>1, <1>2, PTL DEF StorefrontSpec

\* What a customer has on file survives the edits of it: a tax id, whatever is refused
\* or left half done, after calls that follow one another or two at once that save new
\* numbers (setCustomerTaxId); and a default card, after calls that follow one another
\* (attachedPaymentMethod, detachPaymentMethod, prunePaymentMethods).
THEOREM AccountKept == StorefrontSpec => []AccountIsKept
<1>1. StorefrontInv => AccountIsKept
  BY KeptByInv DEF StorefrontInv
<1> QED
  BY <1>1, StorefrontIsSound, PTL

\* A seller who says where it is registered collects there, at that country's rate,
\* and nowhere it could not remit: whatever the customer changes while charges are
\* decided, and whichever process, cache or shared lookup the rate comes from
\* (resolveTax and sellerTax in tax.ts, taxFor in create-billing.ts).
THEOREM ChargedRight == StorefrontSpec => []ChargedAsRegistered
<1>1. StorefrontInv => ChargedAsRegistered
  BY BilledIsAsRegistered DEF StorefrontInv, TaxInv
<1> QED
  BY <1>1, StorefrontIsSound, PTL

\* While one request is answered before the next, an open session carries the tax of
\* the last that succeeded (retaxCheckoutSession and the session's opening).
THEOREM SessionIsCurrent == StorefrontSpec => []SessionFollows
<1>1. StorefrontInv => SessionFollows
  BY DEF StorefrontInv, TaxInv
<1> QED
  BY <1>1, StorefrontIsSound, PTL

\* A sale is reverse-charged only across a border, on a number of the customer's own
\* country that VIES confirmed and that stood until less than a day ago, however it
\* is spelled and whichever process, memory or outage stands between (resolveTax,
\* isValidVatNumber and its cache).
THEOREM ReverseChargeIsEarned == StorefrontSpec => ReverseIsConfirmed
<1>1. StorefrontInv /\ [StorefrontNext]_<<vars, taxingVars>>
        => [\A c \in Sales : charge'[c].decision.reverse /\ ~charge[c].decision.reverse => Confirmed(c)]_taxingVars
  BY ReverseStep DEF StorefrontNext, StorefrontInv, TaxInv
<1> QED
  BY <1>1, StorefrontIsSound, PTL DEF StorefrontSpec, ReverseIsConfirmed
=============================================================================
