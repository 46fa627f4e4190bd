------------------------------ MODULE Account ------------------------------
(***************************************************************************)
(* The customer's billing account at Stripe: the address on its invoices,  *)
(* its tax ids, its cards and which of them is the default. Calls change   *)
(* it by requests of their own: read, decide, write.                       *)
(***************************************************************************)
EXTENDS TaxRules, Sequences
LOCAL INSTANCE SequencesExt

CONSTANTS
    Holders,        \* calls that change the account
    Cards,          \* cards a browser may save
    Numbers,        \* tax numbers that may be entered
    Countries, States,
    MaxCards,       \* what prune leaves
    MaxChores,      \* bound: calls begun
    AccountScenes

NoCard == "no card"
NoLine == "no line"
Lines == {"street", "avenue"}
\* A field a patch leaves alone.
Keep == "keep"

Chore(kind) == [kind |-> kind, card |-> NoCard, number |-> NoNumber, line |-> Keep, country |-> Keep]
ChoreType == [kind : {"address", "taxId", "attached", "chosen", "default", "detach", "prune", "touch"},
              card : Cards \cup {NoCard}, number : Numbers \cup {NoNumber},
              line : Lines \cup {Keep}, country : Countries \cup {Keep}]
\* cards, numbers: what is on file at first, newest first. saves: cards saved later.
AccountSceneType ==
    [chores : SUBSET ChoreType, count : 0..MaxChores, serial : BOOLEAN, saves : SUBSET Cards,
     cards : Seq(Cards), numbers : Seq(Numbers), address : [line : Lines \cup {NoLine}, country : Countries \cup {NoCountry}],
     faults : SUBSET {"stripe", "dies"}]
Distinct(list) == \A i, j \in DOMAIN list : list[i] = list[j] => i = j
ASSUME AccountAssumption ==
    /\ MaxCards \in Nat /\ MaxChores \in Nat
    /\ NoCard \notin Cards /\ NoNumber \notin Numbers /\ NoCountry \notin Countries /\ Unstated \notin States
    /\ AccountScenes \subseteq AccountSceneType
    /\ \A s \in AccountScenes : Distinct(s.cards) /\ Distinct(s.numbers)

VARIABLES
    accountScene,
    address,    \* of the customer; no line stands for none
    taxIds,     \* the customer's tax ids, newest first
    madeIds,    \* tax ids made so far
    cards,      \* the customer's cards, newest first
    default,    \* invoice_settings.default_payment_method
    rank,       \* rank[card]: when it was last charged, or made; 0 before
    moment,     \* when a card was last charged, or made
    chore,      \* chore[h]: where the call is, and what it has read
    chores,     \* calls begun
    saved       \* cards a browser has saved and no call has been told of

accountVars == <<accountScene, address, taxIds, madeIds, cards, default, rank, moment, chore, chores, saved>>

-----------------------------------------------------------------------------
Idle == [pc |-> "idle", ask |-> Chore("touch"), line |-> NoLine, country |-> NoCountry,
         ids |-> <<>>, doomed |-> {}, got |-> {}, default |-> NoCard, cards |-> <<>>, todo |-> <<>>]
Doing(h, pc) == chore[h].pc = pc
Becomes(h, next) == chore' = [chore EXCEPT ![h] = next]
StripeFails == "stripe" \in accountScene.faults
Attached(card) == card \in ToSet(cards)
NoChore == \A h \in Holders : Doing(h, "idle")

\* Where a call begins that acts on a card: with a look at the cards, or at its owner.
First(ask) ==
    CASE ask.kind = "address" -> "read"
      [] ask.kind = "taxId" -> "list"
      [] ask.kind \in {"attached", "chosen", "prune"} -> "look"
      [] ask.kind \in {"default", "detach"} -> "own"
      [] ask.kind = "touch" -> "touch"

\* A saved card is announced by the application once.
Begin(h, ask) ==
    /\ Doing(h, "idle") /\ chores < accountScene.count
    /\ accountScene.serial => NoChore
    /\ ask.kind \in {"attached", "chosen"} => ask.card \in saved
    /\ Becomes(h, [Idle EXCEPT !.pc = First(ask), !.ask = ask])
    /\ chores' = chores + 1
    /\ saved' = IF ask.kind \in {"attached", "chosen"} THEN saved \ {ask.card} ELSE saved
    /\ UNCHANGED <<accountScene, address, taxIds, madeIds, cards, default, rank, moment>>

-----------------------------------------------------------------------------
\* set_billing_profile: Stripe takes an address whole, so a patch is laid over the
\* one on file, which is read first.
ReadAddress(h) ==
    /\ Doing(h, "read")
    /\ LET ask == chore[h].ask
           line == IF ask.line = Keep THEN address.line ELSE ask.line
           country == IF ask.country = Keep THEN address.country ELSE ask.country
       IN  Becomes(h, IF NoLine = line \/ NoCountry = country THEN Idle
                      ELSE [chore[h] EXCEPT !.pc = "write", !.line = line, !.country = country])
    /\ UNCHANGED <<accountScene, address, taxIds, madeIds, cards, default, rank, moment, chores, saved>>

WriteAddress(h) ==
    /\ Doing(h, "write")
    /\ address' = [line |-> chore[h].line, country |-> chore[h].country]
    /\ Becomes(h, Idle)
    /\ UNCHANGED <<accountScene, taxIds, madeIds, cards, default, rank, moment, chores, saved>>

-----------------------------------------------------------------------------
\* setCustomerTaxId: list what is there; then create, and delete the others. A value
\* that is there already is kept; an empty one deletes them all.
ListTaxIds(h) ==
    /\ Doing(h, "list")
    /\ LET number == chore[h].ask.number
           same == {i \in DOMAIN taxIds : taxIds[i].number = number}
       IN  Becomes(h, IF number = NoNumber
                      THEN [chore[h] EXCEPT !.pc = "delete", !.doomed = {taxIds[i].id : i \in DOMAIN taxIds}]
                      ELSE IF same # {}
                      THEN [chore[h] EXCEPT !.pc = "delete",
                               !.doomed = {taxIds[i].id : i \in DOMAIN taxIds \ same}]
                      ELSE [chore[h] EXCEPT !.pc = "create", !.ids = taxIds])
    /\ UNCHANGED <<accountScene, address, taxIds, madeIds, cards, default, rank, moment, chores, saved>>

\* (mutant of CreateTaxId)
DeleteThenCreate(h) ==
    /\ Doing(h, "create")
    /\ LET number == chore[h].ask.number
       IN  \/ /\ number.formed
              /\ madeIds' = madeIds + 1
              /\ taxIds' = <<[id |-> madeIds + 1, number |-> number]>>
              /\ Becomes(h, Idle)
           \/ /\ ~number.formed
              /\ taxIds' = <<>> /\ Becomes(h, Idle)
              /\ UNCHANGED madeIds
    /\ UNCHANGED <<accountScene, address, cards, default, rank, moment, chores, saved>>

\* Stripe refuses a value of the wrong form, and one the customer has.
CreateTaxId(h) ==
    /\ Doing(h, "create")
    /\ LET number == chore[h].ask.number
           taken == \E i \in DOMAIN taxIds : taxIds[i].number = number
       IN  \/ /\ number.formed /\ ~taken
              /\ madeIds' = madeIds + 1
              /\ taxIds' = <<[id |-> madeIds + 1, number |-> number]>> \o taxIds
              /\ Becomes(h, [chore[h] EXCEPT !.pc = "delete",
                                !.doomed = {chore[h].ids[i].id : i \in DOMAIN chore[h].ids}])
           \/ /\ ~number.formed \/ taken
              /\ Becomes(h, Idle)
              /\ UNCHANGED <<taxIds, madeIds>>
    /\ UNCHANGED <<accountScene, address, cards, default, rank, moment, chores, saved>>

\* The deletions are sent together: each is answered on its own, and one that is
\* refused or fails does not stop the others.
DeleteTaxId(h) ==
    /\ Doing(h, "delete")
    /\ IF chore[h].doomed = {} THEN Becomes(h, Idle) /\ UNCHANGED taxIds
       ELSE \E id \in chore[h].doomed :
              /\ Becomes(h, [chore[h] EXCEPT !.doomed = @ \ {id}])
              /\ \/ \E i \in DOMAIN taxIds : taxIds[i].id = id /\ taxIds' = RemoveAt(taxIds, i)
                 \/ StripeFails /\ UNCHANGED taxIds
                 \/ id \notin {taxIds[i].id : i \in DOMAIN taxIds} /\ UNCHANGED taxIds
    /\ UNCHANGED <<accountScene, address, madeIds, cards, default, rank, moment, chores, saved>>

-----------------------------------------------------------------------------
\* listPaymentMethods asks for the customer and for its cards at once, and the two
\* are answered in either order.
LookAtDefault(h) ==
    /\ Doing(h, "look") /\ "default" \notin chore[h].got
    /\ Becomes(h, [chore[h] EXCEPT !.got = @ \cup {"default"}, !.default = default])
    /\ UNCHANGED <<accountScene, address, taxIds, madeIds, cards, default, rank, moment, chores, saved>>
LookAtCards(h) ==
    /\ Doing(h, "look") /\ "cards" \notin chore[h].got
    /\ Becomes(h, [chore[h] EXCEPT !.got = @ \cup {"cards"}, !.cards = cards])
    /\ UNCHANGED <<accountScene, address, taxIds, madeIds, cards, default, rank, moment, chores, saved>>

\* attachedPaymentMethod: the first card becomes the default, asked for or not.
Announced(h) ==
    /\ Doing(h, "look") /\ chore[h].got = {"default", "cards"} /\ chore[h].ask.kind \in {"attached", "chosen"}
    /\ Becomes(h, IF chore[h].ask.kind = "chosen" \/ ToSet(chore[h].cards) \subseteq {chore[h].ask.card}
                  THEN [chore[h] EXCEPT !.pc = "own"] ELSE Idle)
    /\ UNCHANGED <<accountScene, address, taxIds, madeIds, cards, default, rank, moment, chores, saved>>

\* detachPaymentMethod: the default goes only as the last card.
MayDetach(h) == chore[h].default = chore[h].ask.card => Len(chore[h].cards) <= 1

Looked(h) ==
    /\ Doing(h, "look") /\ chore[h].got = {"default", "cards"} /\ chore[h].ask.kind = "detach"
    /\ Becomes(h, IF MayDetach(h) THEN [chore[h] EXCEPT !.pc = "detach"] ELSE Idle)
    /\ UNCHANGED <<accountScene, address, taxIds, madeIds, cards, default, rank, moment, chores, saved>>

\* prunePaymentMethods: too many cards lose the stalest that are not the default,
\* each by a detach of its own. A card never charged ranks by when it was made.
Pruned(h) ==
    /\ Doing(h, "look") /\ chore[h].got = {"default", "cards"} /\ chore[h].ask.kind = "prune"
    /\ LET kept == ToSet(chore[h].cards) \ {chore[h].default}
       IN  \/ (Len(chore[h].cards) <= MaxCards \/ kept = {}) /\ Becomes(h, Idle)
           \/ \E n \in 1..Len(chore[h].cards) : \E order \in [1..n -> kept] :
                 /\ n + MaxCards <= Len(chore[h].cards)
                 /\ \A i, j \in 1..n : i < j => rank[order[i]] < rank[order[j]]
                 /\ \A card \in kept \ ToSet(order) : n + MaxCards = Len(chore[h].cards) /\ rank[order[n]] < rank[card]
                 /\ Becomes(h, [Idle EXCEPT !.pc = "own", !.todo = Tail(order),
                                            !.ask = [Chore("detach") EXCEPT !.card = Head(order)]])
    /\ UNCHANGED <<accountScene, address, taxIds, madeIds, cards, default, rank, moment, chores, saved>>

\* assertOwned: a card that is not the customer's is refused.
CheckOwner(h) ==
    /\ Doing(h, "own")
    /\ Becomes(h, IF ~Attached(chore[h].ask.card) THEN Idle
                  ELSE IF chore[h].ask.kind = "detach" THEN [chore[h] EXCEPT !.pc = "look", !.got = {}]
                  ELSE [chore[h] EXCEPT !.pc = "set"])
    /\ UNCHANGED <<accountScene, address, taxIds, madeIds, cards, default, rank, moment, chores, saved>>

SetDefault(h) ==
    /\ Doing(h, "set")
    /\ default' = IF Attached(chore[h].ask.card) THEN chore[h].ask.card ELSE default
    /\ Becomes(h, Idle)
    /\ UNCHANGED <<accountScene, address, taxIds, madeIds, cards, rank, moment, chores, saved>>

\* Stripe promotes no other card. A prune goes on with its next one.
Detach(h) ==
    /\ Doing(h, "detach")
    /\ LET card == chore[h].ask.card
       IN  /\ \/ \E i \in DOMAIN cards : cards[i] = card /\ cards' = RemoveAt(cards, i)
              \/ ~Attached(card) /\ UNCHANGED cards
           /\ default' = IF default = card THEN NoCard ELSE default
           /\ Becomes(h, IF chore[h].todo = <<>> \/ ~Attached(card) THEN Idle
                         ELSE [chore[h] EXCEPT !.pc = "own", !.todo = Tail(@),
                                               !.ask.card = Head(chore[h].todo)])
    /\ UNCHANGED <<accountScene, address, taxIds, madeIds, rank, moment, chores, saved>>

Touch(h) ==
    /\ Doing(h, "touch")
    /\ rank' = [rank EXCEPT ![chore[h].ask.card] = moment + 1] /\ moment' = moment + 1
    /\ Becomes(h, Idle)
    /\ UNCHANGED <<accountScene, address, taxIds, madeIds, cards, default, chores, saved>>

-----------------------------------------------------------------------------
\* A request fails and the call throws, or the process dies: nothing more is sent.
\* The deletions are on their way when one of them fails.
GivesUp(h) ==
    /\ ~Doing(h, "idle")
    /\ "dies" \in accountScene.faults \/ (StripeFails /\ ~Doing(h, "delete"))
    /\ Becomes(h, Idle)
    /\ UNCHANGED <<accountScene, address, taxIds, madeIds, cards, default, rank, moment, chores, saved>>

\* A browser confirms a SetupIntent, and Stripe attaches the card.
SaveCard(card) ==
    /\ card \in accountScene.saves /\ rank[card] = 0
    /\ cards' = <<card>> \o cards /\ saved' = saved \cup {card}
    /\ rank' = [rank EXCEPT ![card] = moment + 1] /\ moment' = moment + 1
    /\ UNCHANGED <<accountScene, address, taxIds, madeIds, default, chore, chores>>

AccountInit ==
    /\ accountScene \in AccountScenes
    /\ address = accountScene.address
    /\ LET numbers == accountScene.numbers
       IN  taxIds = [i \in DOMAIN numbers |-> [id |-> 1 + Len(numbers) - i, number |-> numbers[i]]]
    /\ madeIds = Len(taxIds)
    /\ cards = accountScene.cards
    /\ default = IF cards = <<>> THEN NoCard ELSE Head(cards)
    /\ rank = [card \in Cards |-> IF Attached(card) THEN 1 + Len(cards) - (CHOOSE i \in DOMAIN cards : cards[i] = card) ELSE 0]
    /\ moment = Len(cards)
    /\ chore = [h \in Holders |-> Idle] /\ chores = 0 /\ saved = {}

AccountStep ==
    \/ \E h \in Holders :
          \/ \E ask \in accountScene.chores : Begin(h, ask)
          \/ ReadAddress(h) \/ WriteAddress(h)
          \/ ListTaxIds(h) \/ CreateTaxId(h) \/ DeleteTaxId(h)
          \/ LookAtDefault(h) \/ LookAtCards(h) \/ Announced(h) \/ Looked(h) \/ Pruned(h)
          \/ CheckOwner(h) \/ SetDefault(h) \/ Detach(h) \/ Touch(h)
          \/ GivesUp(h)
    \/ \E card \in Cards : SaveCard(card)
=============================================================================
