------------------------------- MODULE Taxing -------------------------------
(***************************************************************************)
(* What tax is put on a charge: charges and open Checkout Sessions ask     *)
(* where the seller is, where the customer is and whether its VAT number   *)
(* stands, in processes that remember the answers, while the customer      *)
(* edits its account; and the Stripe rate that says the result is found or *)
(* minted. Every request is a step of its own.                             *)
(***************************************************************************)
EXTENDS Account
LOCAL INSTANCE SequencesExt

CONSTANTS
    Sales,        \* charges, session openings and re-taxings
    Servers,
    ServedBy,       \* the process a charge runs in
    Ttl,            \* how long a confirmed VAT number is not asked about again
    MaxTime, MaxCharges,    \* bounds
    TaxScenes,
    Deployments     \* a deployment of the account with one of the charges

Vats == {ParseVat(number).vat : number \in Numbers}
\* seller: what it knows of itself. stated: it declared that; if not, only where it
\* is. hook: what its own resolver answers, if it has one. origin: it names its
\* country. typed: places and numbers a customer types into an open session.
\* confirmed: the numbers VIES confirms at first. withdraws: one may be withdrawn.
TaxSceneType ==
    [mode : {"local", "stripe", "none"}, hook : {"none", "empty", "rates"}, origin : BOOLEAN, stated : BOOLEAN,
     seller : RegimeType(Countries, States), kinds : SUBSET {"charge", "open", "retax"}, count : 0..MaxCharges,
     typed : SUBSET ([country : Countries, state : States \cup {Unstated}] \X (Numbers \cup {NoNumber})),
     confirmed : SUBSET Vats, withdraws : BOOLEAN, forgets : BOOLEAN, serial : BOOLEAN, time : 0..MaxTime,
     faults : SUBSET {"account", "customer", "vies", "rates", "lost"}]
ASSUME TaxingAssumption ==
    /\ ServedBy \in [Sales -> Servers] /\ Ttl \in Nat \ {0} /\ MaxTime \in Nat /\ MaxCharges \in Nat
    /\ TaxScenes \subseteq TaxSceneType /\ Deployments \subseteq [account : AccountScenes, tax : TaxScenes]

VARIABLES
    taxScene,
    rates,      \* the account's active tax rates at Stripe
    home,       \* home[p]: the account's country, once p has read it
    verified,   \* verified[p][vat]: until when p takes the number as confirmed
    found,      \* found[p]: the ids p has resolved, by what identifies the rate
    asking,     \* rates a process is resolving: its callers share one lookup
    charge,     \* charge[c]: where it is, what it read, and what it decided
    charges,    \* charges begun
    openRate,    \* the open Checkout Session: its lines' rate, 0 for none
    standing,   \* numbers VIES confirms now
    now,
    stood,      \* ghost, stood[vat]: when a withdrawn number was last confirmed
    newest      \* ghost: the last charge begun that writes the session

taxVars == <<taxScene, rates, home, verified, found, asking, charge, charges, openRate, standing, now, stood, newest>>
taxingVars == <<accountVars, taxVars>>

-----------------------------------------------------------------------------
Tax == IF taxScene.stated THEN SellerRegime(taxScene.seller)
       ELSE [origin |-> taxScene.seller.country, declared |-> FALSE, registrations |-> {},
             oss |-> taxScene.seller.oss, notes |-> taxScene.seller.notes]

Undecided == [reverse |-> FALSE, country |-> NoCountry, approximate |-> FALSE, outOfScope |-> FALSE,
              name |-> NoCountry, percent |-> 0]
NewSale(c) == [pc |-> "idle", kind |-> "charge", process |-> ServedBy[c],
            place |-> Place(NoCountry, Unstated), number |-> NoNumber, decision |-> Undecided, rate |-> 0]
Fault(fault) == fault \in taxScene.faults
Stage(c, pc) == charge[c].pc = pc
Ended == {"idle", "automatic", "hook", "untaxed", "refused", "failed", "billed"}
Resting == \A c \in Sales : charge[c].pc \in Ended

\* What identifies a decision's rate in a process, and its lookup.
KeyOf(call) == [named |-> RateNamed(call.decision, Tax.notes), reverse |-> call.decision.reverse]
Lookup(call) == [process |-> call.process, key |-> KeyOf(call)]
Cached(call) == {f \in found[call.process] : f.key = KeyOf(call)}

\* Where a charge goes that knows its rate: into a session, or to its end.
Carrying(call, rate) ==
    [call EXCEPT !.rate = rate, !.pc = IF call.kind = "charge" THEN "billed" ELSE "session"]

Joins(call) == Lookup(call) \in asking

\* taxRatesFor, once the number is confirmed or not: decide, refuse to guess, and
\* find the rate in the process's memory, in another caller's lookup, or by a lookup.
Decides(c, call, confirmed) ==
    LET decided == [call EXCEPT !.decision = ResolveTax(Tax, call.place, confirmed)]
        next == IF decided.decision.approximate THEN [decided EXCEPT !.pc = "refused"]
                ELSE IF RateNamed(decided.decision, Tax.notes) = {} THEN Carrying(decided, 0)
                ELSE IF Cached(decided) # {} THEN Carrying(decided, (CHOOSE f \in Cached(decided) : TRUE).id)
                ELSE [decided EXCEPT !.pc = IF Joins(decided) THEN "joining" ELSE "list"]
    IN  /\ charge' = [charge EXCEPT ![c] = next]
        /\ asking' = IF next.pc = "list" THEN asking \cup {Lookup(next)} ELSE asking

\* (mutant of Remembers)
RemembersForever(process, vat) == verified[process][vat] > 0
Remembers(process, vat) == verified[process][vat] > now

\* VIES is asked about a number only if it could decide the sale and is not known.
Placed(c, call) ==
    IF MayReverse(Tax, call.place) /\ WorthAsking(call.number, call.place)
    THEN IF Remembers(call.process, ParseVat(call.number).vat) THEN Decides(c, call, TRUE)
         ELSE charge' = [charge EXCEPT ![c] = [call EXCEPT !.pc = "vies"]] /\ UNCHANGED asking
    ELSE Decides(c, call, FALSE)

\* taxFor: the seller's own resolver wins; then the declared mode.
BeginCharge(c, kind) ==
    /\ Stage(c, "idle") /\ charges < taxScene.count /\ kind \in taxScene.kinds \ {"retax"}
    /\ kind = "open" => openRate = <<>> /\ \A d \in Sales : charge[d].kind # "open"
    /\ taxScene.serial => Resting
    /\ LET call == [NewSale(c) EXCEPT !.kind = kind]
       IN  charge' = [charge EXCEPT ![c] =
              CASE taxScene.hook = "rates" -> [call EXCEPT !.pc = "hook"]
                [] taxScene.hook # "rates" /\ taxScene.mode = "stripe" -> [call EXCEPT !.pc = "automatic"]
                [] taxScene.hook # "rates" /\ taxScene.mode = "none" -> [call EXCEPT !.pc = "untaxed"]
                [] OTHER -> [call EXCEPT !.pc = IF taxScene.origin \/ home[ServedBy[c]] # {} THEN "customer" ELSE "account"]]
    /\ charges' = charges + 1 /\ newest' = IF kind = "open" THEN c ELSE newest
    /\ UNCHANGED <<taxScene, rates, home, verified, found, asking, openRate, standing, now, stood, accountVars>>

\* The browser asks for an open session to be taxed again, for what was typed.
BeginRetax(c, typed) ==
    /\ Stage(c, "idle") /\ charges < taxScene.count /\ "retax" \in taxScene.kinds /\ openRate # <<>>
    /\ taxScene.serial => Resting
    /\ Placed(c, [NewSale(c) EXCEPT !.kind = "retax", !.place = typed[1], !.number = typed[2]])
    /\ charges' = charges + 1 /\ newest' = c
    /\ UNCHANGED <<taxScene, rates, home, verified, found, openRate, standing, now, stood, accountVars>>

\* originFor: a failure is not remembered, and the charge goes out untaxed.
AskAccount(c) ==
    /\ Stage(c, "account")
    /\ \/ /\ home' = [home EXCEPT ![charge[c].process] = {taxScene.seller.country}]
          /\ charge' = [charge EXCEPT ![c].pc = "customer"]
       \/ /\ Fault("account") /\ charge' = [charge EXCEPT ![c].pc = "untaxed"] /\ UNCHANGED home
    /\ UNCHANGED <<taxScene, rates, verified, found, asking, charges, openRate, standing, now, stood, newest, accountVars>>

\* customerPlaceOfSupply. Without an address, the country of the VAT number; without
\* either, or without an answer, the seller's own. The customer's state may be any.
OnFile == IF taxIds = <<>> THEN NoNumber ELSE Head(taxIds).number
ReadCustomer(c) ==
    /\ Stage(c, "customer")
    /\ \/ LET from == IF address.country # NoCountry THEN {address.country} ELSE EuVatCountry(OnFile)
          IN  \E state \in States \cup {Unstated} :
                 Placed(c, [charge[c] EXCEPT !.number = OnFile,
                    !.place = Place(IF from = {} THEN Tax.origin ELSE CHOOSE country \in from : TRUE, state)])
       \/ Fault("customer") /\ Placed(c, [charge[c] EXCEPT !.place = Place(Tax.origin, Unstated)])
    /\ UNCHANGED <<taxScene, rates, home, verified, found, charges, openRate, standing, now, stood, newest, accountVars>>

\* isValidVatNumber: only a confirmation is remembered; no answer is no confirmation.
AnswerVies(c) ==
    /\ Stage(c, "vies")
    /\ LET vat == ParseVat(charge[c].number).vat
       IN  \/ /\ vat \in standing /\ Decides(c, charge[c], TRUE)
              /\ verified' = [verified EXCEPT ![charge[c].process][vat] = now + Ttl]
           \/ /\ vat \notin standing \/ Fault("vies")
              /\ Decides(c, charge[c], FALSE) /\ UNCHANGED verified
    /\ UNCHANGED <<taxScene, rates, home, found, charges, openRate, standing, now, stood, newest, accountVars>>

-----------------------------------------------------------------------------
\* ensureStripeTaxRate. The caller that looks a rate up answers all who joined it.
Sharers(c) == {d \in Sales : d = c \/ (Stage(d, "joining") /\ Lookup(charge[d]) = Lookup(charge[c]))}
Resolves(c, id) ==
    /\ charge' = [d \in Sales |-> IF d \in Sharers(c) THEN Carrying(charge[d], id) ELSE charge[d]]
    /\ found' = [found EXCEPT ![charge[c].process] = @ \cup {[key |-> KeyOf(charge[c]), id |-> id]}]
    /\ asking' = asking \ {Lookup(charge[c])}

Named(c) == CHOOSE rate \in KeyOf(charge[c]).named : TRUE
ListRates(c) ==
    /\ Stage(c, "list")
    /\ LET there == {i \in DOMAIN rates : rates[i] = Named(c)}
       IN  IF there # {} THEN Resolves(c, CHOOSE i \in there : \A j \in there : j <= i)
           ELSE charge' = [charge EXCEPT ![c].pc = "mint"] /\ UNCHANGED <<found, asking>>
    /\ UNCHANGED <<taxScene, rates, home, verified, charges, openRate, standing, now, stood, newest, accountVars>>

MintRate(c) ==
    /\ Stage(c, "mint")
    /\ rates' = Append(rates, Named(c)) /\ Resolves(c, Len(rates) + 1)
    /\ UNCHANGED <<taxScene, home, verified, charges, openRate, standing, now, stood, newest, accountVars>>

\* A lookup fails for all its callers, and may have minted the rate.
RateFails(c) ==
    /\ Stage(c, "list") \/ Stage(c, "mint")
    /\ \/ Fault("rates") /\ UNCHANGED rates
       \/ Fault("lost") /\ Stage(c, "mint") /\ rates' = Append(rates, Named(c))
    /\ charge' = [d \in Sales |-> IF d \in Sharers(c) THEN [charge[d] EXCEPT !.pc = "failed"] ELSE charge[d]]
    /\ asking' = asking \ {Lookup(charge[c])}
    /\ UNCHANGED <<taxScene, home, verified, found, charges, openRate, standing, now, stood, newest, accountVars>>

\* (mutant of WriteSession)
WriteSessionRate(c) ==
    /\ Stage(c, "session")
    /\ openRate' = IF charge[c].rate = 0 /\ openRate # <<>> THEN openRate ELSE <<charge[c].rate>>
    /\ charge' = [charge EXCEPT ![c].pc = "billed"]
    /\ UNCHANGED <<taxScene, rates, home, verified, found, asking, charges, standing, now, stood, newest, accountVars>>
\* A session is opened, or its lines are re-taxed; no rate clears the one they had.
WriteSession(c) ==
    /\ Stage(c, "session")
    /\ openRate' = <<charge[c].rate>>
    /\ charge' = [charge EXCEPT ![c].pc = "billed"]
    /\ UNCHANGED <<taxScene, rates, home, verified, found, asking, charges, standing, now, stood, newest, accountVars>>

\* The escape hatches: a process forgets what it knows.
Invalidate(p) ==
    /\ taxScene.forgets
    /\ \/ found' = [found EXCEPT ![p] = {}] /\ UNCHANGED <<home, verified>>
       \/ home' = [home EXCEPT ![p] = {}] /\ UNCHANGED <<found, verified>>
       \/ verified' = [verified EXCEPT ![p] = [vat \in Vats |-> 0]] /\ UNCHANGED <<found, home>>
    /\ UNCHANGED <<taxScene, rates, asking, charge, charges, openRate, standing, now, stood, newest, accountVars>>

Withdraw(vat) ==
    /\ taxScene.withdraws /\ vat \in standing
    /\ standing' = standing \ {vat} /\ stood' = [stood EXCEPT ![vat] = now]
    /\ UNCHANGED <<taxScene, rates, home, verified, found, asking, charge, charges, openRate, now, newest, accountVars>>

Tick ==
    /\ now < taxScene.time /\ now' = now + 1
    /\ UNCHANGED <<taxScene, rates, home, verified, found, asking, charge, charges, openRate, standing, stood, newest, accountVars>>

-----------------------------------------------------------------------------
TaxingInit ==
    /\ \E d \in Deployments : accountScene = d.account /\ taxScene = d.tax
    /\ AccountInit
    /\ rates = <<>> /\ home = [p \in Servers |-> {}]
    /\ verified = [p \in Servers |-> [vat \in Vats |-> 0]]
    /\ found = [p \in Servers |-> {}] /\ asking = {}
    /\ charge = [c \in Sales |-> NewSale(c)] /\ charges = 0 /\ openRate = <<>>
    /\ standing = taxScene.confirmed /\ now = 0 /\ stood = [vat \in Vats |-> 0]
    /\ newest = CHOOSE c \in Sales : TRUE

TaxingNext ==
    \/ AccountStep /\ UNCHANGED taxVars
    \/ \E c \in Sales :
          \/ \E kind \in taxScene.kinds : BeginCharge(c, kind)
          \/ \E typed \in taxScene.typed : BeginRetax(c, typed)
          \/ AskAccount(c) \/ ReadCustomer(c) \/ AnswerVies(c)
          \/ ListRates(c) \/ MintRate(c) \/ RateFails(c) \/ WriteSession(c)
    \/ \E p \in Servers : Invalidate(p)
    \/ \E vat \in Vats : Withdraw(vat)
    \/ Tick

-----------------------------------------------------------------------------
\* A customer who had a tax id and removed none still has one, whatever is refused
\* or left half done by a process that dies, after calls that follow one another or
\* two at once that save new numbers. (A number that is on file by the time two
\* calls read the list may be kept by one and deleted by the other.)
Removals == {ask \in accountScene.chores : ask.kind = "taxId" /\ ask.number = NoNumber}
OnFileAlready == {ask \in accountScene.chores : ask.number \in ToSet(accountScene.numbers)}
TaxIdIsKept ==
    accountScene.numbers # <<>> /\ Removals = {}
       /\ (accountScene.serial \/ (OnFileAlready = {} /\ accountScene.count <= 2)) => taxIds # <<>>

\* Calls that follow one another never leave a customer with cards and no default:
\* the first card becomes it, and it goes only as the last. (Two cards saved before
\* either is announced are each not the first.)
DefaultIsKept ==
    accountScene.serial /\ accountScene.faults = {} /\ (\A a, b \in accountScene.saves : a = b) /\ NoChore /\ saved = {}
        => cards = <<>> \/ default # NoCard

\* What a customer has on file survives the edits of it.
AccountIsKept == TaxIdIsKept /\ DefaultIsKept

\* The number of the sale is of the customer's country and has lately been confirmed.
Confirmed(c) ==
    LET parsed == ParseVat(charge'[c].number)
    IN  /\ parsed.country = charge'[c].place.country /\ parsed.country # Tax.origin
        /\ parsed.vat \in taxScene.confirmed /\ (parsed.vat \in standing \/ now - stood[parsed.vat] < Ttl)

\* A sale is reverse-charged only across a border, on a number of the customer's
\* own country that VIES confirmed within the last day, however it is spelled and
\* whichever process or outage stands between.
ReverseIsConfirmed ==
    [][\A c \in Sales : charge'[c].decision.reverse /\ ~charge[c].decision.reverse => Confirmed(c)]_taxingVars

\* Where the seller collects; at home, and within the Union.
Collects(place) ==
    \/ taxScene.seller.vatRegistered /\ place.country = taxScene.seller.country
    \/ IsRegisteredIn(taxScene.seller.alsoCollectIn, place)
    \/ /\ place.country \in EUMembers \ {taxScene.seller.country}
       /\ taxScene.seller.oss \/ taxScene.seller.country \notin EUMembers
AtHome == Place(taxScene.seller.country, Unstated)
WithinUnion(place) == {place.country, taxScene.seller.country} \subseteq EUMembers
Elsewhere == ~taxScene.seller.oss /\ \E r \in taxScene.seller.alsoCollectIn : WithinUnion(r)

\* A seller who says where it is registered collects there, at that country's rate,
\* and nowhere it could not remit; but a member of the Union obliges a seller from
\* outside. (A seller of the Union without the One-Stop Shop is taken to have no
\* registration in another member state.)
ChargedAsRegistered ==
    \A c \in Sales :
       LET place == charge[c].place
       IN  taxScene.stated /\ ~Elsewhere /\ charge[c].pc = "billed" /\ ~charge[c].decision.reverse
           => charge[c].decision.percent =
                IF Collects(place) THEN StandardRate[place.country]
                ELSE IF WithinUnion(place) /\ Collects(AtHome) THEN StandardRate[AtHome.country] ELSE 0

\* While one request is answered before the next, an open session carries the tax of
\* the last that succeeded: the country typed before leaves nothing behind.
SessionFollows ==
    taxScene.serial /\ openRate # <<>> /\ charge[newest].pc = "billed" => openRate = <<charge[newest].rate>>
=============================================================================
