------------------------------ MODULE TaxRules ------------------------------
(***************************************************************************)
(* What tax a sale carries, worked out locally: whose rate applies, or     *)
(* nobody's, from where the seller is established and registered and where *)
(* the customer is; and the Stripe rate that says so on the invoice.       *)
(***************************************************************************)
EXTENDS Naturals

CONSTANTS
    EUMembers,      \* member states, in the dataset's spelling
    StandardRate    \* the dataset: a percentage for each country it covers
ASSUME TaxRulesAssumption ==
    /\ EUMembers \subseteq DOMAIN StandardRate
    /\ StandardRate \in [DOMAIN StandardRate -> Nat]
    /\ "GR" \in EUMembers => "EL" \notin EUMembers

Anywhere == "anywhere"      \* a registration that is not narrowed to a state
Unstated == "unstated"      \* an address that carries no state
NoCountry == "none"
Place(country, state) == [country |-> country, state |-> state]

\* A VAT number: its two letters, the rest, and whether the rest has the form its
\* country gives it.
NoNumber == [prefix |-> NoCountry, digits |-> 0, formed |-> FALSE]

\* Greece files VAT under EL and is GR in an address: both spellings are one number.
ParseVat(number) ==
    IF number.prefix \in {"EL", "GR"}
    THEN [vat |-> [number EXCEPT !.prefix = "EL"], country |-> "GR", formed |-> number.formed]
    ELSE [vat |-> number, country |-> number.prefix, formed |-> number.formed]

\* The countries a number on file says its customer is in: at most one.
EuVatCountry(number) == {number.prefix} \cap EUMembers

\* The local checks a number passes before VIES is asked about it.
WorthAsking(number, place) ==
    LET parsed == ParseVat(number)
    IN  number # NoNumber /\ parsed.country = place.country /\ parsed.formed

-----------------------------------------------------------------------------
\* A declaration: where the seller is established, whether it says where it is
\* registered and where that is, the One-Stop Shop, and the wording it supplies.
TaxType(countries, states) ==
    [origin : countries, declared : BOOLEAN,
     registrations : SUBSET [country : countries, state : states \cup {Anywhere}],
     oss : BOOLEAN, notes : SUBSET {"exempt", "reverse"}]

IsRegisteredIn(registrations, place) ==
    \E r \in registrations : r.country = place.country /\ r.state \in {Anywhere, place.state}

MayReverse(tax, place) == place.country \in EUMembers /\ place.country # tax.origin

\* The country whose rate applies: at most one.
RatedAt(tax, place) ==
    LET crossBorderToEU == MayReverse(tax, place)
        due(at, otherwise) == IF tax.declared THEN IsRegisteredIn(tax.registrations, at) ELSE otherwise
        withinEU == tax.origin \in EUMembers /\ crossBorderToEU
        nonUnion == tax.origin \notin EUMembers /\ crossBorderToEU
    IN  {country \in {tax.origin, place.country} :
           IF withinEU
           THEN IF tax.oss THEN country = place.country
                ELSE country = tax.origin /\ due(Place(tax.origin, Unstated), TRUE)
           ELSE country = place.country /\ (nonUnion \/ due(place, place.country = tax.origin))}

\* verified: the number is this country's and VIES confirmed it.
ResolveTax(tax, place, verified) ==
    LET reverse == MayReverse(tax, place) /\ verified
        rated == RatedAt(tax, place)
        known == (IF reverse THEN {place.country} ELSE rated) \cap DOMAIN StandardRate
    IN  [reverse |-> reverse, country |-> place.country,
         approximate |-> ~reverse /\ rated # known, outOfScope |-> ~reverse /\ rated = {},
         name |-> IF known = {} THEN NoCountry ELSE CHOOSE country \in known : TRUE,
         percent |-> IF reverse \/ known = {} THEN 0 ELSE StandardRate[CHOOSE country \in known : TRUE]]

\* The wording a decision must carry, if the seller supplied any.
NoteFor(decision, notes) ==
    {note \in notes : note = IF decision.reverse THEN "reverse" ELSE "exempt"}
        \cap (IF decision.reverse \/ decision.percent = 0 THEN notes ELSE {})

\* What identifies the Stripe rate of a decision; nothing when a sale is untaxed and
\* there is nothing to say. A rate that states the seller's exemption has no country.
RateNamed(decision, notes) ==
    LET note == NoteFor(decision, notes)
        untaxed == decision.percent = 0 /\ ~decision.reverse
        name == IF note # {} THEN CHOOSE n \in note : TRUE
                ELSE IF decision.reverse THEN "Reverse charge" ELSE decision.name
    IN  IF untaxed /\ note = {} THEN {}
        ELSE {[country |-> IF untaxed THEN NoCountry ELSE decision.country,
               percent |-> decision.percent, name |-> name]}

-----------------------------------------------------------------------------
\* What a seller knows about itself, and the declaration it stands for: leaving its
\* own country out of the registrations is how a domestic exemption is said.
RegimeType(countries, states) ==
    [country : countries, vatRegistered : BOOLEAN, oss : BOOLEAN,
     alsoCollectIn : SUBSET [country : countries, state : states \cup {Anywhere}],
     notes : SUBSET {"exempt", "reverse"}]

\* (mutant of SellerRegime)
RegimeAtHomeAnyway(regime) ==
    [origin |-> regime.country, declared |-> TRUE,
     registrations |-> {Place(regime.country, Anywhere)} \cup regime.alsoCollectIn,
     oss |-> regime.oss, notes |-> regime.notes]
SellerRegime(regime) ==
    [origin |-> regime.country, declared |-> TRUE,
     registrations |-> (IF regime.vatRegistered THEN {Place(regime.country, Anywhere)} ELSE {})
                         \cup regime.alsoCollectIn,
     oss |-> regime.oss, notes |-> regime.notes]
=============================================================================
