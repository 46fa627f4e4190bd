\* Two card purchases at the same time, nothing failing.
SPECIFICATION Spec
CONSTANTS
    Calls = {"buy", "buyAgain"}
    Keys = {"kBuy", "kBuy2"}
    KeyOf <- Keyed
    Kind <- Kinded
    Credits <- Amounts
    Scenes <- AtOnce
INVARIANTS
    PaidSaleBilledItsItem
