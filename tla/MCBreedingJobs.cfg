CONSTANTS
    member = member
    Users = {member}
    Charges = {r1, r2}
    Owner <- OneOwner
    Cost = 1
    Daily = 1
    Dates = {d1}
    Deltas <- GrantOrTakeAway
    TTL = 0
    MaxTime = 1
    MaxPoints = 1
SPECIFICATION Spec
SYMMETRY ChargeSymmetry
INVARIANTS OutcomesAgree
PROPERTIES AccountsHold
