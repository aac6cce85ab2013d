SPECIFICATION TokenSpec
CONSTANTS
    Accounts = {a1, a2}
    MaxBalance = 3
    TokenAmounts = {1, 2}
SYMMETRY mcSymmetry
INVARIANTS
    SupplyIsSum
PROPERTIES
    OthersNeedAllowance
