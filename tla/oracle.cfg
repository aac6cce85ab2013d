SPECIFICATION OracleSpec
CONSTANTS
    RatioOne = 10
    Accounts = {r1, r2, r3, g1, g2}
    NoAccount = NoAccount
    RoleAccounts = {g1, g2}
    Netuids = {1, 2}
    StakeInfos <- mcStakeInfos
    NoStakeInfo = NoStakeInfo
    Prices = {2, 4}
    MinStakes = {6}
    Deviations = {0, 5}
    MinReporters = 2
    MaxSubmissions = 3
    MaxRounds = 2
    MaxTime = 1
    NoPrice = NoPrice
SYMMETRY mcSymmetry
INVARIANTS
    RoundBookExact
    MedianIsMajority
PROPERTIES
    ImplementsPriceFeed
