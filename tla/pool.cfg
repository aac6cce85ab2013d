SPECIFICATION PoolSpec
CONSTANTS
    RatioOne = 1000
    TicksPerHour = 2
    HoursPerYear = 1
    MaxRatio = 1000000
    Users = {lender, borrower}
    Lenders = {lender}
    Borrowers = {borrower}
    Platform = platform
    Maintainers = {maintainer}
    Governors = {governor}
    Guardians = {platform}
    SupplyCap <- mcSupplyCap
    BorrowCap <- mcBorrowCap
    ParamsTimelock = 3
    DefaultParams <- mcParams
    ParamChoices <- mcParamChoices
    NoPending = NoPending
    RootHotkeys = {h1, h2}
    PoolHotkey = h1
    MinRootStakeFloor = 2
    DefaultStakeBuffer = 2
    Amounts = {2}
    Excesses = {0}
    StakeChoices <- mcStakeChoices
    Scenarios <- mcScenarios
    MaxRate = 1300
    MaxReserve = 1
    Times = {3, 6}
    Netuids = {0, 1, 2}
    FirstNetuid = 1
    RootNetuid = 0
    PoolHotkeys = {h1, h2}
    MaxMarketId = 4
    NoNetuid = NoNetuid
    DefaultAlphaParams <- mcAlphaParams
    AlphaAmounts = {140}
    AlphaChoices <- mcAlphaChoices
    DefaultPrice <- mcPrice
    Prices <- mcPrices
    Emissions = {1}
INVARIANTS
    TotalsInLockstep
    AccrualNeverFails
    InterestIsCharged
    RootStakeIsBooked
    CollateralIsBooked
    RoomAboveFactor
PROPERTIES
    MessageLosesOnlyDust
    RatesNeverFall
    BorrowerIsSafe
    LiquidatorKeepsItsDue
