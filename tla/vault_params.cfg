SPECIFICATION Spec
CONSTANTS
    alice = alice
    bob = bob
    gov = gov
    auctionC = auctionC
    vaultC = vaultC
    treasuryC = treasuryC
    None = None
    Accounts <- mcAccounts
    AuctionContract = auctionC
    VaultContract = vaultC
    Treasury = treasuryC
    Deployer = gov
    Owners = {alice}
    VaultIds = {0}
    Netuids = {1}
    Hotkeys = {1}
    MaxBalance = 50
    TokenAmounts = {0}
    TokenUsers = {bob}
    TokenPeers = {auctionC}
    MaxAuctions = 1
    MaxBids = 1
    MaxTime = 2
    BidAmounts = {6}
    AdminChoices = {bob}
    RatioOne = 10
    MinimumBalance = 1
    MaxNative = 6
    MaxStake = 10
    TimelockMs = 1
    MinDuration = 1
    MaxDuration = 2
    MaxRatio = 1000
    DefaultParams <- mcDefaultParams
    DefaultGlobals <- mcDefaultGlobals
    Prices = {5, 10}
    AlphaAmounts = {10}
    DebtAmounts = {6}
    TaoReceipts = {5}
    ParamChoices <- mcParamChoices
    GlobalChoices <- mcGlobalChoices
    RoleChoices = {gov, bob}
    ChainAmounts = {}
    InitialBalances <- mcBalances
    InitialAllowances <- mcAllowances
INVARIANTS
    BorrowNeverLiquidatable
    SettlementNeverBlocked
