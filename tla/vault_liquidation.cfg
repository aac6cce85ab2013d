SPECIFICATION Spec
CONSTANTS
    alice = alice
    bob = bob
    gov = gov
    auctionC = auctionC
    vaultC = vaultC
    treasuryC = treasuryC
    None = None
    Accounts <- mcAccounts
    AuctionContract = auctionC
    VaultContract = vaultC
    Treasury = treasuryC
    Deployer = gov
    Owners = {alice}
    VaultIds = {0, 1}
    Netuids = {1}
    Hotkeys = {1}
    MaxBalance = 50
    TokenAmounts = {}
    TokenUsers = {}
    TokenPeers = {}
    MaxAuctions = 2
    MaxBids = 2
    MaxTime = 1
    BidAmounts = {6, 7}
    AdminChoices = {bob}
    RatioOne = 10
    MinimumBalance = 1
    MaxNative = 12
    MaxStake = 20
    TimelockMs = 1
    MinDuration = 1
    MaxDuration = 2
    MaxRatio = 1000
    DefaultParams <- mcDefaultParams
    DefaultGlobals <- mcDefaultGlobals
    Prices = {5, 10}
    AlphaAmounts = {10}
    DebtAmounts = {6}
    TaoReceipts = {5}
    ParamChoices = {}
    GlobalChoices = {}
    RoleChoices = {gov}
    ChainAmounts = {}
    InitialBalances <- mcBalances
    InitialAllowances <- mcAllowances
INVARIANTS
    RecordsAgree
    LiquidationCountExact
    NoUnbackedDebt
    NativeCoversAuctions
    SupplyFollowsDebt
    TotalsExact
PROPERTIES
    ImplementsSales
