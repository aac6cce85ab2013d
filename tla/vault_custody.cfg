SPECIFICATION Spec
CONSTANTS
    alice = alice
    bob = bob
    gov = gov
    auctionC = auctionC
    vaultC = vaultC
    treasuryC = treasuryC
    None = None
    Accounts <- mcAccounts
    AuctionContract = auctionC
    VaultContract = vaultC
    Treasury = treasuryC
    Deployer = gov
    Owners = {alice}
    VaultIds = {0}
    Netuids = {1, 2}
    Hotkeys = {hk1, hk2}
    MaxBalance = 50
    TokenAmounts = {}
    TokenUsers = {}
    TokenPeers = {}
    MaxAuctions = 1
    MaxBids = 1
    MaxTime = 1
    BidAmounts = {1}
    AdminChoices = {bob}
    RatioOne = 10
    MinimumBalance = 1
    MaxNative = 3
    MaxStake = 3
    TimelockMs = 1
    MinDuration = 1
    MaxDuration = 2
    MaxRatio = 1000
    DefaultParams <- mcDefaultParams
    DefaultGlobals <- mcDefaultGlobals
    Prices = {5, 10}
    AlphaAmounts = {2}
    DebtAmounts = {1}
    TaoReceipts = {1}
    ParamChoices = {}
    GlobalChoices = {}
    RoleChoices = {}
    ChainAmounts = {1}
    InitialBalances <- mcBalances
    InitialAllowances <- mcAllowances
SYMMETRY mcSymmetry
INVARIANTS
    StakeCoversCollateral
