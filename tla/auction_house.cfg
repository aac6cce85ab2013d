SPECIFICATION HouseSpec
CONSTANTS
    alice = alice
    bob = bob
    keeper = keeper
    auctionC = auctionC
    None = None
    Accounts <- mcAccounts
    AuctionContract = auctionC
    Owners = {alice}
    VaultIds = {0, 1}
    MaxBalance = 10
    TokenAmounts = {0}
    TokenUsers = {bob}
    TokenPeers = {auctionC}
    MaxAuctions = 3
    MaxBids = 2
    MaxTime = 1
    BidAmounts = {1, 2}
    AdminChoices = {alice}
    AuctionDebts = {1}
    MaxDuration = 1
    Durations = {0, 1, 2}
    Controllers = {keeper}
    Funds <- mcFunds
INVARIANTS
    LeadersAreHighest
    EscrowCoversBids
    ActiveIndexExact
    OneOpenAuctionPerVault
PROPERTIES
    OutcomeFixedAtExpiry
