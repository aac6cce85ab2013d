SPECIFICATION GovernanceSpec
CONSTANTS
    ann = ann
    l1 = l1
    l2 = l2
    treasury = treasury
    Accounts = {ann}
    GovernanceContract = GovernanceContract
    TreasuryContract = treasury
    Deployer = Deployer
    MinimumBalance = 1
    MaxHeld = 10
    FeeAmounts = {10}
    Council = {{ann}}
    CouncilSize = 1
    Leaves = {l1, l2}
    Snapshots <- mcSnapshots
    NoSnapshot = NoSnapshot
    Contents <- mcContents
    NonFunding = NonFunding
    NoProposal = NoProposal
    DefaultParams <- mcParams
    ParamChoices <- mcParamChoices
    MaxProposals = 2
    MaxEpochs = 2
    StartDay = 19742
    Days = {19750}
INVARIANTS
    BooksBalance
    TallyIsOfItsSnapshot
    MandateIsPayable
PROPERTIES
    ImplementsMandates
CHECK_DEADLOCK FALSE
