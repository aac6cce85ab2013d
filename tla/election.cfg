SPECIFICATION ElectionSpec
CONSTANTS
    alice = alice
    bob = bob
    l1 = l1
    l2 = l2
    l3 = l3
    l4 = l4
    Accounts = {alice, bob}
    NoAccount = NoAccount
    Netuids = {0, 1, 2}
    Stakes <- mcStakes
    Leaves = {l1, l2, l3, l4}
    Snapshots <- mcSnapshots
    NoSnapshot = NoSnapshot
    NoElect = NoElect
    NoTransition = NoTransition
    GenesisDay = 19725
    TermLength = 730
    TransitionLength = 182
    VoteOpenDay = 5
    VoteCloseDay = 10
    ActivationDay = 15
    MaxTerms = 2
    ApprovalThresholdBps = 5000
    QuorumBps = 2000
    MinCandidateStake = 10
    MaxCycles = 2
    Days = {19727, 19731, 19732, 19737, 19762, 19768, 19919, 20455, 20458, 20468}
INVARIANTS
    WinnerHasMajority
    TermLimit
    HelpersExact
PROPERTIES
    DecidedWinnerIsInstalled
    VotesInWindow
    VotingIsResolved
CHECK_DEADLOCK FALSE
