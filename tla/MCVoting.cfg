\* Two owners of one mint and a Yes/No proposal under every tipping mode; votes end
\* and tokens are released when anybody sends the instructions for it.
SPECIFICATION FairSpec
CONSTANTS
    NoKey = NoKey
    Owners = {o1, o2}
    Delegates = {}
    Governances = {g1}
    Signatories = {}
    GovernanceConfigs <- AllTippings
    RealmConfigs <- None
    InitialRealmConfig <- PlainRealm
    InitialAuthority = g1
    ProposalKinds <- YesNo
    Instructions <- OtherOnly
    HoldUpTimes <- None
    DepositAmounts <- OneTwo
    MintAmounts <- None
    InitialSupply <- Supply3
    AddinWeights <- None
    FractionBase = 2
    MaxOptions = 1
    MaxOutstanding = 10
    MaxVotingCount = 65535
    MaxSignatories = 255
    MaxTransactions = 0
    MaxProposals = 1
    MaxSupply = 3
    MaxClock = 3
INVARIANTS
    VoteWeightsExact
    NoTokenCountedTwice
    HoldingCoversDeposits
    DecisionMatchesTally
PROPERTIES
    EveryVoteEnds
    EveryVoteIsReleased
CHECK_DEADLOCK FALSE
