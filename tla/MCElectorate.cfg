\* Two owners and a single choice of two options; half of the supply counts as
\* the electorate.
SPECIFICATION Spec
CONSTANTS
    NoKey = NoKey
    Owners = {o1, o2}
    Delegates = {}
    Governances = {g1}
    Signatories = {}
    GovernanceConfigs <- ShortVote
    RealmConfigs <- None
    InitialRealmConfig <- FractionRealm
    InitialAuthority = g1
    ProposalKinds <- TwoOptions
    Instructions <- OtherOnly
    HoldUpTimes <- Zero
    DepositAmounts <- OneTwo
    MintAmounts <- None
    InitialSupply <- Supply3
    AddinWeights <- None
    FractionBase = 2
    MaxOptions = 2
    MaxOutstanding = 10
    MaxVotingCount = 65535
    MaxSignatories = 255
    MaxTransactions = 0
    MaxProposals = 1
    MaxSupply = 3
    MaxClock = 2
INVARIANTS
    ElectorateCoversVotes
CHECK_DEADLOCK FALSE
