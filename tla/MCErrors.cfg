\* A transaction flagged with an error and executed later.
SPECIFICATION Spec
CONSTANTS
    NoKey = NoKey
    Owners = {o1}
    Delegates = {}
    Governances = {g1}
    Signatories = {}
    GovernanceConfigs <- StrictOnly
    RealmConfigs <- None
    InitialRealmConfig <- PlainRealm
    InitialAuthority = o1
    ProposalKinds <- YesNo
    Instructions <- OtherOnly
    HoldUpTimes <- Zero
    DepositAmounts <- One
    MintAmounts <- None
    InitialSupply <- Supply1
    AddinWeights <- None
    FractionBase = 2
    MaxOptions = 1
    MaxOutstanding = 10
    MaxVotingCount = 65535
    MaxSignatories = 255
    MaxTransactions = 1
    MaxProposals = 1
    MaxSupply = 4
    MaxClock = 2
PROPERTIES
    ErrorsNeverComplete
CHECK_DEADLOCK FALSE
