\* A mint without supply: the weight of the electorate is zero.
SPECIFICATION Spec
CONSTANTS
    NoKey = NoKey
    Owners = {o1}
    Delegates = {}
    Governances = {g1}
    Signatories = {}
    GovernanceConfigs <- FreeOnly
    RealmConfigs <- None
    InitialRealmConfig <- PlainRealm
    InitialAuthority = o1
    ProposalKinds <- YesNo
    Instructions <- OtherOnly
    HoldUpTimes <- Zero
    DepositAmounts <- One
    MintAmounts <- None
    InitialSupply <- NoSupply
    AddinWeights <- None
    FractionBase = 2
    MaxOptions = 1
    MaxOutstanding = 10
    MaxVotingCount = 65535
    MaxSignatories = 255
    MaxTransactions = 0
    MaxProposals = 1
    MaxSupply = 4
    MaxClock = 2
INVARIANTS
    TieIsDefeated
CHECK_DEADLOCK FALSE
