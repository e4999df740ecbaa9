\* Two signatories: the first sign-off is counted as a voting proposal.
SPECIFICATION Spec
CONSTANTS
    NoKey = NoKey
    Owners = {o1}
    Delegates = {}
    Governances = {g1}
    Signatories = {s1, s2}
    GovernanceConfigs <- StrictOnly
    RealmConfigs <- None
    InitialRealmConfig <- PlainRealm
    InitialAuthority = o1
    ProposalKinds <- YesNo
    Instructions <- OtherOnly
    HoldUpTimes <- Zero
    DepositAmounts <- One
    MintAmounts <- None
    InitialSupply <- Supply1
    AddinWeights <- None
    FractionBase = 2
    MaxOptions = 1
    MaxOutstanding = 10
    MaxVotingCount = 65535
    MaxSignatories = 255
    MaxTransactions = 0
    MaxProposals = 1
    MaxSupply = 4
    MaxClock = 2
INVARIANTS
    VotingCountExact
CHECK_DEADLOCK FALSE
