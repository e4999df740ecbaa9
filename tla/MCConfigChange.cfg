\* Two proposals of one governance, one of which may change the
\* configuration the other is voted on with, the realm's or its authority.
SPECIFICATION Spec
CONSTANTS
    NoKey = NoKey
    Owners = {o1}
    Delegates = {}
    Governances = {g1}
    Signatories = {}
    GovernanceConfigs <- ShortVote
    RealmConfigs <- None
    InitialRealmConfig <- PlainRealm
    InitialAuthority = g1
    ProposalKinds <- YesNo
    Instructions <- ConfigChanges
    HoldUpTimes <- Zero
    DepositAmounts <- One
    MintAmounts <- None
    InitialSupply <- Supply2
    AddinWeights <- None
    FractionBase = 2
    MaxOptions = 1
    MaxOutstanding = 10
    MaxVotingCount = 65535
    MaxSignatories = 255
    MaxTransactions = 1
    MaxProposals = 2
    MaxSupply = 2
    MaxClock = 2
INVARIANTS
    VoteCountsExact
    OutstandingCountExact
    DepositsCoverVotes
CHECK_DEADLOCK FALSE
