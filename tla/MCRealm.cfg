\* Realm administration while a vote runs: addins, authority, delegates,
\* minting and burning, and the decision of a vote whose electorate
\* they have moved.
SPECIFICATION Spec
CONSTANTS
    NoKey = NoKey
    Owners = {o1}
    Delegates = {d1}
    Governances = {g1}
    Signatories = {}
    GovernanceConfigs <- ShortVote
    RealmConfigs <- AddinOrFraction
    InitialRealmConfig <- CouncilRealm
    InitialAuthority = o1
    ProposalKinds <- YesNo
    Instructions <- OtherOnly
    HoldUpTimes <- Zero
    DepositAmounts <- One
    MintAmounts <- One
    InitialSupply <- Supply11
    AddinWeights <- OneTwo
    FractionBase = 2
    MaxOptions = 1
    MaxOutstanding = 10
    MaxVotingCount = 65535
    MaxSignatories = 255
    MaxTransactions = 0
    MaxProposals = 1
    MaxSupply = 1
    MaxClock = 1
INVARIANTS
    VoteWeightsExact
PROPERTIES
    YesNoElectorateCoversVotes
CHECK_DEADLOCK FALSE
