\* One owner: signatories, two slots for transactions that are freed and used again,
\* hold-up times, errors, execution in any order, cancelling.
SPECIFICATION Spec
CONSTANTS
    NoKey = NoKey
    Owners = {o1}
    Delegates = {}
    Governances = {g1}
    Signatories = {s1, s2}
    GovernanceConfigs <- StrictOnly
    RealmConfigs <- None
    InitialRealmConfig <- PlainRealm
    InitialAuthority = g1
    ProposalKinds <- ThreeKinds
    Instructions <- OtherOnly
    HoldUpTimes <- ZeroOne
    DepositAmounts <- One
    MintAmounts <- None
    InitialSupply <- Supply1
    AddinWeights <- None
    FractionBase = 2
    MaxOptions = 2
    MaxOutstanding = 10
    MaxVotingCount = 65535
    MaxSignatories = 255
    MaxTransactions = 2
    MaxProposals = 1
    MaxSupply = 1
    MaxClock = 3
INVARIANTS
    TypeOK
    VotingNeedsAllSignatures
    SigningOffAwaitsSignature
    CompletedMeansExecuted
    ExecutedOnlyIfWon
PROPERTIES
    FollowsLifecycle
    DecisionIsFinal
CHECK_DEADLOCK FALSE
