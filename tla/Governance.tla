------------------------------ MODULE Governance ------------------------------
(***************************************************************************)
(* The SPL governance program (governance/program/src): one realm with its *)
(* community mint and, until it is removed, its council mint; the          *)
(* governances of the realm; the records of the token owners; proposals    *)
(* with their signatories, votes and transactions.                         *)
(*                                                                         *)
(* One action is one instruction: the runtime executes instructions one at *)
(* a time, and an instruction that returns an error (or panics in a        *)
(* checked operation followed by unwrap) changes nothing, so every error   *)
(* path of a handler is a conjunct that keeps the action disabled. Time is *)
(* the clock sysvar. The tokens of a mint that are not in the realm's      *)
(* holding account are one pool, supply - holding: their holders may       *)
(* transfer them to one another at will.                                   *)
(***************************************************************************)
EXTENDS ProposalVoting

CONSTANTS
    Owners,             \* governing token owners
    Delegates,          \* further keys an owner may delegate to
    NoKey,              \* the None of an Option<Pubkey>
    Governances,        \* governance accounts of the realm
    Signatories,        \* keys a proposal owner may appoint as signatories
    GovernanceConfigs,  \* the GovernanceConfig arguments that are tried
    RealmConfigs,       \* the RealmConfig arguments that are tried
    InitialRealmConfig, \* the configuration the realm is created with
    InitialAuthority,   \* the realm authority it is created with
    ProposalKinds,      \* the [vote_type, options, use_deny_option] tried
    Instructions,       \* what a proposal transaction may hold
    HoldUpTimes,        \* the hold_up_time arguments that are tried
    DepositAmounts,     \* the amounts deposited or sent to the holding account
    MintAmounts,        \* the amounts minted or burnt at once
    InitialSupply,      \* tokens of each mint before the first deposit
    AddinWeights,       \* the weights an addin program may report
    FractionBase,       \* SUPPLY_FRACTION_BASE (10^10)
    MaxOptions,         \* options of a proposal (10)
    MaxOutstanding,     \* outstanding proposals of an owner (10)
    MaxVotingCount,     \* largest voting_proposal_count, a u16
    MaxSignatories,     \* largest signatories_count, a u8
    MaxTransactions,    \* largest transactions_next_index, a u16
    MaxProposals,       \* largest proposals_count, a u32
    MaxSupply,          \* largest supply of a mint, a u64
    MaxClock            \* bound on time

Community == "community"
Council == "council"
Mints == {Community, Council}

\* The addresses of TokenOwnerRecords, seeded by mint and owner.
Records == Mints \X Owners

\* The addresses of proposals, seeded by governance and proposals_count (the
\* third seed, the mint, is not needed to tell two of them apart).
ProposalIds == Governances \X (0 .. MaxProposals - 1)

OptionIds == ProposalIds \X (1 .. MaxOptions)

TransactionIds == ProposalIds \X (1 .. MaxOptions) \X (0 .. MaxTransactions - 1)

NoTime == -1

ProposalStates ==
    {"Uninitialized", "Draft", "SigningOff", "Voting", "Succeeded", "Executing",
     "Completed", "Cancelled", "Defeated", "ExecutingWithErrors"}

Deny == [kind |-> "Deny", choices |-> {}]

Approvals == {[kind |-> "Approve", choices |-> c] : c \in SUBSET (1 .. MaxOptions)}

Votes == Approvals \cup {Deny}

\* The keys that can be the authority of the realm; NoKey once it is removed.
Authorities == Owners \cup Delegates \cup Governances \cup {NoKey}

ASSUME FiniteAssumption ==
    /\ IsFiniteSet(Owners) /\ IsFiniteSet(Governances) /\ IsFiniteSet(Signatories)

ASSUME KeyAssumption ==
    /\ NoKey \notin Owners \cup Delegates \cup Governances
    /\ InitialAuthority \in Owners \cup Delegates \cup Governances

ASSUME BoundAssumption ==
    /\ FractionBase \in Nat \ {0}
    /\ MaxOptions \in Nat \ {0}
    /\ MaxOutstanding \in Nat /\ MaxVotingCount \in Nat /\ MaxSignatories \in Nat
    /\ MaxTransactions \in Nat /\ MaxProposals \in Nat
    /\ MaxSupply \in Nat /\ MaxClock \in Nat

GovernanceConfig ==
    [vote_threshold_percentage : Nat,
     vote_tipping : VoteTippings,
     max_voting_time : Nat,
     min_transaction_hold_up_time : Nat,
     min_community_weight_to_create_proposal : Nat,
     min_council_weight_to_create_proposal : Nat]

RealmConfig ==
    [council : BOOLEAN,
     fraction : 1 .. FractionBase,
     use_community_voter_weight_addin : BOOLEAN,
     use_max_community_voter_weight_addin : BOOLEAN,
     min_community_weight_to_create_governance : Nat]

ASSUME InputAssumption ==
    /\ GovernanceConfigs \subseteq GovernanceConfig /\ GovernanceConfigs # {}
    /\ RealmConfigs \subseteq RealmConfig
    /\ InitialRealmConfig \in RealmConfig
    /\ HoldUpTimes \subseteq Nat
    /\ DepositAmounts \subseteq Nat
    /\ MintAmounts \subseteq Nat
    /\ AddinWeights \subseteq Nat
    /\ InitialSupply \in [Mints -> 0 .. MaxSupply]
    /\ \A k \in ProposalKinds :
          /\ k.vote_type \in VoteTypes
          /\ k.options \in 0 .. MaxOptions
          /\ k.use_deny_option \in BOOLEAN
    /\ \A n \in Instructions :
          /\ n.kind = "SetGovernanceConfig" => n.config \in GovernanceConfig
          /\ n.kind = "SetRealmConfig" => n.config \in RealmConfig
          /\ n.kind = "SetRealmAuthority" => n.authority \in Authorities

\* The configurations the realm can ever have.
PossibleRealmConfigs ==
    {InitialRealmConfig} \cup RealmConfigs
        \cup {n.config : n \in {x \in Instructions : x.kind = "SetRealmConfig"}}

VARIABLES
    clock,        \* Clock::unix_timestamp
    supply,       \* Mint::supply of the two governing mints
    holding,      \* the amount of the realm's holding account of each mint
    realm,        \* the RealmV2 account
    governance,   \* the GovernanceV2 accounts
    record,       \* the TokenOwnerRecordV2 accounts
    proposal,     \* the ProposalV2 accounts, without their options
    option,       \* the ProposalOptions of the proposals
    signatory,    \* the SignatoryRecordV2 accounts
    voteRecord,   \* the VoteRecordV2 accounts
    transaction   \* the ProposalTransactionV2 accounts

vars == <<clock, supply, holding, realm, governance, record, proposal, option,
          signatory, voteRecord, transaction>>

-------------------------------------------------------------------------------
(***************************************************************************)
(* Accounts as they are created.                                           *)
(***************************************************************************)
EmptyRecord ==
    [exists |-> FALSE, deposit |-> 0, unrelinquished_votes_count |-> 0,
     total_votes_count |-> 0, outstanding_proposal_count |-> 0,
     governance_delegate |-> NoKey]

EmptyOption ==
    [vote_weight |-> 0, vote_result |-> "None", transactions_executed_count |-> 0,
     transactions_count |-> 0, transactions_next_index |-> 0]

EmptyProposal ==
    [state |-> "Uninitialized", mint |-> Community, owner |-> <<Community, NoKey>>,
     vote_type |-> "SingleChoice", options |-> 1, has_deny |-> FALSE, deny |-> 0,
     signatories_count |-> 0, signed_off_count |-> 0,
     voting_at |-> NoTime, voting_completed_at |-> NoTime,
     max_vote_weight |-> 0, vote_threshold_percentage |-> 0]

EmptyVoteRecord == [status |-> "Empty", voter_weight |-> 0, vote |-> Deny]

EmptyTransaction ==
    [status |-> "Empty", hold_up_time |-> 0, instruction |-> [kind |-> "Other"],
     executed_at |-> NoTime]

\* The state right after CreateRealm. The realm authority and the arguments of
\* the instruction are constants.
Init ==
    /\ clock = 0
    /\ supply = InitialSupply
    /\ holding = [m \in Mints |-> 0]
    /\ realm = [config |-> InitialRealmConfig, authority |-> InitialAuthority,
                voting_proposal_count |-> 0]
    /\ governance = [g \in Governances |->
                        [exists |-> FALSE, config |-> CHOOSE c \in GovernanceConfigs : TRUE,
                         proposals_count |-> 0, voting_proposal_count |-> 0]]
    /\ record = [t \in Records |-> EmptyRecord]
    /\ proposal = [p \in ProposalIds |-> EmptyProposal]
    /\ option = [i \in OptionIds |-> EmptyOption]
    /\ signatory = [s \in ProposalIds \X Signatories |-> "Empty"]
    /\ voteRecord = [v \in ProposalIds \X Records |-> EmptyVoteRecord]
    /\ transaction = [x \in TransactionIds |-> EmptyTransaction]

-------------------------------------------------------------------------------
(***************************************************************************)
(* The checks the handlers share.                                          *)
(***************************************************************************)
\* assert_is_valid_governing_token_mint: the council mint can be removed.
IsGoverningMint(m) == m = Community \/ realm.config.council

assert_token_owner_or_delegate_is_signer(t, signer) ==
    /\ record[t].exists
    /\ signer # NoKey
    /\ signer \in {t[2], record[t].governance_delegate}

\* The weights the voter of record t may be found to have: the deposit, or
\* whatever the addin program reports for a community record.
resolve_voter_weight(t) ==
    IF realm.config.use_community_voter_weight_addin /\ t[1] = Community
    THEN AddinWeights
    ELSE {record[t].deposit}

resolve_max_voter_weight(tally, m) ==
    IF realm.config.use_max_community_voter_weight_addin /\ m = Community
    THEN {coerce_max_voter_weight(tally, w) : w \in AddinWeights}
    ELSE {get_max_voter_weight_from_mint_supply(
              tally, m = Council, realm.config.fraction, FractionBase, supply[m])}

has_vote_time_ended(p) ==
    proposal[p].voting_at + governance[p[1]].config.max_voting_time < clock

assert_can_create_proposal(t, g, weight) ==
    /\ weight >= IF t[1] = Community
                 THEN governance[g].config.min_community_weight_to_create_proposal
                 ELSE governance[g].config.min_council_weight_to_create_proposal
    /\ IsGoverningMint(t[1])
    /\ record[t].outstanding_proposal_count < MaxOutstanding

assert_can_create_governance(t, weight) ==
    /\ weight >= IF t[1] = Community
                 THEN realm.config.min_community_weight_to_create_governance
                 ELSE 1
    /\ IsGoverningMint(t[1])

assert_is_valid_governance_config(c) == c.vote_threshold_percentage \in 1 .. 100

assert_valid_proposal_options(kind) ==
    /\ kind.options \in 1 .. MaxOptions
    /\ kind.vote_type = "MultiChoice" => kind.options > 1

assert_valid_vote(p, vote) ==
    \/ /\ vote.kind = "Approve"
       /\ vote.choices \subseteq 1 .. proposal[p].options
       /\ vote.choices # {}
       /\ proposal[p].vote_type = "SingleChoice" => \A i, j \in vote.choices : i = j
    \/ /\ vote.kind = "Deny"
       /\ proposal[p].has_deny

assert_can_edit_instructions(p) == proposal[p].state = "Draft" /\ proposal[p].has_deny

\* A plausible slip: a transaction may be executed in the last instant of its
\* hold-up time.
executed_at_hold_up_time(p, i, j) ==
    LET x == transaction[<<p, i, j>>]
    IN  /\ proposal[p].state \in {"Succeeded", "Executing", "ExecutingWithErrors"}
        /\ option[<<p, i>>].vote_result = "Succeeded"
        /\ proposal[p].voting_completed_at + x.hold_up_time <= clock
        /\ x.executed_at = NoTime

assert_can_execute_transaction(p, i, j) ==
    LET x == transaction[<<p, i, j>>]
    IN  /\ proposal[p].state \in {"Succeeded", "Executing", "ExecutingWithErrors"}
        /\ option[<<p, i>>].vote_result = "Succeeded"
        /\ proposal[p].voting_completed_at + x.hold_up_time < clock
        /\ x.executed_at = NoTime

assert_can_withdraw_governing_tokens(t) ==
    /\ record[t].unrelinquished_votes_count = 0
    /\ record[t].outstanding_proposal_count = 0

-------------------------------------------------------------------------------
(***************************************************************************)
(* Realm, governances and token owner records.                             *)
(***************************************************************************)
\* CreateGovernance, and its program, mint and token variants: the authority
\* of the realm may create one, and an owner with enough weight.
CreateGovernance(g, c, signer) ==
    /\ ~ governance[g].exists
    /\ assert_is_valid_governance_config(c)
    /\ \/ signer = realm.authority
       \/ \E t \in Records :
            /\ assert_token_owner_or_delegate_is_signer(t, signer)
            /\ \E w \in resolve_voter_weight(t) : assert_can_create_governance(t, w)
    /\ governance' = [governance EXCEPT ![g] =
                        [exists |-> TRUE, config |-> c,
                         proposals_count |-> 0, voting_proposal_count |-> 0]]
    /\ UNCHANGED <<clock, supply, holding, realm, record, proposal, option,
                   signatory, voteRecord, transaction>>

\* The council mint can be kept or removed, never restored.
ChangedRealm(c) == [realm EXCEPT !.config = c]

SetRealmConfig(c, signer) ==
    /\ signer = realm.authority
    /\ c.council => realm.config.council
    /\ realm' = ChangedRealm(c)
    /\ UNCHANGED <<clock, supply, holding, governance, record, proposal, option,
                   signatory, voteRecord, transaction>>

SetRealmAuthority(authority, signer) ==
    /\ signer = realm.authority
    /\ realm' = [realm EXCEPT !.authority = authority]
    /\ UNCHANGED <<clock, supply, holding, governance, record, proposal, option,
                   signatory, voteRecord, transaction>>

CreateTokenOwnerRecord(t) ==
    /\ IsGoverningMint(t[1])
    /\ ~ record[t].exists
    /\ record' = [record EXCEPT ![t] = [EmptyRecord EXCEPT !.exists = TRUE]]
    /\ UNCHANGED <<clock, supply, holding, realm, governance, proposal, option,
                   signatory, voteRecord, transaction>>

\* The record is created by the first deposit unless it exists already.
DepositGoverningTokens(t, amount) ==
    /\ ~ (realm.config.use_community_voter_weight_addin /\ t[1] = Community)
    /\ IsGoverningMint(t[1])
    /\ holding[t[1]] + amount <= supply[t[1]]
    /\ holding' = [holding EXCEPT ![t[1]] = @ + amount]
    /\ record' = [record EXCEPT ![t].exists = TRUE, ![t].deposit = @ + amount]
    /\ UNCHANGED <<clock, supply, realm, governance, proposal, option,
                   signatory, voteRecord, transaction>>

\* A plausible slip: withdrawing looks at the owner's proposals only.
WithdrawWithLiveVotes(t) ==
    /\ IsGoverningMint(t[1])
    /\ record[t].exists
    /\ record[t].outstanding_proposal_count = 0
    /\ holding[t[1]] >= record[t].deposit
    /\ holding' = [holding EXCEPT ![t[1]] = @ - record[t].deposit]
    /\ record' = [record EXCEPT ![t].deposit = 0]
    /\ UNCHANGED <<clock, supply, realm, governance, proposal, option,
                   signatory, voteRecord, transaction>>

\* A plausible slip: the record keeps the amount that was paid out.
WithdrawKeepsDeposit(t) ==
    /\ IsGoverningMint(t[1])
    /\ record[t].exists
    /\ assert_can_withdraw_governing_tokens(t)
    /\ holding[t[1]] >= record[t].deposit
    /\ holding' = [holding EXCEPT ![t[1]] = @ - record[t].deposit]
    /\ UNCHANGED <<clock, supply, realm, governance, record, proposal, option,
                   signatory, voteRecord, transaction>>

WithdrawGoverningTokens(t) ==
    /\ IsGoverningMint(t[1])
    /\ record[t].exists
    /\ assert_can_withdraw_governing_tokens(t)
    /\ holding[t[1]] >= record[t].deposit
    /\ holding' = [holding EXCEPT ![t[1]] = @ - record[t].deposit]
    /\ record' = [record EXCEPT ![t].deposit = 0]
    /\ UNCHANGED <<clock, supply, realm, governance, proposal, option,
                   signatory, voteRecord, transaction>>

SetGovernanceDelegate(t, delegate, signer) ==
    /\ assert_token_owner_or_delegate_is_signer(t, signer)
    /\ record' = [record EXCEPT ![t].governance_delegate = delegate]
    /\ UNCHANGED <<clock, supply, holding, realm, governance, proposal, option,
                   signatory, voteRecord, transaction>>

-------------------------------------------------------------------------------
(***************************************************************************)
(* Proposals until the vote starts.                                        *)
(***************************************************************************)
\* The record of the owner need not be of the mint that will vote.
CreateProposal(g, m, t, kind, signer) ==
    LET p == <<g, governance[g].proposals_count>>
    IN  /\ governance[g].exists
        /\ governance[g].proposals_count < MaxProposals
        /\ IsGoverningMint(m)
        /\ assert_token_owner_or_delegate_is_signer(t, signer)
        /\ \E w \in resolve_voter_weight(t) : assert_can_create_proposal(t, g, w)
        /\ assert_valid_proposal_options(kind)
        /\ record' = [record EXCEPT ![t].outstanding_proposal_count = @ + 1]
        /\ proposal' = [proposal EXCEPT ![p] =
                          [EmptyProposal EXCEPT !.state = "Draft", !.mint = m, !.owner = t,
                              !.vote_type = kind.vote_type, !.options = kind.options,
                              !.has_deny = kind.use_deny_option]]
        /\ governance' = [governance EXCEPT ![g].proposals_count = @ + 1]
        /\ UNCHANGED <<clock, supply, holding, realm, option, signatory,
                       voteRecord, transaction>>

OwnerSigns(p, signer) == assert_token_owner_or_delegate_is_signer(proposal[p].owner, signer)

AddSignatory(p, s, signer) ==
    /\ proposal[p].state = "Draft"
    /\ OwnerSigns(p, signer)
    /\ signatory[<<p, s>>] = "Empty"
    /\ proposal[p].signatories_count < MaxSignatories
    /\ signatory' = [signatory EXCEPT ![<<p, s>>] = "Pending"]
    /\ proposal' = [proposal EXCEPT ![p].signatories_count = @ + 1]
    /\ UNCHANGED <<clock, supply, holding, realm, governance, record, option,
                   voteRecord, transaction>>

\* A plausible slip: signatories are removed after others have signed.
RemoveSignatoryLate(p, s, signer) ==
    /\ proposal[p].state \in {"Draft", "SigningOff"}
    /\ OwnerSigns(p, signer)
    /\ signatory[<<p, s>>] = "Pending"
    /\ proposal[p].signatories_count > 0
    /\ signatory' = [signatory EXCEPT ![<<p, s>>] = "Empty"]
    /\ proposal' = [proposal EXCEPT ![p].signatories_count = @ - 1]
    /\ UNCHANGED <<clock, supply, holding, realm, governance, record, option,
                   voteRecord, transaction>>

RemoveSignatory(p, s, signer) ==
    /\ proposal[p].state = "Draft"
    /\ OwnerSigns(p, signer)
    /\ signatory[<<p, s>>] = "Pending"
    /\ proposal[p].signatories_count > 0
    /\ signatory' = [signatory EXCEPT ![<<p, s>>] = "Empty"]
    /\ proposal' = [proposal EXCEPT ![p].signatories_count = @ - 1]
    /\ UNCHANGED <<clock, supply, holding, realm, governance, record, option,
                   voteRecord, transaction>>

\* Every sign-off adds one to the voting counts, the last one and the earlier
\* ones alike.
CountVotingProposal(g) ==
    /\ realm.voting_proposal_count < MaxVotingCount
    /\ governance[g].voting_proposal_count < MaxVotingCount
    /\ realm' = [realm EXCEPT !.voting_proposal_count = @ + 1]
    /\ governance' = [governance EXCEPT ![g].voting_proposal_count = @ + 1]

UncountVotingProposal(g) ==
    /\ realm' = [realm EXCEPT !.voting_proposal_count = saturating_sub(@, 1)]
    /\ governance' = [governance EXCEPT ![g].voting_proposal_count = saturating_sub(@, 1)]

\* Without signatories the owner signs the proposal off.
OwnerSignsOff(p, signer) ==
    /\ proposal[p].state \in {"Draft", "SigningOff"}
    /\ proposal[p].signatories_count = 0
    /\ OwnerSigns(p, signer)
    /\ LET last == proposal[p].signed_off_count = proposal[p].signatories_count
       IN  proposal' = [proposal EXCEPT ![p].voting_at = IF last THEN clock ELSE @,
                                        ![p].state = IF last THEN "Voting" ELSE @]
    /\ CountVotingProposal(p[1])
    /\ UNCHANGED <<clock, supply, holding, record, option, signatory,
                   voteRecord, transaction>>

\* A plausible slip: voting starts with the first signature.
SignatorySignsOffAlone(p, s) ==
    /\ proposal[p].state \in {"Draft", "SigningOff"}
    /\ signatory[<<p, s>>] = "Pending"
    /\ signatory' = [signatory EXCEPT ![<<p, s>>] = "SignedOff"]
    /\ proposal' = [proposal EXCEPT ![p].signed_off_count = @ + 1,
                        ![p].voting_at = clock, ![p].state = "Voting"]
    /\ CountVotingProposal(p[1])
    /\ UNCHANGED <<clock, supply, holding, record, option, voteRecord, transaction>>

\* The first signature moves the proposal to SigningOff, the last to Voting.
SignatorySignsOff(p, s) ==
    /\ proposal[p].state \in {"Draft", "SigningOff"}
    /\ proposal[p].signatories_count # 0
    /\ signatory[<<p, s>>] = "Pending"
    /\ signatory' = [signatory EXCEPT ![<<p, s>>] = "SignedOff"]
    /\ LET signed == proposal[p].signed_off_count + 1
           last   == signed = proposal[p].signatories_count
       IN  proposal' = [proposal EXCEPT
                           ![p].signed_off_count = signed,
                           ![p].voting_at = IF last THEN clock ELSE @,
                           ![p].state = IF last THEN "Voting"
                                        ELSE IF signed = 1 THEN "SigningOff" ELSE @]
    /\ CountVotingProposal(p[1])
    /\ UNCHANGED <<clock, supply, holding, record, option, voteRecord, transaction>>

-------------------------------------------------------------------------------
(***************************************************************************)
(* The vote.                                                               *)
(***************************************************************************)
\* The options of p after weight has been added by a vote; Deny adds to none.
Approved(p, vote, weight) ==
    [k \in OptionIds |->
        IF k[1] = p /\ k[2] \in vote.choices
        THEN [option[k] EXCEPT !.vote_weight = @ + weight]
        ELSE option[k]]

Unapproved(p, vote, weight) ==
    [k \in OptionIds |->
        IF k[1] = p /\ k[2] \in vote.choices
        THEN [option[k] EXCEPT !.vote_weight = @ - weight]
        ELSE option[k]]

DenyWeight(vote, weight) == IF vote.kind = "Deny" THEN weight ELSE 0

\* The tally of p with the given options and deny weight.
Tally(p, options, deny) ==
    [vote_type |-> proposal[p].vote_type,
     weights   |-> [i \in 1 .. proposal[p].options |-> options[<<p, i>>].vote_weight],
     has_deny  |-> proposal[p].has_deny,
     deny      |-> deny]

\* What tipping and finalizing leave in the proposal.
Decided(p, state, deny, max_voter_weight) ==
    [proposal[p] EXCEPT
        !.state = state, !.deny = deny, !.voting_completed_at = clock,
        !.max_vote_weight = max_voter_weight,
        !.vote_threshold_percentage = governance[p[1]].config.vote_threshold_percentage]

\* A plausible slip: the record of an owner who votes is written from the copy
\* read before the proposal was tipped.
TippedCountLost(t, owner, tipped) ==
    [x \in Records |->
        [record[x] EXCEPT
            !.unrelinquished_votes_count = IF x = t THEN @ + 1 ELSE @,
            !.total_votes_count = IF x = t THEN @ + 1 ELSE @,
            !.outstanding_proposal_count =
                IF x = owner /\ x # t /\ tipped THEN saturating_sub(@, 1) ELSE @]]

\* The token owner records after t has voted; owner is the record of the
\* proposal's owner, which may be t itself.
VotedRecords(t, owner, tipped) ==
    [x \in Records |->
        [record[x] EXCEPT
            !.unrelinquished_votes_count = IF x = t THEN @ + 1 ELSE @,
            !.total_votes_count = IF x = t THEN @ + 1 ELSE @,
            !.outstanding_proposal_count =
                IF x = owner /\ tipped THEN saturating_sub(@, 1) ELSE @]]

CastVote(p, t, vote, signer) ==
    /\ voteRecord[<<p, t>>].status = "Empty"
    /\ proposal[p].state = "Voting"
    /\ proposal[p].mint = t[1]
    /\ IsGoverningMint(t[1])
    /\ ~ has_vote_time_ended(p)
    /\ assert_token_owner_or_delegate_is_signer(t, signer)
    /\ assert_valid_vote(p, vote)
    /\ \E w \in resolve_voter_weight(t) :
         LET options == Approved(p, vote, w)
             deny    == proposal[p].deny + DenyWeight(vote, w)
             tally   == Tally(p, options, deny)
             config  == governance[p[1]].config
         IN  \E max \in resolve_max_voter_weight(tally, t[1]) :
               LET tipped == try_get_tipped_vote_state(
                                 tally, config.vote_tipping,
                                 config.vote_threshold_percentage, max)
               IN  /\ voteRecord' = [voteRecord EXCEPT ![<<p, t>>] =
                                       [status |-> "Active", voter_weight |-> w, vote |-> vote]]
                   /\ record' = VotedRecords(t, proposal[p].owner, tipped # "None")
                   /\ \/ /\ tipped = "None"
                         /\ proposal' = [proposal EXCEPT ![p].deny = deny]
                         /\ option' = options
                         /\ UNCHANGED <<realm, governance>>
                      \/ /\ tipped # "None"
                         /\ proposal' = [proposal EXCEPT ![p] = Decided(p, tipped, deny, max)]
                         /\ option' = [options EXCEPT ![<<p, 1>>].vote_result = tipped]
                         /\ UncountVotingProposal(p[1])
    /\ UNCHANGED <<clock, supply, holding, signatory, transaction>>

\* A plausible slip: the weight taken off is the deposit of the moment, not the
\* weight the vote was counted with.
WithdrawCurrentWeight(p, t, signer) ==
    LET v == voteRecord[<<p, t>>]
        w == record[t].deposit
    IN  /\ v.status = "Active"
        /\ proposal[p].state = "Voting"
        /\ ~ has_vote_time_ended(p)
        /\ assert_token_owner_or_delegate_is_signer(t, signer)
        /\ \A i \in v.vote.choices : option[<<p, i>>].vote_weight >= w
        /\ proposal[p].deny >= DenyWeight(v.vote, w)
        /\ record[t].unrelinquished_votes_count > 0 /\ record[t].total_votes_count > 0
        /\ option' = Unapproved(p, v.vote, w)
        /\ proposal' = [proposal EXCEPT ![p].deny = @ - DenyWeight(v.vote, w)]
        /\ voteRecord' = [voteRecord EXCEPT ![<<p, t>>] = EmptyVoteRecord]
        /\ record' = [record EXCEPT ![t].unrelinquished_votes_count = @ - 1,
                                    ![t].total_votes_count = @ - 1]
        /\ UNCHANGED <<clock, supply, holding, realm, governance, signatory, transaction>>

\* While the vote runs the owner or the delegate withdraws the vote.
WithdrawVote(p, t, signer) ==
    LET v == voteRecord[<<p, t>>]
    IN  /\ v.status = "Active"
        /\ proposal[p].state = "Voting"
        /\ ~ has_vote_time_ended(p)
        /\ assert_token_owner_or_delegate_is_signer(t, signer)
        /\ \A i \in v.vote.choices : option[<<p, i>>].vote_weight >= v.voter_weight
        /\ proposal[p].deny >= DenyWeight(v.vote, v.voter_weight)
        /\ record[t].unrelinquished_votes_count > 0 /\ record[t].total_votes_count > 0
        /\ option' = Unapproved(p, v.vote, v.voter_weight)
        /\ proposal' = [proposal EXCEPT ![p].deny = @ - DenyWeight(v.vote, v.voter_weight)]
        /\ voteRecord' = [voteRecord EXCEPT ![<<p, t>>] = EmptyVoteRecord]
        /\ record' = [record EXCEPT ![t].unrelinquished_votes_count = @ - 1,
                                    ![t].total_votes_count = @ - 1]
        /\ UNCHANGED <<clock, supply, holding, realm, governance, signatory, transaction>>

\* A plausible slip: a vote can be released again.
ReleaseVoteAgain(p, t) ==
    LET v == voteRecord[<<p, t>>]
    IN  /\ v.status # "Empty"
        /\ ~ (proposal[p].state = "Voting" /\ ~ has_vote_time_ended(p))
        /\ record[t].unrelinquished_votes_count > 0
        /\ voteRecord' = [voteRecord EXCEPT ![<<p, t>>].status = "Relinquished"]
        /\ record' = [record EXCEPT ![t].unrelinquished_votes_count = @ - 1]
        /\ UNCHANGED <<clock, supply, holding, realm, governance, proposal, option,
                       signatory, transaction>>

\* A plausible slip: the tokens are released while the vote runs, and the vote
\* goes on counting.
ReleaseVoteEarly(p, t) ==
    LET v == voteRecord[<<p, t>>]
    IN  /\ v.status = "Active"
        /\ record[t].unrelinquished_votes_count > 0
        /\ voteRecord' = [voteRecord EXCEPT ![<<p, t>>].status = "Relinquished"]
        /\ record' = [record EXCEPT ![t].unrelinquished_votes_count = @ - 1]
        /\ UNCHANGED <<clock, supply, holding, realm, governance, proposal, option,
                       signatory, transaction>>

\* A plausible slip: the votes of a cancelled proposal are forgotten.
ReleaseVoteIfDecided(p, t) ==
    LET v == voteRecord[<<p, t>>]
    IN  /\ v.status = "Active"
        /\ proposal[p].state # "Cancelled"
        /\ ~ (proposal[p].state = "Voting" /\ ~ has_vote_time_ended(p))
        /\ record[t].unrelinquished_votes_count > 0
        /\ voteRecord' = [voteRecord EXCEPT ![<<p, t>>].status = "Relinquished"]
        /\ record' = [record EXCEPT ![t].unrelinquished_votes_count = @ - 1]
        /\ UNCHANGED <<clock, supply, holding, realm, governance, proposal, option,
                       signatory, transaction>>

\* Once the vote is over anybody may release the tokens; the vote still counts.
ReleaseVote(p, t) ==
    LET v == voteRecord[<<p, t>>]
    IN  /\ v.status = "Active"
        /\ ~ (proposal[p].state = "Voting" /\ ~ has_vote_time_ended(p))
        /\ record[t].unrelinquished_votes_count > 0
        /\ voteRecord' = [voteRecord EXCEPT ![<<p, t>>].status = "Relinquished"]
        /\ record' = [record EXCEPT ![t].unrelinquished_votes_count = @ - 1]
        /\ UNCHANGED <<clock, supply, holding, realm, governance, proposal, option,
                       signatory, transaction>>

\* The record of the proposal's owner once the proposal is no longer outstanding.
OutstandingDecreased(p) ==
    [record EXCEPT ![proposal[p].owner].outstanding_proposal_count = saturating_sub(@, 1)]

\* A plausible slip: a vote without a single Yes is not finalized.
FinalizeVotedOnly(p) ==
    /\ proposal[p].state = "Voting"
    /\ option[<<p, 1>>].vote_weight > 0
    /\ IsGoverningMint(proposal[p].mint)
    /\ has_vote_time_ended(p)
    /\ \E max \in resolve_max_voter_weight(Tally(p, option, proposal[p].deny), proposal[p].mint) :
          proposal' = [proposal EXCEPT ![p] = Decided(p, "Succeeded", proposal[p].deny, max)]
    /\ option' = [option EXCEPT ![<<p, 1>>].vote_result = "Succeeded"]
    /\ record' = OutstandingDecreased(p)
    /\ UncountVotingProposal(p[1])
    /\ UNCHANGED <<clock, supply, holding, signatory, voteRecord, transaction>>

FinalizeVote(p) ==
    /\ proposal[p].state = "Voting"
    /\ IsGoverningMint(proposal[p].mint)
    /\ has_vote_time_ended(p)
    /\ LET tally  == Tally(p, option, proposal[p].deny)
           config == governance[p[1]].config
       IN  \E max \in resolve_max_voter_weight(tally, proposal[p].mint) :
             LET state   == resolve_final_vote_state(
                                tally, config.vote_threshold_percentage, max)
                 results == resolve_final_vote_results(
                                tally, config.vote_threshold_percentage, max)
             IN  /\ proposal' = [proposal EXCEPT ![p] =
                                   Decided(p, state, proposal[p].deny, max)]
                 /\ option' = [k \in OptionIds |->
                                 IF k[1] = p /\ k[2] \in DOMAIN results
                                 THEN [option[k] EXCEPT !.vote_result = results[k[2]]]
                                 ELSE option[k]]
    /\ record' = OutstandingDecreased(p)
    /\ UncountVotingProposal(p[1])
    /\ UNCHANGED <<clock, supply, holding, signatory, voteRecord, transaction>>

\* The voting counts go down only when the proposal was being voted on.
CancelProposal(p, signer) ==
    /\ \/ proposal[p].state \in {"Draft", "SigningOff"}
       \/ proposal[p].state = "Voting" /\ ~ has_vote_time_ended(p)
    /\ OwnerSigns(p, signer)
    /\ record' = OutstandingDecreased(p)
    /\ proposal' = [proposal EXCEPT ![p].state = "Cancelled"]
    /\ IF proposal[p].state = "Voting"
       THEN UncountVotingProposal(p[1])
       ELSE UNCHANGED <<realm, governance>>
    /\ UNCHANGED <<clock, supply, holding, option, signatory, voteRecord, transaction>>

-------------------------------------------------------------------------------
(***************************************************************************)
(* Transactions of a proposal.                                             *)
(***************************************************************************)
\* A plausible slip: an insertion in a gap moves the next index too.
InsertAndAdvance(p, i, j, hold_up_time, instruction, signer) ==
    /\ transaction[<<p, i, j>>].status = "Empty"
    /\ hold_up_time >= governance[p[1]].config.min_transaction_hold_up_time
    /\ assert_can_edit_instructions(p)
    /\ OwnerSigns(p, signer)
    /\ i \in 1 .. proposal[p].options
    /\ j <= option[<<p, i>>].transactions_next_index
    /\ option' = [option EXCEPT ![<<p, i>>].transactions_next_index = @ + 1,
                                ![<<p, i>>].transactions_count = @ + 1]
    /\ transaction' = [transaction EXCEPT ![<<p, i, j>>] =
                         [status |-> "None", hold_up_time |-> hold_up_time,
                          instruction |-> instruction, executed_at |-> NoTime]]
    /\ UNCHANGED <<clock, supply, holding, realm, governance, record, proposal,
                   signatory, voteRecord>>

\* A slot below transactions_next_index is free again once its transaction has
\* been removed.
InsertTransaction(p, i, j, hold_up_time, instruction, signer) ==
    /\ transaction[<<p, i, j>>].status = "Empty"
    /\ hold_up_time >= governance[p[1]].config.min_transaction_hold_up_time
    /\ assert_can_edit_instructions(p)
    /\ OwnerSigns(p, signer)
    /\ i \in 1 .. proposal[p].options
    /\ j <= option[<<p, i>>].transactions_next_index
    /\ option' = [option EXCEPT ![<<p, i>>].transactions_next_index = IF j = @ THEN @ + 1 ELSE @,
                                ![<<p, i>>].transactions_count = @ + 1]
    /\ transaction' = [transaction EXCEPT ![<<p, i, j>>] =
                         [status |-> "None", hold_up_time |-> hold_up_time,
                          instruction |-> instruction, executed_at |-> NoTime]]
    /\ UNCHANGED <<clock, supply, holding, realm, governance, record, proposal,
                   signatory, voteRecord>>

\* A plausible slip: the state of the proposal is not looked at.
RemoveTransactionAnyTime(p, i, j, signer) ==
    /\ transaction[<<p, i, j>>].status # "Empty"
    /\ OwnerSigns(p, signer)
    /\ option[<<p, i>>].transactions_count > 0
    /\ option' = [option EXCEPT ![<<p, i>>].transactions_count = @ - 1]
    /\ transaction' = [transaction EXCEPT ![<<p, i, j>>] = EmptyTransaction]
    /\ UNCHANGED <<clock, supply, holding, realm, governance, record, proposal,
                   signatory, voteRecord>>

RemoveTransaction(p, i, j, signer) ==
    /\ transaction[<<p, i, j>>].status # "Empty"
    /\ assert_can_edit_instructions(p)
    /\ OwnerSigns(p, signer)
    /\ option[<<p, i>>].transactions_count > 0
    /\ option' = [option EXCEPT ![<<p, i>>].transactions_count = @ - 1]
    /\ transaction' = [transaction EXCEPT ![<<p, i, j>>] = EmptyTransaction]
    /\ UNCHANGED <<clock, supply, holding, realm, governance, record, proposal,
                   signatory, voteRecord>>

\* The instruction a transaction holds is invoked with the signature of the
\* governance: it may change the configuration of that governance, and the
\* realm when the governance is the realm authority.
Invoke(g, instruction) ==
    \/ /\ instruction.kind = "Other"
       /\ UNCHANGED <<realm, governance>>
    \/ /\ instruction.kind = "SetGovernanceConfig"
       /\ assert_is_valid_governance_config(instruction.config)
       /\ governance' = [governance EXCEPT ![g].config = instruction.config]
       /\ UNCHANGED realm
    \/ /\ instruction.kind = "SetRealmConfig"
       /\ realm.authority = g
       /\ instruction.config.council => realm.config.council
       /\ realm' = ChangedRealm(instruction.config)
       /\ UNCHANGED governance
    \/ /\ instruction.kind = "SetRealmAuthority"
       /\ realm.authority = g
       /\ realm' = [realm EXCEPT !.authority = instruction.authority]
       /\ UNCHANGED governance

\* A plausible slip: the proposal is closed by its first executed transaction.
ExecuteAndClose(p, i, j) ==
    /\ transaction[<<p, i, j>>].status # "Empty"
    /\ assert_can_execute_transaction(p, i, j)
    /\ Invoke(p[1], transaction[<<p, i, j>>].instruction)
    /\ option' = [option EXCEPT ![<<p, i>>].transactions_executed_count = @ + 1]
    /\ proposal' = [proposal EXCEPT ![p].state = "Completed"]
    /\ transaction' = [transaction EXCEPT ![<<p, i, j>>].status = "Success",
                                          ![<<p, i, j>>].executed_at = clock]
    /\ UNCHANGED <<clock, supply, holding, record, signatory, voteRecord>>

\* The proposal is completed by the last transaction of its succeeded options,
\* also when some of them had been flagged with an error before.
ExecuteTransaction(p, i, j) ==
    /\ transaction[<<p, i, j>>].status # "Empty"
    /\ assert_can_execute_transaction(p, i, j)
    /\ Invoke(p[1], transaction[<<p, i, j>>].instruction)
    /\ LET options == [option EXCEPT ![<<p, i>>].transactions_executed_count = @ + 1]
           done    == \A k \in 1 .. proposal[p].options :
                         options[<<p, k>>].vote_result = "Succeeded" =>
                             options[<<p, k>>].transactions_executed_count
                                 = options[<<p, k>>].transactions_count
       IN  /\ option' = options
           /\ proposal' = [proposal EXCEPT ![p].state =
                              IF done THEN "Completed"
                              ELSE IF @ = "Succeeded" THEN "Executing" ELSE @]
    /\ transaction' = [transaction EXCEPT ![<<p, i, j>>].status = "Success",
                                          ![<<p, i, j>>].executed_at = clock]
    /\ UNCHANGED <<clock, supply, holding, record, signatory, voteRecord>>

FlagTransactionError(p, i, j, signer) ==
    /\ transaction[<<p, i, j>>].status \notin {"Empty", "Error"}
    /\ assert_can_execute_transaction(p, i, j)
    /\ OwnerSigns(p, signer)
    /\ proposal' = [proposal EXCEPT ![p].state = "ExecutingWithErrors"]
    /\ transaction' = [transaction EXCEPT ![<<p, i, j>>].status = "Error"]
    /\ UNCHANGED <<clock, supply, holding, realm, governance, record, option,
                   signatory, voteRecord>>

-------------------------------------------------------------------------------
(***************************************************************************)
(* The environment: time, and the mint authorities of the two mints.       *)
(***************************************************************************)
Tick ==
    /\ clock < MaxClock
    /\ clock' = clock + 1
    /\ UNCHANGED <<supply, holding, realm, governance, record, proposal, option,
                   signatory, voteRecord, transaction>>

MintTokens(m, amount) ==
    /\ supply[m] + amount <= MaxSupply
    /\ supply' = [supply EXCEPT ![m] = @ + amount]
    /\ UNCHANGED <<clock, holding, realm, governance, record, proposal, option,
                   signatory, voteRecord, transaction>>

\* Deposited tokens belong to the realm and cannot be burnt by their owners.
BurnTokens(m, amount) ==
    /\ holding[m] + amount <= supply[m]
    /\ supply' = [supply EXCEPT ![m] = @ - amount]
    /\ UNCHANGED <<clock, holding, realm, governance, record, proposal, option,
                   signatory, voteRecord, transaction>>

\* Anybody may send tokens to the holding account without a deposit; no record
\* knows of them.
SendToHolding(m, amount) ==
    /\ IsGoverningMint(m)
    /\ holding[m] + amount <= supply[m]
    /\ holding' = [holding EXCEPT ![m] = @ + amount]
    /\ UNCHANGED <<clock, supply, realm, governance, record, proposal, option,
                   signatory, voteRecord, transaction>>

Signers == Owners \cup Delegates

RealmNext ==
    \/ \E g \in Governances, c \in GovernanceConfigs, s \in Signers : CreateGovernance(g, c, s)
    \/ \E c \in RealmConfigs, s \in Signers : SetRealmConfig(c, s)
    \/ \E a \in Authorities, s \in Signers : SetRealmAuthority(a, s)
    \/ \E t \in Records : CreateTokenOwnerRecord(t) \/ WithdrawGoverningTokens(t)
    \/ \E t \in Records, a \in DepositAmounts : DepositGoverningTokens(t, a)
    \/ \E t \in Records, d \in Delegates \cup {NoKey}, s \in Signers :
            SetGovernanceDelegate(t, d, s)
    \/ \E m \in Mints, a \in MintAmounts : MintTokens(m, a) \/ BurnTokens(m, a)
    \/ \E m \in Mints, a \in DepositAmounts : SendToHolding(m, a)

DraftNext ==
    \/ \E g \in Governances, m \in Mints, t \in Records, k \in ProposalKinds, s \in Signers :
            CreateProposal(g, m, t, k, s)
    \/ \E p \in ProposalIds, x \in Signatories, s \in Signers :
            AddSignatory(p, x, s) \/ RemoveSignatory(p, x, s)
    \/ \E p \in ProposalIds, s \in Signers : OwnerSignsOff(p, s)
    \/ \E p \in ProposalIds, x \in Signatories : SignatorySignsOff(p, x)

VoteNext ==
    \/ \E p \in ProposalIds, t \in Records, v \in Votes, s \in Signers : CastVote(p, t, v, s)
    \/ \E p \in ProposalIds, t \in Records, s \in Signers : WithdrawVote(p, t, s)
    \/ \E p \in ProposalIds, t \in Records : ReleaseVote(p, t)
    \/ \E p \in ProposalIds : FinalizeVote(p)
    \/ \E p \in ProposalIds, s \in Signers : CancelProposal(p, s)

TransactionNext ==
    \E x \in TransactionIds :
        \/ \E h \in HoldUpTimes, n \in Instructions, s \in Signers :
              InsertTransaction(x[1], x[2], x[3], h, n, s)
        \/ \E s \in Signers : RemoveTransaction(x[1], x[2], x[3], s)
        \/ ExecuteTransaction(x[1], x[2], x[3])
        \/ \E s \in Signers : FlagTransactionError(x[1], x[2], x[3], s)

Next == RealmNext \/ DraftNext \/ VoteNext \/ TransactionNext \/ Tick

Spec == Init /\ [][Next]_vars

-------------------------------------------------------------------------------
(***************************************************************************)
(* Properties.                                                             *)
(***************************************************************************)
Realm ==
    [config : PossibleRealmConfigs, authority : Authorities,
     voting_proposal_count : 0 .. MaxVotingCount]

GovernanceAccount ==
    [exists : BOOLEAN, config : GovernanceConfig, proposals_count : 0 .. MaxProposals,
     voting_proposal_count : 0 .. MaxVotingCount]

TokenOwnerRecord ==
    [exists : BOOLEAN, deposit : Nat, unrelinquished_votes_count : Nat,
     total_votes_count : Nat, outstanding_proposal_count : Nat,
     governance_delegate : Delegates \cup {NoKey}]

Proposal ==
    [state : ProposalStates, mint : Mints, owner : Mints \X (Owners \cup {NoKey}),
     vote_type : VoteTypes, options : 1 .. MaxOptions, has_deny : BOOLEAN, deny : Nat,
     signatories_count : 0 .. MaxSignatories, signed_off_count : Nat,
     voting_at : Nat \cup {NoTime}, voting_completed_at : Nat \cup {NoTime},
     max_vote_weight : Nat, vote_threshold_percentage : Nat]

ProposalOption ==
    [vote_weight : Nat, vote_result : OptionVoteResults,
     transactions_executed_count : Nat, transactions_count : Nat,
     transactions_next_index : 0 .. MaxTransactions]

VoteRecord == [status : {"Empty", "Active", "Relinquished"}, voter_weight : Nat, vote : Votes]

ProposalTransaction ==
    [status : {"Empty", "None", "Success", "Error"}, hold_up_time : Nat,
     instruction : Instructions \cup {[kind |-> "Other"]}, executed_at : Nat \cup {NoTime}]

\* Every account has the shape its struct has: no counter or weight underflows, and
\* those the model gives a width (proposals, proposals in voting, signatories, the
\* next transaction index, the supply) stay within it. The weights, the counters of
\* a token owner record and the counts of signatures and transactions are naturals.
TypeOK ==
    /\ clock \in 0 .. MaxClock
    /\ supply \in [Mints -> 0 .. MaxSupply]
    /\ holding \in [Mints -> Nat]
    /\ realm \in Realm
    /\ governance \in [Governances -> GovernanceAccount]
    /\ record \in [Records -> TokenOwnerRecord]
    /\ proposal \in [ProposalIds -> Proposal]
    /\ option \in [OptionIds -> ProposalOption]
    /\ signatory \in [ProposalIds \X Signatories -> {"Empty", "Pending", "SignedOff"}]
    /\ voteRecord \in [ProposalIds \X Records -> VoteRecord]
    /\ transaction \in [TransactionIds -> ProposalTransaction]

ActiveVotes(t) == {p \in ProposalIds : voteRecord[<<p, t>>].status = "Active"}

CountedVotes(t) == {p \in ProposalIds : voteRecord[<<p, t>>].status # "Empty"}

\* The two counters of a token owner record that gate withdrawals are the
\* number of its vote records that are not relinquished, and of all of them,
\* whatever order votes, withdrawals of votes, tips and releases come in.
VoteCountsExact ==
    \A t \in Records :
        /\ record[t].unrelinquished_votes_count = Cardinality(ActiveVotes(t))
        /\ record[t].total_votes_count = Cardinality(CountedVotes(t))

OutstandingStates == {"Draft", "SigningOff", "Voting"}

OutstandingProposals(t) ==
    {p \in ProposalIds : proposal[p].owner = t /\ proposal[p].state \in OutstandingStates}

\* outstanding_proposal_count is the number of proposals of the record that are
\* not decided yet: tipping, finalizing and cancelling each take off exactly
\* one, also when the tipping vote is the owner's own.
OutstandingCountExact ==
    \A t \in Records :
        record[t].outstanding_proposal_count = Cardinality(OutstandingProposals(t))

\* No proposal takes votes, or has been decided, while a signatory appointed to
\* it has not signed; and nobody has signed a draft.
VotingNeedsAllSignatures ==
    \A p \in ProposalIds, s \in Signatories :
        /\ signatory[<<p, s>>] = "Pending" =>
              proposal[p].state \in {"Draft", "SigningOff", "Cancelled"}
        /\ signatory[<<p, s>>] = "SignedOff" =>
              proposal[p].state \notin {"Uninitialized", "Draft"}

\* A proposal in SigningOff has a signatory who can still sign: no order of
\* appointing, removing and signing leaves one that nobody can bring to a vote
\* (the owner can only sign for a proposal without signatories).
SigningOffAwaitsSignature ==
    \A p \in ProposalIds : proposal[p].state = "SigningOff" =>
        \E s \in Signatories : signatory[<<p, s>>] = "Pending"

\* Tokens behind a vote that has not been relinquished are still deposited, so
\* they cannot be voted with from another record. Weights an addin reports are
\* not deposits, and addins are for the community mint only.
DepositsCoverVotes ==
    \A p \in ProposalIds, t \in Records :
        /\ voteRecord[<<p, t>>].status = "Active"
        /\ t[1] = Community =>
              \A c \in PossibleRealmConfigs : ~ c.use_community_voter_weight_addin
        => voteRecord[<<p, t>>].voter_weight <= record[t].deposit

TransactionsOf(p, i) == {j \in 0 .. MaxTransactions - 1 : transaction[<<p, i, j>>].status # "Empty"}

ExecutedOf(p, i) == {j \in 0 .. MaxTransactions - 1 : transaction[<<p, i, j>>].status = "Success"}

\* A proposal that could execute transactions is Completed only when every
\* transaction of every option that won has been executed.
CompletedMeansExecuted ==
    \A p \in ProposalIds :
        proposal[p].state = "Completed" /\ proposal[p].has_deny =>
            \A i \in 1 .. proposal[p].options :
                option[<<p, i>>].vote_result = "Succeeded" =>
                    TransactionsOf(p, i) = ExecutedOf(p, i)

\* A transaction is executed only for an option that won, and only after its
\* hold-up time has passed since the vote was decided.
ExecutedOnlyIfWon ==
    \A x \in TransactionIds :
        transaction[x].status = "Success" =>
            /\ proposal[x[1]].state \in {"Executing", "ExecutingWithErrors", "Completed"}
            /\ option[<<x[1], x[2]>>].vote_result = "Succeeded"
            /\ transaction[x].executed_at
                  > proposal[x[1]].voting_completed_at + transaction[x].hold_up_time

\* What a vote decided is never changed again: the tally, the results of the
\* options and the captured parameters stay, and so do the transactions that
\* were voted on and their hold-up times.
DecisionIsFinal ==
    [][\A p \in ProposalIds : proposal[p].voting_completed_at # NoTime =>
        /\ proposal'[p] = [proposal[p] EXCEPT !.state = proposal'[p].state]
        /\ \A i \in 1 .. MaxOptions :
              /\ option'[<<p, i>>].vote_weight = option[<<p, i>>].vote_weight
              /\ option'[<<p, i>>].vote_result = option[<<p, i>>].vote_result
        /\ \A i \in 1 .. MaxOptions, j \in 0 .. MaxTransactions - 1 :
              /\ transaction'[<<p, i, j>>].instruction = transaction[<<p, i, j>>].instruction
              /\ transaction'[<<p, i, j>>].hold_up_time = transaction[<<p, i, j>>].hold_up_time
              /\ transaction[<<p, i, j>>].executed_at # NoTime =>
                    transaction'[<<p, i, j>>] = transaction[<<p, i, j>>]
      ]_vars

\* The voting_proposal_count of a governance is what its comment says: the
\* number of its proposals in Voting state.
VotingCountExact ==
    \A g \in Governances :
        governance[g].voting_proposal_count
            = Cardinality({p \in ProposalIds : p[1] = g /\ proposal[p].state = "Voting"})

\* ExecutingWithErrors is never left for Completed, as the comment on the state
\* says.
ErrorsNeverComplete ==
    [][\A p \in ProposalIds : proposal[p].state = "ExecutingWithErrors" =>
            proposal'[p].state # "Completed"]_vars

\* FinalizeVote, and releasing a vote that is over, need nobody's signature, and
\* time passes: a client that wants the outcome or the tokens gets them.
FairSpec ==
    /\ Spec
    /\ WF_vars(Tick)
    /\ \A p \in ProposalIds : WF_vars(FinalizeVote(p))
    /\ \A p \in ProposalIds, t \in Records : WF_vars(ReleaseVote(p, t))

\* The vote of p is over before the modelled time is.
VoteCanEnd(p) == proposal[p].voting_at + governance[p[1]].config.max_voting_time < MaxClock

\* A vote that has started does not stay open for ever.
EveryVoteEnds ==
    \A p \in ProposalIds :
        proposal[p].state = "Voting" /\ VoteCanEnd(p) ~> proposal[p].state # "Voting"

\* Tokens are not locked for ever: every vote is withdrawn, or relinquished
\* after the decision, so that it no longer counts against its owner.
EveryVoteIsReleased ==
    \A p \in ProposalIds, t \in Records :
        voteRecord[<<p, t>>].status = "Active" /\ VoteCanEnd(p)
            ~> voteRecord[<<p, t>>].status # "Active"

-------------------------------------------------------------------------------
(***************************************************************************)
(* The abstract view of the proposals: refinement mapping.                 *)
(***************************************************************************)
PhaseOf(state) ==
    CASE state = "Uninitialized" -> "Nothing"
      [] state = "Draft" -> "Draft"
      [] state = "SigningOff" -> "Frozen"
      [] state = "Voting" -> "Voting"
      [] state \in {"Succeeded", "Executing", "ExecutingWithErrors"} -> "Passed"
      [] state = "Defeated" -> "Rejected"
      [] state = "Cancelled" -> "Withdrawn"
      [] state = "Completed" -> "Closed"

Slots == (1 .. MaxOptions) \X (0 .. MaxTransactions - 1)

Lifecycle == INSTANCE ProposalLifecycle WITH
    Proposals <- ProposalIds,
    Transactions <- Slots,
    phase <- [p \in ProposalIds |-> PhaseOf(proposal[p].state)],
    work <- [p \in ProposalIds |->
               {x \in Slots : transaction[<<p, x[1], x[2]>>].status # "Empty"}],
    approved <- [p \in ProposalIds |->
               {x \in Slots : /\ transaction[<<p, x[1], x[2]>>].status # "Empty"
                              /\ option[<<p, x[1]>>].vote_result = "Succeeded"}],
    done <- [p \in ProposalIds |->
               {x \in Slots : transaction[<<p, x[1], x[2]>>].status = "Success"}]

\* Whatever the signatories, voters, authorities and the clock do, a proposal
\* goes through the abstract life cycle: what is executed was approved by the
\* vote, nothing is executed twice, and the last execution closes the proposal.
FollowsLifecycle == Lifecycle!LifecycleSpec
===============================================================================
