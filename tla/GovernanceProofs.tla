--------------------------- MODULE GovernanceProofs ---------------------------
(***************************************************************************)
(* Type correctness of Governance, for every set of owners, governances,   *)
(* proposals and every configuration.                                      *)
(***************************************************************************)
EXTENDS Governance, ProposalVotingProofs

\* What the initial accounts and the inputs of the instructions are made of.
LEMMA Constants ==
    /\ NoTime \in Nat \cup {NoTime}
    /\ Deny \in Votes
    /\ EmptyRecord \in TokenOwnerRecord
    /\ EmptyOption \in ProposalOption
    /\ EmptyProposal \in Proposal
    /\ EmptyVoteRecord \in VoteRecord
    /\ EmptyTransaction \in ProposalTransaction
    /\ PossibleRealmConfigs \subseteq RealmConfig
  <1>1. Deny \in Votes
    BY DEF Votes
  <1>2. EmptyRecord \in TokenOwnerRecord
    BY DEF EmptyRecord, TokenOwnerRecord
  <1>3. EmptyOption \in ProposalOption
    BY BoundAssumption DEF EmptyOption, ProposalOption, OptionVoteResults
  <1>4. EmptyProposal \in Proposal
    BY BoundAssumption DEF EmptyProposal, Proposal, ProposalStates, Mints, VoteTypes, NoTime
  <1>5. EmptyVoteRecord \in VoteRecord
    BY <1>1 DEF EmptyVoteRecord, VoteRecord
  <1>6. EmptyTransaction \in ProposalTransaction
    BY DEF EmptyTransaction, ProposalTransaction, NoTime
  <1>7. PossibleRealmConfigs \subseteq RealmConfig
    BY InputAssumption DEF PossibleRealmConfigs
  <1> QED BY <1>1, <1>2, <1>3, <1>4, <1>5, <1>6, <1>7

\* The accounts of an empty realm have their types.
LEMMA TypeInit == Init => TypeOK
  <1> SUFFICES ASSUME Init PROVE TypeOK
    OBVIOUS
  <1>1. clock \in 0 .. MaxClock /\ supply \in [Mints -> 0 .. MaxSupply] /\ holding \in [Mints -> Nat]
    BY BoundAssumption, InputAssumption DEF Init
  <1>2. realm \in Realm
    BY BoundAssumption, KeyAssumption DEF Init, Realm, PossibleRealmConfigs, Authorities
  <1>3. governance \in [Governances -> GovernanceAccount]
    BY BoundAssumption, InputAssumption DEF Init, GovernanceAccount
  <1>4. /\ record \in [Records -> TokenOwnerRecord]
        /\ proposal \in [ProposalIds -> Proposal]
        /\ option \in [OptionIds -> ProposalOption]
    BY Constants DEF Init
  <1>5. /\ signatory \in [ProposalIds \X Signatories -> {"Empty", "Pending", "SignedOff"}]
        /\ voteRecord \in [ProposalIds \X Records -> VoteRecord]
        /\ transaction \in [TransactionIds -> ProposalTransaction]
    BY Constants DEF Init
  <1> QED BY <1>1, <1>2, <1>3, <1>4, <1>5 DEF TypeOK

\* One proposal changes in one field, or in any number of them.
LEMMA ProposalUpdate ==
    ASSUME TypeOK, NEW p \in ProposalIds, NEW new \in Proposal,
           proposal' = [proposal EXCEPT ![p] = new]
    PROVE  proposal' \in [ProposalIds -> Proposal]
  BY DEF TypeOK

\* A proposal of which only the state is written.
LEMMA StateUpdate ==
    ASSUME TypeOK, NEW p \in ProposalIds, NEW state \in ProposalStates,
           proposal' = [proposal EXCEPT ![p].state = state]
    PROVE  proposal' \in [ProposalIds -> Proposal]
  <1>1. proposal[p] \in Proposal
    BY DEF TypeOK
  <1>2. [proposal[p] EXCEPT !.state = state] \in Proposal
    BY <1>1 DEF Proposal
  <1>3. proposal' = [proposal EXCEPT ![p] = [proposal[p] EXCEPT !.state = state]]
    OBVIOUS
  <1> QED BY <1>2, <1>3, ProposalUpdate

\* A proposal of which only the number of signatories is written.
LEMMA SignatoriesUpdate ==
    ASSUME TypeOK, NEW p \in ProposalIds, NEW count \in 0 .. MaxSignatories,
           proposal' = [proposal EXCEPT ![p].signatories_count = count]
    PROVE  proposal' \in [ProposalIds -> Proposal]
  <1>1. proposal[p] \in Proposal
    BY DEF TypeOK
  <1>2. [proposal[p] EXCEPT !.signatories_count = count] \in Proposal
    BY <1>1 DEF Proposal
  <1>3. proposal' = [proposal EXCEPT ![p] = [proposal[p] EXCEPT !.signatories_count = count]]
    OBVIOUS
  <1> QED BY <1>2, <1>3, ProposalUpdate

\* Instructions on the realm, its governances and the records.
LEMMA TypeRealmNext ==
    ASSUME TypeOK, RealmNext
    PROVE  TypeOK'
  <1>1. ASSUME NEW g \in Governances, NEW c \in GovernanceConfigs, NEW s \in Signers,
               CreateGovernance(g, c, s)
        PROVE  TypeOK'
    BY <1>1, BoundAssumption, InputAssumption DEF CreateGovernance, TypeOK, GovernanceAccount
  <1>2. ASSUME NEW c \in RealmConfigs, NEW s \in Signers, SetRealmConfig(c, s)
        PROVE  TypeOK'
    BY <1>2 DEF SetRealmConfig, ChangedRealm, TypeOK, Realm, PossibleRealmConfigs
  <1>3. ASSUME NEW a \in Authorities, NEW s \in Signers, SetRealmAuthority(a, s)
        PROVE  TypeOK'
    BY <1>3 DEF SetRealmAuthority, TypeOK, Realm
  <1>4. ASSUME NEW t \in Records, CreateTokenOwnerRecord(t)
        PROVE  TypeOK'
    BY <1>4, Constants DEF CreateTokenOwnerRecord, TypeOK, TokenOwnerRecord
  <1>5. ASSUME NEW t \in Records, WithdrawGoverningTokens(t)
        PROVE  TypeOK'
    <2>1. t[1] \in Mints
      BY DEF Records
    <2>2. holding' \in [Mints -> Nat]
      BY <1>5, <2>1 DEF WithdrawGoverningTokens, TypeOK, TokenOwnerRecord
    <2>3. record' \in [Records -> TokenOwnerRecord]
      BY <1>5 DEF WithdrawGoverningTokens, TypeOK, TokenOwnerRecord
    <2> QED BY <1>5, <2>2, <2>3 DEF WithdrawGoverningTokens, TypeOK
  <1>6. ASSUME NEW t \in Records, NEW a \in DepositAmounts, DepositGoverningTokens(t, a)
        PROVE  TypeOK'
    <2>1. t[1] \in Mints /\ a \in Nat
      BY InputAssumption DEF Records
    <2>2. holding' \in [Mints -> Nat]
      BY <1>6, <2>1 DEF DepositGoverningTokens, TypeOK
    <2>3. record[t].deposit + a \in Nat
      BY <2>1 DEF TypeOK, TokenOwnerRecord
    <2>4. record' \in [Records -> TokenOwnerRecord]
      <3> DEFINE new == [record[t] EXCEPT !.exists = TRUE, !.deposit = record[t].deposit + a]
      <3>1. record[t] \in TokenOwnerRecord
        BY DEF TypeOK
      <3>2. new \in TokenOwnerRecord
        BY <2>3, <3>1 DEF TokenOwnerRecord
      <3>3. record' = [record EXCEPT ![t] = new]
        BY <1>6 DEF DepositGoverningTokens, TypeOK
      <3> HIDE DEF new
      <3> QED BY <3>2, <3>3 DEF TypeOK
    <2> QED BY <1>6, <2>2, <2>4 DEF DepositGoverningTokens, TypeOK
  <1>7. ASSUME NEW t \in Records, NEW d \in Delegates \cup {NoKey}, NEW s \in Signers,
               SetGovernanceDelegate(t, d, s)
        PROVE  TypeOK'
    BY <1>7 DEF SetGovernanceDelegate, TypeOK, TokenOwnerRecord
  <1>8. ASSUME NEW m \in Mints, NEW a \in MintAmounts, MintTokens(m, a)
        PROVE  TypeOK'
    BY <1>8, InputAssumption, BoundAssumption DEF MintTokens, TypeOK
  <1>9. ASSUME NEW m \in Mints, NEW a \in MintAmounts, BurnTokens(m, a)
        PROVE  TypeOK'
    BY <1>9, InputAssumption, BoundAssumption DEF BurnTokens, TypeOK
  <1>10. ASSUME NEW m \in Mints, NEW a \in DepositAmounts, SendToHolding(m, a)
         PROVE  TypeOK'
    BY <1>10, InputAssumption DEF SendToHolding, TypeOK
  <1> QED
    BY <1>1, <1>2, <1>3, <1>4, <1>5, <1>6, <1>7, <1>8, <1>9, <1>10 DEF RealmNext

\* Instructions on proposals until the vote starts.
LEMMA TypeDraftNext ==
    ASSUME TypeOK, DraftNext
    PROVE  TypeOK'
  <1>1. ASSUME NEW g \in Governances, NEW m \in Mints, NEW t \in Records,
               NEW k \in ProposalKinds, NEW s \in Signers, CreateProposal(g, m, t, k, s)
        PROVE  TypeOK'
    <2> DEFINE p == <<g, governance[g].proposals_count>>
               new == [EmptyProposal EXCEPT !.state = "Draft", !.mint = m, !.owner = t,
                          !.vote_type = k.vote_type, !.options = k.options,
                          !.has_deny = k.use_deny_option]
    <2>1. new \in Proposal
      <3>1. t \in Mints \X (Owners \cup {NoKey})
        BY DEF Records
      <3>2. k.vote_type \in VoteTypes /\ k.options \in 1 .. MaxOptions /\ k.use_deny_option \in BOOLEAN
        BY <1>1, InputAssumption DEF CreateProposal, assert_valid_proposal_options
      <3> QED BY <3>1, <3>2, Constants DEF Proposal, ProposalStates
    <2>2. proposal' = [proposal EXCEPT ![p] = new]
      BY <1>1 DEF CreateProposal
    <2>3. proposal' \in [ProposalIds -> Proposal]
      <3> HIDE DEF p, new
      <3> QED BY <2>1, <2>2 DEF TypeOK
    <2>4. record' \in [Records -> TokenOwnerRecord]
      <3>1. record[t].outstanding_proposal_count + 1 \in Nat
        BY DEF TypeOK, TokenOwnerRecord
      <3> QED BY <1>1, <3>1, ZenonT(60) DEF CreateProposal, TypeOK, TokenOwnerRecord
    <2>5. governance' \in [Governances -> GovernanceAccount]
      BY <1>1, BoundAssumption DEF CreateProposal, TypeOK, GovernanceAccount
    <2> QED BY <1>1, <2>3, <2>4, <2>5 DEF CreateProposal, TypeOK
  <1>2. ASSUME NEW p \in ProposalIds, NEW x \in Signatories, NEW s \in Signers,
               AddSignatory(p, x, s)
        PROVE  TypeOK'
    <2>1. proposal[p].signatories_count + 1 \in 0 .. MaxSignatories
      BY <1>2, BoundAssumption DEF AddSignatory, TypeOK, Proposal
    <2>2. proposal' \in [ProposalIds -> Proposal]
      BY <1>2, <2>1, SignatoriesUpdate DEF AddSignatory
    <2> QED BY <1>2, <2>2 DEF AddSignatory, TypeOK
  <1>3. ASSUME NEW p \in ProposalIds, NEW x \in Signatories, NEW s \in Signers,
               RemoveSignatory(p, x, s)
        PROVE  TypeOK'
    <2>1. proposal[p].signatories_count - 1 \in 0 .. MaxSignatories
      BY <1>3, BoundAssumption DEF RemoveSignatory, TypeOK, Proposal
    <2>2. proposal' \in [ProposalIds -> Proposal]
      BY <1>3, <2>1, SignatoriesUpdate DEF RemoveSignatory
    <2> QED BY <1>3, <2>2 DEF RemoveSignatory, TypeOK
  <1>4. ASSUME NEW g \in Governances, CountVotingProposal(g)
        PROVE  realm' \in Realm /\ governance' \in [Governances -> GovernanceAccount]
    <2>1. /\ realm.voting_proposal_count + 1 \in 0 .. MaxVotingCount
          /\ governance[g].voting_proposal_count + 1 \in 0 .. MaxVotingCount
      BY <1>4, BoundAssumption DEF CountVotingProposal, TypeOK, Realm, GovernanceAccount
    <2>2. realm' \in Realm
      BY <1>4, <2>1 DEF CountVotingProposal, TypeOK, Realm
    <2>3. governance' \in [Governances -> GovernanceAccount]
      BY <1>4, <2>1, ZenonT(60) DEF CountVotingProposal, TypeOK, GovernanceAccount
    <2> QED BY <2>2, <2>3
  <1>5. ASSUME NEW p \in ProposalIds, NEW s \in Signers, OwnerSignsOff(p, s)
        PROVE  TypeOK'
    <2>1. p[1] \in Governances
      BY DEF ProposalIds
    <2>2. proposal' \in [ProposalIds -> Proposal]
      <3> DEFINE last == proposal[p].signed_off_count = proposal[p].signatories_count
                 new == [proposal[p] EXCEPT !.voting_at = IF last THEN clock ELSE @,
                                            !.state = IF last THEN "Voting" ELSE @]
      <3>1. clock \in Nat /\ proposal[p] \in Proposal
        BY BoundAssumption DEF TypeOK
      <3>2. new \in Proposal
        BY <3>1, ZenonT(60) DEF Proposal, ProposalStates
      <3>3. proposal' = [proposal EXCEPT ![p] = new]
        BY <1>5 DEF OwnerSignsOff
      <3> HIDE DEF new
      <3> QED BY <3>2, <3>3, ProposalUpdate
    <2>3. realm' \in Realm /\ governance' \in [Governances -> GovernanceAccount]
      BY <1>4, <1>5, <2>1 DEF OwnerSignsOff
    <2> QED BY <1>5, <2>2, <2>3 DEF OwnerSignsOff, TypeOK
  <1>6. ASSUME NEW p \in ProposalIds, NEW x \in Signatories, SignatorySignsOff(p, x)
        PROVE  TypeOK'
    <2>1. p[1] \in Governances
      BY DEF ProposalIds
    <2>2. proposal' \in [ProposalIds -> Proposal]
      <3> DEFINE signed == proposal[p].signed_off_count + 1
                 last == signed = proposal[p].signatories_count
                 new == [proposal[p] EXCEPT
                            !.signed_off_count = signed,
                            !.voting_at = IF last THEN clock ELSE @,
                            !.state = IF last THEN "Voting"
                                      ELSE IF signed = 1 THEN "SigningOff" ELSE @]
      <3>1. signed \in Nat /\ clock \in Nat /\ proposal[p] \in Proposal
        BY BoundAssumption DEF TypeOK, Proposal
      <3>2. new \in Proposal
        BY <3>1, ZenonT(60) DEF Proposal, ProposalStates
      <3>3. proposal' = [proposal EXCEPT ![p] = new]
        BY <1>6 DEF SignatorySignsOff
      <3> HIDE DEF new
      <3> QED BY <3>2, <3>3 DEF TypeOK
    <2>3. realm' \in Realm /\ governance' \in [Governances -> GovernanceAccount]
      BY <1>4, <1>6, <2>1 DEF SignatorySignsOff
    <2>4. signatory' \in [ProposalIds \X Signatories -> {"Empty", "Pending", "SignedOff"}]
      BY <1>6 DEF SignatorySignsOff, TypeOK
    <2> QED BY <1>6, <2>2, <2>3, <2>4 DEF SignatorySignsOff, TypeOK
  <1> QED
    BY <1>1, <1>2, <1>3, <1>5, <1>6 DEF DraftNext

\* Every weight a voter can be found to have is a number, and so is every weight
\* of the electorate.
LEMMA VoterWeight ==
    ASSUME TypeOK, NEW t \in Records
    PROVE  resolve_voter_weight(t) \subseteq Nat
  BY InputAssumption, ZenonT(60) DEF TypeOK, TokenOwnerRecord, resolve_voter_weight

\* The weight of the electorate is a number, whatever its source.
LEMMA MaxVoterWeight ==
    ASSUME TypeOK, NEW tally, IsTally(tally), NEW m \in Mints
    PROVE  resolve_max_voter_weight(tally, m) \subseteq Nat
  <1>1. realm.config \in RealmConfig
    BY Constants DEF TypeOK, Realm
  <1>2. realm.config.fraction \in 1 .. FractionBase /\ supply[m] \in Nat
    BY <1>1, BoundAssumption DEF RealmConfig, TypeOK
  <1>3. \A w \in AddinWeights : coerce_max_voter_weight(tally, w) \in Nat
    <2> SUFFICES ASSUME NEW w \in AddinWeights PROVE coerce_max_voter_weight(tally, w) \in Nat
      OBVIOUS
    <2>1. w \in Nat
      BY InputAssumption
    <2> QED BY <2>1, <1>2, BoundAssumption, ElectorateWeight
  <1>4. get_max_voter_weight_from_mint_supply(
            tally, m = Council, realm.config.fraction, FractionBase, supply[m]) \in Nat
    <2>1. (m = Council) \in BOOLEAN /\ FractionBase \in Nat \ {0}
      BY BoundAssumption
    <2> QED BY <1>2, <2>1, ElectorateWeight
  <1> QED BY <1>3, <1>4 DEF resolve_max_voter_weight

\* The tally of a proposal with well-typed options is one of ProposalVoting's.
LEMMA TallyType ==
    ASSUME TypeOK, NEW p \in ProposalIds, NEW options \in [OptionIds -> ProposalOption],
           NEW deny \in Nat
    PROVE  IsTally(Tally(p, options, deny))
  <1>1. proposal[p].options \in 1 .. MaxOptions
    BY DEF TypeOK, Proposal
  <1>2. \A i \in 1 .. proposal[p].options : options[<<p, i>>].vote_weight \in Nat
    BY <1>1, BoundAssumption DEF OptionIds, ProposalOption
  <1>3. Tally(p, options, deny).weights \in [1 .. proposal[p].options -> Nat]
    BY <1>2 DEF Tally
  <1>4. proposal[p].options \in Nat \ {0} /\ Tally(p, options, deny).deny = deny
    BY <1>1, BoundAssumption DEF Tally
  <1> QED BY <1>3, <1>4 DEF IsTally

\* A decided proposal is a proposal.
LEMMA DecidedType ==
    ASSUME TypeOK, NEW p \in ProposalIds, NEW state \in ProposalStates,
           NEW deny \in Nat, NEW max \in Nat
    PROVE  Decided(p, state, deny, max) \in Proposal
  <1>1. proposal[p] \in Proposal /\ clock \in Nat
    BY BoundAssumption DEF TypeOK
  <1>2. governance[p[1]].config.vote_threshold_percentage \in Nat
    BY DEF TypeOK, ProposalIds, GovernanceAccount, GovernanceConfig
  <1> QED BY <1>1, <1>2 DEF Decided, Proposal

\* The voting counts never go below zero.
LEMMA UncountType ==
    ASSUME TypeOK, NEW g \in Governances, UncountVotingProposal(g)
    PROVE  realm' \in Realm /\ governance' \in [Governances -> GovernanceAccount]
  <1>1. /\ saturating_sub(realm.voting_proposal_count, 1) \in 0 .. MaxVotingCount
        /\ saturating_sub(governance[g].voting_proposal_count, 1) \in 0 .. MaxVotingCount
    BY BoundAssumption DEF TypeOK, Realm, GovernanceAccount, saturating_sub
  <1>2. realm' \in Realm
    BY <1>1 DEF UncountVotingProposal, TypeOK, Realm
  <1>3. governance' \in [Governances -> GovernanceAccount]
    BY <1>1, ZenonT(60) DEF UncountVotingProposal, TypeOK, GovernanceAccount
  <1> QED BY <1>2, <1>3

\* Nor does the count of outstanding proposals, when a proposal is closed.
LEMMA OutstandingType ==
    ASSUME TypeOK, NEW p \in ProposalIds, record' = OutstandingDecreased(p)
    PROVE  record' \in [Records -> TokenOwnerRecord]
  <1> DEFINE o == proposal[p].owner
             count == saturating_sub(record[o].outstanding_proposal_count, 1)
  <1>1. record' = [record EXCEPT ![o].outstanding_proposal_count = count]
    BY DEF OutstandingDecreased
  <1>2. o \in Records => count \in Nat
    BY DEF TypeOK, TokenOwnerRecord, saturating_sub
  <1> HIDE DEF o, count
  <1> QED BY <1>1, <1>2, ZenonT(60) DEF TypeOK, TokenOwnerRecord

\* The records after a vote.
LEMMA VotedRecordsType ==
    ASSUME TypeOK, NEW t, NEW owner, NEW tipped \in BOOLEAN
    PROVE  VotedRecords(t, owner, tipped) \in [Records -> TokenOwnerRecord]
  <1> SUFFICES ASSUME NEW x \in Records
               PROVE  VotedRecords(t, owner, tipped)[x] \in TokenOwnerRecord
    BY DEF VotedRecords
  <1>1. record[x] \in TokenOwnerRecord
    BY DEF TypeOK
  <1>2. /\ (IF x = t THEN record[x].unrelinquished_votes_count + 1
            ELSE record[x].unrelinquished_votes_count) \in Nat
        /\ (IF x = t THEN record[x].total_votes_count + 1
            ELSE record[x].total_votes_count) \in Nat
        /\ (IF x = owner /\ tipped THEN saturating_sub(record[x].outstanding_proposal_count, 1)
            ELSE record[x].outstanding_proposal_count) \in Nat
    BY <1>1 DEF TokenOwnerRecord, saturating_sub
  <1> QED BY <1>1, <1>2 DEF VotedRecords, TokenOwnerRecord

\* The states the two ways of deciding a vote can give it.
LEMMA DecisionStates ==
    ASSUME NEW tally, NEW tipping, NEW percentage, NEW max
    PROVE  /\ try_get_tipped_vote_state(tally, tipping, percentage, max)
                  \in {"None", "Succeeded", "Defeated"}
           /\ resolve_final_vote_state(tally, percentage, max)
                  \in {"Completed", "Succeeded", "Defeated"}
           /\ \A i \in DOMAIN resolve_final_vote_results(tally, percentage, max) :
                 resolve_final_vote_results(tally, percentage, max)[i] \in {"Succeeded", "Defeated"}
  <1>1. try_get_tipped_vote_state(tally, tipping, percentage, max)
            \in {"None", "Succeeded", "Defeated"}
    BY DEF try_get_tipped_vote_state
  <1>2. resolve_final_vote_state(tally, percentage, max)
            \in {"Completed", "Succeeded", "Defeated"}
    BY DEF resolve_final_vote_state
  <1>3. \A i \in DOMAIN resolve_final_vote_results(tally, percentage, max) :
            resolve_final_vote_results(tally, percentage, max)[i] \in {"Succeeded", "Defeated"}
    BY DEF resolve_final_vote_results
  <1> QED BY <1>1, <1>2, <1>3

\* The vote record, the token owner records and the proposal after a vote of
\* weight w that leads to state, "None" when the vote goes on.
VoteCounted(p, t, v, w, state, deny, max) ==
    /\ voteRecord' = [voteRecord EXCEPT ![<<p, t>>] =
                        [status |-> "Active", voter_weight |-> w, vote |-> v]]
    /\ record' = VotedRecords(t, proposal[p].owner, state # "None")
    /\ proposal' = [proposal EXCEPT ![p] =
                      IF state = "None" THEN [proposal[p] EXCEPT !.deny = deny]
                      ELSE Decided(p, state, deny, max)]

\* What CastVote does to them, whatever the weight of the electorate.
LEMMA CastVoteEffect ==
    ASSUME NEW p, NEW t, NEW v, NEW s, CastVote(p, t, v, s)
    PROVE  \E w \in resolve_voter_weight(t), state \in {"None", "Succeeded", "Defeated"} :
              \E deny, max : VoteCounted(p, t, v, w, state, deny, max)
  <1> DEFINE options(w) == Approved(p, v, w)
             deny(w) == proposal[p].deny + DenyWeight(v, w)
             tally(w) == Tally(p, options(w), deny(w))
             config == governance[p[1]].config
             tipped(w, max) == try_get_tipped_vote_state(
                                   tally(w), config.vote_tipping,
                                   config.vote_threshold_percentage, max)
  <1>1. PICK w \in resolve_voter_weight(t) : \E max :
           /\ voteRecord' = [voteRecord EXCEPT ![<<p, t>>] =
                               [status |-> "Active", voter_weight |-> w, vote |-> v]]
           /\ record' = VotedRecords(t, proposal[p].owner, tipped(w, max) # "None")
           /\ \/ /\ tipped(w, max) = "None"
                 /\ proposal' = [proposal EXCEPT ![p].deny = deny(w)]
              \/ /\ tipped(w, max) # "None"
                 /\ proposal' = [proposal EXCEPT ![p] = Decided(p, tipped(w, max), deny(w), max)]
    BY DEF CastVote
  <1>2. \A max : tipped(w, max) \in {"None", "Succeeded", "Defeated"}
    BY DecisionStates
  <1> HIDE DEF deny, tally, tipped
  <1>3. \E max : VoteCounted(p, t, v, w, tipped(w, max), deny(w), max)
    BY <1>1 DEF VoteCounted
  <1> QED BY <1>2, <1>3, Zenon

\* CastVote, tipped or not.
LEMMA TypeCastVote ==
    ASSUME TypeOK, NEW p \in ProposalIds, NEW t \in Records, NEW v \in Votes,
           NEW s \in Signers, CastVote(p, t, v, s)
    PROVE  TypeOK'
  <1> DEFINE options(w) == Approved(p, v, w)
             deny(w) == proposal[p].deny + DenyWeight(v, w)
             tally(w) == Tally(p, options(w), deny(w))
             config == governance[p[1]].config
             tipped(w, max) == try_get_tipped_vote_state(
                                   tally(w), config.vote_tipping,
                                   config.vote_threshold_percentage, max)
  <1>1. PICK w \in resolve_voter_weight(t) : \E max \in resolve_max_voter_weight(tally(w), t[1]) :
           /\ voteRecord' = [voteRecord EXCEPT ![<<p, t>>] =
                               [status |-> "Active", voter_weight |-> w, vote |-> v]]
           /\ record' = VotedRecords(t, proposal[p].owner, tipped(w, max) # "None")
           /\ \/ /\ tipped(w, max) = "None"
                 /\ proposal' = [proposal EXCEPT ![p].deny = deny(w)]
                 /\ option' = options(w)
                 /\ UNCHANGED <<realm, governance>>
              \/ /\ tipped(w, max) # "None"
                 /\ proposal' = [proposal EXCEPT ![p] = Decided(p, tipped(w, max), deny(w), max)]
                 /\ option' = [options(w) EXCEPT ![<<p, 1>>].vote_result = tipped(w, max)]
                 /\ UncountVotingProposal(p[1])
    BY DEF CastVote
  <1>2. PICK max \in resolve_max_voter_weight(tally(w), t[1]) :
           /\ voteRecord' = [voteRecord EXCEPT ![<<p, t>>] =
                               [status |-> "Active", voter_weight |-> w, vote |-> v]]
           /\ record' = VotedRecords(t, proposal[p].owner, tipped(w, max) # "None")
           /\ \/ /\ tipped(w, max) = "None"
                 /\ proposal' = [proposal EXCEPT ![p].deny = deny(w)]
                 /\ option' = options(w)
                 /\ UNCHANGED <<realm, governance>>
              \/ /\ tipped(w, max) # "None"
                 /\ proposal' = [proposal EXCEPT ![p] = Decided(p, tipped(w, max), deny(w), max)]
                 /\ option' = [options(w) EXCEPT ![<<p, 1>>].vote_result = tipped(w, max)]
                 /\ UncountVotingProposal(p[1])
    BY <1>1
  <1>3. w \in Nat /\ t[1] \in Mints /\ p[1] \in Governances /\ <<p, t>> \in ProposalIds \X Records
    BY VoterWeight DEF Records, ProposalIds
  <1>4. proposal[p] \in Proposal /\ deny(w) \in Nat
    BY <1>3 DEF TypeOK, Proposal, DenyWeight
  <1>5. options(w) \in [OptionIds -> ProposalOption]
    <2> SUFFICES ASSUME NEW k \in OptionIds PROVE options(w)[k] \in ProposalOption
      BY DEF Approved
    <2>1. option[k] \in ProposalOption
      BY DEF TypeOK
    <2>2. option[k].vote_weight + w \in Nat
      BY <1>3, <2>1 DEF ProposalOption
    <2>3. [option[k] EXCEPT !.vote_weight = option[k].vote_weight + w] \in ProposalOption
      BY <2>1, <2>2 DEF ProposalOption
    <2> QED BY <2>1, <2>3 DEF Approved
  <1> HIDE DEF options, deny
  <1>6. IsTally(tally(w))
    BY <1>4, <1>5, TallyType
  <1> HIDE DEF tally
  <1>7. max \in Nat
    BY <1>3, <1>6, MaxVoterWeight
  <1>8. tipped(w, max) \in {"None", "Succeeded", "Defeated"}
    BY DecisionStates
  <1> HIDE DEF tipped
  <1>9. voteRecord' \in [ProposalIds \X Records -> VoteRecord]
    BY <1>2, <1>3 DEF TypeOK, VoteRecord
  <1>10. record' \in [Records -> TokenOwnerRecord]
    <2>1. (tipped(w, max) # "None") \in BOOLEAN
      OBVIOUS
    <2> QED BY <1>2, <2>1, VotedRecordsType
  <1>11. UNCHANGED <<clock, supply, holding, signatory, transaction>>
    BY DEF CastVote
  <1>12. CASE tipped(w, max) = "None"
    <2>1. [proposal[p] EXCEPT !.deny = deny(w)] \in Proposal
      BY <1>4 DEF Proposal
    <2>2. proposal' = [proposal EXCEPT ![p] = [proposal[p] EXCEPT !.deny = deny(w)]]
      BY <1>2, <1>12
    <2>3. proposal' \in [ProposalIds -> Proposal]
      BY <2>1, <2>2, ProposalUpdate
    <2> QED BY <1>2, <1>5, <1>9, <1>10, <1>11, <1>12, <2>3, ZenonT(60) DEF TypeOK
  <1>13. CASE tipped(w, max) # "None"
    <2>1. tipped(w, max) \in ProposalStates /\ tipped(w, max) \in OptionVoteResults
      BY <1>8, <1>13 DEF ProposalStates, OptionVoteResults
    <2>2. Decided(p, tipped(w, max), deny(w), max) \in Proposal
      BY <1>4, <1>7, <2>1, DecidedType
    <2>3. proposal' \in [ProposalIds -> Proposal]
      BY <1>2, <1>13, <2>2, ProposalUpdate
    <2>4. option' \in [OptionIds -> ProposalOption]
      BY <1>2, <1>5, <1>13, <2>1, ZenonT(60) DEF ProposalOption
    <2>5. realm' \in Realm /\ governance' \in [Governances -> GovernanceAccount]
      BY <1>2, <1>3, <1>13, UncountType
    <2> QED BY <1>9, <1>10, <1>11, <2>3, <2>4, <2>5 DEF TypeOK
  <1> QED BY <1>12, <1>13

\* RelinquishVote while the vote runs: what is taken off had been added.
LEMMA TypeWithdrawVote ==
    ASSUME TypeOK, NEW p \in ProposalIds, NEW t \in Records, NEW s \in Signers,
           WithdrawVote(p, t, s)
    PROVE  TypeOK'
  <1> DEFINE v == voteRecord[<<p, t>>]
             deny == proposal[p].deny - DenyWeight(v.vote, v.voter_weight)
  <1>1. v \in VoteRecord /\ proposal[p] \in Proposal /\ record[t] \in TokenOwnerRecord
    BY DEF TypeOK
  <1>2. v.voter_weight \in Nat
    BY <1>1 DEF VoteRecord
  <1>3. option' \in [OptionIds -> ProposalOption]
    <2>1. option' = Unapproved(p, v.vote, v.voter_weight)
      BY DEF WithdrawVote
    <2>2. SUFFICES ASSUME NEW k \in OptionIds PROVE option'[k] \in ProposalOption
      BY <2>1 DEF Unapproved
    <2>3. option[k] \in ProposalOption
      BY DEF TypeOK
    <2>4. CASE k[1] = p /\ k[2] \in v.vote.choices
      <3>1. option[k].vote_weight >= v.voter_weight
        <4>1. k = <<p, k[2]>>
          BY <2>4 DEF OptionIds
        <4> QED BY <2>4, <4>1 DEF WithdrawVote
      <3>2. option[k].vote_weight - v.voter_weight \in Nat
        BY <1>2, <2>3, <3>1 DEF ProposalOption
      <3>3. [option[k] EXCEPT !.vote_weight = option[k].vote_weight - v.voter_weight]
                \in ProposalOption
        BY <2>3, <3>2 DEF ProposalOption
      <3> QED BY <2>1, <2>4, <3>3 DEF Unapproved
    <2>5. CASE ~ (k[1] = p /\ k[2] \in v.vote.choices)
      BY <2>1, <2>3, <2>5 DEF Unapproved
    <2> QED BY <2>4, <2>5
  <1>4. proposal' \in [ProposalIds -> Proposal]
    <2>1. deny \in Nat
      BY <1>1, <1>2 DEF WithdrawVote, DenyWeight, Proposal
    <2>2. proposal' = [proposal EXCEPT ![p] = [proposal[p] EXCEPT !.deny = deny]]
      BY DEF WithdrawVote
    <2> HIDE DEF deny
    <2>3. [proposal[p] EXCEPT !.deny = deny] \in Proposal
      BY <1>1, <2>1 DEF Proposal
    <2> QED BY <2>2, <2>3, ProposalUpdate
  <1>5. voteRecord' \in [ProposalIds \X Records -> VoteRecord]
    BY Constants DEF WithdrawVote, TypeOK
  <1>6. record' \in [Records -> TokenOwnerRecord]
    <2>1. record[t].unrelinquished_votes_count - 1 \in Nat /\ record[t].total_votes_count - 1 \in Nat
      BY <1>1 DEF WithdrawVote, TokenOwnerRecord
    <2>2. record' = [record EXCEPT
                        ![t].unrelinquished_votes_count = record[t].unrelinquished_votes_count - 1,
                        ![t].total_votes_count = record[t].total_votes_count - 1]
      BY DEF WithdrawVote
    <2> QED BY <2>1, <2>2 DEF TypeOK, TokenOwnerRecord
  <1> QED BY <1>3, <1>4, <1>5, <1>6 DEF WithdrawVote, TypeOK

\* RelinquishVote once the vote is over.
LEMMA TypeReleaseVote ==
    ASSUME TypeOK, NEW p \in ProposalIds, NEW t \in Records, ReleaseVote(p, t)
    PROVE  TypeOK'
  <1>1. voteRecord' \in [ProposalIds \X Records -> VoteRecord]
    BY ZenonT(60) DEF ReleaseVote, TypeOK, VoteRecord
  <1>2. record[t].unrelinquished_votes_count - 1 \in Nat
    BY DEF ReleaseVote, TypeOK, TokenOwnerRecord
  <1>3. record' = [record EXCEPT
                      ![t].unrelinquished_votes_count = record[t].unrelinquished_votes_count - 1]
    BY DEF ReleaseVote
  <1>4. record' \in [Records -> TokenOwnerRecord]
    BY <1>2, <1>3, ZenonT(60) DEF TypeOK, TokenOwnerRecord
  <1> QED BY <1>1, <1>4 DEF ReleaseVote, TypeOK

\* FinalizeVote, for every outcome.
LEMMA TypeFinalizeVote ==
    ASSUME TypeOK, NEW p \in ProposalIds, FinalizeVote(p)
    PROVE  TypeOK'
  <1> DEFINE tally == Tally(p, option, proposal[p].deny)
             percentage == governance[p[1]].config.vote_threshold_percentage
             results(max) == resolve_final_vote_results(tally, percentage, max)
             state(max) == resolve_final_vote_state(tally, percentage, max)
  <1>1. PICK max \in resolve_max_voter_weight(tally, proposal[p].mint) :
           /\ proposal' = [proposal EXCEPT ![p] = Decided(p, state(max), proposal[p].deny, max)]
           /\ option' = [k \in OptionIds |->
                           IF k[1] = p /\ k[2] \in DOMAIN results(max)
                           THEN [option[k] EXCEPT !.vote_result = results(max)[k[2]]]
                           ELSE option[k]]
    BY ZenonT(60) DEF FinalizeVote
  <1>2. /\ proposal[p].mint \in Mints /\ proposal[p].deny \in Nat /\ p[1] \in Governances
        /\ option \in [OptionIds -> ProposalOption]
    BY DEF TypeOK, Proposal, ProposalIds
  <1>3. IsTally(tally)
    BY <1>2, TallyType
  <1>4. max \in Nat
    BY <1>2, <1>3, MaxVoterWeight
  <1>5. /\ state(max) \in {"Completed", "Succeeded", "Defeated"}
        /\ \A i \in DOMAIN results(max) : results(max)[i] \in {"Succeeded", "Defeated"}
    BY DecisionStates
  <1> HIDE DEF tally, results, state
  <1>6. proposal' \in [ProposalIds -> Proposal]
    <2>1. state(max) \in ProposalStates
      BY <1>5 DEF ProposalStates
    <2>2. Decided(p, state(max), proposal[p].deny, max) \in Proposal
      BY <1>2, <1>4, <2>1, DecidedType
    <2> QED BY <1>1, <2>2, ProposalUpdate
  <1>7. option' \in [OptionIds -> ProposalOption]
    BY <1>1, <1>2, <1>5 DEF ProposalOption, OptionVoteResults
  <1>8. record' \in [Records -> TokenOwnerRecord]
    BY OutstandingType DEF FinalizeVote
  <1>9. realm' \in Realm /\ governance' \in [Governances -> GovernanceAccount]
    BY <1>2, UncountType DEF FinalizeVote
  <1> QED BY <1>6, <1>7, <1>8, <1>9 DEF FinalizeVote, TypeOK

\* CancelProposal, from every state it is allowed in.
LEMMA TypeCancelProposal ==
    ASSUME TypeOK, NEW p \in ProposalIds, NEW s \in Signers, CancelProposal(p, s)
    PROVE  TypeOK'
  <1>1. record' \in [Records -> TokenOwnerRecord]
    BY OutstandingType DEF CancelProposal
  <1>2. proposal' \in [ProposalIds -> Proposal]
    BY StateUpdate DEF CancelProposal, ProposalStates
  <1>3. realm' \in Realm /\ governance' \in [Governances -> GovernanceAccount]
    <2>1. p[1] \in Governances
      BY DEF ProposalIds
    <2>2. CASE proposal[p].state = "Voting"
      BY <2>1, <2>2, UncountType DEF CancelProposal
    <2>3. CASE proposal[p].state # "Voting"
      BY <2>3 DEF CancelProposal, TypeOK
    <2> QED BY <2>2, <2>3
  <1> QED BY <1>1, <1>2, <1>3 DEF CancelProposal, TypeOK

\* The instructions of the vote.
LEMMA TypeVoteNext ==
    ASSUME TypeOK, VoteNext
    PROVE  TypeOK'
  BY TypeCastVote, TypeWithdrawVote, TypeReleaseVote, TypeFinalizeVote, TypeCancelProposal
  DEF VoteNext

\* The instructions on transactions.
LEMMA TypeTransactionNext ==
    ASSUME TypeOK, TransactionNext
    PROVE  TypeOK'
  <1> SUFFICES ASSUME NEW p \in ProposalIds, NEW i \in 1 .. MaxOptions,
                      NEW j \in 0 .. MaxTransactions - 1,
                      \/ \E h \in HoldUpTimes, n \in Instructions, s \in Signers :
                            InsertTransaction(p, i, j, h, n, s)
                      \/ \E s \in Signers : RemoveTransaction(p, i, j, s)
                      \/ ExecuteTransaction(p, i, j)
                      \/ \E s \in Signers : FlagTransactionError(p, i, j, s)
               PROVE  TypeOK'
    BY DEF TransactionNext, TransactionIds
  <1> DEFINE k == <<p, i>>
             x == <<p, i, j>>
  <1>1. p[1] \in Governances /\ k \in OptionIds /\ x \in TransactionIds
    BY DEF OptionIds, TransactionIds, ProposalIds
  <1>2. option[k] \in ProposalOption /\ proposal[p] \in Proposal
        /\ transaction[x] \in ProposalTransaction
    BY <1>1 DEF TypeOK
  <1>3. ASSUME NEW h \in HoldUpTimes, NEW n \in Instructions, NEW s \in Signers,
               InsertTransaction(p, i, j, h, n, s)
        PROVE  TypeOK'
    <2> DEFINE new == [option[k] EXCEPT
                          !.transactions_next_index = IF j = @ THEN @ + 1 ELSE @,
                          !.transactions_count = @ + 1]
               index == IF j = option[k].transactions_next_index
                        THEN option[k].transactions_next_index + 1
                        ELSE option[k].transactions_next_index
    <2>1. index \in 0 .. MaxTransactions /\ option[k].transactions_count + 1 \in Nat
      BY <1>2, BoundAssumption DEF ProposalOption
    <2>2. option' = [option EXCEPT ![k].transactions_next_index = index,
                                   ![k].transactions_count = option[k].transactions_count + 1]
      BY <1>3 DEF InsertTransaction
    <2>3. option' \in [OptionIds -> ProposalOption]
      <3> HIDE DEF index, k
      <3> QED BY <1>1, <1>2, <2>1, <2>2 DEF TypeOK, ProposalOption
    <2>4. transaction' \in [TransactionIds -> ProposalTransaction]
      BY <1>1, <1>3, InputAssumption DEF InsertTransaction, TypeOK, ProposalTransaction
    <2> QED BY <1>3, <2>3, <2>4 DEF InsertTransaction, TypeOK
  <1>4. ASSUME NEW s \in Signers, RemoveTransaction(p, i, j, s)
        PROVE  TypeOK'
    <2>1. option[k].transactions_count - 1 \in Nat
      BY <1>2, <1>4 DEF RemoveTransaction, ProposalOption
    <2>2. option' = [option EXCEPT ![k].transactions_count = option[k].transactions_count - 1]
      BY <1>4 DEF RemoveTransaction
    <2>3. option' \in [OptionIds -> ProposalOption]
      <3> HIDE DEF k
      <3> QED BY <1>1, <1>2, <2>1, <2>2, ZenonT(60) DEF TypeOK, ProposalOption
    <2>4. transaction' \in [TransactionIds -> ProposalTransaction]
      BY <1>1, <1>4, Constants DEF RemoveTransaction, TypeOK
    <2> QED BY <1>4, <2>3, <2>4 DEF RemoveTransaction, TypeOK
  <1>5. ASSUME ExecuteTransaction(p, i, j)
        PROVE  TypeOK'
    <2> DEFINE n == transaction[x].instruction
    <2>1. n \in Instructions \cup {[kind |-> "Other"]}
      BY <1>2 DEF ProposalTransaction
    <2>2. Invoke(p[1], n)
      BY <1>5 DEF ExecuteTransaction
    <2>3. realm' \in Realm /\ governance' \in [Governances -> GovernanceAccount]
      <3> HIDE DEF n
      <3>1. CASE n.kind = "Other"
        BY <2>2, <3>1 DEF Invoke, TypeOK
      <3>2. CASE n.kind = "SetGovernanceConfig"
        <4>1. n.config \in GovernanceConfig
          BY <2>1, <3>2, InputAssumption
        <4>2. realm' = realm /\ governance' = [governance EXCEPT ![p[1]].config = n.config]
          BY <2>2, <3>2 DEF Invoke
        <4> QED BY <1>1, <4>1, <4>2 DEF TypeOK, GovernanceAccount
      <3>3. CASE n.kind = "SetRealmConfig"
        <4>1. n.config \in PossibleRealmConfigs
          BY <2>1, <3>3 DEF PossibleRealmConfigs
        <4>2. governance' = governance /\ realm' = [realm EXCEPT !.config = n.config]
          BY <2>2, <3>3 DEF Invoke, ChangedRealm
        <4> QED BY <4>1, <4>2 DEF TypeOK, Realm
      <3>4. CASE n.kind = "SetRealmAuthority"
        <4>1. n.authority \in Authorities
          BY <2>1, <3>4, InputAssumption
        <4>2. governance' = governance /\ realm' = [realm EXCEPT !.authority = n.authority]
          BY <2>2, <3>4 DEF Invoke
        <4> QED BY <4>1, <4>2 DEF TypeOK, Realm
      <3> QED BY <2>2, <3>1, <3>2, <3>3, <3>4 DEF Invoke
    <2>4. option' \in [OptionIds -> ProposalOption]
      <3>1. option[k].transactions_executed_count + 1 \in Nat
        BY <1>2 DEF ProposalOption
      <3>2. option' = [option EXCEPT ![k].transactions_executed_count =
                                         option[k].transactions_executed_count + 1]
        BY <1>5 DEF ExecuteTransaction
      <3> HIDE DEF k
      <3> QED BY <1>1, <3>1, <3>2 DEF TypeOK, ProposalOption
    <2>5. proposal' \in [ProposalIds -> Proposal]
      <3>1. PICK done \in BOOLEAN :
              proposal' = [proposal EXCEPT ![p].state =
                              IF done THEN "Completed"
                              ELSE IF @ = "Succeeded" THEN "Executing" ELSE @]
        BY <1>5 DEF ExecuteTransaction
      <3> DEFINE state == IF done THEN "Completed"
                          ELSE IF proposal[p].state = "Succeeded" THEN "Executing"
                          ELSE proposal[p].state
      <3>2. state \in ProposalStates
        BY <1>2 DEF Proposal, ProposalStates
      <3>3. proposal' = [proposal EXCEPT ![p].state = state]
        BY <3>1
      <3> HIDE DEF state
      <3> QED BY <3>2, <3>3, StateUpdate
    <2>6. transaction' \in [TransactionIds -> ProposalTransaction]
      <3>1. clock \in Nat
        BY BoundAssumption DEF TypeOK
      <3>2. transaction' = [transaction EXCEPT ![x].status = "Success", ![x].executed_at = clock]
        BY <1>5 DEF ExecuteTransaction
      <3> HIDE DEF x
      <3> QED BY <1>1, <3>1, <3>2, ZenonT(60) DEF TypeOK, ProposalTransaction
    <2> QED BY <1>5, <2>3, <2>4, <2>5, <2>6 DEF ExecuteTransaction, TypeOK
  <1>6. ASSUME NEW s \in Signers, FlagTransactionError(p, i, j, s)
        PROVE  TypeOK'
    <2>1. proposal' \in [ProposalIds -> Proposal]
      BY <1>6, StateUpdate DEF FlagTransactionError, ProposalStates
    <2>2. transaction' \in [TransactionIds -> ProposalTransaction]
      BY <1>1, <1>6, ZenonT(60) DEF FlagTransactionError, TypeOK, ProposalTransaction
    <2> QED BY <1>6, <2>1, <2>2 DEF FlagTransactionError, TypeOK
  <1> QED BY <1>3, <1>4, <1>5, <1>6

\* The inductive step of type correctness.
LEMMA TypeNext ==
    ASSUME TypeOK, [Next]_vars
    PROVE  TypeOK'
  <1>1. CASE Tick
    BY <1>1, BoundAssumption DEF Tick, TypeOK
  <1>2. CASE UNCHANGED vars
    BY <1>2 DEF vars, TypeOK
  <1> QED
    BY <1>1, <1>2, TypeRealmNext, TypeDraftNext, TypeVoteNext, TypeTransactionNext DEF Next

\* Every account keeps the shape of its struct: none of the counters that the
\* handlers decrease with checked_sub, or without any check, goes below zero, and
\* a proposal always has an option to vote for.
THEOREM TypeCorrect == Spec => []TypeOK
  <1>1. Init => TypeOK
    BY TypeInit
  <1>2. TypeOK /\ [Next]_vars => TypeOK'
    BY TypeNext
  <1> QED BY <1>1, <1>2, PTL DEF Spec
===============================================================================
