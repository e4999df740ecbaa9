---------------------- MODULE GovernanceElectorateProofs ----------------------
(***************************************************************************)
(* The electorate of a vote with one option, for every number of owners:   *)
(* it is at least the weight of all the voters when an addin or a proper   *)
(* fraction of the supply says how large it is.                            *)
(***************************************************************************)
EXTENDS GovernanceWeightProofs

\* Every voter on one option is for it or against it.
LEMMA YesNoWeightCast ==
    ASSUME NEW p \in ProposalIds
    PROVE  WeightsInv /\ proposal[p].options = 1 =>
              WeightCast(p) = option[<<p, 1>>].vote_weight + proposal[p].deny
  <1> SUFFICES ASSUME WeightsInv, proposal[p].options = 1
               PROVE  WeightCast(p) = option[<<p, 1>>].vote_weight + proposal[p].deny
    OBVIOUS
  <1>1. 1 \in OptionNumbers
    BY BoundAssumption DEF OptionNumbers
  <1>2. /\ WeightsFor(p, 1) \in [Records -> Nat]
        /\ WeightsAgainst(p) \in [Records -> Nat]
        /\ WeightsCast(p) \in [Records -> Nat]
    BY <1>1, WeightsType DEF WeightsInv
  <1>3. ASSUME NEW t \in Records
        PROVE  WeightsCast(p)[t] = WeightsFor(p, 1)[t] + WeightsAgainst(p)[t]
    <2> DEFINE v == voteRecord[<<p, t>>].vote
               c == WeightsCast(p)[t]
    <2>1. c \in Nat
      BY <1>2
    <2>2. /\ WeightsFor(p, 1)[t] = IF 1 \in v.choices THEN c ELSE 0
          /\ WeightsAgainst(p)[t] = IF v.kind = "Deny" THEN c ELSE 0
      BY DEF WeightsFor, WeightsAgainst
    <2>3. CASE voteRecord[<<p, t>>].status = "Empty"
      <3>1. c = 0
        BY <2>3 DEF WeightsCast
      <3> HIDE DEF c
      <3> QED BY <2>2, <3>1 DEF c
    <2>4. CASE voteRecord[<<p, t>>].status # "Empty"
      <3>1. IsVote(v, 1)
        BY <2>4 DEF WeightsInv, VotesValid
      <3>2. 1 \in v.choices <=> v.kind # "Deny"
        BY <3>1 DEF IsVote, Deny
      <3> HIDE DEF c, v
      <3> QED BY <2>1, <2>2, <3>2 DEF c
    <2> QED BY <2>3, <2>4
  <1>4. Total(Records, WeightsCast(p)) = Total(Records, WeightsFor(p, 1)) + Total(Records, WeightsAgainst(p))
    BY <1>2, <1>3, FiniteRecords, TotalSum
  <1> QED BY <1>1, <1>4 DEF WeightCast, WeightsInv, VoteWeightsExact, OptionNumbers

\* So it is after a step.
LEMMA YesNoWeightCastNext ==
    ASSUME NEW p \in ProposalIds
    PROVE  (WeightsInv /\ proposal[p].options = 1 =>
              WeightCast(p) = option[<<p, 1>>].vote_weight + proposal[p].deny)'
  <1>1. WeightsInv /\ proposal[p].options = 1 =>
              WeightCast(p) = option[<<p, 1>>].vote_weight + proposal[p].deny
    BY YesNoWeightCast
  <1> QED BY <1>1, PTL

\* An adjusted electorate is at least the first option together with Deny.
LEMMA AdjustedElectorate ==
    ASSUME TypeOK, NEW tally, IsTally(tally), NEW m \in Mints, IsAdjusted(m),
           NEW max \in resolve_max_voter_weight(tally, m)
    PROVE  tally.weights[1] + tally.deny <= max
  <1>1. /\ total_vote_weight(tally) \in Nat
        /\ tally.weights[1] + tally.deny <= total_vote_weight(tally)
        /\ tally.weights[1] \in Nat /\ tally.deny \in Nat
    BY TotalVoteWeight DEF IsTally
  <1>2. max \in Nat
    BY MaxVoterWeight
  <1>3. realm.config.fraction \in 1 .. FractionBase /\ supply[m] \in Nat /\ m # Council
    BY Constants, BoundAssumption DEF TypeOK, Realm, RealmConfig, IsAdjusted, Community, Council
  <1>4. total_vote_weight(tally) <= max
    <2>1. CASE realm.config.use_max_community_voter_weight_addin
      <3>1. PICK a \in AddinWeights : max = coerce_max_voter_weight(tally, a)
        BY <2>1 DEF resolve_max_voter_weight, IsAdjusted
      <3>2. a \in Nat
        BY InputAssumption
      <3> QED BY <1>1, <3>1, <3>2 DEF coerce_max_voter_weight
    <2>2. CASE ~ realm.config.use_max_community_voter_weight_addin
      <3>1. realm.config.fraction # FractionBase
        BY <2>2 DEF IsAdjusted
      <3>2. max = get_max_voter_weight_from_mint_supply(
                      tally, m = Council, realm.config.fraction, FractionBase, supply[m])
        BY <2>2 DEF resolve_max_voter_weight
      <3>3. (m = Council) \in BOOLEAN /\ FractionBase \in Nat \ {0}
        BY BoundAssumption
      <3>4. get_max_voter_weight_from_mint_supply(
                tally, m = Council, realm.config.fraction, FractionBase, supply[m])
                  >= total_vote_weight(tally)
        BY <1>3, <3>1, <3>3, ElectorateWeight
      <3> QED BY <1>1, <1>2, <3>2, <3>4
    <2> QED BY <2>1, <2>2
  <1> QED BY <1>1, <1>2, <1>4

\* A vote is decided by FinalizeVote or by a vote that tips it.
LEMMA DecidingSteps ==
    ASSUME TypeOK, ProposalsNumbered, [Next]_vars, NEW p \in ProposalIds,
           proposal[p].state = "Voting", proposal'[p].state \in DecidedStates
    PROVE  \/ FinalizeVote(p)
           \/ \E t \in Records, v \in Votes, s \in Signers : CastVote(p, t, v, s)
  <1> DEFINE Deciding == \/ FinalizeVote(p)
                         \/ \E t \in Records, v \in Votes, s \in Signers : CastVote(p, t, v, s)
  <1>1. proposal'[p] # proposal[p] /\ proposal'[p].state \notin {"Draft", "Voting", "Cancelled"}
    BY DEF DecidedStates
  <1>2. CASE RealmNext \/ Tick \/ UNCHANGED vars
    BY <1>1, <1>2, RealmKeepsProposals
  <1>3. CASE DraftNext
    <2>1. ASSUME NEW g \in Governances, NEW m \in Mints, NEW t \in Records, NEW k, NEW s,
                 CreateProposal(g, m, t, k, s)
          PROVE  FALSE
      <3>1. PICK q \in ProposalIds : /\ proposal[q].state = "Uninitialized"
                                    /\ \A o \in ProposalIds \ {q} : proposal'[o] = proposal[o]
        BY <2>1, CreatedProposal
      <3> QED BY <1>1, <3>1
    <2>2. ASSUME NEW q \in ProposalIds, NEW x, NEW s,
                 \/ AddSignatory(q, x, s) \/ RemoveSignatory(q, x, s)
                 \/ OwnerSignsOff(q, s) \/ SignatorySignsOff(q, x)
          PROVE  FALSE
      BY <1>1, <2>2, DraftKeepsProposals
    <2> QED BY <1>3, <2>1, <2>2 DEF DraftNext
  <1>4. CASE VoteNext
    <2>1. ASSUME NEW q \in ProposalIds, NEW t \in Records, NEW v \in Votes, NEW s \in Signers,
                 CastVote(q, t, v, s)
          PROVE  Deciding
      <3>1. \A o \in ProposalIds \ {q} : proposal'[o] = proposal[o]
        BY <2>1, CastVoteProposal
      <3> QED BY <1>1, <2>1, <3>1
    <2>2. ASSUME NEW q \in ProposalIds, NEW t, NEW s, WithdrawVote(q, t, s)
          PROVE  FALSE
      <3>1. proposal' = [proposal EXCEPT ![q].deny = @ - DenyWeight(voteRecord[<<q, t>>].vote,
                                                                   voteRecord[<<q, t>>].voter_weight)]
        BY <2>2 DEF WithdrawVote
      <3>2. proposal'[p].state = proposal[p].state
        BY <3>1 DEF TypeOK, Proposal
      <3> QED BY <1>1, <3>2
    <2>3. ASSUME NEW q, NEW t, ReleaseVote(q, t) PROVE FALSE
      BY <1>1, <2>3 DEF ReleaseVote
    <2>4. ASSUME NEW q \in ProposalIds, FinalizeVote(q) PROVE Deciding
      <3>1. \A o \in ProposalIds \ {q} : proposal'[o] = proposal[o]
        BY <2>4, FinalizeVoteWrites
      <3> QED BY <1>1, <2>4, <3>1
    <2>5. ASSUME NEW q \in ProposalIds, NEW s, CancelProposal(q, s) PROVE FALSE
      <3>1. proposal'[q].state = "Cancelled" /\ \A o \in ProposalIds \ {q} : proposal'[o] = proposal[o]
        BY <2>5 DEF CancelProposal, TypeOK, Proposal
      <3> QED BY <1>1, <3>1
    <2> HIDE DEF Deciding
    <2>6. Deciding
      BY <1>4, <2>1, <2>2, <2>3, <2>4, <2>5 DEF VoteNext
    <2> QED BY <2>6 DEF Deciding
  <1>5. CASE TransactionNext
    <2>1. PICK q \in ProposalIds : Executed(q)
      BY <1>1, <1>5, TransactionsKeepProposals
    <2> QED BY <1>1, <2>1 DEF Executed
  <1> QED BY <1>2, <1>3, <1>4, <1>5 DEF Next

\* The tally of a vote with one option.
LEMMA TallyOfOne ==
    ASSUME NEW p, proposal[p].options = 1, NEW options, NEW deny
    PROVE  /\ Tally(p, options, deny).weights[1] = options[<<p, 1>>].vote_weight
           /\ Tally(p, options, deny).deny = deny
  BY DEF Tally

\* FinalizeVote decides with an electorate that covers the votes.
LEMMA FinalizeElectorate ==
    ASSUME WeightsInv, NEW p \in ProposalIds, FinalizeVote(p), proposal[p].options = 1,
           IsAdjusted(proposal[p].mint)
    PROVE  /\ option'[<<p, 1>>].vote_weight + proposal'[p].deny <= proposal'[p].max_vote_weight
           /\ proposal'[p].options = 1
  <1> DEFINE tally == Tally(p, option, proposal[p].deny)
  <1>1. PICK max \in resolve_max_voter_weight(tally, proposal[p].mint) :
            /\ proposal'[p].max_vote_weight = max
            /\ proposal'[p].deny = proposal[p].deny
            /\ proposal'[p].options = proposal[p].options
            /\ \A k \in OptionIds : option'[k].vote_weight = option[k].vote_weight
    BY FinalizeVoteWrites DEF WeightsInv
  <1>2. proposal[p].deny \in Nat /\ proposal[p].mint \in Mints /\ option \in [OptionIds -> ProposalOption]
    BY DEF WeightsInv, TypeOK, Proposal
  <1>3. IsTally(tally)
    BY <1>2, TallyType DEF WeightsInv
  <1>4. tally.weights[1] = option[<<p, 1>>].vote_weight /\ tally.deny = proposal[p].deny
    BY TallyOfOne
  <1>5. <<p, 1>> \in OptionIds
    BY Addresses, BoundAssumption DEF OptionNumbers
  <1> HIDE DEF tally
  <1>6. tally.weights[1] + tally.deny <= max
    BY <1>2, <1>3, AdjustedElectorate DEF WeightsInv
  <1> QED BY <1>1, <1>4, <1>5, <1>6

\* So does the vote that tips it.
LEMMA TipElectorate ==
    ASSUME WeightsInv, NEW p \in ProposalIds, NEW t \in Records, NEW v, NEW s, CastVote(p, t, v, s),
           proposal'[p].state \in DecidedStates, proposal[p].options = 1, IsAdjusted(proposal[p].mint)
    PROVE  /\ option'[<<p, 1>>].vote_weight + proposal'[p].deny <= proposal'[p].max_vote_weight
           /\ proposal'[p].options = 1
  <1>0. TypeOK /\ proposal[p].state = "Voting" /\ proposal[p].mint = t[1] /\ t[1] \in Mints
    BY DEF WeightsInv, CastVote, Records
  <1>1. PICK w \in resolve_voter_weight(t) : \E max \in resolve_max_voter_weight(NewTally(p, v, w), t[1]) :
           \E state \in {"None", "Succeeded", "Defeated"} : VoteCast(p, t, v, w, state, max)
    BY CastVoteWrites
  <1>2. PICK max \in resolve_max_voter_weight(NewTally(p, v, w), t[1]) :
           \E state \in {"None", "Succeeded", "Defeated"} : VoteCast(p, t, v, w, state, max)
    BY <1>1
  <1>3. PICK state \in {"None", "Succeeded", "Defeated"} : VoteCast(p, t, v, w, state, max)
    BY <1>2
  <1> DEFINE tally == NewTally(p, v, w)
             deny == proposal[p].deny + DenyWeight(v, w)
  <1>4. w \in Nat
    BY <1>0, VoterWeight
  <1>5. <<p, 1>> \in OptionIds /\ 1 \in OptionNumbers
    BY Addresses, BoundAssumption DEF OptionNumbers
  <1>6. VoteCounts(p, v, w, state, max)
    BY <1>0, <1>3, <1>4, VoteCastFields
  <1>7. proposal'[p].max_vote_weight = max
    BY <1>6 DEF DecidedStates, VoteCounts
  <1>8. IsTally(tally)
    <2>1. deny \in Nat
      BY <1>0, <1>4 DEF TypeOK, Proposal, DenyWeight
    <2>2. Approved(p, v, w) \in [OptionIds -> ProposalOption]
      BY <1>0, <1>4 DEF TypeOK, Approved, ProposalOption
    <2> QED BY <1>0, <2>1, <2>2, TallyType DEF NewTally
  <1>9. tally.weights[1] = Approved(p, v, w)[<<p, 1>>].vote_weight /\ tally.deny = deny
    BY TallyOfOne DEF NewTally
  <1> HIDE DEF tally, deny
  <1>10. tally.weights[1] + tally.deny <= max
    BY <1>0, <1>2, <1>8, AdjustedElectorate DEF tally
  <1>11. /\ proposal'[p].deny = deny
         /\ proposal'[p].options = 1
         /\ option'[<<p, 1>>].vote_weight = Approved(p, v, w)[<<p, 1>>].vote_weight
    BY <1>5, <1>6 DEF VoteCounts, deny
  <1> QED BY <1>7, <1>9, <1>10, <1>11

\* When a vote with one option is decided, by FinalizeVote or by a vote that tips
\* it, and an addin or a proper fraction of the supply says how large the
\* electorate is, then the electorate is at least the weight of all the votes
\* cast: coerce_max_voter_weight raises it to the best option plus Deny, and with
\* one option that is the sum over all the voters.
THEOREM ElectorateCorrect == Spec => YesNoElectorateCoversVotes
  <1> DEFINE Covers == \A p \in ProposalIds :
                /\ proposal[p].state = "Voting" /\ proposal'[p].state \in DecidedStates
                /\ proposal[p].options = 1
                /\ IsAdjusted(proposal[p].mint)
                => WeightCast(p)' <= proposal'[p].max_vote_weight
  <1>1. ASSUME WeightsInv, WeightsInv', [Next]_vars PROVE Covers
    <2> SUFFICES ASSUME NEW p \in ProposalIds,
                        proposal[p].state = "Voting", proposal'[p].state \in DecidedStates,
                        proposal[p].options = 1, IsAdjusted(proposal[p].mint)
                 PROVE  WeightCast(p)' <= proposal'[p].max_vote_weight
      OBVIOUS
    <2>1. \/ FinalizeVote(p)
          \/ \E t \in Records, v \in Votes, s \in Signers : CastVote(p, t, v, s)
      BY <1>1, DecidingSteps DEF WeightsInv
    <2>2. /\ option'[<<p, 1>>].vote_weight + proposal'[p].deny <= proposal'[p].max_vote_weight
          /\ proposal'[p].options = 1
      BY <1>1, <2>1, FinalizeElectorate, TipElectorate
    <2>3. WeightCast(p)' = option'[<<p, 1>>].vote_weight + proposal'[p].deny
      BY <1>1, <2>2, YesNoWeightCastNext
    <2> QED BY <2>2, <2>3
  <1>2. WeightsInv /\ WeightsInv' /\ [Next]_vars => [Covers]_vars
    BY <1>1
  <1>3. [][Covers]_vars => YesNoElectorateCoversVotes
    BY PTL DEF YesNoElectorateCoversVotes
  <1> HIDE DEF Covers
  <1> QED BY <1>2, <1>3, WeightsInvariant, PTL DEF Spec
===============================================================================
