------------------------ MODULE GovernanceWeightProofs ------------------------
(***************************************************************************)
(* The weights of a vote, for every number of owners, proposals and        *)
(* options: they are the sums of the votes cast.                           *)
(***************************************************************************)
EXTENDS GovernanceLedger, GovernanceProposalProofs, TotalsLemmas

OptionNumbers == 1 .. MaxOptions

\* The options of a proposal have addresses.
LEMMA Addresses == \A p \in ProposalIds, i \in OptionNumbers : <<p, i>> \in OptionIds
  BY DEF OptionIds, OptionNumbers

\* There are finitely many records, so their votes have totals.
LEMMA FiniteRecords == IsFiniteSet(Records)
  <1>1. Mints = {Community} \cup {Council}
    BY DEF Mints
  <1>2. IsFiniteSet(Mints)
    BY <1>1, FS_Singleton, FS_Union
  <1> QED BY <1>2, FiniteAssumption, FS_Product DEF Records

-------------------------------------------------------------------------------
(***************************************************************************)
(* Steps that write no vote record.                                        *)
(***************************************************************************)
\* A proposal that exists stays, with as many options.
KeepsVote(p) ==
    /\ proposal'[p].options = proposal[p].options
    /\ proposal[p].state # "Uninitialized" => proposal'[p].state # "Uninitialized"

SameWeights(p) ==
    /\ proposal'[p].deny = proposal[p].deny
    /\ \A i \in OptionNumbers : option'[<<p, i>>].vote_weight = option[<<p, i>>].vote_weight

\* Steps that neither create a proposal nor write a vote record.
NoVoteWritten ==
    /\ UNCHANGED voteRecord
    /\ \A p \in ProposalIds : KeepsVote(p) /\ SameWeights(p)

\* Signatories, signatures and cancelling.
LEMMA DraftKeepsVotes ==
    ASSUME TypeOK, NEW p \in ProposalIds, NEW x, NEW s,
           \/ AddSignatory(p, x, s) \/ RemoveSignatory(p, x, s)
           \/ OwnerSignsOff(p, s) \/ SignatorySignsOff(p, x)
           \/ CancelProposal(p, s)
    PROVE  NoVoteWritten
  <1>1. proposal[p] \in Proposal
    BY DEF TypeOK
  <1>2. UNCHANGED <<option, voteRecord>>
    BY DEF AddSignatory, RemoveSignatory, OwnerSignsOff, SignatorySignsOff, CancelProposal
  <1> DEFINE Goal == /\ \A q \in ProposalIds \ {p} : proposal'[q] = proposal[q]
                     /\ proposal'[p].deny = proposal[p].deny
                     /\ proposal'[p].options = proposal[p].options
                     /\ proposal'[p].state # "Uninitialized"
  <1> SUFFICES Goal
    BY <1>2 DEF NoVoteWritten, KeepsVote, SameWeights
  <1>3. CASE AddSignatory(p, x, s)
    BY <1>1, <1>3 DEF AddSignatory, TypeOK, Proposal
  <1>4. CASE RemoveSignatory(p, x, s)
    BY <1>1, <1>4 DEF RemoveSignatory, TypeOK, Proposal
  <1>5. CASE OwnerSignsOff(p, s)
    BY <1>1, <1>5 DEF OwnerSignsOff, TypeOK, Proposal
  <1>6. CASE SignatorySignsOff(p, x)
    BY <1>1, <1>6 DEF SignatorySignsOff, TypeOK, Proposal
  <1>7. CASE CancelProposal(p, s)
    BY <1>1, <1>7 DEF CancelProposal, TypeOK, Proposal
  <1> QED BY <1>3, <1>4, <1>5, <1>6, <1>7

\* What FinalizeVote leaves in the proposal and its options.
LEMMA FinalizeVoteWrites ==
    ASSUME TypeOK, NEW p \in ProposalIds, FinalizeVote(p)
    PROVE  \E max \in resolve_max_voter_weight(Tally(p, option, proposal[p].deny), proposal[p].mint) :
              /\ proposal'[p].max_vote_weight = max
              /\ proposal'[p].deny = proposal[p].deny
              /\ proposal'[p].options = proposal[p].options
              /\ proposal'[p].state # "Uninitialized"
              /\ \A q \in ProposalIds \ {p} : proposal'[q] = proposal[q]
              /\ \A k \in OptionIds : option'[k].vote_weight = option[k].vote_weight
  <1>1. proposal[p] \in Proposal /\ \A k \in OptionIds : option[k] \in ProposalOption
    BY DEF TypeOK
  <1> DEFINE tally == Tally(p, option, proposal[p].deny)
             percentage == governance[p[1]].config.vote_threshold_percentage
             state(max) == resolve_final_vote_state(tally, percentage, max)
             results(max) == resolve_final_vote_results(tally, percentage, max)
  <1>2. PICK max \in resolve_max_voter_weight(tally, proposal[p].mint) :
           /\ proposal' = [proposal EXCEPT ![p] = Decided(p, state(max), proposal[p].deny, max)]
           /\ option' = [k \in OptionIds |->
                           IF k[1] = p /\ k[2] \in DOMAIN results(max)
                           THEN [option[k] EXCEPT !.vote_result = results(max)[k[2]]]
                           ELSE option[k]]
    BY ZenonT(60) DEF FinalizeVote
  <1>3. state(max) # "Uninitialized"
    BY DecisionStates
  <1> HIDE DEF tally, percentage, state, results
  <1> DEFINE new == Decided(p, state(max), proposal[p].deny, max)
  <1>4. /\ new.max_vote_weight = max /\ new.deny = proposal[p].deny
        /\ new.options = proposal[p].options /\ new.state = state(max)
    BY <1>1 DEF Decided, Proposal
  <1> HIDE DEF new
  <1>5. proposal'[p] = new /\ \A q \in ProposalIds \ {p} : proposal'[q] = proposal[q]
    BY <1>2 DEF TypeOK, new
  <1>6. \A k \in OptionIds : option'[k].vote_weight = option[k].vote_weight
    BY <1>1, <1>2 DEF ProposalOption
  <1> QED BY <1>2, <1>3, <1>4, <1>5, <1>6 DEF tally

\* The decision at the end of a vote.
LEMMA FinalizeKeepsVotes ==
    ASSUME TypeOK, NEW p \in ProposalIds, FinalizeVote(p)
    PROVE  NoVoteWritten
  <1>1. UNCHANGED voteRecord
    BY DEF FinalizeVote
  <1>2. /\ proposal'[p].deny = proposal[p].deny
        /\ proposal'[p].options = proposal[p].options
        /\ proposal'[p].state # "Uninitialized"
        /\ \A q \in ProposalIds \ {p} : proposal'[q] = proposal[q]
        /\ \A k \in OptionIds : option'[k].vote_weight = option[k].vote_weight
    BY FinalizeVoteWrites
  <1> QED BY <1>1, <1>2, Addresses DEF NoVoteWritten, KeepsVote, SameWeights

\* Transactions of a proposal.
LEMMA TransactionsKeepWeights ==
    ASSUME TypeOK, TransactionNext
    PROVE  NoVoteWritten
  <1>1. PICK x \in TransactionIds :
           \/ \E h \in HoldUpTimes, n \in Instructions, s \in Signers :
                 InsertTransaction(x[1], x[2], x[3], h, n, s)
           \/ \E s \in Signers : RemoveTransaction(x[1], x[2], x[3], s)
           \/ ExecuteTransaction(x[1], x[2], x[3])
           \/ \E s \in Signers : FlagTransactionError(x[1], x[2], x[3], s)
    BY DEF TransactionNext
  <1>2. PICK p \in ProposalIds, i \in OptionNumbers, j \in 0 .. MaxTransactions - 1 : x = <<p, i, j>>
    BY DEF TransactionIds, OptionNumbers
  <1>3. /\ proposal[p] \in Proposal
        /\ <<p, i>> \in OptionIds /\ \A k \in OptionIds : option[k] \in ProposalOption
    BY Addresses DEF TypeOK
  <1> DEFINE Goal == /\ \A q \in ProposalIds : KeepsVote(q) /\ proposal'[q].deny = proposal[q].deny
                     /\ \A k \in OptionIds : option'[k].vote_weight = option[k].vote_weight
                     /\ UNCHANGED voteRecord
  <1> SUFFICES Goal
    BY Addresses DEF NoVoteWritten, SameWeights
  <1>4. ASSUME NEW h, NEW n, NEW s, InsertTransaction(p, i, j, h, n, s)
        PROVE  Goal
    BY <1>3, <1>4 DEF InsertTransaction, KeepsVote, TypeOK, ProposalOption
  <1>5. ASSUME NEW s, RemoveTransaction(p, i, j, s)
        PROVE  Goal
    BY <1>3, <1>5 DEF RemoveTransaction, KeepsVote, TypeOK, ProposalOption
  <1>6. ASSUME ExecuteTransaction(p, i, j)
        PROVE  Goal
    <2>1. PICK done \in BOOLEAN :
             proposal' = [proposal EXCEPT ![p].state =
                              IF done THEN "Completed"
                              ELSE IF @ = "Succeeded" THEN "Executing" ELSE @]
      BY <1>6, ZenonT(60) DEF ExecuteTransaction
    <2>2. option' = [option EXCEPT ![<<p, i>>].transactions_executed_count = @ + 1] /\ UNCHANGED voteRecord
      BY <1>6 DEF ExecuteTransaction
    <2>3. \A q \in ProposalIds : KeepsVote(q) /\ proposal'[q].deny = proposal[q].deny
      BY <1>3, <2>1 DEF KeepsVote, TypeOK, Proposal
    <2>4. \A k \in OptionIds : option'[k].vote_weight = option[k].vote_weight
      BY <1>3, <2>2 DEF TypeOK, ProposalOption
    <2> QED BY <2>2, <2>3, <2>4
  <1>7. ASSUME NEW s, FlagTransactionError(p, i, j, s)
        PROVE  Goal
    BY <1>3, <1>7 DEF FlagTransactionError, KeepsVote, TypeOK, Proposal
  <1> QED BY <1>1, <1>2, <1>4, <1>5, <1>6, <1>7

\* The steps that create a proposal or write a vote record, or none of them.
LEMMA VoteSteps ==
    ASSUME TypeOK, [Next]_vars
    PROVE  \/ NoVoteWritten
           \/ \E g \in Governances, m \in Mints, t \in Records, k \in ProposalKinds, s \in Signers :
                 CreateProposal(g, m, t, k, s)
           \/ \E p \in ProposalIds, t \in Records, v \in Votes, s \in Signers : CastVote(p, t, v, s)
           \/ \E p \in ProposalIds, t \in Records, s \in Signers : WithdrawVote(p, t, s)
           \/ \E p \in ProposalIds, t \in Records : ReleaseVote(p, t)
  <1>1. CASE UNCHANGED <<proposal, option, voteRecord>>
    BY <1>1 DEF NoVoteWritten, KeepsVote, SameWeights
  <1>2. CASE RealmNext
    BY <1>1, <1>2 DEF RealmNext, CreateGovernance, SetRealmConfig, SetRealmAuthority,
                      CreateTokenOwnerRecord, WithdrawGoverningTokens, DepositGoverningTokens,
                      SetGovernanceDelegate, MintTokens, BurnTokens, SendToHolding
  <1>3. CASE DraftNext
    BY <1>3, DraftKeepsVotes DEF DraftNext
  <1>4. CASE VoteNext
    BY <1>4, DraftKeepsVotes, FinalizeKeepsVotes DEF VoteNext
  <1>5. CASE TransactionNext
    BY <1>5, TransactionsKeepWeights
  <1>6. CASE Tick \/ UNCHANGED vars
    BY <1>1, <1>6 DEF Tick, vars
  <1> QED BY <1>2, <1>3, <1>4, <1>5, <1>6 DEF Next

-------------------------------------------------------------------------------
(***************************************************************************)
(* Steps that write a vote record.                                         *)
(***************************************************************************)
\* What a vote adds to each side is a number.
LEMMA WeightsType ==
    ASSUME NEW p \in ProposalIds
    PROVE  TypeOK => /\ \A i \in OptionNumbers : WeightsFor(p, i) \in [Records -> Nat]
                     /\ WeightsAgainst(p) \in [Records -> Nat]
                     /\ WeightsCast(p) \in [Records -> Nat]
  <1> SUFFICES ASSUME TypeOK, NEW t \in Records
               PROVE  voteRecord[<<p, t>>].voter_weight \in Nat
    BY DEF WeightsFor, WeightsAgainst, WeightsCast
  <1>1. voteRecord[<<p, t>>] \in VoteRecord
    BY DEF TypeOK
  <1> QED BY <1>1 DEF VoteRecord

\* So it is after a step.
LEMMA WeightsTypeNext ==
    ASSUME NEW p \in ProposalIds
    PROVE  (TypeOK => /\ \A i \in OptionNumbers : WeightsFor(p, i) \in [Records -> Nat]
                      /\ WeightsAgainst(p) \in [Records -> Nat]
                      /\ WeightsCast(p) \in [Records -> Nat])'
  <1>1. TypeOK => /\ \A i \in OptionNumbers : WeightsFor(p, i) \in [Records -> Nat]
                  /\ WeightsAgainst(p) \in [Records -> Nat]
                  /\ WeightsCast(p) \in [Records -> Nat]
    BY WeightsType
  <1> QED BY <1>1, PTL

\* The vote record of t is the only one written, and each weight of p changes by
\* what that record counts for it.
VoteChanged(p, t) ==
    /\ \A q \in ProposalIds, x \in Records :
          <<q, x>> # <<p, t>> => voteRecord'[<<q, x>>] = voteRecord[<<q, x>>]
    /\ \A q \in ProposalIds \ {p} : SameWeights(q)
    /\ \A i \in OptionNumbers :
          option'[<<p, i>>].vote_weight =
             option[<<p, i>>].vote_weight - WeightsFor(p, i)[t] + WeightsFor(p, i)'[t]
    /\ proposal'[p].deny = proposal[p].deny - WeightsAgainst(p)[t] + WeightsAgainst(p)'[t]

\* Proposals whose votes and weights stay as they are keep their sums.
LEMMA WeightsFrame ==
    ASSUME VoteWeightsExact, NEW q \in ProposalIds, SameWeights(q),
           \A x \in Records : voteRecord'[<<q, x>>] = voteRecord[<<q, x>>]
    PROVE  /\ \A i \in OptionNumbers :
                 option'[<<q, i>>].vote_weight = Total(Records, WeightsFor(q, i)')
           /\ proposal'[q].deny = Total(Records, WeightsAgainst(q)')
  <1>0. WeightsCast(q)' = WeightsCast(q)
    BY DEF WeightsCast
  <1>1. WeightsAgainst(q)' = WeightsAgainst(q)
    BY <1>0 DEF WeightsAgainst
  <1>2. ASSUME NEW i \in OptionNumbers PROVE WeightsFor(q, i)' = WeightsFor(q, i)
    BY <1>0 DEF WeightsFor
  <1> QED BY <1>1, <1>2 DEF VoteWeightsExact, SameWeights, OptionNumbers

\* One vote changes each sum by what it counts.
LEMMA WeightsMove ==
    ASSUME TypeOK, TypeOK', VoteWeightsExact, NEW p \in ProposalIds, NEW t \in Records,
           VoteChanged(p, t)
    PROVE  VoteWeightsExact'
  <1>1. ASSUME NEW q \in ProposalIds \ {p}
        PROVE  /\ \A i \in OptionNumbers :
                     option'[<<q, i>>].vote_weight = Total(Records, WeightsFor(q, i)')
               /\ proposal'[q].deny = Total(Records, WeightsAgainst(q)')
    <2>1. SameWeights(q) /\ \A x \in Records : voteRecord'[<<q, x>>] = voteRecord[<<q, x>>]
      BY DEF VoteChanged
    <2> QED BY <2>1, WeightsFrame
  <1>2. proposal'[p].deny = Total(Records, WeightsAgainst(p)')
    <2>1. WeightsAgainst(p) \in [Records -> Nat] /\ WeightsAgainst(p)' \in [Records -> Nat]
      BY WeightsType, WeightsTypeNext
    <2>2. \A x \in Records \ {t} : WeightsAgainst(p)[x] = WeightsAgainst(p)'[x]
      BY DEF VoteChanged, WeightsAgainst, WeightsCast
    <2>3. Total(Records, WeightsAgainst(p)') =
             Total(Records, WeightsAgainst(p)) - WeightsAgainst(p)[t] + WeightsAgainst(p)'[t]
      BY <2>1, <2>2, FiniteRecords, TotalChange
    <2> QED BY <2>3 DEF VoteChanged, VoteWeightsExact
  <1>3. ASSUME NEW i \in OptionNumbers
        PROVE  option'[<<p, i>>].vote_weight = Total(Records, WeightsFor(p, i)')
    <2>1. WeightsFor(p, i) \in [Records -> Nat] /\ WeightsFor(p, i)' \in [Records -> Nat]
      BY WeightsType, WeightsTypeNext
    <2>2. \A x \in Records \ {t} : WeightsFor(p, i)[x] = WeightsFor(p, i)'[x]
      BY DEF VoteChanged, WeightsFor, WeightsCast
    <2>3. Total(Records, WeightsFor(p, i)') =
             Total(Records, WeightsFor(p, i)) - WeightsFor(p, i)[t] + WeightsFor(p, i)'[t]
      BY <2>1, <2>2, FiniteRecords, TotalChange
    <2> QED BY <2>3 DEF VoteChanged, VoteWeightsExact, OptionNumbers
  <1> QED BY <1>1, <1>2, <1>3 DEF VoteWeightsExact, OptionNumbers

\* What CastVote writes: the record of a vote of weight w, and the proposal and its
\* options after it, when it leads to state ("None" if the vote goes on) with an
\* electorate of max.
VoteCast(p, t, v, w, state, max) ==
    LET deny == proposal[p].deny + DenyWeight(v, w)
    IN  /\ voteRecord' = [voteRecord EXCEPT ![<<p, t>>] =
                            [status |-> "Active", voter_weight |-> w, vote |-> v]]
        /\ IF state = "None"
           THEN /\ proposal' = [proposal EXCEPT ![p].deny = deny]
                /\ option' = Approved(p, v, w)
           ELSE /\ proposal' = [proposal EXCEPT ![p] = Decided(p, state, deny, max)]
                /\ option' = [Approved(p, v, w) EXCEPT ![<<p, 1>>].vote_result = state]

\* The tally CastVote decides on.
NewTally(p, v, w) == Tally(p, Approved(p, v, w), proposal[p].deny + DenyWeight(v, w))

\* Every CastVote writes that for some weight, electorate and state.
LEMMA CastVoteWrites ==
    ASSUME NEW p \in ProposalIds, NEW t, NEW v, NEW s, CastVote(p, t, v, s)
    PROVE  \E w \in resolve_voter_weight(t) : \E max \in resolve_max_voter_weight(NewTally(p, v, w), t[1]) :
              \E state \in {"None", "Succeeded", "Defeated"} : VoteCast(p, t, v, w, state, max)
  <1> DEFINE deny(w) == proposal[p].deny + DenyWeight(v, w)
             tally(w) == Tally(p, Approved(p, v, w), deny(w))
             config == governance[p[1]].config
             tipped(w, max) == try_get_tipped_vote_state(
                                   tally(w), config.vote_tipping,
                                   config.vote_threshold_percentage, max)
             Writes(w, max) ==
               /\ voteRecord' = [voteRecord EXCEPT ![<<p, t>>] =
                                   [status |-> "Active", voter_weight |-> w, vote |-> v]]
               /\ \/ /\ tipped(w, max) = "None"
                     /\ proposal' = [proposal EXCEPT ![p].deny = deny(w)]
                     /\ option' = Approved(p, v, w)
                  \/ /\ tipped(w, max) # "None"
                     /\ proposal' = [proposal EXCEPT ![p] = Decided(p, tipped(w, max), deny(w), max)]
                     /\ option' = [Approved(p, v, w) EXCEPT ![<<p, 1>>].vote_result = tipped(w, max)]
  <1>1. PICK w \in resolve_voter_weight(t) :
           \E max \in resolve_max_voter_weight(tally(w), t[1]) : Writes(w, max)
    BY DEF CastVote
  <1>2. PICK max \in resolve_max_voter_weight(tally(w), t[1]) : Writes(w, max)
    BY <1>1
  <1>3. tipped(w, max) \in {"None", "Succeeded", "Defeated"}
    BY DecisionStates
  <1>4. VoteCast(p, t, v, w, tipped(w, max), max)
    BY <1>2 DEF VoteCast
  <1>5. tally(w) = NewTally(p, v, w)
    BY DEF NewTally
  <1> HIDE DEF tipped, tally
  <1> QED BY <1>2, <1>3, <1>4, <1>5

\* The weights and the proposal after a vote.
VoteCounts(p, v, w, state, max) ==
    /\ \A q \in ProposalIds \ {p} : proposal'[q] = proposal[q]
    /\ proposal'[p].deny = proposal[p].deny + DenyWeight(v, w)
    /\ proposal'[p].options = proposal[p].options
    /\ proposal'[p].state = IF state = "None" THEN "Voting" ELSE state
    /\ state # "None" => proposal'[p].max_vote_weight = max
    /\ \A q \in ProposalIds, i \in OptionNumbers :
          option'[<<q, i>>].vote_weight = Approved(p, v, w)[<<q, i>>].vote_weight
    /\ \A q \in ProposalIds, i \in OptionNumbers :
          Approved(p, v, w)[<<q, i>>].vote_weight =
             IF q = p /\ i \in v.choices THEN option[<<q, i>>].vote_weight + w
             ELSE option[<<q, i>>].vote_weight

\* They follow from what CastVote writes.
LEMMA VoteCastFields ==
    ASSUME TypeOK, NEW p \in ProposalIds, NEW t \in Records, NEW v, NEW w \in Nat, NEW max,
           NEW state \in {"None", "Succeeded", "Defeated"}, VoteCast(p, t, v, w, state, max),
           proposal[p].state = "Voting"
    PROVE  VoteCounts(p, v, w, state, max)
  <1> DEFINE deny == proposal[p].deny + DenyWeight(v, w)
  <1>1. proposal[p] \in Proposal /\ \A k \in OptionIds : option[k] \in ProposalOption
    BY DEF TypeOK
  <1>2. \A q \in ProposalIds, i \in OptionNumbers :
           Approved(p, v, w)[<<q, i>>].vote_weight =
              IF q = p /\ i \in v.choices THEN option[<<q, i>>].vote_weight + w
              ELSE option[<<q, i>>].vote_weight
    BY <1>1, Addresses DEF Approved, ProposalOption
  <1>3. CASE state = "None"
    <2>1. proposal' = [proposal EXCEPT ![p].deny = deny] /\ option' = Approved(p, v, w)
      BY <1>3 DEF VoteCast
    <2> QED BY <1>1, <1>2, <1>3, <2>1 DEF VoteCounts, TypeOK, Proposal
  <1>4. CASE state # "None"
    <2>1. /\ proposal' = [proposal EXCEPT ![p] = Decided(p, state, deny, max)]
          /\ option' = [Approved(p, v, w) EXCEPT ![<<p, 1>>].vote_result = state]
      BY <1>4 DEF VoteCast
    <2>2. /\ Decided(p, state, deny, max).deny = deny
          /\ Decided(p, state, deny, max).options = proposal[p].options
          /\ Decided(p, state, deny, max).state = state
          /\ Decided(p, state, deny, max).max_vote_weight = max
      BY <1>1 DEF Decided, Proposal
    <2>3. /\ DOMAIN Approved(p, v, w) = OptionIds
          /\ \A k \in OptionIds :
                Approved(p, v, w)[k] = [option[k] EXCEPT !.vote_weight = Approved(p, v, w)[k].vote_weight]
      BY <1>1 DEF Approved, ProposalOption
    <2>4. \A q \in ProposalIds, i \in OptionNumbers :
             option'[<<q, i>>].vote_weight = Approved(p, v, w)[<<q, i>>].vote_weight
      BY <1>1, <2>1, <2>3, Addresses DEF ProposalOption
    <2>5. /\ proposal'[p] = Decided(p, state, deny, max)
          /\ \A q \in ProposalIds \ {p} : proposal'[q] = proposal[q]
      BY <2>1 DEF TypeOK
    <2> QED BY <1>2, <1>4, <2>2, <2>4, <2>5 DEF VoteCounts
  <1> QED BY <1>3, <1>4

\* A vote is counted where it is recorded.
LEMMA CastVoteChanges ==
    ASSUME TypeOK, NEW p \in ProposalIds, NEW t \in Records, NEW v, NEW s, CastVote(p, t, v, s)
    PROVE  /\ VoteChanged(p, t)
           /\ \A q \in ProposalIds : KeepsVote(q)
           /\ voteRecord'[<<p, t>>].vote = v
  <1>1. PICK w \in resolve_voter_weight(t) : \E max \in resolve_max_voter_weight(NewTally(p, v, w), t[1]) :
           \E state \in {"None", "Succeeded", "Defeated"} : VoteCast(p, t, v, w, state, max)
    BY CastVoteWrites
  <1>2. PICK max : \E state \in {"None", "Succeeded", "Defeated"} : VoteCast(p, t, v, w, state, max)
    BY <1>1
  <1>3. PICK state \in {"None", "Succeeded", "Defeated"} : VoteCast(p, t, v, w, state, max)
    BY <1>2
  <1>4. voteRecord' = [voteRecord EXCEPT ![<<p, t>>] =
                         [status |-> "Active", voter_weight |-> w, vote |-> v]]
    BY <1>3 DEF VoteCast
  <1>5. voteRecord[<<p, t>>].status = "Empty" /\ proposal[p].state = "Voting" /\ w \in Nat
    BY VoterWeight DEF CastVote
  <1>6. /\ \A q \in ProposalIds \ {p} : proposal'[q] = proposal[q]
        /\ proposal'[p].deny = proposal[p].deny + DenyWeight(v, w)
        /\ proposal'[p].options = proposal[p].options
        /\ proposal'[p].state # "Uninitialized"
        /\ \A q \in ProposalIds, i \in OptionNumbers :
              option'[<<q, i>>].vote_weight =
                 IF q = p /\ i \in v.choices THEN option[<<q, i>>].vote_weight + w
                 ELSE option[<<q, i>>].vote_weight
    <2>1. VoteCounts(p, v, w, state, max)
      BY <1>3, <1>5, VoteCastFields
    <2>2. proposal'[p].state # "Uninitialized"
      BY <2>1 DEF VoteCounts
    <2>3. \A q \in ProposalIds, i \in OptionNumbers :
             option'[<<q, i>>].vote_weight =
                IF q = p /\ i \in v.choices THEN option[<<q, i>>].vote_weight + w
                ELSE option[<<q, i>>].vote_weight
      BY <2>1 DEF VoteCounts
    <2> QED BY <2>1, <2>2, <2>3 DEF VoteCounts
  <1>7. /\ WeightsAgainst(p)[t] = 0 /\ WeightsAgainst(p)'[t] = DenyWeight(v, w)
        /\ \A i \in OptionNumbers : /\ WeightsFor(p, i)[t] = 0
                                    /\ WeightsFor(p, i)'[t] = IF i \in v.choices THEN w ELSE 0
    BY <1>4, <1>5 DEF WeightsAgainst, WeightsFor, WeightsCast, DenyWeight, TypeOK
  <1>8. /\ voteRecord'[<<p, t>>].vote = v
        /\ \A q \in ProposalIds, x \in Records :
              <<q, x>> # <<p, t>> => voteRecord'[<<q, x>>] = voteRecord[<<q, x>>]
    BY <1>4 DEF TypeOK
  <1>9. /\ proposal[p].deny \in Nat /\ DenyWeight(v, w) \in Nat
        /\ \A i \in OptionNumbers : option[<<p, i>>].vote_weight \in Nat
    BY <1>5, Addresses DEF TypeOK, Proposal, ProposalOption, DenyWeight
  <1>10. VoteChanged(p, t)
    <2>1. \A q \in ProposalIds \ {p} : SameWeights(q)
      BY <1>6 DEF SameWeights
    <2>2. ASSUME NEW i \in OptionNumbers
          PROVE  option'[<<p, i>>].vote_weight =
                    option[<<p, i>>].vote_weight - WeightsFor(p, i)[t] + WeightsFor(p, i)'[t]
      <3>1. /\ option'[<<p, i>>].vote_weight = IF i \in v.choices THEN option[<<p, i>>].vote_weight + w
                                              ELSE option[<<p, i>>].vote_weight
            /\ WeightsFor(p, i)[t] = 0
            /\ WeightsFor(p, i)'[t] = IF i \in v.choices THEN w ELSE 0
            /\ option[<<p, i>>].vote_weight \in Nat /\ w \in Nat
        BY <1>5, <1>6, <1>7, <1>9
      <3> QED BY <3>1
    <2>3. proposal'[p].deny = proposal[p].deny - WeightsAgainst(p)[t] + WeightsAgainst(p)'[t]
      BY <1>6, <1>7, <1>9
    <2> QED BY <1>8, <2>1, <2>2, <2>3 DEF VoteChanged
  <1>11. \A q \in ProposalIds : KeepsVote(q)
    BY <1>6 DEF KeepsVote
  <1> QED BY <1>8, <1>10, <1>11

\* A withdrawn vote takes off what it added.
LEMMA WithdrawVoteChanges ==
    ASSUME TypeOK, NEW p \in ProposalIds, NEW t \in Records, NEW s, WithdrawVote(p, t, s)
    PROVE  /\ VoteChanged(p, t)
           /\ \A q \in ProposalIds : KeepsVote(q)
           /\ voteRecord'[<<p, t>>].status = "Empty"
  <1> DEFINE r == voteRecord[<<p, t>>]
             w == r.voter_weight
  <1>1. /\ r.status = "Active"
        /\ option' = Unapproved(p, r.vote, w)
        /\ proposal' = [proposal EXCEPT ![p].deny = @ - DenyWeight(r.vote, w)]
        /\ voteRecord' = [voteRecord EXCEPT ![<<p, t>>] = EmptyVoteRecord]
    BY DEF WithdrawVote
  <1>2. r \in VoteRecord /\ proposal[p] \in Proposal /\ \A k \in OptionIds : option[k] \in ProposalOption
    BY DEF TypeOK
  <1>3. w \in Nat /\ proposal[p].deny \in Nat /\ DenyWeight(r.vote, w) \in Nat
        /\ \A i \in OptionNumbers : option[<<p, i>>].vote_weight \in Nat
    BY <1>2, Addresses DEF VoteRecord, Proposal, ProposalOption, DenyWeight
  <1>4. /\ WeightsAgainst(p)[t] = DenyWeight(r.vote, w)
        /\ \A i \in OptionNumbers : WeightsFor(p, i)[t] = IF i \in r.vote.choices THEN w ELSE 0
    BY <1>1 DEF WeightsAgainst, WeightsFor, WeightsCast, DenyWeight
  <1>5. /\ voteRecord'[<<p, t>>].status = "Empty"
        /\ WeightsAgainst(p)'[t] = 0
        /\ \A i \in OptionNumbers : WeightsFor(p, i)'[t] = 0
    BY <1>1 DEF WeightsAgainst, WeightsFor, WeightsCast, EmptyVoteRecord, TypeOK
  <1>6. \A q \in ProposalIds, x \in Records :
          <<q, x>> # <<p, t>> => voteRecord'[<<q, x>>] = voteRecord[<<q, x>>]
    BY <1>1 DEF TypeOK
  <1>7. \A q \in ProposalIds, i \in OptionNumbers :
           option'[<<q, i>>].vote_weight =
              IF q = p /\ i \in r.vote.choices THEN option[<<q, i>>].vote_weight - w
              ELSE option[<<q, i>>].vote_weight
    BY <1>1, <1>2, Addresses DEF Unapproved, ProposalOption
  <1>8. \A q \in ProposalIds :
           /\ proposal'[q].deny = IF q = p THEN proposal[p].deny - DenyWeight(r.vote, w) ELSE proposal[q].deny
           /\ KeepsVote(q)
    BY <1>1, <1>2 DEF TypeOK, Proposal, KeepsVote
  <1> HIDE DEF r
  <1>9. VoteChanged(p, t)
    <2>1. \A q \in ProposalIds \ {p} : SameWeights(q)
      BY <1>7, <1>8 DEF SameWeights
    <2>2. \A i \in OptionNumbers :
            option'[<<p, i>>].vote_weight =
               option[<<p, i>>].vote_weight - WeightsFor(p, i)[t] + WeightsFor(p, i)'[t]
      BY <1>3, <1>4, <1>5, <1>7
    <2>3. proposal'[p].deny = proposal[p].deny - WeightsAgainst(p)[t] + WeightsAgainst(p)'[t]
      BY <1>3, <1>4, <1>5, <1>8
    <2> QED BY <1>6, <2>1, <2>2, <2>3 DEF VoteChanged
  <1> QED BY <1>5, <1>8, <1>9

\* A released vote still counts.
LEMMA ReleaseVoteChanges ==
    ASSUME TypeOK, NEW p \in ProposalIds, NEW t \in Records, ReleaseVote(p, t)
    PROVE  /\ VoteChanged(p, t)
           /\ \A q \in ProposalIds : KeepsVote(q)
           /\ voteRecord[<<p, t>>].status # "Empty"
           /\ voteRecord'[<<p, t>>].vote = voteRecord[<<p, t>>].vote
  <1>1. /\ voteRecord[<<p, t>>].status = "Active" /\ UNCHANGED <<proposal, option>>
        /\ voteRecord' = [voteRecord EXCEPT ![<<p, t>>].status = "Relinquished"]
    BY DEF ReleaseVote
  <1>2. voteRecord[<<p, t>>] \in VoteRecord
    BY DEF TypeOK
  <1>3. /\ voteRecord'[<<p, t>>].status = "Relinquished"
        /\ voteRecord'[<<p, t>>].vote = voteRecord[<<p, t>>].vote
        /\ voteRecord'[<<p, t>>].voter_weight = voteRecord[<<p, t>>].voter_weight
    BY <1>1, <1>2 DEF TypeOK, VoteRecord
  <1>4. /\ WeightsAgainst(p)'[t] = WeightsAgainst(p)[t]
        /\ \A i \in OptionNumbers : WeightsFor(p, i)'[t] = WeightsFor(p, i)[t]
    BY <1>1, <1>3 DEF WeightsAgainst, WeightsFor, WeightsCast
  <1>5. \A q \in ProposalIds, x \in Records :
          <<q, x>> # <<p, t>> => voteRecord'[<<q, x>>] = voteRecord[<<q, x>>]
    BY <1>1 DEF TypeOK
  <1>6. /\ proposal[p].deny \in Nat /\ \A i \in OptionNumbers : option[<<p, i>>].vote_weight \in Nat
        /\ WeightsAgainst(p)[t] \in Nat /\ \A i \in OptionNumbers : WeightsFor(p, i)[t] \in Nat
    BY WeightsType, Addresses DEF TypeOK, Proposal, ProposalOption
  <1> QED BY <1>1, <1>3, <1>4, <1>5, <1>6 DEF VoteChanged, KeepsVote, SameWeights

-------------------------------------------------------------------------------
(***************************************************************************)
(* The weights are sums.                                                   *)
(***************************************************************************)
\* A vote that a proposal with n options accepts.
IsVote(v, n) == v = Deny \/ (v.kind = "Approve" /\ v.choices # {} /\ v.choices \subseteq 1 .. n)

\* Votes are on proposals that exist, and for options that they have.
VotesValid ==
    \A p \in ProposalIds, t \in Records :
        voteRecord[<<p, t>>].status # "Empty" =>
            /\ proposal[p].state # "Uninitialized"
            /\ IsVote(voteRecord[<<p, t>>].vote, proposal[p].options)

\* A vote record that is not Empty after a step was not Empty before it, or
\* records the vote just cast.
LEMMA VotesValidNext ==
    ASSUME TypeOK, ProposalsNumbered, VotesValid, [Next]_vars
    PROVE  VotesValid'
  <1> DEFINE Goal(p, t) == /\ proposal'[p].state # "Uninitialized"
                           /\ IsVote(voteRecord'[<<p, t>>].vote, proposal'[p].options)
  <1> SUFFICES ASSUME NEW p \in ProposalIds, NEW t \in Records,
                      voteRecord'[<<p, t>>].status # "Empty"
               PROVE  Goal(p, t)
    BY DEF VotesValid, IsVote
  <1>1. CASE /\ voteRecord[<<p, t>>].status # "Empty"
             /\ voteRecord'[<<p, t>>].vote = voteRecord[<<p, t>>].vote
             /\ KeepsVote(p)
    BY <1>1 DEF VotesValid, KeepsVote
  <1>2. CASE NoVoteWritten
    BY <1>1, <1>2 DEF NoVoteWritten
  <1>3. ASSUME NEW g \in Governances, NEW m \in Mints, NEW x \in Records, NEW k, NEW s,
               CreateProposal(g, m, x, k, s)
        PROVE  Goal(p, t)
    <2>1. PICK q \in ProposalIds : /\ proposal[q].state = "Uninitialized"
                                  /\ \A o \in ProposalIds \ {q} : proposal'[o] = proposal[o]
      BY <1>3, CreatedProposal
    <2>2. UNCHANGED voteRecord
      BY <1>3 DEF CreateProposal
    <2>3. p # q
      BY <2>1, <2>2 DEF VotesValid
    <2> QED BY <2>1, <2>2, <2>3 DEF VotesValid
  <1>4. ASSUME NEW q \in ProposalIds, NEW x \in Records, NEW v \in Votes, NEW s, CastVote(q, x, v, s)
        PROVE  Goal(p, t)
    <2>1. VoteChanged(q, x) /\ KeepsVote(p) /\ voteRecord'[<<q, x>>].vote = v
      BY <1>4, CastVoteChanges
    <2>2. proposal[q].state = "Voting" /\ assert_valid_vote(q, v)
      BY <1>4 DEF CastVote
    <2>3. CASE <<q, x>> # <<p, t>>
      BY <1>1, <2>1, <2>3 DEF VoteChanged
    <2>4. CASE q = p /\ x = t
      <3>1. IsVote(v, proposal[p].options)
        BY <2>2, <2>4 DEF assert_valid_vote, IsVote, Votes, Approvals, Deny
      <3> QED BY <2>1, <2>2, <2>4, <3>1 DEF KeepsVote
    <2> QED BY <2>3, <2>4
  <1>5. ASSUME NEW q \in ProposalIds, NEW x \in Records, NEW s, WithdrawVote(q, x, s)
        PROVE  Goal(p, t)
    <2>1. VoteChanged(q, x) /\ KeepsVote(p) /\ voteRecord'[<<q, x>>].status = "Empty"
      BY <1>5, WithdrawVoteChanges
    <2> QED BY <1>1, <2>1 DEF VoteChanged
  <1>6. ASSUME NEW q \in ProposalIds, NEW x \in Records, ReleaseVote(q, x)
        PROVE  Goal(p, t)
    <2>1. /\ VoteChanged(q, x) /\ KeepsVote(p) /\ voteRecord[<<q, x>>].status # "Empty"
          /\ voteRecord'[<<q, x>>].vote = voteRecord[<<q, x>>].vote
      BY <1>6, ReleaseVoteChanges
    <2>2. voteRecord'[<<p, t>>].vote = voteRecord[<<p, t>>].vote /\ voteRecord[<<p, t>>].status # "Empty"
      BY <2>1 DEF VoteChanged
    <2> QED BY <1>1, <2>1, <2>2
  <1> HIDE DEF Goal
  <1> QED BY <1>2, <1>3, <1>4, <1>5, <1>6, VoteSteps

\* The inductive step for the weights.
LEMMA WeightsNext ==
    ASSUME TypeOK, TypeOK', ProposalsNumbered, VotesValid, VoteWeightsExact, [Next]_vars
    PROVE  VoteWeightsExact'
  <1>1. CASE NoVoteWritten
    <2>1. ASSUME NEW q \in ProposalIds
          PROVE  /\ \A i \in OptionNumbers :
                       option'[<<q, i>>].vote_weight = Total(Records, WeightsFor(q, i)')
                 /\ proposal'[q].deny = Total(Records, WeightsAgainst(q)')
      <3>1. SameWeights(q) /\ \A x \in Records : voteRecord'[<<q, x>>] = voteRecord[<<q, x>>]
        BY <1>1 DEF NoVoteWritten
      <3> QED BY <3>1, WeightsFrame
    <2> QED BY <2>1 DEF VoteWeightsExact, OptionNumbers
  <1>2. ASSUME NEW g \in Governances, NEW m \in Mints, NEW x \in Records, NEW k, NEW s,
               CreateProposal(g, m, x, k, s)
        PROVE  VoteWeightsExact'
    <2>1. PICK p \in ProposalIds : /\ p = <<g, governance[g].proposals_count>>
                                  /\ proposal[p].state = "Uninitialized"
                                  /\ \A q \in ProposalIds \ {p} : proposal'[q] = proposal[q]
      BY <1>2, CreatedProposal
    <2>2. UNCHANGED <<option, voteRecord>>
      BY <1>2 DEF CreateProposal
    <2>3. proposal'[p].deny = 0
      BY <1>2, <2>1 DEF CreateProposal, EmptyProposal, TypeOK
    <2>4. \A t \in Records : WeightsAgainst(p)[t] = 0
      BY <2>1 DEF VotesValid, WeightsAgainst, WeightsCast
    <2>5. proposal[p].deny = 0
      BY <2>4, TotalZero DEF VoteWeightsExact
    <2>6. ASSUME NEW q \in ProposalIds
          PROVE  /\ \A i \in OptionNumbers :
                       option'[<<q, i>>].vote_weight = Total(Records, WeightsFor(q, i)')
                 /\ proposal'[q].deny = Total(Records, WeightsAgainst(q)')
      <3>1. SameWeights(q) /\ \A t \in Records : voteRecord'[<<q, t>>] = voteRecord[<<q, t>>]
        BY <2>1, <2>2, <2>3, <2>5 DEF SameWeights
      <3> QED BY <3>1, WeightsFrame
    <2> QED BY <2>6 DEF VoteWeightsExact, OptionNumbers
  <1>3. ASSUME NEW p \in ProposalIds, NEW t \in Records, VoteChanged(p, t)
        PROVE  VoteWeightsExact'
    BY <1>3, WeightsMove
  <1> QED BY <1>1, <1>2, <1>3, VoteSteps, CastVoteChanges, WithdrawVoteChanges, ReleaseVoteChanges

\* Nothing has been voted on when the realm is created.
LEMMA WeightsInit ==
    ASSUME Init
    PROVE  VotesValid /\ VoteWeightsExact
  <1>1. \A p \in ProposalIds, t \in Records : voteRecord[<<p, t>>].status = "Empty"
    BY DEF Init, EmptyVoteRecord
  <1>2. ASSUME NEW p \in ProposalIds PROVE proposal[p].deny = Total(Records, WeightsAgainst(p))
    <2>1. \A t \in Records : WeightsAgainst(p)[t] = 0
      BY <1>1 DEF WeightsAgainst, WeightsCast
    <2> QED BY <2>1, TotalZero DEF Init, EmptyProposal
  <1>3. ASSUME NEW p \in ProposalIds, NEW i \in OptionNumbers
        PROVE  option[<<p, i>>].vote_weight = Total(Records, WeightsFor(p, i))
    <2>1. \A t \in Records : WeightsFor(p, i)[t] = 0
      BY <1>1 DEF WeightsFor, WeightsCast
    <2>2. option[<<p, i>>].vote_weight = 0
      BY Addresses DEF Init, EmptyOption
    <2> QED BY <2>1, <2>2, TotalZero
  <1> QED BY <1>1, <1>2, <1>3 DEF VotesValid, VoteWeightsExact, OptionNumbers

\* The sums are exact, with the facts that make this inductive.
WeightsInv == TypeOK /\ ProposalsNumbered /\ VotesValid /\ VoteWeightsExact

\* It holds in every reachable state.
LEMMA WeightsInvariant == Spec => []WeightsInv
  <1>1. Init => WeightsInv
    <2>1. Init => ProposalsNumbered
      BY DEF Init, ProposalsNumbered, EmptyProposal
    <2> QED BY <2>1, TypeInit, WeightsInit DEF WeightsInv
  <1>2. WeightsInv /\ [Next]_vars => WeightsInv'
    BY TypeNext, NumberedNext, VotesValidNext, WeightsNext DEF WeightsInv
  <1> QED BY <1>1, <1>2, PTL DEF Spec

\* The weight of every option and the weight of Deny are, at every moment, the
\* sums over the vote records of the proposal: CastVote, and RelinquishVote while
\* the vote runs, change the totals by exactly what the record says, even when the
\* voter's deposit or the addin's answer has changed in between.
THEOREM VoteWeightsCorrect == Spec => []VoteWeightsExact
  <1>1. WeightsInv => VoteWeightsExact
    BY DEF WeightsInv
  <1> QED BY <1>1, WeightsInvariant, PTL
===============================================================================
