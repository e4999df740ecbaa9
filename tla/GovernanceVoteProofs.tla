------------------------- MODULE GovernanceVoteProofs -------------------------
(***************************************************************************)
(* The counters of a token owner record, for every number of owners,       *)
(* governances and proposals: they are exact, and because they gate the    *)
(* withdrawal of deposits, deposits cover the votes that are not           *)
(* relinquished.                                                           *)
(***************************************************************************)
EXTENDS GovernanceProofs, FiniteSetTheorems

\* A record that has not been created yet has counted nothing. Needed because
\* CreateTokenOwnerRecord writes a new record.
RecordsStartEmpty ==
    \A t \in Records : ~ record[t].exists =>
        /\ record[t].unrelinquished_votes_count = 0
        /\ record[t].total_votes_count = 0
        /\ record[t].outstanding_proposal_count = 0

\* There are finitely many proposals, so the votes of a record can be counted.
LEMMA FiniteProposals == IsFiniteSet(ProposalIds)
  <1>1. IsFiniteSet(0 .. MaxProposals - 1)
    BY BoundAssumption, FS_Interval
  <1> QED BY <1>1, FiniteAssumption, FS_Product DEF ProposalIds

\* So are the votes of a record, the active and the counted ones.
LEMMA FiniteVotes ==
    ASSUME NEW t
    PROVE  IsFiniteSet(ActiveVotes(t)) /\ IsFiniteSet(CountedVotes(t))
  <1>1. ActiveVotes(t) \in SUBSET ProposalIds /\ CountedVotes(t) \in SUBSET ProposalIds
    BY DEF ActiveVotes, CountedVotes
  <1> QED BY <1>1, FiniteProposals, FS_Subset

\* The fields of the records after a vote.
LEMMA VotedFields ==
    ASSUME TypeOK, NEW t, NEW owner, NEW tipped, NEW x \in Records,
           record' = VotedRecords(t, owner, tipped)
    PROVE  /\ record'[x].exists = record[x].exists
           /\ record'[x].deposit = record[x].deposit
           /\ record'[x].unrelinquished_votes_count =
                 IF x = t THEN record[x].unrelinquished_votes_count + 1
                 ELSE record[x].unrelinquished_votes_count
           /\ record'[x].total_votes_count =
                 IF x = t THEN record[x].total_votes_count + 1 ELSE record[x].total_votes_count
           /\ record'[x].outstanding_proposal_count =
                 IF x = owner /\ tipped
                 THEN saturating_sub(record[x].outstanding_proposal_count, 1)
                 ELSE record[x].outstanding_proposal_count
  <1>1. record[x] \in TokenOwnerRecord
    BY DEF TypeOK
  <1> QED BY <1>1 DEF VotedRecords, TokenOwnerRecord

\* Transactions and time leave records and votes alone.
LEMMA TransactionsKeepVotes ==
    ASSUME TransactionNext \/ Tick \/ UNCHANGED vars
    PROVE  UNCHANGED <<record, voteRecord>>
  <1>1. CASE TransactionNext
    <2>1. \A p, i, j, h, n, s : InsertTransaction(p, i, j, h, n, s) => UNCHANGED <<record, voteRecord>>
      BY DEF InsertTransaction
    <2>2. \A p, i, j, s : RemoveTransaction(p, i, j, s) => UNCHANGED <<record, voteRecord>>
      BY DEF RemoveTransaction
    <2>3. \A p, i, j : ExecuteTransaction(p, i, j) => UNCHANGED <<record, voteRecord>>
      BY DEF ExecuteTransaction
    <2>4. \A p, i, j, s : FlagTransactionError(p, i, j, s) => UNCHANGED <<record, voteRecord>>
      BY DEF FlagTransactionError
    <2> QED BY <1>1, <2>1, <2>2, <2>3, <2>4 DEF TransactionNext
  <1>2. CASE Tick
    BY <1>2 DEF Tick
  <1>3. CASE UNCHANGED vars
    BY <1>3 DEF vars
  <1> QED BY <1>1, <1>2, <1>3

-------------------------------------------------------------------------------
\* Records are written only once they exist, except for the count of outstanding
\* proposals, which is never taken below zero.
LEMMA EmptyRecordsNext ==
    ASSUME TypeOK, RecordsStartEmpty, [Next]_vars
    PROVE  RecordsStartEmpty'
  <1> USE DEF RecordsStartEmpty
  <1>1. CASE UNCHANGED record
    BY <1>1
  <1>2. ASSUME NEW t \in Records, CreateTokenOwnerRecord(t)
        PROVE  RecordsStartEmpty'
    BY <1>2 DEF CreateTokenOwnerRecord, TypeOK
  <1>3. ASSUME NEW t \in Records, WithdrawGoverningTokens(t)
        PROVE  RecordsStartEmpty'
    BY <1>3 DEF WithdrawGoverningTokens, TypeOK, TokenOwnerRecord
  <1>4. ASSUME NEW t \in Records, NEW a \in DepositAmounts, DepositGoverningTokens(t, a)
        PROVE  RecordsStartEmpty'
    BY <1>4 DEF DepositGoverningTokens, TypeOK, TokenOwnerRecord
  <1>5. ASSUME NEW t \in Records, NEW d, NEW s, SetGovernanceDelegate(t, d, s)
        PROVE  RecordsStartEmpty'
    BY <1>5 DEF SetGovernanceDelegate, TypeOK, TokenOwnerRecord
  <1>6. ASSUME NEW g, NEW m, NEW t \in Records, NEW k, NEW s, CreateProposal(g, m, t, k, s)
        PROVE  RecordsStartEmpty'
    BY <1>6 DEF CreateProposal, assert_token_owner_or_delegate_is_signer, TypeOK, TokenOwnerRecord
  <1>7. ASSUME NEW p, NEW t \in Records, NEW v, NEW s, CastVote(p, t, v, s)
        PROVE  RecordsStartEmpty'
    <2>1. PICK tipped \in BOOLEAN : record' = VotedRecords(t, proposal[p].owner, tipped)
      BY <1>7, CastVoteEffect DEF VoteCounted
    <2>2. record[t].exists
      BY <1>7 DEF CastVote, assert_token_owner_or_delegate_is_signer
    <2> SUFFICES ASSUME NEW x \in Records, ~ record'[x].exists
                 PROVE  /\ record'[x].unrelinquished_votes_count = 0
                        /\ record'[x].total_votes_count = 0
                        /\ record'[x].outstanding_proposal_count = 0
      OBVIOUS
    <2>3. record[x] \in TokenOwnerRecord
      BY DEF TypeOK
    <2>4. /\ record'[x].exists = record[x].exists
          /\ record'[x].unrelinquished_votes_count =
                IF x = t THEN record[x].unrelinquished_votes_count + 1
                ELSE record[x].unrelinquished_votes_count
          /\ record'[x].total_votes_count =
                IF x = t THEN record[x].total_votes_count + 1 ELSE record[x].total_votes_count
          /\ record'[x].outstanding_proposal_count =
                IF x = proposal[p].owner /\ tipped
                THEN saturating_sub(record[x].outstanding_proposal_count, 1)
                ELSE record[x].outstanding_proposal_count
      BY <2>1, VotedFields
    <2> QED BY <2>2, <2>4 DEF saturating_sub
  <1>8. ASSUME NEW p, NEW t \in Records, NEW s, WithdrawVote(p, t, s)
        PROVE  RecordsStartEmpty'
    BY <1>8 DEF WithdrawVote, TypeOK, TokenOwnerRecord
  <1>9. ASSUME NEW p, NEW t \in Records, ReleaseVote(p, t)
        PROVE  RecordsStartEmpty'
    BY <1>9 DEF ReleaseVote, TypeOK, TokenOwnerRecord
  <1>10. ASSUME NEW p \in ProposalIds, record' = OutstandingDecreased(p)
         PROVE  RecordsStartEmpty'
    BY <1>10 DEF OutstandingDecreased, TypeOK, TokenOwnerRecord, saturating_sub
  <1>11. CASE RealmNext
    BY <1>1, <1>2, <1>3, <1>4, <1>5, <1>11
    DEF RealmNext, CreateGovernance, SetRealmConfig, SetRealmAuthority,
        MintTokens, BurnTokens, SendToHolding
  <1>12. CASE DraftNext
    BY <1>1, <1>6, <1>12
    DEF DraftNext, AddSignatory, RemoveSignatory, OwnerSignsOff, SignatorySignsOff
  <1>13. CASE VoteNext
    BY <1>7, <1>8, <1>9, <1>10, <1>13 DEF VoteNext, FinalizeVote, CancelProposal
  <1>14. CASE TransactionNext \/ Tick \/ UNCHANGED vars
    BY <1>1, <1>14, TransactionsKeepVotes
  <1> QED BY <1>11, <1>12, <1>13, <1>14 DEF Next

-------------------------------------------------------------------------------
\* Steps that write no vote record and no counter.
LEMMA CountsFrame ==
    ASSUME VoteCountsExact, UNCHANGED voteRecord,
           \A x \in Records :
              /\ record'[x].unrelinquished_votes_count = record[x].unrelinquished_votes_count
              /\ record'[x].total_votes_count = record[x].total_votes_count
    PROVE  VoteCountsExact'
  <1>1. \A x \in Records : ActiveVotes(x)' = ActiveVotes(x) /\ CountedVotes(x)' = CountedVotes(x)
    BY DEF ActiveVotes, CountedVotes
  <1> QED BY <1>1 DEF VoteCountsExact

\* Casting a vote adds it to both counters.
LEMMA CountsCastVote ==
    ASSUME TypeOK, VoteCountsExact, NEW p \in ProposalIds, NEW t \in Records, NEW v \in Votes,
           NEW s, CastVote(p, t, v, s)
    PROVE  VoteCountsExact'
  <1>0. PICK w \in resolve_voter_weight(t), state \in {"None", "Succeeded", "Defeated"} :
            \E deny, max : VoteCounted(p, t, v, w, state, deny, max)
    BY CastVoteEffect
  <1> DEFINE new == [status |-> "Active", voter_weight |-> w, vote |-> v]
  <1>1. /\ record' = VotedRecords(t, proposal[p].owner, state # "None")
        /\ voteRecord' = [voteRecord EXCEPT ![<<p, t>>] = new]
    BY <1>0 DEF VoteCounted
  <1>2. new.status = "Active"
    OBVIOUS
  <1> HIDE DEF new
  <1>3. p \notin ActiveVotes(t) /\ p \notin CountedVotes(t)
    BY DEF CastVote, ActiveVotes, CountedVotes
  <1> SUFFICES ASSUME NEW x \in Records
               PROVE  /\ record'[x].unrelinquished_votes_count = Cardinality(ActiveVotes(x)')
                      /\ record'[x].total_votes_count = Cardinality(CountedVotes(x)')
    BY DEF VoteCountsExact
  <1>4. /\ record'[x].unrelinquished_votes_count =
              IF x = t THEN record[x].unrelinquished_votes_count + 1
              ELSE record[x].unrelinquished_votes_count
        /\ record'[x].total_votes_count =
              IF x = t THEN record[x].total_votes_count + 1 ELSE record[x].total_votes_count
    BY <1>1, VotedFields
  <1>5. /\ ActiveVotes(x)' = IF x = t THEN ActiveVotes(x) \cup {p} ELSE ActiveVotes(x)
        /\ CountedVotes(x)' = IF x = t THEN CountedVotes(x) \cup {p} ELSE CountedVotes(x)
    <2>1. \A q \in ProposalIds :
              voteRecord'[<<q, x>>] = IF q = p /\ x = t THEN new ELSE voteRecord[<<q, x>>]
      BY <1>1 DEF TypeOK
    <2> QED BY <1>2, <2>1 DEF ActiveVotes, CountedVotes
  <1>6. /\ Cardinality(ActiveVotes(t) \cup {p}) = Cardinality(ActiveVotes(t)) + 1
        /\ Cardinality(CountedVotes(t) \cup {p}) = Cardinality(CountedVotes(t)) + 1
    BY <1>3, FiniteVotes, FS_AddElement
  <1> QED BY <1>4, <1>5, <1>6 DEF VoteCountsExact

\* Withdrawing a running vote takes it off both counters.
LEMMA CountsWithdrawVote ==
    ASSUME TypeOK, VoteCountsExact, NEW p \in ProposalIds, NEW t \in Records, NEW s,
           WithdrawVote(p, t, s)
    PROVE  VoteCountsExact'
  <1> DEFINE new == EmptyVoteRecord
  <1>1. voteRecord' = [voteRecord EXCEPT ![<<p, t>>] = new]
    BY DEF WithdrawVote
  <1>2. new.status = "Empty"
    BY DEF EmptyVoteRecord
  <1> HIDE DEF new
  <1>3. p \in ActiveVotes(t) /\ p \in CountedVotes(t)
    BY DEF WithdrawVote, ActiveVotes, CountedVotes
  <1> SUFFICES ASSUME NEW x \in Records
               PROVE  /\ record'[x].unrelinquished_votes_count = Cardinality(ActiveVotes(x)')
                      /\ record'[x].total_votes_count = Cardinality(CountedVotes(x)')
    BY DEF VoteCountsExact
  <1>4. /\ record'[x].unrelinquished_votes_count =
              IF x = t THEN record[x].unrelinquished_votes_count - 1
              ELSE record[x].unrelinquished_votes_count
        /\ record'[x].total_votes_count =
              IF x = t THEN record[x].total_votes_count - 1 ELSE record[x].total_votes_count
    BY DEF WithdrawVote, TypeOK, TokenOwnerRecord
  <1>5. /\ ActiveVotes(x)' = IF x = t THEN ActiveVotes(x) \ {p} ELSE ActiveVotes(x)
        /\ CountedVotes(x)' = IF x = t THEN CountedVotes(x) \ {p} ELSE CountedVotes(x)
    <2>1. \A q \in ProposalIds :
              voteRecord'[<<q, x>>] = IF q = p /\ x = t THEN new ELSE voteRecord[<<q, x>>]
      BY <1>1 DEF TypeOK
    <2> QED BY <1>2, <2>1 DEF ActiveVotes, CountedVotes
  <1>6. /\ Cardinality(ActiveVotes(t) \ {p}) = Cardinality(ActiveVotes(t)) - 1
        /\ Cardinality(CountedVotes(t) \ {p}) = Cardinality(CountedVotes(t)) - 1
    BY <1>3, FiniteVotes, FS_RemoveElement
  <1> QED BY <1>4, <1>5, <1>6 DEF VoteCountsExact

\* Releasing a vote takes it off the first counter only.
LEMMA CountsReleaseVote ==
    ASSUME TypeOK, VoteCountsExact, NEW p \in ProposalIds, NEW t \in Records, ReleaseVote(p, t)
    PROVE  VoteCountsExact'
  <1> DEFINE new == [voteRecord[<<p, t>>] EXCEPT !.status = "Relinquished"]
  <1>1. new.status = "Relinquished"
    BY DEF TypeOK, VoteRecord
  <1>2. voteRecord' = [voteRecord EXCEPT ![<<p, t>>] = new]
    BY DEF ReleaseVote, TypeOK
  <1>3. p \in ActiveVotes(t) /\ p \in CountedVotes(t)
    BY DEF ReleaseVote, ActiveVotes, CountedVotes
  <1> HIDE DEF new
  <1> SUFFICES ASSUME NEW x \in Records
               PROVE  /\ record'[x].unrelinquished_votes_count = Cardinality(ActiveVotes(x)')
                      /\ record'[x].total_votes_count = Cardinality(CountedVotes(x)')
    BY DEF VoteCountsExact
  <1>4. /\ record'[x].unrelinquished_votes_count =
              IF x = t THEN record[x].unrelinquished_votes_count - 1
              ELSE record[x].unrelinquished_votes_count
        /\ record'[x].total_votes_count = record[x].total_votes_count
    BY DEF ReleaseVote, TypeOK, TokenOwnerRecord
  <1>5. /\ ActiveVotes(x)' = IF x = t THEN ActiveVotes(x) \ {p} ELSE ActiveVotes(x)
        /\ CountedVotes(x)' = CountedVotes(x)
    <2>1. \A q \in ProposalIds :
              voteRecord'[<<q, x>>] = IF q = p /\ x = t THEN new ELSE voteRecord[<<q, x>>]
      BY <1>2 DEF TypeOK
    <2> QED BY <1>1, <1>3, <2>1 DEF ActiveVotes, CountedVotes
  <1>6. Cardinality(ActiveVotes(t) \ {p}) = Cardinality(ActiveVotes(t)) - 1
    BY <1>3, FiniteVotes, FS_RemoveElement
  <1> QED BY <1>4, <1>5, <1>6 DEF VoteCountsExact

\* Only the three steps above change what the counters count.
LEMMA CountsNext ==
    ASSUME TypeOK, RecordsStartEmpty, VoteCountsExact, [Next]_vars
    PROVE  VoteCountsExact'
  <1>1. CASE UNCHANGED <<record, voteRecord>>
    BY <1>1, CountsFrame
  <1>2. ASSUME NEW t \in Records, CreateTokenOwnerRecord(t)
        PROVE  VoteCountsExact'
    <2>1. record' = [record EXCEPT ![t] = [EmptyRecord EXCEPT !.exists = TRUE]]
      BY <1>2 DEF CreateTokenOwnerRecord
    <2>2. record[t].unrelinquished_votes_count = 0 /\ record[t].total_votes_count = 0
      BY <1>2 DEF CreateTokenOwnerRecord, RecordsStartEmpty
    <2>3. \A x \in Records :
            /\ record'[x].unrelinquished_votes_count = record[x].unrelinquished_votes_count
            /\ record'[x].total_votes_count = record[x].total_votes_count
      BY <2>1, <2>2 DEF EmptyRecord, TypeOK
    <2> QED BY <1>2, <2>3, CountsFrame DEF CreateTokenOwnerRecord
  <1>3. ASSUME NEW t \in Records, WithdrawGoverningTokens(t)
        PROVE  VoteCountsExact'
    BY <1>3, CountsFrame DEF WithdrawGoverningTokens, TypeOK, TokenOwnerRecord
  <1>4. ASSUME NEW t \in Records, NEW a \in DepositAmounts, DepositGoverningTokens(t, a)
        PROVE  VoteCountsExact'
    BY <1>4, CountsFrame DEF DepositGoverningTokens, TypeOK, TokenOwnerRecord
  <1>5. ASSUME NEW t \in Records, NEW d, NEW s, SetGovernanceDelegate(t, d, s)
        PROVE  VoteCountsExact'
    BY <1>5, CountsFrame DEF SetGovernanceDelegate, TypeOK, TokenOwnerRecord
  <1>6. ASSUME NEW g, NEW m, NEW t \in Records, NEW k, NEW s, CreateProposal(g, m, t, k, s)
        PROVE  VoteCountsExact'
    BY <1>6, CountsFrame DEF CreateProposal, TypeOK, TokenOwnerRecord
  <1>7. ASSUME NEW p \in ProposalIds, record' = OutstandingDecreased(p), UNCHANGED voteRecord
        PROVE  VoteCountsExact'
    BY <1>7, CountsFrame DEF OutstandingDecreased, TypeOK, TokenOwnerRecord
  <1>8. CASE RealmNext
    BY <1>1, <1>2, <1>3, <1>4, <1>5, <1>8
    DEF RealmNext, CreateGovernance, SetRealmConfig, SetRealmAuthority,
        MintTokens, BurnTokens, SendToHolding
  <1>9. CASE DraftNext
    BY <1>1, <1>6, <1>9
    DEF DraftNext, AddSignatory, RemoveSignatory, OwnerSignsOff, SignatorySignsOff
  <1>10. CASE VoteNext
    BY <1>7, <1>10, CountsCastVote, CountsWithdrawVote, CountsReleaseVote
    DEF VoteNext, FinalizeVote, CancelProposal
  <1>11. CASE TransactionNext \/ Tick \/ UNCHANGED vars
    BY <1>1, <1>11, TransactionsKeepVotes
  <1> QED BY <1>8, <1>9, <1>10, <1>11 DEF Next

\* Before the first instruction there are no records and no votes.
LEMMA CountsInit == Init => RecordsStartEmpty /\ VoteCountsExact
  <1> SUFFICES ASSUME Init PROVE RecordsStartEmpty /\ VoteCountsExact
    OBVIOUS
  <1>1. RecordsStartEmpty
    BY DEF Init, RecordsStartEmpty, EmptyRecord
  <1>2. \A t \in Records : ActiveVotes(t) = {} /\ CountedVotes(t) = {}
    BY DEF Init, ActiveVotes, CountedVotes, EmptyVoteRecord
  <1>3. VoteCountsExact
    BY <1>2, FS_EmptySet DEF Init, VoteCountsExact, EmptyRecord
  <1> QED BY <1>1, <1>3

\* unrelinquished_votes_count and total_votes_count are exact in every reachable
\* state, so a deposit is locked exactly as long as a vote rests on it.
THEOREM VoteCountsCorrect == Spec => []VoteCountsExact
  <1> DEFINE Inv == TypeOK /\ RecordsStartEmpty /\ VoteCountsExact
  <1>1. Init => Inv
    BY TypeInit, CountsInit
  <1>2. Inv /\ [Next]_vars => Inv'
    BY TypeNext, EmptyRecordsNext, CountsNext
  <1>3. Inv => VoteCountsExact
    OBVIOUS
  <1> QED BY <1>1, <1>2, <1>3, PTL DEF Spec

-------------------------------------------------------------------------------
\* The records whose votes can only ever weigh their deposits.
VotesByDeposit(t) ==
    t[1] = Community => \A c \in PossibleRealmConfigs : ~ c.use_community_voter_weight_addin

\* The weight of such a vote is the deposit at the moment it is cast.
LEMMA WeightIsDeposit ==
    ASSUME TypeOK, NEW t \in Records, VotesByDeposit(t), NEW w \in resolve_voter_weight(t)
    PROVE  w = record[t].deposit
  <1>1. realm.config \in PossibleRealmConfigs
    BY DEF TypeOK, Realm
  <1> QED BY <1>1 DEF VotesByDeposit, resolve_voter_weight

\* Steps that write no vote record and take no deposit out.
LEMMA DepositsFrame ==
    ASSUME TypeOK, TypeOK', DepositsCoverVotes, UNCHANGED voteRecord,
           \A x \in Records : record'[x].deposit >= record[x].deposit
    PROVE  DepositsCoverVotes'
  <1> SUFFICES ASSUME NEW p \in ProposalIds, NEW x \in Records,
                      voteRecord'[<<p, x>>].status = "Active", VotesByDeposit(x)
               PROVE  voteRecord'[<<p, x>>].voter_weight <= record'[x].deposit
    BY DEF DepositsCoverVotes, VotesByDeposit
  <1>1. voteRecord[<<p, x>>].voter_weight <= record[x].deposit
    BY DEF DepositsCoverVotes, VotesByDeposit
  <1>2. /\ voteRecord[<<p, x>>].voter_weight \in Nat
        /\ record[x].deposit \in Nat /\ record'[x].deposit \in Nat
    BY DEF TypeOK, VoteRecord, TokenOwnerRecord
  <1> QED BY <1>1, <1>2

\* Steps that set a deposit to zero are taken only without active votes.
LEMMA DepositsReset ==
    ASSUME TypeOK, VoteCountsExact, DepositsCoverVotes, UNCHANGED voteRecord, NEW t \in Records,
           record[t].unrelinquished_votes_count = 0,
           \A x \in Records \ {t} : record'[x] = record[x]
    PROVE  DepositsCoverVotes'
  <1>1. ActiveVotes(t) = {}
    BY FiniteVotes, FS_EmptySet DEF VoteCountsExact
  <1>2. \A p \in ProposalIds : voteRecord[<<p, t>>].status # "Active"
    BY <1>1 DEF ActiveVotes
  <1> QED BY <1>2 DEF DepositsCoverVotes

\* A new vote weighs the deposit, the other votes are left alone.
LEMMA DepositsCastVote ==
    ASSUME TypeOK, DepositsCoverVotes, NEW p \in ProposalIds, NEW t \in Records, NEW v \in Votes,
           NEW s, CastVote(p, t, v, s)
    PROVE  DepositsCoverVotes'
  <1>1. PICK w \in resolve_voter_weight(t), state \in {"None", "Succeeded", "Defeated"} :
            \E deny, max : VoteCounted(p, t, v, w, state, deny, max)
    BY CastVoteEffect
  <1> DEFINE new == [status |-> "Active", voter_weight |-> w, vote |-> v]
  <1>2. /\ record' = VotedRecords(t, proposal[p].owner, state # "None")
        /\ voteRecord' = [voteRecord EXCEPT ![<<p, t>>] = new]
    BY <1>1 DEF VoteCounted
  <1> SUFFICES ASSUME NEW q \in ProposalIds, NEW x \in Records,
                      voteRecord'[<<q, x>>].status = "Active", VotesByDeposit(x)
               PROVE  voteRecord'[<<q, x>>].voter_weight <= record'[x].deposit
    BY DEF DepositsCoverVotes, VotesByDeposit
  <1>3. record'[x].deposit = record[x].deposit /\ record[x].deposit \in Nat
    BY <1>2, VotedFields DEF TypeOK, TokenOwnerRecord
  <1>4. voteRecord'[<<q, x>>] = IF q = p /\ x = t THEN new ELSE voteRecord[<<q, x>>]
    BY <1>2 DEF TypeOK
  <1>5. CASE q = p /\ x = t
    BY <1>3, <1>4, <1>5, WeightIsDeposit
  <1>6. CASE ~ (q = p /\ x = t)
    BY <1>3, <1>4, <1>6 DEF DepositsCoverVotes, VotesByDeposit
  <1> QED BY <1>5, <1>6

\* Withdrawing and releasing a vote leave one active vote less.
LEMMA DepositsEndVote ==
    ASSUME TypeOK, DepositsCoverVotes, NEW p \in ProposalIds, NEW t \in Records,
           NEW new, new.status # "Active",
           voteRecord' = [voteRecord EXCEPT ![<<p, t>>] = new],
           \A x \in Records : record'[x].deposit = record[x].deposit
    PROVE  DepositsCoverVotes'
  <1>1. \A q \in ProposalIds, x \in Records :
            voteRecord'[<<q, x>>] = IF q = p /\ x = t THEN new ELSE voteRecord[<<q, x>>]
    BY DEF TypeOK
  <1> QED BY <1>1 DEF DepositsCoverVotes

\* The inductive step: only the guard of WithdrawGoverningTokens, and the fact
\* that its counter is exact, keep the deposits in place.
LEMMA DepositsNext ==
    ASSUME TypeOK, TypeOK', RecordsStartEmpty, VoteCountsExact, DepositsCoverVotes, [Next]_vars
    PROVE  DepositsCoverVotes'
  <1>1. CASE UNCHANGED <<record, voteRecord>>
    <2>1. \A x \in Records : record[x].deposit \in Nat
      BY DEF TypeOK, TokenOwnerRecord
    <2> QED BY <1>1, <2>1, DepositsFrame
  <1>2. ASSUME NEW t \in Records, CreateTokenOwnerRecord(t)
        PROVE  DepositsCoverVotes'
    BY <1>2, DepositsReset DEF CreateTokenOwnerRecord, RecordsStartEmpty, TypeOK
  <1>3. ASSUME NEW t \in Records, WithdrawGoverningTokens(t)
        PROVE  DepositsCoverVotes'
    BY <1>3, DepositsReset
    DEF WithdrawGoverningTokens, assert_can_withdraw_governing_tokens, TypeOK
  <1>4. ASSUME NEW t \in Records, NEW a \in DepositAmounts, DepositGoverningTokens(t, a)
        PROVE  DepositsCoverVotes'
    BY <1>4, DepositsFrame, InputAssumption DEF DepositGoverningTokens, TypeOK, TokenOwnerRecord
  <1>5. ASSUME NEW t \in Records, NEW d, NEW s, SetGovernanceDelegate(t, d, s)
        PROVE  DepositsCoverVotes'
    BY <1>5, DepositsFrame DEF SetGovernanceDelegate, TypeOK, TokenOwnerRecord
  <1>6. ASSUME NEW g, NEW m, NEW t \in Records, NEW k, NEW s, CreateProposal(g, m, t, k, s)
        PROVE  DepositsCoverVotes'
    BY <1>6, DepositsFrame DEF CreateProposal, TypeOK, TokenOwnerRecord
  <1>7. ASSUME NEW p \in ProposalIds, record' = OutstandingDecreased(p), UNCHANGED voteRecord
        PROVE  DepositsCoverVotes'
    BY <1>7, DepositsFrame DEF OutstandingDecreased, TypeOK, TokenOwnerRecord
  <1>8. ASSUME NEW p \in ProposalIds, NEW t \in Records, NEW s, WithdrawVote(p, t, s)
        PROVE  DepositsCoverVotes'
    <2>1. voteRecord' = [voteRecord EXCEPT ![<<p, t>>] = EmptyVoteRecord]
      BY <1>8 DEF WithdrawVote
    <2>2. \A x \in Records : record'[x].deposit = record[x].deposit
      BY <1>8 DEF WithdrawVote, TypeOK, TokenOwnerRecord
    <2>3. EmptyVoteRecord.status # "Active"
      BY DEF EmptyVoteRecord
    <2> QED BY <2>1, <2>2, <2>3, DepositsEndVote
  <1>9. ASSUME NEW p \in ProposalIds, NEW t \in Records, ReleaseVote(p, t)
        PROVE  DepositsCoverVotes'
    <2> DEFINE new == [voteRecord[<<p, t>>] EXCEPT !.status = "Relinquished"]
    <2>1. voteRecord' = [voteRecord EXCEPT ![<<p, t>>] = new] /\ new.status # "Active"
      BY <1>9 DEF ReleaseVote, TypeOK, VoteRecord
    <2>2. \A x \in Records : record'[x].deposit = record[x].deposit
      BY <1>9 DEF ReleaseVote, TypeOK, TokenOwnerRecord
    <2> HIDE DEF new
    <2> QED BY <2>1, <2>2, DepositsEndVote, ZenonT(60)
  <1>10. CASE RealmNext
    BY <1>1, <1>2, <1>3, <1>4, <1>5, <1>10
    DEF RealmNext, CreateGovernance, SetRealmConfig, SetRealmAuthority,
        MintTokens, BurnTokens, SendToHolding
  <1>11. CASE DraftNext
    BY <1>1, <1>6, <1>11
    DEF DraftNext, AddSignatory, RemoveSignatory, OwnerSignsOff, SignatorySignsOff
  <1>12. CASE VoteNext
    BY <1>7, <1>8, <1>9, <1>12, DepositsCastVote DEF VoteNext, FinalizeVote, CancelProposal
  <1>13. CASE TransactionNext \/ Tick \/ UNCHANGED vars
    BY <1>1, <1>13, TransactionsKeepVotes
  <1> QED BY <1>10, <1>11, <1>12, <1>13 DEF Next

\* Without a voter weight addin, the tokens behind every vote that has not been
\* relinquished are in the realm's holding account, in every reachable state.
THEOREM DepositsCorrect == Spec => []DepositsCoverVotes
  <1> DEFINE Inv == TypeOK /\ RecordsStartEmpty /\ VoteCountsExact /\ DepositsCoverVotes
  <1>1. Init => Inv
    <2>1. Init => DepositsCoverVotes
      BY DEF Init, DepositsCoverVotes, EmptyVoteRecord
    <2> QED BY <2>1, TypeInit, CountsInit
  <1>2. Inv /\ [Next]_vars => Inv'
    BY TypeNext, EmptyRecordsNext, CountsNext, DepositsNext
  <1>3. Inv => DepositsCoverVotes
    OBVIOUS
  <1> QED BY <1>1, <1>2, <1>3, PTL DEF Spec
===============================================================================
