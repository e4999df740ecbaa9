----------------------- MODULE GovernanceProposalProofs -----------------------
(***************************************************************************)
(* Proposals, for every number of them: the outstanding proposals of an    *)
(* owner are counted exactly, and no vote starts before every appointed    *)
(* signatory has signed.                                                   *)
(***************************************************************************)
EXTENDS GovernanceVoteProofs

\* Proposals are numbered from zero without gaps, so CreateProposal writes an
\* account that is still empty; and the owner of a proposal is a record.
ProposalsNumbered ==
    /\ \A g \in Governances : ~ governance[g].exists => governance[g].proposals_count = 0
    /\ \A p \in ProposalIds :
          p[2] >= governance[p[1]].proposals_count => proposal[p].state = "Uninitialized"
    /\ \A p \in ProposalIds :
          proposal[p].state # "Uninitialized" => proposal[p].owner \in Records

Appointed(p) == {s \in Signatories : signatory[<<p, s>>] # "Empty"}

SignedOff(p) == {s \in Signatories : signatory[<<p, s>>] = "SignedOff"}

\* The two counters of a proposal are the numbers of its signatory records.
SignatureCountsExact ==
    \A p \in ProposalIds :
        /\ proposal[p].signatories_count = Cardinality(Appointed(p))
        /\ proposal[p].signed_off_count = Cardinality(SignedOff(p))

-------------------------------------------------------------------------------
\* What only CreateGovernance and CreateProposal change.
SameNumbers ==
    \A g \in Governances :
        /\ governance'[g].exists = governance[g].exists
        /\ governance'[g].proposals_count = governance[g].proposals_count

\* No proposal is created or changes hands.
SameProposals ==
    \A p \in ProposalIds :
        /\ proposal'[p].owner = proposal[p].owner
        /\ proposal'[p].state = "Uninitialized" <=> proposal[p].state = "Uninitialized"

\* Steps that create nothing.
LEMMA NumberedFrame ==
    ASSUME ProposalsNumbered, SameNumbers, SameProposals
    PROVE  ProposalsNumbered'
  <1>1. \A p \in ProposalIds : p[1] \in Governances
    BY DEF ProposalIds
  <1> QED BY <1>1 DEF ProposalsNumbered, SameNumbers, SameProposals

\* Counting the proposals in voting state changes no number.
LEMMA UncountKeepsNumbers ==
    ASSUME TypeOK, NEW g \in Governances, UncountVotingProposal(g) \/ CountVotingProposal(g)
    PROVE  SameNumbers
  BY DEF UncountVotingProposal, CountVotingProposal, SameNumbers, TypeOK, GovernanceAccount

\* Nor does the instruction of a transaction.
LEMMA InvokeKeepsNumbers ==
    ASSUME TypeOK, NEW g \in Governances, NEW n, Invoke(g, n)
    PROVE  SameNumbers
  BY DEF Invoke, SameNumbers, TypeOK, GovernanceAccount

\* A vote leaves the governance alone unless it decides the proposal.
LEMMA CastVoteKeepsNumbers ==
    ASSUME TypeOK, NEW p \in ProposalIds, NEW t, NEW v, NEW s, CastVote(p, t, v, s)
    PROVE  SameNumbers
  <1>1. UNCHANGED governance \/ UncountVotingProposal(p[1])
    BY DEF CastVote
  <1>2. p[1] \in Governances
    BY DEF ProposalIds
  <1> QED BY <1>1, <1>2, UncountKeepsNumbers DEF SameNumbers

\* The proposals after a vote.
LEMMA CastVoteProposal ==
    ASSUME TypeOK, NEW p \in ProposalIds, NEW t, NEW v, NEW s, CastVote(p, t, v, s)
    PROVE  \E state \in {"None", "Succeeded", "Defeated"} :
              /\ record' = VotedRecords(t, proposal[p].owner, state # "None")
              /\ \A q \in ProposalIds \ {p} : proposal'[q] = proposal[q]
              /\ proposal'[p].state = IF state = "None" THEN "Voting" ELSE state
              /\ proposal'[p].owner = proposal[p].owner
              /\ proposal'[p].signatories_count = proposal[p].signatories_count
              /\ proposal'[p].signed_off_count = proposal[p].signed_off_count
  <1>1. PICK w \in resolve_voter_weight(t), state \in {"None", "Succeeded", "Defeated"} :
            \E deny, max : VoteCounted(p, t, v, w, state, deny, max)
    BY CastVoteEffect
  <1>2. PICK deny, max : VoteCounted(p, t, v, w, state, deny, max)
    BY <1>1
  <1> DEFINE new == IF state = "None" THEN [proposal[p] EXCEPT !.deny = deny]
                    ELSE Decided(p, state, deny, max)
  <1>3. /\ record' = VotedRecords(t, proposal[p].owner, state # "None")
        /\ proposal' = [proposal EXCEPT ![p] = new]
    BY <1>2 DEF VoteCounted
  <1>4. proposal[p] \in Proposal /\ proposal[p].state = "Voting"
    BY DEF TypeOK, CastVote
  <1>5. /\ new.state = IF state = "None" THEN "Voting" ELSE state
        /\ new.owner = proposal[p].owner
        /\ new.signatories_count = proposal[p].signatories_count
        /\ new.signed_off_count = proposal[p].signed_off_count
    BY <1>4 DEF Decided, Proposal
  <1> HIDE DEF new
  <1>6. proposal'[p] = new /\ \A q \in ProposalIds \ {p} : proposal'[q] = proposal[q]
    BY <1>3 DEF TypeOK
  <1> QED BY <1>3, <1>5, <1>6

\* Steps of a proposal that has been created keep every identity.
LEMMA ChangedState ==
    ASSUME TypeOK, NEW p \in ProposalIds, proposal[p].state # "Uninitialized",
           \A q \in ProposalIds \ {p} : proposal'[q] = proposal[q],
           proposal'[p].owner = proposal[p].owner, proposal'[p].state # "Uninitialized"
    PROVE  SameProposals
  BY DEF SameProposals

\* Appointing and removing signatories, and signing off.
LEMMA DraftKeepsProposals ==
    ASSUME TypeOK, NEW p \in ProposalIds, NEW x, NEW s,
           \/ AddSignatory(p, x, s) \/ RemoveSignatory(p, x, s)
           \/ OwnerSignsOff(p, s) \/ SignatorySignsOff(p, x)
    PROVE  /\ \A q \in ProposalIds \ {p} : proposal'[q] = proposal[q]
           /\ proposal'[p].owner = proposal[p].owner
           /\ proposal[p].state \in {"Draft", "SigningOff"}
           /\ proposal'[p].state \in {"Draft", "SigningOff", "Voting"}
           /\ SameNumbers
           /\ UNCHANGED record
  <1>1. proposal[p] \in Proposal /\ p[1] \in Governances
    BY DEF TypeOK, ProposalIds
  <1>2. CASE AddSignatory(p, x, s)
    BY <1>1, <1>2 DEF AddSignatory, TypeOK, Proposal, SameNumbers
  <1>3. CASE RemoveSignatory(p, x, s)
    BY <1>1, <1>3 DEF RemoveSignatory, TypeOK, Proposal, SameNumbers
  <1>4. CASE OwnerSignsOff(p, s)
    <2>1. SameNumbers
      BY <1>1, <1>4, UncountKeepsNumbers DEF OwnerSignsOff
    <2> QED BY <1>1, <1>4, <2>1 DEF OwnerSignsOff, TypeOK, Proposal
  <1>5. CASE SignatorySignsOff(p, x)
    <2>1. SameNumbers
      BY <1>1, <1>5, UncountKeepsNumbers DEF SignatorySignsOff
    <2> QED BY <1>1, <1>5, <2>1 DEF SignatorySignsOff, TypeOK, Proposal
  <1> QED BY <1>2, <1>3, <1>4, <1>5

\* Finalizing and cancelling.
LEMMA EndKeepsProposals ==
    ASSUME TypeOK, NEW p \in ProposalIds, NEW s, FinalizeVote(p) \/ CancelProposal(p, s)
    PROVE  /\ \A q \in ProposalIds \ {p} : proposal'[q] = proposal[q]
           /\ proposal'[p].owner = proposal[p].owner
           /\ proposal'[p].signatories_count = proposal[p].signatories_count
           /\ proposal'[p].signed_off_count = proposal[p].signed_off_count
           /\ proposal[p].state \in OutstandingStates
           /\ proposal'[p].state \in {"Completed", "Succeeded", "Defeated", "Cancelled"}
           /\ proposal[p].state # "Voting" => proposal'[p].state = "Cancelled"
           /\ SameNumbers
           /\ record' = OutstandingDecreased(p)
           /\ UNCHANGED signatory
  <1>1. proposal[p] \in Proposal /\ p[1] \in Governances
    BY DEF TypeOK, ProposalIds
  <1>2. CASE FinalizeVote(p)
    <2> DEFINE tally == Tally(p, option, proposal[p].deny)
               state(max) == resolve_final_vote_state(
                                 tally, governance[p[1]].config.vote_threshold_percentage, max)
    <2>1. PICK max : proposal' = [proposal EXCEPT ![p] = Decided(p, state(max), proposal[p].deny, max)]
      BY <1>2 DEF FinalizeVote
    <2>2. state(max) \in {"Completed", "Succeeded", "Defeated"}
      BY DecisionStates
    <2>3. SameNumbers
      BY <1>1, <1>2, UncountKeepsNumbers DEF FinalizeVote
    <2> HIDE DEF state
    <2> QED BY <1>1, <1>2, <2>1, <2>2, <2>3
            DEF FinalizeVote, OutstandingStates, Decided, TypeOK, Proposal
  <1>3. CASE CancelProposal(p, s)
    <2>1. SameNumbers
      BY <1>1, <1>3, UncountKeepsNumbers DEF CancelProposal, SameNumbers
    <2> QED BY <1>1, <1>3, <2>1 DEF CancelProposal, OutstandingStates, TypeOK, Proposal
  <1> QED BY <1>2, <1>3

\* What executing or flagging a transaction of p does to the proposals.
Executed(p) ==
    /\ \A q \in ProposalIds \ {p} : proposal'[q] = proposal[q]
    /\ proposal'[p].owner = proposal[p].owner
    /\ proposal'[p].signatories_count = proposal[p].signatories_count
    /\ proposal'[p].signed_off_count = proposal[p].signed_off_count
    /\ proposal[p].state \in {"Succeeded", "Executing", "ExecutingWithErrors"}
    /\ proposal'[p].state \in {"Succeeded", "Executing", "ExecutingWithErrors", "Completed"}

\* Transactions are edited in a draft and executed once the vote is decided.
LEMMA TransactionsKeepProposals ==
    ASSUME TypeOK, TransactionNext
    PROVE  /\ SameNumbers
           /\ UNCHANGED <<record, signatory>>
           /\ UNCHANGED proposal \/ \E p \in ProposalIds : Executed(p)
  <1>1. PICK x \in TransactionIds :
            \/ \E h \in HoldUpTimes, n \in Instructions, s \in Signers :
                  InsertTransaction(x[1], x[2], x[3], h, n, s)
            \/ \E s \in Signers : RemoveTransaction(x[1], x[2], x[3], s)
            \/ ExecuteTransaction(x[1], x[2], x[3])
            \/ \E s \in Signers : FlagTransactionError(x[1], x[2], x[3], s)
    BY DEF TransactionNext
  <1> DEFINE p == x[1]
  <1>2. p \in ProposalIds /\ p[1] \in Governances /\ proposal[p] \in Proposal
    BY DEF TransactionIds, ProposalIds, TypeOK
  <1>3. CASE \/ \E h \in HoldUpTimes, n \in Instructions, s \in Signers :
                  InsertTransaction(p, x[2], x[3], h, n, s)
             \/ \E s \in Signers : RemoveTransaction(p, x[2], x[3], s)
    BY <1>3 DEF InsertTransaction, RemoveTransaction, SameNumbers
  <1>4. CASE ExecuteTransaction(p, x[2], x[3])
    <2>1. SameNumbers
      BY <1>2, <1>4, InvokeKeepsNumbers DEF ExecuteTransaction
    <2>2. PICK done \in BOOLEAN :
             proposal' = [proposal EXCEPT ![p].state =
                              IF done THEN "Completed"
                              ELSE IF @ = "Succeeded" THEN "Executing" ELSE @]
      BY <1>4, ZenonT(60) DEF ExecuteTransaction
    <2>3. proposal[p].state \in {"Succeeded", "Executing", "ExecutingWithErrors"}
      BY <1>4 DEF ExecuteTransaction, assert_can_execute_transaction
    <2>4. Executed(p)
      BY <1>2, <2>2, <2>3 DEF Executed, TypeOK, Proposal
    <2>5. UNCHANGED <<record, signatory>>
      BY <1>4 DEF ExecuteTransaction
    <2> QED BY <1>2, <2>1, <2>4, <2>5
  <1>5. CASE \E s \in Signers : FlagTransactionError(p, x[2], x[3], s)
    <2>1. /\ proposal' = [proposal EXCEPT ![p].state = "ExecutingWithErrors"]
          /\ proposal[p].state \in {"Succeeded", "Executing", "ExecutingWithErrors"}
          /\ UNCHANGED <<governance, record, signatory>>
      BY <1>5 DEF FlagTransactionError, assert_can_execute_transaction
    <2>2. Executed(p)
      BY <1>2, <2>1 DEF Executed, TypeOK, Proposal
    <2> QED BY <1>2, <2>1, <2>2 DEF SameNumbers
  <1> QED BY <1>1, <1>3, <1>4, <1>5

\* Realms, records and time.
LEMMA RealmKeepsProposals ==
    ASSUME TypeOK, RealmNext \/ Tick \/ UNCHANGED vars
    PROVE  UNCHANGED <<proposal, signatory>>
  <1>1. CASE RealmNext
    BY <1>1, ZenonT(60) DEF RealmNext, CreateGovernance, SetRealmConfig, SetRealmAuthority,
                CreateTokenOwnerRecord, WithdrawGoverningTokens, DepositGoverningTokens,
                SetGovernanceDelegate, MintTokens, BurnTokens, SendToHolding
  <1>2. CASE Tick
    BY <1>2 DEF Tick
  <1>3. CASE UNCHANGED vars
    BY <1>3 DEF vars
  <1> QED BY <1>1, <1>2, <1>3

\* The new proposal gets the next number of its governance.
LEMMA CreatedProposal ==
    ASSUME TypeOK, ProposalsNumbered, NEW g \in Governances, NEW m \in Mints, NEW t \in Records,
           NEW k, NEW s, CreateProposal(g, m, t, k, s)
    PROVE  \E p \in ProposalIds :
              /\ p = <<g, governance[g].proposals_count>>
              /\ proposal[p].state = "Uninitialized"
              /\ \A q \in ProposalIds \ {p} : proposal'[q] = proposal[q]
              /\ proposal'[p].state = "Draft" /\ proposal'[p].owner = t
              /\ proposal'[p].signatories_count = 0 /\ proposal'[p].signed_off_count = 0
              /\ record' = [record EXCEPT ![t].outstanding_proposal_count = @ + 1]
              /\ UNCHANGED signatory
  <1> DEFINE p == <<g, governance[g].proposals_count>>
             new == [EmptyProposal EXCEPT !.state = "Draft", !.mint = m, !.owner = t,
                        !.vote_type = k.vote_type, !.options = k.options,
                        !.has_deny = k.use_deny_option]
  <1>1. p \in ProposalIds
    BY BoundAssumption DEF CreateProposal, TypeOK, GovernanceAccount, ProposalIds
  <1>2. proposal[p].state = "Uninitialized"
    BY <1>1 DEF ProposalsNumbered, TypeOK, GovernanceAccount
  <1>3. /\ new.state = "Draft" /\ new.owner = t
        /\ new.signatories_count = 0 /\ new.signed_off_count = 0
    BY DEF EmptyProposal
  <1>4. /\ proposal' = [proposal EXCEPT ![p] = new]
        /\ record' = [record EXCEPT ![t].outstanding_proposal_count = @ + 1]
        /\ UNCHANGED signatory
    BY DEF CreateProposal
  <1> HIDE DEF new
  <1>5. proposal'[p] = new /\ \A q \in ProposalIds \ {p} : proposal'[q] = proposal[q]
    BY <1>1, <1>4 DEF TypeOK
  <1> QED BY <1>1, <1>2, <1>3, <1>4, <1>5

\* The numbering is kept: CreateProposal takes the next number and every other
\* instruction works on a proposal that exists.
LEMMA NumberedNext ==
    ASSUME TypeOK, ProposalsNumbered, [Next]_vars
    PROVE  ProposalsNumbered'
  <1>1. CASE UNCHANGED <<governance, proposal>>
    BY <1>1, NumberedFrame DEF SameNumbers, SameProposals
  <1>2. ASSUME NEW g \in Governances, NEW c, NEW s, CreateGovernance(g, c, s)
        PROVE  ProposalsNumbered'
    <2>1. \A h \in Governances :
             /\ governance'[h].exists = (h = g \/ governance[h].exists)
             /\ governance'[h].proposals_count = governance[h].proposals_count
      BY <1>2 DEF CreateGovernance, ProposalsNumbered, TypeOK, GovernanceAccount
    <2>2. \A p \in ProposalIds : p[1] \in Governances
      BY DEF ProposalIds
    <2> QED BY <1>2, <2>1, <2>2 DEF CreateGovernance, ProposalsNumbered
  <1>3. CASE RealmNext
    BY <1>1, <1>2, <1>3, ZenonT(60)
    DEF RealmNext, SetRealmConfig, SetRealmAuthority, CreateTokenOwnerRecord,
        WithdrawGoverningTokens, DepositGoverningTokens, SetGovernanceDelegate,
        MintTokens, BurnTokens, SendToHolding
  <1>4. ASSUME NEW g \in Governances, NEW m \in Mints, NEW t \in Records, NEW k, NEW s,
               CreateProposal(g, m, t, k, s)
        PROVE  ProposalsNumbered'
    <2>1. PICK p \in ProposalIds :
              /\ p = <<g, governance[g].proposals_count>>
              /\ \A q \in ProposalIds \ {p} : proposal'[q] = proposal[q]
              /\ proposal'[p].state = "Draft" /\ proposal'[p].owner = t
      BY <1>4, CreatedProposal
    <2>2. \A h \in Governances :
             /\ governance'[h].exists = governance[h].exists
             /\ governance'[h].proposals_count =
                   IF h = g THEN governance[h].proposals_count + 1
                   ELSE governance[h].proposals_count
             /\ governance[h].proposals_count \in Nat
      BY <1>4, BoundAssumption DEF CreateProposal, TypeOK, GovernanceAccount
    <2>3. \A q \in ProposalIds : q[1] \in Governances /\ q[2] \in Nat /\ q = <<q[1], q[2]>>
      BY BoundAssumption DEF ProposalIds
    <2>4. governance[g].exists
      BY <1>4 DEF CreateProposal
    <2>5. ASSUME NEW q \in ProposalIds, q[2] >= governance'[q[1]].proposals_count
          PROVE  proposal'[q].state = "Uninitialized"
      <3>1. q # p
        BY <2>1, <2>2, <2>3, <2>5
      <3>2. q[2] >= governance[q[1]].proposals_count
        BY <2>2, <2>3, <2>5
      <3> QED BY <2>1, <3>1, <3>2 DEF ProposalsNumbered
    <2>6. \A q \in ProposalIds : proposal'[q].state # "Uninitialized" => proposal'[q].owner \in Records
      BY <2>1 DEF ProposalsNumbered
    <2>7. \A h \in Governances : ~ governance'[h].exists => governance'[h].proposals_count = 0
      BY <2>2, <2>4 DEF ProposalsNumbered
    <2> QED BY <2>5, <2>6, <2>7 DEF ProposalsNumbered
  <1>5. CASE DraftNext
    <2>1. ASSUME NEW p \in ProposalIds, NEW x, NEW s,
                 \/ AddSignatory(p, x, s) \/ RemoveSignatory(p, x, s)
                 \/ OwnerSignsOff(p, s) \/ SignatorySignsOff(p, x)
          PROVE  ProposalsNumbered'
      BY <2>1, DraftKeepsProposals, ChangedState, NumberedFrame
    <2> QED BY <1>4, <1>5, <2>1 DEF DraftNext
  <1>6. CASE VoteNext
    <2>1. ASSUME NEW p \in ProposalIds, NEW t, NEW v, NEW s, CastVote(p, t, v, s)
          PROVE  ProposalsNumbered'
      <3>1. SameProposals
        BY <2>1, CastVoteProposal, ChangedState DEF CastVote
      <3> QED BY <2>1, <3>1, CastVoteKeepsNumbers, NumberedFrame
    <2>2. ASSUME NEW p \in ProposalIds, NEW t, NEW s, WithdrawVote(p, t, s)
          PROVE  ProposalsNumbered'
      <3>1. SameProposals
        BY <2>2 DEF WithdrawVote, SameProposals, TypeOK, Proposal
      <3> QED BY <2>2, <3>1, NumberedFrame DEF WithdrawVote, SameNumbers
    <2>3. ASSUME NEW p \in ProposalIds, NEW s, FinalizeVote(p) \/ CancelProposal(p, s)
          PROVE  ProposalsNumbered'
      <3>1. SameProposals
        BY <2>3, EndKeepsProposals, ChangedState DEF OutstandingStates
      <3> QED BY <2>3, <3>1, EndKeepsProposals, NumberedFrame
    <2> QED BY <1>1, <1>6, <2>1, <2>2, <2>3 DEF VoteNext, ReleaseVote
  <1>7. CASE TransactionNext
    <2>1. SameProposals
      BY <1>7, TransactionsKeepProposals, ChangedState DEF Executed, SameProposals
    <2> QED BY <1>7, <2>1, TransactionsKeepProposals, NumberedFrame
  <1>8. CASE Tick \/ UNCHANGED vars
    BY <1>1, <1>8 DEF Tick, vars
  <1> QED BY <1>3, <1>5, <1>6, <1>7, <1>8 DEF Next

-------------------------------------------------------------------------------
\* The outstanding proposals of an owner can be counted.
LEMMA FiniteOutstanding ==
    ASSUME NEW t
    PROVE  IsFiniteSet(OutstandingProposals(t))
  <1>1. OutstandingProposals(t) \in SUBSET ProposalIds
    BY DEF OutstandingProposals
  <1> QED BY <1>1, FiniteProposals, FS_Subset

\* Steps that neither open nor close a proposal.
LEMMA OutstandingFrame ==
    ASSUME OutstandingCountExact,
           \A p \in ProposalIds :
              /\ proposal'[p].owner = proposal[p].owner
              /\ proposal'[p].state \in OutstandingStates <=> proposal[p].state \in OutstandingStates,
           \A x \in Records :
              record'[x].outstanding_proposal_count = record[x].outstanding_proposal_count
    PROVE  OutstandingCountExact'
  <1>1. \A x \in Records : OutstandingProposals(x)' = OutstandingProposals(x)
    BY DEF OutstandingProposals
  <1> QED BY <1>1 DEF OutstandingCountExact

\* Steps that close p: the count of its owner is positive, so saturating_sub
\* takes off exactly one.
LEMMA OutstandingEnds ==
    ASSUME TypeOK, ProposalsNumbered, OutstandingCountExact, NEW p \in ProposalIds,
           \A q \in ProposalIds \ {p} : proposal'[q] = proposal[q],
           proposal'[p].owner = proposal[p].owner,
           proposal[p].state \in OutstandingStates,
           proposal'[p].state \notin OutstandingStates,
           \A x \in Records :
              record'[x].outstanding_proposal_count =
                 IF x = proposal[p].owner
                 THEN saturating_sub(record[x].outstanding_proposal_count, 1)
                 ELSE record[x].outstanding_proposal_count
    PROVE  OutstandingCountExact'
  <1> DEFINE o == proposal[p].owner
  <1>1. o \in Records /\ p \in OutstandingProposals(o)
    BY DEF ProposalsNumbered, OutstandingStates, OutstandingProposals
  <1>2. \A x \in Records :
           OutstandingProposals(x)' = IF x = o THEN OutstandingProposals(x) \ {p}
                                      ELSE OutstandingProposals(x)
    BY DEF OutstandingProposals
  <1>3. Cardinality(OutstandingProposals(o) \ {p}) = Cardinality(OutstandingProposals(o)) - 1
    BY <1>1, FiniteOutstanding, FS_RemoveElement, ZenonT(60)
  <1>4. Cardinality(OutstandingProposals(o)) \in Nat /\ Cardinality(OutstandingProposals(o)) # 0
    BY <1>1, FiniteOutstanding, FS_CardinalityType, FS_EmptySet
  <1>5. record[o].outstanding_proposal_count = Cardinality(OutstandingProposals(o))
    BY <1>1 DEF OutstandingCountExact
  <1>6. record'[o].outstanding_proposal_count = Cardinality(OutstandingProposals(o) \ {p})
    BY <1>1, <1>3, <1>4, <1>5 DEF saturating_sub
  <1> QED BY <1>2, <1>6 DEF OutstandingCountExact

\* The step that opens a proposal.
LEMMA OutstandingBegins ==
    ASSUME TypeOK, ProposalsNumbered, OutstandingCountExact, NEW g \in Governances,
           NEW m \in Mints, NEW t \in Records, NEW k, NEW s, CreateProposal(g, m, t, k, s)
    PROVE  OutstandingCountExact'
  <1>1. PICK p \in ProposalIds :
            /\ proposal[p].state = "Uninitialized"
            /\ \A q \in ProposalIds \ {p} : proposal'[q] = proposal[q]
            /\ proposal'[p].state = "Draft" /\ proposal'[p].owner = t
            /\ record' = [record EXCEPT ![t].outstanding_proposal_count = @ + 1]
    BY CreatedProposal
  <1>2. \A x \in Records :
           OutstandingProposals(x)' = IF x = t THEN OutstandingProposals(x) \cup {p}
                                      ELSE OutstandingProposals(x)
    BY <1>1 DEF OutstandingProposals, OutstandingStates
  <1>3. p \notin OutstandingProposals(t)
    BY <1>1 DEF OutstandingProposals, OutstandingStates
  <1>4. Cardinality(OutstandingProposals(t) \cup {p}) = Cardinality(OutstandingProposals(t)) + 1
    BY <1>3, FiniteOutstanding, FS_AddElement
  <1>5. \A x \in Records :
           record'[x].outstanding_proposal_count =
              IF x = t THEN record[x].outstanding_proposal_count + 1
              ELSE record[x].outstanding_proposal_count
    BY <1>1 DEF TypeOK, TokenOwnerRecord
  <1> QED BY <1>2, <1>4, <1>5 DEF OutstandingCountExact

\* The inductive step.
LEMMA OutstandingNext ==
    ASSUME TypeOK, RecordsStartEmpty, ProposalsNumbered, OutstandingCountExact, [Next]_vars
    PROVE  OutstandingCountExact'
  <1>1. CASE UNCHANGED <<record, proposal>>
    BY <1>1, OutstandingFrame
  <1>2. CASE RealmNext
    <2>1. UNCHANGED proposal
      BY <1>2, RealmKeepsProposals
    <2>2. ASSUME NEW t \in Records, CreateTokenOwnerRecord(t)
          PROVE  OutstandingCountExact'
      <3>1. record' = [record EXCEPT ![t] = [EmptyRecord EXCEPT !.exists = TRUE]]
        BY <2>2 DEF CreateTokenOwnerRecord
      <3>2. record[t].outstanding_proposal_count = 0
        BY <2>2 DEF CreateTokenOwnerRecord, RecordsStartEmpty
      <3>3. \A x \in Records :
              record'[x].outstanding_proposal_count = record[x].outstanding_proposal_count
        BY <3>1, <3>2 DEF EmptyRecord, TypeOK
      <3> QED BY <2>1, <3>3, OutstandingFrame
    <2>3. ASSUME NEW t \in Records, WithdrawGoverningTokens(t)
          PROVE  OutstandingCountExact'
      BY <2>1, <2>3, OutstandingFrame DEF WithdrawGoverningTokens, TypeOK, TokenOwnerRecord
    <2>4. ASSUME NEW t \in Records, NEW a \in DepositAmounts, DepositGoverningTokens(t, a)
          PROVE  OutstandingCountExact'
      BY <2>1, <2>4, OutstandingFrame DEF DepositGoverningTokens, TypeOK, TokenOwnerRecord
    <2>5. ASSUME NEW t \in Records, NEW d, NEW s, SetGovernanceDelegate(t, d, s)
          PROVE  OutstandingCountExact'
      BY <2>1, <2>5, OutstandingFrame DEF SetGovernanceDelegate, TypeOK, TokenOwnerRecord
    <2> QED BY <1>1, <1>2, <2>2, <2>3, <2>4, <2>5
            DEF RealmNext, CreateGovernance, SetRealmConfig, SetRealmAuthority,
        MintTokens, BurnTokens, SendToHolding
  <1>3. CASE DraftNext
    <2>1. ASSUME NEW p \in ProposalIds, NEW x, NEW s,
                 \/ AddSignatory(p, x, s) \/ RemoveSignatory(p, x, s)
                 \/ OwnerSignsOff(p, s) \/ SignatorySignsOff(p, x)
          PROVE  OutstandingCountExact'
      <3>1. \A q \in ProposalIds :
              /\ proposal'[q].owner = proposal[q].owner
              /\ proposal'[q].state \in OutstandingStates <=> proposal[q].state \in OutstandingStates
        BY <2>1, DraftKeepsProposals DEF OutstandingStates
      <3> QED BY <2>1, <3>1, DraftKeepsProposals, OutstandingFrame
    <2> QED BY <1>3, <2>1, OutstandingBegins DEF DraftNext
  <1>4. CASE VoteNext
    <2>1. ASSUME NEW p \in ProposalIds, NEW t \in Records, NEW v, NEW s, CastVote(p, t, v, s)
          PROVE  OutstandingCountExact'
      <3>1. PICK state \in {"None", "Succeeded", "Defeated"} :
              /\ record' = VotedRecords(t, proposal[p].owner, state # "None")
              /\ \A q \in ProposalIds \ {p} : proposal'[q] = proposal[q]
              /\ proposal'[p].state = IF state = "None" THEN "Voting" ELSE state
              /\ proposal'[p].owner = proposal[p].owner
        BY <2>1, CastVoteProposal
      <3>2. proposal[p].state = "Voting"
        BY <2>1 DEF CastVote
      <3>3. \A x \in Records :
              record'[x].outstanding_proposal_count =
                 IF x = proposal[p].owner /\ state # "None"
                 THEN saturating_sub(record[x].outstanding_proposal_count, 1)
                 ELSE record[x].outstanding_proposal_count
        <4> DEFINE tipped == state # "None"
        <4>1. record' = VotedRecords(t, proposal[p].owner, tipped)
          BY <3>1
        <4> HIDE DEF tipped
        <4>2. \A x \in Records :
                record'[x].outstanding_proposal_count =
                   IF x = proposal[p].owner /\ tipped
                   THEN saturating_sub(record[x].outstanding_proposal_count, 1)
                   ELSE record[x].outstanding_proposal_count
          BY <4>1, VotedFields
        <4> QED BY <4>2 DEF tipped
      <3>4. CASE state = "None"
        BY <3>1, <3>2, <3>3, <3>4, OutstandingFrame
      <3>5. CASE state # "None"
        <4>1. proposal[p].state \in OutstandingStates /\ proposal'[p].state \notin OutstandingStates
          BY <3>1, <3>2, <3>5 DEF OutstandingStates
        <4> QED BY <3>1, <3>3, <3>5, <4>1, OutstandingEnds
      <3> QED BY <3>4, <3>5
    <2>2. ASSUME NEW p \in ProposalIds, NEW t \in Records, NEW s, WithdrawVote(p, t, s)
          PROVE  OutstandingCountExact'
      <3>1. \A q \in ProposalIds :
               proposal'[q].owner = proposal[q].owner /\ proposal'[q].state = proposal[q].state
        BY <2>2 DEF WithdrawVote, TypeOK, Proposal
      <3>2. \A x \in Records :
               record'[x].outstanding_proposal_count = record[x].outstanding_proposal_count
        BY <2>2 DEF WithdrawVote, TypeOK, TokenOwnerRecord
      <3> QED BY <3>1, <3>2, OutstandingFrame
    <2>3. ASSUME NEW p \in ProposalIds, NEW t \in Records, ReleaseVote(p, t)
          PROVE  OutstandingCountExact'
      BY <2>3, OutstandingFrame DEF ReleaseVote, TypeOK, TokenOwnerRecord
    <2>4. ASSUME NEW p \in ProposalIds, NEW s, FinalizeVote(p) \/ CancelProposal(p, s)
          PROVE  OutstandingCountExact'
      <3>1. record' = OutstandingDecreased(p)
        BY <2>4, EndKeepsProposals
      <3>2. \A x \in Records :
              record'[x].outstanding_proposal_count =
                 IF x = proposal[p].owner
                 THEN saturating_sub(record[x].outstanding_proposal_count, 1)
                 ELSE record[x].outstanding_proposal_count
        BY <3>1 DEF OutstandingDecreased, TypeOK, TokenOwnerRecord
      <3>3. proposal'[p].state \notin OutstandingStates
        BY <2>4, EndKeepsProposals DEF OutstandingStates
      <3> QED BY <2>4, <3>2, <3>3, EndKeepsProposals, OutstandingEnds
    <2> QED BY <1>4, <2>1, <2>2, <2>3, <2>4 DEF VoteNext
  <1>5. CASE TransactionNext
    <2>1. \A q \in ProposalIds :
              /\ proposal'[q].owner = proposal[q].owner
              /\ proposal'[q].state \in OutstandingStates <=> proposal[q].state \in OutstandingStates
      BY <1>5, TransactionsKeepProposals DEF Executed, OutstandingStates
    <2> QED BY <1>5, <2>1, TransactionsKeepProposals, OutstandingFrame
  <1>6. CASE Tick \/ UNCHANGED vars
    BY <1>1, <1>6 DEF Tick, vars
  <1> QED BY <1>2, <1>3, <1>4, <1>5, <1>6 DEF Next

\* outstanding_proposal_count is exact in every reachable state.
THEOREM OutstandingCountCorrect == Spec => []OutstandingCountExact
  <1> DEFINE Inv == TypeOK /\ RecordsStartEmpty /\ ProposalsNumbered /\ OutstandingCountExact
  <1>1. Init => Inv
    <2>1. Init => ProposalsNumbered
      BY DEF Init, ProposalsNumbered, EmptyProposal
    <2>2. ASSUME Init PROVE OutstandingCountExact
      <3>1. \A t \in Records : OutstandingProposals(t) = {}
        BY <2>2 DEF Init, OutstandingProposals, OutstandingStates, EmptyProposal
      <3> QED BY <2>2, <3>1, FS_EmptySet DEF Init, OutstandingCountExact, EmptyRecord
    <2> QED BY <2>1, <2>2, TypeInit, CountsInit
  <1>2. Inv /\ [Next]_vars => Inv'
    BY TypeNext, EmptyRecordsNext, NumberedNext, OutstandingNext
  <1>3. Inv => OutstandingCountExact
    OBVIOUS
  <1> QED BY <1>1, <1>2, <1>3, PTL DEF Spec

-------------------------------------------------------------------------------
\* The signatories of a proposal can be counted, and the signed ones are some of
\* the appointed ones.
LEMMA FiniteSignatories ==
    ASSUME NEW p
    PROVE  /\ IsFiniteSet(Appointed(p)) /\ IsFiniteSet(SignedOff(p))
           /\ SignedOff(p) \subseteq Appointed(p)
  <1>1. Appointed(p) \in SUBSET Signatories /\ SignedOff(p) \in SUBSET Signatories
    BY DEF Appointed, SignedOff
  <1>2. SignedOff(p) \subseteq Appointed(p)
    BY DEF Appointed, SignedOff
  <1> QED BY <1>1, <1>2, FiniteAssumption, FS_Subset

\* What VotingNeedsAllSignatures and SigningOffAwaitsSignature say of one proposal.
Signed(p) ==
    /\ \A s \in Signatories :
          /\ signatory[<<p, s>>] = "Pending" =>
                proposal[p].state \in {"Draft", "SigningOff", "Cancelled"}
          /\ signatory[<<p, s>>] = "SignedOff" =>
                proposal[p].state \notin {"Uninitialized", "Draft"}
    /\ proposal[p].state = "SigningOff" => \E s \in Signatories : signatory[<<p, s>>] = "Pending"

SignaturesInv == SignatureCountsExact /\ \A p \in ProposalIds : Signed(p)

\* Steps that touch no signature and move a proposal only forward.
LEMMA SignaturesFrame ==
    ASSUME SignaturesInv, UNCHANGED signatory,
           \A p \in ProposalIds :
              /\ proposal'[p].signatories_count = proposal[p].signatories_count
              /\ proposal'[p].signed_off_count = proposal[p].signed_off_count
              /\ \/ proposal'[p].state = proposal[p].state
                 \/ proposal'[p].state = "Cancelled"
                 \/ /\ proposal[p].state \notin {"Draft", "SigningOff", "Cancelled"}
                    /\ proposal'[p].state \notin {"Uninitialized", "Draft", "SigningOff"}
    PROVE  SignaturesInv'
  <1>1. \A p \in ProposalIds : Appointed(p)' = Appointed(p) /\ SignedOff(p)' = SignedOff(p)
    BY DEF Appointed, SignedOff
  <1>2. SignatureCountsExact'
    BY <1>1 DEF SignaturesInv, SignatureCountsExact
  <1>3. ASSUME NEW p \in ProposalIds
        PROVE  Signed(p)'
    BY DEF SignaturesInv, Signed
  <1> QED BY <1>2, <1>3 DEF SignaturesInv

\* Steps that write p and its signatories only.
LEMMA SignaturesOfOthers ==
    ASSUME SignaturesInv, NEW p \in ProposalIds,
           \A q \in ProposalIds \ {p} :
              /\ proposal'[q] = proposal[q]
              /\ \A s \in Signatories : signatory'[<<q, s>>] = signatory[<<q, s>>],
           proposal'[p].signatories_count = Cardinality(Appointed(p)'),
           proposal'[p].signed_off_count = Cardinality(SignedOff(p)'),
           Signed(p)'
    PROVE  SignaturesInv'
  <1>1. \A q \in ProposalIds \ {p} : Appointed(q)' = Appointed(q) /\ SignedOff(q)' = SignedOff(q)
    BY DEF Appointed, SignedOff
  <1>2. ASSUME NEW q \in ProposalIds \ {p} PROVE Signed(q)'
    <2>1. proposal'[q].state = proposal[q].state
      OBVIOUS
    <2>2. \A s \in Signatories : signatory'[<<q, s>>] = signatory[<<q, s>>]
      OBVIOUS
    <2>3. Signed(q)
      BY DEF SignaturesInv
    <2> QED BY <2>1, <2>2, <2>3 DEF Signed
  <1> QED BY <1>1, <1>2 DEF SignaturesInv, SignatureCountsExact

\* A new proposal has no signatories.
LEMMA SignaturesCreate ==
    ASSUME TypeOK, ProposalsNumbered, SignaturesInv, NEW g \in Governances, NEW m \in Mints,
           NEW t \in Records, NEW k, NEW s, CreateProposal(g, m, t, k, s)
    PROVE  SignaturesInv'
  <1>1. PICK p \in ProposalIds :
            /\ proposal[p].state = "Uninitialized"
            /\ \A q \in ProposalIds \ {p} : proposal'[q] = proposal[q]
            /\ proposal'[p].state = "Draft"
            /\ proposal'[p].signatories_count = 0 /\ proposal'[p].signed_off_count = 0
            /\ UNCHANGED signatory
    BY CreatedProposal
  <1>2. \A x \in Signatories : signatory[<<p, x>>] = "Empty"
    BY <1>1 DEF SignaturesInv, Signed, TypeOK
  <1>3. Appointed(p)' = {} /\ SignedOff(p)' = {}
    BY <1>1, <1>2 DEF Appointed, SignedOff
  <1>4. Signed(p)'
    BY <1>1, <1>2 DEF Signed
  <1> QED BY <1>1, <1>3, <1>4, FS_EmptySet, SignaturesOfOthers

\* Appointing a signatory and removing one again.
LEMMA SignaturesEdit ==
    ASSUME TypeOK, SignaturesInv, NEW p \in ProposalIds, NEW x \in Signatories, NEW s,
           AddSignatory(p, x, s) \/ RemoveSignatory(p, x, s)
    PROVE  SignaturesInv'
  <1>1. /\ proposal[p].state = "Draft"
        /\ proposal[p].signatories_count = Cardinality(Appointed(p))
        /\ proposal[p].signed_off_count = Cardinality(SignedOff(p))
        /\ \A y \in Signatories : signatory[<<p, y>>] # "SignedOff"
    BY DEF AddSignatory, RemoveSignatory, SignaturesInv, SignatureCountsExact, Signed
  <1>2. CASE AddSignatory(p, x, s)
    <2>1. \A q \in ProposalIds, y \in Signatories :
             signatory'[<<q, y>>] = IF q = p /\ y = x THEN "Pending" ELSE signatory[<<q, y>>]
      BY <1>2 DEF AddSignatory, TypeOK
    <2>2. /\ \A q \in ProposalIds \ {p} : proposal'[q] = proposal[q]
          /\ proposal'[p].state = "Draft"
          /\ proposal'[p].signatories_count = proposal[p].signatories_count + 1
          /\ proposal'[p].signed_off_count = proposal[p].signed_off_count
      BY <1>1, <1>2 DEF AddSignatory, TypeOK, Proposal
    <2>3. Appointed(p)' = Appointed(p) \cup {x} /\ x \notin Appointed(p) /\ SignedOff(p)' = SignedOff(p)
      BY <1>2, <2>1 DEF AddSignatory, Appointed, SignedOff
    <2>4. Cardinality(Appointed(p) \cup {x}) = Cardinality(Appointed(p)) + 1
      BY <2>3, FiniteSignatories, FS_AddElement
    <2>5. Signed(p)'
      BY <1>1, <2>1, <2>2 DEF Signed
    <2> QED BY <1>1, <2>1, <2>2, <2>3, <2>4, <2>5, SignaturesOfOthers
  <1>3. CASE RemoveSignatory(p, x, s)
    <2>1. \A q \in ProposalIds, y \in Signatories :
             signatory'[<<q, y>>] = IF q = p /\ y = x THEN "Empty" ELSE signatory[<<q, y>>]
      BY <1>3 DEF RemoveSignatory, TypeOK
    <2>2. /\ \A q \in ProposalIds \ {p} : proposal'[q] = proposal[q]
          /\ proposal'[p].state = "Draft"
          /\ proposal'[p].signatories_count = proposal[p].signatories_count - 1
          /\ proposal'[p].signed_off_count = proposal[p].signed_off_count
      BY <1>1, <1>3 DEF RemoveSignatory, TypeOK, Proposal
    <2>3. Appointed(p)' = Appointed(p) \ {x} /\ x \in Appointed(p) /\ SignedOff(p)' = SignedOff(p)
      BY <1>3, <2>1 DEF RemoveSignatory, Appointed, SignedOff
    <2>4. Cardinality(Appointed(p) \ {x}) = Cardinality(Appointed(p)) - 1
      BY <2>3, FiniteSignatories, FS_RemoveElement
    <2>5. Signed(p)'
      BY <1>1, <2>1, <2>2 DEF Signed
    <2> QED BY <1>1, <2>1, <2>2, <2>3, <2>4, <2>5, SignaturesOfOthers
  <1> QED BY <1>2, <1>3

\* The owner may sign off only when nobody is appointed.
LEMMA SignaturesOwner ==
    ASSUME TypeOK, SignaturesInv, NEW p \in ProposalIds, NEW s, OwnerSignsOff(p, s)
    PROVE  SignaturesInv'
  <1>1. /\ Cardinality(Appointed(p)) = 0
        /\ proposal[p].signatories_count = Cardinality(Appointed(p))
        /\ proposal[p].signed_off_count = Cardinality(SignedOff(p))
    BY DEF OwnerSignsOff, SignaturesInv, SignatureCountsExact
  <1>2. Appointed(p) = {} /\ SignedOff(p) = {}
    BY <1>1, FiniteSignatories, FS_EmptySet
  <1>3. \A y \in Signatories : signatory[<<p, y>>] = "Empty"
    BY <1>2 DEF Appointed, TypeOK
  <1>4. /\ \A q \in ProposalIds \ {p} : proposal'[q] = proposal[q]
        /\ proposal'[p].signatories_count = proposal[p].signatories_count
        /\ proposal'[p].signed_off_count = proposal[p].signed_off_count
        /\ UNCHANGED signatory
    BY DEF OwnerSignsOff, TypeOK, Proposal
  <1>5. Signed(p)'
    <2>1. proposal'[p].state = "Voting"
      BY <1>1, <1>2 DEF OwnerSignsOff, TypeOK, Proposal
    <2> QED BY <1>3, <1>4, <2>1 DEF Signed
  <1>6. Appointed(p)' = Appointed(p) /\ SignedOff(p)' = SignedOff(p)
    BY <1>4 DEF Appointed, SignedOff
  <1> QED BY <1>1, <1>4, <1>5, <1>6, SignaturesOfOthers

\* When as many have signed as are appointed, all of them have; and the first
\* signature always takes the proposal out of Draft.
LEMMA SignaturesSign ==
    ASSUME TypeOK, SignaturesInv, NEW p \in ProposalIds, NEW x \in Signatories,
           SignatorySignsOff(p, x)
    PROVE  SignaturesInv'
  <1> DEFINE signed == proposal[p].signed_off_count + 1
             last == signed = proposal[p].signatories_count
  <1>1. /\ proposal[p].state \in {"Draft", "SigningOff"}
        /\ proposal[p].signatories_count = Cardinality(Appointed(p))
        /\ proposal[p].signed_off_count = Cardinality(SignedOff(p))
    BY DEF SignatorySignsOff, SignaturesInv, SignatureCountsExact
  <1>2. \A q \in ProposalIds, y \in Signatories :
           signatory'[<<q, y>>] = IF q = p /\ y = x THEN "SignedOff" ELSE signatory[<<q, y>>]
    BY DEF SignatorySignsOff, TypeOK
  <1>3. /\ \A q \in ProposalIds \ {p} : proposal'[q] = proposal[q]
        /\ proposal'[p].signatories_count = proposal[p].signatories_count
        /\ proposal'[p].signed_off_count = signed
        /\ proposal'[p].state = IF last THEN "Voting"
                                ELSE IF signed = 1 THEN "SigningOff" ELSE proposal[p].state
    BY DEF SignatorySignsOff, TypeOK, Proposal
  <1>4. /\ x \notin SignedOff(p)
        /\ SignedOff(p)' = SignedOff(p) \cup {x}
        /\ Appointed(p)' = Appointed(p)
    BY <1>2 DEF SignatorySignsOff, SignedOff, Appointed
  <1>5. Cardinality(SignedOff(p)') = signed
    BY <1>1, <1>4, FiniteSignatories, FS_AddElement, ZenonT(60)
  <1>6. ASSUME last PROVE \A y \in Signatories : signatory'[<<p, y>>] # "Pending"
    <2>1. /\ IsFiniteSet(Appointed(p))
          /\ SignedOff(p) \cup {x} \in SUBSET Appointed(p)
          /\ Cardinality(SignedOff(p) \cup {x}) = Cardinality(Appointed(p))
      BY <1>1, <1>4, <1>5, <1>6, FiniteSignatories DEF SignatorySignsOff, Appointed
    <2>2. SignedOff(p) \cup {x} = Appointed(p)
      BY <2>1, FS_Subset
    <2> QED BY <1>2, <2>2 DEF Appointed, SignedOff
  <1>7. proposal'[p].state \in {"SigningOff", "Voting"}
    <2>1. ASSUME proposal[p].state = "Draft" PROVE signed = 1
      <3>1. SignedOff(p) = {}
        BY <2>1 DEF SignaturesInv, Signed, SignedOff
      <3> QED BY <1>1, <3>1, FS_EmptySet
    <2> QED BY <1>1, <1>3, <2>1
  <1>8. Signed(p)'
    <2>1. proposal'[p].state = "Voting" => last
      BY <1>1, <1>3
    <2>2. \A y \in Signatories :
             /\ signatory'[<<p, y>>] = "Pending" => proposal'[p].state = "SigningOff"
             /\ proposal'[p].state \notin {"Uninitialized", "Draft"}
      BY <1>6, <1>7, <2>1
    <2>3. ASSUME proposal'[p].state = "SigningOff"
          PROVE  \E y \in Signatories : signatory'[<<p, y>>] = "Pending"
      <3>1. Cardinality(SignedOff(p)') # Cardinality(Appointed(p)')
        BY <1>1, <1>3, <1>4, <1>5, <2>3
      <3>2. PICK y \in Appointed(p)' : y \notin SignedOff(p)'
        BY <1>4, <3>1, FiniteSignatories DEF SignatorySignsOff, Appointed
      <3> QED BY <1>2, <3>2 DEF Appointed, SignedOff, TypeOK
    <2> QED BY <2>2, <2>3 DEF Signed
  <1> QED BY <1>1, <1>2, <1>3, <1>4, <1>5, <1>8, SignaturesOfOthers

\* The inductive step.
LEMMA SignaturesNext ==
    ASSUME TypeOK, ProposalsNumbered, SignaturesInv, [Next]_vars
    PROVE  SignaturesInv'
  <1>1. CASE UNCHANGED <<proposal, signatory>>
    BY <1>1, SignaturesFrame
  <1>2. CASE RealmNext \/ Tick \/ UNCHANGED vars
    BY <1>1, <1>2, RealmKeepsProposals
  <1>3. CASE DraftNext
    BY <1>3, SignaturesCreate, SignaturesEdit, SignaturesOwner, SignaturesSign DEF DraftNext
  <1>4. CASE VoteNext
    <2>1. ASSUME NEW p \in ProposalIds, NEW t, NEW v, NEW s, CastVote(p, t, v, s)
          PROVE  SignaturesInv'
      <3>1. \A q \in ProposalIds :
              /\ proposal'[q].signatories_count = proposal[q].signatories_count
              /\ proposal'[q].signed_off_count = proposal[q].signed_off_count
              /\ q # p => proposal'[q].state = proposal[q].state
        BY <2>1, CastVoteProposal
      <3>2. /\ proposal[p].state = "Voting"
            /\ proposal'[p].state \in {"Voting", "Succeeded", "Defeated"}
        BY <2>1, CastVoteProposal DEF CastVote
      <3>3. UNCHANGED signatory
        BY <2>1 DEF CastVote
      <3> QED BY <3>1, <3>2, <3>3, SignaturesFrame
    <2>2. ASSUME NEW p \in ProposalIds, NEW t \in Records, NEW s, WithdrawVote(p, t, s)
          PROVE  SignaturesInv'
      <3>1. \A q \in ProposalIds :
              /\ proposal'[q].signatories_count = proposal[q].signatories_count
              /\ proposal'[q].signed_off_count = proposal[q].signed_off_count
              /\ proposal'[q].state = proposal[q].state
        BY <2>2 DEF WithdrawVote, TypeOK, Proposal
      <3> QED BY <2>2, <3>1, SignaturesFrame DEF WithdrawVote
    <2>3. ASSUME NEW p \in ProposalIds, NEW s, FinalizeVote(p) \/ CancelProposal(p, s)
          PROVE  SignaturesInv'
      <3>1. \A q \in ProposalIds :
              /\ proposal'[q].signatories_count = proposal[q].signatories_count
              /\ proposal'[q].signed_off_count = proposal[q].signed_off_count
              /\ q # p => proposal'[q].state = proposal[q].state
        BY <2>3, EndKeepsProposals
      <3>2. \/ proposal'[p].state = "Cancelled"
            \/ /\ proposal[p].state = "Voting"
               /\ proposal'[p].state \in {"Completed", "Succeeded", "Defeated"}
        BY <2>3, EndKeepsProposals
      <3>3. UNCHANGED signatory
        BY <2>3, EndKeepsProposals
      <3> QED BY <3>1, <3>2, <3>3, SignaturesFrame
    <2> QED BY <1>1, <1>4, <2>1, <2>2, <2>3, ZenonT(60) DEF VoteNext, ReleaseVote
  <1>5. CASE TransactionNext
    <2>1. CASE UNCHANGED proposal
      BY <1>1, <1>5, <2>1, TransactionsKeepProposals
    <2>2. ASSUME NEW p \in ProposalIds, Executed(p)
          PROVE  SignaturesInv'
      <3>1. UNCHANGED signatory
        BY <1>5, TransactionsKeepProposals
      <3>2. \A q \in ProposalIds :
              /\ proposal'[q].signatories_count = proposal[q].signatories_count
              /\ proposal'[q].signed_off_count = proposal[q].signed_off_count
              /\ q # p => proposal'[q].state = proposal[q].state
        BY <2>2 DEF Executed
      <3>3. /\ proposal[p].state \notin {"Draft", "SigningOff", "Cancelled"}
            /\ proposal'[p].state \notin {"Uninitialized", "Draft", "SigningOff"}
        BY <2>2 DEF Executed
      <3> QED BY <3>1, <3>2, <3>3, SignaturesFrame
    <2> QED BY <1>5, <2>1, <2>2, TransactionsKeepProposals
  <1> QED BY <1>2, <1>3, <1>4, <1>5 DEF Next

\* The signatures and their counters agree in every reachable state.
LEMMA SignaturesInvariant == Spec => []SignaturesInv
  <1> DEFINE Inv == TypeOK /\ ProposalsNumbered /\ SignaturesInv
  <1>1. Init => Inv
    <2>1. Init => ProposalsNumbered
      BY DEF Init, ProposalsNumbered, EmptyProposal
    <2>2. ASSUME Init PROVE SignaturesInv
      <3>1. \A p \in ProposalIds : Appointed(p) = {} /\ SignedOff(p) = {}
        BY <2>2 DEF Init, Appointed, SignedOff
      <3>2. SignatureCountsExact
        BY <2>2, <3>1, FS_EmptySet, ZenonT(60) DEF Init, SignatureCountsExact, EmptyProposal
      <3>3. \A p \in ProposalIds : Signed(p)
        BY <2>2 DEF Init, Signed, EmptyProposal
      <3> QED BY <3>2, <3>3 DEF SignaturesInv
    <2> QED BY <2>1, <2>2, TypeInit
  <1>2. Inv /\ [Next]_vars => Inv'
    BY TypeNext, NumberedNext, SignaturesNext
  <1>3. Inv => SignaturesInv
    OBVIOUS
  <1> QED BY <1>1, <1>2, <1>3, PTL DEF Spec

\* No proposal takes votes, or is decided, while an appointed signatory has not
\* signed: for every number of signatories and every order of signing.
THEOREM SignaturesCorrect == Spec => []VotingNeedsAllSignatures
  <1>1. SignaturesInv => VotingNeedsAllSignatures
    BY DEF SignaturesInv, Signed, VotingNeedsAllSignatures
  <1> QED BY <1>1, SignaturesInvariant, PTL

\* A proposal that some have signed and others have not can still be signed by
\* one of them: signatories are removed from drafts only, so the last signature
\* missing is never taken away.
THEOREM SigningOffCorrect == Spec => []SigningOffAwaitsSignature
  <1>1. SignaturesInv => SigningOffAwaitsSignature
    BY DEF SignaturesInv, Signed, SigningOffAwaitsSignature
  <1> QED BY <1>1, SignaturesInvariant, PTL
===============================================================================
