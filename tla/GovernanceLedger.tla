--------------------------- MODULE GovernanceLedger ---------------------------
(***************************************************************************)
(* Properties of Governance that add up amounts: the tokens the realm      *)
(* holds, the weights a proposal has collected, and the weight of all the  *)
(* votes cast on it, each summed over the accounts it is made of.          *)
(***************************************************************************)
EXTENDS Governance, Totals

\* What the owners have deposited of mint m.
DepositsOf(m) == [t \in Records |-> IF t[1] = m THEN record[t].deposit ELSE 0]

\* The realm's holding account of each mint has all the tokens that the records
\* of that mint may withdraw (and what was sent to it without a deposit), so no
\* owner's withdrawal can fail for want of tokens, or be paid with another
\* owner's.
HoldingCoversDeposits == \A m \in Mints : holding[m] >= Total(Records, DepositsOf(m))

\* The weight of every vote cast on p, released since or not; and of those that
\* approve option i, and that deny.
WeightsCast(p) ==
    [t \in Records |-> IF voteRecord[<<p, t>>].status # "Empty"
                       THEN voteRecord[<<p, t>>].voter_weight ELSE 0]

WeightsFor(p, i) ==
    [t \in Records |-> IF i \in voteRecord[<<p, t>>].vote.choices
                       THEN WeightsCast(p)[t] ELSE 0]

WeightsAgainst(p) ==
    [t \in Records |-> IF voteRecord[<<p, t>>].vote.kind = "Deny"
                       THEN WeightsCast(p)[t] ELSE 0]

\* The weights of a proposal are the sums over its vote records, those whose
\* tokens were released after the vote included: withdrawing a vote takes off
\* what casting it added, even when the deposit has changed in between.
VoteWeightsExact ==
    \A p \in ProposalIds :
        /\ \A i \in 1 .. MaxOptions :
              option[<<p, i>>].vote_weight = Total(Records, WeightsFor(p, i))
        /\ proposal[p].deny = Total(Records, WeightsAgainst(p))

CurrentTally(p) == Tally(p, option, proposal[p].deny)

\* No token is counted twice in a running vote: Yes and Deny together never
\* exceed the supply, whoever deposits, votes, withdraws and passes tokens on.
\* (For runs in which no configuration change moves the end of a vote.)
NoTokenCountedTwice ==
    \A p \in ProposalIds :
        proposal[p].state = "Voting" /\ ~ has_vote_time_ended(p) =>
            total_vote_weight(CurrentTally(p)) <= supply[proposal[p].mint]

DecidedStates == {"Succeeded", "Executing", "ExecutingWithErrors", "Completed", "Defeated"}

\* Option i wins with the parameters captured in p: its weight is at least the
\* threshold percentage of the electorate, more than Deny and, in a single
\* choice, more than every other option.
Wins(p, i) ==
    LET weight(j) == option[<<p, j>>].vote_weight
    IN  /\ 100 * weight(i) >= proposal[p].vote_threshold_percentage * proposal[p].max_vote_weight
        /\ weight(i) > proposal[p].deny
        /\ proposal[p].vote_type = "SingleChoice" =>
              \A j \in (1 .. proposal[p].options) \ {i} : weight(i) > weight(j)

\* A decided proposal has the outcome its final tally deserves: the short cuts of
\* tipping and the count at the end of the vote both agree with Wins, for every
\* option and for the state of the proposal.
DecisionMatchesTally ==
    \A p \in ProposalIds : proposal[p].state \in DecidedStates =>
        LET winners == {i \in 1 .. proposal[p].options : Wins(p, i)}
        IN  /\ \A i \in 1 .. proposal[p].options :
                  option[<<p, i>>].vote_result = IF i \in winners THEN "Succeeded" ELSE "Defeated"
            /\ proposal[p].has_deny => (proposal[p].state = "Defeated" <=> winners = {})

\* The weight of all the votes cast on p, one summand for each voter however many
\* options the vote approves.
WeightCast(p) == Total(Records, WeightsCast(p))

\* The electorate of a mint is adjusted to the votes when an addin or a proper
\* fraction of the supply says how large it is.
IsAdjusted(m) ==
    /\ m = Community
    /\ realm.config.use_max_community_voter_weight_addin \/ realm.config.fraction # FractionBase

\* When a vote with one option is decided, by its last vote or by FinalizeVote,
\* the electorate it is decided with is at least the weight of all its voters
\* together, so that the threshold is a percentage of a whole: also when the
\* supply was minted or burnt, the fraction changed or the addin answered
\* differently after the votes were cast, and when some have been released.
YesNoElectorateCoversVotes ==
    [][\A p \in ProposalIds :
        /\ proposal[p].state = "Voting" /\ proposal'[p].state \in DecidedStates
        /\ proposal[p].options = 1
        /\ IsAdjusted(proposal[p].mint)
        => WeightCast(p)' <= proposal'[p].max_vote_weight]_vars

\* The electorate a vote was decided with is not lower than the total of the votes
\* cast, for any number of options, as the comment on coerce_max_voter_weight
\* says. (For a realm whose electorate is adjusted.)
ElectorateCoversVotes ==
    \A p \in ProposalIds : proposal[p].state \in DecidedStates =>
        WeightCast(p) <= proposal[p].max_vote_weight

\* An even split of Yes and Deny is never Succeeded: one more vote for Yes is
\* always needed, as the comment on VoteThresholdPercentage says.
TieIsDefeated ==
    \A p \in ProposalIds :
        /\ proposal[p].state \in {"Succeeded", "Executing", "ExecutingWithErrors"}
        /\ proposal[p].options = 1
        => option[<<p, 1>>].vote_weight > proposal[p].deny
===============================================================================
