---------------------------- MODULE ProposalVoting ----------------------------
(***************************************************************************)
(* The arithmetic of a governance vote, as pure operators: the weight an   *)
(* option needs, the weight the whole electorate has, when a running vote  *)
(* is tipped and how a finished vote is resolved                           *)
(* (governance/program/src/state/proposal.rs).                             *)
(*                                                                         *)
(* A tally is the record                                                   *)
(*   [vote_type |-> "SingleChoice" or "MultiChoice",                       *)
(*    weights   |-> the vote_weight of every option, a function on 1..n,   *)
(*    has_deny  |-> whether deny_vote_weight is Some,                      *)
(*    deny      |-> deny_vote_weight, 0 when it is None].                  *)
(* A u64 is a natural number: every sum below is a sum of token amounts of *)
(* one mint, and the supply of a mint is itself a u64.                     *)
(***************************************************************************)
EXTENDS Integers, FiniteSets

VoteTippings == {"Strict", "Early", "Disabled"}

VoteTypes == {"SingleChoice", "MultiChoice"}

OptionVoteResults == {"None", "Succeeded", "Defeated"}

\* u64::saturating_sub
saturating_sub(a, b) == IF a >= b THEN a - b ELSE 0

\* A plausible slip: the threshold rounded down instead of up.
threshold_rounded_down(percentage, max_vote_weight) ==
    (percentage * max_vote_weight) \div 100

\* The least weight that is at least percentage % of max_vote_weight.
get_min_vote_threshold_weight(percentage, max_vote_weight) ==
    LET numerator == percentage * max_vote_weight
        floor     == numerator \div 100
    IN  IF floor * 100 < numerator THEN floor + 1 ELSE floor

-------------------------------------------------------------------------------
\* The largest option weight plus the weight of Deny: with several options a
\* voter may approve more than one, so the option weights are not added up.
total_vote_weight(tally) ==
    LET best == CHOOSE w \in {tally.weights[i] : i \in DOMAIN tally.weights} :
                    \A i \in DOMAIN tally.weights : tally.weights[i] <= w
    IN  best + tally.deny

coerce_max_voter_weight(tally, max_voter_weight) ==
    IF max_voter_weight >= total_vote_weight(tally)
    THEN max_voter_weight
    ELSE total_vote_weight(tally)

\* A plausible slip: the fraction applied without the adjustment for the votes
\* already cast.
fraction_not_coerced(tally, is_council, fraction, fraction_base, supply) ==
    IF is_council \/ fraction = fraction_base
    THEN supply
    ELSE (supply * fraction) \div fraction_base

\* SupplyFraction is used for the community mint only, and the result is
\* coerced only when the fraction is a proper one.
get_max_voter_weight_from_mint_supply(tally, is_council, fraction, fraction_base, supply) ==
    IF is_council \/ fraction = fraction_base
    THEN supply
    ELSE coerce_max_voter_weight(tally, (supply * fraction) \div fraction_base)

-------------------------------------------------------------------------------
\* The options that reach the threshold and beat Deny.
PassingOptions(tally, percentage, max_vote_weight) ==
    {i \in DOMAIN tally.weights :
        /\ tally.weights[i] >= get_min_vote_threshold_weight(percentage, max_vote_weight)
        /\ tally.weights[i] > tally.deny}

\* The passing options of the best weight: best_succeeded_option_count is
\* their number.
LeadingOptions(tally, percentage, max_vote_weight) ==
    LET passing == PassingOptions(tally, percentage, max_vote_weight)
    IN  {i \in passing : \A j \in passing : tally.weights[j] <= tally.weights[i]}

\* A plausible slip: two leaders of a single choice both win.
tied_leaders_win(tally, percentage, max_vote_weight) ==
    IF tally.vote_type = "MultiChoice"
    THEN PassingOptions(tally, percentage, max_vote_weight)
    ELSE LeadingOptions(tally, percentage, max_vote_weight)

\* The options that are Succeeded once the vote is over. Two leaders of a
\* single choice are a tie, and then nobody wins.
WinningOptions(tally, percentage, max_vote_weight) ==
    LET passing == PassingOptions(tally, percentage, max_vote_weight)
        leading == LeadingOptions(tally, percentage, max_vote_weight)
    IN  IF tally.vote_type = "MultiChoice"
        THEN passing
        ELSE {i \in leading : \A j \in leading : i = j}

resolve_final_vote_results(tally, percentage, max_vote_weight) ==
    [i \in DOMAIN tally.weights |->
        IF i \in WinningOptions(tally, percentage, max_vote_weight)
        THEN "Succeeded" ELSE "Defeated"]

\* A proposal without the deny option is a survey: it is Completed, whatever
\* its options got.
resolve_final_vote_state(tally, percentage, max_vote_weight) ==
    IF ~ tally.has_deny
    THEN "Completed"
    ELSE IF WinningOptions(tally, percentage, max_vote_weight) # {}
         THEN "Succeeded"
         ELSE "Defeated"

-------------------------------------------------------------------------------
\* Only a single choice of one Yes option against Deny can be tipped.
CanTip(tally) ==
    /\ tally.vote_type = "SingleChoice"
    /\ tally.has_deny
    /\ DOMAIN tally.weights = {1}

YesTips(tipping, yes, deny, threshold, max_vote_weight) ==
    \/ tipping = "Strict" /\ yes >= threshold /\ yes > saturating_sub(max_vote_weight, yes)
    \/ tipping = "Early"  /\ yes >= threshold /\ yes > deny

DenyTips(tipping, deny, threshold, max_vote_weight) ==
    /\ tipping # "Disabled"
    /\ \/ deny > saturating_sub(max_vote_weight, threshold)
       \/ deny >= saturating_sub(max_vote_weight, deny)

\* "None" when the vote goes on. The two comparisons with max_vote_weight come
\* first, whatever the tipping mode is.
try_get_tipped_vote_state(tally, tipping, percentage, max_vote_weight) ==
    IF ~ CanTip(tally)
    THEN "None"
    ELSE LET yes       == tally.weights[1]
             deny      == tally.deny
             threshold == get_min_vote_threshold_weight(percentage, max_vote_weight)
         IN  IF yes = max_vote_weight THEN "Succeeded"
             ELSE IF deny = max_vote_weight THEN "Defeated"
             ELSE IF YesTips(tipping, yes, deny, threshold, max_vote_weight) THEN "Succeeded"
             ELSE IF DenyTips(tipping, deny, threshold, max_vote_weight) THEN "Defeated"
             ELSE "None"

===============================================================================
