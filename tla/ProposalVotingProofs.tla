------------------------- MODULE ProposalVotingProofs -------------------------
(***************************************************************************)
(* Facts about the arithmetic of a vote, for every weight and threshold.   *)
(***************************************************************************)
EXTENDS ProposalVoting, WellFoundedInduction, TLAPS

\* A tally of one Yes option against Deny, the only kind that can be tipped.
YesNoTally(yes, deny) ==
    [vote_type |-> "SingleChoice", weights |-> [i \in {1} |-> yes],
     has_deny |-> TRUE, deny |-> deny]

\* The threshold of get_min_vote_threshold_weight is the exact ceiling: it is
\* the least weight that reaches the percentage.
THEOREM ThresholdIsCeiling ==
    ASSUME NEW percentage \in Nat, NEW max \in Nat
    PROVE  LET threshold == get_min_vote_threshold_weight(percentage, max)
           IN  /\ threshold \in Nat
               /\ \A w \in Nat : w >= threshold <=> 100 * w >= percentage * max
  <1> DEFINE n == percentage * max
  <1>1. n \in Nat
    OBVIOUS
  <1> HIDE DEF n
  <1>2. /\ n \div 100 \in Nat
        /\ 100 * (n \div 100) <= n
        /\ n < 100 * (n \div 100) + 100
    BY <1>1
  <1>3. get_min_vote_threshold_weight(percentage, max) =
            IF (n \div 100) * 100 < n THEN n \div 100 + 1 ELSE n \div 100
    BY DEF get_min_vote_threshold_weight, n
  <1>4. CASE (n \div 100) * 100 < n
    <2>1. get_min_vote_threshold_weight(percentage, max) = n \div 100 + 1
      BY <1>3, <1>4
    <2>2. \A w \in Nat : w >= n \div 100 + 1 <=> 100 * w >= n
      BY <1>1, <1>2, <1>4
    <2> QED BY <1>2, <2>1, <2>2 DEF n
  <1>5. CASE ~ ((n \div 100) * 100 < n)
    <2>1. get_min_vote_threshold_weight(percentage, max) = n \div 100
      BY <1>3, <1>5
    <2>2. \A w \in Nat : w >= n \div 100 <=> 100 * w >= n
      BY <1>1, <1>2, <1>5
    <2> QED BY <1>2, <2>1, <2>2 DEF n
  <1> QED BY <1>4, <1>5

\* With a valid configuration (1 to 100 %) the threshold is a weight somebody
\* can have: at most the whole electorate, and not zero unless that is.
LEMMA ThresholdInRange ==
    ASSUME NEW percentage \in 1 .. 100, NEW max \in Nat
    PROVE  LET threshold == get_min_vote_threshold_weight(percentage, max)
           IN  /\ threshold \in 0 .. max
               /\ max > 0 => threshold > 0
  <1> DEFINE threshold == get_min_vote_threshold_weight(percentage, max)
  <1>0. percentage \in Nat
    OBVIOUS
  <1>1. /\ threshold \in Nat
        /\ \A w \in Nat : w >= threshold <=> 100 * w >= percentage * max
    BY <1>0, ThresholdIsCeiling
  <1>2. percentage * max <= 100 * max
    OBVIOUS
  <1>3. max >= threshold
    BY <1>1, <1>2
  <1>4. max > 0 => percentage * max > 0
    OBVIOUS
  <1>5. 0 >= threshold <=> 100 * 0 >= percentage * max
    BY <1>1
  <1> HIDE DEF threshold
  <1>6. max > 0 => threshold > 0
    <2>1. percentage * max \in Nat
      OBVIOUS
    <2> QED BY <1>1, <1>4, <1>5, <2>1
  <1> QED BY <1>1, <1>3, <1>6 DEF threshold

\* What the loops of resolve_final_vote_state amount to when there is one option.
LEMMA YesNoFinalState ==
    ASSUME NEW yes \in Nat, NEW deny \in Nat, NEW percentage, NEW max
    PROVE  resolve_final_vote_state(YesNoTally(yes, deny), percentage, max) =
               IF yes >= get_min_vote_threshold_weight(percentage, max) /\ yes > deny
               THEN "Succeeded" ELSE "Defeated"
  <1> DEFINE tally == YesNoTally(yes, deny)
             threshold == get_min_vote_threshold_weight(percentage, max)
  <1>1. /\ tally.has_deny = TRUE /\ tally.vote_type = "SingleChoice" /\ tally.deny = deny
        /\ DOMAIN tally.weights = {1} /\ tally.weights[1] = yes
    BY DEF YesNoTally
  <1>2. PassingOptions(tally, percentage, max) =
            IF yes >= threshold /\ yes > deny THEN {1} ELSE {}
    BY <1>1 DEF PassingOptions
  <1>3. WinningOptions(tally, percentage, max) = PassingOptions(tally, percentage, max)
    <2>1. LeadingOptions(tally, percentage, max) = PassingOptions(tally, percentage, max)
      BY <1>1, <1>2 DEF LeadingOptions
    <2> QED BY <1>1, <1>2, <2>1 DEF WinningOptions
  <1> QED BY <1>1, <1>2, <1>3 DEF resolve_final_vote_state

\* What try_get_tipped_vote_state does with such a tally.
LEMMA YesNoTippedState ==
    ASSUME NEW yes \in Nat, NEW deny \in Nat, NEW percentage, NEW max, NEW tipping
    PROVE  LET threshold == get_min_vote_threshold_weight(percentage, max)
           IN  try_get_tipped_vote_state(YesNoTally(yes, deny), tipping, percentage, max) =
                   IF yes = max THEN "Succeeded"
                   ELSE IF deny = max THEN "Defeated"
                   ELSE IF YesTips(tipping, yes, deny, threshold, max) THEN "Succeeded"
                   ELSE IF DenyTips(tipping, deny, threshold, max) THEN "Defeated"
                   ELSE "None"
  <1> DEFINE tally == YesNoTally(yes, deny)
  <1>1. /\ tally.has_deny = TRUE /\ tally.vote_type = "SingleChoice" /\ tally.deny = deny
        /\ DOMAIN tally.weights = {1} /\ tally.weights[1] = yes
    BY DEF YesNoTally
  <1>2. CanTip(tally)
    BY <1>1 DEF CanTip
  <1> QED BY <1>1, <1>2 DEF try_get_tipped_vote_state

\* Tipping never decides a vote otherwise than the count at its end would: if no
\* more than the electorate has voted and the electorate is not empty, a tip
\* gives the state resolve_final_vote_state gives for the same tally.
THEOREM TipAgreesWithFinal ==
    ASSUME NEW yes \in Nat, NEW deny \in Nat, NEW max \in Nat, max > 0, yes + deny <= max,
           NEW percentage \in 1 .. 100, NEW tipping \in VoteTippings
    PROVE  LET tipped == try_get_tipped_vote_state(YesNoTally(yes, deny), tipping, percentage, max)
           IN  tipped # "None" =>
                 resolve_final_vote_state(YesNoTally(yes, deny), percentage, max) = tipped
  <1> DEFINE threshold == get_min_vote_threshold_weight(percentage, max)
  <1>1. threshold \in 0 .. max /\ threshold > 0
    BY ThresholdInRange
  <1> HIDE DEF threshold
  <1>2. YesTips(tipping, yes, deny, threshold, max) => yes >= threshold /\ yes > deny
    BY <1>1 DEF YesTips, saturating_sub
  <1>3. DenyTips(tipping, deny, threshold, max) => ~ (yes >= threshold /\ yes > deny)
    BY <1>1 DEF DenyTips, saturating_sub
  <1>4. yes = max => yes >= threshold /\ yes > deny
    BY <1>1
  <1>5. deny = max => ~ (yes > deny)
    OBVIOUS
  <1> QED BY <1>2, <1>3, <1>4, <1>5, YesNoFinalState, YesNoTippedState DEF threshold

\* A tip cannot be overtaken: for Strict tipping, and for every Deny tip, the
\* outcome is the one the vote would have had however the weight that had not
\* been cast were cast later.
THEOREM TipIsIrrevocable ==
    ASSUME NEW yes \in Nat, NEW deny \in Nat, NEW max \in Nat, max > 0,
           NEW percentage \in 1 .. 100, NEW tipping \in VoteTippings,
           NEW lateYes \in Nat, NEW lateDeny \in Nat,
           (yes + lateYes) + (deny + lateDeny) <= max,
           \/ tipping # "Early"
           \/ try_get_tipped_vote_state(YesNoTally(yes, deny), tipping, percentage, max) = "Defeated"
    PROVE  LET tipped == try_get_tipped_vote_state(YesNoTally(yes, deny), tipping, percentage, max)
           IN  tipped # "None" =>
                 resolve_final_vote_state(
                     YesNoTally(yes + lateYes, deny + lateDeny), percentage, max) = tipped
  <1> DEFINE threshold == get_min_vote_threshold_weight(percentage, max)
             tipped == try_get_tipped_vote_state(YesNoTally(yes, deny), tipping, percentage, max)
             wins == yes + lateYes >= threshold /\ yes + lateYes > deny + lateDeny
  <1>1. threshold \in 0 .. max /\ threshold > 0
    BY ThresholdInRange
  <1>2. tipped = IF yes = max THEN "Succeeded"
                 ELSE IF deny = max THEN "Defeated"
                 ELSE IF YesTips(tipping, yes, deny, threshold, max) THEN "Succeeded"
                 ELSE IF DenyTips(tipping, deny, threshold, max) THEN "Defeated"
                 ELSE "None"
    BY YesNoTippedState
  <1>3. resolve_final_vote_state(YesNoTally(yes + lateYes, deny + lateDeny), percentage, max)
            = IF wins THEN "Succeeded" ELSE "Defeated"
    BY YesNoFinalState
  <1>4. tipping # "Early" \/ tipped = "Defeated"
    OBVIOUS
  <1> HIDE DEF threshold, tipped
  <1>5. yes = max => wins
    BY <1>1
  <1>6. deny = max => ~ wins
    OBVIOUS
  <1>7. tipping # "Early" /\ YesTips(tipping, yes, deny, threshold, max) => wins
    BY <1>1 DEF YesTips, saturating_sub
  <1>8. DenyTips(tipping, deny, threshold, max) => ~ wins
    BY <1>1 DEF DenyTips, saturating_sub
  <1> HIDE DEF wins
  <1>9. tipped # "None" => tipped = IF wins THEN "Succeeded" ELSE "Defeated"
    BY <1>2, <1>4, <1>5, <1>6, <1>7, <1>8
  <1> QED BY <1>3, <1>9 DEF tipped
-------------------------------------------------------------------------------
(***************************************************************************)
(* The weight of the electorate is a number. The largest of finitely many  *)
(* weights exists by induction on their number, stated with the            *)
(* least-number principle.                                                 *)
(***************************************************************************)
\* Every non-empty set of natural numbers has a least element.
LEMMA LeastNat ==
    ASSUME NEW T \in SUBSET Nat, T # {}
    PROVE  \E x \in T : \A y \in T : x <= y
  <1>1. IsWellFoundedOn(OpToRel(<, Nat), Nat)
    BY NatLessThanWellFounded
  <1>2. PICK x \in T : \A y \in T : ~ (<<y, x>> \in OpToRel(<, Nat))
    BY <1>1, WFMin
  <1>3. \A y \in T : y < x => <<y, x>> \in OpToRel(<, Nat)
    BY DEF OpToRel
  <1>4. \A y \in T : ~ (y < x)
    BY <1>2, <1>3, Zenon
  <1> QED BY <1>4

\* Among the weights of at least one option there is a largest one.
LEMMA LargestWeight ==
    ASSUME NEW n \in Nat \ {0}, NEW w \in [1 .. n -> Nat]
    PROVE  \E i \in 1 .. n : \A j \in 1 .. n : w[j] <= w[i]
  <1> DEFINE HasLargest(k) == \E i \in 1 .. k : \A j \in 1 .. k : w[j] <= w[i]
             T == {k \in 1 .. n : ~ HasLargest(k)}
  <1>1. SUFFICES ASSUME ~ HasLargest(n) PROVE FALSE
    OBVIOUS
  <1>2. n \in T /\ T \in SUBSET Nat
    BY <1>1
  <1>3. PICK k \in T : \A y \in T : k <= y
    <2> HIDE DEF T
    <2> QED BY <1>2, LeastNat
  <1>4. k \in 1 .. n /\ k # 1 /\ ~ HasLargest(k)
    OBVIOUS
  <1>5. PICK i \in 1 .. k - 1 : \A j \in 1 .. k - 1 : w[j] <= w[i]
    <2>1. k - 1 \in 1 .. n
      BY <1>4
    <2>2. k - 1 \notin T
      <3> HIDE DEF T
      <3> QED BY <1>3, <1>4
    <2> QED BY <2>1, <2>2
  <1>6. CASE w[k] <= w[i]
    <2>1. i \in 1 .. k /\ \A j \in 1 .. k : w[j] <= w[i]
      BY <1>4, <1>5, <1>6
    <2> QED BY <1>4, <2>1
  <1>7. CASE w[i] < w[k]
    <2>1. \A j \in 1 .. k : w[j] <= w[k]
      BY <1>4, <1>5, <1>7
    <2> QED BY <1>4, <2>1
  <1> QED BY <1>4, <1>5, <1>6, <1>7

\* A tally as Governance makes them: at least one option, every weight a number.
IsTally(tally) ==
    /\ \E n \in Nat \ {0} : tally.weights \in [1 .. n -> Nat]
    /\ tally.deny \in Nat

\* total_vote_weight is a number that no single option together with Deny exceeds.
LEMMA TotalVoteWeight ==
    ASSUME NEW tally, IsTally(tally)
    PROVE  /\ total_vote_weight(tally) \in Nat
           /\ \A i \in DOMAIN tally.weights :
                 tally.weights[i] + tally.deny <= total_vote_weight(tally)
  <1> DEFINE w == tally.weights
             S == {w[i] : i \in DOMAIN w}
             best == CHOOSE v \in S : \A i \in DOMAIN w : w[i] <= v
  <1>1. PICK n \in Nat \ {0} : w \in [1 .. n -> Nat]
    BY DEF IsTally
  <1>2. \E v \in S : \A i \in DOMAIN w : w[i] <= v
    BY <1>1, LargestWeight
  <1>3. best \in S /\ \A i \in DOMAIN w : w[i] <= best
    BY <1>2
  <1>4. best \in Nat /\ \A i \in DOMAIN w : w[i] \in Nat
    BY <1>1, <1>3
  <1>5. total_vote_weight(tally) = best + tally.deny
    BY DEF total_vote_weight
  <1> HIDE DEF best
  <1> QED BY <1>3, <1>4, <1>5 DEF IsTally

\* The weight of the electorate is a number, and is at least the best option
\* together with Deny when it comes from an addin or from a proper fraction of the
\* supply.
LEMMA ElectorateWeight ==
    ASSUME NEW tally, IsTally(tally), NEW weight \in Nat, NEW supply \in Nat,
           NEW is_council \in BOOLEAN, NEW base \in Nat \ {0}, NEW fraction \in 1 .. base
    PROVE  /\ coerce_max_voter_weight(tally, weight) \in Nat
           /\ coerce_max_voter_weight(tally, weight) >= total_vote_weight(tally)
           /\ get_max_voter_weight_from_mint_supply(tally, is_council, fraction, base, supply)
                  \in Nat
           /\ ~ is_council /\ fraction # base =>
                get_max_voter_weight_from_mint_supply(tally, is_council, fraction, base, supply)
                    >= total_vote_weight(tally)
  <1>1. total_vote_weight(tally) \in Nat
    BY TotalVoteWeight
  <1>2. ASSUME NEW v \in Nat
        PROVE  /\ coerce_max_voter_weight(tally, v) \in Nat
               /\ coerce_max_voter_weight(tally, v) >= total_vote_weight(tally)
    BY <1>1, <1>2 DEF coerce_max_voter_weight
  <1>3. (supply * fraction) \div base \in Nat
    <2>1. supply * fraction \in Nat
      OBVIOUS
    <2> QED BY <2>1
  <1> QED BY <1>2, <1>3 DEF get_max_voter_weight_from_mint_supply
===============================================================================
