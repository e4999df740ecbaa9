----------------------------- MODULE MCGovernance -----------------------------
(***************************************************************************)
(* Values for the constants of Governance; the configurations choose among *)
(* them.                                                                   *)
(***************************************************************************)
EXTENDS GovernanceLedger

Config(threshold, tipping, voting_time) ==
    [vote_threshold_percentage |-> threshold, vote_tipping |-> tipping,
     max_voting_time |-> voting_time, min_transaction_hold_up_time |-> 0,
     min_community_weight_to_create_proposal |-> 1,
     min_council_weight_to_create_proposal |-> 1]

PlainRealm ==
    [council |-> FALSE, fraction |-> 2,
     use_community_voter_weight_addin |-> FALSE,
     use_max_community_voter_weight_addin |-> FALSE,
     min_community_weight_to_create_governance |-> 1]

CouncilRealm == [PlainRealm EXCEPT !.council = TRUE]

FractionRealm == [PlainRealm EXCEPT !.fraction = 1]

AddinRealm == [PlainRealm EXCEPT !.use_community_voter_weight_addin = TRUE,
                                 !.use_max_community_voter_weight_addin = TRUE]

AddinOrFraction == {AddinRealm, FractionRealm}

None == {}
One == {1}
OneTwo == {1, 2}
Zero == {0}
ZeroOne == {0, 1}

Supply(community, council) ==
    [m \in Mints |-> IF m = Community THEN community ELSE council]
NoSupply == Supply(0, 0)
Supply1 == Supply(1, 0)
Supply11 == Supply(1, 1)
Supply2 == Supply(2, 0)
Supply3 == Supply(3, 0)

StrictOnly == {Config(60, "Strict", 1)}
AllTippings == {Config(60, t, 1) : t \in VoteTippings} \cup {Config(0, "Strict", 1)}
FreeOnly == {[Config(60, "Strict", 1) EXCEPT !.min_community_weight_to_create_proposal = 0]}

YesNo == {[vote_type |-> "SingleChoice", options |-> 1, use_deny_option |-> TRUE]}
ThreeKinds ==
    YesNo \cup {[vote_type |-> "SingleChoice", options |-> 1, use_deny_option |-> FALSE],
                [vote_type |-> "MultiChoice", options |-> 2, use_deny_option |-> TRUE]}
TwoOptions == {[vote_type |-> "SingleChoice", options |-> 2, use_deny_option |-> TRUE]}
Kinds == [vote_type : VoteTypes, options : 0 .. 2, use_deny_option : BOOLEAN]

OtherOnly == {[kind |-> "Other"]}

\* A longer vote, decided by a lower threshold.
LongerVote == Config(40, "Early", 2)
ShortVote == {Config(60, "Strict", 0)}

ConfigChanges ==
    {[kind |-> "SetGovernanceConfig", config |-> LongerVote],
     [kind |-> "SetRealmConfig", config |-> FractionRealm],
     [kind |-> "SetRealmAuthority", authority |-> NoKey]}
===============================================================================
