-------------------------- MODULE ProposalLifecycle --------------------------
(***************************************************************************)
(* What the governance program promises of a proposal, without votes,      *)
(* signatures, tokens or time: a proposal collects transactions while it   *)
(* is a draft, the vote approves some of them once and for all, each       *)
(* approved transaction is executed at most once, and the proposal is      *)
(* closed by the execution of the last one.                                *)
(***************************************************************************)
CONSTANTS Proposals, Transactions

VARIABLES
    phase,     \* of every proposal
    work,      \* the transactions of every proposal
    approved,  \* the ones its vote has approved
    done       \* the ones that have been executed

lifecycleVars == <<phase, work, approved, done>>

Phases == {"Nothing", "Draft", "Frozen", "Voting", "Passed", "Rejected", "Withdrawn", "Closed"}

LifecycleInit ==
    /\ phase = [p \in Proposals |-> "Nothing"]
    /\ work = [p \in Proposals |-> {}]
    /\ approved = [p \in Proposals |-> {}]
    /\ done = [p \in Proposals |-> {}]

Propose(p) ==
    /\ phase[p] = "Nothing"
    /\ phase' = [phase EXCEPT ![p] = "Draft"]
    /\ UNCHANGED <<work, approved, done>>

\* One transaction is added or taken out.
Edit(p, x) ==
    /\ phase[p] = "Draft"
    /\ \/ x \notin work[p] /\ work' = [work EXCEPT ![p] = @ \cup {x}]
       \/ x \in work[p] /\ work' = [work EXCEPT ![p] = @ \ {x}]
    /\ UNCHANGED <<phase, approved, done>>

Freeze(p) ==
    /\ phase[p] = "Draft"
    /\ phase' = [phase EXCEPT ![p] = "Frozen"]
    /\ UNCHANGED <<work, approved, done>>

OpenVote(p) ==
    /\ phase[p] \in {"Draft", "Frozen"}
    /\ phase' = [phase EXCEPT ![p] = "Voting"]
    /\ UNCHANGED <<work, approved, done>>

\* The vote approves a set of transactions; a rejected proposal has none.
Decide(p, outcome, wins) ==
    /\ phase[p] = "Voting"
    /\ outcome \in {"Passed", "Rejected", "Closed"}
    /\ wins \subseteq work[p]
    /\ outcome # "Passed" => wins = {}
    /\ phase' = [phase EXCEPT ![p] = outcome]
    /\ approved' = [approved EXCEPT ![p] = wins]
    /\ UNCHANGED <<work, done>>

Withdraw(p) ==
    /\ phase[p] \in {"Draft", "Frozen", "Voting"}
    /\ phase' = [phase EXCEPT ![p] = "Withdrawn"]
    /\ UNCHANGED <<work, approved, done>>

Execute(p, x) ==
    /\ phase[p] = "Passed"
    /\ x \in approved[p] \ done[p]
    /\ done' = [done EXCEPT ![p] = @ \cup {x}]
    /\ phase' = [phase EXCEPT ![p] = IF approved[p] = done[p] \cup {x} THEN "Closed" ELSE @]
    /\ UNCHANGED <<work, approved>>

LifecycleNext ==
    \E p \in Proposals :
        \/ Propose(p)
        \/ Freeze(p)
        \/ OpenVote(p)
        \/ Withdraw(p)
        \/ \E x \in Transactions : Edit(p, x) \/ Execute(p, x)
        \/ \E o \in Phases, w \in SUBSET work[p] : Decide(p, o, w)

LifecycleSpec == LifecycleInit /\ [][LifecycleNext]_lifecycleVars
===============================================================================
