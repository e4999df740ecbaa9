----------------------------- MODULE TokenLedger -----------------------------
(***************************************************************************)
(* What the token program promises about sums: the supply of a mint is the *)
(* sum of the balances of its accounts, and no lamport appears or gets     *)
(* lost.                                                                   *)
(***************************************************************************)
EXTENDS Token, FiniteSetsExt

BalanceOf(m) ==
    MapThenSumSet(LAMBDA a : account[a].amount,
                  {a \in Accounts : is_initialized(a) /\ account[a].mint = m})

\* The supply of every mint is what its accounts hold together, through minting,
\* burning, transfers to oneself and to others, and the closing of accounts.
SupplyIsBalances == \A m \in Mints : mint[m].supply = BalanceOf(m)

\* Wrapping, unwrapping and closing move lamports and never make or lose one.
LamportsConserved ==
    wallets + MapThenSumSet(LAMBDA a : lamports[a], Accounts) = InitialLamports
===============================================================================
