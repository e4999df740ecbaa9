------------------------------- MODULE MCToken -------------------------------
(***************************************************************************)
(* Small instances of the token program for TLC.                           *)
(***************************************************************************)
EXTENDS TokenLedger, TLC

CONSTANT k1

ZeroAndOne == {0, 1}

AmountsToTwo == {1, 2}

NoLists == {}

\* A list with a key twice, of which one, two or three signatures are required.
TwiceList == {<<k1, k1>>}

\* No instruction and no property tells one account address from another.
AccountSymmetry == Permutations(Accounts)
===============================================================================
