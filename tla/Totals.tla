-------------------------------- MODULE Totals --------------------------------
(***************************************************************************)
(* The total of natural numbers over a finite set, as the number of units  *)
(* they are made of: a holder of three tokens has the units 1, 2 and 3. A  *)
(* sum that is a cardinality can be reasoned about without induction.      *)
(***************************************************************************)
EXTENDS Integers, FiniteSets

UnitsOf(f, a) == {a} \X (1 .. f[a])

Units(S, f) == UNION {UnitsOf(f, a) : a \in S}

\* The sum of f[a] over the members a of S.
Total(S, f) == Cardinality(Units(S, f))
===============================================================================
