-------------------------------- MODULE Sums --------------------------------
(***************************************************************************)
(* Sums of natural numbers over a finite set, as the number of elements of *)
(* a disjoint union: SumTheorems reasons about them with the theorems on   *)
(* finite cardinalities, and needs no induction.                           *)
(***************************************************************************)
EXTENDS Integers, FiniteSets

Units(f, S) == UNION {{x} \X (1..f[x]) : x \in S}

\* the sum of f[x] over the x in S
Total(f, S) == Cardinality(Units(f, S))

\* the sum of f over the numbers in S that are less than b
Before(f, S, b) == Total(f, {c \in S : c < b})

MinOf(a, b) == IF a <= b THEN a ELSE b
=============================================================================
