---------------------------------- MODULE Sums ----------------------------------
(***************************************************************************)
(* Unsigned arithmetic of the program, and sums of u64 fields over sets of *)
(* accounts.  A sum is the number of units in a disjoint union of          *)
(* intervals: with that definition the facts a proof needs (add an         *)
(* account, drop an account) follow from the cardinality theorems of the   *)
(* standard library, with no induction over a recursive definition.        *)
(***************************************************************************)
EXTENDS Integers, FiniteSets

\* u64::saturating_sub
SaturatingSub(a, b) == IF a >= b THEN a - b ELSE 0

Larger(a, b) == IF a >= b THEN a ELSE b
Smaller(a, b) == IF a <= b THEN a ELSE b

\* f[i] units for every i in S, each tagged with the i it belongs to.
Units(f, S) == UNION {{i} \X (1 .. f[i]) : i \in S}

\* The sum of f[i] over i in S.
Total(f, S) == Cardinality(Units(f, S))

=================================================================================
