------------------------------ MODULE MCTransactions ------------------------------
(***************************************************************************)
(* Transactions for TLC.  No action tells one passkey or one Swig address  *)
(* from another, and every property is an invariant.                       *)
(***************************************************************************)
EXTENDS Transactions, TLC

Symmetry == Permutations(Passkeys) \cup Permutations(Swigs)

=================================================================================
