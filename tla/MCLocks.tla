-------------------------------- MODULE MCLocks --------------------------------
(***************************************************************************)
(* Vouchers and locked claims on their own, deep: one session key whose    *)
(* vouchers are settled as tabs, locked, transferred, settled or recovered *)
(* in every order, across revocation and replacement of the session.       *)
(***************************************************************************)
EXTENDS DexterVault, TLC

VouchersOnly ==
    \/ \E v \in Vaults :
        \/ SetSwig(v)
        \/ SessionsNext(v)
        \/ VouchersNext(v)
        \/ LocksNext(v)
        \/ \E amount \in Amounts : Deposit(v, amount)
    \/ Tick

VouchersSpec == Init /\ [][VouchersOnly]_vars

Symmetry == Permutations(Holders)

=================================================================================
