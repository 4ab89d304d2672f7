------------------------------- MODULE MCStandby -------------------------------
(***************************************************************************)
(* Standby credit on its own, deep: vaults and financiers share wallets    *)
(* (a vault can back another one), caps are resized both ways, loans are   *)
(* drawn, repaid and seized, standbys closed and opened with another.      *)
(***************************************************************************)
EXTENDS DexterVault

CreditOnly ==
    \/ \E v \in Vaults :
        \/ SetSwig(v)
        \/ StandbyNext(v)
    \/ \E w \in Vaults \cup Financiers, amount \in Amounts : Deposit(w, amount)
    \/ Tick

CreditSpec == Init /\ [][CreditOnly]_vars

=================================================================================
