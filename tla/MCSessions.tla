------------------------------- MODULE MCSessions -------------------------------
(***************************************************************************)
(* The session registry on its own, deep: three counterparties, a clock    *)
(* that expires sessions, tab payments that drain the wallet between two   *)
(* registrations.                                                          *)
(***************************************************************************)
EXTENDS DexterVault, TLC

SessionsOnly ==
    \/ \E v \in Vaults :
        \/ SetSwig(v)
        \/ SessionsNext(v)
        \/ \E c \in Counterparties, amount \in Amounts : SettleTabVoucher(v, c, amount)
    \/ \E w \in Wallets, amount \in Amounts : Deposit(w, amount)
    \/ Tick

SessionsSpec == Init /\ [][SessionsOnly]_vars

Symmetry == Permutations(Counterparties)

\* register_session_key.rs: expired siblings do not count, the sweep being
\* "Self-healing": the limit on the sessions of a vault is one on the live ones.
OnlyLiveSessionsBlock ==
    \A v \in Vaults : \A c \in Counterparties \ Registered(v) :
        LET live == {s \in Others(v, c) : IsLive(v, s)}
        IN  Cardinality(live) < MaxSessions /\ WithinBalance(v, live, 1)
                => RegistrationAdmitted(v, c, 1, 1, now + 1, Others(v, c))

=================================================================================
