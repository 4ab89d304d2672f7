-------------------------------- MODULE BuyerExit --------------------------------
(***************************************************************************)
(* The way out of a vault depends on nobody but the buyer.  A patient      *)
(* buyer asks once and registers nothing while a withdrawal is pending;    *)
(* the dexter authority, the sellers and the claim holders do what they    *)
(* like, for ever if they like.  The buyer's own transactions need only    *)
(* the passkey and a relayer, so weak fairness is assumed of them and of   *)
(* the clock, and of nothing else.                                         *)
(***************************************************************************)
EXTENDS DexterVault

Pending(v) == vault[v].pending_withdrawal # None

\* Requests late enough that the clock's bound would cut the wait short are left
\* out; MaxTime is a bound of the model.
PatientRequest(v) ==
    /\ ~Pending(v)
    /\ \E amount \in Amounts, signed_at \in now - Drift .. now + Drift :
        /\ signed_at + Larger(CoolingOff, ForceReleaseGrace) <= MaxTime
        /\ RequestWithdrawal(v, amount, signed_at)

BuyerActs(v) ==
    \/ ~Pending(v) /\ Register(v)
    \/ PatientRequest(v)
    \/ \E c \in Counterparties : RevokeSessionKey(v, c)
    \/ FinalizeWithdrawal(v)
    \/ ForceRelease(v)

OthersAct(v) ==
    \/ VouchersNext(v)
    \/ LocksNext(v)
    \/ \E c \in Counterparties : CloseSession(v, c)

ExitNext ==
    \/ \E v \in Vaults : SetSwig(v) \/ BuyerActs(v) \/ OthersAct(v)
    \/ \E v \in Vaults, amount \in Amounts : Deposit(v, amount)
    \/ Tick

BuyerIsFair(v) ==
    /\ \A c \in Counterparties : WF_vars(RevokeSessionKey(v, c) /\ Pending(v))
    /\ WF_vars(ForceRelease(v))
    /\ WF_vars(FinalizeWithdrawal(v))

ExitSpec ==
    /\ Init
    /\ [][ExitNext]_vars
    /\ WF_vars(Tick)
    /\ \A v \in Vaults : BuyerIsFair(v)

Affordable(v) == ReservedLeftBehind(v, vault[v].pending_withdrawal.amount)

\* SECURITY.md: "the gate can never permanently trap a buyer's funds".  Whatever
\* tabs are open when the buyer asks, and whatever the authority and the holders
\* do afterwards, a pending withdrawal is eventually paid, unless the wallet no
\* longer covers it over the locked claims: revoking the sessions stops new tabs
\* and locks, force_release clears the old tabs, finalize_withdrawal pays.
BuyerEventuallyOut ==
    \A v \in Vaults :
        Pending(v) /\ vault[v].swig_bound
            ~> ~Pending(v) \/ ~Affordable(v)

\* The exception closes with the last session: from the moment the sessions of a
\* vault are revoked, a pending withdrawal the wallet can bear stays one until it is
\* paid, whatever claims the holders settle or the buyer recovers and whatever tabs
\* the authority closes or leaves open meanwhile.
TheWayStaysOpen ==
    [][\A v \in Vaults :
        Registered(v) = {} /\ Pending(v) /\ Affordable(v)
            => ~Pending(v)' \/ (Registered(v)' = {} /\ Affordable(v)')]_vars

=================================================================================
