------------------------------- MODULE Withdrawals -------------------------------
(***************************************************************************)
(* The buyer's way out: request_withdrawal, finalize_withdrawal and the    *)
(* force_release valve for tabs nobody settles.                            *)
(***************************************************************************)
EXTENDS VaultState

\* Faulty: a signature from the future is refused, one from long ago is not.
RequestSignedLongAgo(v, amount, signed_at) ==
    /\ signed_at - now <= Drift
    /\ vault' = [vault EXCEPT ![v].pending_withdrawal =
                    [amount |-> amount, requested_at |-> signed_at]]
    /\ UNCHANGED <<session, claim, ledger, ata, now>>

\* requested_at is the time the buyer signed, within Drift of the clock; a later
\* request replaces an earlier one.
RequestWithdrawal(v, amount, signed_at) ==
    /\ signed_at - now <= Drift
    /\ now - signed_at <= Drift
    /\ vault' = [vault EXCEPT ![v].pending_withdrawal =
                    [amount |-> amount, requested_at |-> signed_at]]
    /\ UNCHANGED <<session, claim, ledger, ata, now>>

\* Seconds since the pending request was signed; a future signature counts zero.
Waited(v) == SaturatingSub(now, vault[v].pending_withdrawal.requested_at)

\* Faulty: the loan is reserved, the locked claims are not.
BorrowedLeftBehind(v, amount) ==
    ata[v] - amount >= vault[v].borrowed

\* What stays in the wallet covers the locked claims and the open loan.
ReservedLeftBehind(v, amount) ==
    LET balance_after == ata[v] - amount
        reserved      == vault[v].outstanding_locked_amount + vault[v].borrowed
    IN  /\ balance_after >= vault[v].outstanding_locked_amount
        /\ balance_after >= reserved

FinalizeWithdrawal(v) ==
    LET pending == vault[v].pending_withdrawal
    IN  /\ pending # None
        /\ vault[v].swig_bound
        /\ Waited(v) >= CoolingOff
        /\ vault[v].pending_voucher_count = 0
        /\ ReservedLeftBehind(v, pending.amount)
        /\ vault' = [vault EXCEPT ![v].pending_withdrawal = None]
        /\ Pay(v, pending.amount)
        /\ UNCHANGED <<session, claim, ledger, now>>

\* Faulty: releases a tab without looking whether one is open.
ForceReleaseUncounted(v) ==
    /\ vault[v].pending_withdrawal # None
    /\ Waited(v) >= ForceReleaseGrace
    /\ vault' = [vault EXCEPT ![v].pending_voucher_count = @ - 1]
    /\ UNCHANGED <<session, claim, ledger, ata, now>>

\* Faulty: off by one, the last tab is never released.
ForceReleaseAllButOne(v) ==
    /\ vault[v].pending_voucher_count > 1
    /\ vault[v].pending_withdrawal # None
    /\ Waited(v) >= ForceReleaseGrace
    /\ vault' = [vault EXCEPT ![v].pending_voucher_count = @ - 1]
    /\ UNCHANGED <<session, claim, ledger, ata, now>>

\* Releases one tab; the grace runs from the pending request.
ForceRelease(v) ==
    /\ vault[v].pending_voucher_count > 0
    /\ vault[v].pending_withdrawal # None
    /\ Waited(v) >= ForceReleaseGrace
    /\ vault' = [vault EXCEPT ![v].pending_voucher_count = @ - 1]
    /\ UNCHANGED <<session, claim, ledger, ata, now>>

Request(v) ==
    \E amount \in Amounts, signed_at \in now - Drift - 1 .. now + Drift + 1 :
        RequestWithdrawal(v, amount, signed_at)

WithdrawalsNext(v) ==
    \/ Request(v)
    \/ FinalizeWithdrawal(v)
    \/ ForceRelease(v)

=================================================================================
