---------------------------------- MODULE Locks ----------------------------------
(***************************************************************************)
(* Locked claims: lock_voucher turns a voucher into a reservation against  *)
(* the wallet; the holder settles or transfers it, the buyer recovers it   *)
(* once its recovery deadline has passed.                                  *)
(***************************************************************************)
EXTENDS Vouchers

\* Faulty: recovery may fall on the very second of maturity.
DeadlinesWeaklyOrdered(maturity_at, holder_recovery_at) ==
    maturity_at # None /\ holder_recovery_at # None => holder_recovery_at >= maturity_at

\* When both are set, recovery strictly follows maturity.
DeadlinesOrdered(maturity_at, holder_recovery_at) ==
    maturity_at # None /\ holder_recovery_at # None => holder_recovery_at > maturity_at

LockVoucher(v, c, h, maturity_at, holder_recovery_at, seller_holder) ==
    LET cumulative  == h[2]
        delta       == cumulative - session[v][c].crystallized_cumulative
        outstanding == vault[v].outstanding_locked_amount + delta
    IN  /\ VoucherAccepted(v, c, cumulative)
        /\ DeadlinesOrdered(maturity_at, holder_recovery_at)
        /\ claim[v][h].status = "Vacant"
        /\ delta > 0
        /\ outstanding <= ata[v]
        /\ session' = [session EXCEPT
                ![v][c].current_outstanding = SaturatingSub(@, delta),
                ![v][c].crystallized_cumulative = @ + delta]
        /\ vault' = [vault EXCEPT
                ![v].outstanding_locked_amount = outstanding,
                ![v].total_crystallized_amount = @ + delta]
        /\ claim' = [claim EXCEPT ![v][h] =
                [status |-> "Pending", amount |-> delta,
                 maturity_at |-> maturity_at,
                 holder_recovery_at |-> holder_recovery_at,
                 current_holder |-> seller_holder]]
        /\ UNCHANGED <<ledger, ata, now>>

\* Faulty: the status is not looked at, so a claim can be settled again.
SettleableInAnyStatus(v, h, holder) ==
    /\ claim[v][h].status # "Vacant"
    /\ claim[v][h].current_holder = holder
    /\ claim[v][h].maturity_at # None => now >= claim[v][h].maturity_at

Settleable(v, h, holder) ==
    /\ claim[v][h].status = "Pending"
    /\ claim[v][h].current_holder = holder
    /\ claim[v][h].maturity_at # None => now >= claim[v][h].maturity_at

\* Signed by the current holder; the session the claim came from is not consulted.
SettleLockedVoucher(v, h, holder) ==
    LET k == claim[v][h]
    IN  /\ Settleable(v, h, holder)
        /\ vault' = [vault EXCEPT
                ![v].outstanding_locked_amount = SaturatingSub(@, k.amount),
                ![v].total_settled_amount = @ + k.amount]
        /\ claim' = [claim EXCEPT ![v][h].status = "Settled"]
        /\ Pay(v, k.amount)
        /\ UNCHANGED <<session, ledger, now>>

\* Signed by the current holder.
TransferLockOwnership(v, h, holder, new_holder) ==
    /\ claim[v][h].status = "Pending"
    /\ claim[v][h].current_holder = holder
    /\ claim' = [claim EXCEPT ![v][h].current_holder = new_holder]
    /\ UNCHANGED <<vault, session, ledger, ata, now>>

\* Faulty: the claim is abandoned but stays reserved.
RecoverWithoutRelease(v, h) ==
    /\ claim[v][h].status = "Pending"
    /\ claim[v][h].holder_recovery_at # None
    /\ now >= claim[v][h].holder_recovery_at
    /\ claim' = [claim EXCEPT ![v][h].status = "Abandoned"]
    /\ UNCHANGED <<vault, session, ledger, ata, now>>

\* Signed by the buyer's passkey; no token moves.
RecoverAbandonedLock(v, h) ==
    LET k == claim[v][h]
    IN  /\ k.status = "Pending"
        /\ k.holder_recovery_at # None
        /\ now >= k.holder_recovery_at
        /\ vault' = [vault EXCEPT
                ![v].outstanding_locked_amount = SaturatingSub(@, k.amount)]
        /\ claim' = [claim EXCEPT ![v][h].status = "Abandoned"]
        /\ UNCHANGED <<session, ledger, ata, now>>

LocksNext(v) ==
    \E h \in Hashes :
        \/ \E c \in Counterparties, maturity \in Deadlines, recovery \in Deadlines,
              holder \in Holders :
               LockVoucher(v, c, h, maturity, recovery, holder)
        \/ \E holder \in Holders :
               \/ SettleLockedVoucher(v, h, holder)
               \/ \E new_holder \in Holders : TransferLockOwnership(v, h, holder, new_holder)
        \/ RecoverAbandonedLock(v, h)

=================================================================================
