-------------------------------- MODULE Vouchers --------------------------------
(***************************************************************************)
(* Tabs: settle_voucher opens one (counter and revolving meter) or closes  *)
(* one (counter only); settle_tab_voucher pays a session-signed cumulative *)
(* voucher out of the wallet.                                              *)
(***************************************************************************)
EXTENDS VaultState

\* The frontier both terminal paths, tab settlement and locking, must advance.
Frontier(s) == Larger(s.spent, s.crystallized_cumulative)

\* Faulty: only what was paid as a tab bars a voucher, not what was locked.
BeyondSpentOnly(v, c, cumulative) ==
    LET s == session[v][c]
    IN  /\ vault[v].swig_bound
        /\ s.exists
        /\ s.version # 0
        /\ now < s.expires_at
        /\ cumulative > s.spent
        /\ cumulative <= s.max_amount

\* A voucher for `cumulative` is accepted on a registered, unexpired session,
\* beyond the frontier and within the cap the passkey endorsed.
VoucherAccepted(v, c, cumulative) ==
    LET s == session[v][c]
    IN  /\ vault[v].swig_bound
        /\ s.exists
        /\ s.version # 0
        /\ now < s.expires_at
        /\ cumulative > Frontier(s)
        /\ cumulative <= s.max_amount

\* Faulty: a vault without the session is let through unmetered, as V4 was.
TabAdmittedAsV4(v, c, amount) ==
    LET s == session[v][c]
    IN  s.version # 0 => s.current_outstanding + amount <= s.max_revolving_capacity

\* The session must be registered, with room on its revolving meter.  There is
\* no expiry check.
TabAdmitted(v, c, amount) ==
    LET s == session[v][c]
    IN  /\ s.exists
        /\ s.version # 0
        /\ s.current_outstanding + amount <= s.max_revolving_capacity

\* settle_voucher with increment = true.
SettleVoucherOpen(v, c, amount) ==
    /\ vault[v].pending_voucher_count < MaxPending
    /\ TabAdmitted(v, c, amount)
    /\ vault' = [vault EXCEPT ![v].pending_voucher_count = @ + 1]
    /\ session' = [session EXCEPT ![v][c].current_outstanding = @ + amount]
    /\ UNCHANGED <<claim, ledger, ata, now>>

\* settle_voucher with increment = false.
SettleVoucherClose(v) ==
    /\ vault[v].pending_voucher_count > 0
    /\ vault' = [vault EXCEPT ![v].pending_voucher_count = @ - 1]
    /\ UNCHANGED <<session, claim, ledger, ata, now>>

SettleTabVoucher(v, c, cumulative) ==
    LET increment == cumulative - session[v][c].spent
    IN  /\ VoucherAccepted(v, c, cumulative)
        /\ session' = [session EXCEPT
                ![v][c].spent = cumulative,
                ![v][c].current_outstanding = SaturatingSub(@, increment)]
        /\ vault' = [vault EXCEPT ![v].pending_voucher_count = SaturatingSub(@, 1)]
        /\ Pay(v, increment)
        /\ UNCHANGED <<claim, ledger, now>>

VouchersNext(v) ==
    \/ \E c \in Counterparties, amount \in Amounts :
           SettleVoucherOpen(v, c, amount) \/ SettleTabVoucher(v, c, amount)
    \/ SettleVoucherClose(v)

=================================================================================
