--------------------------------- MODULE Standby ---------------------------------
(***************************************************************************)
(* Standby credit: a financier declares a reserve, backs vaults up to a    *)
(* cap each, and is drawn on, repaid or made whole from the user's wallet. *)
(***************************************************************************)
EXTENDS VaultState

\* Faulty: the reserve may drop below what is promised.
SetAnyReserve(f, new_reserve) ==
    /\ ledger' = [ledger EXCEPT ![f].version = 1,
                                ![f].committed_reserve = new_reserve]
    /\ UNCHANGED <<vault, session, claim, ata, now>>

\* set_standby_reserve: the first call creates the ledger.
SetStandbyReserve(f, new_reserve) ==
    /\ new_reserve >= ledger[f].aggregate_promised
    /\ ledger' = [ledger EXCEPT ![f].version = 1,
                                ![f].committed_reserve = new_reserve]
    /\ UNCHANGED <<vault, session, claim, ata, now>>

\* Faulty: a resize promises the whole cap again.
NoOldCap(v) == 0

\* The part of the financier's promises this vault already holds.
OldCap(v) == IF vault[v].standby_backer = None THEN 0 ELSE vault[v].standby_cap

\* Faulty: the cap can be resized below the loan.
CapAdmittedBelowLoan(v, f, cap) ==
    /\ cap > 0
    /\ ledger[f].version = 1
    /\ vault[v].standby_backer \in {None, f}

CapAdmitted(v, f, cap) ==
    /\ cap > 0
    /\ ledger[f].version = 1
    /\ vault[v].standby_backer \in {None, f}
    /\ cap >= vault[v].borrowed

\* Replaces the cap; the ledger moves by the difference, checked only upwards.
OpenStandby(v, f, cap) ==
    LET old_cap  == OldCap(v)
        promised == ledger[f].aggregate_promised
    IN  /\ CapAdmitted(v, f, cap)
        /\ \/ /\ cap >= old_cap
              /\ promised + (cap - old_cap) <= ledger[f].committed_reserve
              /\ ledger' = [ledger EXCEPT ![f].aggregate_promised = @ + (cap - old_cap)]
           \/ /\ cap < old_cap
              /\ ledger' = [ledger EXCEPT ![f].aggregate_promised =
                                SaturatingSub(@, old_cap - cap)]
        /\ vault' = [vault EXCEPT ![v].standby_backer = f, ![v].standby_cap = cap]
        /\ UNCHANGED <<session, claim, ata, now>>

\* Faulty: every draw starts a new window.
RearmedDeadline(v, recovery_window) == now + recovery_window

\* The first draw arms the deadline, later ones leave it.
ArmedDeadline(v, recovery_window) ==
    IF vault[v].borrow_recovery_at = None THEN now + recovery_window
    ELSE vault[v].borrow_recovery_at

\* The financier's wallet pays a seller.
DrawCredit(v, f, amount, recovery_window) ==
    /\ vault[v].standby_backer = f
    /\ vault[v].borrowed + amount <= vault[v].standby_cap
    /\ vault' = [vault EXCEPT
            ![v].borrowed = @ + amount,
            ![v].borrow_recovery_at = ArmedDeadline(v, recovery_window)]
    /\ Pay(f, amount)
    /\ UNCHANGED <<session, claim, ledger, now>>

\* The user's wallet pays the financier, never more than is owed.
RepayCredit(v, f, amount) ==
    LET repay == Smaller(amount, vault[v].borrowed)
        left  == vault[v].borrowed - repay
    IN  /\ vault[v].borrowed > 0
        /\ vault[v].swig_bound
        /\ vault' = [vault EXCEPT
                ![v].borrowed = left,
                ![v].borrow_recovery_at = IF left = 0 THEN None ELSE @]
        /\ f = vault[v].standby_backer
        /\ PayTo(v, f, repay)
        /\ UNCHANGED <<session, claim, ledger, now>>

\* Past the deadline the user's wallet pays the whole loan.
SeizeCollateral(v, f) ==
    /\ vault[v].borrowed > 0
    /\ vault[v].swig_bound
    /\ vault[v].borrow_recovery_at # None
    /\ now >= vault[v].borrow_recovery_at
    /\ vault' = [vault EXCEPT ![v].borrowed = 0, ![v].borrow_recovery_at = None]
    /\ f = vault[v].standby_backer
    /\ PayTo(v, f, vault[v].borrowed)
    /\ UNCHANGED <<session, claim, ledger, now>>

\* Either party may close; close_standby_core does the rest.
CloseStandby(v, f) ==
    /\ vault[v].standby_backer = f
    /\ vault[v].borrowed = 0
    /\ ledger' = [ledger EXCEPT ![f].aggregate_promised =
                      SaturatingSub(@, vault[v].standby_cap)]
    /\ vault' = [vault EXCEPT ![v].standby_backer = None, ![v].standby_cap = 0]
    /\ UNCHANGED <<session, claim, ata, now>>

StandbyNext(v) ==
    \E f \in Financiers :
        \/ \E amount \in Amounts :
               \/ SetStandbyReserve(f, amount)
               \/ OpenStandby(v, f, amount)
               \/ RepayCredit(v, f, amount)
               \/ \E window \in Windows : DrawCredit(v, f, amount, window)
        \/ SeizeCollateral(v, f)
        \/ CloseStandby(v, f)

=================================================================================
