------------------------------- MODULE DexterVault -------------------------------
(***************************************************************************)
(* The dexter-vault program: every instruction of the components, in any   *)
(* order, from anyone entitled to send it, and what the accounts promise.  *)
(***************************************************************************)
EXTENDS Sessions, Locks, Withdrawals, Standby

\* Tokens arriving at, or leaving, a wallet without the program.
Environment ==
    \/ \E w \in Wallets, amount \in Amounts : Deposit(w, amount)
    \/ \E v \in Vaults, amount \in MasterSpends : MasterSpend(v, amount)
    \/ Tick

Next ==
    \/ \E v \in Vaults :
        \/ SetSwig(v)
        \/ SessionsNext(v)
        \/ VouchersNext(v)
        \/ LocksNext(v)
        \/ WithdrawalsNext(v)
        \/ StandbyNext(v)
    \/ Environment

Spec == Init /\ [][Next]_vars

-----------------------------------------------------------------------------
(***************************************************************************)
(* Sessions                                                                *)
(***************************************************************************)

\* Sessions of v other than c's that the vault still counts, expired or not.
Others(v, c) == {s \in Counterparties \ {c} : session[v][s].version # 0}

Registered(v) == {c \in Counterparties : session[v][c].version # 0}

\* The caps a vault has promised to sessions that can still spend.
CommittedCaps(v) == Total(Caps(v), {c \in Registered(v) : IsLive(v, c)})

\* live_session_count (state.rs) is the number of session accounts registered
\* and not cleared, whatever mix of first registrations, replacements in place,
\* sweeps, revocations and closes produced them, and however many expired
\* without anyone telling the vault.
LiveCountExact ==
    \A v \in Vaults : vault[v].live_session_count = Cardinality(Registered(v))

\* The sibling check of register_session_key accepts exactly one list: all the
\* other registered sessions.  So no live cap can be left out of the overcommit
\* sum, and the list the client can always build is never refused (an expired
\* session does not block registration for ever).
GateAdmitsExactlyTheOthers ==
    \A v \in Vaults, c \in Counterparties, siblings \in SUBSET Counterparties :
        SiblingsDerived(v, c, siblings) /\ SiblingsComplete(v, c, siblings)
            <=> siblings = Others(v, c)

\* register_session_key.rs: the sweep of expired siblings is "Self-healing".  A
\* registration the wallet can bear, beside the sessions still live, is admitted
\* with the list of all the other sessions: however many sessions expired without
\* anyone telling the vault and whichever way they were registered, swept, revoked
\* and closed before, fewer of them than the limit stand in nobody's way.
ExpiredSessionsNeverBlock ==
    \A v \in Vaults, c \in Counterparties, max_amount \in Amounts,
       capacity \in Amounts, expires_at \in 1 .. MaxTime + 1 :
        /\ max_amount > 0 /\ capacity > 0 /\ expires_at > now
        /\ Cardinality(Registered(v)) < MaxSessions
        /\ WithinBalance(v, {s \in Others(v, c) : IsLive(v, s)}, max_amount)
        => RegistrationAdmitted(v, c, max_amount, capacity, expires_at, Others(v, c))

\* A registration that lands never commits more than the wallet holds: right
\* after register_session_key, the caps of every live session of the vault plus
\* its locked claims fit in the token balance.
RegisterNeverOvercommits ==
    [][\A v \in Vaults :
        (\E c \in Counterparties :
            /\ session'[v][c].version = 1
            /\ \/ session'[v][c].expires_at # session[v][c].expires_at
               \/ session'[v][c].max_amount # session[v][c].max_amount)
        => CommittedCaps(v)' + vault'[v].outstanding_locked_amount
               <= WalletBalance(v)']_vars

\* A voucher is spent by at most one of the two terminal paths, once: a step that
\* moves tokens or mints a claim on account of a session (settle_tab_voucher,
\* lock_voucher, in any order) takes its frontier max(spent,
\* crystallized_cumulative) strictly beyond every earlier one, and the frontier
\* falls only back to zero, when the passkey revokes or replaces the session.
VouchersAreSingleUse ==
    [][\A v \in Vaults, c \in Counterparties :
        LET old == Frontier(session[v][c])
            new == Frontier(session'[v][c])
        IN  /\ session'[v][c] # session[v][c] /\ (ata' # ata \/ claim' # claim)
                   => new > old
            /\ new < old => new = 0 /\ ata' = ata /\ claim' = claim]_vars

\* What a session can move at most.  settle_tab_voucher and lock_voucher count from
\* an odometer each, so the cap the passkey endorsed can be paid as tabs and locked
\* over again; but every voucher must go beyond both, so only one of the two ever
\* reaches the cap and the other stays short of it.
SessionMovesLessThanTwiceItsCap ==
    \A v \in Vaults, c \in Counterparties :
        LET s == session[v][c]
        IN  s.version # 0 => s.spent + s.crystallized_cumulative < 2 * s.max_amount

-----------------------------------------------------------------------------
(***************************************************************************)
(* Locked claims                                                           *)
(***************************************************************************)

WithStatus(v, status) == {h \in Hashes : claim[v][h].status = status}
ClaimAmounts(v) == [h \in Hashes |-> claim[v][h].amount]

\* outstanding_locked_amount, the reservation every gate reads, is the sum of
\* the claims still pending: the saturating subtractions of settle_locked_voucher
\* and recover_abandoned_lock never lose anything.
LockedIsPendingSum ==
    \A v \in Vaults :
        vault[v].outstanding_locked_amount = Total(ClaimAmounts(v), WithStatus(v, "Pending"))

\* The two lifetime odometers account for every claim: what was crystallized is
\* what is pending, was settled or was recovered, and total_settled_amount counts
\* each settled claim once.
OdometersAccountForClaims ==
    \A v \in Vaults :
        /\ vault[v].total_settled_amount = Total(ClaimAmounts(v), WithStatus(v, "Settled"))
        /\ vault[v].total_crystallized_amount =
               Total(ClaimAmounts(v), Hashes \ WithStatus(v, "Vacant"))

Book == INSTANCE ClaimBook WITH
    Vouchers <- Hashes,
    book <- claim,
    reserved <- [v \in Vaults |-> vault[v].outstanding_locked_amount],
    settled <- [v \in Vaults |-> vault[v].total_settled_amount]

\* The program keeps the promise of ClaimBook: whatever the sessions, tabs, loans
\* and withdrawals around them do, the claims are opened, transferred and closed
\* one at a time, settled only from maturity on and recovered only after their
\* deadline, and outstanding_locked_amount, which saturates where it is lowered,
\* moves by the exact amount of the claim each time.
ImplementsClaimBook == Book!Spec

\* The holder's settle_locked_voucher always comes up before the buyer's
\* recover_abandoned_lock: by the time the recovery deadline of a pending claim
\* has passed, its maturity has been reached at an earlier second (the two are
\* never first possible in the same one), and a claim is abandoned only after a
\* deadline it really carries.
RecoveryFollowsMaturity ==
    \A v \in Vaults, h \in Hashes :
        LET k == claim[v][h]
        IN  /\ k.status = "Pending" /\ k.holder_recovery_at # None
                   /\ now >= k.holder_recovery_at
               => (k.maturity_at # None => now > k.maturity_at)
            /\ k.status = "Abandoned" =>
                   k.holder_recovery_at # None /\ now >= k.holder_recovery_at

\* What the wallet holds against the claims still pending.
Funded(v) == ata[v] >= vault[v].outstanding_locked_amount

\* Neither the buyer's exit nor the claims' own operations ever leave a wallet
\* short of its locked claims: when a funded vault stops being funded, the step
\* was a tab payment (settle_tab_voucher does not read the reservation), a loan
\* repaid, seized or lent from that wallet, or a spend outside the program.
OnlyTabsAndLoansUnfund ==
    [][\A v \in Vaults :
        Funded(v) /\ ~Funded(v)' =>
            \/ \E c \in Counterparties : session'[v][c].spent > session[v][c].spent
            \/ vault'[v].borrowed < vault[v].borrowed
            \/ \E w \in Vaults : vault'[w].borrowed > vault[w].borrowed
            \/ UNCHANGED <<vault, session, claim, ledger>>]_vars

\* What the wallet holds beyond what finalize_withdrawal must leave behind.
Headroom(v) == ata[v] - vault[v].outstanding_locked_amount - vault[v].borrowed

\* SECURITY.md: "the gate can never permanently trap a buyer's funds".  Once every
\* session of a vault is revoked, nobody can set its exit back: no step opens a
\* tab or locks a claim, and what the wallet can pay out does not shrink, whatever
\* the sellers, the holders, the authority and the financiers send and however
\* they interleave.  It shrinks only when a withdrawal is paid, which leaves the
\* claims and the loan covered, by a loan the vault draws or lends, and by a spend
\* outside the program.
RevokedVaultOnlyUnwinds ==
    [][\A v \in Vaults : Registered(v) = {} =>
        /\ vault'[v].pending_voucher_count <= vault[v].pending_voucher_count
        /\ vault'[v].outstanding_locked_amount <= vault[v].outstanding_locked_amount
        /\ Headroom(v)' < Headroom(v) =>
            \/ /\ vault[v].pending_withdrawal # None
               /\ vault'[v].pending_withdrawal = None
               /\ Headroom(v)' >= 0
            \/ \E w \in Vaults : /\ w = v \/ vault[w].standby_backer = v
                                 /\ vault'[w].borrowed > vault[w].borrowed
            \/ UNCHANGED <<vault, session, claim, ledger>>]_vars

-----------------------------------------------------------------------------
(***************************************************************************)
(* Standby credit                                                          *)
(***************************************************************************)

Backed(f) == {v \in Vaults : vault[v].standby_backer = f}
StandbyCaps == [v \in Vaults |-> vault[v].standby_cap]

\* A financier's ledger is the sum of the caps of the vaults it backs now: opens,
\* resizes both ways and closes on several vaults never let it drift.
PromisesAddUp ==
    \A f \in Financiers : ledger[f].aggregate_promised = Total(StandbyCaps, Backed(f))

\* A financier never promises more than the reserve it committed, whichever of
\* the reserve and the promises moved last.
PromisesCovered ==
    \A f \in Financiers : Total(StandbyCaps, Backed(f)) <= ledger[f].committed_reserve

\* Every loan stays within the cap its backer promised and can be recovered:
\* while something is borrowed the backer is recorded and the deadline is armed,
\* so no close, resize or change of backer strands it.
LoansAreRecoverable ==
    \A v \in Vaults :
        /\ vault[v].borrowed <= vault[v].standby_cap
        /\ vault[v].borrowed > 0 => /\ vault[v].standby_backer # None
                                    /\ vault[v].borrow_recovery_at # None

\* While a loan is outstanding its deadline does not move: topping up the draw
\* or repaying a part neither defers nor hastens the seizure.
DeadlineHoldsWhileBorrowed ==
    [][\A v \in Vaults :
        vault[v].borrowed > 0 /\ vault'[v].borrowed > 0
            => vault'[v].borrow_recovery_at = vault[v].borrow_recovery_at]_vars

=================================================================================
