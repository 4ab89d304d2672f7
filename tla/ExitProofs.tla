------------------------------- MODULE ExitProofs -------------------------------
(***************************************************************************)
(* The way out of a vault, for any number of vaults, sessions and claims:  *)
(* which steps can leave a wallet short of its locked claims, what a vault *)
(* can still pay out once its sessions are revoked, how long the buyer's   *)
(* exit really waits after its request landed, and that a withdrawal the   *)
(* wallet can bear stays one until it is paid.                             *)
(***************************************************************************)
EXTENDS ClaimProofs, SessionProofs, VaultHistory, BuyerExit

-----------------------------------------------------------------------------
(***************************************************************************)
(* The wallet and the reservation.  A vault stays funded when its tokens   *)
(* do not fall and its reservation does not rise; what is left is one      *)
(* argument per instruction that moves either.                             *)
(***************************************************************************)

Excused(w) ==
    \/ \E c \in Counterparties : session'[w][c].spent > session[w][c].spent
    \/ vault'[w].borrowed < vault[w].borrowed
    \/ \E u \in Vaults : vault'[u].borrowed > vault[u].borrowed
    \/ UNCHANGED <<vault, session, claim, ledger>>

StaysFunded(w) == Funded(w) /\ ~Funded(w)' => Excused(w)

LEMMA BalanceType ==
  ASSUME TypeOK, NEW v \in Vaults
  PROVE  ata[v] \in Nat /\ v \in Wallets
  BY DEF TypeOK, Wallets

LEMMA NotPoorer ==
  ASSUME TypeOK, TypeOK', NEW w \in Vaults, ata'[w] >= ata[w],
         vault'[w].outstanding_locked_amount <= vault[w].outstanding_locked_amount
  PROVE  StaysFunded(w)
  <1>1. /\ ata[w] \in Nat /\ vault[w].outstanding_locked_amount \in Nat
        /\ ata'[w] \in Nat /\ vault'[w].outstanding_locked_amount \in Nat
    BY DEF TypeOK, Wallets, VaultAccount
  <1> QED BY <1>1 DEF StaysFunded, Funded

\* No token moves and the claims stand.
LEMMA StandsStill ==
  ASSUME TypeOK, TypeOK', NEW w \in Vaults, ata' = ata, ReservationKept(w)
  PROVE  StaysFunded(w)
  BY BalanceType, VaultFields, NotPoorer DEF ReservationKept

LEMMA FundedBySessions ==
  ASSUME TypeOK, TypeOK', NEW v \in Vaults, SessionsNext(v) \/ SetSwig(v), NEW w \in Vaults
  PROVE  StaysFunded(w)
  <1>1. ata' = ata
    BY DEF SessionsNext, Register, RegisterSessionKey, RevokeSessionKey, CloseSession, SetSwig
  <1> QED BY <1>1, KeptBySessions, StandsStill

LEMMA FundedByVouchers ==
  ASSUME TypeOK, TypeOK', NEW v \in Vaults, VouchersNext(v), NEW w \in Vaults
  PROVE  StaysFunded(w)
  <1>1. ReservationKept(w)
    BY KeptByVouchers
  <1>2. ASSUME NEW c \in Counterparties, NEW amount \in Amounts, SettleVoucherOpen(v, c, amount)
        PROVE  ata' = ata
    BY <1>2 DEF SettleVoucherOpen
  <1>3. ASSUME SettleVoucherClose(v) PROVE ata' = ata
    BY <1>3 DEF SettleVoucherClose
  <1>4. ASSUME NEW c \in Counterparties, NEW amount \in Amounts, SettleTabVoucher(v, c, amount)
        PROVE  StaysFunded(w)
    <2>1. CASE w = v
      <3>1. session'[v][c].spent = amount
        BY <1>4 DEF SettleTabVoucher, TypeOK, SessionAccount
      <3>2. amount > session[v][c].spent
        BY <1>4, SessionFields, ConstantsAssumption
           DEF SettleTabVoucher, VoucherAccepted, Frontier, Larger
      <3> QED BY <2>1, <3>1, <3>2 DEF StaysFunded, Excused
    <2>2. CASE w # v
      <3>1. ata'[w] = ata[w]
        BY <1>4, <2>2 DEF SettleTabVoucher, Pay, TypeOK, Wallets
      <3> QED BY <1>1, <3>1, BalanceType, VaultFields, NotPoorer DEF ReservationKept
    <2> QED BY <2>1, <2>2
  <1> QED BY <1>1, <1>2, <1>3, <1>4, StandsStill DEF VouchersNext

\* lock_voucher checks the wallet, settle_locked_voucher pays exactly what it
\* releases (here the exact reservation is needed), recover_abandoned_lock only
\* releases.
LEMMA FundedByLocks ==
  ASSUME TypeOK, TypeOK', ClaimsInv, NEW v \in Vaults, LocksNext(v), NEW w \in Vaults
  PROVE  StaysFunded(w)
  <1>1. ASSUME NEW h \in Hashes, NEW c \in Counterparties, NEW maturity \in Deadlines,
               NEW recovery \in Deadlines, NEW holder \in Holders,
               LockVoucher(v, c, h, maturity, recovery, holder)
        PROVE  StaysFunded(w)
    <2> DEFINE delta == h[2] - session[v][c].crystallized_cumulative
               outstanding == vault[v].outstanding_locked_amount + delta
    <2>1. /\ vault' = [vault EXCEPT ![v].outstanding_locked_amount = outstanding,
                                    ![v].total_crystallized_amount = @ + delta]
          /\ outstanding <= ata[v]
          /\ ata' = ata
      BY <1>1 DEF LockVoucher
    <2> HIDE DEF delta, outstanding
    <2>2. CASE w = v
      <3>1. vault'[v].outstanding_locked_amount = outstanding
        BY <2>1 DEF TypeOK, VaultAccount
      <3> QED BY <2>1, <2>2, <3>1 DEF StaysFunded, Funded
    <2>3. CASE w # v
      <3>1. vault'[w] = vault[w] /\ ata'[w] = ata[w]
        BY <2>1, <2>3 DEF TypeOK
      <3> QED BY <3>1, BalanceType, VaultFields, NotPoorer
    <2> QED BY <2>2, <2>3
  <1>2. ASSUME NEW h \in Hashes, NEW holder \in Holders, SettleLockedVoucher(v, h, holder)
        PROVE  StaysFunded(w)
    <2>1. claim[v][h].status = "Pending"
      BY <1>2 DEF SettleLockedVoucher, Settleable
    <2>2. CASE w = v
      <3>1. vault'[v].outstanding_locked_amount =
                vault[v].outstanding_locked_amount - claim[v][h].amount
        BY <1>2, <2>1, ClaimWithinReservation
           DEF SettleLockedVoucher, TypeOK, VaultAccount, ClaimsInv
      <3>2. ata'[v] = ata[v] - claim[v][h].amount
        BY <1>2 DEF SettleLockedVoucher, Pay, TypeOK, Wallets
      <3> QED BY <2>2, <3>1, <3>2, BalanceType, VaultFields, ClaimFields DEF StaysFunded, Funded
    <2>3. CASE w # v
      <3>1. vault'[w] = vault[w] /\ ata'[w] = ata[w]
        BY <1>2, <2>3 DEF SettleLockedVoucher, Pay, TypeOK, Wallets
      <3> QED BY <3>1, BalanceType, VaultFields, NotPoorer
    <2> QED BY <2>2, <2>3
  <1>3. ASSUME NEW h \in Hashes, NEW holder \in Holders, NEW new_holder \in Holders,
               TransferLockOwnership(v, h, holder, new_holder)
        PROVE  StaysFunded(w)
    BY <1>3, BalanceType, VaultFields, NotPoorer DEF TransferLockOwnership
  <1>4. ASSUME NEW h \in Hashes, RecoverAbandonedLock(v, h) PROVE StaysFunded(w)
    <2>1. ata' = ata /\ vault' = [vault EXCEPT
              ![v].outstanding_locked_amount = SaturatingSub(@, claim[v][h].amount)]
      BY <1>4 DEF RecoverAbandonedLock
    <2>2. SaturatingSub(vault[v].outstanding_locked_amount, claim[v][h].amount)
              <= vault[v].outstanding_locked_amount
      BY VaultFields, ClaimFields DEF SaturatingSub
    <2>3. vault'[w].outstanding_locked_amount <= vault[w].outstanding_locked_amount
      BY <2>1, <2>2, VaultFields DEF TypeOK, VaultAccount
    <2> QED BY <2>1, <2>3, BalanceType, NotPoorer
  <1> QED BY <1>1, <1>2, <1>3, <1>4 DEF LocksNext

LEMMA FundedByWithdrawals ==
  ASSUME TypeOK, TypeOK', NEW v \in Vaults, WithdrawalsNext(v), NEW w \in Vaults
  PROVE  StaysFunded(w)
  <1>1. ReservationKept(w)
    BY KeptByWithdrawals
  <1>2. ASSUME Request(v) \/ ForceRelease(v) PROVE ata' = ata
    BY <1>2 DEF Request, RequestWithdrawal, ForceRelease
  <1>3. ASSUME FinalizeWithdrawal(v) PROVE StaysFunded(w)
    <2> DEFINE amount == vault[v].pending_withdrawal.amount
    <2>1. /\ Pay(v, amount)
          /\ ata[v] - amount >= vault[v].outstanding_locked_amount
      BY <1>3 DEF FinalizeWithdrawal, ReservedLeftBehind
    <2> HIDE DEF amount
    <2>2. CASE w = v
      <3>1. ata'[v] = ata[v] - amount
        BY <2>1 DEF Pay, TypeOK, Wallets
      <3> QED BY <1>1, <2>1, <2>2, <3>1 DEF StaysFunded, Funded, ReservationKept
    <2>3. CASE w # v
      <3>1. ata'[w] = ata[w]
        BY <2>1, <2>3 DEF Pay, TypeOK, Wallets
      <3> QED BY <1>1, <3>1, BalanceType, VaultFields, NotPoorer DEF ReservationKept
    <2> QED BY <2>2, <2>3
  <1> QED BY <1>1, <1>2, <1>3, StandsStill DEF WithdrawalsNext

\* A transfer between wallets makes only its source poorer, and not even that one
\* when it pays itself or pays nothing.
LEMMA TransferOnlyDrainsItsSource ==
  ASSUME TypeOK, NEW v \in Vaults, NEW f \in Financiers, NEW n \in Nat, PayTo(v, f, n),
         NEW w \in Vaults, w # v \/ n = 0
  PROVE  ata'[w] >= ata[w]
  <1>1. /\ v \in Wallets /\ f \in Wallets /\ w \in Wallets
        /\ ata \in [Wallets -> Nat]
        /\ ata' = [ata EXCEPT ![v] = @ - n, ![f] = @ + n]
    BY DEF TypeOK, Wallets, PayTo
  <1>2. CASE w # v
    BY <1>1, <1>2
  <1>3. CASE n = 0
    BY <1>1, <1>3
  <1> QED BY <1>2, <1>3

LEMMA FundedByStandby ==
  ASSUME TypeOK, TypeOK', NEW v \in Vaults, StandbyNext(v), NEW w \in Vaults
  PROVE  StaysFunded(w)
  <1>1. /\ ReservationKept(w)
        /\ vault'[w].outstanding_locked_amount <= vault[w].outstanding_locked_amount
    BY KeptByStandby, VaultFields DEF ReservationKept
  <1>2. ASSUME NEW f \in Financiers, NEW amount \in Amounts,
               SetStandbyReserve(f, amount) \/ OpenStandby(v, f, amount)
        PROVE  ata' = ata
    BY <1>2 DEF SetStandbyReserve, OpenStandby
  <1>3. ASSUME NEW f \in Financiers, CloseStandby(v, f) PROVE ata' = ata
    BY <1>3 DEF CloseStandby
  <1>4. ASSUME NEW f \in Financiers, NEW amount \in Amounts, NEW window \in Windows,
               DrawCredit(v, f, amount, window)
        PROVE  StaysFunded(w)
    <2>1. amount \in Nat
      BY ConstantsAssumption
    <2>2. CASE amount > 0
      <3>1. vault'[v].borrowed = vault[v].borrowed + amount
        BY <1>4 DEF DrawCredit, TypeOK, VaultAccount
      <3>2. vault'[v].borrowed > vault[v].borrowed
        BY <2>1, <2>2, <3>1, VaultFields
      <3> QED BY <3>2 DEF StaysFunded, Excused
    <2>3. CASE amount = 0
      <3>1. ata'[w] >= ata[w]
        BY <1>4, <2>3, BalanceType DEF DrawCredit, Pay, TypeOK, Wallets
      <3> QED BY <1>1, <3>1, NotPoorer
    <2> QED BY <2>1, <2>2, <2>3
  <1>5. ASSUME NEW f \in Financiers, NEW amount \in Amounts, RepayCredit(v, f, amount)
        PROVE  StaysFunded(w)
    <2> DEFINE repay == Smaller(amount, vault[v].borrowed)
    <2>1. repay \in Nat
      BY VaultFields, ConstantsAssumption DEF Smaller
    <2>2. PayTo(v, f, repay) /\ vault'[v].borrowed = vault[v].borrowed - repay
      BY <1>5 DEF RepayCredit, TypeOK, VaultAccount
    <2> HIDE DEF repay
    <2>3. CASE w = v /\ repay > 0
      <3>1. vault'[v].borrowed < vault[v].borrowed
        BY <2>1, <2>2, <2>3, VaultFields
      <3> QED BY <2>3, <3>1 DEF StaysFunded, Excused
    <2>4. CASE w # v \/ repay = 0
      BY <1>1, <2>1, <2>2, <2>4, TransferOnlyDrainsItsSource, NotPoorer
    <2> QED BY <2>1, <2>3, <2>4
  <1>6. ASSUME NEW f \in Financiers, SeizeCollateral(v, f) PROVE StaysFunded(w)
    <2>1. /\ PayTo(v, f, vault[v].borrowed)
          /\ vault[v].borrowed > 0
          /\ vault'[v].borrowed = 0
      BY <1>6 DEF SeizeCollateral, TypeOK, VaultAccount
    <2>2. CASE w = v
      BY <2>1, <2>2, VaultFields DEF StaysFunded, Excused
    <2>3. CASE w # v
      <3>1. ata'[w] >= ata[w]
        BY <2>1, <2>3, VaultFields, TransferOnlyDrainsItsSource
      <3> QED BY <1>1, <3>1, NotPoorer
    <2> QED BY <2>2, <2>3
  <1> QED BY <1>1, <1>2, <1>3, <1>4, <1>5, <1>6, StandsStill DEF StandbyNext

LEMMA FundedStep ==
  ASSUME TypeOK, TypeOK', ClaimsInv, [Next]_vars, NEW w \in Vaults
  PROVE  StaysFunded(w)
  <1>1. ASSUME Environment \/ UNCHANGED vars PROVE StaysFunded(w)
    BY <1>1 DEF Environment, Deposit, MasterSpend, Tick, vars, StaysFunded, Excused
  <1> QED BY <1>1, FundedBySessions, FundedByVouchers, FundedByLocks, FundedByWithdrawals,
             FundedByStandby DEF Next

\* Neither a withdrawal nor an operation on the claims leaves a wallet short of its
\* locked claims: if a step does, it paid a tab, it moved a loan out of that
\* wallet, or it did not come from the program.
THEOREM ClaimsStayFunded == Spec => OnlyTabsAndLoansUnfund
  <1>1. Init => ClaimsInv
    BY ClaimsInit
  <1>2. TypeOK /\ ClaimsInv /\ [Next]_vars => ClaimsInv'
    BY ClaimsStep
  <1>3. TypeOK /\ TypeOK' /\ ClaimsInv /\ [Next]_vars
            => [\A v \in Vaults :
                 Funded(v) /\ ~Funded(v)' =>
                    \/ \E c \in Counterparties : session'[v][c].spent > session[v][c].spent
                    \/ vault'[v].borrowed < vault[v].borrowed
                    \/ \E w \in Vaults : vault'[w].borrowed > vault[w].borrowed
                    \/ UNCHANGED <<vault, session, claim, ledger>>]_vars
    BY FundedStep DEF StaysFunded, Excused
  <1> QED BY <1>1, <1>2, <1>3, TypeCorrect, PTL
      DEF Spec, OnlyTabsAndLoansUnfund

-----------------------------------------------------------------------------
(***************************************************************************)
(* What a vault with no session left can pay out.  Its claims are released *)
(* or paid out of their own reservation, its loan is repaid out of the     *)
(* tokens it already set aside for it: neither lowers what is left.        *)
(***************************************************************************)

Spent(w) ==
    \/ /\ vault[w].pending_withdrawal # None
       /\ vault'[w].pending_withdrawal = None
       /\ Headroom(w)' >= 0
    \/ \E u \in Vaults : /\ u = w \/ vault[u].standby_backer = w
                         /\ vault'[u].borrowed > vault[u].borrowed

Unwinds(w) ==
    /\ vault'[w].pending_voucher_count <= vault[w].pending_voucher_count
    /\ vault'[w].outstanding_locked_amount <= vault[w].outstanding_locked_amount
    /\ Headroom(w)' < Headroom(w) => Spent(w)

\* The vault's own counter, reservation and loan stand or fall.
Lightened(w) ==
    /\ vault'[w].pending_voucher_count <= vault[w].pending_voucher_count
    /\ vault'[w].outstanding_locked_amount <= vault[w].outstanding_locked_amount
    /\ vault'[w].borrowed <= vault[w].borrowed

LEMMA Amount ==
  ASSUME TypeOK, NEW w \in Vaults
  PROVE  /\ vault[w].pending_voucher_count \in Nat
         /\ vault[w].outstanding_locked_amount \in Nat
         /\ vault[w].borrowed \in Nat
         /\ ata[w] \in Nat
  BY DEF TypeOK, VaultAccount, Wallets

LEMMA LightenedUnwinds ==
  ASSUME TypeOK, TypeOK', NEW w \in Vaults, Lightened(w), ata'[w] >= ata[w]
  PROVE  Unwinds(w)
  <1>1. /\ vault[w].outstanding_locked_amount \in Nat /\ vault[w].borrowed \in Nat
        /\ vault'[w].outstanding_locked_amount \in Nat /\ vault'[w].borrowed \in Nat
        /\ ata[w] \in Nat /\ ata'[w] \in Nat
    BY DEF TypeOK, VaultAccount, Wallets
  <1>2. ~(Headroom(w)' < Headroom(w))
    BY <1>1 DEF Headroom, Lightened
  <1> QED BY <1>2 DEF Lightened, Unwinds

LEMMA UnwindsBySessions ==
  ASSUME TypeOK, TypeOK', NEW v \in Vaults, SessionsNext(v) \/ SetSwig(v), NEW w \in Vaults
  PROVE  Unwinds(w)
  <1>1. ata' = ata
    BY DEF SessionsNext, Register, RegisterSessionKey, RevokeSessionKey, CloseSession, SetSwig
  <1>2. CASE SessionsNext(v)
    <2>1. PICK n : vault' = vault \/ vault' = [vault EXCEPT ![v].live_session_count = n]
      BY <1>2 DEF SessionsNext, Register, RegisterSessionKey, RevokeSessionKey, CloseSession
    <2>2. /\ vault'[w].pending_voucher_count = vault[w].pending_voucher_count
          /\ vault'[w].outstanding_locked_amount = vault[w].outstanding_locked_amount
          /\ vault'[w].borrowed = vault[w].borrowed
      BY <2>1 DEF TypeOK, VaultAccount
    <2>3. Lightened(w)
      BY <2>2, Amount DEF Lightened
    <2> QED BY <1>1, <2>3, Amount, LightenedUnwinds
  <1>3. CASE SetSwig(v)
    <2>1. Lightened(w)
      BY <1>3, Amount DEF SetSwig, TypeOK, VaultAccount, Lightened
    <2> QED BY <1>1, <2>1, Amount, LightenedUnwinds
  <1> QED BY <1>2, <1>3

\* settle_voucher that opens a tab, settle_tab_voucher and lock_voucher all need a
\* session that is registered; the hypothesis is about w, the instruction's v may
\* be another vault.
LEMMA UnwindsByVouchers ==
  ASSUME TypeOK, TypeOK', NEW v \in Vaults, VouchersNext(v),
         NEW w \in Vaults, Registered(w) = {}
  PROVE  Unwinds(w)
  <1>1. ASSUME NEW c \in Counterparties, NEW amount \in Amounts, SettleVoucherOpen(v, c, amount)
        PROVE  Unwinds(w)
    <2>1. w # v
      BY <1>1 DEF SettleVoucherOpen, TabAdmitted, Registered
    <2>2. Lightened(w) /\ ata' = ata
      BY <1>1, <2>1, Amount DEF SettleVoucherOpen, TypeOK, Lightened
    <2> QED BY <2>2, Amount, LightenedUnwinds
  <1>2. ASSUME NEW c \in Counterparties, NEW amount \in Amounts, SettleTabVoucher(v, c, amount)
        PROVE  Unwinds(w)
    <2>1. w # v
      BY <1>2 DEF SettleTabVoucher, VoucherAccepted, Registered
    <2>2. PICK n : vault' = [vault EXCEPT ![v].pending_voucher_count = n]
      BY <1>2 DEF SettleTabVoucher
    <2>3. Lightened(w)
      BY <2>1, <2>2, Amount DEF TypeOK, Lightened
    <2>4. ata'[w] = ata[w]
      BY <1>2, <2>1 DEF SettleTabVoucher, Pay, TypeOK, Wallets
    <2> QED BY <2>3, <2>4, Amount, LightenedUnwinds
  <1>3. ASSUME SettleVoucherClose(v) PROVE Unwinds(w)
    <2>1. Lightened(w) /\ ata' = ata
      BY <1>3, Amount DEF SettleVoucherClose, TypeOK, VaultAccount, Lightened
    <2> QED BY <2>1, Amount, LightenedUnwinds
  <1> QED BY <1>1, <1>2, <1>3 DEF VouchersNext

\* A claim is settled out of its own reservation, exactly.
LEMMA UnwindsByLocks ==
  ASSUME TypeOK, TypeOK', ClaimsInv, NEW v \in Vaults, LocksNext(v),
         NEW w \in Vaults, Registered(w) = {}
  PROVE  Unwinds(w)
  <1>1. ASSUME NEW h \in Hashes, NEW c \in Counterparties, NEW maturity \in Deadlines,
               NEW recovery \in Deadlines, NEW holder \in Holders,
               LockVoucher(v, c, h, maturity, recovery, holder)
        PROVE  Unwinds(w)
    <2>1. w # v
      BY <1>1 DEF LockVoucher, VoucherAccepted, Registered
    <2>2. vault'[w] = vault[w] /\ ata' = ata
      BY <1>1, <2>1 DEF LockVoucher, TypeOK
    <2> QED BY <2>2, Amount, LightenedUnwinds DEF Lightened
  <1>2. ASSUME NEW h \in Hashes, NEW holder \in Holders, SettleLockedVoucher(v, h, holder)
        PROVE  Unwinds(w)
    <2>1. CASE w = v
      <3>1. claim[v][h].status = "Pending"
        BY <1>2 DEF SettleLockedVoucher, Settleable
      <3>2. /\ vault'[v].outstanding_locked_amount =
                   vault[v].outstanding_locked_amount - claim[v][h].amount
            /\ vault'[v].borrowed = vault[v].borrowed
            /\ vault'[v].pending_voucher_count = vault[v].pending_voucher_count
        BY <1>2, <3>1, ClaimWithinReservation
           DEF SettleLockedVoucher, TypeOK, VaultAccount, ClaimsInv
      <3>3. ata'[v] = ata[v] - claim[v][h].amount
        BY <1>2 DEF SettleLockedVoucher, Pay, TypeOK, Wallets
      <3>4. Headroom(v)' = Headroom(v)
        BY <3>2, <3>3, Amount, ClaimFields DEF Headroom
      <3> QED BY <2>1, <3>2, <3>4, Amount, ClaimFields DEF Unwinds, Headroom
    <2>2. CASE w # v
      <3>1. vault'[w] = vault[w] /\ ata'[w] = ata[w]
        BY <1>2, <2>2 DEF SettleLockedVoucher, Pay, TypeOK, Wallets
      <3> QED BY <3>1, Amount, LightenedUnwinds DEF Lightened
    <2> QED BY <2>1, <2>2
  <1>3. ASSUME NEW h \in Hashes, NEW holder \in Holders, NEW new_holder \in Holders,
               TransferLockOwnership(v, h, holder, new_holder)
        PROVE  Unwinds(w)
    BY <1>3, Amount, LightenedUnwinds DEF TransferLockOwnership, Lightened
  <1>4. ASSUME NEW h \in Hashes, RecoverAbandonedLock(v, h) PROVE Unwinds(w)
    <2> DEFINE left == SaturatingSub(vault[v].outstanding_locked_amount, claim[v][h].amount)
    <2>1. vault' = [vault EXCEPT ![v].outstanding_locked_amount = left] /\ ata' = ata
      BY <1>4 DEF RecoverAbandonedLock
    <2>2. left <= vault[v].outstanding_locked_amount
      BY Amount, ClaimFields DEF SaturatingSub
    <2> HIDE DEF left
    <2>3. Lightened(w)
      BY <2>1, <2>2, Amount DEF TypeOK, VaultAccount, Lightened
    <2> QED BY <2>1, <2>3, Amount, LightenedUnwinds
  <1> QED BY <1>1, <1>2, <1>3, <1>4 DEF LocksNext

LEMMA UnwindsByWithdrawals ==
  ASSUME TypeOK, TypeOK', NEW v \in Vaults, WithdrawalsNext(v), NEW w \in Vaults
  PROVE  Unwinds(w)
  <1>1. ASSUME Request(v) PROVE Unwinds(w)
    <2>1. PICK p : vault' = [vault EXCEPT ![v].pending_withdrawal = p]
      BY <1>1 DEF Request, RequestWithdrawal
    <2>2. Lightened(w) /\ ata' = ata
      BY <1>1, <2>1, Amount DEF Request, RequestWithdrawal, TypeOK, VaultAccount, Lightened
    <2> QED BY <2>2, Amount, LightenedUnwinds
  <1>2. ASSUME ForceRelease(v) PROVE Unwinds(w)
    <2>1. Lightened(w) /\ ata' = ata
      BY <1>2, Amount DEF ForceRelease, TypeOK, VaultAccount, Lightened
    <2> QED BY <2>1, Amount, LightenedUnwinds
  <1>3. ASSUME FinalizeWithdrawal(v) PROVE Unwinds(w)
    <2>1. CASE w = v
      <3> DEFINE n == vault[v].pending_withdrawal.amount
      <3>1. /\ vault[v].pending_withdrawal # None
            /\ ReservedLeftBehind(v, n)
            /\ Pay(v, n)
            /\ vault' = [vault EXCEPT ![v].pending_withdrawal = None]
        BY <1>3 DEF FinalizeWithdrawal
      <3>2. ata[v] - n >= vault[v].outstanding_locked_amount + vault[v].borrowed
        BY <3>1 DEF ReservedLeftBehind
      <3> HIDE DEF n
      <3>3. ata'[v] = ata[v] - n
        BY <3>1 DEF Pay, TypeOK, Wallets
      <3>4. /\ vault'[v].pending_withdrawal = None
            /\ vault'[v].pending_voucher_count = vault[v].pending_voucher_count
            /\ vault'[v].outstanding_locked_amount = vault[v].outstanding_locked_amount
            /\ vault'[v].borrowed = vault[v].borrowed
        BY <3>1 DEF TypeOK, VaultAccount
      <3>5. ata'[v] \in Nat
        BY DEF TypeOK, Wallets
      <3>6. Headroom(v)' >= 0
        BY <3>2, <3>3, <3>4, <3>5, Amount DEF Headroom
      <3> QED BY <2>1, <3>1, <3>4, <3>6, Amount DEF Unwinds, Spent
    <2>2. CASE w # v
      <3>1. vault'[w] = vault[w] /\ ata'[w] = ata[w]
        BY <1>3, <2>2 DEF FinalizeWithdrawal, Pay, TypeOK, Wallets
      <3> QED BY <3>1, Amount, LightenedUnwinds DEF Lightened
    <2> QED BY <2>1, <2>2
  <1> QED BY <1>1, <1>2, <1>3 DEF WithdrawalsNext

\* A loan repaid or seized comes out of the tokens set aside for it; a draw is the
\* vault's own or one it lends.
LEMMA UnwindsByStandby ==
  ASSUME TypeOK, TypeOK', NEW v \in Vaults, StandbyNext(v), NEW w \in Vaults
  PROVE  Unwinds(w)
  <1>1. ASSUME NEW f \in Financiers, NEW amount \in Amounts, SetStandbyReserve(f, amount)
        PROVE  Unwinds(w)
    BY <1>1, Amount, LightenedUnwinds DEF SetStandbyReserve, Lightened
  <1>2. ASSUME NEW f \in Financiers, NEW cap \in Amounts, OpenStandby(v, f, cap)
        PROVE  Unwinds(w)
    <2>1. /\ vault' = [vault EXCEPT ![v].standby_backer = f, ![v].standby_cap = cap]
          /\ ata' = ata
      BY <1>2 DEF OpenStandby
    <2>2. Lightened(w)
      BY <2>1, Amount DEF TypeOK, VaultAccount, Lightened
    <2> QED BY <2>1, <2>2, Amount, LightenedUnwinds
  <1>3. ASSUME NEW f \in Financiers, CloseStandby(v, f) PROVE Unwinds(w)
    <2>1. /\ vault' = [vault EXCEPT ![v].standby_backer = None, ![v].standby_cap = 0]
          /\ ata' = ata
      BY <1>3 DEF CloseStandby
    <2>2. Lightened(w)
      BY <2>1, Amount DEF TypeOK, VaultAccount, Lightened
    <2> QED BY <2>1, <2>2, Amount, LightenedUnwinds
  <1>4. ASSUME NEW f \in Financiers, NEW amount \in Amounts, NEW window \in Windows,
               DrawCredit(v, f, amount, window)
        PROVE  Unwinds(w)
    <2>1. PICK deadline :
            /\ vault[v].standby_backer = f
            /\ vault' = [vault EXCEPT ![v].borrowed = @ + amount,
                                      ![v].borrow_recovery_at = deadline]
            /\ Pay(f, amount)
      BY <1>4 DEF DrawCredit
    <2>2. /\ amount \in Nat
          /\ vault[v].borrowed \in Nat
          /\ vault'[v].borrowed = vault[v].borrowed + amount
      BY <2>1, Amount, ConstantsAssumption DEF TypeOK, VaultAccount
    <2>3. /\ vault'[w].pending_voucher_count = vault[w].pending_voucher_count
          /\ vault'[w].outstanding_locked_amount = vault[w].outstanding_locked_amount
      BY <2>1 DEF TypeOK, VaultAccount
    <2>4. CASE amount > 0 /\ (w = v \/ w = f)
      <3>1. vault'[v].borrowed > vault[v].borrowed /\ vault[v].standby_backer = f
        BY <2>1, <2>2, <2>4
      <3>2. Spent(w)
        BY <2>4, <3>1 DEF Spent
      <3> QED BY <2>3, <3>2, Amount DEF Unwinds
    <2>5. CASE ~(amount > 0 /\ (w = v \/ w = f))
      <3>1. vault'[w].borrowed = vault[w].borrowed
        BY <2>1, <2>2, <2>5, Amount DEF TypeOK, VaultAccount
      <3>2. ata'[w] = ata[w]
        BY <2>1, <2>2, <2>5, Amount DEF Pay, TypeOK, Wallets
      <3> QED BY <2>3, <3>1, <3>2, Amount, LightenedUnwinds DEF Lightened
    <2> QED BY <2>4, <2>5
  <1>5. ASSUME NEW f \in Financiers, NEW n \in Nat, NEW deadline,
               n <= vault[v].borrowed,
               PayTo(v, f, n),
               vault' = [vault EXCEPT ![v].borrowed = @ - n,
                                      ![v].borrow_recovery_at = deadline]
        PROVE  Unwinds(w)
    <2>1. /\ vault'[w].pending_voucher_count = vault[w].pending_voucher_count
          /\ vault'[w].outstanding_locked_amount = vault[w].outstanding_locked_amount
      BY <1>5 DEF TypeOK, VaultAccount
    <2>2. CASE w = v
      <3>1. vault'[v].borrowed = vault[v].borrowed - n
        BY <1>5 DEF TypeOK, VaultAccount
      <3>2. ata'[v] >= ata[v] - n
        BY <1>5, Amount DEF PayTo, TypeOK, Wallets
      <3>3. ata'[v] \in Nat
        BY DEF TypeOK, Wallets
      <3>4. ~(Headroom(v)' < Headroom(v))
        BY <2>1, <2>2, <3>1, <3>2, <3>3, Amount DEF Headroom
      <3> QED BY <2>1, <2>2, <3>4, Amount DEF Unwinds
    <2>3. CASE w # v
      <3>1. vault'[w] = vault[w]
        BY <1>5, <2>3 DEF TypeOK
      <3>2. ata'[w] >= ata[w]
        BY <1>5, <2>3, TransferOnlyDrainsItsSource
      <3> QED BY <3>1, <3>2, Amount, LightenedUnwinds DEF Lightened
    <2> QED BY <2>2, <2>3
  <1>6. ASSUME NEW f \in Financiers, NEW amount \in Amounts, RepayCredit(v, f, amount)
        PROVE  Unwinds(w)
    <2>1. PICK n \in Nat : n = Smaller(amount, vault[v].borrowed) /\ n <= vault[v].borrowed
      BY Amount, ConstantsAssumption DEF Smaller
    <2>2. PICK deadline :
            /\ PayTo(v, f, n)
            /\ vault' = [vault EXCEPT ![v].borrowed = vault[v].borrowed - n,
                                      ![v].borrow_recovery_at = deadline]
      BY <1>6, <2>1 DEF RepayCredit
    <2> QED BY <1>5, <2>1, <2>2
  <1>7. ASSUME NEW f \in Financiers, SeizeCollateral(v, f) PROVE Unwinds(w)
    <2>1. PICK n \in Nat : n = vault[v].borrowed
      BY Amount
    <2>2. /\ PayTo(v, f, n)
          /\ vault' = [vault EXCEPT ![v].borrowed = 0, ![v].borrow_recovery_at = None]
      BY <1>7, <2>1 DEF SeizeCollateral
    <2>3. vault[v].borrowed - n = 0 /\ n <= vault[v].borrowed
      BY <2>1
    <2> QED BY <1>5, <2>2, <2>3
  <1> QED BY <1>1, <1>2, <1>3, <1>4, <1>6, <1>7 DEF StandbyNext

LEMMA UnwindsByDeposit ==
  ASSUME TypeOK, TypeOK', NEW x \in Wallets, NEW amount \in Amounts, Deposit(x, amount),
         NEW w \in Vaults
  PROVE  Unwinds(w)
  <1>1. ata'[w] >= ata[w] /\ vault' = vault
    BY Amount, ConstantsAssumption DEF Deposit, TypeOK, Wallets
  <1> QED BY <1>1, Amount, LightenedUnwinds DEF Lightened

LEMMA UnwindsByIdling ==
  ASSUME TypeOK, TypeOK', Tick \/ UNCHANGED vars, NEW w \in Vaults
  PROVE  Unwinds(w)
  BY Amount, LightenedUnwinds DEF Tick, vars, Lightened

UnwindsOrSpends(w) ==
    /\ vault'[w].pending_voucher_count <= vault[w].pending_voucher_count
    /\ vault'[w].outstanding_locked_amount <= vault[w].outstanding_locked_amount
    /\ Headroom(w)' < Headroom(w) =>
           Spent(w) \/ UNCHANGED <<vault, session, claim, ledger>>

LEMMA UnwindsStep ==
  ASSUME TypeOK, TypeOK', ClaimsInv, [Next]_vars, NEW w \in Vaults, Registered(w) = {}
  PROVE  UnwindsOrSpends(w)
  <1>1. ASSUME NEW v \in Vaults, NEW amount \in MasterSpends, MasterSpend(v, amount)
        PROVE  UnwindsOrSpends(w)
    BY <1>1, Amount DEF MasterSpend, UnwindsOrSpends
  <1>2. ASSUME Unwinds(w) PROVE UnwindsOrSpends(w)
    BY <1>2 DEF Unwinds, UnwindsOrSpends
  <1> QED BY <1>1, <1>2, UnwindsBySessions, UnwindsByVouchers, UnwindsByLocks,
             UnwindsByWithdrawals, UnwindsByStandby, UnwindsByDeposit, UnwindsByIdling
          DEF Next, Environment

\* Once its sessions are revoked a vault only unwinds: no step opens a tab, locks a
\* claim or takes from what the buyer can withdraw, but a paid withdrawal, a loan it
\* draws or lends, and a spend outside the program; for any number of vaults,
\* financiers, holders and claims, in any order.
THEOREM RevocationIsFinal == Spec => RevokedVaultOnlyUnwinds
  <1>1. Init => ClaimsInv
    BY ClaimsInit
  <1>2. TypeOK /\ ClaimsInv /\ [Next]_vars => ClaimsInv'
    BY ClaimsStep
  <1>3. TypeOK /\ TypeOK' /\ ClaimsInv /\ [Next]_vars
            => [\A v \in Vaults : Registered(v) = {} =>
                /\ vault'[v].pending_voucher_count <= vault[v].pending_voucher_count
                /\ vault'[v].outstanding_locked_amount <= vault[v].outstanding_locked_amount
                /\ Headroom(v)' < Headroom(v) =>
                    \/ /\ vault[v].pending_withdrawal # None
                       /\ vault'[v].pending_withdrawal = None
                       /\ Headroom(v)' >= 0
                    \/ \E w \in Vaults : /\ w = v \/ vault[w].standby_backer = v
                                         /\ vault'[w].borrowed > vault[w].borrowed
                    \/ UNCHANGED <<vault, session, claim, ledger>>]_vars
    BY UnwindsStep DEF UnwindsOrSpends, Spent
  <1> QED BY <1>1, <1>2, <1>3, TypeCorrect, PTL
      DEF Spec, RevokedVaultOnlyUnwinds

-----------------------------------------------------------------------------
(***************************************************************************)
(* How long the exit waits.  What is needed of a pending request: it       *)
(* landed in the past, at most Drift after the time it claims.             *)
(***************************************************************************)

LandedInv ==
    \A v \in Vaults :
        LET pending == vault[v].pending_withdrawal
        IN  pending # None =>
                /\ landed_at[v] \in Nat
                /\ landed_at[v] <= now
                /\ landed_at[v] - pending.requested_at <= Drift

\* A step leaves the pending request, drops it, or puts one signed within Drift of
\* the clock in its place.
RequestStep(w) ==
    \/ vault'[w].pending_withdrawal = vault[w].pending_withdrawal
    \/ vault'[w].pending_withdrawal = None
    \/ /\ vault'[w].pending_withdrawal \in PendingWithdrawal
       /\ now - vault'[w].pending_withdrawal.requested_at <= Drift

LEMMA RequestsKept ==
  ASSUME TypeOK, NEW v \in Vaults, NEW w \in Vaults,
         SetSwig(v) \/ SessionsNext(v) \/ VouchersNext(v) \/ StandbyNext(v) \/ LocksNext(v)
  PROVE  vault'[w].pending_withdrawal = vault[w].pending_withdrawal
  <1> USE DEF TypeOK, VaultAccount
  <1>1. ASSUME SetSwig(v) PROVE vault'[w].pending_withdrawal = vault[w].pending_withdrawal
    BY <1>1 DEF SetSwig
  <1>2. ASSUME SessionsNext(v) PROVE vault'[w].pending_withdrawal = vault[w].pending_withdrawal
    <2>1. PICK n : vault' = vault \/ vault' = [vault EXCEPT ![v].live_session_count = n]
      BY <1>2 DEF SessionsNext, Register, RegisterSessionKey, RevokeSessionKey, CloseSession
    <2> QED BY <2>1
  <1>3. ASSUME VouchersNext(v) PROVE vault'[w].pending_withdrawal = vault[w].pending_withdrawal
    <2>1. PICK n : vault' = [vault EXCEPT ![v].pending_voucher_count = n]
      BY <1>3 DEF VouchersNext, SettleVoucherOpen, SettleVoucherClose, SettleTabVoucher
    <2> QED BY <2>1
  <1>4. ASSUME StandbyNext(v) PROVE vault'[w].pending_withdrawal = vault[w].pending_withdrawal
    <2> DEFINE Kept == vault'[w].pending_withdrawal = vault[w].pending_withdrawal
    <2>1. ASSUME NEW f \in Financiers, NEW amount \in Amounts, SetStandbyReserve(f, amount)
          PROVE  Kept
      BY <2>1 DEF SetStandbyReserve
    <2>2. ASSUME NEW f \in Financiers, NEW cap \in Amounts, OpenStandby(v, f, cap)
          PROVE  Kept
      BY <2>2 DEF OpenStandby
    <2>3. ASSUME NEW f \in Financiers, NEW amount \in Amounts, NEW window \in Windows,
                 DrawCredit(v, f, amount, window)
          PROVE  Kept
      BY <2>3 DEF DrawCredit
    <2>4. ASSUME NEW f \in Financiers, NEW amount \in Amounts, RepayCredit(v, f, amount)
          PROVE  Kept
      BY <2>4 DEF RepayCredit
    <2>5. ASSUME NEW f \in Financiers, SeizeCollateral(v, f) PROVE Kept
      BY <2>5 DEF SeizeCollateral
    <2>6. ASSUME NEW f \in Financiers, CloseStandby(v, f) PROVE Kept
      BY <2>6 DEF CloseStandby
    <2> HIDE DEF Kept
    <2>7. Kept
      BY <1>4, <2>1, <2>2, <2>3, <2>4, <2>5, <2>6 DEF StandbyNext
    <2> QED BY <2>7 DEF Kept
  <1>5. ASSUME LocksNext(v) PROVE vault'[w].pending_withdrawal = vault[w].pending_withdrawal
    <2> DEFINE Kept == vault'[w].pending_withdrawal = vault[w].pending_withdrawal
    <2>1. ASSUME NEW h \in Hashes, NEW c \in Counterparties, NEW maturity \in Deadlines,
                 NEW recovery \in Deadlines, NEW holder \in Holders,
                 LockVoucher(v, c, h, maturity, recovery, holder)
          PROVE  Kept
      BY <2>1 DEF LockVoucher
    <2>2. ASSUME NEW h \in Hashes, NEW holder \in Holders, SettleLockedVoucher(v, h, holder)
          PROVE  Kept
      BY <2>2 DEF SettleLockedVoucher
    <2>3. ASSUME NEW h \in Hashes, NEW holder \in Holders, NEW new_holder \in Holders,
                 TransferLockOwnership(v, h, holder, new_holder)
          PROVE  Kept
      BY <2>3 DEF TransferLockOwnership
    <2>4. ASSUME NEW h \in Hashes, RecoverAbandonedLock(v, h) PROVE Kept
      BY <2>4 DEF RecoverAbandonedLock
    <2> HIDE DEF Kept
    <2>5. Kept
      BY <1>5, <2>1, <2>2, <2>3, <2>4 DEF LocksNext
    <2> QED BY <2>5 DEF Kept
  <1> QED BY <1>1, <1>2, <1>3, <1>4, <1>5

LEMMA RequestSteps ==
  ASSUME TypeOK, [Next]_vars, NEW w \in Vaults
  PROVE  RequestStep(w)
  <1>1. ASSUME NEW v \in Vaults, WithdrawalsNext(v) PROVE RequestStep(w)
    <2>1. ASSUME Request(v) PROVE RequestStep(w)
      <3>1. PICK amount \in Amounts, signed_at \in now - Drift - 1 .. now + Drift + 1 :
              RequestWithdrawal(v, amount, signed_at)
        BY <2>1 DEF Request
      <3> DEFINE p == [amount |-> amount, requested_at |-> signed_at]
      <3>2. /\ p \in PendingWithdrawal /\ p.requested_at = signed_at
            /\ now - signed_at <= Drift
            /\ vault' = [vault EXCEPT ![v].pending_withdrawal = p]
        BY <3>1, ConstantsAssumption DEF TypeOK, PendingWithdrawal, RequestWithdrawal
      <3> HIDE DEF p
      <3> QED BY <3>2 DEF RequestStep, TypeOK, VaultAccount
    <2>2. ASSUME FinalizeWithdrawal(v) PROVE RequestStep(w)
      BY <2>2 DEF FinalizeWithdrawal, RequestStep, TypeOK, VaultAccount
    <2>3. ASSUME ForceRelease(v) PROVE RequestStep(w)
      BY <2>3 DEF ForceRelease, RequestStep, TypeOK, VaultAccount
    <2> QED BY <1>1, <2>1, <2>2, <2>3 DEF WithdrawalsNext
  <1>2. ASSUME Environment \/ UNCHANGED vars PROVE RequestStep(w)
    BY <1>2 DEF Environment, Deposit, MasterSpend, Tick, vars, RequestStep
  <1> QED BY <1>1, <1>2, RequestsKept DEF Next, RequestStep

LEMMA LandedStep ==
  ASSUME TypeOK, LandedInv, [HistoryNext]_<<vars, observed>>
  PROVE  LandedInv'
  <1>1. [Next]_vars
    BY DEF HistoryNext
  <1>2. now' >= now /\ now \in Nat /\ now' \in Nat
    <2>1. TypeOK'
      BY <1>1, TypeStep
    <2>2. now' = now \/ Tick
      <3>1. ASSUME Environment PROVE now' = now \/ Tick
        BY <3>1 DEF Environment, Deposit, MasterSpend
      <3>2. ASSUME UNCHANGED vars PROVE now' = now
        BY <3>2 DEF vars
      <3> QED BY <1>1, <3>1, <3>2, ClockKept DEF Next
    <2> QED BY <2>1, <2>2 DEF TypeOK, Tick
  <1>3. SUFFICES ASSUME NEW v \in Vaults, vault'[v].pending_withdrawal # None
                 PROVE  /\ landed_at'[v] \in Nat
                        /\ landed_at'[v] <= now'
                        /\ landed_at'[v] - vault'[v].pending_withdrawal.requested_at <= Drift
    BY DEF LandedInv
  <1>4. CASE UNCHANGED <<vars, observed>>
    BY <1>2, <1>3, <1>4 DEF vars, observed, LandedInv
  <1>5. CASE HistoryNext
    <2>1. landed_at'[v] = IF vault'[v].pending_withdrawal = vault[v].pending_withdrawal
                          THEN landed_at[v] ELSE now
      BY <1>3, <1>5 DEF HistoryNext, ObserveRequests
    <2>2. CASE vault'[v].pending_withdrawal = vault[v].pending_withdrawal
      BY <1>2, <1>3, <2>1, <2>2 DEF LandedInv
    <2>3. CASE vault'[v].pending_withdrawal # vault[v].pending_withdrawal
      <3>1. now - vault'[v].pending_withdrawal.requested_at <= Drift
        BY <1>1, <1>3, <2>3, RequestSteps DEF RequestStep
      <3> QED BY <1>2, <2>1, <2>3, <3>1
    <2> QED BY <2>2, <2>3
  <1> QED BY <1>4, <1>5

\* Having waited n since the signature is having waited n - Drift since landing.
LEMMA WaitedSinceLanding ==
  ASSUME TypeOK, LandedInv, NEW v \in Vaults, vault[v].pending_withdrawal # None,
         NEW n \in Nat, Waited(v) >= n
  PROVE  now - landed_at[v] >= n - Drift
  <1>1. /\ vault[v].pending_withdrawal.requested_at \in Int
        /\ now \in Nat /\ Drift \in Nat
    BY ConstantsAssumption DEF TypeOK, VaultAccount, PendingWithdrawal
  <1>2. /\ landed_at[v] \in Nat /\ landed_at[v] <= now
        /\ landed_at[v] - vault[v].pending_withdrawal.requested_at <= Drift
    BY DEF LandedInv
  <1> QED BY <1>1, <1>2 DEF Waited, SaturatingSub

\* The payment follows the landing of the (last) request by the cooling-off, the
\* release of a tab by the grace, each less the drift request_withdrawal accepts:
\* for any clock, drift, delays and number of vaults.
THEOREM ExitWaits == HistorySpec => ExitWaitsForTheRequest
  <1>1. HistorySpec => Spec
    <2>1. HistoryInit => Init
      BY DEF HistoryInit
    <2>2. [HistoryNext]_<<vars, observed>> => [Next]_vars
      BY DEF HistoryNext
    <2> QED BY <2>1, <2>2, PTL DEF HistorySpec, Spec
  <1>2. HistoryInit => LandedInv
    BY DEF HistoryInit, Init, NewVault, LandedInv
  <1>3. TypeOK /\ LandedInv /\ [HistoryNext]_<<vars, observed>> => LandedInv'
    BY LandedStep
  <1>4. TypeOK /\ LandedInv =>
          \A v \in Vaults :
            /\ FinalizeWithdrawal(v) => now - landed_at[v] >= CoolingOff - Drift
            /\ ForceRelease(v) => now - landed_at[v] >= ForceReleaseGrace - Drift
    BY WaitedSinceLanding, ConstantsAssumption DEF FinalizeWithdrawal, ForceRelease
  <1> QED BY <1>1, <1>2, <1>3, <1>4, TypeCorrect, PTL
      DEF HistorySpec, ExitWaitsForTheRequest

-----------------------------------------------------------------------------
(***************************************************************************)
(* The patient buyer's exit.  Its steps are steps of the program, so every *)
(* theorem above holds of it; and nobody in it lends, draws or spends      *)
(* outside the program, so what a revoked vault can pay out never shrinks  *)
(* before the payment.                                                     *)
(***************************************************************************)

LEMMA PatientRequestIsOne ==
  ASSUME TypeOK, NEW v \in Vaults, PatientRequest(v)
  PROVE  Request(v)
  <1>1. PICK amount \in Amounts, signed_at \in now - Drift .. now + Drift :
          RequestWithdrawal(v, amount, signed_at)
    BY DEF PatientRequest
  <1>2. signed_at \in now - Drift - 1 .. now + Drift + 1
    BY ConstantsAssumption DEF TypeOK
  <1> QED BY <1>1, <1>2 DEF Request

LEMMA ExitStep ==
  ASSUME TypeOK, [ExitNext]_vars
  PROVE  [Next]_vars
  <1>1. ASSUME NEW v \in Vaults, BuyerActs(v) PROVE SessionsNext(v) \/ WithdrawalsNext(v)
    BY <1>1, PatientRequestIsOne DEF BuyerActs, SessionsNext, WithdrawalsNext
  <1>2. ASSUME NEW v \in Vaults, OthersAct(v)
        PROVE  SessionsNext(v) \/ VouchersNext(v) \/ LocksNext(v)
    BY <1>2 DEF OthersAct, SessionsNext
  <1>3. ASSUME NEW v \in Vaults, NEW amount \in Amounts, Deposit(v, amount) PROVE Environment
    BY <1>3 DEF Environment, Wallets
  <1> QED BY <1>1, <1>2, <1>3 DEF ExitNext, Next, Environment

\* Whatever holds of the program holds of the patient buyer's exit.
THEOREM ExitIsTheProgram == ExitSpec => Spec
  <1>1. TypeOK /\ [Next]_vars => TypeOK'
    BY TypeStep
  <1>2. TypeOK /\ [ExitNext]_vars => [Next]_vars
    BY ExitStep
  <1>3. Init => TypeOK
    BY TypeInit
  <1> QED BY <1>1, <1>2, <1>3, PTL DEF ExitSpec, Spec

LoansKept == \A u \in Vaults : vault'[u].borrowed = vault[u].borrowed

LEMMA NoLending ==
  ASSUME TypeOK, NEW v \in Vaults,
         SetSwig(v) \/ SessionsNext(v) \/ VouchersNext(v) \/ LocksNext(v) \/ WithdrawalsNext(v)
  PROVE  LoansKept
  <1> USE DEF TypeOK, VaultAccount, LoansKept
  <1>1. ASSUME SetSwig(v) PROVE LoansKept
    BY <1>1 DEF SetSwig
  <1>2. ASSUME SessionsNext(v) PROVE LoansKept
    <2>1. PICK n : vault' = vault \/ vault' = [vault EXCEPT ![v].live_session_count = n]
      BY <1>2 DEF SessionsNext, Register, RegisterSessionKey, RevokeSessionKey, CloseSession
    <2> QED BY <2>1
  <1>3. ASSUME VouchersNext(v) PROVE LoansKept
    <2>1. PICK n : vault' = [vault EXCEPT ![v].pending_voucher_count = n]
      BY <1>3 DEF VouchersNext, SettleVoucherOpen, SettleVoucherClose, SettleTabVoucher
    <2> QED BY <2>1
  <1>4. ASSUME WithdrawalsNext(v) PROVE LoansKept
    <2>1. ASSUME Request(v) \/ FinalizeWithdrawal(v) PROVE LoansKept
      <3>1. PICK p : vault' = [vault EXCEPT ![v].pending_withdrawal = p]
        BY <2>1 DEF Request, RequestWithdrawal, FinalizeWithdrawal
      <3> QED BY <3>1
    <2>2. ASSUME ForceRelease(v) PROVE LoansKept
      BY <2>2 DEF ForceRelease
    <2> HIDE DEF LoansKept
    <2> QED BY <1>4, <2>1, <2>2 DEF WithdrawalsNext
  <1>5. ASSUME NEW h \in Hashes, NEW c \in Counterparties, NEW maturity \in Deadlines,
               NEW recovery \in Deadlines, NEW holder \in Holders,
               LockVoucher(v, c, h, maturity, recovery, holder)
        PROVE  LoansKept
    BY <1>5 DEF LockVoucher
  <1>6. ASSUME NEW h \in Hashes, NEW holder \in Holders, SettleLockedVoucher(v, h, holder)
        PROVE  LoansKept
    BY <1>6 DEF SettleLockedVoucher
  <1>7. ASSUME NEW h \in Hashes, NEW holder \in Holders, NEW new_holder \in Holders,
               TransferLockOwnership(v, h, holder, new_holder)
        PROVE  LoansKept
    BY <1>7 DEF TransferLockOwnership
  <1>8. ASSUME NEW h \in Hashes, RecoverAbandonedLock(v, h) PROVE LoansKept
    BY <1>8 DEF RecoverAbandonedLock
  <1> HIDE DEF LoansKept
  <1> QED BY <1>1, <1>2, <1>3, <1>4, <1>5, <1>6, <1>7, <1>8 DEF LocksNext

\* While its withdrawal is pending nobody registers a session of w, and until it is
\* paid nobody touches the request.
ExitWaitsOn(w) ==
    /\ Registered(w) = {} => Registered(w)' = {}
    /\ vault'[w].pending_withdrawal = vault[w].pending_withdrawal
    /\ LoansKept
    /\ Registered(w) = {} => Unwinds(w)

LEMMA RegistryStands ==
  ASSUME NEW w \in Vaults, RegistryKept(w)
  PROVE  Registered(w)' = Registered(w)
  BY DEF RegistryKept, Registered

LEMMA ExitWaitsOnBuyer ==
  ASSUME TypeOK, TypeOK', NEW v \in Vaults, BuyerActs(v),
         NEW w \in Vaults, Pending(w), Pending(w)'
  PROVE  ExitWaitsOn(w)
  <1>1. ASSUME Register(v), ~Pending(v) PROVE ExitWaitsOn(w)
    <2>1. w # v
      BY <1>1
    <2>2. session'[w] = session[w]
      BY <1>1, <2>1 DEF Register, RegisterSessionKey, TypeOK
    <2>3. SessionsNext(v)
      BY <1>1 DEF SessionsNext
    <2>4. Registered(w)' = Registered(w)
      BY <2>2 DEF Registered
    <2> QED BY <2>3, <2>4, RequestsKept, NoLending, UnwindsBySessions DEF ExitWaitsOn
  <1>2. ASSUME NEW c \in Counterparties, RevokeSessionKey(v, c) PROVE ExitWaitsOn(w)
    <2>1. SessionsNext(v)
      BY <1>2 DEF SessionsNext
    <2>2. session' = [session EXCEPT ![v][c] = ClearedSession] /\ ClearedSession.version = 0
      BY <1>2 DEF RevokeSessionKey, ClearedSession
    <2>3. Registered(w) = {} => Registered(w)' = {}
      BY <2>2 DEF Registered, TypeOK
    <2> QED BY <2>1, <2>3, RequestsKept, NoLending, UnwindsBySessions DEF ExitWaitsOn
  <1>3. ASSUME PatientRequest(v) \/ FinalizeWithdrawal(v) \/ ForceRelease(v)
        PROVE  ExitWaitsOn(w)
    <2>1. WithdrawalsNext(v)
      BY <1>3, PatientRequestIsOne DEF WithdrawalsNext
    <2>2. vault'[w].pending_withdrawal = vault[w].pending_withdrawal
      <3>1. ASSUME PatientRequest(v) PROVE vault'[w] = vault[w]
        <4>1. w # v
          BY <3>1 DEF PatientRequest
        <4> QED BY <3>1, <4>1 DEF PatientRequest, RequestWithdrawal, TypeOK
      <3>2. ASSUME FinalizeWithdrawal(v) PROVE vault'[w] = vault[w]
        <4>1. w # v
          BY <3>2 DEF FinalizeWithdrawal, Pending, TypeOK, VaultAccount
        <4> QED BY <3>2, <4>1 DEF FinalizeWithdrawal, TypeOK
      <3>3. ASSUME ForceRelease(v)
            PROVE  vault'[w].pending_withdrawal = vault[w].pending_withdrawal
        BY <3>3 DEF ForceRelease, TypeOK, VaultAccount
      <3> QED BY <1>3, <3>1, <3>2, <3>3
    <2>3. Registered(w)' = Registered(w)
      BY <2>1, RegistryKeptByWithdrawals, RegistryStands
    <2> QED BY <2>1, <2>2, <2>3, NoLending, UnwindsByWithdrawals DEF ExitWaitsOn
  <1> QED BY <1>1, <1>2, <1>3 DEF BuyerActs

LEMMA ExitWaitsOnOthers ==
  ASSUME TypeOK, TypeOK', ClaimsInv, NEW v \in Vaults, SetSwig(v) \/ OthersAct(v),
         NEW w \in Vaults
  PROVE  ExitWaitsOn(w)
  <1>1. ASSUME SetSwig(v) PROVE ExitWaitsOn(w)
    BY <1>1, RequestsKept, NoLending, UnwindsBySessions, RegistryKeptByVouchers, RegistryStands
       DEF ExitWaitsOn
  <1>2. ASSUME VouchersNext(v) PROVE ExitWaitsOn(w)
    BY <1>2, RequestsKept, NoLending, UnwindsByVouchers, RegistryKeptByVouchers, RegistryStands
       DEF ExitWaitsOn
  <1>3. ASSUME LocksNext(v) PROVE ExitWaitsOn(w)
    BY <1>3, RequestsKept, NoLending, UnwindsByLocks, RegistryKeptByLocks, RegistryStands
       DEF ExitWaitsOn
  <1>4. ASSUME NEW c \in Counterparties, CloseSession(v, c) PROVE ExitWaitsOn(w)
    <2>1. SessionsNext(v)
      BY <1>4 DEF SessionsNext
    <2>2. session' = [session EXCEPT ![v][c] = VacantSession] /\ VacantSession.version = 0
      BY <1>4 DEF CloseSession, VacantSession, ClearedSession
    <2>3. Registered(w) = {} => Registered(w)' = {}
      BY <2>2 DEF Registered, TypeOK
    <2> QED BY <2>1, <2>3, RequestsKept, NoLending, UnwindsBySessions DEF ExitWaitsOn
  <1> QED BY <1>1, <1>2, <1>3, <1>4 DEF OthersAct

LEMMA ExitWaitsOnTheRest ==
  ASSUME TypeOK, TypeOK', NEW w \in Vaults,
         \/ \E v \in Vaults, amount \in Amounts : Deposit(v, amount)
         \/ Tick
         \/ UNCHANGED vars
  PROVE  ExitWaitsOn(w)
  <1>1. Unwinds(w)
    BY UnwindsByDeposit, UnwindsByIdling DEF Wallets
  <1>2. vault' = vault /\ session' = session
    BY DEF Deposit, Tick, vars
  <1> QED BY <1>1, <1>2 DEF ExitWaitsOn, LoansKept, Registered

LEMMA WayOpen ==
  ASSUME TypeOK, TypeOK', ClaimsInv, [ExitNext]_vars, NEW w \in Vaults,
         Registered(w) = {}, Pending(w), Affordable(w), Pending(w)'
  PROVE  Registered(w)' = {} /\ Affordable(w)'
  <1>1. ExitWaitsOn(w)
    BY ExitWaitsOnBuyer, ExitWaitsOnOthers, ExitWaitsOnTheRest DEF ExitNext
  <1>2. ~Spent(w)
    <2>1. \A u \in Vaults : ~(vault'[u].borrowed > vault[u].borrowed)
      BY <1>1, Amount DEF ExitWaitsOn, LoansKept
    <2> QED BY <2>1 DEF Spent, Pending
  <1>3. /\ ~(Headroom(w)' < Headroom(w))
        /\ vault'[w].borrowed = vault[w].borrowed
        /\ vault'[w].pending_withdrawal = vault[w].pending_withdrawal
        /\ Registered(w)' = {}
    BY <1>1, <1>2 DEF ExitWaitsOn, Unwinds, LoansKept
  <1>4. vault[w].pending_withdrawal.amount \in Nat
    BY DEF Pending, TypeOK, VaultAccount, PendingWithdrawal
  <1>5. /\ ata'[w] \in Nat /\ vault'[w].outstanding_locked_amount \in Nat
    BY DEF TypeOK, VaultAccount, Wallets
  <1>6. /\ ata[w] - vault[w].pending_withdrawal.amount
              >= vault[w].outstanding_locked_amount + vault[w].borrowed
    BY DEF Affordable, ReservedLeftBehind
  <1>7. /\ ata'[w] - vault[w].pending_withdrawal.amount
              >= vault'[w].outstanding_locked_amount + vault'[w].borrowed
    BY <1>3, <1>4, <1>5, <1>6, Amount DEF Headroom
  <1>8. /\ ata'[w] - vault[w].pending_withdrawal.amount >= vault'[w].outstanding_locked_amount
    BY <1>3, <1>4, <1>5, <1>7, Amount
  <1> QED BY <1>3, <1>7, <1>8 DEF Affordable, ReservedLeftBehind

\* A pending withdrawal the wallet can bear once the sessions are revoked can be
\* borne until it is paid: the safety half of the buyer's way out, for any number of
\* vaults, sessions, holders and claims and any delays.
THEOREM WayOut == ExitSpec => TheWayStaysOpen
  <1>1. Init => ClaimsInv
    BY ClaimsInit
  <1>2. TypeOK /\ ClaimsInv /\ [Next]_vars => ClaimsInv'
    BY ClaimsStep
  <1>3. ExitSpec => Spec
    BY ExitIsTheProgram
  <1>4. ExitSpec => [][ExitNext]_vars
    BY PTL DEF ExitSpec
  <1>5. TypeOK /\ TypeOK' /\ ClaimsInv /\ [ExitNext]_vars
            => [\A v \in Vaults :
                 Registered(v) = {} /\ Pending(v) /\ Affordable(v)
                    => ~Pending(v)' \/ (Registered(v)' = {} /\ Affordable(v)')]_vars
    BY WayOpen
  <1> QED BY <1>1, <1>2, <1>3, <1>4, <1>5, TypeCorrect, PTL
      DEF Spec, TheWayStaysOpen

=================================================================================
