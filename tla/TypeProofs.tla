------------------------------- MODULE TypeProofs -------------------------------
(***************************************************************************)
(* Type correctness of the whole program: whatever the instructions and    *)
(* their order, every account keeps its layout; in particular no u64 or    *)
(* counter ever goes below zero.                                           *)
(***************************************************************************)
EXTENDS DexterVault, TLAPS, FiniteSetTheorems

\* The accounts of a vault, field by field.
LEMMA VaultFields ==
  ASSUME TypeOK, NEW v \in Vaults
  PROVE  /\ vault[v] \in VaultAccount
         /\ vault[v].pending_voucher_count \in Nat
         /\ vault[v].live_session_count \in Nat
         /\ vault[v].outstanding_locked_amount \in Nat
         /\ vault[v].total_crystallized_amount \in Nat
         /\ vault[v].total_settled_amount \in Nat
         /\ vault[v].borrowed \in Nat
         /\ vault[v].standby_cap \in Nat
         /\ vault[v].standby_backer \in Financiers \cup {None}
         /\ vault[v].borrow_recovery_at \in Int \cup {None}
  BY DEF TypeOK, VaultAccount

LEMMA SessionFields ==
  ASSUME TypeOK, NEW v \in Vaults, NEW c \in Counterparties
  PROVE  /\ session[v][c] \in SessionAccount
         /\ session[v][c].spent \in Nat
         /\ session[v][c].current_outstanding \in Nat
         /\ session[v][c].crystallized_cumulative \in Nat
         /\ session[v][c].max_amount \in Nat
         /\ session[v][c].expires_at \in Int
         /\ session[v][c].version \in {0, 1}
  BY DEF TypeOK, SessionAccount

LEMMA ClaimFields ==
  ASSUME TypeOK, NEW v \in Vaults, NEW h \in Hashes
  PROVE  /\ claim[v][h] \in LockedClaim
         /\ claim[v][h].amount \in Nat
         /\ claim[v][h].status \in {"Vacant", "Pending", "Settled", "Abandoned"}
         /\ claim[v][h].maturity_at \in Int \cup {None}
         /\ claim[v][h].holder_recovery_at \in Int \cup {None}
  BY DEF TypeOK, LockedClaim

\* Sums, and subtractions that saturate, stay natural.
LEMMA AddType == ASSUME NEW a \in Nat, NEW b \in Nat PROVE a + b \in Nat
  OBVIOUS

LEMMA SaturatingSubType ==
  ASSUME NEW a \in Nat, NEW b \in Nat
  PROVE  SaturatingSub(a, b) \in Nat
  BY DEF SaturatingSub

\* Overwriting fields of an account, and an account in its map.
LEMMA VaultRecord ==
  ASSUME NEW r \in VaultAccount, NEW n \in Nat, NEW m \in Nat
  PROVE  /\ [r EXCEPT !.pending_voucher_count = n] \in VaultAccount
         /\ [r EXCEPT !.live_session_count = n] \in VaultAccount
         /\ [r EXCEPT !.outstanding_locked_amount = n] \in VaultAccount
         /\ [r EXCEPT !.outstanding_locked_amount = n,
                      !.total_crystallized_amount = m] \in VaultAccount
         /\ [r EXCEPT !.outstanding_locked_amount = n,
                      !.total_settled_amount = m] \in VaultAccount
  BY DEF VaultAccount

LEMMA SessionRecord ==
  ASSUME NEW r \in SessionAccount, NEW n \in Nat, NEW m \in Nat
  PROVE  /\ [r EXCEPT !.current_outstanding = n] \in SessionAccount
         /\ [r EXCEPT !.spent = n, !.current_outstanding = m] \in SessionAccount
         /\ [r EXCEPT !.current_outstanding = n, !.crystallized_cumulative = m]
                \in SessionAccount
  BY DEF SessionAccount

LEMMA PutVault ==
  ASSUME TypeOK, NEW v \in Vaults, NEW r \in VaultAccount,
         vault' = [vault EXCEPT ![v] = r]
  PROVE  vault' \in [Vaults -> VaultAccount]
  BY DEF TypeOK

LEMMA PutSession ==
  ASSUME TypeOK, NEW v \in Vaults, NEW c \in Counterparties, NEW r \in SessionAccount,
         session' = [session EXCEPT ![v][c] = r]
  PROVE  session' \in [Vaults -> [Counterparties -> SessionAccount]]
  BY DEF TypeOK

LEMMA PutClaim ==
  ASSUME TypeOK, NEW v \in Vaults, NEW h \in Hashes, NEW r \in LockedClaim,
         claim' = [claim EXCEPT ![v][h] = r]
  PROVE  claim' \in [Vaults -> [Hashes -> LockedClaim]]
  BY DEF TypeOK

LEMMA ClearedSessionType ==
  ClearedSession \in SessionAccount /\ VacantSession \in SessionAccount
  <1>1. ClearedSession \in SessionAccount
    BY DEF ClearedSession, SessionAccount
  <1>2. VacantSession \in SessionAccount
    BY <1>1 DEF VacantSession, SessionAccount
  <1> QED BY <1>1, <1>2

LEMMA TypeInit == Init => TypeOK
  <1> SUFFICES ASSUME Init PROVE TypeOK
    OBVIOUS
  <1>1. NewVault \in VaultAccount
    BY DEF NewVault, VaultAccount
  <1>3. VacantSession \in SessionAccount
    BY ClearedSessionType
  <1>4. VacantClaim \in LockedClaim
    BY DEF VacantClaim, LockedClaim
  <1>5. NoLedger \in StandbyBacker
    BY DEF NoLedger, StandbyBacker
  <1> QED BY <1>1, <1>3, <1>4, <1>5 DEF Init, TypeOK

LEMMA TypeEnvironment ==
  ASSUME TypeOK, Environment
  PROVE  TypeOK'
  <1>1. ASSUME NEW w \in Wallets, NEW amount \in Amounts, Deposit(w, amount)
        PROVE  TypeOK'
    BY <1>1, ConstantsAssumption DEF TypeOK, Deposit
  <1>2. ASSUME NEW v \in Vaults, NEW amount \in MasterSpends, MasterSpend(v, amount)
        PROVE  TypeOK'
    BY <1>2, ConstantsAssumption DEF TypeOK, MasterSpend, Pay, Wallets
  <1>3. ASSUME Tick PROVE TypeOK'
    BY <1>3, ConstantsAssumption DEF TypeOK, Tick
  <1> QED BY <1>1, <1>2, <1>3 DEF Environment

LEMMA TypeWithdrawals ==
  ASSUME TypeOK, NEW v \in Vaults, WithdrawalsNext(v)
  PROVE  TypeOK'
  <1>1. ASSUME Request(v) PROVE TypeOK'
    <2>1. PICK amount \in Amounts, signed_at \in now - Drift - 1 .. now + Drift + 1 :
            RequestWithdrawal(v, amount, signed_at)
      BY <1>1 DEF Request
    <2>2. [amount |-> amount, requested_at |-> signed_at] \in PendingWithdrawal
      BY ConstantsAssumption DEF TypeOK, PendingWithdrawal
    <2>3. vault' \in [Vaults -> VaultAccount]
      <3> DEFINE p == [amount |-> amount, requested_at |-> signed_at]
                 r == [vault[v] EXCEPT !.pending_withdrawal = p]
      <3> HIDE DEF p
      <3>0. p \in PendingWithdrawal
        BY <2>2 DEF p
      <3>1. r \in VaultAccount
        BY <3>0, VaultFields DEF VaultAccount
      <3>2. vault' = [vault EXCEPT ![v] = r]
        BY <2>1, VaultFields DEF RequestWithdrawal, VaultAccount, p
      <3> HIDE DEF r
      <3> QED BY <3>1, <3>2, PutVault
    <2> QED BY <2>1, <2>3 DEF TypeOK, RequestWithdrawal
  <1>2. ASSUME FinalizeWithdrawal(v) PROVE TypeOK'
    <2>1. vault[v].pending_withdrawal.amount \in Nat
      BY <1>2 DEF TypeOK, FinalizeWithdrawal, VaultAccount, PendingWithdrawal
    <2>2. vault' \in [Vaults -> VaultAccount]
      <3> DEFINE r == [vault[v] EXCEPT !.pending_withdrawal = None]
      <3>1. r \in VaultAccount
        BY VaultFields DEF VaultAccount
      <3>2. vault' = [vault EXCEPT ![v] = r]
        BY <1>2, VaultFields DEF FinalizeWithdrawal, VaultAccount
      <3> HIDE DEF r
      <3> QED BY <3>1, <3>2, PutVault
    <2>3. ata' \in [Wallets -> Nat]
      BY <1>2, <2>1 DEF TypeOK, FinalizeWithdrawal, Pay, Wallets
    <2> QED BY <1>2, <2>2, <2>3 DEF TypeOK, FinalizeWithdrawal
  <1>3. ASSUME ForceRelease(v) PROVE TypeOK'
    <2>1. vault[v].pending_voucher_count - 1 \in Nat
      BY <1>3, VaultFields DEF ForceRelease
    <2>2. vault' \in [Vaults -> VaultAccount]
      <3>1. [vault[v] EXCEPT !.pending_voucher_count = @ - 1] \in VaultAccount
        BY <2>1, VaultFields, VaultRecord
      <3> QED BY <1>3, <3>1, PutVault DEF ForceRelease
    <2> QED BY <1>3, <2>2 DEF TypeOK, ForceRelease
  <1> QED BY <1>1, <1>2, <1>3 DEF WithdrawalsNext

LEMMA TypeSessions ==
  ASSUME TypeOK, NEW v \in Vaults, SessionsNext(v)
  PROVE  TypeOK'
  <1>1. ASSUME NEW c \in Counterparties, NEW max_amount \in Amounts, NEW capacity \in Amounts,
               NEW expires_at \in 1 .. MaxTime + 1, NEW siblings \in SUBSET Counterparties,
               RegisterSessionKey(v, c, max_amount, capacity, expires_at, siblings)
        PROVE  TypeOK'
    <2> DEFINE swept == siblings \ {s \in siblings : IsLive(v, s)}
    <2>0. c \notin siblings
      BY <1>1 DEF RegisterSessionKey, RegistrationAdmitted, SiblingsDerived
    <2>1. Cardinality(swept) \in Nat
      BY ConstantsAssumption, FS_Subset, FS_CardinalityType
    <2>2. Cardinality(swept) <= vault[v].live_session_count
      BY <1>1 DEF RegisterSessionKey, RegistrationAdmitted
    <2>3. ResyncedCount(v, c, swept) \in Nat
      BY <2>1, <2>2, VaultFields DEF ResyncedCount
    <2>4. vault' \in [Vaults -> VaultAccount]
      <3>1. vault' = [vault EXCEPT ![v].live_session_count = ResyncedCount(v, c, swept)]
        BY <1>1 DEF RegisterSessionKey
      <3>2. [vault[v] EXCEPT !.live_session_count = ResyncedCount(v, c, swept)] \in VaultAccount
        BY <2>3, VaultFields, VaultRecord
      <3> QED BY <3>1, <3>2, PutVault
    <2>5. NewRegistration(c, max_amount, capacity, expires_at) \in SessionAccount
      BY ConstantsAssumption DEF NewRegistration, SessionAccount
    <2>6. session' \in [Vaults -> [Counterparties -> SessionAccount]]
      <3> DEFINE row == [s \in Counterparties |->
                CASE s = c        -> NewRegistration(c, max_amount, capacity, expires_at)
                  [] s \in swept  -> ClearedSession
                  [] OTHER        -> session[v][s]]
      <3>1. session' = [session EXCEPT ![v] = row]
        BY <1>1 DEF RegisterSessionKey
      <3>2. ASSUME NEW s \in Counterparties PROVE row[s] \in SessionAccount
        <4>1. CASE s = c
          BY <4>1, <2>0, <2>5
        <4>2. CASE s # c /\ s \in swept
          BY <4>2, ClearedSessionType
        <4>3. CASE s # c /\ s \notin swept
          BY <4>3, SessionFields
        <4> QED BY <4>1, <4>2, <4>3
      <3>3. row \in [Counterparties -> SessionAccount]
        BY <3>2
      <3> HIDE DEF row
      <3> QED BY <3>1, <3>3 DEF TypeOK
    <2> QED BY <1>1, <2>4, <2>6 DEF TypeOK, RegisterSessionKey
  <1>2. ASSUME NEW c \in Counterparties, RevokeSessionKey(v, c)
        PROVE  TypeOK'
    <2>1. vault[v].live_session_count - 1 \in Nat
      BY <1>2, VaultFields DEF RevokeSessionKey
    <2>2. vault' \in [Vaults -> VaultAccount]
      <3>1. [vault[v] EXCEPT !.live_session_count = @ - 1] \in VaultAccount
        BY <2>1, VaultFields, VaultRecord
      <3> QED BY <1>2, <3>1, PutVault DEF RevokeSessionKey
    <2>3. session' \in [Vaults -> [Counterparties -> SessionAccount]]
      BY <1>2, ClearedSessionType DEF TypeOK, RevokeSessionKey
    <2> QED BY <1>2, <2>2, <2>3 DEF TypeOK, RevokeSessionKey
  <1>3. ASSUME NEW c \in Counterparties, CloseSession(v, c)
        PROVE  TypeOK'
    BY <1>3, ClearedSessionType DEF TypeOK, CloseSession
  <1> QED BY <1>1, <1>2, <1>3 DEF SessionsNext, Register

LEMMA TypeVouchers ==
  ASSUME TypeOK, NEW v \in Vaults, VouchersNext(v)
  PROVE  TypeOK'
  <1>1. ASSUME NEW c \in Counterparties, NEW amount \in Amounts,
               SettleVoucherOpen(v, c, amount)
        PROVE  TypeOK'
    <2>1. session[v][c].current_outstanding + amount \in Nat
      BY SessionFields, ConstantsAssumption
    <2>2. session' \in [Vaults -> [Counterparties -> SessionAccount]]
      <3>1. [session[v][c] EXCEPT !.current_outstanding = @ + amount] \in SessionAccount
        BY <2>1, SessionFields, SessionRecord
      <3> QED BY <1>1, <3>1, PutSession DEF SettleVoucherOpen
    <2>3. vault' \in [Vaults -> VaultAccount]
      <3>1. vault[v].pending_voucher_count + 1 \in Nat
        BY VaultFields
      <3>2. [vault[v] EXCEPT !.pending_voucher_count = @ + 1] \in VaultAccount
        BY <3>1, VaultFields, VaultRecord
      <3> QED BY <1>1, <3>2, PutVault DEF SettleVoucherOpen
    <2> QED BY <1>1, <2>2, <2>3 DEF TypeOK, SettleVoucherOpen
  <1>2. ASSUME SettleVoucherClose(v) PROVE TypeOK'
    <2>1. vault[v].pending_voucher_count - 1 \in Nat
      BY <1>2, VaultFields DEF SettleVoucherClose
    <2>2. vault' \in [Vaults -> VaultAccount]
      <3>1. [vault[v] EXCEPT !.pending_voucher_count = @ - 1] \in VaultAccount
        BY <2>1, VaultFields, VaultRecord
      <3> QED BY <1>2, <3>1, PutVault DEF SettleVoucherClose
    <2> QED BY <1>2, <2>2 DEF TypeOK, SettleVoucherClose
  <1>3. ASSUME NEW c \in Counterparties, NEW cumulative \in Amounts,
               SettleTabVoucher(v, c, cumulative)
        PROVE  TypeOK'
    <2> DEFINE increment == cumulative - session[v][c].spent
    <2>1. cumulative \in Nat /\ increment \in Nat
      BY <1>3, SessionFields, ConstantsAssumption
         DEF SettleTabVoucher, VoucherAccepted, Frontier, Larger
    <2>2. SaturatingSub(session[v][c].current_outstanding, increment) \in Nat
      BY <2>1, SessionFields, SaturatingSubType
    <2>3. SaturatingSub(vault[v].pending_voucher_count, 1) \in Nat
      BY VaultFields, SaturatingSubType
    <2>4. session' \in [Vaults -> [Counterparties -> SessionAccount]]
      <3> DEFINE r == [session[v][c] EXCEPT
                !.spent = cumulative,
                !.current_outstanding = SaturatingSub(@, increment)]
      <3>1. r \in SessionAccount
        BY <2>1, <2>2, SessionFields, SessionRecord
      <3>2. session' = [session EXCEPT ![v][c] = r]
        BY <1>3, SessionFields DEF SettleTabVoucher, TypeOK, SessionAccount
      <3> HIDE DEF r
      <3> QED BY <3>1, <3>2, PutSession
    <2>5. vault' \in [Vaults -> VaultAccount]
      <3>1. [vault[v] EXCEPT !.pending_voucher_count = SaturatingSub(@, 1)] \in VaultAccount
        BY <2>3, VaultFields, VaultRecord
      <3> QED BY <1>3, <3>1, PutVault DEF SettleTabVoucher
    <2>6. ata' \in [Wallets -> Nat]
      BY <1>3, <2>1 DEF TypeOK, SettleTabVoucher, Pay, Wallets
    <2> QED BY <1>3, <2>4, <2>5, <2>6 DEF TypeOK, SettleTabVoucher
  <1> QED BY <1>1, <1>2, <1>3 DEF VouchersNext

LEMMA TypeLocks ==
  ASSUME TypeOK, NEW v \in Vaults, LocksNext(v)
  PROVE  TypeOK'
  <1>1. ASSUME NEW h \in Hashes, NEW c \in Counterparties, NEW maturity \in Deadlines,
               NEW recovery \in Deadlines, NEW holder \in Holders,
               LockVoucher(v, c, h, maturity, recovery, holder)
        PROVE  TypeOK'
    <2> DEFINE delta == h[2] - session[v][c].crystallized_cumulative
               lock  == [status |-> "Pending", amount |-> delta,
                         maturity_at |-> maturity, holder_recovery_at |-> recovery,
                         current_holder |-> holder]
    <2>1. delta \in Nat
      <3>1. h[2] \in Nat
        BY ConstantsAssumption DEF Hashes
      <3>2. delta > 0
        BY <1>1 DEF LockVoucher
      <3> QED BY <3>1, <3>2, SessionFields
    <2>2. lock \in LockedClaim
      BY <2>1, ConstantsAssumption DEF LockedClaim
    <2>3. SaturatingSub(session[v][c].current_outstanding, delta) \in Nat
      BY <2>1, SessionFields, SaturatingSubType
    <2>4. session' \in [Vaults -> [Counterparties -> SessionAccount]]
      <3> DEFINE r == [session[v][c] EXCEPT
                !.current_outstanding = SaturatingSub(@, delta),
                !.crystallized_cumulative = @ + delta]
      <3> HIDE DEF delta
      <3>1. session[v][c].crystallized_cumulative + delta \in Nat
        BY <2>1, SessionFields, AddType, Zenon
      <3> USE DEF delta
      <3>2. r \in SessionAccount
        BY <2>3, <3>1, SessionFields, SessionRecord
      <3>3. session' = [session EXCEPT ![v][c] = r]
        BY <1>1, SessionFields DEF LockVoucher, TypeOK, SessionAccount
      <3> HIDE DEF r
      <3> QED BY <3>2, <3>3, PutSession
    <2>5. vault' \in [Vaults -> VaultAccount]
      <3> DEFINE r == [vault[v] EXCEPT
                !.outstanding_locked_amount = @ + delta,
                !.total_crystallized_amount = @ + delta]
      <3>1. /\ vault[v].outstanding_locked_amount + delta \in Nat
            /\ vault[v].total_crystallized_amount + delta \in Nat
        BY <2>1, VaultFields, AddType, Zenon
      <3>2. r \in VaultAccount
        BY <3>1, VaultFields, VaultRecord
      <3>3. vault' = [vault EXCEPT ![v] = r]
        BY <1>1, VaultFields DEF LockVoucher, TypeOK, VaultAccount
      <3> HIDE DEF r
      <3> QED BY <3>2, <3>3, PutVault
    <2>6. claim' \in [Vaults -> [Hashes -> LockedClaim]]
      <3>1. claim' = [claim EXCEPT ![v][h] = lock]
        BY <1>1 DEF LockVoucher
      <3> HIDE DEF lock
      <3> QED BY <2>2, <3>1 DEF TypeOK
    <2> QED BY <1>1, <2>4, <2>5, <2>6 DEF TypeOK, LockVoucher
  <1>2. ASSUME NEW h \in Hashes, NEW holder \in Holders, SettleLockedVoucher(v, h, holder)
        PROVE  TypeOK'
    <2>1. SaturatingSub(vault[v].outstanding_locked_amount, claim[v][h].amount) \in Nat
      BY VaultFields, ClaimFields, SaturatingSubType
    <2>2. vault' \in [Vaults -> VaultAccount]
      <3> DEFINE r == [vault[v] EXCEPT
                !.outstanding_locked_amount = SaturatingSub(@, claim[v][h].amount),
                !.total_settled_amount = @ + claim[v][h].amount]
      <3>1. vault[v].total_settled_amount + claim[v][h].amount \in Nat
        BY VaultFields, ClaimFields, AddType, Zenon
      <3>2. r \in VaultAccount
        BY <2>1, <3>1, VaultFields, VaultRecord
      <3>3. vault' = [vault EXCEPT ![v] = r]
        BY <1>2, VaultFields DEF SettleLockedVoucher, TypeOK, VaultAccount
      <3> HIDE DEF r
      <3> QED BY <3>2, <3>3, PutVault
    <2>3. claim' \in [Vaults -> [Hashes -> LockedClaim]]
      <3>1. [claim[v][h] EXCEPT !.status = "Settled"] \in LockedClaim
        BY ClaimFields DEF LockedClaim
      <3> QED BY <1>2, <3>1, PutClaim DEF SettleLockedVoucher
    <2>4. ata' \in [Wallets -> Nat]
      BY <1>2, ClaimFields DEF TypeOK, SettleLockedVoucher, Pay, Wallets
    <2> QED BY <1>2, <2>2, <2>3, <2>4 DEF TypeOK, SettleLockedVoucher
  <1>3. ASSUME NEW h \in Hashes, NEW holder \in Holders, NEW new_holder \in Holders,
               TransferLockOwnership(v, h, holder, new_holder)
        PROVE  TypeOK'
    <2>1. [claim[v][h] EXCEPT !.current_holder = new_holder] \in LockedClaim
      BY ClaimFields DEF LockedClaim
    <2>2. claim' \in [Vaults -> [Hashes -> LockedClaim]]
      BY <1>3, <2>1, PutClaim DEF TransferLockOwnership
    <2> QED BY <1>3, <2>2 DEF TypeOK, TransferLockOwnership
  <1>4. ASSUME NEW h \in Hashes, RecoverAbandonedLock(v, h)
        PROVE  TypeOK'
    <2>1. SaturatingSub(vault[v].outstanding_locked_amount, claim[v][h].amount) \in Nat
      BY VaultFields, ClaimFields, SaturatingSubType
    <2>2. vault' \in [Vaults -> VaultAccount]
      <3>1. [vault[v] EXCEPT !.outstanding_locked_amount = SaturatingSub(@, claim[v][h].amount)] \in VaultAccount
        BY <2>1, VaultFields, VaultRecord
      <3> QED BY <1>4, <3>1, PutVault DEF RecoverAbandonedLock
    <2>3. claim' \in [Vaults -> [Hashes -> LockedClaim]]
      <3>1. [claim[v][h] EXCEPT !.status = "Abandoned"] \in LockedClaim
        BY ClaimFields DEF LockedClaim
      <3> QED BY <1>4, <3>1, PutClaim DEF RecoverAbandonedLock
    <2> QED BY <1>4, <2>2, <2>3 DEF TypeOK, RecoverAbandonedLock
  <1> QED BY <1>1, <1>2, <1>3, <1>4 DEF LocksNext

LEMMA TypeStandby ==
  ASSUME TypeOK, NEW v \in Vaults, StandbyNext(v)
  PROVE  TypeOK'
  <1> USE DEF TypeOK
  <1>1. ASSUME NEW f \in Financiers, NEW amount \in Amounts, SetStandbyReserve(f, amount)
        PROVE  TypeOK'
    <2>1. ledger' \in [Financiers -> StandbyBacker]
      BY <1>1, ConstantsAssumption DEF SetStandbyReserve, StandbyBacker
    <2> QED BY <1>1, <2>1 DEF SetStandbyReserve
  <1>2. ASSUME NEW f \in Financiers, NEW cap \in Amounts, OpenStandby(v, f, cap)
        PROVE  TypeOK'
    <2>1. OldCap(v) \in Nat /\ cap \in Nat /\ ledger[f].aggregate_promised \in Nat
      BY VaultFields, ConstantsAssumption DEF OldCap, StandbyBacker
    <2>2. ledger' \in [Financiers -> StandbyBacker]
      <3>1. CASE cap >= OldCap(v)
        <4>1. ledger[f].aggregate_promised + (cap - OldCap(v)) \in Nat
          BY <2>1, <3>1
        <4>2. ledger' = [ledger EXCEPT ![f].aggregate_promised = @ + (cap - OldCap(v))]
          BY <1>2, <2>1, <3>1 DEF OpenStandby
        <4> QED BY <4>1, <4>2 DEF StandbyBacker
      <3>2. CASE ~(cap >= OldCap(v))
        <4>1. SaturatingSub(ledger[f].aggregate_promised, OldCap(v) - cap) \in Nat
          <5>1. OldCap(v) - cap \in Nat
            BY <2>1, <3>2
          <5> QED BY <2>1, <5>1, SaturatingSubType
        <4>2. ledger' = [ledger EXCEPT ![f].aggregate_promised =
                             SaturatingSub(@, OldCap(v) - cap)]
          BY <1>2, <2>1, <3>2 DEF OpenStandby
        <4> QED BY <4>1, <4>2 DEF StandbyBacker
      <3> QED BY <3>1, <3>2
    <2>3. vault' \in [Vaults -> VaultAccount]
      <3> DEFINE r == [vault[v] EXCEPT !.standby_backer = f, !.standby_cap = cap]
      <3>1. r \in VaultAccount
        BY <2>1, VaultFields DEF VaultAccount
      <3>2. vault' = [vault EXCEPT ![v] = r]
        BY <1>2, VaultFields DEF OpenStandby, VaultAccount
      <3> HIDE DEF r
      <3> QED BY <3>1, <3>2, PutVault
    <2> QED BY <1>2, <2>2, <2>3 DEF OpenStandby
  <1>3. ASSUME NEW f \in Financiers, NEW amount \in Amounts, NEW window \in Windows,
               DrawCredit(v, f, amount, window)
        PROVE  TypeOK'
    <2>1. amount \in Nat /\ vault[v].borrowed + amount \in Nat
      BY VaultFields, ConstantsAssumption
    <2>2. ArmedDeadline(v, window) \in Int \cup {None}
      BY VaultFields, ConstantsAssumption DEF ArmedDeadline
    <2>3. vault' \in [Vaults -> VaultAccount]
      <3> DEFINE r == [vault[v] EXCEPT !.borrowed = @ + amount,
                                       !.borrow_recovery_at = ArmedDeadline(v, window)]
      <3>1. r \in VaultAccount
        BY <2>1, <2>2, VaultFields DEF VaultAccount
      <3>2. vault' = [vault EXCEPT ![v] = r]
        BY <1>3, VaultFields DEF DrawCredit, VaultAccount
      <3> HIDE DEF r
      <3> QED BY <3>1, <3>2, PutVault
    <2>4. ata' \in [Wallets -> Nat]
      BY <1>3, <2>1 DEF DrawCredit, Pay, Wallets
    <2> QED BY <1>3, <2>3, <2>4 DEF DrawCredit
  <1>4. ASSUME NEW f \in Financiers, NEW amount \in Amounts, RepayCredit(v, f, amount)
        PROVE  TypeOK'
    <2> DEFINE repay == Smaller(amount, vault[v].borrowed)
               left  == vault[v].borrowed - repay
    <2>1. repay \in Nat /\ left \in Nat
      BY VaultFields, ConstantsAssumption DEF Smaller
    <2>2. vault' \in [Vaults -> VaultAccount]
      <3> DEFINE deadline == IF left = 0 THEN None ELSE vault[v].borrow_recovery_at
                 r == [vault[v] EXCEPT !.borrowed = left, !.borrow_recovery_at = deadline]
      <3>1. deadline \in Int \cup {None}
        BY VaultFields
      <3>2. r \in VaultAccount
        <4> HIDE DEF left, deadline
        <4> QED BY <2>1, <3>1, VaultFields DEF VaultAccount
      <3>3. vault' = [vault EXCEPT ![v] = r]
        BY <1>4, VaultFields DEF RepayCredit, VaultAccount
      <3> HIDE DEF r
      <3> QED BY <3>2, <3>3, PutVault
    <2>3. ata' \in [Wallets -> Nat]
      <3>1. PayTo(v, f, repay)
        BY <1>4 DEF RepayCredit
      <3> HIDE DEF repay
      <3> QED BY <2>1, <3>1 DEF PayTo, Wallets
    <2> QED BY <1>4, <2>2, <2>3 DEF RepayCredit
  <1>5. ASSUME NEW f \in Financiers, SeizeCollateral(v, f)
        PROVE  TypeOK'
    <2>1. vault' \in [Vaults -> VaultAccount]
      <3> DEFINE r == [vault[v] EXCEPT !.borrowed = 0, !.borrow_recovery_at = None]
      <3>1. r \in VaultAccount
        BY VaultFields DEF VaultAccount
      <3>2. vault' = [vault EXCEPT ![v] = r]
        BY <1>5, VaultFields DEF SeizeCollateral, VaultAccount
      <3> HIDE DEF r
      <3> QED BY <3>1, <3>2, PutVault
    <2>2. ata' \in [Wallets -> Nat]
      <3>1. PayTo(v, f, vault[v].borrowed) /\ vault[v].borrowed \in Nat
        BY <1>5, VaultFields DEF SeizeCollateral
      <3> QED BY <3>1 DEF PayTo, Wallets
    <2> QED BY <1>5, <2>1, <2>2 DEF SeizeCollateral
  <1>6. ASSUME NEW f \in Financiers, CloseStandby(v, f)
        PROVE  TypeOK'
    <2>1. SaturatingSub(ledger[f].aggregate_promised, vault[v].standby_cap) \in Nat
      <3>1. ledger[f].aggregate_promised \in Nat
        BY DEF StandbyBacker
      <3> QED BY <3>1, VaultFields, SaturatingSubType
    <2>2. ledger' \in [Financiers -> StandbyBacker]
      <3>1. [ledger[f] EXCEPT !.aggregate_promised =
                 SaturatingSub(@, vault[v].standby_cap)] \in StandbyBacker
        BY <2>1 DEF StandbyBacker
      <3> QED BY <1>6, <3>1 DEF CloseStandby
    <2>3. vault' \in [Vaults -> VaultAccount]
      <3> DEFINE r == [vault[v] EXCEPT !.standby_backer = None, !.standby_cap = 0]
      <3>1. r \in VaultAccount
        BY VaultFields DEF VaultAccount
      <3>2. vault' = [vault EXCEPT ![v] = r]
        BY <1>6, VaultFields DEF CloseStandby, VaultAccount
      <3> HIDE DEF r
      <3> QED BY <3>1, <3>2, PutVault
    <2> QED BY <1>6, <2>2, <2>3 DEF CloseStandby
  <1> QED BY <1>1, <1>2, <1>3, <1>4, <1>5, <1>6 DEF StandbyNext

LEMMA TypeStep == TypeOK /\ [Next]_vars => TypeOK'
  <1> SUFFICES ASSUME TypeOK, [Next]_vars PROVE TypeOK'
    OBVIOUS
  <1>1. ASSUME NEW v \in Vaults, SetSwig(v) PROVE TypeOK'
    <2>1. [vault[v] EXCEPT !.swig_bound = TRUE] \in VaultAccount
      BY VaultFields DEF VaultAccount
    <2>2. vault' \in [Vaults -> VaultAccount]
      BY <1>1, <2>1, PutVault DEF SetSwig
    <2> QED BY <1>1, <2>2 DEF SetSwig, TypeOK
  <1>2. CASE UNCHANGED vars
    BY <1>2 DEF vars, TypeOK
  <1> QED
    BY <1>1, <1>2, TypeEnvironment, TypeSessions, TypeVouchers, TypeLocks,
       TypeWithdrawals, TypeStandby
    DEF Next

\* Every account keeps its layout (state.rs) in every reachable state: no counter
\* and no amount of any instruction, in any order, goes below zero.
THEOREM TypeCorrect == Spec => []TypeOK
  <1>1. Init => TypeOK
    BY TypeInit
  <1>2. TypeOK /\ [Next]_vars => TypeOK'
    BY TypeStep
  <1> QED BY <1>1, <1>2, PTL DEF Spec

\* Sessions are touched by their own instructions, by tabs and by locks only.
LEMMA SessionsUntouched ==
  ASSUME NEW v \in Vaults, SetSwig(v) \/ WithdrawalsNext(v) \/ StandbyNext(v)
  PROVE  session' = session
  <1>1. ASSUME SetSwig(v) PROVE session' = session
    BY <1>1 DEF SetSwig
  <1>2. ASSUME WithdrawalsNext(v) PROVE session' = session
    BY <1>2 DEF WithdrawalsNext, Request, RequestWithdrawal, FinalizeWithdrawal, ForceRelease
  <1>3. ASSUME StandbyNext(v) PROVE session' = session
    BY <1>3 DEF StandbyNext, SetStandbyReserve, OpenStandby, DrawCredit, RepayCredit,
        SeizeCollateral, CloseStandby
  <1> QED BY <1>1, <1>2, <1>3

=================================================================================
