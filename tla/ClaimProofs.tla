------------------------------- MODULE ClaimProofs -------------------------------
(***************************************************************************)
(* Vouchers and the claims made of them, for any number of vouchers,       *)
(* sessions, holders and vaults: the reservation and the lifetime          *)
(* odometers of a vault are the sums of its claims, the program implements *)
(* ClaimBook, a claim's maturity comes before its recovery, and a voucher  *)
(* is spent once.                                                          *)
(***************************************************************************)
EXTENDS TypeProofs, SumsProofs

Locked(v) == Hashes \ WithStatus(v, "Vacant")

\* The inductive invariant, per vault: only finitely many units were ever locked
\* (so the sums are numbers), and the three fields are the three sums.
VaultSums(v) ==
    /\ IsFiniteSet(Units(ClaimAmounts(v), Locked(v)))
    /\ vault[v].outstanding_locked_amount = Total(ClaimAmounts(v), WithStatus(v, "Pending"))
    /\ vault[v].total_settled_amount = Total(ClaimAmounts(v), WithStatus(v, "Settled"))
    /\ vault[v].total_crystallized_amount = Total(ClaimAmounts(v), Locked(v))

ClaimsInv == \A v \in Vaults : VaultSums(v)

\* What a step leaves alone when it is not about the claims of vault v.
ReservationKept(v) ==
    /\ claim'[v] = claim[v]
    /\ vault'[v].outstanding_locked_amount = vault[v].outstanding_locked_amount
    /\ vault'[v].total_settled_amount = vault[v].total_settled_amount
    /\ vault'[v].total_crystallized_amount = vault[v].total_crystallized_amount

LEMMA KeptSums ==
  ASSUME NEW v \in Vaults, VaultSums(v), ReservationKept(v)
  PROVE  VaultSums(v)'
  BY DEF VaultSums, ReservationKept, Locked, WithStatus, ClaimAmounts

LEMMA ClaimsInit == Init => ClaimsInv
  <1> SUFFICES ASSUME Init, NEW v \in Vaults PROVE VaultSums(v)
    BY DEF ClaimsInv
  <1>1. claim[v] = [h \in Hashes |-> VacantClaim] /\ vault[v] = NewVault
    BY DEF Init
  <1>2. /\ Locked(v) = {}
        /\ WithStatus(v, "Pending") = {}
        /\ WithStatus(v, "Settled") = {}
    BY <1>1 DEF Locked, WithStatus, VacantClaim
  <1> QED BY <1>1, <1>2, TotalEmpty DEF VaultSums, NewVault

LEMMA KeptByEnvironment ==
  ASSUME TypeOK, Environment, NEW w \in Vaults
  PROVE  ReservationKept(w)
  BY DEF Environment, Deposit, MasterSpend, Tick, ReservationKept

LEMMA KeptBySessions ==
  ASSUME TypeOK, NEW v \in Vaults, SessionsNext(v) \/ SetSwig(v), NEW w \in Vaults
  PROVE  ReservationKept(w)
  <1>1. ASSUME SetSwig(v) PROVE ReservationKept(w)
    BY <1>1, VaultFields DEF TypeOK, VaultAccount, SetSwig, ReservationKept
  <1>2. ASSUME NEW c \in Counterparties, NEW max_amount \in Amounts, NEW capacity \in Amounts,
               NEW expires_at \in 1 .. MaxTime + 1, NEW siblings \in SUBSET Counterparties,
               RegisterSessionKey(v, c, max_amount, capacity, expires_at, siblings)
        PROVE  ReservationKept(w)
    <2>1. PICK n : vault' = [vault EXCEPT ![v].live_session_count = n]
      BY <1>2 DEF RegisterSessionKey
    <2>2. claim' = claim
      BY <1>2 DEF RegisterSessionKey
    <2> QED BY <2>1, <2>2, VaultFields DEF TypeOK, VaultAccount, ReservationKept
  <1>3. ASSUME NEW c \in Counterparties, RevokeSessionKey(v, c) PROVE ReservationKept(w)
    BY <1>3, VaultFields DEF TypeOK, VaultAccount, RevokeSessionKey, ReservationKept
  <1>4. ASSUME NEW c \in Counterparties, CloseSession(v, c) PROVE ReservationKept(w)
    BY <1>4 DEF CloseSession, ReservationKept
  <1> QED BY <1>1, <1>2, <1>3, <1>4 DEF SessionsNext, Register

LEMMA KeptByVouchers ==
  ASSUME TypeOK, NEW v \in Vaults, VouchersNext(v), NEW w \in Vaults
  PROVE  ReservationKept(w)
  <1> USE VaultFields DEF TypeOK, VaultAccount, ReservationKept
  <1>1. ASSUME NEW c \in Counterparties, NEW amount \in Amounts, SettleVoucherOpen(v, c, amount)
        PROVE  ReservationKept(w)
    BY <1>1 DEF SettleVoucherOpen
  <1>2. ASSUME SettleVoucherClose(v) PROVE ReservationKept(w)
    BY <1>2 DEF SettleVoucherClose
  <1>3. ASSUME NEW c \in Counterparties, NEW amount \in Amounts, SettleTabVoucher(v, c, amount)
        PROVE  ReservationKept(w)
    BY <1>3 DEF SettleTabVoucher
  <1> QED BY <1>1, <1>2, <1>3 DEF VouchersNext

LEMMA KeptByWithdrawals ==
  ASSUME TypeOK, NEW v \in Vaults, WithdrawalsNext(v), NEW w \in Vaults
  PROVE  ReservationKept(w)
  <1> USE VaultFields DEF TypeOK, VaultAccount, ReservationKept
  <1>1. ASSUME NEW amount, NEW signed_at, RequestWithdrawal(v, amount, signed_at)
        PROVE  ReservationKept(w)
    BY <1>1 DEF RequestWithdrawal
  <1>2. ASSUME FinalizeWithdrawal(v) PROVE ReservationKept(w)
    BY <1>2 DEF FinalizeWithdrawal
  <1>3. ASSUME ForceRelease(v) PROVE ReservationKept(w)
    BY <1>3 DEF ForceRelease
  <1> QED BY <1>1, <1>2, <1>3 DEF WithdrawalsNext, Request

LEMMA KeptByStandby ==
  ASSUME TypeOK, NEW v \in Vaults, StandbyNext(v), NEW w \in Vaults
  PROVE  ReservationKept(w)
  <1> USE VaultFields DEF TypeOK, VaultAccount, ReservationKept
  <1>1. ASSUME NEW f \in Financiers, NEW amount \in Amounts, SetStandbyReserve(f, amount)
        PROVE  ReservationKept(w)
    BY <1>1 DEF SetStandbyReserve
  <1>2. ASSUME NEW f \in Financiers, NEW cap \in Amounts, OpenStandby(v, f, cap)
        PROVE  ReservationKept(w)
    BY <1>2 DEF OpenStandby
  <1>3. ASSUME NEW f \in Financiers, NEW amount \in Amounts, NEW window \in Windows,
               DrawCredit(v, f, amount, window)
        PROVE  ReservationKept(w)
    BY <1>3 DEF DrawCredit
  <1>4. ASSUME NEW f \in Financiers, NEW amount \in Amounts, RepayCredit(v, f, amount)
        PROVE  ReservationKept(w)
    BY <1>4 DEF RepayCredit
  <1>5. ASSUME NEW f \in Financiers, SeizeCollateral(v, f) PROVE ReservationKept(w)
    BY <1>5 DEF SeizeCollateral
  <1>6. ASSUME NEW f \in Financiers, CloseStandby(v, f) PROVE ReservationKept(w)
    BY <1>6 DEF CloseStandby
  <1> QED BY <1>1, <1>2, <1>3, <1>4, <1>5, <1>6 DEF StandbyNext

\* Finiteness of the whole gives finiteness of the parts.
LEMMA PartsFinite ==
  ASSUME NEW v \in Vaults, VaultSums(v)
  PROVE  /\ IsFiniteSet(Units(ClaimAmounts(v), WithStatus(v, "Pending")))
         /\ IsFiniteSet(Units(ClaimAmounts(v), WithStatus(v, "Settled")))
  <1>1. WithStatus(v, "Pending") \in SUBSET Locked(v) /\ WithStatus(v, "Settled") \in SUBSET Locked(v)
    BY DEF WithStatus, Locked
  <1> QED BY <1>1, TotalPart DEF VaultSums

\* A new claim enters the pending and the locked sums with its delta.
LEMMA SumsLock ==
  ASSUME TypeOK, NEW v \in Vaults, VaultSums(v), NEW h \in Hashes, NEW c \in Counterparties,
         NEW maturity \in Deadlines, NEW recovery \in Deadlines, NEW holder \in Holders,
         LockVoucher(v, c, h, maturity, recovery, holder)
  PROVE  VaultSums(v)'
  <1> DEFINE delta == h[2] - session[v][c].crystallized_cumulative
             f == ClaimAmounts(v)
             g == ClaimAmounts(v)'
             P == WithStatus(v, "Pending")
             S == WithStatus(v, "Settled")
             L == Locked(v)
  <1>1. claim[v][h].status = "Vacant"
    BY DEF LockVoucher
  <1>2. delta \in Nat
    <2>1. h[2] \in Nat /\ delta > 0
      BY ConstantsAssumption DEF Hashes, LockVoucher
    <2> QED BY <2>1, SessionFields
  <1>3. /\ \A k \in Hashes \ {h} : claim'[v][k] = claim[v][k]
        /\ claim'[v][h].status = "Pending"
        /\ claim'[v][h].amount = delta
    BY DEF LockVoucher, TypeOK
  <1>4. /\ vault'[v].outstanding_locked_amount = vault[v].outstanding_locked_amount + delta
        /\ vault'[v].total_crystallized_amount = vault[v].total_crystallized_amount + delta
        /\ vault'[v].total_settled_amount = vault[v].total_settled_amount
    BY VaultFields DEF LockVoucher, TypeOK, VaultAccount
  <1>5. /\ h \notin P /\ h \notin S /\ h \notin L
        /\ WithStatus(v, "Pending")' = P \cup {h}
        /\ WithStatus(v, "Settled")' = S
        /\ Locked(v)' = L \cup {h}
    BY <1>1, <1>3 DEF WithStatus, Locked
  <1>6. /\ g[h] = delta
        /\ \A k \in P : g[k] = f[k]
        /\ \A k \in S : g[k] = f[k]
        /\ \A k \in L : g[k] = f[k]
    BY <1>3, <1>5 DEF ClaimAmounts, WithStatus, Locked
  <1> HIDE DEF delta, f, g, P, S, L
  <1>7. IsFiniteSet(Units(f, P)) /\ IsFiniteSet(Units(f, L))
    BY PartsFinite DEF f, P, L, VaultSums
  <1>8. /\ Units(g, P) = Units(f, P) /\ Total(g, P) = Total(f, P)
        /\ Total(g, S) = Total(f, S)
        /\ Units(g, L) = Units(f, L) /\ Total(g, L) = Total(f, L)
    BY <1>6, TotalCongruence
  <1>9. Total(g, P \cup {h}) = Total(f, P) + delta
    <2>1. h \notin P /\ g[h] \in Nat /\ IsFiniteSet(Units(g, P))
      BY <1>2, <1>5, <1>6, <1>7, <1>8
    <2>2. Total(g, P \cup {h}) = Total(g, P) + g[h]
      BY <2>1, TotalAdd
    <2> QED BY <2>2, <1>6, <1>8
  <1>10. /\ IsFiniteSet(Units(g, L \cup {h}))
         /\ Total(g, L \cup {h}) = Total(f, L) + delta
    <2>1. h \notin L /\ g[h] \in Nat /\ IsFiniteSet(Units(g, L))
      BY <1>2, <1>5, <1>6, <1>7, <1>8
    <2>2. /\ IsFiniteSet(Units(g, L \cup {h}))
          /\ Total(g, L \cup {h}) = Total(g, L) + g[h]
      BY <2>1, TotalAdd
    <2> QED BY <2>2, <1>6, <1>8
  <1>11. /\ vault[v].outstanding_locked_amount = Total(f, P)
         /\ vault[v].total_settled_amount = Total(f, S)
         /\ vault[v].total_crystallized_amount = Total(f, L)
    BY DEF VaultSums, f, P, S, L
  <1> QED BY <1>4, <1>5, <1>8, <1>9, <1>10, <1>11 DEF VaultSums, g

\* A settled claim moves from the pending to the settled sum.
LEMMA SumsSettle ==
  ASSUME TypeOK, NEW v \in Vaults, VaultSums(v), NEW h \in Hashes, NEW holder \in Holders,
         SettleLockedVoucher(v, h, holder)
  PROVE  VaultSums(v)'
  <1> DEFINE f == ClaimAmounts(v)
             P == WithStatus(v, "Pending")
             S == WithStatus(v, "Settled")
             L == Locked(v)
  <1>1. claim[v][h].status = "Pending"
    BY DEF SettleLockedVoucher, Settleable
  <1>2. claim' = [claim EXCEPT ![v][h].status = "Settled"]
    BY DEF SettleLockedVoucher
  <1>3. /\ \A k \in Hashes \ {h} : claim'[v][k] = claim[v][k]
        /\ claim'[v][h].status = "Settled"
        /\ claim'[v][h].amount = claim[v][h].amount
    BY <1>2 DEF TypeOK, LockedClaim
  <1>4. /\ vault'[v].outstanding_locked_amount =
               SaturatingSub(vault[v].outstanding_locked_amount, claim[v][h].amount)
        /\ vault'[v].total_crystallized_amount = vault[v].total_crystallized_amount
        /\ vault'[v].total_settled_amount = vault[v].total_settled_amount + claim[v][h].amount
    BY VaultFields DEF SettleLockedVoucher, TypeOK, VaultAccount
  <1>5. /\ h \in P /\ h \notin S
        /\ WithStatus(v, "Pending")' = P \ {h}
        /\ WithStatus(v, "Settled")' = S \cup {h}
        /\ Locked(v)' = L
    BY <1>1, <1>3 DEF WithStatus, Locked
  <1>6. ClaimAmounts(v)' = f /\ f[h] = claim[v][h].amount
    BY <1>3 DEF ClaimAmounts
  <1> HIDE DEF f, P, S, L
  <1>7. IsFiniteSet(Units(f, P)) /\ IsFiniteSet(Units(f, S)) /\ IsFiniteSet(Units(f, L))
    BY PartsFinite DEF f, P, S, L, VaultSums
  <1>8. f[h] \in Nat
    BY <1>6, ClaimFields
  <1>9. Total(f, P \ {h}) = Total(f, P) - f[h] /\ f[h] <= Total(f, P)
    BY <1>5, <1>7, <1>8, TotalRemove
  <1>10. Total(f, S \cup {h}) = Total(f, S) + f[h]
    BY <1>5, <1>7, <1>8, TotalAdd
  <1>11. /\ vault[v].outstanding_locked_amount = Total(f, P)
         /\ vault[v].total_settled_amount = Total(f, S)
         /\ vault[v].total_crystallized_amount = Total(f, L)
    BY DEF VaultSums, f, P, S, L
  <1>12. vault'[v].outstanding_locked_amount = Total(f, P \ {h})
    BY <1>4, <1>6, <1>8, <1>9, <1>11, VaultFields DEF SaturatingSub
  <1> QED BY <1>4, <1>5, <1>6, <1>7, <1>10, <1>11, <1>12 DEF VaultSums

\* A recovered claim leaves the pending sum.
LEMMA SumsRecover ==
  ASSUME TypeOK, NEW v \in Vaults, VaultSums(v), NEW h \in Hashes, RecoverAbandonedLock(v, h)
  PROVE  VaultSums(v)'
  <1> DEFINE f == ClaimAmounts(v)
             P == WithStatus(v, "Pending")
             S == WithStatus(v, "Settled")
             L == Locked(v)
  <1>1. claim[v][h].status = "Pending"
    BY DEF RecoverAbandonedLock
  <1>2. claim' = [claim EXCEPT ![v][h].status = "Abandoned"]
    BY DEF RecoverAbandonedLock
  <1>3. /\ \A k \in Hashes \ {h} : claim'[v][k] = claim[v][k]
        /\ claim'[v][h].status = "Abandoned"
        /\ claim'[v][h].amount = claim[v][h].amount
    BY <1>2 DEF TypeOK, LockedClaim
  <1>4. /\ vault'[v].outstanding_locked_amount =
               SaturatingSub(vault[v].outstanding_locked_amount, claim[v][h].amount)
        /\ vault'[v].total_crystallized_amount = vault[v].total_crystallized_amount
        /\ vault'[v].total_settled_amount = vault[v].total_settled_amount
    BY VaultFields DEF RecoverAbandonedLock, TypeOK, VaultAccount
  <1>5. /\ h \in P
        /\ WithStatus(v, "Pending")' = P \ {h}
        /\ WithStatus(v, "Settled")' = S
        /\ Locked(v)' = L
    BY <1>1, <1>3 DEF WithStatus, Locked
  <1>6. ClaimAmounts(v)' = f /\ f[h] = claim[v][h].amount
    BY <1>3 DEF ClaimAmounts
  <1> HIDE DEF f, P, S, L
  <1>7. IsFiniteSet(Units(f, P)) /\ IsFiniteSet(Units(f, L))
    BY PartsFinite DEF f, P, L, VaultSums
  <1>8. f[h] \in Nat
    BY <1>6, ClaimFields
  <1>9. Total(f, P \ {h}) = Total(f, P) - f[h] /\ f[h] <= Total(f, P)
    BY <1>5, <1>7, <1>8, TotalRemove
  <1>10. /\ vault[v].outstanding_locked_amount = Total(f, P)
         /\ vault[v].total_settled_amount = Total(f, S)
         /\ vault[v].total_crystallized_amount = Total(f, L)
    BY DEF VaultSums, f, P, S, L
  <1>11. vault'[v].outstanding_locked_amount = Total(f, P \ {h})
    BY <1>4, <1>6, <1>8, <1>9, <1>10, VaultFields DEF SaturatingSub
  <1> QED BY <1>4, <1>5, <1>6, <1>7, <1>10, <1>11 DEF VaultSums

\* A transferred claim stays pending with its amount.
LEMMA SumsTransfer ==
  ASSUME TypeOK, NEW v \in Vaults, VaultSums(v), NEW h \in Hashes, NEW holder \in Holders,
         NEW new_holder \in Holders, TransferLockOwnership(v, h, holder, new_holder)
  PROVE  VaultSums(v)'
  <1>1. vault' = vault /\ claim' = [claim EXCEPT ![v][h].current_holder = new_holder]
    BY DEF TransferLockOwnership
  <1>2. \A k \in Hashes : /\ claim'[v][k].status = claim[v][k].status
                          /\ claim'[v][k].amount = claim[v][k].amount
    BY <1>1 DEF TypeOK, LockedClaim
  <1>3. /\ \A status : WithStatus(v, status)' = WithStatus(v, status)
        /\ ClaimAmounts(v)' = ClaimAmounts(v)
    BY <1>2 DEF WithStatus, ClaimAmounts
  <1> QED BY <1>1, <1>3 DEF VaultSums, Locked

LEMMA ClaimsByLocks ==
  ASSUME TypeOK, ClaimsInv, NEW v \in Vaults, LocksNext(v)
  PROVE  ClaimsInv'
  <1>1. VaultSums(v)'
    BY SumsLock, SumsSettle, SumsRecover, SumsTransfer DEF LocksNext, ClaimsInv
  <1>2. ASSUME NEW w \in Vaults, w # v PROVE ReservationKept(w)
    <2>1. vault'[w] = vault[w] /\ claim'[w] = claim[w]
      <3>1. ASSUME NEW h \in Hashes, NEW c \in Counterparties, NEW maturity \in Deadlines,
                   NEW recovery \in Deadlines, NEW holder \in Holders,
                   LockVoucher(v, c, h, maturity, recovery, holder)
            PROVE  vault'[w] = vault[w] /\ claim'[w] = claim[w]
        BY <1>2, <3>1 DEF LockVoucher, TypeOK
      <3>2. ASSUME NEW h \in Hashes, NEW holder \in Holders, SettleLockedVoucher(v, h, holder)
            PROVE  vault'[w] = vault[w] /\ claim'[w] = claim[w]
        BY <1>2, <3>2 DEF SettleLockedVoucher, TypeOK
      <3>3. ASSUME NEW h \in Hashes, RecoverAbandonedLock(v, h)
            PROVE  vault'[w] = vault[w] /\ claim'[w] = claim[w]
        BY <1>2, <3>3 DEF RecoverAbandonedLock, TypeOK
      <3>4. ASSUME NEW h \in Hashes, NEW holder \in Holders, NEW new_holder \in Holders,
                   TransferLockOwnership(v, h, holder, new_holder)
            PROVE  vault'[w] = vault[w] /\ claim'[w] = claim[w]
        BY <1>2, <3>4 DEF TransferLockOwnership, TypeOK
      <3> QED BY <3>1, <3>2, <3>3, <3>4 DEF LocksNext
    <2> QED BY <2>1 DEF ReservationKept
  <1> QED BY <1>1, <1>2, KeptSums DEF ClaimsInv

LEMMA ClaimsStep == TypeOK /\ ClaimsInv /\ [Next]_vars => ClaimsInv'
  <1> SUFFICES ASSUME TypeOK, ClaimsInv, [Next]_vars PROVE ClaimsInv'
    OBVIOUS
  <1>1. ASSUME \A w \in Vaults : ReservationKept(w) PROVE ClaimsInv'
    BY <1>1, KeptSums DEF ClaimsInv
  <1>2. ASSUME NEW v \in Vaults,
               SetSwig(v) \/ SessionsNext(v) \/ VouchersNext(v) \/ WithdrawalsNext(v)
                   \/ StandbyNext(v)
        PROVE  ClaimsInv'
    BY <1>1, <1>2, KeptBySessions, KeptByVouchers, KeptByWithdrawals, KeptByStandby
  <1>3. CASE Environment
    BY <1>1, <1>3, KeptByEnvironment
  <1>4. CASE UNCHANGED vars
    BY <1>1, <1>4 DEF vars, ReservationKept
  <1> QED BY <1>2, <1>3, <1>4, ClaimsByLocks DEF Next

\* outstanding_locked_amount is the sum of the claims still pending, whatever
\* interleaving of lock_voucher, settle_locked_voucher, transfer_lock_ownership
\* and recover_abandoned_lock produced them, for any set of vouchers.
THEOREM ReservationIsExact == Spec => []LockedIsPendingSum
  <1>1. Init => ClaimsInv
    BY ClaimsInit
  <1>2. TypeOK /\ ClaimsInv /\ [Next]_vars => ClaimsInv'
    BY ClaimsStep
  <1>3. ClaimsInv => LockedIsPendingSum
    BY DEF ClaimsInv, VaultSums, LockedIsPendingSum
  <1> QED BY <1>1, <1>2, <1>3, TypeCorrect, PTL DEF Spec

\* total_crystallized_amount and total_settled_amount account for every claim ever
\* created and every claim settled, each once.
THEOREM OdometersAreExact == Spec => []OdometersAccountForClaims
  <1>1. Init => ClaimsInv
    BY ClaimsInit
  <1>2. TypeOK /\ ClaimsInv /\ [Next]_vars => ClaimsInv'
    BY ClaimsStep
  <1>3. ClaimsInv => OdometersAccountForClaims
    BY DEF ClaimsInv, VaultSums, OdometersAccountForClaims, Locked
  <1> QED BY <1>1, <1>2, <1>3, TypeCorrect, PTL DEF Spec

-----------------------------------------------------------------------------
(***************************************************************************)
(* The program implements ClaimBook.  The exact sums are what makes the    *)
(* refinement true: a saturating subtraction is the abstract one because   *)
(* no claim exceeds the reservation it is part of.                         *)
(***************************************************************************)

Reserved == [v \in Vaults |-> vault[v].outstanding_locked_amount]
SettledTotals == [v \in Vaults |-> vault[v].total_settled_amount]

\* A step that ClaimBook does not see.
BookKept == claim' = claim /\ Reserved' = Reserved /\ SettledTotals' = SettledTotals

LEMMA KeptBook ==
  ASSUME TypeOK, TypeOK', \A w \in Vaults : ReservationKept(w)
  PROVE  BookKept
  <1>1. claim' = claim
    BY DEF TypeOK, ReservationKept
  <1> QED BY <1>1 DEF BookKept, Reserved, SettledTotals, ReservationKept

\* Time passes in Tick only.
LEMMA ClockKept ==
  ASSUME NEW v \in Vaults,
         SetSwig(v) \/ SessionsNext(v) \/ VouchersNext(v) \/ WithdrawalsNext(v)
             \/ StandbyNext(v) \/ LocksNext(v)
  PROVE  now' = now
  <1>1. ASSUME SetSwig(v) \/ SessionsNext(v) PROVE now' = now
    BY <1>1 DEF SetSwig, SessionsNext, Register, RegisterSessionKey, RevokeSessionKey, CloseSession
  <1>2. ASSUME VouchersNext(v) PROVE now' = now
    BY <1>2 DEF VouchersNext, SettleVoucherOpen, SettleVoucherClose, SettleTabVoucher
  <1>3. ASSUME WithdrawalsNext(v) PROVE now' = now
    BY <1>3 DEF WithdrawalsNext, Request, RequestWithdrawal, FinalizeWithdrawal, ForceRelease
  <1>4. ASSUME StandbyNext(v) PROVE now' = now
    BY <1>4 DEF StandbyNext, SetStandbyReserve, OpenStandby, DrawCredit, RepayCredit,
        SeizeCollateral, CloseStandby
  <1>5. ASSUME LocksNext(v) PROVE now' = now
    <2>1. ASSUME NEW h \in Hashes, NEW c \in Counterparties, NEW maturity \in Deadlines,
                 NEW recovery \in Deadlines, NEW holder \in Holders,
                 LockVoucher(v, c, h, maturity, recovery, holder)
          PROVE  now' = now
      BY <2>1, Zenon DEF LockVoucher
    <2>2. ASSUME NEW h \in Hashes, NEW holder \in Holders, SettleLockedVoucher(v, h, holder)
          PROVE  now' = now
      BY <2>2, Zenon DEF SettleLockedVoucher
    <2>3. ASSUME NEW h \in Hashes, NEW holder \in Holders, NEW new_holder \in Holders,
                 TransferLockOwnership(v, h, holder, new_holder)
          PROVE  now' = now
      BY <2>3 DEF TransferLockOwnership
    <2>4. ASSUME NEW h \in Hashes, RecoverAbandonedLock(v, h)
          PROVE  now' = now
      BY <2>4, Zenon DEF RecoverAbandonedLock
    <2> QED BY <1>5, <2>1, <2>2, <2>3, <2>4 DEF LocksNext
  <1> QED BY <1>1, <1>2, <1>3, <1>4, <1>5

\* A pending claim is part of the reservation, so subtracting it does not saturate.
LEMMA ClaimWithinReservation ==
  ASSUME TypeOK, NEW v \in Vaults, VaultSums(v), NEW h \in Hashes, claim[v][h].status = "Pending"
  PROVE  SaturatingSub(vault[v].outstanding_locked_amount, claim[v][h].amount)
           = vault[v].outstanding_locked_amount - claim[v][h].amount
  <1> DEFINE f == ClaimAmounts(v)
             P == WithStatus(v, "Pending")
  <1>1. h \in P /\ f[h] = claim[v][h].amount /\ f[h] \in Nat
    BY ClaimFields DEF WithStatus, ClaimAmounts
  <1>2. IsFiniteSet(Units(f, P)) /\ vault[v].outstanding_locked_amount = Total(f, P)
    BY PartsFinite DEF VaultSums
  <1> HIDE DEF f, P
  <1>3. f[h] <= Total(f, P)
    BY <1>1, <1>2, TotalRemove
  <1> QED BY <1>1, <1>2, <1>3, VaultFields DEF SaturatingSub

LEMMA BookOpen ==
  ASSUME TypeOK, NEW v \in Vaults, NEW h \in Hashes, NEW c \in Counterparties,
         NEW maturity \in Deadlines, NEW recovery \in Deadlines, NEW holder \in Holders,
         LockVoucher(v, c, h, maturity, recovery, holder)
  PROVE  Book!Open(v, h)
  <1> DEFINE delta == h[2] - session[v][c].crystallized_cumulative
             k == [status |-> "Pending", amount |-> delta, maturity_at |-> maturity,
                   holder_recovery_at |-> recovery, current_holder |-> holder]
  <1>1. /\ claim[v][h].status = "Vacant"
        /\ claim' = [claim EXCEPT ![v][h] = k]
        /\ now' = now
        /\ delta > 0
    BY DEF LockVoucher
  <1>2. claim'[v][h] = k
    BY <1>1 DEF TypeOK
  <1>3. maturity # None /\ recovery # None => maturity < recovery
    BY ConstantsAssumption DEF LockVoucher, DeadlinesOrdered
  <1>4. /\ Reserved' = [Reserved EXCEPT ![v] = @ + delta]
        /\ SettledTotals' = SettledTotals
    BY VaultFields DEF LockVoucher, TypeOK, VaultAccount, Reserved, SettledTotals
  <1>5. /\ claim'[v][h].status = "Pending"
        /\ claim'[v][h].amount = delta
        /\ claim'[v][h].maturity_at = maturity
        /\ claim'[v][h].holder_recovery_at = recovery
    BY <1>2
  <1>6. claim' = [claim EXCEPT ![v][h] = claim'[v][h]]
    BY <1>1, <1>2
  <1>7. Reserved' = [Reserved EXCEPT ![v] = @ + claim'[v][h].amount]
    BY <1>4, <1>5
  <1> HIDE DEF delta, k
  <1>8. claim'[v][h].amount > 0
    BY <1>1, <1>5
  <1>9. claim'[v][h].maturity_at # None /\ claim'[v][h].holder_recovery_at # None
            => claim'[v][h].maturity_at < claim'[v][h].holder_recovery_at
    BY <1>3, <1>5
  <1>10. Book!Enter(v, h, claim'[v][h])
    BY <1>6 DEF Book!Enter
  <1>11. UNCHANGED <<SettledTotals, now>>
    BY <1>1, <1>4
  <1> QED BY <1>1, <1>5, <1>7, <1>8, <1>9, <1>10, <1>11, Zenon DEF Book!Open, Reserved, SettledTotals

LEMMA BookTransfer ==
  ASSUME TypeOK, NEW v \in Vaults, NEW h \in Hashes, NEW holder \in Holders,
         NEW new_holder \in Holders, TransferLockOwnership(v, h, holder, new_holder)
  PROVE  Book!Transfer(v, h)
  <1>1. /\ claim[v][h].status = "Pending"
        /\ claim' = [claim EXCEPT ![v][h].current_holder = new_holder]
        /\ vault' = vault /\ now' = now
    BY DEF TransferLockOwnership
  <1>2. claim' = [claim EXCEPT ![v][h] = [claim[v][h] EXCEPT !.current_holder = new_holder]]
    BY <1>1 DEF TypeOK
  <1> QED BY <1>1, <1>2 DEF Book!Transfer, Book!Enter

LEMMA BookSettle ==
  ASSUME TypeOK, NEW v \in Vaults, VaultSums(v), NEW h \in Hashes, NEW holder \in Holders,
         SettleLockedVoucher(v, h, holder)
  PROVE  Book!Settle(v, h)
  <1>1. /\ claim[v][h].status = "Pending"
        /\ claim[v][h].maturity_at # None => now >= claim[v][h].maturity_at
        /\ claim' = [claim EXCEPT ![v][h].status = "Settled"]
        /\ now' = now
    BY DEF SettleLockedVoucher, Settleable
  <1>2. claim' = [claim EXCEPT ![v][h] = [claim[v][h] EXCEPT !.status = "Settled"]]
    BY <1>1 DEF TypeOK
  <1>3. /\ Reserved' = [Reserved EXCEPT ![v] = @ - claim[v][h].amount]
        /\ SettledTotals' = [SettledTotals EXCEPT ![v] = @ + claim[v][h].amount]
    <2>1. vault' = [vault EXCEPT
              ![v].outstanding_locked_amount = SaturatingSub(@, claim[v][h].amount),
              ![v].total_settled_amount = @ + claim[v][h].amount]
      BY DEF SettleLockedVoucher
    <2> QED BY <1>1, <2>1, ClaimWithinReservation DEF TypeOK, VaultAccount, Reserved, SettledTotals
  <1> QED BY <1>1, <1>2, <1>3 DEF Book!Settle, Book!Enter, Reserved, SettledTotals

LEMMA BookRecover ==
  ASSUME TypeOK, NEW v \in Vaults, VaultSums(v), NEW h \in Hashes, RecoverAbandonedLock(v, h)
  PROVE  Book!Recover(v, h)
  <1>1. /\ claim[v][h].status = "Pending"
        /\ claim[v][h].holder_recovery_at # None
        /\ now >= claim[v][h].holder_recovery_at
        /\ claim' = [claim EXCEPT ![v][h].status = "Abandoned"]
        /\ now' = now
    BY DEF RecoverAbandonedLock
  <1>2. claim' = [claim EXCEPT ![v][h] = [claim[v][h] EXCEPT !.status = "Abandoned"]]
    BY <1>1 DEF TypeOK
  <1>3. /\ Reserved' = [Reserved EXCEPT ![v] = @ - claim[v][h].amount]
        /\ SettledTotals' = SettledTotals
    <2>1. vault' = [vault EXCEPT
              ![v].outstanding_locked_amount = SaturatingSub(@, claim[v][h].amount)]
      BY DEF RecoverAbandonedLock
    <2> QED BY <1>1, <2>1, ClaimWithinReservation DEF TypeOK, VaultAccount, Reserved, SettledTotals
  <1> QED BY <1>1, <1>2, <1>3 DEF Book!Recover, Book!Enter, Reserved, SettledTotals

LEMMA BookStep ==
  TypeOK /\ TypeOK' /\ ClaimsInv /\ [Next]_vars
      => [Book!Next]_<<claim, Reserved, SettledTotals, now>>
  <1> SUFFICES ASSUME TypeOK, TypeOK', ClaimsInv, [Next]_vars
               PROVE  Book!Next \/ UNCHANGED <<claim, Reserved, SettledTotals, now>>
    OBVIOUS
  <1>1. ASSUME NEW v \in Vaults, LocksNext(v) PROVE Book!Next
    BY <1>1, BookOpen, BookTransfer, BookSettle, BookRecover
       DEF LocksNext, Book!Next, ClaimsInv
  <1>2. ASSUME NEW v \in Vaults,
               SetSwig(v) \/ SessionsNext(v) \/ VouchersNext(v) \/ WithdrawalsNext(v)
                   \/ StandbyNext(v)
        PROVE  UNCHANGED <<claim, Reserved, SettledTotals, now>>
    <2>1. \A w \in Vaults : ReservationKept(w)
      BY <1>2, KeptBySessions, KeptByVouchers, KeptByWithdrawals, KeptByStandby
    <2> QED BY <1>2, <2>1, KeptBook, ClockKept DEF BookKept
  <1>3. ASSUME Environment
        PROVE  Book!Next \/ UNCHANGED <<claim, Reserved, SettledTotals, now>>
    <2>1. BookKept
      BY <1>3, KeptByEnvironment, KeptBook
    <2>2. now' = now \/ now' > now
      BY <1>3 DEF Environment, Deposit, MasterSpend, Tick, TypeOK
    <2> QED BY <2>1, <2>2 DEF BookKept, Book!Next, Book!Tick, Reserved, SettledTotals
  <1>4. CASE UNCHANGED vars
    BY <1>4 DEF vars, Reserved, SettledTotals
  <1> QED BY <1>1, <1>2, <1>3, <1>4 DEF Next

\* Whatever the rest of the program does, its claims behave as ClaimBook promises:
\* lock_voucher, transfer_lock_ownership, settle_locked_voucher and
\* recover_abandoned_lock are the abstract operations, every other instruction
\* leaves the book alone, and outstanding_locked_amount never saturates.
THEOREM ClaimBookIsImplemented == Spec => ImplementsClaimBook
  <1>1. Init => Book!Init
    BY DEF Init, Book!Init, NewVault, VacantClaim
  <1>2. TypeOK /\ TypeOK' /\ ClaimsInv /\ [Next]_vars => [Book!Next]_<<claim, Reserved, SettledTotals, now>>
    BY BookStep
  <1>3. Init => ClaimsInv
    BY ClaimsInit
  <1>4. TypeOK /\ ClaimsInv /\ [Next]_vars => ClaimsInv'
    BY ClaimsStep
  <1> QED BY <1>1, <1>2, <1>3, <1>4, TypeCorrect, PTL
      DEF Spec, ImplementsClaimBook, Book!Spec, Reserved, SettledTotals

-----------------------------------------------------------------------------
(***************************************************************************)
(* Maturity before recovery.  RecoveryFollowsMaturity alone is not         *)
(* inductive: nothing in it orders the deadlines of a claim whose recovery *)
(* is still ahead.  The steps are ClaimBook's, so the rest of the program  *)
(* is not looked at again.                                                 *)
(***************************************************************************)

OrderedClaim(k) ==
    /\ k.status = "Pending" /\ k.maturity_at # None /\ k.holder_recovery_at # None
           => k.maturity_at < k.holder_recovery_at
    /\ k.status = "Abandoned" => k.holder_recovery_at # None /\ now >= k.holder_recovery_at

DeadlinesInv == \A v \in Vaults, h \in Hashes : OrderedClaim(claim[v][h])

LEMMA DeadlinesStep ==
  ASSUME TypeOK, TypeOK', DeadlinesInv,
         [Book!Next]_<<claim, Reserved, SettledTotals, now>>
  PROVE  DeadlinesInv'
  <1> SUFFICES ASSUME NEW w \in Vaults, NEW g \in Hashes
               PROVE  OrderedClaim(claim[w][g])'
    BY DEF DeadlinesInv
  <1> DEFINE k == claim[w][g]
  <1>1. /\ OrderedClaim(k)
        /\ k.maturity_at \in Int \cup {None} /\ k.holder_recovery_at \in Int \cup {None}
        /\ k \in LockedClaim
        /\ now \in Nat
    BY ClaimFields DEF DeadlinesInv, TypeOK
  <1>2. now' \in Nat
    BY DEF TypeOK
  <1>3. ASSUME k' = k, now' >= now PROVE OrderedClaim(k)'
    BY <1>1, <1>2, <1>3, ConstantsAssumption DEF OrderedClaim
  <1>4. ASSUME NEW v \in Vaults, NEW h \in Hashes, NEW new, <<v, h>> # <<w, g>>,
               Book!Enter(v, h, new), now' = now
        PROVE  OrderedClaim(k)'
    <2>1. k' = k
      BY <1>4 DEF Book!Enter, TypeOK
    <2> QED BY <1>1, <1>3, <1>4, <2>1
  <1>5. ASSUME NEW new, Book!Enter(w, g, new) PROVE k' = new
    BY <1>5 DEF Book!Enter, TypeOK
  <1>6. ASSUME NEW v \in Vaults, NEW h \in Hashes, Book!Open(v, h)
        PROVE  OrderedClaim(k)'
    <2>1. CASE <<v, h>> # <<w, g>>
      BY <1>4, <1>6, <2>1 DEF Book!Open
    <2>2. CASE v = w /\ h = g
      BY <1>6, <2>2 DEF Book!Open, OrderedClaim
    <2> QED BY <2>1, <2>2
  <1>7. ASSUME NEW v \in Vaults, NEW h \in Hashes, Book!Transfer(v, h)
        PROVE  OrderedClaim(k)'
    <2> PICK holder \in Holders :
            Book!Enter(v, h, [claim[v][h] EXCEPT !.current_holder = holder])
      BY <1>7 DEF Book!Transfer
    <2>1. CASE <<v, h>> # <<w, g>>
      BY <1>4, <1>7, <2>1 DEF Book!Transfer
    <2>2. CASE v = w /\ h = g
      <3>1. k' = [k EXCEPT !.current_holder = holder]
        BY <1>5, <2>2
      <3> QED BY <1>1, <1>7, <3>1 DEF Book!Transfer, OrderedClaim, LockedClaim
    <2> QED BY <2>1, <2>2
  <1>8. ASSUME NEW v \in Vaults, NEW h \in Hashes, Book!Settle(v, h)
        PROVE  OrderedClaim(k)'
    <2>1. CASE <<v, h>> # <<w, g>>
      BY <1>4, <1>8, <2>1 DEF Book!Settle
    <2>2. CASE v = w /\ h = g
      <3>1. k' = [k EXCEPT !.status = "Settled"]
        BY <1>5, <1>8, <2>2 DEF Book!Settle
      <3> QED BY <1>1, <3>1 DEF OrderedClaim, LockedClaim
    <2> QED BY <2>1, <2>2
  <1>9. ASSUME NEW v \in Vaults, NEW h \in Hashes, Book!Recover(v, h)
        PROVE  OrderedClaim(k)'
    <2>1. CASE <<v, h>> # <<w, g>>
      BY <1>4, <1>9, <2>1 DEF Book!Recover
    <2>2. CASE v = w /\ h = g
      <3>1. k' = [k EXCEPT !.status = "Abandoned"]
        BY <1>5, <1>9, <2>2 DEF Book!Recover
      <3> QED BY <1>1, <1>9, <2>2, <3>1 DEF Book!Recover, OrderedClaim, LockedClaim
    <2> QED BY <2>1, <2>2
  <1>10. ASSUME Book!Tick PROVE OrderedClaim(k)'
    BY <1>1, <1>2, <1>3, <1>10 DEF Book!Tick
  <1>11. ASSUME UNCHANGED <<claim, Reserved, SettledTotals, now>> PROVE OrderedClaim(k)'
    BY <1>1, <1>3, <1>11
  <1> HIDE DEF k
  <1>12. OrderedClaim(k)'
    BY <1>6, <1>7, <1>8, <1>9, <1>10, <1>11 DEF Book!Next
  <1> QED BY <1>12 DEF k

\* The holder's settle_locked_voucher is possible strictly before the buyer's
\* recover_abandoned_lock, and a claim is abandoned only after the deadline it
\* carries: lock_voucher orders the two and no later step of anyone moves them.
THEOREM RecoveryComesSecond == Spec => []RecoveryFollowsMaturity
  <1>1. Init => DeadlinesInv
    BY DEF Init, DeadlinesInv, OrderedClaim, VacantClaim
  <1>2. TypeOK /\ TypeOK' /\ ClaimsInv /\ DeadlinesInv /\ [Next]_vars => DeadlinesInv'
    BY BookStep, DeadlinesStep
  <1>3. TypeOK /\ DeadlinesInv => RecoveryFollowsMaturity
    <2> SUFFICES ASSUME TypeOK, DeadlinesInv, NEW v \in Vaults, NEW h \in Hashes
                 PROVE  LET k == claim[v][h]
                        IN  /\ k.status = "Pending" /\ k.holder_recovery_at # None
                                   /\ now >= k.holder_recovery_at
                               => (k.maturity_at # None => now > k.maturity_at)
                            /\ k.status = "Abandoned" =>
                                   k.holder_recovery_at # None /\ now >= k.holder_recovery_at
      BY DEF RecoveryFollowsMaturity
    <2> QED BY ClaimFields DEF DeadlinesInv, OrderedClaim, TypeOK
  <1>4. Init => ClaimsInv
    BY ClaimsInit
  <1>5. TypeOK /\ ClaimsInv /\ [Next]_vars => ClaimsInv'
    BY ClaimsStep
  <1> QED BY <1>1, <1>2, <1>3, <1>4, <1>5, TypeCorrect, PTL DEF Spec

-----------------------------------------------------------------------------
(***************************************************************************)
(* A voucher is spent once.  The frontier max(spent, crystallized) of a    *)
(* session moves in four ways: not at all, back to zero with no token and  *)
(* no claim moved, or strictly up when a tab is paid or a claim minted.    *)
(***************************************************************************)

FrontierHeld(v, c) ==
    LET old == Frontier(session[v][c])
        new == Frontier(session'[v][c])
    IN  /\ session'[v][c] # session[v][c] /\ (ata' # ata \/ claim' # claim)
               => new > old
        /\ new < old => new = 0 /\ ata' = ata /\ claim' = claim

\* A session that is left alone, and one that moves no token and mints no claim.
LEMMA FrontierUntouched ==
  ASSUME TypeOK, NEW v \in Vaults, NEW c \in Counterparties,
         session'[v][c] = session[v][c]
  PROVE  FrontierHeld(v, c)
  <1>1. Frontier(session[v][c]) \in Nat
    BY SessionFields DEF Frontier, Larger
  <1> QED BY <1>1 DEF FrontierHeld

LEMMA FrontierReset ==
  ASSUME TypeOK, NEW v \in Vaults, NEW c \in Counterparties, ata' = ata, claim' = claim,
         \/ session'[v][c] = session[v][c]
         \/ session'[v][c].spent = 0 /\ session'[v][c].crystallized_cumulative = 0
  PROVE  FrontierHeld(v, c)
  <1>1. Frontier(session[v][c]) \in Nat
    BY SessionFields DEF Frontier, Larger
  <1>2. CASE session'[v][c] = session[v][c]
    BY <1>2, FrontierUntouched
  <1>3. CASE session'[v][c].spent = 0 /\ session'[v][c].crystallized_cumulative = 0
    <2>1. Frontier(session'[v][c]) = 0
      BY <1>3 DEF Frontier, Larger
    <2> QED BY <1>1, <2>1 DEF FrontierHeld
  <1> QED BY <1>2, <1>3

LEMMA FrontierBySessions ==
  ASSUME TypeOK, NEW v \in Vaults, SessionsNext(v), NEW w \in Vaults, NEW d \in Counterparties
  PROVE  FrontierHeld(w, d)
  <1> DEFINE Zero(s) == s.spent = 0 /\ s.crystallized_cumulative = 0
  <1>0. Zero(ClearedSession) /\ Zero(VacantSession)
    BY DEF ClearedSession, VacantSession
  <1>1. ASSUME NEW c \in Counterparties, NEW max_amount \in Amounts, NEW capacity \in Amounts,
               NEW expires_at \in 1 .. MaxTime + 1, NEW siblings \in SUBSET Counterparties,
               RegisterSessionKey(v, c, max_amount, capacity, expires_at, siblings)
        PROVE  FrontierHeld(w, d)
    <2> DEFINE reg == NewRegistration(c, max_amount, capacity, expires_at)
               swept == siblings \ {s \in siblings : IsLive(v, s)}
               row == [s \in Counterparties |->
                  CASE s = c        -> reg
                    [] s \in swept  -> ClearedSession
                    [] OTHER        -> session[v][s]]
    <2>1. session' = [session EXCEPT ![v] = row] /\ ata' = ata /\ claim' = claim
      BY <1>1 DEF RegisterSessionKey
    <2>2. Zero(reg)
      BY DEF NewRegistration
    <2>3. c \notin swept
      BY <1>1 DEF RegisterSessionKey, RegistrationAdmitted, SiblingsDerived
    <2>4. row[d] \in {reg, ClearedSession, session[v][d]}
      <3> HIDE DEF reg, swept
      <3>1. CASE d = c
        BY <2>3, <3>1
      <3>2. CASE d # c /\ d \in swept
        BY <3>2
      <3>3. CASE d # c /\ d \notin swept
        BY <3>3
      <3> QED BY <3>1, <3>2, <3>3
    <2> HIDE DEF row, reg
    <2>5. session'[w][d] = session[w][d] \/ Zero(session'[w][d])
      <3>1. CASE w = v
        <4>1. session'[w][d] = row[d]
          BY <2>1, <3>1 DEF TypeOK
        <4> QED BY <1>0, <2>2, <2>4, <3>1, <4>1
      <3>2. CASE w # v
        BY <2>1, <3>2 DEF TypeOK
      <3> QED BY <3>1, <3>2
    <2> QED BY <2>1, <2>5, FrontierReset
  <1>2. ASSUME NEW c \in Counterparties, RevokeSessionKey(v, c) PROVE FrontierHeld(w, d)
    <2>1. session'[w][d] = session[w][d] \/ session'[w][d] = ClearedSession
      BY <1>2 DEF RevokeSessionKey, TypeOK
    <2>2. ata' = ata /\ claim' = claim
      BY <1>2 DEF RevokeSessionKey
    <2> QED BY <1>0, <2>1, <2>2, FrontierReset
  <1>3. ASSUME NEW c \in Counterparties, CloseSession(v, c) PROVE FrontierHeld(w, d)
    <2>1. session'[w][d] = session[w][d] \/ session'[w][d] = VacantSession
      BY <1>3 DEF CloseSession, TypeOK
    <2>2. ata' = ata /\ claim' = claim
      BY <1>3 DEF CloseSession
    <2> QED BY <1>0, <2>1, <2>2, FrontierReset
  <1> QED BY <1>1, <1>2, <1>3 DEF SessionsNext, Register

LEMMA FrontierByVouchers ==
  ASSUME TypeOK, NEW v \in Vaults, VouchersNext(v), NEW w \in Vaults, NEW d \in Counterparties
  PROVE  FrontierHeld(w, d)
  <1>1. ASSUME NEW c \in Counterparties, NEW amount \in Amounts, SettleVoucherOpen(v, c, amount)
        PROVE  FrontierHeld(w, d)
    <2>1. /\ session'[w][d].spent = session[w][d].spent
          /\ session'[w][d].crystallized_cumulative = session[w][d].crystallized_cumulative
      BY <1>1 DEF SettleVoucherOpen, TypeOK, SessionAccount
    <2>2. Frontier(session'[w][d]) = Frontier(session[w][d]) /\ Frontier(session[w][d]) \in Nat
      BY <2>1, SessionFields DEF Frontier, Larger
    <2>3. ata' = ata /\ claim' = claim
      BY <1>1 DEF SettleVoucherOpen
    <2> QED BY <2>2, <2>3 DEF FrontierHeld
  <1>2. ASSUME SettleVoucherClose(v) PROVE FrontierHeld(w, d)
    BY <1>2, FrontierUntouched DEF SettleVoucherClose
  <1>3. ASSUME NEW c \in Counterparties, NEW amount \in Amounts, SettleTabVoucher(v, c, amount)
        PROVE  FrontierHeld(w, d)
    <2>1. CASE <<w, d>> # <<v, c>>
      <3>1. session'[w][d] = session[w][d]
        BY <1>3, <2>1 DEF SettleTabVoucher, TypeOK
      <3> QED BY <3>1, FrontierUntouched
    <2>2. CASE w = v /\ d = c
      <3>1. /\ session'[v][c].spent = amount
            /\ session'[v][c].crystallized_cumulative = session[v][c].crystallized_cumulative
        BY <1>3 DEF SettleTabVoucher, TypeOK, SessionAccount
      <3>2. amount > Frontier(session[v][c]) /\ amount \in Nat
        BY <1>3, ConstantsAssumption DEF SettleTabVoucher, VoucherAccepted
      <3>3. Frontier(session'[v][c]) > Frontier(session[v][c]) /\ Frontier(session[v][c]) \in Nat
            /\ Frontier(session'[v][c]) \in Nat
        BY <3>1, <3>2, SessionFields DEF Frontier, Larger
      <3> QED BY <2>2, <3>3 DEF FrontierHeld
    <2> QED BY <2>1, <2>2
  <1> QED BY <1>1, <1>2, <1>3 DEF VouchersNext

LEMMA FrontierByLocks ==
  ASSUME TypeOK, NEW v \in Vaults, LocksNext(v), NEW w \in Vaults, NEW d \in Counterparties
  PROVE  FrontierHeld(w, d)
  <1>1. ASSUME NEW h \in Hashes, NEW c \in Counterparties, NEW maturity \in Deadlines,
               NEW recovery \in Deadlines, NEW holder \in Holders,
               LockVoucher(v, c, h, maturity, recovery, holder)
        PROVE  FrontierHeld(w, d)
    <2> DEFINE delta == h[2] - session[v][c].crystallized_cumulative
    <2>1. session' = [session EXCEPT
                ![v][c].current_outstanding = SaturatingSub(@, delta),
                ![v][c].crystallized_cumulative = @ + delta]
      BY <1>1 DEF LockVoucher
    <2>2. h[2] > Frontier(session[v][c]) /\ h[2] \in Nat
      BY <1>1, ConstantsAssumption DEF LockVoucher, VoucherAccepted, Hashes
    <2>3. session[v][c].crystallized_cumulative + delta = h[2]
      BY <2>2, SessionFields
    <2> HIDE DEF delta
    <2>4. CASE <<w, d>> # <<v, c>>
      <3>1. session'[w][d] = session[w][d]
        BY <2>1, <2>4 DEF TypeOK
      <3> QED BY <3>1, FrontierUntouched
    <2>5. CASE w = v /\ d = c
      <3>1. /\ session'[v][c].spent = session[v][c].spent
            /\ session'[v][c].crystallized_cumulative = h[2]
        BY <2>1, <2>3 DEF TypeOK, SessionAccount
      <3>2. Frontier(session'[v][c]) > Frontier(session[v][c]) /\ Frontier(session[v][c]) \in Nat
            /\ Frontier(session'[v][c]) \in Nat
        BY <2>2, <3>1, SessionFields DEF Frontier, Larger
      <3> QED BY <2>5, <3>2 DEF FrontierHeld
    <2> QED BY <2>4, <2>5
  <1>2. ASSUME NEW h \in Hashes, NEW holder \in Holders, SettleLockedVoucher(v, h, holder)
        PROVE  session' = session
    BY <1>2 DEF SettleLockedVoucher
  <1>3. ASSUME NEW h \in Hashes, NEW holder \in Holders, NEW new_holder \in Holders,
               TransferLockOwnership(v, h, holder, new_holder)
        PROVE  session' = session
    BY <1>3 DEF TransferLockOwnership
  <1>4. ASSUME NEW h \in Hashes, RecoverAbandonedLock(v, h) PROVE session' = session
    BY <1>4 DEF RecoverAbandonedLock
  <1> QED BY <1>1, <1>2, <1>3, <1>4, FrontierUntouched DEF LocksNext

LEMMA FrontierStep ==
  ASSUME TypeOK, [Next]_vars, NEW w \in Vaults, NEW d \in Counterparties
  PROVE  FrontierHeld(w, d)
  <1>1. ASSUME Environment \/ UNCHANGED vars PROVE session' = session
    BY <1>1 DEF Environment, Deposit, MasterSpend, Tick, vars
  <1> QED BY <1>1, SessionsUntouched, FrontierUntouched, FrontierBySessions,
             FrontierByVouchers, FrontierByLocks DEF Next

\* No voucher is paid twice, or paid and locked: a step that moves tokens or mints
\* a claim on account of a session takes the session's frontier strictly up, and
\* only the passkey's revoke or re-registration takes it back, to zero.
THEOREM VouchersSpendOnce == Spec => VouchersAreSingleUse
  <1>1. TypeOK /\ [Next]_vars
            => [\A v \in Vaults, c \in Counterparties : FrontierHeld(v, c)]_vars
    BY FrontierStep
  <1> QED BY <1>1, TypeCorrect, PTL DEF Spec, VouchersAreSingleUse, FrontierHeld

=================================================================================
