------------------------------ MODULE StandbyProofs ------------------------------
(***************************************************************************)
(* Standby credit: every loan is covered by a recorded backer, cap and     *)
(* deadline, and a financier's ledger is the sum of the caps it backs, for *)
(* any set of vaults and financiers.                                       *)
(***************************************************************************)
EXTENDS TypeProofs, SumsProofs

PromisesExact(f) ==
    /\ IsFiniteSet(Units(StandbyCaps, Backed(f)))
    /\ ledger[f].aggregate_promised = Total(StandbyCaps, Backed(f))
    /\ ledger[f].aggregate_promised <= ledger[f].committed_reserve

CreditInv ==
    /\ LoansAreRecoverable
    /\ \A f \in Financiers : PromisesExact(f)

CapKept(v) ==
    /\ vault'[v].standby_backer = vault[v].standby_backer
    /\ vault'[v].standby_cap = vault[v].standby_cap

LoanKept(v) ==
    /\ vault'[v].borrowed = vault[v].borrowed
    /\ vault'[v].borrow_recovery_at = vault[v].borrow_recovery_at

\* What a step leaves alone when it is not about credit at all.
CreditKept == ledger' = ledger /\ \A v \in Vaults : CapKept(v) /\ LoanKept(v)

LEMMA CreditInit == Init => CreditInv
  <1> SUFFICES ASSUME Init PROVE CreditInv
    OBVIOUS
  <1>1. LoansAreRecoverable
    BY DEF Init, NewVault, LoansAreRecoverable
  <1>2. ASSUME NEW f \in Financiers PROVE PromisesExact(f)
    <2>1. Backed(f) = {}
      BY ConstantsAssumption DEF Init, NewVault, Backed
    <2> QED BY <2>1, TotalEmpty DEF Init, NoLedger, PromisesExact
  <1> QED BY <1>1, <1>2 DEF CreditInv

\* The promises depend on the backers, the caps and the ledgers only.
LEMMA PromisesKept ==
  ASSUME NEW f \in Financiers, PromisesExact(f), ledger'[f] = ledger[f],
         \A v \in Vaults : CapKept(v)
  PROVE  PromisesExact(f)'
  <1>1. Backed(f)' = Backed(f) /\ StandbyCaps' = StandbyCaps
    BY DEF Backed, StandbyCaps, CapKept
  <1> QED BY <1>1 DEF PromisesExact

LEMMA KeptCredit ==
  ASSUME CreditInv, CreditKept
  PROVE  CreditInv'
  <1>1. LoansAreRecoverable'
    BY DEF CreditInv, CreditKept, CapKept, LoanKept, LoansAreRecoverable
  <1>2. \A f \in Financiers : PromisesExact(f)'
    BY PromisesKept DEF CreditInv, CreditKept
  <1> QED BY <1>1, <1>2 DEF CreditInv

LEMMA CreditKeptBySessions ==
  ASSUME TypeOK, NEW v \in Vaults, SessionsNext(v) \/ SetSwig(v)
  PROVE  CreditKept
  <1> USE DEF TypeOK, CreditKept, CapKept, LoanKept, VaultAccount
  <1>1. ASSUME NEW c \in Counterparties, NEW max_amount \in Amounts, NEW capacity \in Amounts,
               NEW expires_at \in 1 .. MaxTime + 1, NEW siblings \in SUBSET Counterparties,
               RegisterSessionKey(v, c, max_amount, capacity, expires_at, siblings)
        PROVE  CreditKept
    <2>1. PICK n : vault' = [vault EXCEPT ![v].live_session_count = n]
      BY <1>1 DEF RegisterSessionKey
    <2>2. ledger' = ledger
      BY <1>1 DEF RegisterSessionKey
    <2> QED BY <2>1, <2>2
  <1>2. ASSUME NEW c \in Counterparties, RevokeSessionKey(v, c) PROVE CreditKept
    BY <1>2 DEF RevokeSessionKey
  <1>3. ASSUME NEW c \in Counterparties, CloseSession(v, c) PROVE CreditKept
    BY <1>3 DEF CloseSession
  <1>4. ASSUME SetSwig(v) PROVE CreditKept
    BY <1>4 DEF SetSwig
  <1> QED BY <1>1, <1>2, <1>3, <1>4 DEF SessionsNext, Register

LEMMA CreditKeptByVouchers ==
  ASSUME TypeOK, NEW v \in Vaults, VouchersNext(v)
  PROVE  CreditKept
  <1> USE DEF TypeOK, CreditKept, CapKept, LoanKept, VaultAccount
  <1>1. ASSUME NEW c \in Counterparties, NEW amount \in Amounts, SettleVoucherOpen(v, c, amount)
        PROVE  CreditKept
    BY <1>1 DEF SettleVoucherOpen
  <1>2. ASSUME SettleVoucherClose(v) PROVE CreditKept
    BY <1>2 DEF SettleVoucherClose
  <1>3. ASSUME NEW c \in Counterparties, NEW amount \in Amounts, SettleTabVoucher(v, c, amount)
        PROVE  CreditKept
    BY <1>3 DEF SettleTabVoucher
  <1> QED BY <1>1, <1>2, <1>3 DEF VouchersNext

LEMMA CreditKeptByLocks ==
  ASSUME TypeOK, NEW v \in Vaults, LocksNext(v)
  PROVE  CreditKept
  <1> USE DEF TypeOK, CreditKept, CapKept, LoanKept, VaultAccount
  <1>1. ASSUME NEW h \in Hashes, NEW c \in Counterparties, NEW maturity \in Deadlines,
               NEW recovery \in Deadlines, NEW holder \in Holders,
               LockVoucher(v, c, h, maturity, recovery, holder)
        PROVE  CreditKept
    BY <1>1 DEF LockVoucher
  <1>2. ASSUME NEW h \in Hashes, NEW holder \in Holders, SettleLockedVoucher(v, h, holder)
        PROVE  CreditKept
    BY <1>2 DEF SettleLockedVoucher
  <1>3. ASSUME NEW h \in Hashes, NEW holder \in Holders, NEW new_holder \in Holders,
               TransferLockOwnership(v, h, holder, new_holder)
        PROVE  CreditKept
    BY <1>3 DEF TransferLockOwnership
  <1>4. ASSUME NEW h \in Hashes, RecoverAbandonedLock(v, h) PROVE CreditKept
    BY <1>4 DEF RecoverAbandonedLock
  <1> QED BY <1>1, <1>2, <1>3, <1>4 DEF LocksNext

LEMMA CreditKeptByWithdrawals ==
  ASSUME TypeOK, NEW v \in Vaults, WithdrawalsNext(v)
  PROVE  CreditKept
  <1> USE DEF TypeOK, CreditKept, CapKept, LoanKept, VaultAccount
  <1>1. ASSUME NEW amount, NEW signed_at, RequestWithdrawal(v, amount, signed_at)
        PROVE  CreditKept
    BY <1>1 DEF RequestWithdrawal
  <1>2. ASSUME FinalizeWithdrawal(v) PROVE CreditKept
    BY <1>2 DEF FinalizeWithdrawal
  <1>3. ASSUME ForceRelease(v) PROVE CreditKept
    BY <1>3 DEF ForceRelease
  <1> QED BY <1>1, <1>2, <1>3 DEF WithdrawalsNext, Request

\* Drawing, repaying and seizing move the loan and leave the caps alone.
LEMMA LoanMoves ==
  ASSUME TypeOK, CreditInv, NEW v \in Vaults, ledger' = ledger,
         \A w \in Vaults : CapKept(w),
         \A w \in Vaults \ {v} : LoanKept(w),
         vault'[v].borrowed <= vault[v].standby_cap,
         vault'[v].borrowed > 0 => /\ vault[v].standby_backer # None
                                   /\ vault'[v].borrow_recovery_at # None
  PROVE  CreditInv'
  <1>1. LoansAreRecoverable'
    BY DEF CreditInv, CapKept, LoanKept, LoansAreRecoverable
  <1>2. \A f \in Financiers : PromisesExact(f)'
    BY PromisesKept DEF CreditInv
  <1> QED BY <1>1, <1>2 DEF CreditInv

LEMMA CreditDraw ==
  ASSUME TypeOK, CreditInv, NEW v \in Vaults, NEW f \in Financiers, NEW amount \in Amounts,
         NEW window \in Windows, DrawCredit(v, f, amount, window)
  PROVE  CreditInv'
  <1>1. /\ ledger' = ledger
        /\ \A w \in Vaults : CapKept(w)
        /\ \A w \in Vaults \ {v} : LoanKept(w)
        /\ vault'[v].borrowed = vault[v].borrowed + amount
        /\ vault'[v].borrow_recovery_at = ArmedDeadline(v, window)
    BY DEF DrawCredit, CapKept, LoanKept, TypeOK, VaultAccount
  <1>2. ArmedDeadline(v, window) # None
    BY ConstantsAssumption DEF ArmedDeadline, TypeOK
  <1>3. /\ vault[v].standby_backer # None
        /\ vault[v].borrowed + amount <= vault[v].standby_cap
    BY ConstantsAssumption DEF DrawCredit
  <1> QED BY <1>1, <1>2, <1>3, LoanMoves

LEMMA CreditRepay ==
  ASSUME TypeOK, CreditInv, NEW v \in Vaults, NEW f \in Financiers, NEW amount \in Amounts,
         RepayCredit(v, f, amount)
  PROVE  CreditInv'
  <1> DEFINE left == vault[v].borrowed - Smaller(amount, vault[v].borrowed)
  <1>1. /\ ledger' = ledger
        /\ \A w \in Vaults : CapKept(w)
        /\ \A w \in Vaults \ {v} : LoanKept(w)
        /\ vault'[v].borrowed = left
        /\ vault'[v].borrow_recovery_at =
               IF left = 0 THEN None ELSE vault[v].borrow_recovery_at
    BY DEF RepayCredit, CapKept, LoanKept, TypeOK, VaultAccount
  <1>2. left \in Nat /\ left <= vault[v].borrowed
    BY VaultFields, ConstantsAssumption DEF Smaller
  <1>3. /\ vault[v].borrowed > 0
        /\ vault[v].borrowed <= vault[v].standby_cap
        /\ vault[v].standby_backer # None
        /\ vault[v].borrow_recovery_at # None
    BY DEF RepayCredit, CreditInv, LoansAreRecoverable
  <1> HIDE DEF left
  <1>4. vault'[v].borrowed <= vault[v].standby_cap
    BY <1>1, <1>2, <1>3, VaultFields
  <1> QED BY <1>1, <1>2, <1>3, <1>4, LoanMoves

LEMMA CreditSeize ==
  ASSUME TypeOK, CreditInv, NEW v \in Vaults, NEW f \in Financiers, SeizeCollateral(v, f)
  PROVE  CreditInv'
  <1>1. /\ ledger' = ledger
        /\ \A w \in Vaults : CapKept(w)
        /\ \A w \in Vaults \ {v} : LoanKept(w)
        /\ vault'[v].borrowed = 0
    BY DEF SeizeCollateral, CapKept, LoanKept, TypeOK, VaultAccount
  <1> QED BY <1>1, VaultFields, LoanMoves

LEMMA CreditReserve ==
  ASSUME TypeOK, CreditInv, NEW f \in Financiers, NEW amount \in Amounts,
         SetStandbyReserve(f, amount)
  PROVE  CreditInv'
  <1>1. vault' = vault /\ amount >= ledger[f].aggregate_promised
    BY DEF SetStandbyReserve
  <1>2. /\ ledger'[f].aggregate_promised = ledger[f].aggregate_promised
        /\ ledger'[f].committed_reserve = amount
        /\ \A g \in Financiers \ {f} : ledger'[g] = ledger[g]
    BY DEF SetStandbyReserve, TypeOK, StandbyBacker
  <1>3. \A v \in Vaults : CapKept(v) /\ LoanKept(v)
    BY <1>1 DEF CapKept, LoanKept
  <1>4. LoansAreRecoverable'
    BY <1>1 DEF CreditInv, LoansAreRecoverable
  <1>5. PromisesExact(f)'
    <2>1. Backed(f)' = Backed(f) /\ StandbyCaps' = StandbyCaps
      BY <1>1 DEF Backed, StandbyCaps
    <2> QED BY <1>1, <1>2, <2>1 DEF CreditInv, PromisesExact
  <1>6. ASSUME NEW g \in Financiers, g # f PROVE PromisesExact(g)'
    BY <1>2, <1>3, <1>6, PromisesKept DEF CreditInv
  <1> QED BY <1>4, <1>5, <1>6 DEF CreditInv

\* What financier f has promised to vaults other than v.
OtherPromises(v, f) == Total(StandbyCaps, Backed(f) \ {v})

\* A ledger is the other vaults' promises and this vault's own cap.
LEMMA PromisesSplit ==
  ASSUME TypeOK, CreditInv, NEW v \in Vaults, NEW f \in Financiers,
         vault[v].standby_backer \in {None, f}
  PROVE  /\ IsFiniteSet(Units(StandbyCaps, Backed(f) \ {v}))
         /\ OtherPromises(v, f) \in Nat
         /\ OldCap(v) \in Nat
         /\ ledger[f].aggregate_promised = OtherPromises(v, f) + OldCap(v)
  <1> DEFINE B == Backed(f)
             caps == StandbyCaps
  <1>1. /\ IsFiniteSet(Units(caps, B))
        /\ ledger[f].aggregate_promised = Total(caps, B)
    BY DEF CreditInv, PromisesExact
  <1>2. caps[v] = vault[v].standby_cap /\ caps[v] \in Nat
    BY VaultFields DEF StandbyCaps
  <1>3. /\ IsFiniteSet(Units(caps, B \ {v}))
        /\ Total(caps, B \ {v}) \in Nat
        /\ Total(caps, B) \in Nat
    BY <1>1, TotalPart
  <1>4. CASE vault[v].standby_backer = None
    <2>1. B \ {v} = B
      BY <1>4, ConstantsAssumption DEF Backed
    <2>2. OldCap(v) = 0
      BY <1>4 DEF OldCap
    <2>3. OtherPromises(v, f) = Total(caps, B)
      BY <2>1 DEF OtherPromises
    <2> HIDE DEF B, caps
    <2>4. Total(caps, B) = Total(caps, B) + 0
      BY <1>3
    <2> QED BY <1>1, <1>3, <2>1, <2>2, <2>3, <2>4 DEF B, caps
  <1>5. CASE vault[v].standby_backer = f
    <2>1. v \in B
      BY <1>5 DEF Backed
    <2>2. OldCap(v) = caps[v]
      BY <1>2, <1>5, ConstantsAssumption DEF OldCap
    <2> HIDE DEF B, caps
    <2>3. Total(caps, B \ {v}) = Total(caps, B) - caps[v]
      BY <1>1, <1>2, <2>1, TotalRemove
    <2>4. Total(caps, B) = Total(caps, B \ {v}) + caps[v]
      BY <1>2, <1>3, <2>3
    <2> QED BY <1>1, <1>2, <1>3, <2>2, <2>4 DEF OtherPromises, B, caps
  <1> QED BY <1>4, <1>5

\* A step on v's standby leaves what its financier promised to others.
LEMMA OthersKept ==
  ASSUME NEW v \in Vaults, NEW f \in Financiers, \A w \in Vaults \ {v} : CapKept(w)
  PROVE  /\ Backed(f)' \ {v} = Backed(f) \ {v}
         /\ Units(StandbyCaps', Backed(f) \ {v}) = Units(StandbyCaps, Backed(f) \ {v})
         /\ Total(StandbyCaps', Backed(f) \ {v}) = OtherPromises(v, f)
  <1>1. Backed(f)' \ {v} = Backed(f) \ {v}
    BY DEF Backed, CapKept
  <1>2. \A w \in Backed(f) \ {v} : StandbyCaps'[w] = StandbyCaps[w]
    BY DEF Backed, StandbyCaps, CapKept
  <1> QED BY <1>1, <1>2, TotalCongruence DEF OtherPromises

\* A financier v neither had nor gets as its backer keeps its promises.
LEMMA BystanderKept ==
  ASSUME NEW v \in Vaults, NEW g \in Financiers, PromisesExact(g), ledger'[g] = ledger[g],
         \A w \in Vaults \ {v} : CapKept(w),
         vault[v].standby_backer # g, vault'[v].standby_backer # g
  PROVE  PromisesExact(g)'
  <1>1. Backed(g) \ {v} = Backed(g) /\ Backed(g)' \ {v} = Backed(g)'
    BY DEF Backed
  <1>2. /\ Backed(g)' = Backed(g)
        /\ Units(StandbyCaps', Backed(g)) = Units(StandbyCaps, Backed(g))
    BY <1>1, OthersKept
  <1> QED BY <1>2 DEF PromisesExact, Total

LEMMA CreditOpen ==
  ASSUME TypeOK, CreditInv, NEW v \in Vaults, NEW f \in Financiers, NEW cap \in Amounts,
         OpenStandby(v, f, cap)
  PROVE  CreditInv'
  <1> DEFINE rest == OtherPromises(v, f)
             promised == ledger'[f].aggregate_promised
  <1>1. /\ vault[v].standby_backer \in {None, f}
        /\ cap \in Nat
        /\ cap >= vault[v].borrowed
    BY ConstantsAssumption DEF OpenStandby, CapAdmitted
  <1>2. /\ vault'[v].standby_backer = f
        /\ vault'[v].standby_cap = cap
        /\ \A w \in Vaults \ {v} : CapKept(w)
        /\ \A w \in Vaults : LoanKept(w)
    BY DEF OpenStandby, CapKept, LoanKept, TypeOK, VaultAccount
  <1>3. /\ IsFiniteSet(Units(StandbyCaps, Backed(f) \ {v}))
        /\ rest \in Nat
        /\ OldCap(v) \in Nat
        /\ ledger[f].aggregate_promised = rest + OldCap(v)
    BY <1>1, PromisesSplit
  <1>4. /\ ledger'[f].committed_reserve = ledger[f].committed_reserve
        /\ \A g \in Financiers \ {f} : ledger'[g] = ledger[g]
        /\ ledger[f].committed_reserve \in Nat
        /\ ledger[f].aggregate_promised <= ledger[f].committed_reserve
    BY DEF OpenStandby, TypeOK, StandbyBacker, CreditInv, PromisesExact
  <1>5. promised = rest + cap /\ promised <= ledger'[f].committed_reserve
    <2>1. CASE cap >= OldCap(v)
      <3>1. /\ promised = ledger[f].aggregate_promised + (cap - OldCap(v))
            /\ ledger[f].aggregate_promised + (cap - OldCap(v)) <= ledger[f].committed_reserve
        BY <1>1, <1>3, <2>1 DEF OpenStandby, TypeOK, StandbyBacker
      <3> HIDE DEF rest, promised
      <3> QED BY <1>1, <1>3, <1>4, <3>1
    <2>2. CASE cap < OldCap(v)
      <3>1. promised = SaturatingSub(ledger[f].aggregate_promised, OldCap(v) - cap)
        BY <1>1, <1>3, <2>2 DEF OpenStandby, TypeOK, StandbyBacker
      <3> HIDE DEF rest, promised
      <3>2. promised = rest + cap
        BY <1>1, <1>3, <2>2, <3>1 DEF SaturatingSub
      <3> QED BY <1>1, <1>3, <1>4, <2>2, <3>2
    <2> QED BY <1>1, <1>3, <2>1, <2>2
  <1>6. PromisesExact(f)'
    <2>1. Backed(f)' = (Backed(f) \ {v}) \cup {v}
      <3>1. v \in Backed(f)'
        BY <1>2 DEF Backed
      <3>2. Backed(f)' \ {v} = Backed(f) \ {v}
        BY <1>2, OthersKept
      <3> QED BY <3>1, <3>2
    <2>2. StandbyCaps'[v] = cap
      BY <1>2 DEF StandbyCaps
    <2>3. /\ IsFiniteSet(Units(StandbyCaps', Backed(f) \ {v}))
          /\ Total(StandbyCaps', Backed(f) \ {v}) = rest
      BY <1>2, <1>3, OthersKept
    <2>4. /\ IsFiniteSet(Units(StandbyCaps', (Backed(f) \ {v}) \cup {v}))
          /\ Total(StandbyCaps', (Backed(f) \ {v}) \cup {v}) = rest + cap
      <3> DEFINE caps == StandbyCaps'
                 S == Backed(f) \ {v}
      <3>1. v \notin S /\ caps[v] \in Nat /\ IsFiniteSet(Units(caps, S))
        BY <1>1, <2>2, <2>3
      <3>2. caps[v] = cap /\ Total(caps, S) = rest
        BY <2>2, <2>3
      <3> HIDE DEF caps, S, rest
      <3>3. IsFiniteSet(Units(caps, S \cup {v})) /\ Total(caps, S \cup {v}) = Total(caps, S) + caps[v]
        BY <3>1, TotalAdd
      <3>4. IsFiniteSet(Units(caps, S \cup {v})) /\ Total(caps, S \cup {v}) = rest + cap
        BY <3>2, <3>3
      <3> QED BY <3>4 DEF caps, S
    <2>5. /\ IsFiniteSet(Units(StandbyCaps', Backed(f)'))
          /\ Total(StandbyCaps', Backed(f)') = rest + cap
      BY <2>1, <2>4
    <2> QED BY <1>5, <2>5 DEF PromisesExact
  <1>7. ASSUME NEW g \in Financiers, g # f PROVE PromisesExact(g)'
    BY <1>1, <1>2, <1>4, <1>7, BystanderKept, ConstantsAssumption DEF CreditInv
  <1>8. LoansAreRecoverable'
    BY <1>1, <1>2, ConstantsAssumption
    DEF CreditInv, LoansAreRecoverable, LoanKept, CapKept
  <1> QED BY <1>6, <1>7, <1>8 DEF CreditInv

LEMMA CreditClose ==
  ASSUME TypeOK, CreditInv, NEW v \in Vaults, NEW f \in Financiers, CloseStandby(v, f)
  PROVE  CreditInv'
  <1> DEFINE rest == OtherPromises(v, f)
             promised == ledger'[f].aggregate_promised
  <1>1. vault[v].standby_backer = f /\ vault[v].borrowed = 0
    BY DEF CloseStandby
  <1>2. /\ vault'[v].standby_backer = None
        /\ vault'[v].standby_cap = 0
        /\ \A w \in Vaults \ {v} : CapKept(w)
        /\ \A w \in Vaults : LoanKept(w)
    BY DEF CloseStandby, CapKept, LoanKept, TypeOK, VaultAccount
  <1>3. /\ IsFiniteSet(Units(StandbyCaps, Backed(f) \ {v}))
        /\ rest \in Nat
        /\ OldCap(v) \in Nat
        /\ ledger[f].aggregate_promised = rest + OldCap(v)
    BY <1>1, PromisesSplit
  <1>4. /\ ledger'[f].committed_reserve = ledger[f].committed_reserve
        /\ promised = SaturatingSub(ledger[f].aggregate_promised, vault[v].standby_cap)
        /\ \A g \in Financiers \ {f} : ledger'[g] = ledger[g]
        /\ ledger[f].committed_reserve \in Nat
        /\ ledger[f].aggregate_promised <= ledger[f].committed_reserve
    BY DEF CloseStandby, TypeOK, StandbyBacker, CreditInv, PromisesExact
  <1>5. promised = rest /\ promised <= ledger'[f].committed_reserve
    <2>1. OldCap(v) = vault[v].standby_cap
      BY <1>1, ConstantsAssumption DEF OldCap
    <2> HIDE DEF rest, promised
    <2>2. promised = rest
      BY <1>3, <1>4, <2>1 DEF SaturatingSub
    <2> QED BY <1>3, <1>4, <2>2
  <1>6. PromisesExact(f)'
    <2>1. Backed(f)' = Backed(f) \ {v}
      <3>1. v \notin Backed(f)'
        BY <1>2, ConstantsAssumption DEF Backed
      <3>2. Backed(f)' \ {v} = Backed(f) \ {v}
        BY <1>2, OthersKept
      <3> QED BY <3>1, <3>2
    <2>2. /\ IsFiniteSet(Units(StandbyCaps', Backed(f) \ {v}))
          /\ Total(StandbyCaps', Backed(f) \ {v}) = rest
      BY <1>2, <1>3, OthersKept
    <2>3. /\ IsFiniteSet(Units(StandbyCaps', Backed(f)'))
          /\ Total(StandbyCaps', Backed(f)') = rest
      BY <2>1, <2>2
    <2> QED BY <1>5, <2>3 DEF PromisesExact
  <1>7. ASSUME NEW g \in Financiers, g # f PROVE PromisesExact(g)'
    BY <1>1, <1>2, <1>4, <1>7, BystanderKept, ConstantsAssumption DEF CreditInv
  <1>8. LoansAreRecoverable'
    BY <1>1, <1>2 DEF CreditInv, LoansAreRecoverable, LoanKept, CapKept
  <1> QED BY <1>6, <1>7, <1>8 DEF CreditInv

LEMMA CreditStep == TypeOK /\ CreditInv /\ [Next]_vars => CreditInv'
  <1> SUFFICES ASSUME TypeOK, CreditInv, [Next]_vars PROVE CreditInv'
    OBVIOUS
  <1>1. ASSUME NEW v \in Vaults,
               SetSwig(v) \/ SessionsNext(v) \/ VouchersNext(v) \/ LocksNext(v)
                   \/ WithdrawalsNext(v)
        PROVE  CreditInv'
    BY <1>1, KeptCredit, CreditKeptBySessions, CreditKeptByVouchers, CreditKeptByLocks,
       CreditKeptByWithdrawals
  <1>2. ASSUME NEW v \in Vaults, StandbyNext(v) PROVE CreditInv'
    BY <1>2, CreditDraw, CreditRepay, CreditSeize, CreditReserve, CreditOpen, CreditClose
    DEF StandbyNext
  <1>3. CASE Environment
    BY <1>3, KeptCredit DEF Environment, Deposit, MasterSpend, Tick, CreditKept, CapKept, LoanKept
  <1>4. CASE UNCHANGED vars
    BY <1>4, KeptCredit DEF vars, CreditKept, CapKept, LoanKept
  <1> QED BY <1>1, <1>2, <1>3, <1>4 DEF Next

\* No close, resize, change of backer or partial repayment leaves a loan without
\* a backer, a cap that covers it or an armed deadline.
THEOREM LoansStayRecoverable == Spec => []LoansAreRecoverable
  <1>1. CreditInv => LoansAreRecoverable
    BY DEF CreditInv
  <1> QED BY <1>1, CreditInit, CreditStep, TypeCorrect, PTL DEF Spec

\* A financier's aggregate_promised is the sum of the caps of the vaults it backs,
\* for any number of vaults and financiers, opens, resizes and closes.
THEOREM LedgersAddUp == Spec => []PromisesAddUp
  <1>1. CreditInv => PromisesAddUp
    BY DEF CreditInv, PromisesExact, PromisesAddUp
  <1> QED BY <1>1, CreditInit, CreditStep, TypeCorrect, PTL DEF Spec

\* The caps a financier has promised never exceed the reserve it declared.
THEOREM PromisesStayCovered == Spec => []PromisesCovered
  <1>1. CreditInv => PromisesCovered
    BY DEF CreditInv, PromisesExact, PromisesCovered
  <1> QED BY <1>1, CreditInit, CreditStep, TypeCorrect, PTL DEF Spec

-----------------------------------------------------------------------------
(***************************************************************************)
(* The deadline of an open loan.  That it is armed (CreditInv) is what     *)
(* makes a top-up keep it: draw_credit arms only a deadline it finds None. *)
(***************************************************************************)

DeadlineHeld(v) ==
    vault[v].borrowed > 0 /\ vault'[v].borrowed > 0
        => vault'[v].borrow_recovery_at = vault[v].borrow_recovery_at

LEMMA DeadlineHeldByStandby ==
  ASSUME TypeOK, CreditInv, NEW v \in Vaults, StandbyNext(v), NEW w \in Vaults
  PROVE  DeadlineHeld(w)
  <1> USE DEF TypeOK, VaultAccount, DeadlineHeld
  <1>1. ASSUME NEW f \in Financiers, NEW amount \in Amounts, SetStandbyReserve(f, amount)
        PROVE  DeadlineHeld(w)
    BY <1>1 DEF SetStandbyReserve
  <1>2. ASSUME NEW f \in Financiers, NEW cap \in Amounts, OpenStandby(v, f, cap)
        PROVE  DeadlineHeld(w)
    BY <1>2 DEF OpenStandby
  <1>3. ASSUME NEW f \in Financiers, NEW amount \in Amounts, NEW window \in Windows,
               DrawCredit(v, f, amount, window)
        PROVE  DeadlineHeld(w)
    <2>1. vault[v].borrowed > 0 => vault[v].borrow_recovery_at # None
      BY DEF CreditInv, LoansAreRecoverable
    <2> QED BY <1>3, <2>1 DEF DrawCredit, ArmedDeadline
  <1>4. ASSUME NEW f \in Financiers, NEW amount \in Amounts, RepayCredit(v, f, amount)
        PROVE  DeadlineHeld(w)
    <2> DEFINE left == vault[v].borrowed - Smaller(amount, vault[v].borrowed)
    <2>1. vault' = [vault EXCEPT
              ![v].borrowed = left,
              ![v].borrow_recovery_at = IF left = 0 THEN None ELSE @]
      BY <1>4 DEF RepayCredit
    <2> HIDE DEF left
    <2>2. CASE w = v
      <3>1. /\ vault'[v].borrowed = left
            /\ vault'[v].borrow_recovery_at =
                   IF left = 0 THEN None ELSE vault[v].borrow_recovery_at
        BY <2>1
      <3> QED BY <2>2, <3>1
    <2>3. CASE w # v
      BY <2>1, <2>3
    <2> QED BY <2>2, <2>3
  <1>5. ASSUME NEW f \in Financiers, SeizeCollateral(v, f) PROVE DeadlineHeld(w)
    BY <1>5 DEF SeizeCollateral
  <1>6. ASSUME NEW f \in Financiers, CloseStandby(v, f) PROVE DeadlineHeld(w)
    BY <1>6 DEF CloseStandby
  <1> QED BY <1>1, <1>2, <1>3, <1>4, <1>5, <1>6 DEF StandbyNext

LEMMA DeadlineStep ==
  ASSUME TypeOK, CreditInv, [Next]_vars
  PROVE  \A w \in Vaults : DeadlineHeld(w)
  <1>1. ASSUME CreditKept PROVE \A w \in Vaults : DeadlineHeld(w)
    BY <1>1 DEF CreditKept, LoanKept, DeadlineHeld
  <1>2. ASSUME NEW v \in Vaults,
               SetSwig(v) \/ SessionsNext(v) \/ VouchersNext(v) \/ LocksNext(v)
                   \/ WithdrawalsNext(v)
        PROVE  CreditKept
    BY <1>2, CreditKeptBySessions, CreditKeptByVouchers, CreditKeptByLocks,
       CreditKeptByWithdrawals
  <1>3. ASSUME Environment \/ UNCHANGED vars PROVE CreditKept
    BY <1>3 DEF Environment, Deposit, MasterSpend, Tick, vars, CreditKept, CapKept, LoanKept
  <1> QED BY <1>1, <1>2, <1>3, DeadlineHeldByStandby DEF Next

\* While a loan stays open its deadline stands: no top-up by draw_credit, no
\* partial repay_credit and no resize of the cap defers or hastens the seizure,
\* with any number of vaults and financiers.
THEOREM DeadlinesHold == Spec => DeadlineHoldsWhileBorrowed
  <1>1. TypeOK /\ CreditInv /\ [Next]_vars
            => [\A v \in Vaults :
                  vault[v].borrowed > 0 /\ vault'[v].borrowed > 0
                      => vault'[v].borrow_recovery_at = vault[v].borrow_recovery_at]_vars
    BY DeadlineStep DEF DeadlineHeld
  <1> QED BY <1>1, CreditInit, CreditStep, TypeCorrect, PTL
      DEF Spec, DeadlineHoldsWhileBorrowed

=================================================================================
