------------------------------ MODULE SessionProofs ------------------------------
(***************************************************************************)
(* The session count is exact, the sibling gate of register_session_key    *)
(* complete and its overcommit check sound, for any number of              *)
(* counterparties, provided no session is registered for the all-zero key  *)
(* that marks a cleared registration; and, without that proviso, a session *)
(* never moves its cap twice over.                                         *)
(***************************************************************************)
EXTENDS TypeProofs, SumsProofs

\* A session account names its own counterparty while it is registered and the
\* all-zero key otherwise: this is what tells the gate the two apart.
NamesItsCounterparty(v) ==
    \A c \in Counterparties :
        LET s == session[v][c]
        IN  /\ s.version # 0 => s.exists /\ s.allowed_counterparty = c
            /\ s.version = 0 => s.allowed_counterparty = DefaultKey

RegistryExact(v) ==
    /\ NamesItsCounterparty(v)
    /\ vault[v].live_session_count = Cardinality(Registered(v))

SessionsInv == \A v \in Vaults : RegistryExact(v)

\* What a step leaves alone when it neither registers nor clears a session of v.
RegistryKept(v) ==
    /\ vault'[v].live_session_count = vault[v].live_session_count
    /\ \A c \in Counterparties :
        /\ session'[v][c].version = session[v][c].version
        /\ session'[v][c].exists = session[v][c].exists
        /\ session'[v][c].allowed_counterparty = session[v][c].allowed_counterparty
        /\ session'[v][c].max_amount = session[v][c].max_amount
        /\ session'[v][c].expires_at = session[v][c].expires_at

LEMMA KeptRegistry ==
  ASSUME NEW v \in Vaults, RegistryExact(v), RegistryKept(v)
  PROVE  RegistryExact(v)'
  <1>1. Registered(v)' = Registered(v)
    BY DEF RegistryKept, Registered
  <1>2. NamesItsCounterparty(v)'
    BY DEF RegistryKept, RegistryExact, NamesItsCounterparty
  <1> QED BY <1>1, <1>2 DEF RegistryKept, RegistryExact

LEMMA SessionsInit == Init => SessionsInv
  <1> SUFFICES ASSUME Init, NEW v \in Vaults PROVE RegistryExact(v)
    BY DEF SessionsInv
  <1>1. \A c \in Counterparties : session[v][c] = VacantSession
    BY DEF Init
  <1>2. VacantSession.version = 0 /\ VacantSession.allowed_counterparty = DefaultKey
    BY DEF VacantSession, ClearedSession
  <1>3. Registered(v) = {}
    BY <1>1, <1>2 DEF Registered
  <1>4. vault[v].live_session_count = 0
    BY DEF Init, NewVault
  <1> QED BY <1>1, <1>2, <1>3, <1>4, FS_EmptySet DEF RegistryExact, NamesItsCounterparty

LEMMA RegisteredFinite ==
  ASSUME NEW v \in Vaults, NEW c \in Counterparties
  PROVE  /\ IsFiniteSet(Registered(v)) /\ Cardinality(Registered(v)) \in Nat
         /\ Others(v, c) = Registered(v) \ {c}
         /\ IsFiniteSet(Others(v, c))
         /\ Cardinality(Others(v, c)) =
                Cardinality(Registered(v)) - (IF c \in Registered(v) THEN 1 ELSE 0)
  <1>1. Registered(v) \in SUBSET Counterparties
    BY DEF Registered
  <1>2. IsFiniteSet(Registered(v))
    BY <1>1, ConstantsAssumption, FS_Subset
  <1>3. Cardinality(Registered(v)) \in Nat
    BY <1>2, FS_CardinalityType
  <1>4. Others(v, c) = Registered(v) \ {c}
    BY DEF Others, Registered
  <1> QED BY <1>2, <1>3, <1>4, FS_RemoveElement

\* The gate accepts a list exactly when it is the list of all other sessions.
LEMMA GateExact ==
  ASSUME DefaultKey \notin Counterparties, TypeOK,
         NEW v \in Vaults, RegistryExact(v), NEW c \in Counterparties,
         NEW siblings \in SUBSET Counterparties
  PROVE  SiblingsDerived(v, c, siblings) /\ SiblingsComplete(v, c, siblings)
            <=> siblings = Others(v, c)
  <1> DEFINE R == Registered(v)
  <1>1. c \in R <=> session[v][c].version # 0
    BY DEF Registered
  <1>2. Cardinality(Others(v, c)) =
            vault[v].live_session_count - (IF session[v][c].version = 0 THEN 0 ELSE 1)
    BY <1>1, RegisteredFinite, VaultFields DEF RegistryExact
  <1>3. ASSUME SiblingsDerived(v, c, siblings)
        PROVE  siblings \in SUBSET Others(v, c)
    BY <1>3 DEF SiblingsDerived, Others, RegistryExact, NamesItsCounterparty
  <1>4. ASSUME SiblingsDerived(v, c, siblings), SiblingsComplete(v, c, siblings)
        PROVE  siblings = Others(v, c)
    BY <1>2, <1>3, <1>4, RegisteredFinite, FS_Subset DEF SiblingsComplete
  <1>5. SiblingsDerived(v, c, Others(v, c))
    BY DEF SiblingsDerived, Others, RegistryExact, NamesItsCounterparty
  <1>6. SiblingsComplete(v, c, Others(v, c))
    BY <1>2 DEF SiblingsComplete
  <1> QED BY <1>4, <1>5, <1>6

\* The sessions of the vault after a registration: the target is replaced, the
\* expired siblings are cleared, the live ones stay.
LEMMA RegisteredRow ==
  ASSUME TypeOK, NEW v \in Vaults, NEW c \in Counterparties,
         NEW max_amount \in Amounts, NEW capacity \in Amounts,
         NEW expires_at \in 1 .. MaxTime + 1, NEW siblings \in SUBSET Counterparties,
         RegisterSessionKey(v, c, max_amount, capacity, expires_at, siblings)
  PROVE  \A s \in Counterparties :
            session'[v][s] =
                IF s = c THEN NewRegistration(c, max_amount, capacity, expires_at)
                ELSE IF s \in siblings \ {t \in siblings : IsLive(v, t)}
                     THEN ClearedSession ELSE session[v][s]
  <1> DEFINE swept == siblings \ {t \in siblings : IsLive(v, t)}
             reg == NewRegistration(c, max_amount, capacity, expires_at)
             row == [s \in Counterparties |->
                CASE s = c        -> reg
                  [] s \in swept  -> ClearedSession
                  [] OTHER        -> session[v][s]]
  <1>1. session' = [session EXCEPT ![v] = row]
    BY DEF RegisterSessionKey
  <1>2. session'[v] = row
    BY <1>1 DEF TypeOK
  <1>3. c \notin swept
    BY DEF RegisterSessionKey, RegistrationAdmitted, SiblingsDerived
  <1> HIDE DEF reg, swept
  <1>4. ASSUME NEW s \in Counterparties
        PROVE  row[s] = IF s = c THEN reg
                        ELSE IF s \in swept THEN ClearedSession ELSE session[v][s]
    <2>1. CASE s = c
      BY <1>3, <2>1
    <2>2. CASE s # c /\ s \in swept
      BY <2>2
    <2>3. CASE s # c /\ s \notin swept
      BY <2>3
    <2> QED BY <2>1, <2>2, <2>3
  <1> QED BY <1>2, <1>4 DEF reg, swept

LEMMA RegistryRegister ==
  ASSUME DefaultKey \notin Counterparties, TypeOK,
         NEW v \in Vaults, RegistryExact(v), NEW c \in Counterparties,
         NEW max_amount \in Amounts, NEW capacity \in Amounts,
         NEW expires_at \in 1 .. MaxTime + 1, NEW siblings \in SUBSET Counterparties,
         RegisterSessionKey(v, c, max_amount, capacity, expires_at, siblings)
  PROVE  RegistryExact(v)'
  <1> DEFINE swept == siblings \ {s \in siblings : IsLive(v, s)}
             R == Registered(v)
             O == Others(v, c)
             reg == NewRegistration(c, max_amount, capacity, expires_at)
  <1>1. siblings = O
    BY GateExact DEF RegisterSessionKey, RegistrationAdmitted
  <1>2. c \notin O /\ swept \in SUBSET O
    BY <1>1 DEF Others
  <1>3. \A s \in Counterparties :
            session'[v][s] = IF s = c THEN reg
                             ELSE IF s \in swept THEN ClearedSession ELSE session[v][s]
    BY RegisteredRow
  <1>4. /\ reg.version = 1 /\ reg.exists /\ reg.allowed_counterparty = c
        /\ ClearedSession.version = 0 /\ ClearedSession.allowed_counterparty = DefaultKey
    BY DEF NewRegistration, ClearedSession
  <1> HIDE DEF swept, reg
  <1>5. NamesItsCounterparty(v)'
    BY <1>3, <1>4 DEF RegistryExact, NamesItsCounterparty
  <1>6. Registered(v)' = (O \ swept) \cup {c}
    BY <1>3, <1>4 DEF Registered, Others
  <1>7. IsFiniteSet(O) /\ Cardinality(O) = Cardinality(R) - (IF c \in R THEN 1 ELSE 0)
        /\ Cardinality(R) \in Nat
    BY RegisteredFinite
  <1>8. IsFiniteSet(swept) /\ Cardinality(swept) \in Nat
    BY <1>2, <1>7, FS_Subset, FS_CardinalityType
  <1>9. IsFiniteSet(O \ swept) /\ Cardinality(O \ swept) = Cardinality(O) - Cardinality(swept)
    <2>1. O \cap swept = swept
      BY <1>2
    <2>2. /\ IsFiniteSet(O \ swept)
          /\ Cardinality(O \ swept) = Cardinality(O) - Cardinality(O \cap swept)
      BY <1>7, FS_Difference
    <2> QED BY <2>1, <2>2
  <1>10. Cardinality(Registered(v)') = Cardinality(O \ swept) + 1
    <2>1. c \notin O \ swept
      BY <1>2
    <2> QED BY <2>1, <1>6, <1>9, FS_AddElement
  <1>11. vault'[v].live_session_count =
            vault[v].live_session_count - Cardinality(swept)
                + (IF session[v][c].version = 0 THEN 1 ELSE 0)
    <2>1. vault' = [vault EXCEPT ![v].live_session_count = ResyncedCount(v, c, swept)]
      BY DEF RegisterSessionKey, swept
    <2> QED BY <2>1 DEF ResyncedCount, TypeOK, VaultAccount
  <1>12. c \in R <=> session[v][c].version # 0
    BY DEF Registered
  <1>13. vault'[v].live_session_count = Cardinality(Registered(v)')
    BY <1>7, <1>8, <1>9, <1>10, <1>11, <1>12 DEF RegistryExact
  <1> QED BY <1>5, <1>13 DEF RegistryExact

LEMMA RegistryRevoke ==
  ASSUME TypeOK, NEW v \in Vaults, RegistryExact(v), NEW c \in Counterparties,
         RevokeSessionKey(v, c)
  PROVE  RegistryExact(v)'
  <1>1. /\ session'[v][c] = ClearedSession
        /\ \A s \in Counterparties \ {c} : session'[v][s] = session[v][s]
    BY DEF RevokeSessionKey, TypeOK
  <1>2. ClearedSession.version = 0 /\ ClearedSession.allowed_counterparty = DefaultKey
    BY DEF ClearedSession
  <1>3. NamesItsCounterparty(v)'
    BY <1>1, <1>2 DEF RegistryExact, NamesItsCounterparty
  <1>4. c \in Registered(v) /\ Registered(v)' = Registered(v) \ {c}
    BY <1>1, <1>2 DEF Registered, RevokeSessionKey
  <1>5. Cardinality(Registered(v) \ {c}) = Cardinality(Registered(v)) - 1
    BY <1>4, RegisteredFinite, FS_RemoveElement
  <1>6. vault'[v].live_session_count = vault[v].live_session_count - 1
    BY DEF RevokeSessionKey, TypeOK, VaultAccount
  <1> QED BY <1>3, <1>4, <1>5, <1>6 DEF RegistryExact

LEMMA RegistryClose ==
  ASSUME TypeOK, NEW v \in Vaults, RegistryExact(v), NEW c \in Counterparties,
         CloseSession(v, c)
  PROVE  RegistryExact(v)'
  <1>1. /\ session'[v][c] = VacantSession
        /\ \A s \in Counterparties \ {c} : session'[v][s] = session[v][s]
        /\ vault' = vault
        /\ session[v][c].version = 0
    BY DEF CloseSession, TypeOK
  <1>2. VacantSession.version = 0 /\ VacantSession.allowed_counterparty = DefaultKey
    BY DEF VacantSession, ClearedSession
  <1>3. NamesItsCounterparty(v)'
    BY <1>1, <1>2 DEF RegistryExact, NamesItsCounterparty
  <1>4. Registered(v)' = Registered(v)
    BY <1>1, <1>2 DEF Registered
  <1> QED BY <1>1, <1>3, <1>4 DEF RegistryExact

LEMMA SessionsBySessions ==
  ASSUME DefaultKey \notin Counterparties, TypeOK, SessionsInv,
         NEW v \in Vaults, SessionsNext(v)
  PROVE  SessionsInv'
  <1>1. RegistryExact(v)'
    BY RegistryRegister, RegistryRevoke, RegistryClose
    DEF SessionsNext, Register, SessionsInv
  <1>2. ASSUME NEW w \in Vaults, w # v PROVE RegistryKept(w)
    <2>1. vault'[w] = vault[w] /\ session'[w] = session[w]
      <3>1. ASSUME NEW c \in Counterparties, NEW max_amount \in Amounts,
                   NEW capacity \in Amounts, NEW expires_at \in 1 .. MaxTime + 1,
                   NEW siblings \in SUBSET Counterparties,
                   RegisterSessionKey(v, c, max_amount, capacity, expires_at, siblings)
            PROVE  vault'[w] = vault[w] /\ session'[w] = session[w]
        <4>1. PICK n : vault' = [vault EXCEPT ![v].live_session_count = n]
          BY <3>1 DEF RegisterSessionKey
        <4>2. PICK row : session' = [session EXCEPT ![v] = row]
          BY <3>1 DEF RegisterSessionKey
        <4> QED BY <1>2, <4>1, <4>2 DEF TypeOK
      <3>2. ASSUME NEW c \in Counterparties, RevokeSessionKey(v, c)
            PROVE  vault'[w] = vault[w] /\ session'[w] = session[w]
        BY <1>2, <3>2 DEF RevokeSessionKey, TypeOK
      <3>3. ASSUME NEW c \in Counterparties, CloseSession(v, c)
            PROVE  vault'[w] = vault[w] /\ session'[w] = session[w]
        BY <1>2, <3>3 DEF CloseSession, TypeOK
      <3> QED BY <3>1, <3>2, <3>3 DEF SessionsNext, Register
    <2> QED BY <2>1 DEF RegistryKept
  <1> QED BY <1>1, <1>2, KeptRegistry DEF SessionsInv

LEMMA RegistryKeptByVouchers ==
  ASSUME TypeOK, NEW v \in Vaults, VouchersNext(v) \/ SetSwig(v), NEW w \in Vaults
  PROVE  RegistryKept(w)
  <1> USE DEF TypeOK, RegistryKept
  <1>1. ASSUME NEW c \in Counterparties, NEW amount \in Amounts, SettleVoucherOpen(v, c, amount)
        PROVE  RegistryKept(w)
    BY <1>1 DEF SettleVoucherOpen, VaultAccount, SessionAccount
  <1>2. ASSUME SettleVoucherClose(v) PROVE RegistryKept(w)
    BY <1>2 DEF SettleVoucherClose, VaultAccount
  <1>3. ASSUME NEW c \in Counterparties, NEW amount \in Amounts, SettleTabVoucher(v, c, amount)
        PROVE  RegistryKept(w)
    BY <1>3 DEF SettleTabVoucher, VaultAccount, SessionAccount
  <1>4. ASSUME SetSwig(v) PROVE RegistryKept(w)
    BY <1>4 DEF SetSwig, VaultAccount
  <1> QED BY <1>1, <1>2, <1>3, <1>4 DEF VouchersNext

LEMMA RegistryKeptByLocks ==
  ASSUME TypeOK, NEW v \in Vaults, LocksNext(v), NEW w \in Vaults
  PROVE  RegistryKept(w)
  <1> USE DEF TypeOK, RegistryKept
  <1>1. ASSUME NEW h \in Hashes, NEW c \in Counterparties, NEW maturity \in Deadlines,
               NEW recovery \in Deadlines, NEW holder \in Holders,
               LockVoucher(v, c, h, maturity, recovery, holder)
        PROVE  RegistryKept(w)
    <2> DEFINE delta == h[2] - session[v][c].crystallized_cumulative
    <2>1. vault' = [vault EXCEPT
                ![v].outstanding_locked_amount = vault[v].outstanding_locked_amount + delta,
                ![v].total_crystallized_amount = @ + delta]
      BY <1>1 DEF LockVoucher
    <2>2. session' = [session EXCEPT
                ![v][c].current_outstanding = SaturatingSub(@, delta),
                ![v][c].crystallized_cumulative = @ + delta]
      BY <1>1 DEF LockVoucher
    <2>3. now' = now
      BY <1>1 DEF LockVoucher
    <2> HIDE DEF delta
    <2> QED BY <2>1, <2>2, <2>3 DEF VaultAccount, SessionAccount
  <1>2. ASSUME NEW h \in Hashes, NEW holder \in Holders, SettleLockedVoucher(v, h, holder)
        PROVE  RegistryKept(w)
    BY <1>2 DEF SettleLockedVoucher, VaultAccount
  <1>3. ASSUME NEW h \in Hashes, NEW holder \in Holders, NEW new_holder \in Holders,
               TransferLockOwnership(v, h, holder, new_holder)
        PROVE  RegistryKept(w)
    BY <1>3 DEF TransferLockOwnership
  <1>4. ASSUME NEW h \in Hashes, RecoverAbandonedLock(v, h)
        PROVE  RegistryKept(w)
    BY <1>4 DEF RecoverAbandonedLock, VaultAccount
  <1> QED BY <1>1, <1>2, <1>3, <1>4 DEF LocksNext

LEMMA RegistryKeptByWithdrawals ==
  ASSUME TypeOK, NEW v \in Vaults, WithdrawalsNext(v), NEW w \in Vaults
  PROVE  RegistryKept(w)
  <1> USE DEF TypeOK, RegistryKept, VaultAccount
  <1>1. ASSUME NEW amount, NEW signed_at, RequestWithdrawal(v, amount, signed_at)
        PROVE  RegistryKept(w)
    BY <1>1 DEF RequestWithdrawal
  <1>2. ASSUME FinalizeWithdrawal(v) PROVE RegistryKept(w)
    BY <1>2 DEF FinalizeWithdrawal
  <1>3. ASSUME ForceRelease(v) PROVE RegistryKept(w)
    BY <1>3 DEF ForceRelease
  <1> QED BY <1>1, <1>2, <1>3 DEF WithdrawalsNext, Request

LEMMA RegistryKeptByStandby ==
  ASSUME TypeOK, NEW v \in Vaults, StandbyNext(v), NEW w \in Vaults
  PROVE  RegistryKept(w)
  <1> USE DEF TypeOK, RegistryKept, VaultAccount
  <1>1. ASSUME NEW f \in Financiers, NEW amount \in Amounts, SetStandbyReserve(f, amount)
        PROVE  RegistryKept(w)
    BY <1>1 DEF SetStandbyReserve
  <1>2. ASSUME NEW f \in Financiers, NEW cap \in Amounts, OpenStandby(v, f, cap)
        PROVE  RegistryKept(w)
    BY <1>2 DEF OpenStandby
  <1>3. ASSUME NEW f \in Financiers, NEW amount \in Amounts, NEW window \in Windows,
               DrawCredit(v, f, amount, window)
        PROVE  RegistryKept(w)
    BY <1>3 DEF DrawCredit
  <1>4. ASSUME NEW f \in Financiers, NEW amount \in Amounts, RepayCredit(v, f, amount)
        PROVE  RegistryKept(w)
    BY <1>4 DEF RepayCredit
  <1>5. ASSUME NEW f \in Financiers, SeizeCollateral(v, f) PROVE RegistryKept(w)
    BY <1>5 DEF SeizeCollateral
  <1>6. ASSUME NEW f \in Financiers, CloseStandby(v, f) PROVE RegistryKept(w)
    BY <1>6 DEF CloseStandby
  <1> QED BY <1>1, <1>2, <1>3, <1>4, <1>5, <1>6 DEF StandbyNext

LEMMA SessionsStep ==
  ASSUME DefaultKey \notin Counterparties
  PROVE  TypeOK /\ SessionsInv /\ [Next]_vars => SessionsInv'
  <1> SUFFICES ASSUME TypeOK, SessionsInv, [Next]_vars PROVE SessionsInv'
    OBVIOUS
  <1>1. ASSUME \A w \in Vaults : RegistryKept(w) PROVE SessionsInv'
    BY <1>1, KeptRegistry DEF SessionsInv
  <1>2. ASSUME NEW v \in Vaults,
               SetSwig(v) \/ VouchersNext(v) \/ LocksNext(v) \/ WithdrawalsNext(v)
                   \/ StandbyNext(v)
        PROVE  SessionsInv'
    BY <1>1, <1>2, RegistryKeptByVouchers, RegistryKeptByLocks,
       RegistryKeptByWithdrawals, RegistryKeptByStandby
  <1>3. CASE Environment
    BY <1>1, <1>3 DEF Environment, Deposit, MasterSpend, Tick, RegistryKept
  <1>4. CASE UNCHANGED vars
    BY <1>1, <1>4 DEF vars, RegistryKept
  <1> QED BY <1>2, <1>3, <1>4, SessionsBySessions DEF Next

\* The vault's session count is exact whatever mix of registrations, replacements,
\* sweeps, revocations and closes led there, for any finite set of counterparties
\* without the all-zero key.
THEOREM SessionCountIsExact ==
  ASSUME DefaultKey \notin Counterparties
  PROVE  Spec => []LiveCountExact
  <1>1. Init => SessionsInv
    BY SessionsInit
  <1>2. TypeOK /\ SessionsInv /\ [Next]_vars => SessionsInv'
    BY SessionsStep
  <1>3. SessionsInv => LiveCountExact
    BY DEF SessionsInv, RegistryExact, LiveCountExact
  <1> QED BY <1>1, <1>2, <1>3, TypeCorrect, PTL DEF Spec

\* The sibling gate of register_session_key admits the full list of the other
\* sessions and nothing else, in every reachable state.
THEOREM GateIsExact ==
  ASSUME DefaultKey \notin Counterparties
  PROVE  Spec => []GateAdmitsExactlyTheOthers
  <1>1. Init => SessionsInv
    BY SessionsInit
  <1>2. TypeOK /\ SessionsInv /\ [Next]_vars => SessionsInv'
    BY SessionsStep
  <1>3. TypeOK /\ SessionsInv => GateAdmitsExactlyTheOthers
    BY GateExact DEF SessionsInv, GateAdmitsExactlyTheOthers
  <1> QED BY <1>1, <1>2, <1>3, TypeCorrect, PTL DEF Spec

\* The list of the other sessions passes every check on the siblings, the last one
\* too: the expired among them are no more than the sessions counted.
LEMMA FullListAdmitted ==
  ASSUME DefaultKey \notin Counterparties, TypeOK, SessionsInv
  PROVE  ExpiredSessionsNeverBlock
  <1> SUFFICES ASSUME NEW v \in Vaults, NEW c \in Counterparties,
                      NEW max_amount \in Amounts, NEW capacity \in Amounts,
                      NEW expires_at \in 1 .. MaxTime + 1,
                      max_amount > 0, capacity > 0, expires_at > now,
                      Cardinality(Registered(v)) < MaxSessions,
                      WithinBalance(v, {s \in Others(v, c) : IsLive(v, s)}, max_amount)
               PROVE  RegistrationAdmitted(v, c, max_amount, capacity, expires_at, Others(v, c))
    BY DEF ExpiredSessionsNeverBlock
  <1> DEFINE O == Others(v, c)
             swept == O \ {s \in O : IsLive(v, s)}
  <1>1. RegistryExact(v) /\ O \in SUBSET Counterparties
    BY DEF SessionsInv, Others
  <1>2. SiblingsDerived(v, c, O) /\ SiblingsComplete(v, c, O)
    BY <1>1, GateExact
  <1>3. vault[v].live_session_count = Cardinality(Registered(v))
    BY <1>1 DEF RegistryExact
  <1>4. Cardinality(swept) <= Cardinality(Registered(v))
    <2>1. O \subseteq Registered(v)
      BY RegisteredFinite
    <2>2. swept \in SUBSET Registered(v)
      BY <2>1
    <2> HIDE DEF swept, O
    <2> QED BY <2>2, RegisteredFinite, FS_Subset
  <1> QED BY <1>2, <1>3, <1>4 DEF RegistrationAdmitted

\* Sessions that expired without anyone telling the vault, below the limit, never
\* keep register_session_key from admitting a registration the wallet can bear,
\* in any reachable state and for any finite set of counterparties without the
\* all-zero key.
THEOREM RegistrationsAreAdmitted ==
  ASSUME DefaultKey \notin Counterparties
  PROVE  Spec => []ExpiredSessionsNeverBlock
  <1>1. Init => SessionsInv
    BY SessionsInit
  <1>2. TypeOK /\ SessionsInv /\ [Next]_vars => SessionsInv'
    BY SessionsStep
  <1>3. TypeOK /\ SessionsInv => ExpiredSessionsNeverBlock
    BY FullListAdmitted
  <1> QED BY <1>1, <1>2, <1>3, TypeCorrect, PTL DEF Spec

-----------------------------------------------------------------------------
(***************************************************************************)
(* The overcommit check.  The gate forces the list of siblings to be all   *)
(* the other sessions, so the sum the check makes over the live ones and   *)
(* the new cap is the sum over every session that can spend afterwards.    *)
(***************************************************************************)

TermsSet(v) ==
    \E c \in Counterparties :
        /\ session'[v][c].version = 1
        /\ \/ session'[v][c].expires_at # session[v][c].expires_at
           \/ session'[v][c].max_amount # session[v][c].max_amount

CommitmentsFit(v) ==
    CommittedCaps(v) + vault[v].outstanding_locked_amount <= WalletBalance(v)

LEMMA RegistrationFits ==
  ASSUME DefaultKey \notin Counterparties, TypeOK,
         NEW v \in Vaults, RegistryExact(v), NEW c \in Counterparties,
         NEW max_amount \in Amounts, NEW capacity \in Amounts,
         NEW expires_at \in 1 .. MaxTime + 1, NEW siblings \in SUBSET Counterparties,
         RegisterSessionKey(v, c, max_amount, capacity, expires_at, siblings)
  PROVE  CommitmentsFit(v)'
  <1> DEFINE live == {s \in siblings : IsLive(v, s)}
             swept == siblings \ live
             O == Others(v, c)
             reg == NewRegistration(c, max_amount, capacity, expires_at)
             f == Caps(v)
             g == Caps(v)'
  <1>1. siblings = O /\ c \notin O
    BY GateExact DEF RegisterSessionKey, RegistrationAdmitted, Others
  <1>2. \A s \in Counterparties :
            session'[v][s] = IF s = c THEN reg
                             ELSE IF s \in swept THEN ClearedSession ELSE session[v][s]
    BY RegisteredRow
  <1>3. /\ reg.version = 1 /\ reg.max_amount = max_amount /\ reg.expires_at = expires_at
        /\ ClearedSession.version = 0
    BY DEF NewRegistration, ClearedSession
  <1>4. now' = now /\ expires_at > now /\ ata' = ata /\ max_amount \in Nat
    BY ConstantsAssumption DEF RegisterSessionKey, RegistrationAdmitted
  <1>5. vault'[v].swig_bound = vault[v].swig_bound
        /\ vault'[v].outstanding_locked_amount = vault[v].outstanding_locked_amount
    <2>1. PICK n : vault' = [vault EXCEPT ![v].live_session_count = n]
      BY DEF RegisterSessionKey
    <2> QED BY <2>1 DEF TypeOK, VaultAccount
  <1>6. Total(f, live) + max_amount + vault[v].outstanding_locked_amount <= WalletBalance(v)
    BY DEF RegisterSessionKey, RegistrationAdmitted, WithinBalance
  <1> HIDE DEF reg
  <1>7. {s \in Registered(v) : IsLive(v, s)}' = live \cup {c}
    <2>1. ASSUME NEW s \in Counterparties
          PROVE  session'[v][s].version # 0 /\ session'[v][s].expires_at > now
                    <=> s \in live \cup {c}
      <3>1. CASE s = c
        BY <1>2, <1>3, <1>4, <3>1
      <3>2. CASE s # c /\ s \in live
        <4>1. session'[v][s] = session[v][s]
          BY <1>2, <3>2
        <4> QED BY <1>1, <3>2, <4>1 DEF Others, IsLive
      <3>3. CASE s # c /\ s \in swept
        BY <1>2, <1>3, <3>3
      <3>4. CASE s # c /\ s \notin siblings
        <4>1. session'[v][s] = session[v][s]
          BY <1>2, <3>4
        <4> QED BY <1>1, <3>4, <4>1 DEF Others
      <3> QED BY <3>1, <3>2, <3>3, <3>4
    <2>2. {s \in Registered(v) : IsLive(v, s)}' =
            {s \in Counterparties : session'[v][s].version # 0 /\ session'[v][s].expires_at > now}
      BY <1>4 DEF Registered, IsLive
    <2>3. live \cup {c} \in SUBSET Counterparties
      OBVIOUS
    <2> QED BY <2>1, <2>2, <2>3
  <1>8. g[c] = max_amount /\ \A s \in live : g[s] = f[s] /\ f[s] \in Nat
    BY <1>1, <1>2, <1>3, SessionFields DEF Caps
  <1>9. c \notin live /\ IsFiniteSet(live)
    BY <1>1, ConstantsAssumption, FS_Subset
  <1>10. WalletBalance(v)' = WalletBalance(v)
    BY <1>4, <1>5 DEF WalletBalance
  <1>11. CommittedCaps(v)' = Total(g, live \cup {c})
    BY <1>7 DEF CommittedCaps
  <1> HIDE DEF live, f, g
  <1>12. /\ IsFiniteSet(Units(f, live)) /\ Total(f, live) \in Nat
    BY <1>8, <1>9, TotalFinite
  <1>13. Units(g, live) = Units(f, live) /\ Total(g, live) = Total(f, live)
    BY <1>8, TotalCongruence
  <1>14. IsFiniteSet(Units(g, live)) /\ g[c] \in Nat
    BY <1>4, <1>8, <1>12, <1>13
  <1>15. Total(g, live \cup {c}) = Total(g, live) + g[c]
    BY <1>9, <1>14, TotalAdd
  <1>16. CommittedCaps(v)' = Total(f, live) + max_amount
    BY <1>8, <1>11, <1>13, <1>15
  <1> QED BY <1>5, <1>6, <1>10, <1>16 DEF CommitmentsFit

LEMMA CommitStep ==
  ASSUME DefaultKey \notin Counterparties, TypeOK, SessionsInv, [Next]_vars,
         NEW w \in Vaults, TermsSet(w)
  PROVE  CommitmentsFit(w)'
  <1>1. ~RegistryKept(w)
    BY DEF TermsSet, RegistryKept
  <1>2. ASSUME NEW v \in Vaults, NEW c \in Counterparties, NEW max_amount \in Amounts,
               NEW capacity \in Amounts, NEW expires_at \in 1 .. MaxTime + 1,
               NEW siblings \in SUBSET Counterparties,
               RegisterSessionKey(v, c, max_amount, capacity, expires_at, siblings)
        PROVE  CommitmentsFit(w)'
    <2>1. CASE w = v
      BY <1>2, <2>1, RegistrationFits DEF SessionsInv
    <2>2. CASE w # v
      <3>1. PICK row : session' = [session EXCEPT ![v] = row]
        BY <1>2 DEF RegisterSessionKey
      <3>2. session'[w] = session[w]
        BY <2>2, <3>1 DEF TypeOK
      <3> QED BY <3>2 DEF TermsSet
    <2> QED BY <2>1, <2>2
  <1>3. ASSUME NEW v \in Vaults, NEW c \in Counterparties, RevokeSessionKey(v, c)
        PROVE  FALSE
    <2>1. \A d \in Counterparties :
              session'[w][d] = session[w][d] \/ session'[w][d] = ClearedSession
      BY <1>3 DEF RevokeSessionKey, TypeOK
    <2> QED BY <2>1 DEF TermsSet, ClearedSession
  <1>4. ASSUME NEW v \in Vaults, NEW c \in Counterparties, CloseSession(v, c)
        PROVE  FALSE
    <2>1. \A d \in Counterparties :
              session'[w][d] = session[w][d] \/ session'[w][d] = VacantSession
      BY <1>4 DEF CloseSession, TypeOK
    <2> QED BY <2>1 DEF TermsSet, VacantSession, ClearedSession
  <1>5. ASSUME Environment \/ UNCHANGED vars PROVE RegistryKept(w)
    BY <1>5 DEF Environment, Deposit, MasterSpend, Tick, vars, RegistryKept
  <1> QED BY <1>1, <1>2, <1>3, <1>4, <1>5, RegistryKeptByVouchers, RegistryKeptByLocks,
             RegistryKeptByWithdrawals, RegistryKeptByStandby
          DEF Next, SessionsNext, Register

\* Right after a registration the caps of all live sessions and the locked claims
\* fit in the wallet, for any finite set of counterparties without the all-zero
\* key and any history of registrations, sweeps, revocations and expiries.
THEOREM RegistrationsFit ==
  ASSUME DefaultKey \notin Counterparties
  PROVE  Spec => RegisterNeverOvercommits
  <1>1. Init => SessionsInv
    BY SessionsInit
  <1>2. TypeOK /\ SessionsInv /\ [Next]_vars => SessionsInv'
    BY SessionsStep
  <1>3. TypeOK /\ SessionsInv /\ [Next]_vars
            => [\A v \in Vaults :
                 (\E c \in Counterparties :
                     /\ session'[v][c].version = 1
                     /\ \/ session'[v][c].expires_at # session[v][c].expires_at
                        \/ session'[v][c].max_amount # session[v][c].max_amount)
                 => CommittedCaps(v)' + vault'[v].outstanding_locked_amount
                        <= WalletBalance(v)']_vars
    BY CommitStep DEF TermsSet, CommitmentsFit
  <1> QED BY <1>1, <1>2, <1>3, TypeCorrect, PTL
      DEF Spec, RegisterNeverOvercommits

-----------------------------------------------------------------------------
(***************************************************************************)
(* What a session can move.  Inductively: both odometers are within the    *)
(* cap, and they are never equal but at zero, since the one that moves     *)
(* moves beyond the other.                                                 *)
(***************************************************************************)

Metered(s) ==
    s.version # 0 =>
        /\ s.max_amount > 0
        /\ s.spent <= s.max_amount
        /\ s.crystallized_cumulative <= s.max_amount
        /\ s.spent = s.crystallized_cumulative => s.spent = 0

MetersInv == \A v \in Vaults, c \in Counterparties : Metered(session[v][c])

\* The terms and both odometers stay what they are.
LEMMA MetersKept ==
  ASSUME TypeOK, MetersInv, NEW w \in Vaults, NEW d \in Counterparties,
         session'[w][d].version = session[w][d].version,
         session'[w][d].max_amount = session[w][d].max_amount,
         session'[w][d].spent = session[w][d].spent,
         session'[w][d].crystallized_cumulative = session[w][d].crystallized_cumulative
  PROVE  Metered(session'[w][d])
  <1>1. Metered(session[w][d])
    BY DEF MetersInv
  <1> QED BY <1>1 DEF Metered

\* Registering starts both odometers at zero under a cap that is not; revoking,
\* sweeping and closing leave no session.
LEMMA MeteredBySessions ==
  ASSUME TypeOK, MetersInv, NEW v \in Vaults, SessionsNext(v),
         NEW w \in Vaults, NEW d \in Counterparties
  PROVE  Metered(session'[w][d])
  <1>0. Metered(ClearedSession) /\ Metered(VacantSession) /\ Metered(session[w][d])
    BY DEF Metered, ClearedSession, VacantSession, MetersInv
  <1>1. ASSUME NEW c \in Counterparties, NEW max_amount \in Amounts, NEW capacity \in Amounts,
               NEW expires_at \in 1 .. MaxTime + 1, NEW siblings \in SUBSET Counterparties,
               RegisterSessionKey(v, c, max_amount, capacity, expires_at, siblings)
        PROVE  Metered(session'[w][d])
    <2> DEFINE reg == NewRegistration(c, max_amount, capacity, expires_at)
    <2>1. Metered(reg)
      <3>1. max_amount > 0 /\ max_amount \in Nat
        BY <1>1, ConstantsAssumption DEF RegisterSessionKey, RegistrationAdmitted
      <3> QED BY <3>1 DEF NewRegistration, Metered
    <2>2. CASE w = v
      <3>1. session'[v][d] \in {reg, ClearedSession, session[v][d]}
        BY <1>1, RegisteredRow
      <3> HIDE DEF reg
      <3> QED BY <1>0, <2>1, <2>2, <3>1
    <2>3. CASE w # v
      <3>1. session'[w] = session[w]
        BY <1>1, <2>3 DEF RegisterSessionKey, TypeOK
      <3> QED BY <1>0, <3>1
    <2> QED BY <2>2, <2>3
  <1>2. ASSUME NEW c \in Counterparties, RevokeSessionKey(v, c) PROVE Metered(session'[w][d])
    <2>1. session'[w][d] = session[w][d] \/ session'[w][d] = ClearedSession
      BY <1>2 DEF RevokeSessionKey, TypeOK
    <2> QED BY <1>0, <2>1
  <1>3. ASSUME NEW c \in Counterparties, CloseSession(v, c) PROVE Metered(session'[w][d])
    <2>1. session'[w][d] = session[w][d] \/ session'[w][d] = VacantSession
      BY <1>3 DEF CloseSession, TypeOK
    <2> QED BY <1>0, <2>1
  <1> QED BY <1>1, <1>2, <1>3 DEF SessionsNext, Register

\* An accepted voucher puts one odometer at a value within the cap and beyond the
\* other.
LEMMA MeteredByVouchers ==
  ASSUME TypeOK, MetersInv, NEW v \in Vaults, VouchersNext(v),
         NEW w \in Vaults, NEW d \in Counterparties
  PROVE  Metered(session'[w][d])
  <1>1. ASSUME NEW c \in Counterparties, NEW amount \in Amounts, SettleVoucherOpen(v, c, amount)
        PROVE  Metered(session'[w][d])
    <2>1. /\ session'[w][d].version = session[w][d].version
          /\ session'[w][d].max_amount = session[w][d].max_amount
          /\ session'[w][d].spent = session[w][d].spent
          /\ session'[w][d].crystallized_cumulative = session[w][d].crystallized_cumulative
      BY <1>1 DEF SettleVoucherOpen, TypeOK, SessionAccount
    <2> QED BY <2>1, MetersKept
  <1>2. ASSUME SettleVoucherClose(v) PROVE Metered(session'[w][d])
    BY <1>2, MetersKept DEF SettleVoucherClose
  <1>3. ASSUME NEW c \in Counterparties, NEW amount \in Amounts, SettleTabVoucher(v, c, amount)
        PROVE  Metered(session'[w][d])
    <2>1. CASE <<w, d>> # <<v, c>>
      <3>1. session'[w][d] = session[w][d]
        BY <1>3, <2>1 DEF SettleTabVoucher, TypeOK
      <3> QED BY <3>1, MetersKept
    <2>2. CASE w = v /\ d = c
      <3>1. /\ session'[v][c].spent = amount
            /\ session'[v][c].crystallized_cumulative = session[v][c].crystallized_cumulative
            /\ session'[v][c].max_amount = session[v][c].max_amount
        BY <1>3 DEF SettleTabVoucher, TypeOK, SessionAccount
      <3>2. /\ amount > session[v][c].crystallized_cumulative
            /\ amount <= session[v][c].max_amount
            /\ amount \in Nat
        BY <1>3, SessionFields, ConstantsAssumption
           DEF SettleTabVoucher, VoucherAccepted, Frontier, Larger
      <3> QED BY <2>2, <3>1, <3>2, SessionFields DEF Metered
    <2> QED BY <2>1, <2>2
  <1> QED BY <1>1, <1>2, <1>3 DEF VouchersNext

LEMMA MeteredByLocks ==
  ASSUME TypeOK, MetersInv, NEW v \in Vaults, LocksNext(v),
         NEW w \in Vaults, NEW d \in Counterparties
  PROVE  Metered(session'[w][d])
  <1>1. ASSUME NEW h \in Hashes, NEW c \in Counterparties, NEW maturity \in Deadlines,
               NEW recovery \in Deadlines, NEW holder \in Holders,
               LockVoucher(v, c, h, maturity, recovery, holder)
        PROVE  Metered(session'[w][d])
    <2> DEFINE delta == h[2] - session[v][c].crystallized_cumulative
    <2>1. session' = [session EXCEPT
                ![v][c].current_outstanding = SaturatingSub(@, delta),
                ![v][c].crystallized_cumulative = @ + delta]
      BY <1>1 DEF LockVoucher
    <2>2. /\ h[2] > session[v][c].spent
          /\ h[2] <= session[v][c].max_amount
          /\ h[2] \in Nat
      BY <1>1, SessionFields, ConstantsAssumption
         DEF LockVoucher, VoucherAccepted, Frontier, Larger, Hashes
    <2>3. session[v][c].crystallized_cumulative + delta = h[2]
      BY <2>2, SessionFields
    <2> HIDE DEF delta
    <2>4. CASE <<w, d>> # <<v, c>>
      <3>1. session'[w][d] = session[w][d]
        BY <2>1, <2>4 DEF TypeOK
      <3> QED BY <3>1, MetersKept
    <2>5. CASE w = v /\ d = c
      <3>1. /\ session'[v][c].spent = session[v][c].spent
            /\ session'[v][c].crystallized_cumulative = h[2]
            /\ session'[v][c].max_amount = session[v][c].max_amount
        BY <2>1, <2>3 DEF TypeOK, SessionAccount
      <3> QED BY <2>2, <2>5, <3>1, SessionFields DEF Metered
    <2> QED BY <2>4, <2>5
  <1>2. ASSUME NEW h \in Hashes, NEW holder \in Holders, SettleLockedVoucher(v, h, holder)
        PROVE  session' = session
    BY <1>2 DEF SettleLockedVoucher
  <1>3. ASSUME NEW h \in Hashes, NEW holder \in Holders, NEW new_holder \in Holders,
               TransferLockOwnership(v, h, holder, new_holder)
        PROVE  session' = session
    BY <1>3 DEF TransferLockOwnership
  <1>4. ASSUME NEW h \in Hashes, RecoverAbandonedLock(v, h) PROVE session' = session
    BY <1>4 DEF RecoverAbandonedLock
  <1> QED BY <1>1, <1>2, <1>3, <1>4, MetersKept DEF LocksNext

LEMMA MetersStep == TypeOK /\ MetersInv /\ [Next]_vars => MetersInv'
  <1> SUFFICES ASSUME TypeOK, MetersInv, [Next]_vars, NEW w \in Vaults, NEW d \in Counterparties
               PROVE  Metered(session'[w][d])
    BY DEF MetersInv, Metered
  <1>1. ASSUME Environment \/ UNCHANGED vars PROVE session' = session
    BY <1>1 DEF Environment, Deposit, MasterSpend, Tick, vars
  <1> QED BY <1>1, SessionsUntouched, MetersKept, MeteredBySessions, MeteredByVouchers,
             MeteredByLocks DEF Next

\* A session moves its cap once and at most one unit short of a second time, tabs
\* and locks together, whatever the vouchers and the order they are submitted in.
THEOREM SessionsAreMetered == Spec => []SessionMovesLessThanTwiceItsCap
  <1>1. Init => MetersInv
    <2>1. VacantSession.version = 0
      BY DEF VacantSession, ClearedSession
    <2> QED BY <2>1 DEF Init, MetersInv, Metered
  <1>2. TypeOK /\ MetersInv /\ [Next]_vars => MetersInv'
    BY MetersStep
  <1>3. TypeOK /\ MetersInv => SessionMovesLessThanTwiceItsCap
    BY SessionFields DEF MetersInv, Metered, SessionMovesLessThanTwiceItsCap
  <1> QED BY <1>1, <1>2, <1>3, TypeCorrect, PTL DEF Spec

=================================================================================
