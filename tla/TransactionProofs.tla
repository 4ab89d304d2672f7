---------------------------- MODULE TransactionProofs ----------------------------
(***************************************************************************)
(* Keys, wallets and payments, for any number of vaults, keys, assertions  *)
(* and transactions of any length.                                         *)
(*                                                                         *)
(* Every fact below is one about the accounts, and holds of the working    *)
(* copy a transaction has and of the accounts it falls back to alike: the  *)
(* parts of the invariant are predicates of the accounts.                  *)
(***************************************************************************)
EXTENDS Transactions, TLAPS, FiniteSetTheorems

Wallets ==
    {<<>>, SubSeq(OnboardingRoles(FeePayer, Master), 1, 3), OnboardingRoles(FeePayer, Master)}

Typed(va, sw, pd, ap) ==
    /\ va \in [Vaults -> Account \cup {None}]
    /\ sw \in [Swigs -> Wallets]
    /\ pd \in [Swigs -> [Markers -> Nat]]
    /\ IsABag(ap) /\ DOMAIN ap \subseteq Assertion \X Vaults

\* A wallet of the program's own making is bound.
Owned(va, sw) ==
    \A s \in Swigs : Len(sw[s]) = 4 =>
        \E v \in Vaults : va[v] # None /\ va[v].swig_address = s

HasBeenUsed(k, va, ap) ==
    \/ \E v \in Vaults : va[v] # None /\ va[v].passkey_pubkey = k
    \/ \E x \in DOMAIN ap : x[1].key = k

\* r orders the keys by their first use.  What took effect on a vault was signed,
\* with a key the vault has left behind since, or bound the wallet it still has.
Ranked(r, va, ap) ==
    /\ \A a \in asserted : HasBeenUsed(a.key, va, ap)
    /\ \A x \in DOMAIN ap :
        /\ va[x[2]] # None /\ x[1] \in asserted
        /\ x[1].message.op \in {"rotate_passkey", "set_swig", "request_withdrawal"}
        /\ x[1].message.op = "rotate_passkey" =>
               r[x[1].key] < r[va[x[2]].passkey_pubkey] /\ ap[x] = 1
        /\ x[1].message.op = "set_swig" =>
               va[x[2]].swig_address # Default /\ ap[x] = 1

\* An owner signs for a key nobody has used: the rank goes up.
Forward(r) ==
    \A a \in asserted :
        a.message.op = "rotate_passkey" /\ a.message.new \in Passkeys
            => r[a.key] < r[a.message.new]

\* The order there is while every verification was of the bytes a handler reads.
Ordered(r, va, ap, el) == el = 0 => Forward(r) /\ Ranked(r, va, ap)

\* The accounts, and the accounts a transaction falls back to.
Sound(va, sw, pd, ap) == Typed(va, sw, pd, ap) /\ Owned(va, sw)

KeyInv ==
    /\ asserted \subseteq Assertion /\ now \in 0 .. MaxTime
    /\ elsewhere \in 0 .. MaxElsewhere
    /\ Sound(vault, swig, paid, applied)
    /\ InTransaction =>
        /\ Sound(before[1], before[2], before[3], before[4])
        /\ before[5] \in 0 .. MaxElsewhere
    /\ previous # None /\ previous.program = "secp256r1" =>
        /\ previous.assertion \in Assertion
        /\ elsewhere = 0 => previous.assertion \in asserted
    /\ \E r \in [Passkeys -> Nat] : Ordered(r, vault, applied, elsewhere)
    /\ InTransaction =>
        \E r \in [Passkeys -> Nat] : Ordered(r, before[1], before[4], before[5])

-----------------------------------------------------------------------------
LEMMA EmptyBagType == IsABag(EmptyBag) /\ DOMAIN EmptyBag = {}
  BY DEF IsABag, EmptyBag, SetToBag

LEMMA RolesOf ==
  /\ Len(<<>>) = 0
  /\ Len(SubSeq(OnboardingRoles(FeePayer, Master), 1, 3)) = 3
  /\ Len(OnboardingRoles(FeePayer, Master)) = 4
  BY DEF OnboardingRoles

LEMMA KeyInit == Init => KeyInv
  <1> SUFFICES ASSUME Init PROVE KeyInv
    OBVIOUS
  <1>1. Typed(vault, swig, paid, applied)
    BY EmptyBagType DEF Init, Typed, Wallets
  <1>2. Owned(vault, swig)
    BY RolesOf DEF Init, Owned
  <1>3. ~InTransaction /\ asserted = {} /\ DOMAIN applied = {}
    BY EmptyBagType DEF Init, InTransaction
  <1> DEFINE zero == [k \in Passkeys |-> 0]
  <1>4. zero \in [Passkeys -> Nat] /\ Forward(zero) /\ Ranked(zero, vault, applied)
    BY <1>3 DEF Forward, Ranked
  <1>5. now \in 0 .. MaxTime /\ elsewhere \in 0 .. MaxElsewhere
    BY TransactionsAssumption DEF Init
  <1> HIDE DEF zero
  <1> QED BY <1>1, <1>2, <1>3, <1>4, <1>5 DEF KeyInv, Sound, Init, Ordered

-----------------------------------------------------------------------------
(***************************************************************************)
(* What an instruction does to a vault.                                    *)
(***************************************************************************)

LEMMA AccountFields ==
  ASSUME NEW a \in Account
  PROVE  /\ a.passkey_pubkey \in Passkeys /\ a.dexter_authority \in Authorities
         /\ a.swig_address \in Swigs \cup {Default}
         /\ a.pending_withdrawal \in Withdrawals \cup {None}
         /\ a.spent \in 0 .. MaxCumulative
  BY DEF Account

LEMMA AssertionFields ==
  ASSUME NEW a \in Assertion
  PROVE  a.key \in Passkeys /\ a.message \in Message
  BY DEF Assertion

\* The assertion before a handler is one that was signed, unless the precompile
\* verified another.
LEMMA SignedFor ==
  ASSUME KeyInv, NEW v, NEW message, PasskeySigned(v, message)
  PROVE  LET a == [key |-> vault[v].passkey_pubkey, message |-> message]
         IN  a \in Assertion /\ (elsewhere = 0 => a \in asserted)
  BY DEF KeyInv, PasskeySigned

\* The account an instruction writes: it keeps the wallet it has.
Succeeds(old, new) ==
    /\ new \in Account
    /\ old # None => old.swig_address \in {new.swig_address, Default}

LEMMA OwnedPut ==
  ASSUME Sound(vault, swig, paid, applied), NEW v \in Vaults, NEW n, Succeeds(vault[v], n),
         vault' = [vault EXCEPT ![v] = n], swig' = swig
  PROVE  Owned(vault', swig')
  <1> SUFFICES ASSUME NEW s \in Swigs, Len(swig[s]) = 4
               PROVE  \E u \in Vaults : vault'[u] # None /\ vault'[u].swig_address = s
    BY DEF Owned
  <1>1. PICK u \in Vaults : vault[u] # None /\ vault[u].swig_address = s
    BY DEF Sound, Owned
  <1>2. CASE u = v
    BY <1>1, <1>2, TransactionsAssumption, VacantAssumption DEF Succeeds, Sound, Typed
  <1>3. CASE u # v
    BY <1>1, <1>3 DEF Sound, Typed
  <1> QED BY <1>2, <1>3

\* No assertion takes effect: the key stays.
LEMMA RankedPut ==
  ASSUME Sound(vault, swig, paid, applied), NEW v \in Vaults, NEW n, Succeeds(vault[v], n),
         vault[v] # None => n.passkey_pubkey = vault[v].passkey_pubkey,
         vault' = [vault EXCEPT ![v] = n], applied' = applied, asserted' = asserted,
         NEW r \in [Passkeys -> Nat], Ranked(r, vault, applied)
  PROVE  Ranked(r, vault, applied)'
  <1>1. vault'[v] = n /\ n # None /\ \A u \in Vaults \ {v} : vault'[u] = vault[u]
    BY VacantAssumption DEF Sound, Typed, Succeeds
  <1>2. ASSUME NEW k, HasBeenUsed(k, vault, applied) PROVE HasBeenUsed(k, vault', applied')
    BY <1>1, <1>2 DEF HasBeenUsed
  <1>3. \A a \in asserted : HasBeenUsed(a.key, vault, applied)'
    BY <1>2 DEF Ranked
  <1>4. ASSUME NEW x \in DOMAIN applied
        PROVE  /\ vault'[x[2]] # None /\ x[1] \in asserted
               /\ x[1].message.op \in {"rotate_passkey", "set_swig", "request_withdrawal"}
               /\ x[1].message.op = "rotate_passkey" =>
                      r[x[1].key] < r[vault'[x[2]].passkey_pubkey] /\ applied[x] = 1
               /\ x[1].message.op = "set_swig" =>
                      vault'[x[2]].swig_address # Default /\ applied[x] = 1
    <2>1. x[2] \in Vaults
      BY DEF Sound, Typed
    <2>2. CASE x[2] = v
      BY <1>1, <2>2 DEF Ranked, Succeeds
    <2>3. CASE x[2] # v
      BY <1>1, <2>1, <2>3 DEF Ranked
    <2> QED BY <2>2, <2>3
  <1> QED BY <1>3, <1>4 DEF Ranked

\* An assertion takes effect: a rotation for the first time, since the vault's key
\* was never as early again; a binding for the first time, since the vault had none.
LEMMA RankedApplied ==
  ASSUME Sound(vault, swig, paid, applied), NEW v \in Vaults, vault[v] # None,
         NEW n, Succeeds(vault[v], n),
         NEW a \in asserted, asserted \subseteq Assertion, a.key = vault[v].passkey_pubkey,
         a.message.op \in {"rotate_passkey", "set_swig", "request_withdrawal"},
         IF a.message.op = "rotate_passkey"
         THEN a.message.new \in Passkeys /\ n.passkey_pubkey = a.message.new
         ELSE n.passkey_pubkey = vault[v].passkey_pubkey,
         a.message.op = "set_swig" => vault[v].swig_address = Default /\ n.swig_address # Default,
         vault' = [vault EXCEPT ![v] = n], asserted' = asserted,
         applied' = applied (+) SetToBag({<<a, v>>}),
         NEW r \in [Passkeys -> Nat], Forward(r), Ranked(r, vault, applied)
  PROVE  Ranked(r, vault, applied)'
  <1> DEFINE y == <<a, v>>
  <1>1. vault'[v] = n /\ n # None /\ \A u \in Vaults \ {v} : vault'[u] = vault[u]
    BY VacantAssumption DEF Sound, Typed, Succeeds
  <1>2. /\ IsABag(applied)
        /\ DOMAIN applied' = DOMAIN applied \cup {y}
        /\ applied'[y] = (IF y \in DOMAIN applied THEN applied[y] ELSE 0) + 1
        /\ \A x \in DOMAIN applied : x # y => applied'[x] = applied[x]
    <2>1. IsABag(applied) /\ applied' = applied (+) SetToBag({y})
      BY DEF Sound, Typed
    <2> HIDE DEF y
    <2> QED BY <2>1 DEF IsABag, SetToBag, (+)
  <1>3. y[1] = a /\ y[2] = v
    OBVIOUS
  <1> HIDE DEF y
  <1>4. ASSUME NEW k, HasBeenUsed(k, vault, applied) PROVE HasBeenUsed(k, vault', applied')
    BY <1>1, <1>2, <1>3, <1>4 DEF HasBeenUsed
  <1>5. \A b \in asserted : HasBeenUsed(b.key, vault, applied)'
    BY <1>4 DEF Ranked
  <1>6. /\ vault[v].passkey_pubkey \in Passkeys /\ n.passkey_pubkey \in Passkeys
        /\ r[vault[v].passkey_pubkey] \in Nat /\ r[n.passkey_pubkey] \in Nat
        /\ r[vault[v].passkey_pubkey] <= r[n.passkey_pubkey]
        /\ a.message.op = "rotate_passkey" => r[a.key] < r[n.passkey_pubkey]
    <2>1. vault[v] \in Account /\ n \in Account
      BY DEF Sound, Typed, Succeeds
    <2>2. vault[v].passkey_pubkey \in Passkeys /\ n.passkey_pubkey \in Passkeys
      BY <2>1, AccountFields
    <2>3. CASE a.message.op = "rotate_passkey"
      BY <2>2, <2>3 DEF Forward
    <2>4. CASE a.message.op # "rotate_passkey"
      BY <2>2, <2>4
    <2> QED BY <2>2, <2>3, <2>4
  <1>7. a.message.op # "request_withdrawal" => y \notin DOMAIN applied
    BY <1>3, <1>6 DEF Ranked
  <1>8. ASSUME NEW x \in DOMAIN applied'
        PROVE  /\ vault'[x[2]] # None /\ x[1] \in asserted
               /\ x[1].message.op \in {"rotate_passkey", "set_swig", "request_withdrawal"}
               /\ x[1].message.op = "rotate_passkey" =>
                      r[x[1].key] < r[vault'[x[2]].passkey_pubkey] /\ applied'[x] = 1
               /\ x[1].message.op = "set_swig" =>
                      vault'[x[2]].swig_address # Default /\ applied'[x] = 1
    <2>1. CASE x = y
      BY <1>1, <1>2, <1>3, <1>6, <1>7, <2>1
    <2>2. CASE x # y
      <3>1. x \in DOMAIN applied /\ applied'[x] = applied[x]
        BY <1>2, <2>2
      <3>2. x[2] \in Vaults /\ x[1].key \in Passkeys
        BY <3>1, AssertionFields DEF Sound, Typed
      <3>3. CASE x[2] = v
        BY <1>1, <1>6, <3>1, <3>2, <3>3 DEF Ranked, Succeeds
      <3>4. CASE x[2] # v
        BY <1>1, <3>1, <3>2, <3>4 DEF Ranked
      <3> QED BY <3>3, <3>4
    <2> QED BY <2>1, <2>2
  <1> QED BY <1>5, <1>8 DEF Ranked

\* An instruction writes to the working copy only.
LEMMA InstructionKept ==
  ASSUME KeyInv, UNCHANGED <<before, asserted, now>>,
         Sound(vault, swig, paid, applied)',
         elsewhere' \in 0 .. MaxElsewhere, elsewhere' = 0 => elsewhere = 0,
         previous'.program = "secp256r1" =>
            /\ previous'.assertion \in Assertion
            /\ elsewhere' = 0 => previous'.assertion \in asserted,
         elsewhere = 0 =>
            \A r \in [Passkeys -> Nat] :
                Forward(r) /\ Ranked(r, vault, applied) => Ranked(r, vault, applied)'
  PROVE  KeyInv'
  <1>1. PICK r \in [Passkeys -> Nat] : Ordered(r, vault, applied, elsewhere)
    BY DEF KeyInv
  <1>2. Ordered(r, vault, applied, elsewhere)'
    BY <1>1 DEF Forward, Ordered
  <1>3. ASSUME NEW q, Ordered(q, before[1], before[4], before[5])
        PROVE  Ordered(q, before[1], before[4], before[5])'
    BY <1>3 DEF Forward, Ranked, Ordered
  <1>4. InTransaction' =>
            /\ Sound(before[1], before[2], before[3], before[4])'
            /\ before'[5] \in 0 .. MaxElsewhere
            /\ \E q \in [Passkeys -> Nat] : Ordered(q, before[1], before[4], before[5])'
    BY <1>3 DEF KeyInv, InTransaction
  <1> QED BY <1>1, <1>2, <1>4 DEF KeyInv

\* An instruction that writes a vault without applying an assertion.
LEMMA PlainKept ==
  ASSUME KeyInv, NEW v \in Vaults, NEW n, Succeeds(vault[v], n),
         vault[v] # None => n.passkey_pubkey = vault[v].passkey_pubkey,
         vault' = [vault EXCEPT ![v] = n], UNCHANGED <<swig, paid, applied>>,
         NEW name, NEW s, Handler(name, s)
  PROVE  KeyInv'
  <1>1. /\ UNCHANGED <<before, asserted, now, elsewhere>>
        /\ previous' = [program |-> "dexter_vault", name |-> name, swig |-> s]
    BY DEF Handler, Run
  <1>2. previous'.program # "secp256r1"
    BY <1>1
  <1>3. Sound(vault, swig, paid, applied)
    BY DEF KeyInv
  <1>4. Typed(vault, swig, paid, applied)'
    BY <1>3 DEF Sound, Typed, Succeeds
  <1>5. Owned(vault, swig)'
    BY <1>3, OwnedPut
  <1>6. ASSUME NEW r \in [Passkeys -> Nat], Ranked(r, vault, applied)
        PROVE  Ranked(r, vault, applied)'
    BY <1>1, <1>3, <1>6, RankedPut
  <1>7. elsewhere' \in 0 .. MaxElsewhere /\ (elsewhere' = 0 => elsewhere = 0)
    BY <1>1 DEF KeyInv
  <1> QED BY <1>1, <1>2, <1>4, <1>5, <1>6, <1>7, InstructionKept DEF Sound

\* An instruction that writes a vault on the word of its passkey.
LEMMA AppliedKept ==
  ASSUME KeyInv, NEW v \in Vaults, vault[v] # None, NEW n, Succeeds(vault[v], n),
         NEW message, PasskeySigned(v, message), Applied(v, message),
         message.op \in {"rotate_passkey", "set_swig", "request_withdrawal"},
         IF message.op = "rotate_passkey"
         THEN message.new \in Passkeys /\ n.passkey_pubkey = message.new
         ELSE n.passkey_pubkey = vault[v].passkey_pubkey,
         message.op = "set_swig" => vault[v].swig_address = Default /\ n.swig_address # Default,
         vault' = [vault EXCEPT ![v] = n],
         swig' \in [Swigs -> Wallets], Owned(vault, swig)', paid' = paid,
         NEW name, NEW s, Handler(name, s)
  PROVE  KeyInv'
  <1> DEFINE a == [key |-> vault[v].passkey_pubkey, message |-> message]
  <1>1. /\ UNCHANGED <<before, asserted, now, elsewhere>>
        /\ previous' = [program |-> "dexter_vault", name |-> name, swig |-> s]
    BY DEF Handler, Run
  <1>2. previous'.program # "secp256r1"
    BY <1>1
  <1>3. Sound(vault, swig, paid, applied) /\ asserted \subseteq Assertion
    BY DEF KeyInv
  <1>4. /\ a \in Assertion /\ a.key = vault[v].passkey_pubkey /\ a.message = message
        /\ elsewhere = 0 => a \in asserted
    BY SignedFor
  <1>5. applied' = applied (+) SetToBag({<<a, v>>})
    BY DEF Applied
  <1> HIDE DEF a
  <1>6. Typed(vault, swig, paid, applied)'
    <2>1. IsABag(applied) /\ DOMAIN applied \subseteq Assertion \X Vaults
      BY <1>3 DEF Sound, Typed
    <2>2. <<a, v>> \in Assertion \X Vaults
      BY <1>3, <1>4
    <2>3. IsABag(applied') /\ DOMAIN applied' = DOMAIN applied \cup {<<a, v>>}
      <3> DEFINE y == <<a, v>>
      <3>1. applied' = applied (+) SetToBag({y})
        BY <1>5
      <3> HIDE DEF y
      <3>2. IsABag(applied') /\ DOMAIN applied' = DOMAIN applied \cup {y}
        BY <2>1, <3>1 DEF IsABag, SetToBag, (+)
      <3> QED BY <3>2 DEF y
    <2>4. vault' \in [Vaults -> Account \cup {None}] /\ paid' \in [Swigs -> [Markers -> Nat]]
      BY <1>3 DEF Sound, Typed, Succeeds
    <2> QED BY <2>1, <2>2, <2>3, <2>4 DEF Typed
  <1>7. ASSUME elsewhere = 0,
               NEW r \in [Passkeys -> Nat], Forward(r), Ranked(r, vault, applied)
        PROVE  Ranked(r, vault, applied)'
    BY <1>1, <1>3, <1>4, <1>5, <1>7, RankedApplied
  <1>8. elsewhere' \in 0 .. MaxElsewhere /\ (elsewhere' = 0 => elsewhere = 0)
    BY <1>1 DEF KeyInv
  <1> QED BY <1>1, <1>2, <1>6, <1>7, <1>8, InstructionKept DEF Sound

LEMMA KeepsInitialize ==
  ASSUME KeyInv, NEW v \in Vaults, NEW key \in Passkeys \cup {Malformed},
         NEW authority \in Authorities, InitializeVault(v, key, authority)
  PROVE  KeyInv'
  <1> DEFINE n == [passkey_pubkey |-> key, dexter_authority |-> authority,
                   swig_address |-> Default, pending_withdrawal |-> None, spent |-> 0]
  <1>1. n \in Account
    BY TransactionsAssumption DEF InitializeVault, Account
  <1>2. /\ vault[v] = None /\ vault' = [vault EXCEPT ![v] = n]
        /\ Handler("initialize_vault", None) /\ UNCHANGED <<swig, paid, applied>>
    BY DEF InitializeVault
  <1> HIDE DEF n
  <1> QED BY <1>1, <1>2, PlainKept DEF Succeeds

LEMMA KeepsRotateAuthority ==
  ASSUME KeyInv, NEW v \in Vaults, NEW signer,
         NEW new \in Authorities \cup {Default}, RotateDexterAuthority(v, signer, new)
  PROVE  KeyInv'
  <1> DEFINE n == [vault[v] EXCEPT !.dexter_authority = new]
  <1>1. vault[v] # None /\ vault[v] \in Account /\ vault \in [Vaults -> Account \cup {None}]
    BY DEF RotateDexterAuthority, KeyInv, Sound, Typed
  <1>2. /\ n \in Account /\ n.passkey_pubkey = vault[v].passkey_pubkey
        /\ n.swig_address = vault[v].swig_address
    BY <1>1 DEF Account, RotateDexterAuthority
  <1>3. /\ vault' = [vault EXCEPT ![v] = n] /\ UNCHANGED <<swig, paid, applied>>
        /\ Handler("rotate_dexter_authority", None)
    BY <1>1 DEF RotateDexterAuthority
  <1> HIDE DEF n
  <1> QED BY <1>1, <1>2, <1>3, PlainKept DEF Succeeds

LEMMA KeepsFinalize ==
  ASSUME KeyInv, NEW v \in Vaults, FinalizeWithdrawal(v)
  PROVE  KeyInv'
  <1> DEFINE n == [vault[v] EXCEPT !.pending_withdrawal = None]
  <1>1. vault[v] # None /\ vault[v] \in Account /\ vault \in [Vaults -> Account \cup {None}]
    BY DEF FinalizeWithdrawal, KeyInv, Sound, Typed
  <1>2. /\ n \in Account /\ n.passkey_pubkey = vault[v].passkey_pubkey
        /\ n.swig_address = vault[v].swig_address
    BY <1>1 DEF Account, FinalizeWithdrawal
  <1>3. /\ vault' = [vault EXCEPT ![v] = n] /\ UNCHANGED <<swig, paid, applied>>
        /\ Handler("finalize_withdrawal", vault[v].swig_address)
    BY <1>1 DEF FinalizeWithdrawal
  <1> HIDE DEF n
  <1> QED BY <1>1, <1>2, <1>3, PlainKept DEF Succeeds

LEMMA KeepsSettleTab ==
  ASSUME KeyInv, NEW v \in Vaults, NEW cumulative \in 1 .. MaxCumulative,
         SettleTabVoucher(v, cumulative)
  PROVE  KeyInv'
  <1> DEFINE n == [vault[v] EXCEPT !.spent = cumulative]
  <1>1. vault[v] # None /\ vault[v] \in Account /\ vault \in [Vaults -> Account \cup {None}]
    BY DEF SettleTabVoucher, KeyInv, Sound, Typed
  <1>2. /\ n \in Account /\ n.passkey_pubkey = vault[v].passkey_pubkey
        /\ n.swig_address = vault[v].swig_address
    BY <1>1, TransactionsAssumption DEF Account, SettleTabVoucher
  <1>3. /\ vault' = [vault EXCEPT ![v] = n] /\ UNCHANGED <<swig, paid, applied>>
        /\ Handler("settle_tab_voucher", vault[v].swig_address)
    BY <1>1 DEF SettleTabVoucher
  <1> HIDE DEF n
  <1> QED BY <1>1, <1>2, <1>3, PlainKept DEF Succeeds

LEMMA KeepsRotatePasskey ==
  ASSUME KeyInv, NEW v \in Vaults, NEW new \in Passkeys \cup {Malformed},
         RotatePasskey(v, new)
  PROVE  KeyInv'
  <1> DEFINE message == [op |-> "rotate_passkey", new |-> new]
             n == [vault[v] EXCEPT !.passkey_pubkey = new]
  <1>1. vault[v] # None /\ vault[v] \in Account /\ vault \in [Vaults -> Account \cup {None}]
    BY DEF RotatePasskey, KeyInv, Sound, Typed
  <1>2. /\ PasskeySigned(v, message) /\ Applied(v, message) /\ paid' = paid
        /\ Handler("rotate_passkey", None)
    BY DEF RotatePasskey
  <1>3. vault' = [vault EXCEPT ![v] = n]
    BY <1>1 DEF RotatePasskey
  <1>4. message.op = "rotate_passkey" /\ message.new = new /\ new \in Passkeys /\ swig' = swig
    BY DEF RotatePasskey
  <1>5. /\ n \in Account /\ n.passkey_pubkey = new
        /\ n.swig_address = vault[v].swig_address
    BY <1>1, <1>4 DEF Account
  <1> HIDE DEF n, message
  <1>6. Succeeds(vault[v], n)
    BY <1>5 DEF Succeeds
  <1>7. swig' \in [Swigs -> Wallets] /\ Owned(vault, swig)'
    BY <1>3, <1>4, <1>6, OwnedPut DEF KeyInv, Sound, Typed
  <1> QED BY <1>1, <1>2, <1>3, <1>4, <1>5, <1>6, <1>7, AppliedKept

LEMMA KeepsSetSwig ==
  ASSUME KeyInv, NEW v \in Vaults, NEW s \in Swigs,
         SetSwig(v, s)
  PROVE  KeyInv'
  <1> DEFINE message == [op |-> "set_swig", swig |-> s]
             n == [vault[v] EXCEPT !.swig_address = s]
  <1>1. vault[v] # None /\ vault[v] \in Account /\ vault \in [Vaults -> Account \cup {None}]
    BY DEF SetSwig, KeyInv, Sound, Typed
  <1>2. /\ PasskeySigned(v, message) /\ Applied(v, message) /\ paid' = paid
        /\ Handler("set_swig", None)
    BY DEF SetSwig
  <1>3. vault' = [vault EXCEPT ![v] = n]
    BY <1>1 DEF SetSwig
  <1>4. message.op = "set_swig" /\ vault[v].swig_address = Default /\ swig' = swig
    BY DEF SetSwig
  <1>5. /\ n \in Account /\ n.passkey_pubkey = vault[v].passkey_pubkey
        /\ n.swig_address = s
    BY <1>1 DEF Account
  <1> HIDE DEF n, message
  <1>6. Succeeds(vault[v], n) /\ n.swig_address # Default
    BY <1>4, <1>5, TransactionsAssumption DEF Succeeds
  <1>7. swig' \in [Swigs -> Wallets] /\ Owned(vault, swig)'
    BY <1>3, <1>4, <1>6, OwnedPut DEF KeyInv, Sound, Typed
  <1> QED BY <1>1, <1>2, <1>3, <1>4, <1>5, <1>6, <1>7, AppliedKept

LEMMA KeepsSetSwigAtomic ==
  ASSUME KeyInv, NEW v \in Vaults, NEW s \in Swigs,
         SetSwigAtomic(v, s, FeePayer, Master)
  PROVE  KeyInv'
  <1> DEFINE message == [op |-> "set_swig", swig |-> s]
             n == [vault[v] EXCEPT !.swig_address = s]
  <1>1. vault[v] # None /\ vault[v] \in Account /\ vault \in [Vaults -> Account \cup {None}]
    BY DEF SetSwigAtomic, KeyInv, Sound, Typed
  <1>2. /\ PasskeySigned(v, message) /\ Applied(v, message) /\ paid' = paid
        /\ Handler("set_swig_atomic", None)
    BY DEF SetSwigAtomic
  <1>3. vault' = [vault EXCEPT ![v] = n]
    BY <1>1 DEF SetSwigAtomic
  <1>4. /\ message.op = "set_swig" /\ vault[v].swig_address = Default
        /\ swig' = [swig EXCEPT ![s] = OnboardingRoles(FeePayer, Master)]
    BY DEF SetSwigAtomic
  <1>5. /\ n \in Account /\ n.passkey_pubkey = vault[v].passkey_pubkey
        /\ n.swig_address = s
    BY <1>1 DEF Account
  <1> HIDE DEF n, message
  <1>6. Succeeds(vault[v], n) /\ n.swig_address # Default /\ n # None
    BY <1>4, <1>5, TransactionsAssumption, VacantAssumption DEF Succeeds
  <1>7. swig' \in [Swigs -> Wallets]
    BY <1>4 DEF KeyInv, Sound, Typed, Wallets
  <1>8. Owned(vault, swig)'
    <2> SUFFICES ASSUME NEW t \in Swigs, Len(swig'[t]) = 4
                 PROVE  \E u \in Vaults : vault'[u] # None /\ vault'[u].swig_address = t
      BY DEF Owned
    <2>1. vault'[v] = n
      BY <1>1, <1>3
    <2>2. CASE t = s
      BY <1>5, <1>6, <2>1, <2>2
    <2>3. CASE t # s
      <3>1. swig'[t] = swig[t]
        BY <1>4, <2>3 DEF KeyInv, Sound, Typed
      <3>2. PICK u \in Vaults : vault[u] # None /\ vault[u].swig_address = t
        BY <3>1 DEF KeyInv, Sound, Owned
      <3>3. u # v
        BY <1>4, <3>2, TransactionsAssumption
      <3> QED BY <1>1, <1>3, <3>2, <3>3
    <2> QED BY <2>2, <2>3
  <1> QED BY <1>1, <1>2, <1>3, <1>4, <1>5, <1>6, <1>7, <1>8, AppliedKept

LEMMA KeepsRequest ==
  ASSUME KeyInv, NEW v \in Vaults, NEW w \in Withdrawals, NEW signed_at \in 0 .. MaxTime,
         RequestWithdrawal(v, w, signed_at)
  PROVE  KeyInv'
  <1> DEFINE message == [op |-> "request_withdrawal", withdrawal |-> w, signed_at |-> signed_at]
             n == [vault[v] EXCEPT !.pending_withdrawal = w]
  <1>1. vault[v] # None /\ vault[v] \in Account /\ vault \in [Vaults -> Account \cup {None}]
    BY DEF RequestWithdrawal, KeyInv, Sound, Typed
  <1>2. /\ PasskeySigned(v, message) /\ Applied(v, message) /\ paid' = paid
        /\ Handler("request_withdrawal", None)
    BY DEF RequestWithdrawal
  <1>3. vault' = [vault EXCEPT ![v] = n]
    BY <1>1 DEF RequestWithdrawal
  <1>4. message.op = "request_withdrawal" /\ swig' = swig
    BY DEF RequestWithdrawal
  <1>5. /\ n \in Account /\ n.passkey_pubkey = vault[v].passkey_pubkey
        /\ n.swig_address = vault[v].swig_address
    BY <1>1 DEF Account
  <1> HIDE DEF n, message
  <1>6. Succeeds(vault[v], n)
    BY <1>5 DEF Succeeds
  <1>7. swig' \in [Swigs -> Wallets] /\ Owned(vault, swig)'
    BY <1>3, <1>4, <1>6, OwnedPut DEF KeyInv, Sound, Typed
  <1> QED BY <1>1, <1>2, <1>3, <1>4, <1>5, <1>6, <1>7, AppliedKept

\* A precompile, or prove_passkey, changes no account; a payment changes paid only.
LEMMA KeepsChecks ==
  ASSUME KeyInv, UNCHANGED <<vault, swig, applied, before, asserted, now>>,
         paid' \in [Swigs -> [Markers -> Nat]],
         elsewhere' \in 0 .. MaxElsewhere, elsewhere' = 0 => elsewhere = 0,
         previous'.program = "secp256r1" =>
            /\ previous'.assertion \in Assertion
            /\ elsewhere' = 0 => previous'.assertion \in asserted
  PROVE  KeyInv'
  <1>1. Sound(vault, swig, paid, applied)'
    BY DEF KeyInv, Sound, Typed, Owned
  <1>2. \A r \in [Passkeys -> Nat] : Ranked(r, vault, applied) => Ranked(r, vault, applied)'
    BY DEF Ranked
  <1> QED BY <1>1, <1>2, InstructionKept

LEMMA KeepsSecp ==
  ASSUME KeyInv, NEW a \in Assertion, NEW in_place \in BOOLEAN, Secp256r1Verify(a, in_place)
  PROVE  KeyInv'
  <1>1. UNCHANGED <<vault, swig, paid, applied, before, asserted, now>>
    BY DEF Secp256r1Verify, Run
  <1>2. previous' = [program |-> "secp256r1", assertion |-> a]
    BY DEF Secp256r1Verify, Run
  <1>3. elsewhere' \in 0 .. MaxElsewhere /\ (elsewhere' = 0 => elsewhere = 0 /\ in_place)
    BY TransactionsAssumption DEF Secp256r1Verify, KeyInv
  <1>4. previous'.assertion \in Assertion /\ (elsewhere' = 0 => previous'.assertion \in asserted)
    BY <1>2, <1>3 DEF Secp256r1Verify
  <1>5. paid' \in [Swigs -> [Markers -> Nat]]
    BY <1>1 DEF KeyInv, Sound, Typed
  <1> QED BY <1>1, <1>3, <1>4, <1>5, KeepsChecks

LEMMA KeepsEd25519 ==
  ASSUME KeyInv, NEW v, NEW cumulative, Ed25519Verify(v, cumulative)
  PROVE  KeyInv'
  <1>1. UNCHANGED <<vault, swig, paid, applied, elsewhere, before, asserted, now>>
    BY DEF Ed25519Verify, Run, accounts
  <1>2. previous' = [program |-> "ed25519", session |-> v, cumulative |-> cumulative]
    BY DEF Ed25519Verify, Run
  <1>3. previous'.program # "secp256r1"
    BY <1>2
  <1>4. paid' \in [Swigs -> [Markers -> Nat]] /\ elsewhere' \in 0 .. MaxElsewhere
    BY <1>1 DEF KeyInv, Sound, Typed
  <1> QED BY <1>1, <1>3, <1>4, KeepsChecks

LEMMA KeepsProvePasskey ==
  ASSUME KeyInv, NEW v, ProvePasskey(v)
  PROVE  KeyInv'
  <1>1. UNCHANGED <<vault, swig, paid, applied, elsewhere, before, asserted, now>>
    BY DEF ProvePasskey, Handler, Run
  <1>2. previous' = [program |-> "dexter_vault", name |-> "prove_passkey", swig |-> None]
    BY DEF ProvePasskey, Handler, Run
  <1>3. previous'.program # "secp256r1"
    BY <1>2
  <1>4. paid' \in [Swigs -> [Markers -> Nat]] /\ elsewhere' \in 0 .. MaxElsewhere
    BY <1>1 DEF KeyInv, Sound, Typed
  <1> QED BY <1>1, <1>3, <1>4, KeepsChecks

LEMMA KeepsSignV2 ==
  ASSUME KeyInv, NEW s \in Swigs, NEW marker \in Markers, SignV2(s, marker)
  PROVE  KeyInv'
  <1>1. UNCHANGED <<vault, swig, applied, elsewhere, before, asserted, now>>
    BY DEF SignV2, Run
  <1>2. previous' = [program |-> "swig", name |-> "SignV2"]
    BY DEF SignV2, Run
  <1>3. previous'.program # "secp256r1"
    BY <1>2
  <1>4. paid' \in [Swigs -> [Markers -> Nat]] /\ elsewhere' \in 0 .. MaxElsewhere
    BY <1>1 DEF SignV2, KeyInv, Sound, Typed
  <1> QED BY <1>1, <1>3, <1>4, KeepsChecks

LEMMA KeepsInstruction ==
  ASSUME KeyInv, Instruction
  PROVE  KeyInv'
  <1>1. ASSUME NEW a \in Assertion, NEW in_place \in BOOLEAN, Secp256r1Verify(a, in_place)
        PROVE  KeyInv'
    BY <1>1, KeepsSecp
  <1>2. ASSUME NEW v \in Vaults, NEW c \in 1 .. MaxCumulative, Ed25519Verify(v, c)
        PROVE  KeyInv'
    BY <1>2, KeepsEd25519
  <1>3. ASSUME NEW v \in Vaults, NEW key \in Passkeys \cup {Malformed},
               NEW authority \in Authorities, InitializeVault(v, key, authority)
        PROVE  KeyInv'
    BY <1>3, KeepsInitialize
  <1>4. ASSUME NEW v \in Vaults, NEW new \in Passkeys \cup {Malformed}, RotatePasskey(v, new)
        PROVE  KeyInv'
    BY <1>4, KeepsRotatePasskey
  <1>5. ASSUME NEW v \in Vaults, NEW signer \in Authorities,
               NEW new \in Authorities \cup {Default}, RotateDexterAuthority(v, signer, new)
        PROVE  KeyInv'
    BY <1>5, KeepsRotateAuthority
  <1>6. ASSUME NEW v \in Vaults, ProvePasskey(v) PROVE KeyInv'
    BY <1>6, KeepsProvePasskey
  <1>7. ASSUME NEW v \in Vaults, NEW s \in Swigs, SetSwig(v, s) PROVE KeyInv'
    BY <1>7, KeepsSetSwig
  <1>8. ASSUME NEW v \in Vaults, NEW s \in Swigs, SetSwigAtomic(v, s, FeePayer, Master)
        PROVE  KeyInv'
    BY <1>8, KeepsSetSwigAtomic
  <1>9. ASSUME NEW v \in Vaults, NEW w \in Withdrawals, NEW t \in 0 .. MaxTime,
               RequestWithdrawal(v, w, t)
        PROVE  KeyInv'
    BY <1>9, KeepsRequest
  <1>10. ASSUME NEW v \in Vaults, FinalizeWithdrawal(v) PROVE KeyInv'
    BY <1>10, KeepsFinalize
  <1>11. ASSUME NEW v \in Vaults, NEW c \in 1 .. MaxCumulative, SettleTabVoucher(v, c)
         PROVE  KeyInv'
    BY <1>11, KeepsSettleTab
  <1>12. ASSUME NEW s \in Swigs, NEW marker \in Markers, SignV2(s, marker) PROVE KeyInv'
    BY <1>12, KeepsSignV2
  <1> QED BY <1>1, <1>2, <1>3, <1>4, <1>5, <1>6, <1>7, <1>8, <1>9, <1>10, <1>11, <1>12
          DEF Instruction

-----------------------------------------------------------------------------
(***************************************************************************)
(* Between instructions.                                                   *)
(***************************************************************************)

LEMMA KeepsBegin ==
  ASSUME KeyInv, Begin
  PROVE  KeyInv'
  <1>1. /\ before' = <<vault, swig, paid, applied, elsewhere>>
        /\ UNCHANGED <<vault, swig, paid, applied, elsewhere, previous, asserted, now>>
    BY DEF Begin, accounts
  <1>2. PICK r \in [Passkeys -> Nat] : Ordered(r, vault, applied, elsewhere)
    BY DEF KeyInv
  <1>3. Ordered(r, vault, applied, elsewhere)'
    BY <1>1, <1>2 DEF Forward, Ranked, Ordered
  <1>4. /\ before'[1] = vault /\ before'[2] = swig
        /\ before'[3] = paid /\ before'[4] = applied /\ before'[5] = elsewhere
    BY <1>1
  <1>5. Sound(vault, swig, paid, applied)' /\ elsewhere \in 0 .. MaxElsewhere
    BY <1>1 DEF KeyInv
  <1>6. /\ Sound(before[1], before[2], before[3], before[4])'
        /\ Ordered(r, before[1], before[4], before[5])'
    BY <1>1, <1>3, <1>4, <1>5
  <1> QED BY <1>1, <1>3, <1>4, <1>5, <1>6 DEF KeyInv

LEMMA KeepsCommit ==
  ASSUME KeyInv, Commit
  PROVE  KeyInv'
  <1>1. /\ ~InTransaction' /\ previous' = None
        /\ UNCHANGED <<vault, swig, paid, applied, elsewhere, asserted, now>>
    BY DEF Commit, accounts, InTransaction
  <1>2. PICK r \in [Passkeys -> Nat] : Ordered(r, vault, applied, elsewhere)
    BY DEF KeyInv
  <1>3. Ordered(r, vault, applied, elsewhere)'
    BY <1>1, <1>2 DEF Forward, Ranked, Ordered
  <1> QED BY <1>1, <1>3 DEF KeyInv

LEMMA KeepsAbort ==
  ASSUME KeyInv, Abort
  PROVE  KeyInv'
  <1>1. /\ ~InTransaction' /\ InTransaction /\ previous' = None /\ UNCHANGED <<asserted, now>>
        /\ vault' = before[1] /\ swig' = before[2] /\ paid' = before[3] /\ applied' = before[4]
        /\ elsewhere' = before[5]
    BY DEF Abort, InTransaction
  <1>2. PICK r \in [Passkeys -> Nat] : Ordered(r, before[1], before[4], before[5])
    BY <1>1 DEF KeyInv
  <1>3. Ordered(r, vault, applied, elsewhere)'
    BY <1>1, <1>2 DEF Forward, Ranked, Ordered
  <1>4. Sound(vault, swig, paid, applied)' /\ elsewhere' \in 0 .. MaxElsewhere
    BY <1>1 DEF KeyInv
  <1> QED BY <1>1, <1>3, <1>4 DEF KeyInv

\* A client's own wallet has three roles: it is nobody's before it is bound.
LEMMA KeepsCreateSwig ==
  ASSUME KeyInv, NEW s \in Swigs, CreateSwig(s)
  PROVE  KeyInv'
  <1> DEFINE three == SubSeq(OnboardingRoles(FeePayer, Master), 1, 3)
  <1>1. /\ ~InTransaction /\ swig' = [swig EXCEPT ![s] = three]
        /\ UNCHANGED <<vault, paid, applied, elsewhere, previous, before, asserted, now>>
    BY DEF CreateSwig
  <1>2. three \in Wallets /\ Len(three) # 4
    BY RolesOf DEF Wallets
  <1> HIDE DEF three
  <1>3. swig \in [Swigs -> Wallets] /\ Owned(vault, swig)
    BY DEF KeyInv, Sound, Typed
  <1>4. swig' \in [Swigs -> Wallets]
    BY <1>1, <1>2, <1>3
  <1>5. ASSUME NEW t \in Swigs, Len(swig'[t]) = 4 PROVE Len(swig[t]) = 4
    BY <1>1, <1>2, <1>3, <1>5
  <1>6. Owned(vault, swig)'
    BY <1>1, <1>3, <1>5 DEF Owned
  <1>7. Typed(vault, swig, paid, applied)'
    BY <1>1, <1>4 DEF KeyInv, Sound, Typed
  <1>8. PICK r \in [Passkeys -> Nat] : Ordered(r, vault, applied, elsewhere)
    BY DEF KeyInv
  <1>9. Ordered(r, vault, applied, elsewhere)'
    BY <1>1, <1>8 DEF Forward, Ranked, Ordered
  <1> QED BY <1>1, <1>6, <1>7, <1>9 DEF KeyInv, Sound, InTransaction

\* Nothing but the clock, or nothing at all.
LEMMA KeepsStill ==
  ASSUME KeyInv,
         UNCHANGED <<vault, swig, paid, applied, elsewhere, previous, before, asserted>>,
         now' \in 0 .. MaxTime
  PROVE  KeyInv'
  <1>2. PICK r \in [Passkeys -> Nat] : Ordered(r, vault, applied, elsewhere)
    BY DEF KeyInv
  <1>3. Ordered(r, vault, applied, elsewhere)'
    BY <1>2 DEF Forward, Ranked, Ordered
  <1>4. InTransaction' =>
            \E q \in [Passkeys -> Nat] : Ordered(q, before[1], before[4], before[5])'
    BY DEF KeyInv, InTransaction, Forward, Ranked, Ordered
  <1>5. /\ Sound(vault, swig, paid, applied)'
        /\ InTransaction' =>
               /\ Sound(before[1], before[2], before[3], before[4])'
               /\ before'[5] \in 0 .. MaxElsewhere
    BY DEF KeyInv, InTransaction
  <1> QED BY <1>3, <1>4, <1>5 DEF KeyInv

LEMMA KeepsTick ==
  ASSUME KeyInv, Tick
  PROVE  KeyInv'
  <1>1. UNCHANGED <<vault, swig, paid, applied, elsewhere, previous, before, asserted>>
    BY DEF Tick, accounts
  <1>2. now' \in 0 .. MaxTime
    BY TransactionsAssumption DEF Tick, KeyInv
  <1> QED BY <1>1, <1>2, KeepsStill

\* A new key comes after the one that signs for it, and after whatever signed for
\* it before; nobody has used it, so no rank below it is disturbed.
LEMMA KeepsSign ==
  ASSUME KeyInv, NEW v \in Vaults, NEW message \in Message, Sign(v, message)
  PROVE  KeyInv'
  <1> DEFINE k == vault[v].passkey_pubkey
             b == [key |-> k, message |-> message]
  <1>1. /\ ~InTransaction /\ vault[v] # None
        /\ message.op = "rotate_passkey" => message.new \notin Used
        /\ UNCHANGED <<vault, swig, paid, applied, elsewhere, previous, before, now>>
    BY DEF Sign, InUse, accounts
  <1>2. asserted' = asserted \cup {b}
    BY DEF Sign
  <1>3. b.key = k /\ b.message = message
    OBVIOUS
  <1>4. k \in Passkeys
    BY <1>1, AccountFields DEF KeyInv, Sound, Typed
  <1>5. b \in Assertion
    BY <1>4 DEF Assertion
  <1>6. HasBeenUsed(k, vault, applied)
    BY <1>1 DEF HasBeenUsed
  <1> HIDE DEF b, k
  <1>7. PICK r \in [Passkeys -> Nat] : Ordered(r, vault, applied, elsewhere)
    BY DEF KeyInv
  <1>8. ASSUME NEW m, m \notin Used PROVE ~HasBeenUsed(m, vault, applied)
    BY <1>8 DEF HasBeenUsed, Used, InUse, BagToSet
  <1>9. asserted \subseteq Assertion /\ Sound(vault, swig, paid, applied)
    BY DEF KeyInv
  <1>10. ASSUME elsewhere = 0
         PROVE  \E q \in [Passkeys -> Nat] : Forward(q)' /\ Ranked(q, vault, applied)'
    <2> Forward(r) /\ Ranked(r, vault, applied)
      BY <1>7, <1>10 DEF Ordered
    <2>1. CASE message.op = "rotate_passkey" /\ message.new \in Passkeys
      <3> DEFINE m == message.new
      <3>1. m \in Passkeys /\ ~HasBeenUsed(m, vault, applied)
        BY <1>1, <1>8, <2>1
      <3>2. PICK q \in [Passkeys -> Nat] :
                /\ q[m] >= r[m] /\ q[m] > r[k]
                /\ \A key \in Passkeys \ {m} : q[key] = r[key]
        <4> DEFINE raised == [r EXCEPT ![m] = r[m] + r[k] + 1]
        <4>1. /\ raised \in [Passkeys -> Nat] /\ raised[m] >= r[m] /\ raised[m] > r[k]
              /\ \A key \in Passkeys \ {m} : raised[key] = r[key]
          BY <1>4, <3>1
        <4> HIDE DEF raised
        <4> QED BY <4>1
      <3>3. k # m
        BY <1>6, <3>1
      <3> HIDE DEF m
      <3>4. ASSUME NEW a \in asserted', a.message.op = "rotate_passkey", a.message.new \in Passkeys
            PROVE  q[a.key] < q[a.message.new]
        <4>1. CASE a = b
          BY <1>3, <1>4, <3>2, <3>3, <4>1 DEF m
        <4>2. CASE a \in asserted
          <5>1. a.key \in Passkeys /\ HasBeenUsed(a.key, vault, applied)
            BY <1>7, <1>9, <4>2, AssertionFields DEF Ranked
          <5>2. a.key # m
            BY <3>1, <5>1
          <5>3. r[a.key] < r[a.message.new]
            BY <1>7, <3>4, <4>2 DEF Forward
          <5>4. q[a.message.new] \in Nat /\ r[a.message.new] \in Nat
                /\ q[a.message.new] >= r[a.message.new]
            BY <3>1, <3>2, <3>4
          <5> QED BY <3>2, <5>1, <5>2, <5>3, <5>4
        <4> QED BY <1>2, <4>1, <4>2
      <3>5. Forward(q)'
        BY <3>4 DEF Forward
      <3>6. \A a \in asserted' : HasBeenUsed(a.key, vault, applied)'
        BY <1>1, <1>2, <1>3, <1>6, <1>7 DEF Ranked, HasBeenUsed
      <3>7. ASSUME NEW x \in DOMAIN applied, x[1].message.op = "rotate_passkey"
            PROVE  q[x[1].key] < q[vault[x[2]].passkey_pubkey]
        <4>1. x[1].key \in Passkeys /\ x[2] \in Vaults /\ vault[x[2]] # None
          BY <1>7, <1>9, AssertionFields DEF Sound, Typed, Ranked
        <4>2. vault[x[2]].passkey_pubkey \in Passkeys
          BY <1>9, <4>1, AccountFields DEF Sound, Typed
        <4>3. x[1].key # m /\ vault[x[2]].passkey_pubkey # m
          BY <3>1, <4>1 DEF HasBeenUsed
        <4>4. r[x[1].key] < r[vault[x[2]].passkey_pubkey]
          BY <1>7, <3>7 DEF Ranked
        <4> QED BY <3>2, <4>1, <4>2, <4>3, <4>4
      <3>8. Ranked(q, vault, applied)'
        BY <1>1, <1>2, <1>7, <3>6, <3>7 DEF Ranked
      <3> QED BY <3>2, <3>5, <3>8
    <2>2. CASE ~(message.op = "rotate_passkey" /\ message.new \in Passkeys)
      <3>1. Forward(r)'
        BY <1>2, <1>3, <1>7, <2>2 DEF Forward
      <3>2. \A a \in asserted' : HasBeenUsed(a.key, vault, applied)'
        BY <1>1, <1>2, <1>3, <1>6, <1>7 DEF Ranked, HasBeenUsed
      <3>3. Ranked(r, vault, applied)'
        BY <1>1, <1>2, <1>7, <3>2 DEF Ranked
      <3> QED BY <3>1, <3>3
    <2> QED BY <2>1, <2>2
  <1>11. asserted' \subseteq Assertion /\ Sound(vault, swig, paid, applied)'
    BY <1>1, <1>2, <1>5, <1>9
  <1>12. \E q \in [Passkeys -> Nat] : Ordered(q, vault, applied, elsewhere)'
    BY <1>1, <1>7, <1>10 DEF Ordered
  <1> QED BY <1>1, <1>2, <1>11, <1>12 DEF KeyInv, InTransaction

LEMMA KeyStep == KeyInv /\ [Next]_vars => KeyInv'
  <1> SUFFICES ASSUME KeyInv, [Next]_vars PROVE KeyInv'
    OBVIOUS
  <1>1. ASSUME NEW v \in Vaults, NEW message \in Message, Sign(v, message) PROVE KeyInv'
    BY <1>1, KeepsSign
  <1>2. ASSUME NEW s \in Swigs, CreateSwig(s) PROVE KeyInv'
    BY <1>2, KeepsCreateSwig
  <1>3. CASE vars' = vars
    <2>1. UNCHANGED <<vault, swig, paid, applied, elsewhere, previous, before, asserted, now>>
      BY <1>3 DEF vars, accounts
    <2> QED BY <2>1, KeepsStill DEF KeyInv
  <1> QED BY <1>1, <1>2, <1>3, KeepsBegin, KeepsInstruction, KeepsCommit, KeepsAbort, KeepsTick
          DEF Next

-----------------------------------------------------------------------------
\* Whatever is put into a transaction, and wherever it fails, every vault has a
\* well-formed passkey, an authority that is a key, and a wallet address: rotations
\* and bindings keep the accounts the handlers can go on with.
THEOREM TransactionTypes == Spec => []TypeOK
  <1>1. KeyInv => TypeOK
    BY DEF KeyInv, Sound, Typed, TypeOK, BagToSet
  <1> QED BY <1>1, KeyInit, KeyStep, PTL DEF Spec

\* set_swig_atomic never leaves a wallet without its vault, for any number of
\* vaults, wallets, assertions delivered and transactions undone.
THEOREM WalletsAreOwned == Spec => []NoWalletIsOrphaned
  <1>1. KeyInv => NoWalletIsOrphaned
    BY DEF KeyInv, Sound, Owned, NoWalletIsOrphaned, BoundTo, InUse
  <1> QED BY <1>1, KeyInit, KeyStep, PTL DEF Spec

\* Without a nonce in any message, only what was signed takes effect, and an
\* assertion to bind or to rotate acts once: for any number of keys and vaults,
\* however late and often it is delivered, as long as every verifying instruction
\* verified the bytes the handler reads.
THEOREM AssertionsAreSpent == Spec => []AssertionsActOnce
  <1>1. KeyInv => AssertionsActOnce
    BY DEF KeyInv, Sound, Typed, Ordered, Ranked, AssertionsActOnce, Copies, BagIn, BagToSet
  <1> QED BY <1>1, KeyInit, KeyStep, PTL DEF Spec

-----------------------------------------------------------------------------
(***************************************************************************)
(* Payments.  For every wallet, what it paid, what the last instruction    *)
(* lets it pay and what is still pending on its vaults are together no     *)
(* more than what was asked for on its vaults.  The operators are over the *)
(* values of the accounts, for the working copy and the one to fall back   *)
(* to.                                                                     *)
(***************************************************************************)

Opened(va) == {v \in Vaults : va[v] # None}
Bound(va, s) == {v \in Vaults : va[v] # None /\ va[v].swig_address = s}
Pending(va, s) == {v \in Bound(va, s) : va[v].pending_withdrawal # None}

Times(x, ap) == IF x \in DOMAIN ap THEN ap[x] ELSE 0
Landed(v, ap) ==
    {r \in {x \in DOMAIN ap : x[2] = v /\ x[1].message.op = "request_withdrawal"}
            \X (1 .. MaxRequests) : r[2] <= Times(r[1], ap)}
Booked(va, ap, s) ==
    {p \in ((DOMAIN ap) \X (1 .. MaxRequests)) \X Vaults :
        p[2] \in Bound(va, s) /\ p[1] \in Landed(p[2], ap)}
Stepped(va, s) ==
    {p \in (1 .. MaxCumulative) \X Vaults :
        p[2] \in Bound(va, s) /\ p[1] <= va[p[2]].spent}

\* The payment the last instruction of a transaction entitles to.
Entitles(prev, marker, s) == prev = [program |-> "dexter_vault", name |-> marker, swig |-> s]
Owed(prev, marker, s) == IF Entitles(prev, marker, s) THEN 1 ELSE 0

Covered(va, pd, ap, prev, s) ==
    /\ pd[s]["finalize_withdrawal"] + Owed(prev, "finalize_withdrawal", s)
            + Cardinality(Pending(va, s)) <= Cardinality(Booked(va, ap, s))
    /\ pd[s]["settle_tab_voucher"] + Owed(prev, "settle_tab_voucher", s)
            <= Cardinality(Stepped(va, s))

Funded(va, pd, ap, prev) ==
    /\ IsFiniteSet(DOMAIN ap) /\ IsFiniteSet(Opened(va))
    /\ \A v \in Vaults : va[v] # None /\ va[v].pending_withdrawal # None
            => Landed(v, ap) # {}
    /\ \A s \in Swigs : Covered(va, pd, ap, prev, s)

PayInv ==
    /\ KeyInv
    /\ Funded(vault, paid, applied, previous)
    /\ InTransaction => Funded(before[1], before[3], before[4], None)

LEMMA OwedType ==
  ASSUME NEW prev, NEW marker, NEW s
  PROVE  /\ Owed(prev, marker, s) \in {0, 1}
         /\ Entitles(prev, marker, s) <=> Owed(prev, marker, s) = 1
  BY DEF Owed

LEMMA FiniteBooks ==
  ASSUME NEW ap, IsFiniteSet(DOMAIN ap), NEW va, IsFiniteSet(Opened(va)), NEW s
  PROVE  /\ IsFiniteSet(Bound(va, s)) /\ IsFiniteSet(Pending(va, s))
         /\ IsFiniteSet(Booked(va, ap, s)) /\ IsFiniteSet(Stepped(va, s))
  <1>1. IsFiniteSet(Bound(va, s))
    <2>1. Bound(va, s) \subseteq Opened(va)
      BY DEF Bound, Opened
    <2> QED BY <2>1, FS_Subset
  <1>2. IsFiniteSet(Pending(va, s))
    <2>1. Pending(va, s) \subseteq Bound(va, s)
      BY DEF Pending
    <2> QED BY <1>1, <2>1, FS_Subset
  <1>3. IsFiniteSet(1 .. MaxRequests) /\ IsFiniteSet(1 .. MaxCumulative)
    BY FS_Interval, TransactionsAssumption
  <1>4. IsFiniteSet(((DOMAIN ap) \X (1 .. MaxRequests)) \X Bound(va, s))
    <2>1. IsFiniteSet((DOMAIN ap) \X (1 .. MaxRequests))
      BY <1>3, FS_Product
    <2> QED BY <1>1, <2>1, FS_Product
  <1>5. Booked(va, ap, s) \subseteq ((DOMAIN ap) \X (1 .. MaxRequests)) \X Bound(va, s)
    BY DEF Booked
  <1>6. IsFiniteSet((1 .. MaxCumulative) \X Bound(va, s))
    BY <1>1, <1>3, FS_Product
  <1>7. Stepped(va, s) \subseteq (1 .. MaxCumulative) \X Bound(va, s)
    BY DEF Stepped
  <1> QED BY <1>1, <1>2, <1>4, <1>5, <1>6, <1>7, FS_Subset

LEMMA CardLeq ==
  ASSUME NEW B, IsFiniteSet(B), NEW A, A \subseteq B
  PROVE  Cardinality(A) \in Nat /\ Cardinality(B) \in Nat /\ Cardinality(A) <= Cardinality(B)
  BY FS_Subset, FS_CardinalityType

\* A strictly larger set has at least one more.
LEMMA CardLess ==
  ASSUME NEW B, IsFiniteSet(B), NEW A, A \subseteq B, NEW x \in B, x \notin A
  PROVE  Cardinality(A) \in Nat /\ Cardinality(B) \in Nat /\ Cardinality(A) + 1 <= Cardinality(B)
  <1>1. IsFiniteSet(A)
    BY FS_Subset
  <1>2. A \cup {x} \subseteq B
    OBVIOUS
  <1>3. IsFiniteSet(A \cup {x}) /\ Cardinality(A \cup {x}) = Cardinality(A) + 1
    BY <1>1, FS_AddElement
  <1> QED BY <1>1, <1>2, <1>3, CardLeq, FS_CardinalityType

LEMMA FundedInit == Init => Funded(vault, paid, applied, previous)
  <1> SUFFICES ASSUME Init PROVE Funded(vault, paid, applied, previous)
    OBVIOUS
  <1>1. DOMAIN applied = {} /\ Opened(vault) = {} /\ \A v \in Vaults : vault[v] = None
    BY EmptyBagType DEF Init, Opened
  <1>2. IsFiniteSet({}) /\ Cardinality({}) = 0
    BY FS_EmptySet
  <1>3. ASSUME NEW s \in Swigs PROVE Covered(vault, paid, applied, previous, s)
    <2>1. Pending(vault, s) = {} /\ Booked(vault, applied, s) = {} /\ Stepped(vault, s) = {}
      BY <1>1 DEF Pending, Bound, Booked, Stepped
    <2>2. \A marker \in Markers : paid[s][marker] = 0 /\ Owed(previous, marker, s) = 0
      BY VacantAssumption DEF Init, Owed, Entitles
    <2> QED BY <1>2, <2>1, <2>2 DEF Covered, Markers
  <1> QED BY <1>1, <1>2, <1>3 DEF Funded

\* An instruction that entitles to nothing new, on accounts it leaves alone.
LEMMA FundedIdle ==
  ASSUME NEW va, NEW pd \in [Swigs -> [Markers -> Nat]], NEW ap, NEW p, NEW q,
         Funded(va, pd, ap, p),
         \A s \in Swigs, marker \in Markers :
            Entitles(q, marker, s) => Entitles(p, marker, s)
  PROVE  Funded(va, pd, ap, q)
  <1>1. ASSUME NEW s \in Swigs PROVE Covered(va, pd, ap, q, s)
    <2>1. \A m \in Markers : Owed(q, m, s) \in Nat /\ Owed(p, m, s) \in Nat
                              /\ Owed(q, m, s) <= Owed(p, m, s)
      BY DEF Owed
    <2>2. Covered(va, pd, ap, p, s)
      BY DEF Funded
    <2>3. \A m \in Markers : pd[s][m] \in Nat
      OBVIOUS
    <2>4. /\ Cardinality(Pending(va, s)) \in Nat
          /\ Cardinality(Booked(va, ap, s)) \in Nat /\ Cardinality(Stepped(va, s)) \in Nat
      BY FiniteBooks, FS_CardinalityType DEF Funded
    <2> QED BY <2>1, <2>2, <2>3, <2>4 DEF Covered, Markers
  <1> QED BY <1>1 DEF Funded

\* swig::SignV2 pays what the instruction before it entitles to.
LEMMA FundedPaid ==
  ASSUME NEW va, NEW pd \in [Swigs -> [Markers -> Nat]], NEW ap, NEW p, NEW q,
         Funded(va, pd, ap, p), NEW t \in Swigs, NEW marker \in Markers,
         Entitles(p, marker, t), \A s \in Swigs, m \in Markers : ~Entitles(q, m, s),
         NEW pe, pe = [pd EXCEPT ![t][marker] = @ + 1]
  PROVE  Funded(va, pe, ap, q)
  <1>1. ASSUME NEW s \in Swigs PROVE Covered(va, pe, ap, q, s)
    <2>1. \A m \in Markers :
            /\ Owed(q, m, s) = 0 /\ Owed(p, m, s) \in Nat
            /\ s = t /\ m = marker => Owed(p, m, s) = 1
      BY DEF Owed
    <2>2. Covered(va, pd, ap, p, s)
      BY DEF Funded
    <2>3. \A m \in Markers :
            pd[s][m] \in Nat
            /\ pe[s][m] = pd[s][m] + (IF s = t /\ m = marker THEN 1 ELSE 0)
      OBVIOUS
    <2>4. /\ Cardinality(Pending(va, s)) \in Nat
          /\ Cardinality(Booked(va, ap, s)) \in Nat /\ Cardinality(Stepped(va, s)) \in Nat
      BY FiniteBooks, FS_CardinalityType DEF Funded
    <2>5. \A m \in Markers : pe[s][m] \in Nat /\ pe[s][m] + Owed(q, m, s) <= pd[s][m] + Owed(p, m, s)
      BY <2>1, <2>3
    <2>6. /\ pe[s]["finalize_withdrawal"] + Owed(q, "finalize_withdrawal", s)
                <= pd[s]["finalize_withdrawal"] + Owed(p, "finalize_withdrawal", s)
          /\ pe[s]["settle_tab_voucher"] + Owed(q, "settle_tab_voucher", s)
                <= pd[s]["settle_tab_voucher"] + Owed(p, "settle_tab_voucher", s)
          /\ pe[s]["finalize_withdrawal"] \in Nat /\ pe[s]["settle_tab_voucher"] \in Nat
          /\ pd[s]["finalize_withdrawal"] \in Nat /\ pd[s]["settle_tab_voucher"] \in Nat
      BY <2>3, <2>5 DEF Markers
    <2>7. \A r, m : Owed(r, m, s) \in Nat
      BY DEF Owed
    <2> QED BY <2>2, <2>4, <2>6, <2>7 DEF Covered
  <1> QED BY <1>1 DEF Funded

\* An instruction that writes a vault: a request that becomes pending is a new one,
\* or the vault brings it to a wallet with its book; a withdrawal is owed when it
\* stops pending, a tab when the voucher steps up.
LEMMA FundedWrite ==
  ASSUME NEW va \in [Vaults -> Account \cup {None}],
         NEW pd \in [Swigs -> [Markers -> Nat]], NEW ap, NEW p, Funded(va, pd, ap, p),
         NEW v \in Vaults, NEW n, Succeeds(va[v], n), NEW vb, vb = [va EXCEPT ![v] = n],
         NEW ab, IsFiniteSet(DOMAIN ab),
         \A u \in Vaults : Landed(u, ap) \subseteq Landed(u, ab),
         n.pending_withdrawal # None =>
            \/ va[v] # None /\ va[v].pending_withdrawal # None
            \/ \E r \in Landed(v, ab) : r \notin Landed(v, ap),
         va[v] # None => va[v].spent <= n.spent,
         NEW q,
         \A s \in Swigs : Entitles(q, "finalize_withdrawal", s) =>
            /\ va[v] # None /\ va[v].swig_address = s
            /\ va[v].pending_withdrawal # None /\ n.pending_withdrawal = None,
         \A s \in Swigs : Entitles(q, "settle_tab_voucher", s) =>
            /\ va[v] # None /\ va[v].swig_address = s /\ va[v].spent < n.spent
  PROVE  Funded(vb, pd, ab, q)
  <1>1. /\ vb \in [Vaults -> Account \cup {None}] /\ vb[v] = n /\ n \in Account /\ n # None
        /\ \A u \in Vaults \ {v} : vb[u] = va[u]
    BY VacantAssumption DEF Succeeds
  <1>2. IsFiniteSet(DOMAIN ap) /\ IsFiniteSet(Opened(va))
    BY DEF Funded
  <1>3. IsFiniteSet(Opened(vb))
    <2>1. Opened(vb) = Opened(va) \cup {v}
      BY <1>1 DEF Opened
    <2>2. IsFiniteSet(Opened(va) \cup {v})
      BY <1>2, FS_AddElement
    <2> QED BY <2>1, <2>2
  <1>4. ASSUME NEW u \in Vaults, vb[u] # None, vb[u].pending_withdrawal # None
        PROVE  Landed(u, ab) # {}
    <2>1. CASE u = v
      BY <1>1, <1>4, <2>1 DEF Funded
    <2>2. CASE u # v
      BY <1>1, <1>4, <2>2 DEF Funded
    <2> QED BY <2>1, <2>2
  <1>5. ASSUME NEW s \in Swigs PROVE Covered(vb, pd, ab, q, s)
    <2>1. s # Default
      BY TransactionsAssumption
    <2>2. /\ Bound(va, s) \subseteq Bound(vb, s) /\ Bound(vb, s) \subseteq Bound(va, s) \cup {v}
      BY <1>1, <2>1 DEF Bound, Succeeds
    <2>3. Booked(va, ap, s) \subseteq Booked(vb, ab, s)
      <3> SUFFICES ASSUME NEW x \in Booked(va, ap, s) PROVE x \in Booked(vb, ab, s)
        OBVIOUS
      <3>1. /\ x \in ((DOMAIN ap) \X (1 .. MaxRequests)) \X Vaults
            /\ x[2] \in Bound(va, s) /\ x[1] \in Landed(x[2], ap) /\ x[2] \in Vaults
        BY DEF Booked
      <3>2. x[1] \in Landed(x[2], ab)
        BY <3>1
      <3>3. x[1] \in (DOMAIN ab) \X (1 .. MaxRequests)
        BY <3>2 DEF Landed
      <3>4. x \in ((DOMAIN ab) \X (1 .. MaxRequests)) \X Vaults
        BY <3>1, <3>3
      <3> QED BY <2>2, <3>1, <3>2, <3>4 DEF Booked
    <2>4. ASSUME NEW x \in Stepped(va, s) PROVE x \in Stepped(vb, s)
      <3>1. /\ x \in (1 .. MaxCumulative) \X Vaults /\ x[1] \in 1 .. MaxCumulative
            /\ x[2] \in Vaults /\ x[2] \in Bound(va, s) /\ x[1] <= va[x[2]].spent
        BY DEF Stepped
      <3>2. va[x[2]] # None
        BY <3>1 DEF Bound
      <3>3. va[x[2]].spent \in Nat /\ vb[x[2]].spent \in Nat /\ va[x[2]].spent <= vb[x[2]].spent
        <4>1. va[x[2]] \in Account /\ vb[x[2]] \in Account
          BY <1>1, <3>1, <3>2
        <4>2. va[x[2]].spent \in Nat /\ vb[x[2]].spent \in Nat
          BY <4>1, AccountFields, TransactionsAssumption
        <4> QED BY <1>1, <3>1, <3>2, <4>2
      <3>4. x[1] <= vb[x[2]].spent
        BY <3>1, <3>3
      <3> QED BY <2>2, <3>1, <3>4 DEF Stepped
    <2>5. Stepped(va, s) \subseteq Stepped(vb, s)
      BY <2>4
    <2>6. /\ IsFiniteSet(Pending(va, s)) /\ IsFiniteSet(Pending(vb, s))
          /\ IsFiniteSet(Booked(vb, ab, s)) /\ IsFiniteSet(Stepped(vb, s))
      BY <1>2, <1>3, FiniteBooks
    <2>7. /\ Cardinality(Booked(va, ap, s)) \in Nat /\ Cardinality(Booked(vb, ab, s)) \in Nat
          /\ Cardinality(Booked(va, ap, s)) <= Cardinality(Booked(vb, ab, s))
          /\ Cardinality(Stepped(va, s)) \in Nat /\ Cardinality(Stepped(vb, s)) \in Nat
          /\ Cardinality(Stepped(va, s)) <= Cardinality(Stepped(vb, s))
      BY <2>3, <2>5, <2>6, CardLeq
    <2>8. Cardinality(Pending(va, s)) \in Nat /\ Cardinality(Pending(vb, s)) \in Nat
      BY <2>6, FS_CardinalityType
    <2>9. pd[s]["finalize_withdrawal"] \in Nat /\ pd[s]["settle_tab_voucher"] \in Nat
      BY DEF Markers
    <2>10. \A r, m : Owed(r, m, s) \in {0, 1} /\ (Owed(r, m, s) = 1 => Entitles(r, m, s))
      BY DEF Owed
    <2>11. Covered(va, pd, ap, p, s)
      BY DEF Funded
    <2>12. Owed(q, "finalize_withdrawal", s) + Cardinality(Pending(vb, s))
                + Cardinality(Booked(va, ap, s))
            <= Cardinality(Pending(va, s)) + Cardinality(Booked(vb, ab, s))
      <3>1. CASE Entitles(q, "finalize_withdrawal", s)
        <4>1. v \in Pending(va, s) /\ Pending(vb, s) \subseteq Pending(va, s) /\ v \notin Pending(vb, s)
          BY <1>1, <2>2, <3>1 DEF Pending, Bound
        <4>2. Cardinality(Pending(vb, s)) + 1 <= Cardinality(Pending(va, s))
          BY <2>6, <4>1, CardLess
        <4> QED BY <2>7, <2>8, <2>10, <4>2
      <3>2. CASE ~Entitles(q, "finalize_withdrawal", s)
        <4>1. Owed(q, "finalize_withdrawal", s) = 0
          BY <3>2 DEF Owed
        <4>2. CASE Pending(vb, s) \subseteq Pending(va, s)
          <5>1. Cardinality(Pending(vb, s)) <= Cardinality(Pending(va, s))
            BY <2>6, <4>2, CardLeq
          <5> QED BY <2>7, <2>8, <4>1, <5>1
        <4>3. CASE ~(Pending(vb, s) \subseteq Pending(va, s))
          <5>1. /\ v \in Bound(vb, s) /\ n.pending_withdrawal # None /\ v \notin Pending(va, s)
                /\ Pending(vb, s) \subseteq Pending(va, s) \cup {v}
            BY <1>1, <2>2, <4>3 DEF Pending, Bound
          <5>2. Cardinality(Pending(vb, s)) <= Cardinality(Pending(va, s)) + 1
            <6>1. /\ IsFiniteSet(Pending(va, s) \cup {v})
                  /\ Cardinality(Pending(va, s) \cup {v}) = Cardinality(Pending(va, s)) + 1
              BY <2>6, <5>1, FS_AddElement
            <6>2. Cardinality(Pending(vb, s)) <= Cardinality(Pending(va, s) \cup {v})
              BY <5>1, <6>1, CardLeq
            <6> QED BY <6>1, <6>2
          <5>3. \E r \in Landed(v, ab) : <<r, v>> \notin Booked(va, ap, s)
            <6>1. CASE va[v] # None /\ va[v].pending_withdrawal # None
              <7>1. v \notin Bound(va, s)
                BY <5>1, <6>1 DEF Pending
              <7>2. PICK r : r \in Landed(v, ap)
                BY <6>1 DEF Funded
              <7>3. <<r, v>> \notin Booked(va, ap, s)
                BY <7>1 DEF Booked
              <7> QED BY <7>2, <7>3
            <6>2. CASE ~(va[v] # None /\ va[v].pending_withdrawal # None)
              <7>1. PICK r \in Landed(v, ab) : r \notin Landed(v, ap)
                BY <5>1, <6>2
              <7>2. <<r, v>> \notin Booked(va, ap, s)
                BY <7>1 DEF Booked
              <7> QED BY <7>1, <7>2
            <6> QED BY <6>1, <6>2
          <5>4. PICK r \in Landed(v, ab) : <<r, v>> \notin Booked(va, ap, s)
            BY <5>3
          <5>5. <<r, v>> \in Booked(vb, ab, s)
            <6>1. r \in (DOMAIN ab) \X (1 .. MaxRequests)
              BY <5>4 DEF Landed
            <6> QED BY <5>1, <5>4, <6>1 DEF Booked
          <5>6. Cardinality(Booked(va, ap, s)) + 1 <= Cardinality(Booked(vb, ab, s))
            BY <2>3, <2>6, <5>4, <5>5, CardLess
          <5> QED BY <2>7, <2>8, <4>1, <5>2, <5>6
        <4> QED BY <4>2, <4>3
      <3> QED BY <3>1, <3>2
    <2>13. Owed(q, "settle_tab_voucher", s) + Cardinality(Stepped(va, s)) <= Cardinality(Stepped(vb, s))
      <3>1. CASE Entitles(q, "settle_tab_voucher", s)
        <4>1. va[v] # None /\ va[v].swig_address = s /\ va[v].spent < n.spent
          BY <3>1
        <4>2. va[v].spent \in Nat /\ n.spent \in 0 .. MaxCumulative
          BY <1>1, <4>1, AccountFields, TransactionsAssumption
        <4>3. n.spent \in 1 .. MaxCumulative /\ ~(n.spent <= va[v].spent)
          BY <4>1, <4>2, TransactionsAssumption
        <4>4. v \in Bound(vb, s)
          BY <2>2, <4>1 DEF Bound
        <4>5. <<n.spent, v>> \in Stepped(vb, s)
          BY <1>1, <4>3, <4>4, TransactionsAssumption DEF Stepped
        <4>6. <<n.spent, v>> \notin Stepped(va, s)
          BY <4>3 DEF Stepped
        <4>7. Cardinality(Stepped(va, s)) + 1 <= Cardinality(Stepped(vb, s))
          BY <2>5, <2>6, <4>5, <4>6, CardLess
        <4> QED BY <2>7, <2>10, <4>7
      <3>2. CASE ~Entitles(q, "settle_tab_voucher", s)
        BY <2>7, <3>2 DEF Owed
      <3> QED BY <3>1, <3>2
    <2>14. Owed(p, "finalize_withdrawal", s) \in Nat /\ Owed(p, "settle_tab_voucher", s) \in Nat
          /\ Owed(q, "finalize_withdrawal", s) \in Nat /\ Owed(q, "settle_tab_voucher", s) \in Nat
      BY <2>10
    <2> QED BY <2>7, <2>8, <2>9, <2>11, <2>12, <2>13, <2>14 DEF Covered
  <1> QED BY <1>2, <1>3, <1>4, <1>5 DEF Funded

\* An assertion that takes effect once more: no request is struck from the book.
LEMMA LandedGrows ==
  ASSUME NEW ap, IsABag(ap), NEW y, NEW ab, ab = ap (+) SetToBag({y})
  PROVE  /\ \A x : Times(x, ap) \in Nat /\ Times(x, ab) \in Nat /\ Times(x, ap) <= Times(x, ab)
         /\ Times(y, ab) = Times(y, ap) + 1
         /\ \A u : Landed(u, ap) \subseteq Landed(u, ab)
         /\ IsFiniteSet(DOMAIN ap) => IsFiniteSet(DOMAIN ab)
  <1>1. /\ DOMAIN ab = DOMAIN ap \cup {y}
        /\ ab[y] = (IF y \in DOMAIN ap THEN ap[y] ELSE 0) + 1
        /\ \A x \in DOMAIN ap : x # y => ab[x] = ap[x]
        /\ \A x \in DOMAIN ap : ap[x] \in Nat
    BY DEF IsABag, SetToBag, (+)
  <1>2. /\ \A x : Times(x, ap) \in Nat /\ Times(x, ab) \in Nat /\ Times(x, ap) <= Times(x, ab)
        /\ Times(y, ab) = Times(y, ap) + 1
    BY <1>1 DEF Times
  <1>3. ASSUME NEW u, NEW r \in Landed(u, ap) PROVE r \in Landed(u, ab)
    <2> DEFINE requests(b) == {x \in DOMAIN b : x[2] = u /\ x[1].message.op = "request_withdrawal"}
    <2>1. /\ r \in requests(ap) \X (1 .. MaxRequests)
          /\ r[2] <= Times(r[1], ap) /\ r[2] \in 1 .. MaxRequests
      BY DEF Landed
    <2>2. Times(r[1], ap) \in Nat /\ Times(r[1], ab) \in Nat /\ Times(r[1], ap) <= Times(r[1], ab)
      BY <1>2
    <2>3. r[2] <= Times(r[1], ab)
      BY <2>1, <2>2, TransactionsAssumption
    <2>4. r \in requests(ab) \X (1 .. MaxRequests)
      BY <1>1, <2>1
    <2> QED BY <2>3, <2>4 DEF Landed
  <1>4. IsFiniteSet(DOMAIN ap) => IsFiniteSet(DOMAIN ab)
    BY <1>1, FS_AddElement
  <1> QED BY <1>2, <1>3, <1>4

\* A request that lands is a new entry of the book, be it the same assertion again.
LEMMA LandedNew ==
  ASSUME NEW ap, IsABag(ap), IsFiniteSet(DOMAIN ap), NEW y, NEW v,
         y[2] = v, y[1].message.op = "request_withdrawal",
         Cardinality(Landed(v, ap)) < MaxRequests,
         NEW ab, ab = ap (+) SetToBag({y})
  PROVE  \E r \in Landed(v, ab) : r \notin Landed(v, ap)
  <1> DEFINE c == Times(y, ap)
  <1>1. c \in Nat /\ Times(y, ab) = c + 1
    BY LandedGrows
  <1>2. c > 0 => y \in DOMAIN ap
    BY DEF Times
  <1>3. c + 1 > 0 => y \in DOMAIN ab
    BY <1>1 DEF Times
  <1> HIDE DEF c
  <1>4. IsFiniteSet(1 .. MaxRequests) /\ Cardinality(1 .. MaxRequests) = MaxRequests
    BY FS_Interval, TransactionsAssumption
  <1>5. c < MaxRequests
    <2> SUFFICES ASSUME ~(c < MaxRequests) PROVE FALSE
      OBVIOUS
    <2>1. \A i \in 1 .. MaxRequests : i <= c /\ c > 0
      BY <1>1, TransactionsAssumption
    <2>2. {y} \X (1 .. MaxRequests) \subseteq Landed(v, ap)
      BY <1>2, <2>1 DEF Landed, c
    <2>3. Cardinality({y} \X (1 .. MaxRequests)) = MaxRequests
      <3>1. IsFiniteSet({y}) /\ Cardinality({y}) = 1
        BY FS_Singleton
      <3>2. Cardinality({y} \X (1 .. MaxRequests)) = Cardinality({y}) * Cardinality(1 .. MaxRequests)
        BY <1>4, <3>1, FS_Product
      <3> QED BY <1>4, <3>1, <3>2, TransactionsAssumption
    <2>4. IsFiniteSet(Landed(v, ap))
      <3>1. Landed(v, ap) \subseteq (DOMAIN ap) \X (1 .. MaxRequests)
        BY DEF Landed
      <3>2. IsFiniteSet((DOMAIN ap) \X (1 .. MaxRequests))
        BY <1>4, FS_Product
      <3> QED BY <3>1, <3>2, FS_Subset
    <2>5. Cardinality(Landed(v, ap)) \in Nat /\ MaxRequests <= Cardinality(Landed(v, ap))
      BY <2>2, <2>3, <2>4, CardLeq
    <2> QED BY <2>5, TransactionsAssumption
  <1>6. c + 1 \in 1 .. MaxRequests /\ ~(c + 1 <= c) /\ c + 1 > 0
    BY <1>1, <1>5, TransactionsAssumption
  <1>7. <<y, c + 1>> \in Landed(v, ab)
    BY <1>1, <1>3, <1>6 DEF Landed
  <1>8. <<y, c + 1>> \notin Landed(v, ap)
    BY <1>6 DEF Landed, c
  <1> QED BY <1>7, <1>8

-----------------------------------------------------------------------------
LEMMA PaysInstruction ==
  ASSUME PayInv, KeyInv', before' = before,
         Funded(vault', paid', applied', previous')
  PROVE  PayInv'
  BY DEF PayInv, InTransaction

\* A handler that writes a vault.
LEMMA PaysWrite ==
  ASSUME PayInv, KeyInv', NEW v \in Vaults, NEW n, Succeeds(vault[v], n),
         vault' = [vault EXCEPT ![v] = n], paid' = paid, IsFiniteSet(DOMAIN applied'),
         \A u \in Vaults : Landed(u, applied) \subseteq Landed(u, applied'),
         n.pending_withdrawal # None =>
            \/ vault[v] # None /\ vault[v].pending_withdrawal # None
            \/ \E r \in Landed(v, applied') : r \notin Landed(v, applied),
         vault[v] # None => vault[v].spent <= n.spent,
         NEW name, NEW s, Handler(name, s),
         name = "finalize_withdrawal" =>
            /\ vault[v] # None /\ s = vault[v].swig_address
            /\ vault[v].pending_withdrawal # None /\ n.pending_withdrawal = None,
         name = "settle_tab_voucher" =>
            /\ vault[v] # None /\ s = vault[v].swig_address /\ vault[v].spent < n.spent
  PROVE  PayInv'
  <1>1. /\ before' = before
        /\ previous' = [program |-> "dexter_vault", name |-> name, swig |-> s]
    BY DEF Handler, Run
  <1>2. ASSUME NEW marker, NEW t, Entitles(previous', marker, t) PROVE name = marker /\ s = t
    BY <1>1, <1>2 DEF Entitles
  <1>3. /\ vault \in [Vaults -> Account \cup {None}] /\ paid \in [Swigs -> [Markers -> Nat]]
        /\ Funded(vault, paid, applied, previous)
    BY DEF PayInv, KeyInv, Sound, Typed
  <1>4. \A t \in Swigs : Entitles(previous', "finalize_withdrawal", t) =>
            /\ vault[v] # None /\ vault[v].swig_address = t
            /\ vault[v].pending_withdrawal # None /\ n.pending_withdrawal = None
    BY <1>2
  <1>5. \A t \in Swigs : Entitles(previous', "settle_tab_voucher", t) =>
            /\ vault[v] # None /\ vault[v].swig_address = t /\ vault[v].spent < n.spent
    BY <1>2
  <1>6. Funded(vault', paid, applied', previous')
    BY <1>3, <1>4, <1>5, FundedWrite
  <1> QED BY <1>1, <1>6, PaysInstruction

\* A handler that changes neither what is pending nor what was spent, on the
\* word of a passkey or without.
LEMMA PaysQuiet ==
  ASSUME PayInv, KeyInv', NEW v \in Vaults, NEW n, Succeeds(vault[v], n),
         vault' = [vault EXCEPT ![v] = n], paid' = paid,
         applied' = applied \/ \E y : applied' = applied (+) SetToBag({y}),
         IF vault[v] = None THEN n.pending_withdrawal = None
         ELSE /\ n.pending_withdrawal = vault[v].pending_withdrawal
              /\ n.spent = vault[v].spent,
         NEW name, name \notin Markers, NEW s, Handler(name, s)
  PROVE  PayInv'
  <1>1. /\ \A u \in Vaults : Landed(u, applied) \subseteq Landed(u, applied')
        /\ IsFiniteSet(DOMAIN applied')
    <2>1. CASE applied' = applied
      BY <2>1 DEF PayInv, Funded
    <2>2. CASE \E y : applied' = applied (+) SetToBag({y})
      BY <2>2, LandedGrows DEF PayInv, KeyInv, Sound, Typed, Funded
    <2> QED BY <2>1, <2>2
  <1>2. vault[v] # None => vault[v].spent <= n.spent
    <2>1. vault[v] # None => vault[v].spent \in Nat
      BY AccountFields, TransactionsAssumption DEF PayInv, KeyInv, Sound, Typed
    <2> QED BY <2>1
  <1>3. name # "finalize_withdrawal" /\ name # "settle_tab_voucher"
    BY DEF Markers
  <1> QED BY <1>1, <1>2, <1>3, PaysWrite

LEMMA PaysInitialize ==
  ASSUME PayInv, NEW v \in Vaults, NEW key \in Passkeys \cup {Malformed},
         NEW authority \in Authorities, InitializeVault(v, key, authority)
  PROVE  PayInv'
  <1> DEFINE n == [passkey_pubkey |-> key, dexter_authority |-> authority,
                   swig_address |-> Default, pending_withdrawal |-> None, spent |-> 0]
  <1>1. n \in Account /\ n.pending_withdrawal = None
    BY TransactionsAssumption DEF InitializeVault, Account
  <1>2. /\ vault[v] = None /\ vault' = [vault EXCEPT ![v] = n]
        /\ Handler("initialize_vault", None) /\ UNCHANGED <<swig, paid, applied>>
    BY DEF InitializeVault
  <1>3. KeyInv'
    BY KeepsInitialize DEF PayInv
  <1> HIDE DEF n
  <1>4. Succeeds(vault[v], n) /\ "initialize_vault" \notin Markers
    BY <1>1, <1>2 DEF Succeeds, Markers
  <1> QED BY <1>1, <1>2, <1>3, <1>4, PaysQuiet

LEMMA PaysRotateAuthority ==
  ASSUME PayInv, NEW v \in Vaults, NEW signer,
         NEW new \in Authorities \cup {Default}, RotateDexterAuthority(v, signer, new)
  PROVE  PayInv'
  <1> DEFINE n == [vault[v] EXCEPT !.dexter_authority = new]
  <1>1. vault[v] # None /\ vault[v] \in Account /\ vault \in [Vaults -> Account \cup {None}]
    BY DEF RotateDexterAuthority, PayInv, KeyInv, Sound, Typed
  <1>2. /\ n \in Account /\ n.swig_address = vault[v].swig_address
        /\ n.pending_withdrawal = vault[v].pending_withdrawal /\ n.spent = vault[v].spent
    BY <1>1 DEF Account, RotateDexterAuthority
  <1>3. /\ vault' = [vault EXCEPT ![v] = n] /\ UNCHANGED <<swig, paid, applied>>
        /\ Handler("rotate_dexter_authority", None)
    BY <1>1 DEF RotateDexterAuthority
  <1>4. KeyInv'
    BY KeepsRotateAuthority DEF PayInv
  <1> HIDE DEF n
  <1>5. Succeeds(vault[v], n) /\ "rotate_dexter_authority" \notin Markers
    BY <1>2 DEF Succeeds, Markers
  <1> QED BY <1>1, <1>2, <1>3, <1>4, <1>5, PaysQuiet

LEMMA PaysRotatePasskey ==
  ASSUME PayInv, NEW v \in Vaults, NEW new \in Passkeys \cup {Malformed},
         RotatePasskey(v, new)
  PROVE  PayInv'
  <1> DEFINE n == [vault[v] EXCEPT !.passkey_pubkey = new]
  <1>1. vault[v] # None /\ vault[v] \in Account /\ vault \in [Vaults -> Account \cup {None}]
    BY DEF RotatePasskey, PayInv, KeyInv, Sound, Typed
  <1>2. /\ n \in Account /\ n.swig_address = vault[v].swig_address
        /\ n.pending_withdrawal = vault[v].pending_withdrawal /\ n.spent = vault[v].spent
    BY <1>1 DEF Account, RotatePasskey
  <1>3. vault' = [vault EXCEPT ![v] = n] /\ paid' = paid /\ Handler("rotate_passkey", None)
    BY <1>1 DEF RotatePasskey
  <1>4. \E y : applied' = applied (+) SetToBag({y})
    BY DEF RotatePasskey, Applied
  <1>5. KeyInv'
    BY KeepsRotatePasskey DEF PayInv
  <1> HIDE DEF n
  <1>6. Succeeds(vault[v], n) /\ "rotate_passkey" \notin Markers
    BY <1>2 DEF Succeeds, Markers
  <1> QED BY <1>1, <1>2, <1>3, <1>4, <1>5, <1>6, PaysQuiet

\* The vault takes its pending request and its book along to the wallet.
LEMMA PaysBinding ==
  ASSUME PayInv, NEW v \in Vaults, NEW s \in Swigs,
         SetSwig(v, s) \/ SetSwigAtomic(v, s, FeePayer, Master)
  PROVE  PayInv'
  <1> DEFINE n == [vault[v] EXCEPT !.swig_address = s]
  <1>1. vault[v] # None /\ vault[v] \in Account /\ vault \in [Vaults -> Account \cup {None}]
    BY DEF SetSwig, SetSwigAtomic, PayInv, KeyInv, Sound, Typed
  <1>2. /\ n \in Account /\ n.swig_address = s
        /\ n.pending_withdrawal = vault[v].pending_withdrawal /\ n.spent = vault[v].spent
    BY <1>1 DEF Account
  <1>3. /\ vault' = [vault EXCEPT ![v] = n] /\ paid' = paid
        /\ vault[v].swig_address = Default
    BY <1>1 DEF SetSwig, SetSwigAtomic
  <1>4. Handler("set_swig", None) \/ Handler("set_swig_atomic", None)
    BY DEF SetSwig, SetSwigAtomic
  <1>5. \E y : applied' = applied (+) SetToBag({y})
    BY DEF SetSwig, SetSwigAtomic, Applied
  <1>6. KeyInv'
    BY KeepsSetSwig, KeepsSetSwigAtomic DEF PayInv
  <1> HIDE DEF n
  <1>7. Succeeds(vault[v], n) /\ "set_swig" \notin Markers /\ "set_swig_atomic" \notin Markers
    BY <1>2, <1>3 DEF Succeeds, Markers
  <1> QED BY <1>1, <1>2, <1>3, <1>4, <1>5, <1>6, <1>7, PaysQuiet

LEMMA RequestedIsLanded ==
  ASSUME NEW v
  PROVE  Requested(v) = Landed(v, applied)
  BY DEF Requested, Landed, Copies, Times, BagIn, BagToSet

LEMMA PaysRequest ==
  ASSUME PayInv, NEW v \in Vaults, NEW w \in Withdrawals, NEW signed_at \in 0 .. MaxTime,
         RequestWithdrawal(v, w, signed_at)
  PROVE  PayInv'
  <1> DEFINE message == [op |-> "request_withdrawal", withdrawal |-> w, signed_at |-> signed_at]
             a == [key |-> vault[v].passkey_pubkey, message |-> message]
             n == [vault[v] EXCEPT !.pending_withdrawal = w]
  <1>1. /\ vault[v] # None /\ vault[v] \in Account /\ vault \in [Vaults -> Account \cup {None}]
        /\ IsABag(applied) /\ IsFiniteSet(DOMAIN applied) /\ vault[v].spent \in Nat
    BY AccountFields, TransactionsAssumption
       DEF RequestWithdrawal, PayInv, KeyInv, Sound, Typed, Funded
  <1>2. a.message.op = "request_withdrawal"
    OBVIOUS
  <1>3. applied' = applied (+) SetToBag({<<a, v>>})
    BY DEF RequestWithdrawal, Applied
  <1>4. vault' = [vault EXCEPT ![v] = n] /\ paid' = paid /\ Handler("request_withdrawal", None)
    BY <1>1 DEF RequestWithdrawal
  <1>5. n \in Account /\ n.swig_address = vault[v].swig_address /\ n.spent = vault[v].spent
    BY <1>1 DEF Account
  <1>6. KeyInv'
    BY KeepsRequest DEF PayInv
  <1>7. Cardinality(Landed(v, applied)) < MaxRequests
    BY RequestedIsLanded DEF RequestWithdrawal
  <1> HIDE DEF a, n, message
  <1> DEFINE y == <<a, v>>
  <1>8. y[1] = a /\ y[2] = v /\ applied' = applied (+) SetToBag({y})
    BY <1>3
  <1> HIDE DEF y
  <1>9. /\ \A u \in Vaults : Landed(u, applied) \subseteq Landed(u, applied')
        /\ IsFiniteSet(DOMAIN applied')
        /\ \E r \in Landed(v, applied') : r \notin Landed(v, applied)
    <2>1. \E r \in Landed(v, applied') : r \notin Landed(v, applied)
      BY <1>1, <1>2, <1>7, <1>8, LandedNew
    <2> QED BY <1>1, <1>8, <2>1, LandedGrows
  <1>10. Succeeds(vault[v], n) /\ vault[v].spent <= n.spent
    BY <1>1, <1>5 DEF Succeeds
  <1>11. \A name : name = "request_withdrawal" =>
            name # "finalize_withdrawal" /\ name # "settle_tab_voucher"
    OBVIOUS
  <1> QED BY <1>4, <1>6, <1>9, <1>10, <1>11, PaysWrite

LEMMA PaysFinalize ==
  ASSUME PayInv, NEW v \in Vaults, FinalizeWithdrawal(v)
  PROVE  PayInv'
  <1> DEFINE n == [vault[v] EXCEPT !.pending_withdrawal = None]
  <1>1. /\ vault[v] # None /\ vault[v] \in Account /\ vault \in [Vaults -> Account \cup {None}]
        /\ vault[v].spent \in Nat /\ vault[v].pending_withdrawal # None
    BY AccountFields, TransactionsAssumption DEF FinalizeWithdrawal, PayInv, KeyInv, Sound, Typed
  <1>2. /\ n \in Account /\ n.pending_withdrawal = None
        /\ n.swig_address = vault[v].swig_address /\ n.spent = vault[v].spent
    BY <1>1 DEF Account
  <1>3. /\ vault' = [vault EXCEPT ![v] = n] /\ UNCHANGED <<swig, paid, applied>>
        /\ Handler("finalize_withdrawal", vault[v].swig_address)
    BY <1>1 DEF FinalizeWithdrawal
  <1>4. KeyInv'
    BY KeepsFinalize DEF PayInv
  <1> HIDE DEF n
  <1>5. Succeeds(vault[v], n) /\ vault[v].spent <= n.spent
    BY <1>1, <1>2 DEF Succeeds
  <1>6. /\ \A u \in Vaults : Landed(u, applied) \subseteq Landed(u, applied')
        /\ IsFiniteSet(DOMAIN applied')
    BY <1>3 DEF PayInv, Funded
  <1>7. \A name : name = "finalize_withdrawal" => name # "settle_tab_voucher"
    OBVIOUS
  <1>8. /\ vault[v] # None /\ vault[v].pending_withdrawal # None /\ n.pending_withdrawal = None
        /\ vault' = [vault EXCEPT ![v] = n] /\ paid' = paid
    BY <1>1, <1>2, <1>3
  <1>9. Handler("finalize_withdrawal", vault[v].swig_address)
    BY <1>3
  <1> QED BY <1>4, <1>5, <1>6, <1>7, <1>8, <1>9, PaysWrite

LEMMA PaysSettleTab ==
  ASSUME PayInv, NEW v \in Vaults, NEW cumulative \in 1 .. MaxCumulative,
         SettleTabVoucher(v, cumulative)
  PROVE  PayInv'
  <1> DEFINE n == [vault[v] EXCEPT !.spent = cumulative]
  <1>1. /\ vault[v] # None /\ vault[v] \in Account /\ vault \in [Vaults -> Account \cup {None}]
        /\ vault[v].spent \in Nat
    BY AccountFields, TransactionsAssumption DEF SettleTabVoucher, PayInv, KeyInv, Sound, Typed
  <1>2. /\ n \in Account /\ n.pending_withdrawal = vault[v].pending_withdrawal
        /\ n.swig_address = vault[v].swig_address /\ n.spent = cumulative
    BY <1>1, TransactionsAssumption DEF Account
  <1>3. /\ vault' = [vault EXCEPT ![v] = n] /\ UNCHANGED <<swig, paid, applied>>
        /\ Handler("settle_tab_voucher", vault[v].swig_address) /\ cumulative > vault[v].spent
    BY <1>1 DEF SettleTabVoucher
  <1>4. KeyInv'
    BY KeepsSettleTab DEF PayInv
  <1> HIDE DEF n
  <1>5. Succeeds(vault[v], n) /\ vault[v].spent <= n.spent /\ vault[v].spent < n.spent
    BY <1>1, <1>2, <1>3, TransactionsAssumption DEF Succeeds
  <1>6. /\ \A u \in Vaults : Landed(u, applied) \subseteq Landed(u, applied')
        /\ IsFiniteSet(DOMAIN applied')
    BY <1>3 DEF PayInv, Funded
  <1> QED BY <1>1, <1>2, <1>3, <1>4, <1>5, <1>6, PaysWrite

\* The precompiles and prove_passkey entitle to no payment.
LEMMA PaysChecks ==
  ASSUME PayInv, KeyInv', UNCHANGED <<vault, paid, applied, before>>,
         \A marker \in Markers, s \in Swigs : ~Entitles(previous', marker, s)
  PROVE  PayInv'
  <1>1. /\ paid \in [Swigs -> [Markers -> Nat]]
        /\ Funded(vault, paid, applied, previous)
    BY DEF PayInv, KeyInv, Sound, Typed
  <1>2. Funded(vault, paid, applied, previous')
    BY <1>1, FundedIdle
  <1> QED BY <1>2, PaysInstruction

LEMMA PaysSecp ==
  ASSUME PayInv, NEW a \in Assertion, NEW in_place \in BOOLEAN, Secp256r1Verify(a, in_place)
  PROVE  PayInv'
  <1>1. UNCHANGED <<vault, paid, applied, before>>
    BY DEF Secp256r1Verify, Run
  <1>2. previous' = [program |-> "secp256r1", assertion |-> a]
    BY DEF Secp256r1Verify, Run
  <1>3. \A marker \in Markers, s \in Swigs : ~Entitles(previous', marker, s)
    BY <1>2 DEF Entitles
  <1> QED BY <1>1, <1>3, KeepsSecp, PaysChecks DEF PayInv

LEMMA PaysEd25519 ==
  ASSUME PayInv, NEW v, NEW cumulative, Ed25519Verify(v, cumulative)
  PROVE  PayInv'
  <1>1. UNCHANGED <<vault, paid, applied, before>>
    BY DEF Ed25519Verify, Run, accounts
  <1>2. previous' = [program |-> "ed25519", session |-> v, cumulative |-> cumulative]
    BY DEF Ed25519Verify, Run
  <1>3. \A marker \in Markers, s \in Swigs : ~Entitles(previous', marker, s)
    BY <1>2 DEF Entitles
  <1> QED BY <1>1, <1>3, KeepsEd25519, PaysChecks DEF PayInv

LEMMA PaysProvePasskey ==
  ASSUME PayInv, NEW v, ProvePasskey(v)
  PROVE  PayInv'
  <1>1. UNCHANGED <<vault, paid, applied, before>>
    BY DEF ProvePasskey, Handler, Run, accounts
  <1>2. previous' = [program |-> "dexter_vault", name |-> "prove_passkey", swig |-> None]
    BY DEF ProvePasskey, Handler, Run
  <1>3. \A marker \in Markers, s \in Swigs : ~Entitles(previous', marker, s)
    BY <1>2 DEF Entitles, Markers
  <1> QED BY <1>1, <1>3, KeepsProvePasskey, PaysChecks DEF PayInv

\* The payment uses up the instruction before it.
LEMMA PaysSignV2 ==
  ASSUME PayInv, NEW s \in Swigs, NEW marker \in Markers, SignV2(s, marker)
  PROVE  PayInv'
  <1>1. UNCHANGED <<vault, applied, before>>
    BY DEF SignV2, Run
  <1>2. previous' = [program |-> "swig", name |-> "SignV2"]
    BY DEF SignV2, Run
  <1>3. \A t \in Swigs, m \in Markers : ~Entitles(previous', m, t)
    BY <1>2 DEF Entitles
  <1>4. paid' = [paid EXCEPT ![s][marker] = @ + 1] /\ Entitles(previous, marker, s)
    BY DEF SignV2, Entitles
  <1>5. /\ paid \in [Swigs -> [Markers -> Nat]]
        /\ Funded(vault, paid, applied, previous)
    BY DEF PayInv, KeyInv, Sound, Typed
  <1>6. Funded(vault, paid', applied, previous')
    BY <1>3, <1>4, <1>5, FundedPaid
  <1> QED BY <1>1, <1>6, KeepsSignV2, PaysInstruction DEF PayInv

LEMMA PaysOneInstruction ==
  ASSUME PayInv, Instruction
  PROVE  PayInv'
  <1>1. ASSUME NEW a \in Assertion, NEW in_place \in BOOLEAN, Secp256r1Verify(a, in_place)
        PROVE  PayInv'
    BY <1>1, PaysSecp
  <1>2. ASSUME NEW v \in Vaults, NEW c \in 1 .. MaxCumulative, Ed25519Verify(v, c)
        PROVE  PayInv'
    BY <1>2, PaysEd25519
  <1>3. ASSUME NEW v \in Vaults, NEW key \in Passkeys \cup {Malformed},
               NEW authority \in Authorities, InitializeVault(v, key, authority)
        PROVE  PayInv'
    BY <1>3, PaysInitialize
  <1>4. ASSUME NEW v \in Vaults, NEW new \in Passkeys \cup {Malformed}, RotatePasskey(v, new)
        PROVE  PayInv'
    BY <1>4, PaysRotatePasskey
  <1>5. ASSUME NEW v \in Vaults, NEW signer \in Authorities,
               NEW new \in Authorities \cup {Default}, RotateDexterAuthority(v, signer, new)
        PROVE  PayInv'
    BY <1>5, PaysRotateAuthority
  <1>6. ASSUME NEW v \in Vaults, ProvePasskey(v) PROVE PayInv'
    BY <1>6, PaysProvePasskey
  <1>7. ASSUME NEW v \in Vaults, NEW s \in Swigs,
               SetSwig(v, s) \/ SetSwigAtomic(v, s, FeePayer, Master)
        PROVE  PayInv'
    BY <1>7, PaysBinding
  <1>8. ASSUME NEW v \in Vaults, NEW w \in Withdrawals, NEW t \in 0 .. MaxTime,
               RequestWithdrawal(v, w, t)
        PROVE  PayInv'
    BY <1>8, PaysRequest
  <1>9. ASSUME NEW v \in Vaults, FinalizeWithdrawal(v) PROVE PayInv'
    BY <1>9, PaysFinalize
  <1>10. ASSUME NEW v \in Vaults, NEW c \in 1 .. MaxCumulative, SettleTabVoucher(v, c)
         PROVE  PayInv'
    BY <1>10, PaysSettleTab
  <1>11. ASSUME NEW s \in Swigs, NEW marker \in Markers, SignV2(s, marker) PROVE PayInv'
    BY <1>11, PaysSignV2
  <1> QED BY <1>1, <1>2, <1>3, <1>4, <1>5, <1>6, <1>7, <1>8, <1>9, <1>10, <1>11
          DEF Instruction

-----------------------------------------------------------------------------
\* None entitles to nothing.
LEMMA NoneOwes ==
  \A marker \in Markers, s \in Swigs : ~Entitles(None, marker, s)
  BY VacantAssumption DEF Entitles

LEMMA PaysBegin ==
  ASSUME PayInv, Begin
  PROVE  PayInv'
  <1>1. /\ before' = <<vault, swig, paid, applied, elsewhere>>
        /\ UNCHANGED <<vault, swig, paid, applied, previous>>
    BY DEF Begin, accounts
  <1>2. before'[1] = vault /\ before'[3] = paid /\ before'[4] = applied
    BY <1>1
  <1>3. /\ paid \in [Swigs -> [Markers -> Nat]]
        /\ Funded(vault, paid, applied, previous)
    BY DEF PayInv, KeyInv, Sound, Typed
  <1>4. Funded(vault, paid, applied, None)
    BY <1>3, NoneOwes, FundedIdle
  <1>5. /\ Funded(vault, paid, applied, previous)'
        /\ Funded(before[1], before[3], before[4], None)'
    BY <1>1, <1>2, <1>3, <1>4
  <1> QED BY <1>5, KeepsBegin DEF PayInv

LEMMA PaysCommit ==
  ASSUME PayInv, Commit
  PROVE  PayInv'
  <1>1. ~InTransaction' /\ previous' = None /\ UNCHANGED <<vault, paid, applied>>
    BY DEF Commit, accounts, InTransaction
  <1>2. /\ paid \in [Swigs -> [Markers -> Nat]]
        /\ Funded(vault, paid, applied, previous)
    BY DEF PayInv, KeyInv, Sound, Typed
  <1>3. Funded(vault, paid, applied, None)
    BY <1>2, NoneOwes, FundedIdle
  <1>4. Funded(vault, paid, applied, previous)'
    BY <1>1, <1>3
  <1> QED BY <1>1, <1>4, KeepsCommit DEF PayInv

LEMMA PaysAbort ==
  ASSUME PayInv, Abort
  PROVE  PayInv'
  <1>1. /\ ~InTransaction' /\ InTransaction /\ previous' = None
        /\ vault' = before[1] /\ paid' = before[3] /\ applied' = before[4]
    BY DEF Abort, InTransaction
  <1>2. Funded(before[1], before[3], before[4], None)
    BY <1>1 DEF PayInv
  <1>3. Funded(vault, paid, applied, previous)'
    BY <1>1, <1>2
  <1> QED BY <1>1, <1>3, KeepsAbort DEF PayInv

LEMMA PaysStill ==
  ASSUME PayInv, KeyInv', UNCHANGED <<vault, paid, applied, previous, before>>
  PROVE  PayInv'
  BY DEF PayInv, InTransaction

LEMMA PayStep == PayInv /\ [Next]_vars => PayInv'
  <1> SUFFICES ASSUME PayInv, [Next]_vars PROVE PayInv'
    OBVIOUS
  <1>1. KeyInv'
    BY KeyStep DEF PayInv
  <1>2. ASSUME NEW v \in Vaults, NEW message \in Message, Sign(v, message) PROVE PayInv'
    BY <1>1, <1>2, PaysStill DEF Sign, accounts
  <1>3. ASSUME NEW s \in Swigs, CreateSwig(s) PROVE PayInv'
    <2>1. UNCHANGED <<vault, paid, applied, previous, before>>
      BY <1>3 DEF CreateSwig
    <2> QED BY <1>1, <2>1, PaysStill
  <1>4. CASE Tick \/ vars' = vars
    <2>1. UNCHANGED <<vault, paid, applied, previous, before>>
      BY <1>4 DEF Tick, vars, accounts
    <2> QED BY <1>1, <2>1, PaysStill
  <1> QED BY <1>2, <1>3, <1>4, PaysBegin, PaysOneInstruction, PaysCommit, PaysAbort DEF Next

\* However instructions, assertions and vouchers are put together or repeated, for
\* any number of them and of vaults that share a wallet: a wallet pays no more
\* withdrawals than were requested and no more tabs than vouchers stepped up.
THEOREM PaymentsAreCovered == Spec => []PaymentsAreBooked
  <1>1. Init => PayInv
    BY KeyInit, FundedInit DEF PayInv, Init, InTransaction
  <1>2. PayInv => PaymentsAreBooked
    <2> SUFFICES ASSUME PayInv, NEW s \in Swigs
                 PROVE  /\ paid[s]["finalize_withdrawal"]
                              <= Cardinality(UNION {Requested(v) \X {v} : v \in BoundTo(s)})
                        /\ paid[s]["settle_tab_voucher"]
                              <= Cardinality(UNION {(1 .. vault[v].spent) \X {v} : v \in BoundTo(s)})
      BY DEF PaymentsAreBooked
    <2>1. BoundTo(s) = Bound(vault, s)
      BY DEF BoundTo, Bound, InUse
    <2>2. UNION {Requested(v) \X {v} : v \in BoundTo(s)} = Booked(vault, applied, s)
      <3>1. \A v : Landed(v, applied) \subseteq (DOMAIN applied) \X (1 .. MaxRequests)
        BY DEF Landed
      <3>2. BoundTo(s) \subseteq Vaults
        BY DEF BoundTo
      <3> QED BY <2>1, <3>1, <3>2, RequestedIsLanded DEF Booked
    <2>3. UNION {(1 .. vault[v].spent) \X {v} : v \in BoundTo(s)} = Stepped(vault, s)
      <3>1. ASSUME NEW v \in BoundTo(s) PROVE v \in Vaults /\ vault[v].spent \in 0 .. MaxCumulative
        BY AccountFields DEF BoundTo, InUse, PayInv, KeyInv, Sound, Typed
      <3>2. ASSUME NEW v \in BoundTo(s)
            PROVE  \A i : i \in 1 .. vault[v].spent
                            <=> i \in 1 .. MaxCumulative /\ i <= vault[v].spent
        BY <3>1, TransactionsAssumption
      <3> QED BY <2>1, <3>1, <3>2 DEF Stepped
    <2>4. Covered(vault, paid, applied, previous, s)
      BY DEF PayInv, Funded
    <2>5. /\ Cardinality(Pending(vault, s)) \in Nat
          /\ Cardinality(Booked(vault, applied, s)) \in Nat
          /\ Cardinality(Stepped(vault, s)) \in Nat
      BY FiniteBooks, FS_CardinalityType DEF PayInv, Funded
    <2>6. \A m \in Markers : paid[s][m] \in Nat /\ Owed(previous, m, s) \in Nat
      BY DEF PayInv, KeyInv, Sound, Typed, Owed
    <2>7. /\ paid[s]["finalize_withdrawal"] <= Cardinality(Booked(vault, applied, s))
          /\ paid[s]["settle_tab_voucher"] <= Cardinality(Stepped(vault, s))
      BY <2>4, <2>5, <2>6 DEF Covered, Markers
    <2> QED BY <2>2, <2>3, <2>7
  <1> QED BY <1>1, <1>2, PayStep, PTL DEF Spec

=================================================================================
