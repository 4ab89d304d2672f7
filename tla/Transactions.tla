------------------------------ MODULE Transactions ------------------------------
(***************************************************************************)
(* Who may act on a vault, and how a transaction shows it: the keys of a   *)
(* vault (initialize_vault, rotate_passkey, rotate_dexter_authority,       *)
(* prove_passkey), its wallet (set_swig, set_swig_atomic and the roles the *)
(* Swig program is asked to create) and the instructions whose money a     *)
(* Swig role moves.                                                        *)
(*                                                                         *)
(* A transaction is a list of instructions executed on a working copy.  A  *)
(* handler looks at the instruction just before its own for the signature  *)
(* it needs, swig::SignV2 for the handler that entitles it.  A passkey's   *)
(* assertion, once signed, can be put into a transaction at any time and   *)
(* any number of times: relayers are late, and they retry.                 *)
(*                                                                         *)
(* A verifying instruction says in which instruction the bytes it verified *)
(* are.  The handler asks only that they are all in the same one, and      *)
(* reads the instruction before its own: what it reads has been verified   *)
(* if that is the one.  Whether it is stays open in the model, and         *)
(* elsewhere counts how often it was not.                                  *)
(***************************************************************************)
EXTENDS Integers, Sequences, FiniteSets, Bags

CONSTANTS
    Vaults,          \* vault PDAs
    Passkeys,        \* SEC1-compressed P-256 keys
    Malformed,       \* 33 bytes with another first byte
    Authorities,     \* dexter authorities
    Swigs,           \* addresses a Swig account can have
    Default,         \* Pubkey::default()
    FeePayer, Master,
    None,            \* Option::None
    Withdrawals,     \* (amount, destination) pairs tried
    MaxCumulative,   \* bound: the largest cumulative amount of a voucher
    Drift,           \* the 300 s a request may be away from the clock
    MaxAssertions,   \* bound: assertions signed
    MaxRequests,     \* bound: withdrawal requests landed per vault
    MaxElsewhere,    \* bound: verifications of bytes that no handler reads
    MaxTime          \* bound: the last instant of the clock

ASSUME TransactionsAssumption ==
    /\ Default \notin Swigs \cup Authorities /\ Malformed \notin Passkeys
    /\ MaxCumulative \in Nat /\ Drift \in Nat /\ MaxAssertions \in Nat
    /\ MaxRequests \in Nat /\ MaxElsewhere \in Nat /\ MaxTime \in Nat

VARIABLES
    vault,     \* Vault accounts; None before initialize_vault
    swig,      \* Swig accounts: their roles, in order; empty if there is none
    paid,      \* history: payments out of each Swig's wallet, per marker
    applied,   \* history: the bag of (assertion, vault) pairs that took effect
    elsewhere, \* history: verifying instructions that verified another's bytes
    previous,  \* the instruction just executed; None at the head of a transaction
    before,    \* the accounts when the transaction began; None between transactions
    asserted,  \* assertions signed so far
    now        \* Clock::get().unix_timestamp

accounts == <<vault, swig, paid, applied, elsewhere>>
vars == <<accounts, previous, before, asserted, now>>

Account ==
    [passkey_pubkey : Passkeys, dexter_authority : Authorities,
     swig_address : Swigs \cup {Default},
     pending_withdrawal : Withdrawals \cup {None}, spent : 0 .. MaxCumulative]


\* The operation messages, each with its own prefix and length: no message of one
\* instruction is a message of another.
Message ==
    [op : {"set_swig"}, swig : Swigs]
    \cup [op : {"rotate_passkey"}, new : Passkeys \cup {Malformed}]
    \cup [op : {"siwx_login"}]
    \cup [op : {"request_withdrawal"}, withdrawal : Withdrawals, signed_at : 0 .. MaxTime]
    \cup [op : {"finalize_withdrawal"}, withdrawal : Withdrawals]

Assertion == [key : Passkeys, message : Message]

Markers == {"finalize_withdrawal", "settle_tab_voucher"}

\* None is no account, and no instruction that a payment follows.
ASSUME VacantAssumption ==
    None \notin Account \cup [program : {"dexter_vault"}, name : Markers, swig : Swigs]

\* Every key of a vault is a well-formed one and every binding a real address.
TypeOK ==
    /\ vault \in [Vaults -> Account \cup {None}]
    /\ paid \in [Swigs -> [Markers -> Nat]]
    /\ BagToSet(applied) \subseteq Assertion \X Vaults
    /\ elsewhere \in 0 .. MaxElsewhere
    /\ asserted \subseteq Assertion
    /\ now \in 0 .. MaxTime

Init ==
    /\ vault = [v \in Vaults |-> None]
    /\ swig = [s \in Swigs |-> <<>>]
    /\ paid = [s \in Swigs |-> [m \in Markers |-> 0]]
    /\ applied = EmptyBag
    /\ elsewhere = 0
    /\ previous = None /\ before = None
    /\ asserted = {}
    /\ now = 0

-----------------------------------------------------------------------------
(***************************************************************************)
(* Transactions.                                                           *)
(***************************************************************************)

InTransaction == before # None

Begin ==
    /\ ~InTransaction
    /\ before' = accounts
    /\ UNCHANGED <<accounts, previous, asserted, now>>

Commit ==
    /\ InTransaction
    /\ before' = None
    /\ previous' = None
    /\ UNCHANGED <<accounts, asserted, now>>

\* Some instruction fails: all of them are undone.
Abort ==
    /\ InTransaction
    /\ vault' = before[1] /\ swig' = before[2] /\ paid' = before[3] /\ applied' = before[4]
    /\ elsewhere' = before[5]
    /\ before' = None
    /\ previous' = None
    /\ UNCHANGED <<asserted, now>>

\* The next instruction of the transaction.
Run(instruction) ==
    /\ InTransaction
    /\ previous' = instruction
    /\ UNCHANGED <<before, asserted, now>>

\* The secp256r1 precompile.  assertion is what stands at the offsets the
\* instruction gives.  When the instruction it names is itself, that is what was
\* verified, so the key signed it; otherwise other bytes were.
Secp256r1Verify(assertion, in_place) ==
    /\ in_place => assertion \in asserted
    /\ ~in_place => elsewhere < MaxElsewhere
    /\ elsewhere' = IF in_place THEN elsewhere ELSE elsewhere + 1
    /\ Run([program |-> "secp256r1", assertion |-> assertion])
    /\ UNCHANGED <<vault, swig, paid, applied>>

\* The Ed25519 precompile, likewise with a voucher at its offsets.  Nothing is
\* assumed of what a session key signs, so any voucher can be there either way.
Ed25519Verify(v, cumulative) ==
    /\ Run([program |-> "ed25519", session |-> v, cumulative |-> cumulative])
    /\ UNCHANGED accounts

\* Faulty: the message is compared, the key that signed it is not.
SignedByAnyPasskey(v, message) ==
    /\ previous # None
    /\ previous.program = "secp256r1"
    /\ previous.assertion.message = message

\* verify_passkey_signed: there is a previous instruction, it is the precompile,
\* its three indices are equal, and the vault's current key and the message stand
\* at its offsets.  Which instruction the indices name is not asked.
PasskeySigned(v, message) ==
    /\ previous # None
    /\ previous.program = "secp256r1"
    /\ previous.assertion = [key |-> vault[v].passkey_pubkey, message |-> message]

\* verify_session_signed, likewise for the session key.
SessionSigned(v, cumulative) ==
    /\ previous # None
    /\ previous = [program |-> "ed25519", session |-> v, cumulative |-> cumulative]

\* An instruction of the program; swig is the account it has at index 0.
Handler(name, s) ==
    /\ Run([program |-> "dexter_vault", name |-> name, swig |-> s])
    /\ UNCHANGED elsewhere

Applied(v, message) ==
    applied' = applied (+) SetToBag({<<[key |-> vault[v].passkey_pubkey, message |-> message], v>>})

-----------------------------------------------------------------------------
(***************************************************************************)
(* The vault's keys.                                                       *)
(***************************************************************************)

\* The PDA is vacant and the authority signs.
InitializeVault(v, passkey_pubkey, dexter_authority) ==
    /\ vault[v] = None
    /\ passkey_pubkey # Malformed
    /\ vault' = [vault EXCEPT ![v] =
            [passkey_pubkey |-> passkey_pubkey, dexter_authority |-> dexter_authority,
             swig_address |-> Default, pending_withdrawal |-> None, spent |-> 0]]
    /\ Handler("initialize_vault", None)
    /\ UNCHANGED <<swig, paid, applied>>

\* Faulty: the first byte of the new key is not looked at.
RotatePasskeyUnchecked(v, new) ==
    /\ vault[v] # None
    /\ PasskeySigned(v, [op |-> "rotate_passkey", new |-> new])
    /\ vault' = [vault EXCEPT ![v].passkey_pubkey = new]
    /\ Applied(v, [op |-> "rotate_passkey", new |-> new])
    /\ Handler("rotate_passkey", None)
    /\ UNCHANGED <<swig, paid>>

RotatePasskey(v, new) ==
    LET message == [op |-> "rotate_passkey", new |-> new]
    IN  /\ vault[v] # None
        /\ new # Malformed
        /\ PasskeySigned(v, message)
        /\ vault' = [vault EXCEPT ![v].passkey_pubkey = new]
        /\ Applied(v, message)
        /\ Handler("rotate_passkey", None)
        /\ UNCHANGED <<swig, paid>>

\* The current authority signs; the new one need not.
RotateDexterAuthority(v, signer, new) ==
    /\ vault[v] # None
    /\ vault[v].dexter_authority = signer
    /\ new # Default
    /\ vault' = [vault EXCEPT ![v].dexter_authority = new]
    /\ Handler("rotate_dexter_authority", None)
    /\ UNCHANGED <<swig, paid, applied>>

ProvePasskey(v) ==
    /\ vault[v] # None
    /\ PasskeySigned(v, [op |-> "siwx_login"])
    /\ Handler("prove_passkey", None)
    /\ UNCHANGED <<vault, swig, paid, applied>>

-----------------------------------------------------------------------------
(***************************************************************************)
(* The vault's wallet.                                                     *)
(***************************************************************************)

\* Faulty: whether a Swig is bound already is not looked at.
SetSwigAgain(v, swig_address) ==
    LET message == [op |-> "set_swig", swig |-> swig_address]
    IN  /\ vault[v] # None
        /\ PasskeySigned(v, message)
        /\ vault' = [vault EXCEPT ![v].swig_address = swig_address]
        /\ Applied(v, message)
        /\ Handler("set_swig", None)
        /\ UNCHANGED <<swig, paid>>

\* Any address is taken on the passkey's word.
SetSwig(v, swig_address) ==
    LET message == [op |-> "set_swig", swig |-> swig_address]
    IN  /\ vault[v] # None
        /\ vault[v].swig_address = Default
        /\ PasskeySigned(v, message)
        /\ vault' = [vault EXCEPT ![v].swig_address = swig_address]
        /\ Applied(v, message)
        /\ Handler("set_swig", None)
        /\ UNCHANGED <<swig, paid>>

Role(type, authority, actions) ==
    [type |-> type, authority |-> authority, actions |-> actions]

ProgramExec(marker) == Role("ProgramExec", marker, {"All"})

\* Roles 0 to 3, in the order of the calls that create them.
OnboardingRoles(fee_payer, dexter_master) ==
    <<Role("Ed25519", fee_payer, {"ManageAuthority"}),
      ProgramExec("finalize_withdrawal"),
      Role("Ed25519Session", dexter_master, {"TokenLimit", "ProgramAll"}),
      ProgramExec("settle_tab_voucher")>>

\* swig::CreateV1 succeeds where no Swig is, swig::AddAuthorityV1 if the fee payer
\* signs for role 0 and role 0 may manage authorities.
CallsSucceed(s, fee_payer, roles) ==
    /\ swig[s] = <<>>
    /\ roles[1].authority = fee_payer
    /\ "ManageAuthority" \in roles[1].actions

\* The wallet is created, the passkey checked, the wallet bound.
SetSwigAtomic(v, s, fee_payer, dexter_master) ==
    LET message == [op |-> "set_swig", swig |-> s]
    IN  /\ vault[v] # None
        /\ vault[v].swig_address = Default
        /\ CallsSucceed(s, fee_payer, OnboardingRoles(fee_payer, dexter_master))
        /\ swig' = [swig EXCEPT ![s] = OnboardingRoles(fee_payer, dexter_master)]
        /\ PasskeySigned(v, message)
        /\ vault' = [vault EXCEPT ![v].swig_address = s]
        /\ Applied(v, message)
        /\ Handler("set_swig_atomic", None)
        /\ UNCHANGED paid

-----------------------------------------------------------------------------
(***************************************************************************)
(* Money.  Of the two handlers below only what signatures decide is        *)
(* modelled here; Withdrawals and Vouchers have their other conditions.    *)
(***************************************************************************)

\* How often an assertion took effect on a vault, x being the pair of the two.
Copies(x) == IF BagIn(x, applied) THEN applied[x] ELSE 0

\* The requests that landed on a vault: an assertion, and the how-manieth time.
Requested(v) ==
    LET requests == {x \in BagToSet(applied) :
                        x[2] = v /\ x[1].message.op = "request_withdrawal"}
    IN  {r \in requests \X (1 .. MaxRequests) : r[2] <= Copies(r[1])}

\* A later request replaces an earlier one, and the same one may land again.
RequestWithdrawal(v, withdrawal, signed_at) ==
    LET message == [op |-> "request_withdrawal", withdrawal |-> withdrawal,
                    signed_at |-> signed_at]
    IN  /\ vault[v] # None
        /\ signed_at - now <= Drift /\ now - signed_at <= Drift
        /\ PasskeySigned(v, message)
        /\ Cardinality(Requested(v)) < MaxRequests
        /\ vault' = [vault EXCEPT ![v].pending_withdrawal = withdrawal]
        /\ Applied(v, message)
        /\ Handler("request_withdrawal", None)
        /\ UNCHANGED <<swig, paid>>

\* Faulty: the request stays pending.
FinalizeWithoutClearing(v) ==
    /\ vault[v] # None
    /\ vault[v].pending_withdrawal # None
    /\ vault[v].swig_address # Default
    /\ PasskeySigned(v, [op |-> "finalize_withdrawal",
                         withdrawal |-> vault[v].pending_withdrawal])
    /\ Handler("finalize_withdrawal", vault[v].swig_address)
    /\ UNCHANGED <<vault, swig, paid, applied>>

FinalizeWithdrawal(v) ==
    /\ vault[v] # None
    /\ vault[v].pending_withdrawal # None
    /\ vault[v].swig_address # Default
    /\ PasskeySigned(v, [op |-> "finalize_withdrawal",
                         withdrawal |-> vault[v].pending_withdrawal])
    /\ vault' = [vault EXCEPT ![v].pending_withdrawal = None]
    /\ Handler("finalize_withdrawal", vault[v].swig_address)
    /\ UNCHANGED <<swig, paid, applied>>

\* A voucher counts for what it adds to those before it.
SettleTabVoucher(v, cumulative) ==
    /\ vault[v] # None
    /\ vault[v].swig_address # Default
    /\ cumulative > vault[v].spent
    /\ SessionSigned(v, cumulative)
    /\ vault' = [vault EXCEPT ![v].spent = cumulative]
    /\ Handler("settle_tab_voucher", vault[v].swig_address)
    /\ UNCHANGED <<swig, paid, applied>>

\* swig::SignV2 under a ProgramExec role: the previous instruction is the one of
\* its marker and names this Swig.
SignV2(s, marker) ==
    /\ \E i \in DOMAIN swig[s] : swig[s][i] = ProgramExec(marker)
    /\ previous = [program |-> "dexter_vault", name |-> marker, swig |-> s]
    /\ paid' = [paid EXCEPT ![s][marker] = @ + 1]
    /\ Run([program |-> "swig", name |-> "SignV2"])
    /\ UNCHANGED <<vault, swig, applied, elsewhere>>

-----------------------------------------------------------------------------
(***************************************************************************)
(* The people.                                                             *)
(***************************************************************************)

\* A client creates a Swig itself, with the first three roles, for set_swig.
CreateSwig(s) ==
    /\ ~InTransaction
    /\ swig[s] = <<>>
    /\ swig' = [swig EXCEPT ![s] = SubSeq(OnboardingRoles(FeePayer, Master), 1, 3)]
    /\ UNCHANGED <<vault, paid, applied, elsewhere, previous, before, asserted, now>>

\* Keys that are or were some vault's.
InUse(v) == vault[v] # None
Used ==
    {vault[v].passkey_pubkey : v \in {u \in Vaults : InUse(u)}}
    \cup {x[1].key : x \in BagToSet(applied)}

\* The owner signs with a key of hers, and moves only to keys never used before.
Sign(v, message) ==
    /\ ~InTransaction
    /\ InUse(v)
    /\ Cardinality(asserted) < MaxAssertions
    /\ message.op = "rotate_passkey" => message.new \notin Used
    /\ message.op = "request_withdrawal" => message.signed_at = now
    /\ asserted' = asserted \cup {[key |-> vault[v].passkey_pubkey, message |-> message]}
    /\ UNCHANGED <<accounts, previous, before, now>>

Tick ==
    /\ ~InTransaction
    /\ now < MaxTime
    /\ now' = now + 1
    /\ UNCHANGED <<accounts, previous, before, asserted>>

Instruction ==
    \/ \E a \in Assertion, in_place \in BOOLEAN : Secp256r1Verify(a, in_place)
    \/ \E v \in Vaults :
        \/ \E cumulative \in 1 .. MaxCumulative : Ed25519Verify(v, cumulative)
        \/ \E key \in Passkeys \cup {Malformed}, authority \in Authorities :
                InitializeVault(v, key, authority)
        \/ \E new \in Passkeys \cup {Malformed} : RotatePasskey(v, new)
        \/ \E signer \in Authorities, new \in Authorities \cup {Default} :
                RotateDexterAuthority(v, signer, new)
        \/ ProvePasskey(v)
        \/ \E s \in Swigs : SetSwig(v, s) \/ SetSwigAtomic(v, s, FeePayer, Master)
        \/ \E w \in Withdrawals, signed_at \in 0 .. MaxTime :
                RequestWithdrawal(v, w, signed_at)
        \/ FinalizeWithdrawal(v)
        \/ \E cumulative \in 1 .. MaxCumulative : SettleTabVoucher(v, cumulative)
    \/ \E s \in Swigs, marker \in Markers : SignV2(s, marker)

Next ==
    \/ Begin \/ Instruction \/ Commit \/ Abort
    \/ \E v \in Vaults, message \in Message : Sign(v, message)
    \/ \E s \in Swigs : CreateSwig(s)
    \/ Tick

Spec == Init /\ [][Next]_vars

-----------------------------------------------------------------------------
BoundTo(s) == {v \in Vaults : InUse(v) /\ vault[v].swig_address = s}

\* A wallet set_swig_atomic created is always some vault's: a transaction that
\* fails after the four calls, an assertion that comes twice, set_swig and
\* set_swig_atomic for one vault or for one address never leave one that nobody
\* can withdraw from.
NoWalletIsOrphaned ==
    \A s \in Swigs : ~InTransaction /\ Len(swig[s]) = 4 => BoundTo(s) # {}

\* Money moves once for what a handler took: a wallet pays no more withdrawals
\* than requests landed on its vaults, and no more tabs than their vouchers stepped
\* up, however instructions and assertions are put together or repeated, and
\* whoever signed them.
PaymentsAreBooked ==
    \A s \in Swigs : ~InTransaction =>
        /\ paid[s]["finalize_withdrawal"]
                <= Cardinality(UNION {Requested(v) \X {v} : v \in BoundTo(s)})
        /\ paid[s]["settle_tab_voucher"]
                <= Cardinality(UNION {(1 .. vault[v].spent) \X {v} : v \in BoundTo(s)})

\* No message carries a nonce; still, an owner who never goes back to an old
\* passkey can rely on nothing taking effect that she did not sign, and on each
\* assertion to bind or rotate acting at most once on a vault, whenever and however
\* often it is delivered.  The program does not see to the premise, that every
\* verifying instruction verified the bytes the handler reads.
AssertionsActOnce ==
    elsewhere = 0 =>
        \A x \in BagToSet(applied) :
            /\ x[1] \in asserted
            /\ x[1].message.op # "request_withdrawal" => Copies(x) = 1

\* SECURITY.md: "The signing instruction index matches for sig/pubkey/message (no
\* cross-instruction substitution)"; ed25519.rs: "All three pieces (pubkey, sig,
\* message) must live in this same precompile instruction".  Whatever takes effect
\* was signed, without the premise above.
OnlySignedAssertionsAct == \A x \in BagToSet(applied) : x[1] \in asserted

\* webauthn.rs: the challenge is "a 32-byte digest that uniquely identifies the
\* action being authorized": what an assertion did to one vault it does to no
\* other.
AssertionsActOnOneVault ==
    ~InTransaction /\ elsewhere = 0 =>
        \A x, y \in BagToSet(applied) : x[1] = y[1] => x[2] = y[2]

\* settle_locked_voucher.rs: "the settle_locked_voucher discriminator MUST be added
\* to the Swig's ProgramExec marker list.  New vaults created after the marker
\* registration will work".  A wallet the program creates has a role for every
\* handler that a payment follows.
EveryPayoutHasARole ==
    \A s \in Swigs : Len(swig[s]) = 4 =>
        \A marker \in Markers \cup {"settle_locked_voucher"} :
            \E i \in DOMAIN swig[s] : swig[s][i] = ProgramExec(marker)

\* SECURITY.md: "Funds leave the Swig only via (1) the user's passkey through the
\* vault's `finalize_withdrawal` path [...] or (2) Dexter's capped/TTL'd session
\* role": no program role pays anything but withdrawals.
ProgramPaysWithdrawalsOnly ==
    \A s \in Swigs, marker \in Markers :
        paid[s][marker] > 0 => marker = "finalize_withdrawal"

=================================================================================
