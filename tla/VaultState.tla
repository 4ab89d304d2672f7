------------------------------- MODULE VaultState -------------------------------
(***************************************************************************)
(* The accounts the dexter-vault program owns (state.rs), the token        *)
(* accounts of the Swig wallets it reads, and the clock.  Every            *)
(* transaction is one action: the program's handler together with the      *)
(* token transfer (swig::SignV2) the documented transaction shape puts     *)
(* after it.  A rejected transaction changes nothing and is not a step.    *)
(*                                                                         *)
(* A key stands for whoever can sign with it: an action guarded in the     *)
(* code by a signature may be taken whenever its other guards hold.        *)
(***************************************************************************)
EXTENDS Sums

CONSTANTS
    Vaults,           \* vault PDAs; a vault names its own Swig wallet too
    Counterparties,   \* sellers a session can be registered for
    DefaultKey,       \* Pubkey::default(), left in a cleared registration
    Holders,          \* keys that can hold a locked claim
    Channels,         \* (channel_id, sequence_number) pairs a voucher can carry
    Financiers,       \* financier Swig identities; may be vaults themselves
    DefaultWallet,    \* the wallet PDA derived from an unset swig_address
    None,             \* Option::None
    Amounts,          \* the u64 arguments tried
    Deadlines,        \* the Option<i64> deadlines tried when locking
    Windows,          \* the i64 recovery windows tried when drawing
    MasterSpends,     \* what a Swig role outside the program may move at once
    CoolingOff,       \* vault.cooling_off_seconds
    ForceReleaseGrace,\* FORCE_RELEASE_GRACE_SECONDS
    Drift,            \* the 300 s of clock drift request_withdrawal accepts
    MaxSessions,      \* 255, the largest live_session_count
    MaxTime,          \* bound: the last instant of the clock
    MaxBalance,       \* bound: deposits stop here
    MaxPending        \* bound: tabs open at once

\* A voucher is the message it signs; its hash is its identity.
Hashes == Channels \X Amounts
Wallets == Vaults \cup Financiers \cup {DefaultWallet}

ASSUME ConstantsAssumption ==
    /\ Amounts \subseteq Nat
    /\ Windows \subseteq Int
    /\ Deadlines \subseteq Int \cup {None}
    /\ MasterSpends \subseteq Nat
    /\ CoolingOff \in Nat /\ ForceReleaseGrace \in Nat /\ Drift \in Nat
    /\ MaxSessions \in Nat /\ MaxTime \in Nat /\ MaxBalance \in Nat /\ MaxPending \in Nat
    /\ None \notin Int
    /\ None \notin Financiers
    /\ IsFiniteSet(Counterparties)

VARIABLES
    vault,     \* Vault accounts (layout V6)
    session,   \* SessionAccount PDAs, per (vault, counterparty)
    claim,     \* LockedClaim PDAs, per (vault, voucher hash)
    ledger,    \* StandbyBacker PDAs, per financier
    ata,       \* USDC in each Swig wallet's token account
    now        \* Clock::get().unix_timestamp

vars == <<vault, session, claim, ledger, ata, now>>

PendingWithdrawal == [amount : Nat, requested_at : Int]

VaultAccount ==
    [swig_bound : BOOLEAN,
     pending_voucher_count : Nat,
     pending_withdrawal : PendingWithdrawal \cup {None},
     live_session_count : Nat,
     outstanding_locked_amount : Nat,
     total_crystallized_amount : Nat,
     total_settled_amount : Nat,
     borrowed : Nat,
     standby_backer : Financiers \cup {None},
     standby_cap : Nat,
     borrow_recovery_at : Int \cup {None}]

SessionAccount ==
    [exists : BOOLEAN, version : {0, 1},
     allowed_counterparty : Counterparties \cup {DefaultKey},
     max_amount : Nat, expires_at : Int,
     spent : Nat, current_outstanding : Nat,
     max_revolving_capacity : Nat, crystallized_cumulative : Nat]

LockedClaim ==
    [status : {"Vacant", "Pending", "Settled", "Abandoned"},
     amount : Nat,
     maturity_at : Int \cup {None},
     holder_recovery_at : Int \cup {None},
     current_holder : Holders \cup {None}]

StandbyBacker ==
    [version : {0, 1}, committed_reserve : Nat, aggregate_promised : Nat]

TypeOK ==
    /\ vault \in [Vaults -> VaultAccount]
    /\ session \in [Vaults -> [Counterparties -> SessionAccount]]
    /\ claim \in [Vaults -> [Hashes -> LockedClaim]]
    /\ ledger \in [Financiers -> StandbyBacker]
    /\ ata \in [Wallets -> Nat]
    /\ now \in Nat

-----------------------------------------------------------------------------
\* initialize_vault: every field neutral, no Swig bound yet.
NewVault ==
    [swig_bound |-> FALSE,
     pending_voucher_count |-> 0,
     pending_withdrawal |-> None,
     live_session_count |-> 0,
     outstanding_locked_amount |-> 0,
     total_crystallized_amount |-> 0,
     total_settled_amount |-> 0,
     borrowed |-> 0,
     standby_backer |-> None,
     standby_cap |-> 0,
     borrow_recovery_at |-> None]

\* The zeroed registration that revoke and the expiry sweep leave behind.
ClearedSession ==
    [exists |-> TRUE, version |-> 0, allowed_counterparty |-> DefaultKey,
     max_amount |-> 0, expires_at |-> 0, spent |-> 0, current_outstanding |-> 0,
     max_revolving_capacity |-> 0, crystallized_cumulative |-> 0]

\* A PDA address with no account; init_if_needed creates it zeroed.
VacantSession == [ClearedSession EXCEPT !.exists = FALSE]

VacantClaim ==
    [status |-> "Vacant", amount |-> 0, maturity_at |-> None,
     holder_recovery_at |-> None, current_holder |-> None]

NoLedger == [version |-> 0, committed_reserve |-> 0, aggregate_promised |-> 0]

Init ==
    /\ vault = [v \in Vaults |-> NewVault]
    /\ session = [v \in Vaults |-> [c \in Counterparties |-> VacantSession]]
    /\ claim = [v \in Vaults |-> [h \in Hashes |-> VacantClaim]]
    /\ ledger = [f \in Financiers |-> NoLedger]
    /\ ata = [w \in Wallets |-> 0]
    /\ now = 0

-----------------------------------------------------------------------------
\* set_swig: one-shot, from the default address to a real one.
SetSwig(v) ==
    /\ ~vault[v].swig_bound
    /\ vault' = [vault EXCEPT ![v].swig_bound = TRUE]
    /\ UNCHANGED <<session, claim, ledger, ata, now>>

\* The balance a handler reads as vault_usdc_ata.amount: the account is checked
\* to belong to the wallet PDA derived from vault.swig_address, whatever it is.
WalletBalance(v) ==
    IF vault[v].swig_bound THEN ata[v] ELSE ata[DefaultWallet]

\* swig::SignV2(TransferChecked) out of a wallet, to an account no one models.
Pay(w, amount) ==
    /\ ata[w] >= amount
    /\ ata' = [ata EXCEPT ![w] = @ - amount]

\* The same transfer between two modelled wallets.
PayTo(w, dest, amount) ==
    /\ ata[w] >= amount
    /\ ata' = [ata EXCEPT ![w] = @ - amount, ![dest] = @ + amount]

-----------------------------------------------------------------------------
\* The environment: tokens arrive, a Swig role the program does not gate (the
\* session-limited Dexter master) spends, time passes.
Deposit(w, amount) ==
    /\ ata[w] + amount <= MaxBalance
    /\ ata' = [ata EXCEPT ![w] = @ + amount]
    /\ UNCHANGED <<vault, session, claim, ledger, now>>

MasterSpend(v, amount) ==
    /\ vault[v].swig_bound
    /\ Pay(v, amount)
    /\ UNCHANGED <<vault, session, claim, ledger, now>>

Tick ==
    /\ now < MaxTime
    /\ now' = now + 1
    /\ UNCHANGED <<vault, session, claim, ledger, ata>>

=================================================================================
