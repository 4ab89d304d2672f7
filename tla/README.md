# dexter-vault in TLA+

A TLA+ development of the on-chain program in `src/programs/dexter-vault` and of
the script that migrates its accounts: what the accounts promise each other, who
may move them, and how they get from one layout to the next. Everything is checked
with TLC on small instances; every safety property the prover can state is also
proved with TLAPS, for every number of vaults, sellers, vouchers, keys and
transactions.

## 1. The system

A *vault* is a Solana account that gates a buyer's wallet (a Swig smart wallet
holding USDC). The buyer signs with a passkey; an operator, the *dexter
authority*, runs tabs; sellers hold vouchers; financiers lend. The program never
moves tokens itself: an instruction changes the program's accounts, and a
`swig::SignV2` transfer placed after it in the same transaction moves the money.

| Component | State | Operations | Talks to |
|---|---|---|---|
| Session registry | `SessionAccount` per (vault, counterparty); `vault.live_session_count` | `register_session_key` (with the sibling gate, the overcommit check and the sweep of expired siblings), `revoke_session_key`, `close_session` | reads the wallet balance and `outstanding_locked_amount` |
| Tabs | `vault.pending_voucher_count`; the session's `spent`, `current_outstanding` | `settle_voucher` (open, close), `settle_tab_voucher` | sessions; blocks withdrawals |
| Locked claims | `LockedClaim` per (vault, voucher hash); `outstanding_locked_amount`, `total_crystallized_amount`, `total_settled_amount`; the session's `crystallized_cumulative` | `lock_voucher`, `transfer_lock_ownership`, `settle_locked_voucher`, `recover_abandoned_lock` | sessions at lock time only; the reservation is read by registration and withdrawal |
| Withdrawal gate | `vault.pending_withdrawal` | `request_withdrawal`, `finalize_withdrawal`, `force_release` | reads tabs, claims, the loan, the balance |
| Standby credit | `borrowed`, `standby_backer`, `standby_cap`, `borrow_recovery_at`; `StandbyBacker` per financier | `set_standby_reserve`, `open_standby`, `draw_credit`, `repay_credit`, `seize_collateral`, `close_standby` | withdrawal gate; wallets of both sides |
| Swig binding | `vault.swig_address`; the Swig account and its roles | `set_swig`, `set_swig_atomic` (four calls into the Swig program) | every transfer |
| Keys | `passkey_pubkey`, `dexter_authority` | `initialize_vault`, `rotate_passkey`, `rotate_dexter_authority`, `prove_passkey` | signature introspection |
| Signature introspection | none: it reads the instruction before its own | `verify_passkey_signed`, `verify_session_signed` | every signed handler |
| Layout migrations | `vault.version`, the account's length and bytes | `migrate_v2_to_v3` ... `migrate_v5_to_v6`, `migrate_v5_to_v6_with_session`, `migrate_legacy_to_v6` | session accounts |
| Fleet script | queue, current vault, attempts; a journal nobody reads back | `scripts/migrate-fleet.ts --execute` | migrations, over RPC |

What is hard. Transactions are atomic, so there are no data races inside one; the
difficulty is the *order* of transactions of parties that do not coordinate, and
time. Sessions expire without anyone telling the vault. A voucher has two terminal
paths that different people submit. A claim is raced for by its holder and the
buyer. A withdrawal is requested now and checked days later against reservations
made in between. A financier's ledger is moved by many vaults. Unsigned counters
use saturating arithmetic that would hide a drift. A passkey's assertion carries no
nonce and may be delivered late, twice, or to another vault. A migration decodes
bytes an older build wrote, in a buffer whose length has its own history. The
fleet script is killed, and its transactions land after it gave up on them. The `hazards` list of
`PROJECT.json` has each of these at its line with the property that would catch it.

What makes each component correct:

- registry: the count is exact; the gate cannot be satisfied by a partial list
  and can always be satisfied by the full one; a registration never overcommits;
- tabs and locks: a voucher has one effect; claims are final; the reservation and
  the odometers are the sums they stand for; the holder comes before the buyer;
- withdrawal: it never eats a reservation, and it cannot be blocked for ever;
- credit: ledgers add up, promises are covered, loans stay recoverable, deadlines
  do not move;
- keys and wallet: no wallet is created that nobody owns, no payment happens twice
  for one authorisation, an assertion takes effect once;
- migrations: no hop loses a term of a vault, what enters V6 is what the rest of
  the program assumes, and no vault is stuck half-way;
- fleet script: it reports only what happened, repeating a hop does no harm, and
  in the end every vault it can sign for is at V6.

Where the code falls short of one of these, the property says what does hold and
section 3 has the counterexample to the rest.

## 2. Modules

| Module | Models | |
|---|---|---|
| `Sums` | unsigned subtraction, sums over accounts | no recursion: a sum is the cardinality of a disjoint union of intervals, so the library's cardinality theorems apply |
| `VaultState` | `state.rs`, `initialize_vault`, `set_swig`, the wallets, the clock | variables, types, `Init`, environment |
| `Sessions` | `register_session_key`, `revoke_session_key`, `close_session` | |
| `Vouchers` | `settle_voucher`, `settle_tab_voucher` | |
| `Locks` | the four claim instructions | extends `Vouchers`: both paths share `VoucherAccepted` |
| `Withdrawals` | the three withdrawal instructions | |
| `Standby` | the six credit instructions | |
| `DexterVault` | the dispatch of `lib.rs`: all of the above, `Spec`, the properties | |
| `BuyerExit` | the same program with a patient buyer and fairness | liveness |
| `VaultHistory` | the same program with two history variables | how long the exit waits; what comments say and the code does not do |
| `ClaimBook` | what locking a voucher promises, with no sessions, wallets or saturating counters | abstract; `DexterVault` implements it |
| `Transactions` | instructions in transactions that commit or roll back: keys, `set_swig`, `set_swig_atomic`, signature introspection, the ProgramExec roles of the Swig | |
| `Migrations` | the six migrations over accounts of every older build, and the current program on accounts not migrated yet | lengths in bytes |
| `VaultUpgrade` | what migrating a vault promises, without bytes | abstract; `Migrations` implements it |
| `FleetMigration` | `migrate-fleet.ts --execute`: a process over `Migrations` with crashes, late and lost transactions | composes with `Migrations` |
| `MCMigrations`, `MCFleet`, `MCTransactions` | instances of the three modules above | |
| `MCSessions`, `MCLocks`, `MCStandby` | one component each, deeper | `MCx!Next` is a sub-relation of `DexterVault!Next` |
| `TypeProofs`, `SumsProofs`, `ClaimProofs`, `SessionProofs`, `StandbyProofs`, `ExitProofs` | theorems about `DexterVault`, `VaultHistory` and `BuyerExit` | |
| `MigrationProofs` | theorems about `Migrations` and `FleetMigration` | |
| `TransactionProofs` | theorems about `Transactions` | |

State of `DexterVault`: `vault[v]` is the `Vault` account, `session[v][c]` the `SessionAccount` at
the PDA of (vault, counterparty) with `exists` for whether the account is there,
`claim[v][h]` the `LockedClaim` at the PDA of (vault, voucher hash) with status
`Vacant` when there is none, `ledger[f]` the `StandbyBacker` of financier `f`
(version 0 = no account), `ata[w]` the USDC of wallet `w`, `now` the clock. Field
names are the source's. Every action is one instruction under its source name;
`PROJECT.json` `map` gives the lines. Definitions marked *Faulty* are plausible
bugs, each with one changed line; no specification uses them, they show that the
properties would notice.

State of `Transactions`: a smaller `vault` (the keys, the binding, the pending
request, `spent`), `swig[s]` the roles of a Swig account, `previous` the
instruction just executed (what `load_instruction_at_checked(current - 1)` returns),
`before` the accounts to go back to, `elsewhere` how often a verifying instruction verified
bytes of another one. `Begin`, any sequence of instructions, then
`Commit` or `Abort`: a handler's checks after a call into another program are made
on the changed accounts, and a failure undoes the call. `asserted` are the passkey
assertions that exist; one stays usable for ever.

State of `Migrations`: `image[v]` is an account as bytes: its length, its version
byte, the layout the payload was really written in, whether bytes a longer layout
would read behind it are left over from an older payload, in which of the layouts
with an Option behind the authority it decodes, and the fields. A frozen
reader is a function from images to the structs it may decode; none, if it runs
past the account.

Today's struct has the tags of two Options where a V2 to V5 vault has the low byte
of its session's `max_amount` and the second byte of `expires_at`, and below V5
other bytes the layout has nothing at: a vault with a session decodes or it does
not, by bytes the model does not have. So `decodes` is a part of what `Init`
chooses. If it decodes, `request_withdrawal`, `finalize_withdrawal` and
`rotate_dexter_authority` go through (`request_withdrawal.rs:31` takes every version
from 2 on), and what they write back is `WrittenBack`: the fields return to where
they came from unless the pending withdrawal comes or goes, which moves all of them
by 48 bytes over the rest of the session. The end of the session, its meters and the
fields behind it are then any values (`Overwritten`, one value for all the meters),
and a V5 account may not decode as V5 any more. `RegisterSessionKey` is there for
what a late transaction may meet: a session opened after the vault reached V6.

`FleetMigration` adds the script's program counter and locals
(`walk`), its queue, the transactions in flight and the last journal line.

The three state machines meet where the code does: `VaultUpgrade`'s last generation
and `MigratedVaultsAreSound` are what `DexterVault`'s `Init` and invariants assume
of a V6 vault, `Transactions` shows when the transfer that `DexterVault` takes as
part of a step can be made, and by whom.

### Abstractions

- A step is a whole transaction: handler plus the documented transfer of the
  documented amount. The program itself does not inspect the following
  instruction, so pairing and amount rest on the Swig's marker check and on who
  composes the transaction; the model takes them as given.
- A signature is the entitlement to take an action: whoever holds the key may act
  at any time the other guards allow. A claim's holder is a parameter matched
  with `current_holder`. Late and repeated delivery of a passkey's assertion is the
  subject of `Transactions`; there a message is a record tagged with its
  operation, since the prefixes and lengths in the code make the messages of two
  instructions different. Offsets in the precompile's data, the search in
  clientDataJSON and base64url are not modelled. `webauthn.rs:132` and `ed25519.rs:89`
  ask that the three instruction indices are equal, not that they name the
  precompile's own instruction, from whose data they go on to read the key and the
  message. Hence a verifying instruction may hold any assertion in the model; one
  that was signed, if it verified its own bytes (`in_place`). Nothing is assumed of
  what a session key signs.
- A voucher is (channel, cumulative amount), channel standing for `channel_id`
  and `sequence_number`; the pair is its own hash.
- Left out, as no guard reads them: `destination`, `session_pubkey`, `nonce`,
  `last_locked_sequence`, bumps, `created_at`, `settled_at`, `recovered_at`,
  `identity_claim`, `reserve_kind`.
- In `DexterVault` vaults are at layout V6 and exist from the start;
  `cooling_off_seconds` is one constant for all of them.
- In `Migrations`, `locked` stands for the three claim odometers and `borrowed` for
  the four credit fields, which every hop treats alike. Rent, bumps and
  `identity_claim` are carried along and left out.
- The Swig program is external: `CreateV1` needs a vacant address, `AddAuthorityV1`
  a signer of a role that may manage authorities, `SignV2` under a ProgramExec role
  the marked instruction just before it, naming this Swig at index 0.
- In `FleetMigration` an error may or may not count as transient, whatever caused
  it, since `isTransient` searches a text. `--limit`, the dry run, `--verify-only`
  and the cost estimate are left out: they send nothing.
- Each vault has its own Swig wallet. Before `set_swig`, the address is the
  default one and its wallet is `DefaultWallet`: `register_session_key`, which
  has no check that a Swig is bound, reads that balance. `repay_credit` and
  `seize_collateral` have no such check either, but their transfer needs a Swig,
  hence `swig_bound` in their guards.
- Integers are unbounded: the lifetime odometers would need 2^64 units to
  saturate. `checked_add` overflow is therefore never met. The session count is
  bounded by `MaxSessions` exactly where the code refuses (255).
- `MasterSpend` is the Swig role the program does not gate (the session-limited
  Dexter master of `ARCHITECTURE.md`); with it any wallet may lose tokens at any
  time.

### Bounds

`MaxTime` (last instant), `MaxBalance` (deposits stop), `MaxPending` (tabs open
at once, standing for the u32 that saturates), and the sets `Amounts`,
`Deadlines`, `Windows`, `MasterSpends`. They are guards of `Tick`, `Deposit` and
`SettleVoucherOpen` only, so the theorems, which leave them arbitrary naturals and
sets, cover every bound. `Transactions` bounds what is signed (`MaxAssertions`),
the requests landed (`MaxRequests`), the vouchers (`MaxCumulative`), the
verifications of bytes no handler reads (`MaxElsewhere`) and time.
`FleetMigration` bounds the transactions in flight (`MaxInflight`) and the faults
(`MaxFaults`: kills, unanswered reads, rotations of the authority, withdrawals over
an inline session).

## 3. Runs

Deadlock is not checked: nothing obliges anyone to submit a transaction, and at the
clock's bound with an empty wallet the system rightly stops.

| Run | Instance | Shows |
|---|---|---|
| `sessions` | 1 vault, 3 counterparties (symmetric), caps 1-2, clock 0-2, balance <= 3 | `LiveCountExact`, `GateAdmitsExactlyTheOthers`, `ExpiredSessionsNeverBlock`, `RegisterNeverOvercommits`. Three counterparties give a target, a live sibling and an expired one at once; two clock values are enough for a session to expire and be swept while another lives |
| `locks` | 1 vault, 1 session, 2 holders (symmetric), amounts 1-2, deadlines none/1/2 | `LockedIsPendingSum`, `OdometersAccountForClaims`, `RecoveryFollowsMaturity`, `VouchersAreSingleUse`, `SessionMovesLessThanTwiceItsCap` (the bound that holds in place of the cap, see `session_cap` below), and `ImplementsClaimBook`, the refinement of `ClaimBook`. Two vouchers on one channel are the smallest case in which tab and lock paths interleave; the session can be revoked or replaced between them |
| `standby` | 2 vaults, 2 financiers one of which is a vault, amounts 0-2 | `PromisesAddUp`, `PromisesCovered`, `LoansAreRecoverable`, `DeadlineHoldsWhileBorrowed`. Two vaults share a ledger; a vault lends from the wallet it borrows with |
| `whole` | 1 vault, 1 seller, 1 holder, 1 financier, amount 1, drift 1, both delays 2, every instruction | `TypeOK`, `RegisterNeverOvercommits` with locks around, `OnlyTabsAndLoansUnfund`, `RevokedVaultOnlyUnwinds`, `ExitWaitsForTheRequest` (the exact delay: the configured one less the drift) |
| `exit` | 1 vault, 2 sellers, 2 tabs | `BuyerEventuallyOut`, liveness, and `TheWayStaysOpen`, its safety half |
| `migrations` | 1 vault of any older build, 2 authorities, 2 counterparties, with and without pending withdrawal, session, claims, loan, left-over bytes, and with bytes that today's struct decodes or not | `TypeOK`, `MigratedVaultsAreSound`, `OnlyStrandedVaultsAreStuck` (some hop applies to a vault short of V6 exactly unless it is a full V2 one stamped 3, or a V5 one whose Options a withdrawal has written over), `StuckVaultsStayStuck` (the first of these stay until a withdrawal is paid), and `HopsKeepTheTerms`, the refinement of `VaultUpgrade`. Vaults do not interact in a migration, so one is enough; two clock values let a session expire between the choice of a hop and its landing |
| `fleet` | 1 vault of builds V2 to V5, 2 authorities, 2 attempts, 2 transactions in flight, 1 fault | `FleetTypeOK`, `JournalIsTrue`, `LateTransactionsAreHarmless` (also to a session that a vault opens at V6 before a copy lands), and `EveryVaultArrives`, liveness. Two in flight are a late transaction and its retry. One vault: that the failure of one leaves the others of a run alone is not exercised. Every authority starts as one of two keys the operator holds, so `MCFleet` starts with one of them; the behaviours from the other are these with the keys swapped |
| `transactions` | 1 vault, 2 passkeys and 2 Swigs (symmetric), 3 assertions, 2 requests, 1 verification of other bytes | `TypeOK`, `NoWalletIsOrphaned`, `PaymentsAreBooked`, `AssertionsActOnce`. Two keys let a vault rotate and an assertion of the old key come again; two Swigs and three assertions let `set_swig` and `set_swig_atomic` compete |

`OnlyTabsAndLoansUnfund` is weaker than one would like, and that is the code:
`settle_tab_voucher`, `repay_credit` and `seize_collateral` read neither the
balance nor the reservation, so a wallet can fall below its locked claims. What
holds is that withdrawals, locks, settlements and recoveries never cause it.
`RevokedVaultOnlyUnwinds` names the same kind of exception: `draw_credit` asks the
dexter authority and the backer, not the buyer, so a loan drawn on a standing
standby can set a pending withdrawal back after the sessions are revoked.
`AssertionsActOnce` has the premise `elsewhere = 0`, that every verifying instruction
verified the bytes the handler after it reads. The program does not check it, so it
is a premise of whoever relies on the property; the other three properties of
`Transactions` hold without it. `VouchersAreSingleUse` lets a session's frontier fall
where the program resets it, on a replacement and on a revocation.

### Refinements

`ClaimBook` is the promise a holder relies on: a claim is written once, moves
between holders, and is closed once, by its holder from maturity on or by the buyer
after the deadline; the reservation moves by exact amounts. `DexterVault` is shown to
implement it with the claims as the book and the two vault fields as its totals:
sessions, tabs, loans and withdrawals are stutters.

`VaultUpgrade` is the promise of the migrations: a vault climbs generations, its
terms stay what they are until the last one, and that one drops an expired session,
clamps the cooling-off and names an authority where there was none. In `Migrations`
the terms are read from the bytes by the layout they are in, the session from
inside the vault before V6 and from its own account after. A V2 session lacks two
meters that `migrate_v3_to_v4` reads from the bytes behind it, so what a session says
is a *set* of readings, from which an upgrade may settle on some and add none.
`SpoilSession` is the exception the program makes: a withdrawal opened or paid while
a session is inline may leave another session and other meters in its place. It may
not do so at V6, nor end a session or make one up, nor touch the authority or the
cooling-off.

### Fairness

`exit`: weak fairness of the clock, which advances by itself, and of the buyer's own
revoke, force-release and finalize, which need a passkey and any relayer and no one
else's cooperation. None is assumed of the authority, the sellers or the holders;
they may act for ever. The buyer is *patient*: one request at a time and no new
session while it is pending, since each request restarts both delays.
`SECURITY.md:21` says "The gate can never permanently trap a buyer's funds"; the
property allows one excuse, that the wallet no longer covers the amount over the
locked claims, and `TheWayStaysOpen` shows that the excuse cannot arise any more
once the sessions are revoked. Requests that the bounded clock could not see through are left out.

`fleet`: weak fairness of the script's steps, a new run included (the operator runs
it until it is done); strong fairness, per vault, of sending and of landing: a node
that answers again and again some time accepts a transaction, and of those sent
again and again some land; weak fairness of a transaction in flight being decided,
since a blockhash expires. The faults are bounded, none is owed. Nothing is assumed
of the clock or of the owner, who may request, finalize and open sessions for ever.
A withdrawal over an inline session counts as a fault, since it may change what the
next hop finds each time. The script's clock is the chain's: time passes between
the choice of a hop and its landing, but the two do not disagree.

### Disagreements with comments

Four runs are expected to fail, each on one sentence of the repository:

| Run | The text | The code |
|---|---|---|
| `live_tab_escape` | `force_release.rs:41`: cannot be used to escape a live tab | the grace runs from the request, not from the tab |
| `session_cap` | `settle_tab_voucher.rs:46`: over-spend impossible | tab and lock increments are measured from their own odometers, so together they exceed the cap |
| `v2_dead_end` | `migrate_v3_to_v4.rs:44`: decoding a V3 account cannot over-run | `migrate_v2_to_v3` sizes the account by the current struct, which is smaller than V2, so nothing grows; a V2 vault with a session and a pending withdrawal is then stuck at stamp 3 |
| `shared_assertion` | `webauthn.rs:18`: a digest that uniquely identifies the action | the `set_swig` message names no vault, so one assertion binds two vaults of one passkey to one wallet |

Further ones, with a configuration to reproduce each counterexample, outside the
regular runs:

| Configuration (module) | The text | The code |
|---|---|---|
| `DefaultCounterparty` (`DexterVault`) | `state.rs:66`: the gate cannot be gamed low | the cleared session of the all-zero counterparty passes as a sibling (`register_session_key.rs:199`), and the count drifts |
| `LiveSessionBlocksANewOne` (`VaultHistory`) | `register_session_key.rs:121`: an unexpired session blocks a new one | it is replaced in place (`:307`) |
| `SessionLimit` (`MCSessions`) | `register_session_key.rs:170`: expired siblings are swept | the limit at `:160` comes first: 255 sessions, all expired, block every registration until some are revoked |
| `DeadlineOnlyWhileBorrowed` (`VaultHistory`) | `state.rs:91`: deadline none when nothing is borrowed | a draw of zero arms it (`draw_credit.rs:139`) |
| `SignedOnly` (`Transactions`) | `SECURITY.md:303` and `:347`: no cross-instruction substitution; `ed25519.rs:86`: all three pieces must live in this same precompile instruction | `webauthn.rs:132` and `ed25519.rs:89` compare the three indices with each other only: what a handler reads need not be what was verified, so something takes effect that was not signed |
| `UnmigratedSession` (`MCMigrations`) | `request_withdrawal.rs:31`: versions 2 to 5 are taken as well as 6 | where the bytes of an inline session decode as later fields, the withdrawal is written back over the session |
| `V2Capacity` (`MCMigrations`) | `migrate_v2_to_v3.rs:54`: a migrated session has capacity 0 | bytes left over from an older payload are read as its capacity, since nothing is zeroed (`:146`) |
| `UnmigratedWithdrawal` (`MCMigrations`) | `SECURITY.md:228`: access to funds never requires Dexter | most vaults with an inline session cannot be decoded by the current withdrawal handlers (`request_withdrawal.rs:31`) until the authority migrates them |
| `PayoutRoles` (`Transactions`) | `settle_locked_voucher.rs:24`: new vaults get its marker | `set_swig_atomic.rs:289` registers `finalize_withdrawal` and `settle_tab_voucher` only |
| `WaysOut` (`Transactions`) | `SECURITY.md:84`: funds leave by withdrawal or the master role only | role 3 pays tabs as well |

`DefaultCounterparty` is also why the session theorems carry the hypothesis
`DefaultKey \notin Counterparties`. Two more are visible in the properties that
replaced them: the cooling-off of `state.rs:51`, said to run from the request, runs
from `signed_at`, up to the drift earlier (`ExitWaitsForTheRequest` has the bound);
and a V2 vault whose fleet run was killed after the first hop has a length the next
census excludes (`migrate-fleet.ts:376`), hence the exception in
`EveryVaultArrives`. Its other one, a V5 vault that no longer decodes as V5, is the
other half of `UnmigratedSession`.

## 4. Proofs

Each invariant below was checked by TLC on the instance of its run before it was
proved. Sets of vaults, vouchers, holders, financiers, passkeys and Swigs are
arbitrary, bounds arbitrary naturals.

### The program (`DexterVault`, `VaultHistory`)

All from `ConstantsAssumption` in `VaultState` (amounts natural, deadlines integer
or none, `None` neither an integer nor a financier, finitely many counterparties).

- `TypeProofs!TypeCorrect`: `Spec => []TypeOK`. Says more than typing: no counter
  goes below zero. Inductive as it stands.
- `ClaimProofs!ReservationIsExact`, `OdometersAreExact`. Inductive invariant
  `ClaimsInv`: each of the three vault fields is the sum over the claims of the
  matching status, *and* those sums are over finitely many units. The finiteness
  has to be carried along because `Hashes` is any set: without it the cardinality
  theorems say nothing. A claim that changes status moves its amount from one sum
  to another (`TotalAdd`, `TotalRemove`), which also shows that the saturating
  subtraction is exact.
- `ClaimProofs!ClaimBookIsImplemented`: `Spec => ImplementsClaimBook`. Each of the four
  claim instructions is the abstract operation of its name and every other step,
  instruction or environment, is a stutter or a tick (`BookStep`). `ClaimsInv` is
  what makes it true: a pending claim is part of the sum its reservation equals, so
  the saturating subtraction is the exact one (`ClaimWithinReservation`).
- `ClaimProofs!RecoveryComesSecond`. Inductive invariant `DeadlinesInv`: the deadlines
  of every pending claim are ordered, also those still ahead, and an abandoned
  one's deadline has passed. The step is proved on `ClaimBook`'s actions, so the
  refinement carries it to the program.
- `ClaimProofs!VouchersSpendOnce`: `Spec => VouchersAreSingleUse`, from types alone,
  one lemma per action on how it moves a session's frontier.
- `SessionProofs!SessionCountIsExact`, `GateIsExact`. Inductive invariant
  `SessionsInv`: the count is exact and a registered session names its own
  counterparty while a cleared or vacant one names the default key. The second
  part makes the sibling gate sound: derived siblings are registered ones, so an
  equal cardinality forces equal sets. The first part alone is not inductive,
  since a sweep of an already cleared session would break it.
- `SessionProofs!RegistrationsFit`: `Spec => RegisterNeverOvercommits`. The sum the
  handler makes over the submitted siblings is the sum over the live sessions of
  the vault because of `GateIsExact`, hence the same hypothesis on the all-zero key.
- `SessionProofs!RegistrationsAreAdmitted`: `Spec => []ExpiredSessionsNeverBlock`. What
  the handler demands is one predicate, `RegistrationAdmitted`, the first conjunct
  of the action; the others assign every variable, so an admitted registration is a
  possible one. By `SessionsInv` the list of the other sessions passes the gate, and
  the sweep never takes the count below zero.
- `SessionProofs!SessionsAreMetered`: `Spec => []SessionMovesLessThanTwiceItsCap`. The sum
  alone is not inductive; `MetersInv` is: both odometers are within the cap, and they
  are never equal but at zero, since a voucher is accepted only beyond both. It is
  about sessions registered at V6; one carried over by a migration brings the
  odometers it had.
- `StandbyProofs!LoansStayRecoverable`, `LedgersAddUp`, `PromisesStayCovered`.
  Inductive invariant `CreditInv`: the loan terms, each ledger equal to the sum of
  the caps it backs (again over finitely many units), and promised <= reserve. An
  open or resize splits the sum into the other vaults' caps and this one's
  (`PromisesSplit`).
- `StandbyProofs!DeadlinesHold`: `Spec => DeadlineHoldsWhileBorrowed`. A draw on a
  running loan does not arm the deadline again because `CreditInv` says that one is
  armed.
- `ExitProofs!ClaimsStayFunded`: `Spec => OnlyTabsAndLoansUnfund`, and `ExitWaits`:
  `HistorySpec => ExitWaitsForTheRequest`, whose inductive invariant `LandedInv`
  relates the observed landing to `requested_at`, within the drift.
- `ExitProofs!RevocationIsFinal`: `Spec => RevokedVaultOnlyUnwinds`, one lemma per
  component (`Unwinds`). Tabs, vouchers and locks need a registered session; a
  repayment or a seizure takes from the wallet what it takes off the loan; and a
  settled claim takes exactly what it releases, which needs `ClaimsInv` again.
- `ExitProofs!ExitIsTheProgram`: `ExitSpec => Spec`, the patient buyer's exit is the
  program with fewer steps, so everything above holds of it. `WayOut`:
  `ExitSpec => TheWayStaysOpen`, from the same lemmas, since nobody lends, draws or
  spends outside the program there and the buyer registers nothing while waiting.
- `SumsProofs`: the lemmas on sums (empty, congruence, add one, remove one, part,
  finiteness).

### Migrations and the script (`MigrationProofs`)

From the assumptions of `Migrations` and `FleetMigration` on their constants.

- `MigrationTypes`, `MigrationsAreSound`. Inductive invariant `SoundInv`: which
  layouts can stand under which version byte (`Shape`), how long each account is at
  least, and that a session account exists only for a vault whose own session moved
  there (`SessionsMatch`). Soundness at V6 alone is not inductive: what a hop writes
  depends on what the frozen readers find in the layout before it. `Shape` also says
  how long the oldest accounts are, who may sign for them, and that nothing before
  V6 counts sessions; the next two results need that.
- `AWayToV6`: `Spec => []OnlyStrandedVaultsAreStuck`, an equivalence. The conditions of
  the hops are predicates of their own (`V2Accepted` ... `LegacyAccepted`), and every
  account `SoundInv` allows satisfies one of them and can be read by the frozen struct
  of that hop, but for the full V2 vault, which no reader of V3 fits, and a V5 vault
  that a withdrawal over its session has written over.
- `DeadEnd`: `Spec => StuckVaultsStayStuck`. No hop moves such a vault. A request can
  only replace the withdrawal it has, which moves no field; a payout takes the Option
  away, and is the one step excepted, whether or not the account decodes.
- `HopsKeepTerms`: `Spec => HopsKeepTheTerms`, the refinement of `VaultUpgrade`, from
  `SoundInv` and `TermsInv`: fields a layout does not have yet are neutral. One lemma
  per hop; for a current instruction, either the fields return to where they came
  from or the step is `SpoilSession`. No build is excluded: what bytes left over
  behind a V2 session say is among its readings before the hop that decodes them.
- `FleetTypes`, `JournalTells`, `LateTransactions`. Inductive invariant `FleetInv`:
  in addition the script's locals fit its program counter (`WalkOK`), and versions
  only ever go up behind what the script has seen (`TrailInv`), which is why a
  journal line stays true whatever lands later. A transaction for another version
  than the vault has fails the check of its version byte, so it leaves every account
  alone, session accounts included.
- `FleetOnlyMigrates`: `FleetSpec => Spec`, the script is an environment of
  `Migrations` and no more, so all of the above holds under it.

### Transactions (`TransactionProofs`)

From `TransactionsAssumption` and `VacantAssumption` (`None` is no account and no
instruction). Each part of an invariant is a predicate of the four accounts, and
holds of the working copy and of `before`: that is the induction hypothesis a
roll-back needs.

- `TransactionTypes`, `WalletsAreOwned`, `AssertionsAreSpent`. Inductive invariant
  `KeyInv`: the types, a wallet with four roles has a vault, and, while nothing was
  verified elsewhere, the instruction just
  executed holds an assertion that was signed and *there is a rank of the
  passkeys* along which every signed rotation goes up (`Forward`), with a vault's
  key above all it rotated away from (`Ranked`). That an assertion acted once is
  not inductive; the rank is why a vault never gets back to an old key. When an
  owner signs for a key nobody used, its rank is raised above the signer's, which
  disturbs nothing since the key has signed nothing.
- `PaymentsAreCovered`: `Spec => []PaymentsAreBooked`. Inductive invariant `PayInv`:
  for each wallet the withdrawals paid, the one that the last instruction entitles
  to and those pending on its vaults are together no more than the requests landed
  on its vaults; a vault with a pending request has a landed one, so it brings
  cover along when it is bound to a wallet others use; and the same for tabs
  without the pending part. Assertions and open vaults are finitely many at any
  time, whatever the constants.

### Only model-checked

`BuyerEventuallyOut` and `EveryVaultArrives`, liveness under fairness, which is out of
the prover's reach together with the `ENABLED` it is defined by; of the first, the
part that needs no fairness is proved (`WayOut`). That a hop *applies* is proved of the
conditions of the hops, and TLC checks `ENABLED Hop` itself only in the expected
violation `v2_dead_end`. The expected violations have their counterexamples from
TLC.

## 5. Not modelled

- Byte parsing in `verify/` and the byte layouts `swig_compat.rs` builds: what they
  compare, whether it was verified and which calls they make is in `Transactions`,
  where the bytes lie is not. They are straight-line functions of one input, better tested than modelled.
- Swig and token programs beyond what the code relies on; rent, fees, compute.
- `identity_claim` and the other fields no guard reads; of a session that was written
  over, which bytes it got.
- Session keys: a voucher of a session that was replaced counts as one of its
  successor, as when the same key is registered again.
- A clock of the script's own, and several vaults in one of its runs.
- The script's reporting modes; the deployment stub and the one-off signing script,
  which keep no state of the system.

## 6. Plan

Done, in this order: `VaultState`, `Sessions`, `Vouchers` and `Locks`, `Withdrawals`,
`Standby`, their composition, the liveness of the exit, the history runs, type
correctness, the reservation, the registry, the ledgers; then `Migrations` with its
abstract `VaultUpgrade`, `FleetMigration`, `Transactions`, `ClaimBook` with its
refinement checked and proved, and maturity before recovery.

Proved since: the action properties of the core, the exit's delays, the migrations
with their refinement, the script's journal and late transactions, keys, wallets
and payments in transactions.

Then the guards as predicates of their own, with `ExpiredSessionsNeverBlock` and
`OnlyStrandedVaultsAreStuck` restated and proved over them; `StuckVaultsStayStuck`,
`RevokedVaultOnlyUnwinds`, `TheWayStaysOpen` and `SessionMovesLessThanTwiceItsCap`,
each checked and proved.

Last, what the first models took for granted: bytes that a handler reads and no
precompile verified, unmigrated vaults that today's struct decodes, sessions opened
before a late transaction lands.

Left: the two liveness properties stay with TLC. Seven hazards in `PROJECT.json` have
no property that holds: five have a configuration with the counterexample
(`DefaultCounterparty`, `SessionLimit`, `DeadlineOnlyWhileBorrowed`, `SignedOnly`,
`PayoutRoles`), the two of `register_session_key.rs:34` and `:307` have their reason.
