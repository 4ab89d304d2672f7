------------------------------- MODULE Migrations -------------------------------
(***************************************************************************)
(* The layout migrations: a Vault account as bytes that some build of the  *)
(* program wrote, and the instructions that carry it to layout V6.         *)
(*                                                                         *)
(* An image keeps what those bytes hold: the length of the account, the    *)
(* version byte, the layout the payload was really written in, whether the *)
(* bytes a longer layout would read behind it are left over from an older  *)
(* payload, in which of the layouts with an Option behind the authority it *)
(* decodes, and the fields.  A decoder reads by position, so what it finds *)
(* depends on both layouts; lengths are the source's own, in bytes.        *)
(*                                                                         *)
(* Bytes that are not modelled decide whether today's struct decodes a     *)
(* vault with a session inline: both outcomes are in the model.            *)
(***************************************************************************)
EXTENDS Sums

CONSTANTS
    Vaults,
    Counterparties,
    Authorities,        \* dexter authorities the older builds recorded
    LegacyAdmin,        \* LEGACY_MIGRATE_ADMIN
    None,               \* Option::None
    Eras,               \* which older builds the vaults of an instance come from
    Pendings,           \* pending_withdrawal amounts tried
    Spends,             \* spent meters tried
    Capacities,         \* max_revolving_capacity values tried
    Amounts,            \* odometer and loan values tried
    Coolings,           \* i64 cooling-off values of the legacy layouts tried
    MaxCooling,         \* u32::MAX
    Leftovers,          \* what a u64 may read from left-over bytes
    MaxTime             \* bound: the last instant of the clock

VARIABLES
    image,   \* Vault accounts
    carried, \* SessionAccount PDAs, per (vault, counterparty); None if vacant
    now      \* Clock::get().unix_timestamp

migrationVars == <<image, carried, now>>

\* SessionRegistration, without the keys.
Registration ==
    [allowed_counterparty : Counterparties, expires_at : Int, spent : Nat,
     current_outstanding : Nat, max_revolving_capacity : Nat,
     crystallized_cumulative : Nat]

ASSUME MigrationsAssumption ==
    /\ Pendings \subseteq Nat /\ Spends \subseteq Nat /\ Capacities \subseteq Nat
    /\ Amounts \subseteq Nat /\ Leftovers \subseteq Nat /\ Coolings \subseteq Int
    /\ Leftovers # {} /\ MaxCooling \in Nat /\ MaxTime \in Nat
    /\ Eras \subseteq {"V1", "V1_5", "V2", "V2_shrunk", "V3", "V4", "V5",
                       "born_broken", "pre_grown"}
    /\ None \notin Nat /\ None \notin Authorities /\ LegacyAdmin # None
    /\ None \notin Registration

-----------------------------------------------------------------------------
\* Bytes before active_session, discriminator included; Some adds its 48 bytes.
PrefixLen(i) == IF i.pending_withdrawal = None THEN 148 ELSE 196

\* SessionRegistration in the layouts that keep it inline.
RegistrationLen(layout) ==
    CASE layout = 2 -> 92 [] layout = 3 -> 108 [] OTHER -> 120

\* 8 + INIT_SPACE: every Option counted in full.
Size(layout) ==
    196 + 1 + (IF layout = 6 THEN 0 ELSE RegistrationLen(layout))
        + (IF layout >= 4 THEN 24 ELSE 0)
        + (IF layout >= 5 THEN 8 + 33 + 8 + 9 ELSE 0)

LegacyV1Len == 151
LegacyV15Len == 183

\* locked stands for the three claim odometers, borrowed for the four credit
\* fields; authority is None in V1, which has no such field.
Image ==
    [len : Nat, version : Nat, layout : 1..6, stale_tail : BOOLEAN,
     decodes : SUBSET {5, 6},
     authority : Authorities \cup {LegacyAdmin, None},
     pending_withdrawal : Nat \cup {None},
     cooling_off_seconds : Int,   \* i64 in V1 and V1.5, u32 since
     active_session : Registration \cup {None},
     live_session_count : Nat, locked : Nat, borrowed : Nat]

\* Accounts, session accounts and the clock hold what their fields can, the
\* cooling-off a u32 in every layout but the two oldest.
TypeOK ==
    /\ image \in [Vaults -> Image]
    /\ \A v \in Vaults :
        image[v].layout # 1 => image[v].cooling_off_seconds \in 0 .. MaxCooling
    /\ carried \in [Vaults -> [Counterparties -> Registration \cup {None}]]
    /\ now \in Nat

-----------------------------------------------------------------------------
(***************************************************************************)
(* What the older builds left on chain.                                    *)
(***************************************************************************)

\* A registration of the build of the given layout: meters a layout does not
\* have read as zero once it is written in one that does.
Registrations(layout) ==
    {None} \cup
    [allowed_counterparty : Counterparties, expires_at : 1 .. MaxTime,
     spent : Spends, current_outstanding : {0},
     max_revolving_capacity : IF layout >= 3 THEN Capacities ELSE {0},
     crystallized_cumulative : IF layout >= 4 THEN Amounts ELSE {0}]

\* Vaults of the build of a versioned layout, in an account of the given length.
\* Bytes are left over when an Option was Some and no longer is.  The struct of V6
\* has the tags of two Options where an inline session has its cap and its expiry,
\* and where a layout below V5 has nothing of its own: these bytes may be no tags.
Written(layout, len) ==
    {i \in [len : {len}, version : {layout}, layout : {layout},
            stale_tail : BOOLEAN, decodes : {{5}, {5, 6}}, authority : Authorities,
            pending_withdrawal : Pendings \cup {None},
            cooling_off_seconds : {0},
            active_session : Registrations(layout),
            live_session_count : {0},
            locked : IF layout >= 4 THEN Amounts ELSE {0},
            borrowed : IF layout >= 5 THEN Amounts ELSE {0}] :
        /\ i.stale_tail => i.pending_withdrawal = None \/ i.active_session = None
        /\ 6 \in i.decodes \/ i.active_session # None \/ (i.stale_tail /\ layout < 5)}

\* The layouts without a version byte: byte 8 is the PDA's bump.
Legacy(len, authorities) ==
    [len : {len}, version : {255}, layout : {1}, stale_tail : {FALSE},
     decodes : {{5, 6}}, authority : authorities, pending_withdrawal : Pendings \cup {None},
     cooling_off_seconds : Coolings, active_session : {None},
     live_session_count : {0}, locked : {0}, borrowed : {0}]

\* V6 accounts a later initialize_vault stamped 4.
BornBroken ==
    {[i EXCEPT !.len = Size(6), !.layout = 6, !.active_session = None, !.locked = 0] :
        i \in {w \in Written(4, Size(4)) : ~w.stale_tail /\ 6 \in w.decodes}}

LeftBy(era) ==
    CASE era = "V1" -> Legacy(LegacyV1Len, {None})
      [] era = "V1_5" -> Legacy(LegacyV15Len, Authorities)
      [] era = "V2" -> {i \in Written(2, Size(2)) : ~i.stale_tail}
      [] era = "V2_shrunk" -> {i \in Written(2, Size(2)) : i.stale_tail}
      [] era = "V3" -> Written(3, Size(3))
      [] era = "V4" -> Written(4, Size(4))
      [] era = "V5" -> Written(5, Size(5))
      [] era = "pre_grown" -> {i \in Written(4, Size(5)) : ~i.stale_tail}
      [] era = "born_broken" -> BornBroken

Init ==
    /\ image \in [Vaults -> UNION {LeftBy(era) : era \in Eras}]
    /\ carried = [v \in Vaults |-> [c \in Counterparties |-> None]]
    /\ now = 0

-----------------------------------------------------------------------------
(***************************************************************************)
(* The frozen readers.                                                     *)
(***************************************************************************)

\* A u64 read beyond the payload.
BeyondPayload(i) == IF i.stale_tail THEN Leftovers ELSE {0}

\* The two meters VaultV3 has and a V2 registration does not.
WithNewMeters(i, outstanding, capacity) ==
    [i EXCEPT !.active_session.current_outstanding = outstanding,
              !.active_session.max_revolving_capacity = capacity]

\* VaultV3 over an account a V2 build wrote: both lie beyond the payload, and
\* possibly beyond the account.
ReadV2AsV3(i) ==
    IF i.active_session = None THEN {i}
    ELSE {WithNewMeters(i, outstanding, capacity) :
             outstanding \in BeyondPayload(i), capacity \in BeyondPayload(i)}

\* Faulty: beyond the account there are zeros.
ReadV3Beyond(i) == IF i.layout = 3 THEN {i} ELSE ReadV2AsV3(i)

ReadV3(i) ==
    IF i.layout = 3 THEN {i}
    ELSE IF i.active_session # None /\ PrefixLen(i) + 1 + RegistrationLen(3) > i.len
    THEN {}
    ELSE ReadV2AsV3(i)

\* VaultV4 over V6 bytes: live_session_count is read as the tag of the Option.
ReadV4(i) ==
    IF i.layout = 4 THEN {i} ELSE {r \in {i} : r.live_session_count = 0}

\* A registration with the two meters V4 added.
WithLockMeters(s) ==
    IF s = None THEN None ELSE [s EXCEPT !.crystallized_cumulative = 0]

-----------------------------------------------------------------------------
(***************************************************************************)
(* The migrations: what each hop demands of the account and the signer,    *)
(* authority, and what it makes of the account.                            *)
(***************************************************************************)

V2Accepted(v, authority) ==
    image[v].version = 2 /\ image[v].authority = authority

\* The prefix alone is decoded; the new size is that of the current struct, so
\* an account of V2 length stays as long as it is.
MigrateV2ToV3(v, authority) ==
    /\ V2Accepted(v, authority)
    /\ image' = [image EXCEPT ![v].version = 3, ![v].len = Larger(@, Size(6))]
    /\ UNCHANGED <<carried, now>>

V3Accepted(v, v3, authority) ==
    image[v].version = 3 /\ v3.authority = authority

\* Only the payload is written: what lies behind it stays.
MigrateV3ToV4(v, authority) ==
    /\ \E v3 \in ReadV3(image[v]) :
        /\ V3Accepted(v, v3, authority)
        /\ image' = [image EXCEPT ![v] =
                [v3 EXCEPT !.version = 4, !.layout = 4, !.len = Larger(@, Size(4)),
                           !.active_session = WithLockMeters(@), !.locked = 0]]
    /\ UNCHANGED <<carried, now>>

V4Accepted(v, v4, authority) ==
    image[v].version = 4 /\ v4.authority = authority

\* The credit fields are written: without a session they are where V6 has them.
MigrateV4ToV5(v, authority) ==
    /\ \E v4 \in ReadV4(image[v]) :
        /\ V4Accepted(v, v4, authority)
        /\ image' = [image EXCEPT ![v] =
                [v4 EXCEPT !.version = 5, !.layout = 5, !.len = Larger(@, Size(5)),
                           !.borrowed = 0,
                           !.decodes = IF v4.active_session = None THEN {5, 6} ELSE @]]
    /\ UNCHANGED <<carried, now>>

\* Faulty: serialized over the account without the zero padding.
InV6Unpadded(i, count) ==
    [i EXCEPT !.version = 6, !.layout = 6, !.len = Size(6),
              !.active_session = None, !.live_session_count = count]

\* The V6 account both last hops write: padded with zeros, cut to size.
InV6(i, count) ==
    [i EXCEPT !.version = 6, !.layout = 6, !.len = Size(6), !.stale_tail = FALSE,
              !.decodes = {5, 6}, !.active_session = None, !.live_session_count = count]

\* Faulty: whatever session there is, is dropped.
MigrateV5ToV6Unchecked(v, authority) ==
    /\ image[v].version = 5
    /\ image[v].authority = authority
    /\ image' = [image EXCEPT ![v] = InV6(@, 0)]
    /\ UNCHANGED <<carried, now>>

\* Faulty: a session on its last second is live to neither hop.
V5AcceptedOffByOne(v, authority) ==
    LET v5 == image[v]
    IN  /\ v5.version = 5 /\ 5 \in v5.decodes
        /\ v5.authority = authority
        /\ v5.active_session # None => v5.active_session.expires_at < now

\* Faulty: a vault that is there already is taken once more.
V5AcceptedAgain(v, authority) ==
    LET v5 == image[v]
    IN  /\ v5.version \in {5, 6} /\ 5 \in v5.decodes
        /\ v5.authority = authority
        /\ v5.active_session # None => v5.active_session.expires_at <= now

\* The version byte is the fifth's and VaultV5 decodes.  An expired session is
\* dropped; a live one must go through WithSession.
V5Accepted(v, authority) ==
    LET v5 == image[v]
    IN  /\ v5.version = 5 /\ 5 \in v5.decodes
        /\ v5.authority = authority
        /\ v5.active_session # None => v5.active_session.expires_at <= now

MigrateV5ToV6(v, authority) ==
    /\ V5Accepted(v, authority)
    /\ image' = [image EXCEPT ![v] = InV6(@, 0)]
    /\ UNCHANGED <<carried, now>>

V5AcceptedWithSession(v, authority, live_counterparty) ==
    LET v5 == image[v]
    IN  /\ v5.version = 5 /\ 5 \in v5.decodes
        /\ carried[v][live_counterparty] = None
        /\ v5.authority = authority
        /\ v5.active_session # None
        /\ v5.active_session.expires_at > now
        /\ v5.active_session.allowed_counterparty = live_counterparty

\* The session PDA of live_counterparty is created and takes the registration.
MigrateV5ToV6WithSession(v, authority, live_counterparty) ==
    /\ V5AcceptedWithSession(v, authority, live_counterparty)
    /\ carried' = [carried EXCEPT ![v][live_counterparty] = image[v].active_session]
    /\ image' = [image EXCEPT ![v] = InV6(@, 1)]
    /\ UNCHANGED now

\* Faulty: cut at the top only.
ClampedAbove(seconds) == IF seconds > MaxCooling THEN MaxCooling ELSE seconds

\* i64 to u32.
Clamped(seconds) ==
    IF seconds < 0 THEN 0 ELSE IF seconds > MaxCooling THEN MaxCooling ELSE seconds

\* The V6 account written for a vault of the legacy layouts.
FromLegacy(i, authority) ==
    [InV6(i, 0) EXCEPT !.authority = authority,
                       !.cooling_off_seconds = Clamped(@),
                       !.locked = 0, !.borrowed = 0]

\* The layout is told by the length alone; V1 records no authority and is
\* adopted by the admin.
LegacyAccepted(v, authority) ==
    \/ image[v].len = LegacyV15Len /\ authority = image[v].authority
    \/ image[v].len = LegacyV1Len /\ authority = LegacyAdmin

MigrateLegacyToV6(v, authority) ==
    /\ LegacyAccepted(v, authority)
    /\ image' = [image EXCEPT ![v] = FromLegacy(@, authority)]
    /\ UNCHANGED <<carried, now>>

-----------------------------------------------------------------------------
(***************************************************************************)
(* The current program on a vault, migrated or not.                        *)
(***************************************************************************)

\* The current struct reads live_session_count where the older layouts have the
\* tag of active_session, the odometers and the credit fields where they have the
\* session, and what a layout lacks from beyond its payload.
ReadsAsV6(i) == i.version \in 2 .. 6 /\ 6 \in i.decodes

\* A registration after its end has been written over: the frozen layouts find the
\* first bytes (session_pubkey, max_amount, the low ones of expires_at) as they
\* were and other bytes of the account in the rest; one value does for all meters.
Overwritten(layout, c, t, x) ==
    [allowed_counterparty |-> c, expires_at |-> t, spent |-> x,
     current_outstanding |-> IF layout >= 3 THEN x ELSE 0,
     max_revolving_capacity |-> IF layout >= 3 THEN x ELSE 0,
     crystallized_cumulative |-> IF layout >= 4 THEN x ELSE 0]

\* An account with an inline session whose later fields the current struct has moved
\* by 48 bytes: the session's bytes beyond those the struct knows of stay behind, as
\* do the fields after it, among them the tags of the Options VaultV5 has there.
WrittenOver(i, c, t, x, d) ==
    [i EXCEPT !.active_session = Overwritten(i.layout, c, t, x),
              !.locked = IF i.layout >= 4 THEN x ELSE @,
              !.borrowed = IF i.layout >= 5 THEN x ELSE @,
              !.decodes = IF i.layout >= 5 THEN d ELSE @]

\* What the current struct makes of an account when it is written back with another
\* pending withdrawal.  The fields go back where they came from, unless the Option
\* comes or goes.
WrittenBack(i, pending) ==
    LET j == [i EXCEPT !.pending_withdrawal = pending]
    IN  IF i.active_session = None \/ ((pending = None) <=> (i.pending_withdrawal = None))
        THEN {j}
        ELSE {WrittenOver(j, c, t, x, d) :
                 c \in Counterparties, t \in 0 .. MaxTime + 1, x \in Leftovers,
                 d \in {{6}, {5, 6}}}

\* request_withdrawal takes every version from 2 on; its other conditions, and
\* those of the instructions below, read nothing that is modelled here.
RequestWithdrawal(v, amount) ==
    /\ ReadsAsV6(image[v])
    /\ \E i \in WrittenBack(image[v], amount) : image' = [image EXCEPT ![v] = i]
    /\ UNCHANGED <<carried, now>>

\* finalize_withdrawal likewise.  The bytes the Option held are left over: beyond
\* everything the current struct reads, not beyond what it makes of a session.
FinalizeWithdrawal(v) ==
    /\ ReadsAsV6(image[v])
    /\ image[v].pending_withdrawal # None
    /\ \E i \in WrittenBack(image[v], None) :
        image' = [image EXCEPT ![v] =
            [i EXCEPT !.stale_tail = @ \/ i.active_session # None]]
    /\ UNCHANGED <<carried, now>>

\* A V6 vault opens the first session it has as one.
RegisterSessionKey(v, c, expires_at, max_revolving_capacity) ==
    /\ image[v].version = 6
    /\ image[v].live_session_count = 0
    /\ carried[v][c] = None
    /\ expires_at > now
    /\ carried' = [carried EXCEPT ![v][c] =
            [allowed_counterparty |-> c, expires_at |-> expires_at, spent |-> 0,
             current_outstanding |-> 0, max_revolving_capacity |-> max_revolving_capacity,
             crystallized_cumulative |-> 0]]
    /\ image' = [image EXCEPT ![v].live_session_count = @ + 1]
    /\ UNCHANGED now

\* The current authority hands over to another.
RotateDexterAuthority(v, new_dexter_authority) ==
    /\ ReadsAsV6(image[v])
    /\ image[v].authority # new_dexter_authority
    /\ image' = [image EXCEPT ![v].authority = new_dexter_authority]
    /\ UNCHANGED <<carried, now>>

Tick ==
    /\ now < MaxTime
    /\ now' = now + 1
    /\ UNCHANGED <<image, carried>>

Hop(v) ==
    \E authority \in Authorities \cup {LegacyAdmin} :
        \/ MigrateV2ToV3(v, authority)
        \/ MigrateV3ToV4(v, authority)
        \/ MigrateV4ToV5(v, authority)
        \/ MigrateV5ToV6(v, authority)
        \/ \E c \in Counterparties : MigrateV5ToV6WithSession(v, authority, c)
        \/ MigrateLegacyToV6(v, authority)

Next ==
    \/ \E v \in Vaults :
        \/ Hop(v)
        \/ \E amount \in Pendings : RequestWithdrawal(v, amount)
        \/ FinalizeWithdrawal(v)
        \/ \E new \in Authorities : RotateDexterAuthority(v, new)
        \/ \E c \in Counterparties, t \in 1 .. MaxTime, capacity \in Capacities :
                RegisterSessionKey(v, c, t, capacity)
    \/ Tick

Spec == Init /\ [][Next]_migrationVars

-----------------------------------------------------------------------------
(***************************************************************************)
(* What a vault means, whatever its layout, and what the hops promise.     *)
(***************************************************************************)

Registered(v) == {c \in Counterparties : carried[v][c] # None}

\* The one session a vault has: inline in the older layouts, in its PDA at V6.
SessionOf(v) ==
    IF image[v].version = 6 /\ Registered(v) # {}
    THEN carried[v][CHOOSE c \in Registered(v) : TRUE]
    ELSE image[v].active_session

\* What the session of a vault may say: a V2 registration lacks two meters, which
\* the reader that has them takes from beyond the payload.
Readings(v) ==
    IF image[v].layout = 2
    THEN {r.active_session : r \in ReadV2AsV3(image[v])}
    ELSE {SessionOf(v)}

\* What the owner, the seller, the holders and the financier rely on.
Terms(v) ==
    [authority |-> image[v].authority,
     pending_withdrawal |-> image[v].pending_withdrawal,
     cooling_off_seconds |-> image[v].cooling_off_seconds,
     session |-> Readings(v),
     locked |-> image[v].locked,
     borrowed |-> image[v].borrowed]

VaultTerms == [v \in Vaults |-> Terms(v)]

\* The version, the two layouts without a version byte being the first.
Generations ==
    [v \in Vaults |-> IF image[v].layout = 1 THEN 1 ELSE image[v].version]

Upgrade == INSTANCE VaultUpgrade WITH terms <- VaultTerms, generation <- Generations

\* The chain of hops, each of which rewrites the whole account through a frozen
\* layout, amounts to one upgrade that keeps every term of the vault: all but
\* the last hop leave them alone, the last one drops an expired session and
\* nothing else.  Between two hops a withdrawal moves every later field of the
\* account and keeps them all, but for one that is opened or paid over an inline
\* session: that one, and no other step, spoils the session and the meters behind it.
HopsKeepTheTerms == Upgrade!Spec

\* A withdrawal takes no session with it, at any version.
SessionsSurviveWithdrawals ==
    [][\A v \in Vaults :
        image'[v].pending_withdrawal # image[v].pending_withdrawal
            => SessionOf(v)' = SessionOf(v)]_migrationVars

\* A vault enters V6 as the rest of the program assumes a V6 vault to be: the
\* count is the number of session accounts it has, each at the address of its
\* own counterparty, the account has the size of the struct with nothing left
\* over in it, and an authority is recorded.
MigratedVaultsAreSound ==
    \A v \in Vaults : image[v].version = 6 =>
        /\ image[v].layout = 6 /\ image[v].len = Size(6) /\ ~image[v].stale_tail
        /\ image[v].live_session_count = Cardinality(Registered(v))
        /\ \A c \in Registered(v) : carried[v][c].allowed_counterparty = c
        /\ image[v].authority # None

\* The owner comes back for a withdrawal that was asked for; the clock runs.  No
\* fairness of the hops: they are the authority's.
OwnerSpec ==
    /\ Spec
    /\ WF_migrationVars(Tick)
    /\ \A v \in Vaults : WF_migrationVars(FinalizeWithdrawal(v))

\* SECURITY.md: "access to funds never requires Dexter".  A withdrawal that was
\* asked for under an older build gets through without the authority's hops.
AccessNeverRequiresDexter ==
    \A v \in Vaults :
        image[v].pending_withdrawal # None ~> image[v].pending_withdrawal = None

\* A V2 vault with both Options in use, past the first hop: VaultV3 is longer than
\* the account.
IsFullV2(i) == i.layout = 2 /\ i.active_session # None /\ i.pending_withdrawal # None
IsStuck(i) == i.version = 3 /\ IsFullV2(i)

\* Some signer's transaction with one of the migrations passes its checks.
HopApplies(v) ==
    \E authority \in Authorities \cup {LegacyAdmin} :
        \/ V2Accepted(v, authority)
        \/ \E v3 \in ReadV3(image[v]) : V3Accepted(v, v3, authority)
        \/ \E v4 \in ReadV4(image[v]) : V4Accepted(v, v4, authority)
        \/ V5Accepted(v, authority)
        \/ \E c \in Counterparties : V5AcceptedWithSession(v, authority, c)
        \/ LegacyAccepted(v, authority)

\* Until a vault is at V6 one of the migrations applies to it, whatever the hops
\* before, the clock and the owner did: no session falls between the two last
\* hops, and no decoder runs past the end of an account, but for the one that
\* migrate_v2_to_v3 does not grow.  Those, once stamped 3, no migration accepts, nor
\* a V5 vault whose Options a withdrawal over its session has written over.
OnlyStrandedVaultsAreStuck ==
    \A v \in Vaults : image[v].version # 6 =>
        (HopApplies(v) <=>
            ~(IsStuck(image[v]) \/ (image[v].version = 5 /\ 5 \notin image[v].decodes)))

\* Once there, such a vault is stuck for good: no hop and no change of authority
\* takes it anywhere, its session neither moves nor ends, and a new request only
\* replaces the old one.  The one way out is a payout of the withdrawal, if today's
\* struct happens to decode the account.
StuckVaultsStayStuck ==
    [][\A v \in Vaults :
        IsStuck(image[v]) =>
            \/ FinalizeWithdrawal(v)
            \/ /\ IsStuck(image'[v])
               /\ image'[v].active_session = image[v].active_session
               /\ carried'[v] = carried[v]]_migrationVars

\* migrate_v3_to_v4.rs: "a V3 account MATCHES the frozen `VaultV3` struct EXACTLY
\* [...] so decoding it against `VaultV3` cannot over-run": every vault of an older
\* build can take a hop until it is at V6.
AHopAlwaysApplies ==
    \A v \in Vaults : image[v].version # 6 => ENABLED Hop(v)

\* migrate_v2_to_v3.rs: "A migrated Some-session vault ends up with
\* `max_revolving_capacity = 0`": a session of a vault that was V2 cannot open
\* new exposure once it is past V3.
LegacySessionsHaveNoCapacity ==
    \A v \in Vaults :
        image[v].version >= 4 /\ SessionOf(v) # None
            => SessionOf(v).max_revolving_capacity = 0

=================================================================================
