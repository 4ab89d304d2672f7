----------------------------- MODULE FleetMigration -----------------------------
(***************************************************************************)
(* scripts/migrate-fleet.ts --execute: a script that walks vault after     *)
(* vault up the chain of migrations, one transaction per hop.  It may be   *)
(* killed anywhere and run again; a transaction it sent may land after the *)
(* script gave up on it, or never.  The chain is the only memory that      *)
(* survives; the journal is written and not read.                          *)
(***************************************************************************)
EXTENDS Migrations

CONSTANTS
    Keys,              \* authority keypairs the operator passes
    IncludeMismatch,   \* --include-mismatch
    MaxAttempts,       \* 3, the attempts at one hop
    MaxInflight,       \* bound: transactions whose blockhash is still good
    MaxFaults          \* bound: kills of the script, reads unanswered, rotations,
                       \* withdrawals over an inline session

ASSUME FleetAssumption ==
    /\ Keys \subseteq Authorities /\ IncludeMismatch \in BOOLEAN
    /\ MaxAttempts \in Nat \ {0} /\ MaxInflight \in Nat \ {0} /\ MaxFaults \in Nat

VARIABLES
    queue,     \* (vault, authority read by the census) pairs still to walk
    walk,      \* where the script is
    inflight,  \* transactions sent that may still land
    journal,   \* the last line the script appended, None before the first
    faults

script == <<queue, walk, inflight, journal, faults>>
fleetVars == <<migrationVars, script>>

\* A hop, signed by the authority; live_counterparty is None for a plain one.
\* attempt and run stand for the blockhash that makes each sending unique.
Transaction ==
    [vault : Vaults, authority : Authorities, from : 2 .. 5,
     live_counterparty : Counterparties \cup {None}, attempt : 1 .. MaxAttempts,
     run : 0 .. MaxFaults]

Idle == [step |-> "idle"]
Picking == [step |-> "pick"]

\* The queue, the transactions in flight, the journal and the attempts stay in
\* their ranges.
FleetTypeOK ==
    /\ TypeOK
    /\ queue \subseteq Vaults \X Keys
    /\ inflight \subseteq Transaction
    /\ journal \in [vault : Vaults, to : 3 .. 6,
                    status : {"confirmed", "self_healed", "failed", "verified"}]
                  \cup {None}
    /\ faults \in 0 .. MaxFaults

FleetInit ==
    /\ Init
    /\ queue = {} /\ walk = Idle /\ inflight = {} /\ journal = None /\ faults = 0

-----------------------------------------------------------------------------
\* The byte behind the authority is zero: no session, or a count of none.
NothingBehindAuthority(i) == i.active_session = None /\ i.live_session_count = 0

\* Faulty: of the mismatches only the born-broken vaults are admitted.
WalkableBornBroken(v) ==
    LET i == image[v]
    IN  \/ i.version \in 2 .. 5 /\ i.len = Size(i.version)
        \/ /\ IncludeMismatch
           /\ i.version = 4 /\ i.len = Size(6) /\ NothingBehindAuthority(i)

\* classify, and what --include-mismatch admits on top.
Walkable(v) ==
    LET i == image[v]
    IN  \/ i.version \in 2 .. 5 /\ i.len = Size(i.version)
        \/ /\ IncludeMismatch
           /\ i.version = 4
           /\ \/ i.len = Size(5)
              \/ i.len = Size(6) /\ NothingBehindAuthority(i)

\* A run begins with a census of the chain.
StartRun ==
    /\ walk = Idle
    /\ queue' = {entry \in Vaults \X Keys :
                    Walkable(entry[1]) /\ image[entry[1]].authority = entry[2]}
    /\ walk' = Picking
    /\ UNCHANGED <<migrationVars, inflight, journal, faults>>

PickVault ==
    /\ walk = Picking
    /\ \E entry \in queue :
        /\ walk' = [step |-> "read", vault |-> entry[1], authority |-> entry[2]]
        /\ queue' = queue \ {entry}
    /\ UNCHANGED <<migrationVars, inflight, journal, faults>>

EndRun ==
    /\ walk = Picking
    /\ queue = {}
    /\ walk' = Idle
    /\ UNCHANGED <<migrationVars, queue, inflight, journal, faults>>

\* An entry names the version the vault is said to have reached, or, when it
\* failed, the one it was meant to.
Report(v, to, status) ==
    journal' = [vault |-> v, to |-> to, status |-> status]

\* Failure isolation: report, and go on with the next vault.
GiveUp(v) ==
    /\ Report(v, 6, "failed")
    /\ walk' = Picking

\* A hop for the version found, with the session iff it is live by the clock.
\* Transactions of one hop differ in attempt only: the choice is made once.
ChosenHop(v, authority) ==
    LET s == image[v].active_session
        carry == image[v].version = 5 /\ s # None /\ s.expires_at > now
    IN  [vault |-> v, authority |-> authority, from |-> image[v].version,
         live_counterparty |-> IF carry THEN s.allowed_counterparty ELSE None,
         attempt |-> 1, run |-> faults]

\* The chain is read before every hop.
ReadChain ==
    /\ walk.step = "read"
    /\ LET v == walk.vault
           i == image[v]
           refused == \/ i.version \notin 2 .. 5
                      \/ i.len = Size(6) /\ ~(IncludeMismatch /\ NothingBehindAuthority(i))
       IN  \/ /\ i.version = 6
              /\ walk' = [step |-> "verify", vault |-> v]
              /\ UNCHANGED journal
           \/ i.version # 6 /\ refused /\ GiveUp(v)
           \/ /\ i.version # 6 /\ ~refused
              /\ walk' = [step |-> "send", tx |-> ChosenHop(v, walk.authority)]
              /\ UNCHANGED journal
    /\ UNCHANGED <<migrationVars, queue, inflight, faults>>

\* What the transaction does to the chain.
Execute(tx) ==
    \/ tx.from = 2 /\ MigrateV2ToV3(tx.vault, tx.authority)
    \/ tx.from = 3 /\ MigrateV3ToV4(tx.vault, tx.authority)
    \/ tx.from = 4 /\ MigrateV4ToV5(tx.vault, tx.authority)
    \/ tx.from = 5 /\ tx.live_counterparty = None /\ MigrateV5ToV6(tx.vault, tx.authority)
    \/ /\ tx.from = 5 /\ tx.live_counterparty # None
       /\ MigrateV5ToV6WithSession(tx.vault, tx.authority, tx.live_counterparty)

\* The cluster would execute it now: preflight simulates exactly that.
Accepted(tx) == ENABLED Execute(tx)

\* Preflight passes and the transaction goes out.
Send ==
    /\ walk.step = "send"
    /\ Accepted(walk.tx)
    /\ Cardinality(inflight) < MaxInflight
    /\ inflight' = inflight \cup {walk.tx}
    /\ walk' = [step |-> "poll", tx |-> walk.tx, status |-> "unknown"]
    /\ UNCHANGED <<migrationVars, queue, journal, faults>>

Failed(tx, transient) ==
    walk' = [step |-> "recheck", tx |-> tx, transient |-> transient]

\* Preflight refuses it, or the RPC node does not answer.  isTransient searches the
\* text of the error, logs included: either may pass for transient, or not.
SendFails ==
    /\ walk.step = "send"
    /\ \E transient \in BOOLEAN : Failed(walk.tx, transient)
    /\ UNCHANGED <<migrationVars, queue, inflight, journal, faults>>

\* Faulty: a transaction nobody reports as failed is taken for confirmed.
NotReverted == walk.status # "reverted"

Confirmed == walk.status = "landed"

\* Polling ends with the transaction seen to have landed, or with an error: it
\* reverted, the time is up, the node does not answer.
PollEnds ==
    /\ walk.step = "poll"
    /\ \/ /\ Confirmed
          /\ Report(walk.tx.vault, walk.tx.from + 1, "confirmed")
          /\ walk' = [step |-> "read", vault |-> walk.tx.vault, authority |-> walk.tx.authority]
       \/ (\E transient \in BOOLEAN : Failed(walk.tx, transient)) /\ UNCHANGED journal
    /\ UNCHANGED <<migrationVars, queue, inflight, faults>>

\* Faulty: one attempt too many.
AttemptsLeftInclusive(tx) == tx.attempt <= MaxAttempts

AttemptsLeft(tx) == tx.attempt < MaxAttempts

\* After an error the chain tells whether the hop landed; if not, try again.
Recheck ==
    /\ walk.step = "recheck"
    /\ LET tx == walk.tx
           version == image[tx.vault].version
       IN  \/ /\ version > tx.from
              /\ Report(tx.vault, version, "self_healed")
              /\ walk' = [step |-> "read", vault |-> tx.vault, authority |-> tx.authority]
           \/ /\ version <= tx.from
              /\ ~(walk.transient /\ AttemptsLeft(tx))
              /\ GiveUp(tx.vault)
           \/ /\ version <= tx.from
              /\ walk.transient /\ AttemptsLeft(tx)
              /\ walk' = [step |-> "send", tx |-> [tx EXCEPT !.attempt = @ + 1]]
              /\ UNCHANGED journal
    /\ UNCHANGED <<migrationVars, queue, inflight, faults>>

Verify ==
    /\ walk.step = "verify"
    /\ LET v == walk.vault
       IN  IF image[v].version = 6 /\ image[v].len = Size(6)
           THEN Report(v, 6, "verified") /\ walk' = Picking
           ELSE GiveUp(v)
    /\ UNCHANGED <<migrationVars, queue, inflight, faults>>

-----------------------------------------------------------------------------
\* The cluster: a transaction in flight is executed, or reverts, or is dropped
\* when its blockhash is too old.
SeenByPoll(tx, status) ==
    walk' = IF walk.step = "poll" /\ walk.tx = tx THEN [walk EXCEPT !.status = status] ELSE walk

Land(tx) ==
    /\ tx \in inflight
    /\ inflight' = inflight \ {tx}
    /\ \/ Execute(tx) /\ SeenByPoll(tx, "landed")
       \/ ~Accepted(tx) /\ UNCHANGED migrationVars /\ SeenByPoll(tx, "reverted")
    /\ UNCHANGED <<queue, journal, faults>>

Drop(tx) ==
    /\ tx \in inflight
    /\ inflight' = inflight \ {tx}
    /\ UNCHANGED <<migrationVars, queue, walk, journal, faults>>

\* The script is killed; what it sent is still out.
Crash ==
    /\ walk # Idle
    /\ faults < MaxFaults
    /\ faults' = faults + 1
    /\ walk' = Idle
    /\ queue' = {}
    /\ UNCHANGED <<migrationVars, inflight, journal>>

\* A read of the chain goes unanswered, its retries included.
RpcFails ==
    /\ walk.step \in {"read", "recheck", "verify"}
    /\ faults < MaxFaults
    /\ faults' = faults + 1
    /\ GiveUp(IF walk.step = "recheck" THEN walk.tx.vault ELSE walk.vault)
    /\ UNCHANGED <<migrationVars, queue, inflight>>

Rotate(v, new) ==
    /\ faults < MaxFaults
    /\ faults' = faults + 1
    /\ RotateDexterAuthority(v, new)
    /\ UNCHANGED <<queue, walk, inflight, journal>>

Withdraw(v) ==
    (\E amount \in Pendings : RequestWithdrawal(v, amount)) \/ FinalizeWithdrawal(v)

\* It may change what the next hop finds, as the last two above do.
WithdrawOverSession(v) ==
    /\ faults < MaxFaults
    /\ faults' = faults + 1
    /\ image[v].active_session # None
    /\ Withdraw(v)
    /\ UNCHANGED <<queue, walk, inflight, journal>>

ScriptStep ==
    \/ StartRun \/ PickVault \/ EndRun \/ ReadChain
    \/ Send \/ SendFails \/ PollEnds \/ Recheck \/ Verify

Chain ==
    \/ Tick
    \/ \E v \in Vaults :
        \/ image[v].active_session = None /\ Withdraw(v)
        \/ \E c \in Counterparties, t \in 1 .. MaxTime, capacity \in Capacities :
                RegisterSessionKey(v, c, t, capacity)

FleetNext ==
    \/ ScriptStep
    \/ \E tx \in inflight : Land(tx) \/ Drop(tx)
    \/ Chain /\ UNCHANGED script
    \/ Crash \/ RpcFails
    \/ \E v \in Vaults : WithdrawOverSession(v) \/ \E new \in Keys : Rotate(v, new)

FleetSpec == FleetInit /\ [][FleetNext]_fleetVars

\* The operator runs the script again until it is done, the node answers now and
\* then, and of the transactions sent again and again for a vault some land.
Fairness ==
    /\ WF_fleetVars(ScriptStep)
    /\ \A v \in Vaults :
        /\ SF_fleetVars(walk.step = "send" /\ walk.tx.vault = v /\ Send)
        /\ SF_fleetVars(\E tx \in inflight : tx.vault = v /\ Land(tx))
    /\ WF_fleetVars(\E tx \in inflight : Land(tx) \/ Drop(tx))

FairFleetSpec == FleetSpec /\ Fairness

-----------------------------------------------------------------------------
\* The journal is an audit trail one can trust although the script never learns
\* the fate of a transaction for sure: a hop reported as confirmed or self-healed
\* has happened, and a vault reported as verified is a sound V6 vault, whatever
\* crashed, expired or landed late.
JournalIsTrue ==
    journal # None /\ journal.status # "failed" =>
        /\ image[journal.vault].version >= journal.to
        /\ journal.status = "verified" => MigratedVaultsAreSound

\* One transaction is enough for a hop and two are not too many: a vault moves one
\* version up at a time and by a transaction for the version it had; one that comes
\* late or twice, to a vault that is past it, changes nothing of any vault, a session
\* that was carried over or opened meanwhile included.
LateTransactionsAreHarmless ==
    [][ /\ \A v \in Vaults :
            image'[v].version # image[v].version =>
                /\ image'[v].version = image[v].version + 1
                /\ \E tx \in inflight \ inflight' :
                        tx.vault = v /\ tx.from = image[v].version
        /\ \A tx \in inflight \ inflight' :
            image[tx.vault].version # tx.from => UNCHANGED migrationVars ]_fleetVars

\* migrate-fleet.ts: "walk every pre-V6 Vault account on the dexter-vault program
\* up the migration chain to V6 (V2 -> V3 -> V4 -> V5 -> V6)".  Every vault whose
\* authority the operator can sign for ends up at V6: a crash, a lost or late
\* transaction, a session that expires between the choice of the hop and its
\* landing are all made good by running the script again.  Not so for a V2 vault:
\* killed after the first hop, the script finds it stamped 3 at a length the census
\* excludes; nor for a V5 vault that a withdrawal over its session has stranded.
EveryVaultArrives ==
    \A v \in Vaults :
        image[v].authority \in Keys /\ image[v].layout # 2
            ~> \/ image[v].version = 6
               \/ image[v].version = 5 /\ 5 \notin image[v].decodes

=================================================================================
