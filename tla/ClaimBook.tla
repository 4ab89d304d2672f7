------------------------------- MODULE ClaimBook -------------------------------
(***************************************************************************)
(* What locking a voucher promises: a claim is written once, belongs to    *)
(* one holder at a time and is closed once, by its holder from its         *)
(* maturity on or by the buyer after its deadline.  Each vault keeps       *)
(* reserved exactly what its open claims add up to.  No sessions, no       *)
(* wallets, no counters that could saturate.                               *)
(***************************************************************************)
EXTENDS Integers

CONSTANTS Vaults, Vouchers, Holders, None

VARIABLES
    book,     \* the claim of each voucher, per vault
    reserved, \* what each vault owes to open claims
    settled,  \* what each vault has paid on claims
    now

Init ==
    /\ \A v \in Vaults, h \in Vouchers : book[v][h].status = "Vacant"
    /\ reserved = [v \in Vaults |-> 0]
    /\ settled = [v \in Vaults |-> 0]
    /\ now = 0

\* The claim of v on h becomes the given one, and no other changes.
Enter(v, h, entry) == book' = [book EXCEPT ![v][h] = entry]

Open(v, h) ==
    /\ book[v][h].status = "Vacant"
    /\ book'[v][h].status = "Pending"
    /\ book'[v][h].amount > 0
    /\ book'[v][h].maturity_at # None /\ book'[v][h].holder_recovery_at # None
           => book'[v][h].maturity_at < book'[v][h].holder_recovery_at
    /\ Enter(v, h, book'[v][h])
    /\ reserved' = [reserved EXCEPT ![v] = @ + book'[v][h].amount]
    /\ UNCHANGED <<settled, now>>

Transfer(v, h) ==
    /\ book[v][h].status = "Pending"
    /\ \E holder \in Holders : Enter(v, h, [book[v][h] EXCEPT !.current_holder = holder])
    /\ UNCHANGED <<reserved, settled, now>>

Settle(v, h) ==
    /\ book[v][h].status = "Pending"
    /\ book[v][h].maturity_at # None => now >= book[v][h].maturity_at
    /\ Enter(v, h, [book[v][h] EXCEPT !.status = "Settled"])
    /\ reserved' = [reserved EXCEPT ![v] = @ - book[v][h].amount]
    /\ settled' = [settled EXCEPT ![v] = @ + book[v][h].amount]
    /\ UNCHANGED now

Recover(v, h) ==
    /\ book[v][h].status = "Pending"
    /\ book[v][h].holder_recovery_at # None
    /\ now >= book[v][h].holder_recovery_at
    /\ Enter(v, h, [book[v][h] EXCEPT !.status = "Abandoned"])
    /\ reserved' = [reserved EXCEPT ![v] = @ - book[v][h].amount]
    /\ UNCHANGED <<settled, now>>

Tick ==
    /\ now' > now
    /\ UNCHANGED <<book, reserved, settled>>

Next ==
    \/ \E v \in Vaults, h \in Vouchers :
        Open(v, h) \/ Transfer(v, h) \/ Settle(v, h) \/ Recover(v, h)
    \/ Tick

Spec == Init /\ [][Next]_<<book, reserved, settled, now>>

=================================================================================
