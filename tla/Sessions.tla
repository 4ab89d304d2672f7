-------------------------------- MODULE Sessions --------------------------------
(***************************************************************************)
(* Per-counterparty spending sessions: register_session_key with its       *)
(* overcommit gate and expired-sibling sweep, revoke_session_key,          *)
(* close_session.                                                          *)
(***************************************************************************)
EXTENDS VaultState

IsLive(v, c) == session[v][c].expires_at > now

Caps(v) == [c \in Counterparties |-> session[v][c].max_amount]

\* What the loop over remaining_accounts demands of every sibling passed: an
\* account of this program, not the target's, whose address is the one derived
\* from the counterparty its own registration names.
SiblingsDerived(v, target, siblings) ==
    /\ target \notin siblings
    /\ \A s \in siblings : /\ session[v][s].exists
                           /\ session[v][s].allowed_counterparty = s

\* Faulty: only live siblings count towards the vault's sessions.
LiveSiblingsComplete(v, target, siblings) ==
    Cardinality({s \in siblings : IsLive(v, s)}) =
        vault[v].live_session_count - (IF session[v][target].version = 0 THEN 0 ELSE 1)

\* Faulty: a shorter list than the vault's sessions is accepted.
SiblingsAtMost(v, target, siblings) ==
    Cardinality(siblings) <=
        vault[v].live_session_count - (IF session[v][target].version = 0 THEN 0 ELSE 1)

\* As many siblings as the vault counts sessions, less the target if it is one.
SiblingsComplete(v, target, siblings) ==
    Cardinality(siblings) =
        vault[v].live_session_count - (IF session[v][target].version = 0 THEN 0 ELSE 1)

\* Faulty: the locked claims are not counted against the balance.
WithinBalanceIgnoringLocks(v, live, max_amount) ==
    Total(Caps(v), live) + max_amount <= WalletBalance(v)

\* The caps of the live siblings, the new cap and the locked claims fit.
WithinBalance(v, live, max_amount) ==
    Total(Caps(v), live) + max_amount + vault[v].outstanding_locked_amount
        <= WalletBalance(v)

NewRegistration(c, max_amount, max_revolving_capacity, expires_at) ==
    [exists |-> TRUE, version |-> 1, allowed_counterparty |-> c,
     max_amount |-> max_amount, expires_at |-> expires_at,
     spent |-> 0, current_outstanding |-> 0,
     max_revolving_capacity |-> max_revolving_capacity,
     crystallized_cumulative |-> 0]

\* Faulty: the swept sessions stay in the count.
UnsweptCount(v, c, swept) ==
    vault[v].live_session_count + (IF session[v][c].version = 0 THEN 1 ELSE 0)

\* The count after the swept sessions leave it and a new target enters it.
ResyncedCount(v, c, swept) ==
    vault[v].live_session_count - Cardinality(swept)
        + (IF session[v][c].version = 0 THEN 1 ELSE 0)

\* Everything the handler demands of a registration.
RegistrationAdmitted(v, c, max_amount, max_revolving_capacity, expires_at, siblings) ==
    LET live == {s \in siblings : IsLive(v, s)}
    IN  /\ max_amount > 0
        /\ max_revolving_capacity > 0
        /\ expires_at > now
        /\ vault[v].live_session_count < MaxSessions
        /\ SiblingsDerived(v, c, siblings)
        /\ SiblingsComplete(v, c, siblings)
        /\ WithinBalance(v, live, max_amount)
        /\ Cardinality(siblings \ live) <= vault[v].live_session_count

\* A live sibling is summed, an expired one is swept; the target is created, or
\* overwritten in place with its meters reset, whether or not it was live.
RegisterSessionKey(v, c, max_amount, max_revolving_capacity, expires_at, siblings) ==
    LET swept == siblings \ {s \in siblings : IsLive(v, s)}
    IN  /\ RegistrationAdmitted(v, c, max_amount, max_revolving_capacity, expires_at, siblings)
        /\ vault' = [vault EXCEPT ![v].live_session_count = ResyncedCount(v, c, swept)]
        /\ session' = [session EXCEPT ![v] = [s \in Counterparties |->
                CASE s = c        -> NewRegistration(c, max_amount,
                                         max_revolving_capacity, expires_at)
                  [] s \in swept  -> ClearedSession
                  [] OTHER        -> session[v][s]]]
        /\ UNCHANGED <<claim, ledger, ata, now>>

RevokeSessionKey(v, c) ==
    /\ session[v][c].exists
    /\ session[v][c].version # 0
    /\ vault[v].live_session_count >= 1
    /\ session' = [session EXCEPT ![v][c] = ClearedSession]
    /\ vault' = [vault EXCEPT ![v].live_session_count = @ - 1]
    /\ UNCHANGED <<claim, ledger, ata, now>>

\* The rent of a cleared account goes back; its address is vacant again.
CloseSession(v, c) ==
    /\ session[v][c].exists
    /\ session[v][c].version = 0
    /\ session' = [session EXCEPT ![v][c] = VacantSession]
    /\ UNCHANGED <<vault, claim, ledger, ata, now>>

\* Any session the buyer might register, with any list of siblings.
Register(v) ==
    \E c \in Counterparties, max_amount \in Amounts, capacity \in Amounts,
       expires_at \in 1 .. MaxTime + 1, siblings \in SUBSET Counterparties :
        RegisterSessionKey(v, c, max_amount, capacity, expires_at, siblings)

SessionsNext(v) ==
    \/ Register(v)
    \/ \E c \in Counterparties : RevokeSessionKey(v, c) \/ CloseSession(v, c)

=================================================================================
