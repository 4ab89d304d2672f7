------------------------------ MODULE VaultUpgrade ------------------------------
(***************************************************************************)
(* What migrating a vault promises, without bytes: it climbs generations   *)
(* one or more at a time, the terms stay as they are on the way, and only  *)
(* the step that reaches the current generation tidies them.  And what it  *)
(* does not: a session does not outlive a withdrawal on the way.           *)
(***************************************************************************)
EXTENDS Integers

CONSTANTS Vaults, Authorities, LegacyAdmin, None, Pendings, MaxCooling, MaxTime

VARIABLES
    terms,      \* what each vault promises; session is a set: all it may say
    generation, \* the build it belongs to; Current is the one that runs
    now

Current == 6

Init ==
    /\ generation \in [Vaults -> 1 .. Current - 1]
    /\ now = 0

Expired(s) == s # None /\ s.expires_at <= now

\* A vault without an authority is adopted by the admin; its cooling-off is cut
\* to what the current layout can hold; an expired session is not kept.
AfterUpgrade(t) ==
    [t EXCEPT !.authority = IF @ = None THEN LegacyAdmin ELSE @,
              !.cooling_off_seconds =
                  IF @ < 0 THEN 0 ELSE IF @ > MaxCooling THEN MaxCooling ELSE @,
              !.session = {IF Expired(s) THEN None ELSE s : s \in @}]

\* An older build may leave open what its session says: an upgrade settles on some
\* of what it may say.
UpgradeVault(v) ==
    /\ generation[v] < Current
    /\ \E next \in generation[v] + 1 .. Current,
         session \in (SUBSET terms[v].session) \ {{}} :
        LET t == [terms[v] EXCEPT !.session = session]
        IN  /\ generation' = [generation EXCEPT ![v] = next]
            /\ terms' = [terms EXCEPT ![v] = IF next = Current THEN AfterUpgrade(t) ELSE t]
    /\ UNCHANGED now

\* The owner asks for a withdrawal, or one is paid.
ChangeWithdrawal(v) ==
    /\ \E pending \in Pendings \cup {None} :
        terms' = [terms EXCEPT ![v].pending_withdrawal = pending]
    /\ UNCHANGED <<generation, now>>

ChangeAuthority(v) ==
    /\ \E authority \in Authorities :
        terms' = [terms EXCEPT ![v].authority = authority]
    /\ UNCHANGED <<generation, now>>

\* Likewise on a vault with a session that is not upgraded yet: there is still one,
\* but neither what it says nor the meters of the locks and the credit are kept.
SpoilSession(v) ==
    LET after == terms'[v]
    IN  /\ generation[v] < Current
        /\ None \notin terms[v].session /\ None \notin after.session
        /\ (after.pending_withdrawal = None) <=> (terms[v].pending_withdrawal # None)
        /\ terms' = [terms EXCEPT ![v] =
                [@ EXCEPT !.pending_withdrawal = after.pending_withdrawal,
                          !.session = after.session,
                          !.locked = after.locked, !.borrowed = after.borrowed]]
        /\ UNCHANGED <<generation, now>>

\* A vault of the current generation opens a session.
OpenSession(v) ==
    /\ generation[v] = Current
    /\ terms[v].session = {None}
    /\ \E session \in terms'[v].session :
        /\ session # None /\ session.expires_at > now
        /\ terms' = [terms EXCEPT ![v].session = {session}]
    /\ UNCHANGED <<generation, now>>

Tick ==
    /\ now < MaxTime
    /\ now' = now + 1
    /\ UNCHANGED <<terms, generation>>

Next ==
    \/ \E v \in Vaults :
        \/ UpgradeVault(v) \/ OpenSession(v)
        \/ ChangeWithdrawal(v) \/ SpoilSession(v) \/ ChangeAuthority(v)
    \/ Tick

Spec == Init /\ [][Next]_<<terms, generation, now>>

=================================================================================
