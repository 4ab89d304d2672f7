------------------------------ MODULE VaultHistory ------------------------------
(***************************************************************************)
(* The program as it is, with two observations the accounts do not keep:   *)
(* when the pending withdrawal request landed, and since when the vault    *)
(* has had a tab open.  With them one can say how long the exit really     *)
(* waits; the other properties here are what the repository's comments say *)
(* of the program and the code does not do.                                *)
(***************************************************************************)
EXTENDS DexterVault

VARIABLES
    landed_at,    \* the clock when the pending request was accepted, 0 if none is
    busy_since    \* the clock when pending_voucher_count left zero, 0 at zero

observed == <<landed_at, busy_since>>

HistoryInit ==
    /\ Init
    /\ landed_at = [v \in Vaults |-> 0]
    /\ busy_since = [v \in Vaults |-> 0]

ObserveRequests ==
    landed_at' = [v \in Vaults |->
        CASE vault'[v].pending_withdrawal = None -> 0
          [] vault'[v].pending_withdrawal = vault[v].pending_withdrawal -> landed_at[v]
          [] OTHER -> now]

ObserveTabs ==
    busy_since' = [v \in Vaults |->
        CASE vault'[v].pending_voucher_count = 0 -> 0
          [] vault[v].pending_voucher_count > 0 -> busy_since[v]
          [] OTHER -> now]

HistoryNext == Next /\ ObserveRequests /\ ObserveTabs

HistorySpec == HistoryInit /\ [][HistoryNext]_<<vars, observed>>

-----------------------------------------------------------------------------
\* Both delays of the exit are counted from a time the buyer signed, and the tabs
\* and claims of others rely on them: between the landing of the request (of the
\* last one, if it was replaced) and the payment the clock moves by the
\* cooling-off, and before a tab is released by the grace, each less the drift
\* request_withdrawal tolerates and no more.
ExitWaitsForTheRequest ==
    [][\A v \in Vaults :
        /\ FinalizeWithdrawal(v) => now - landed_at[v] >= CoolingOff - Drift
        /\ ForceRelease(v) => now - landed_at[v] >= ForceReleaseGrace - Drift
      ]_<<vars, observed>>

\* force_release.rs: the valve opens "ONLY after the grace period, so it cannot be
\* used to escape a live tab mid-session": when it is used, the vault has had a
\* tab open for at least the grace period.
NoEscapeFromALiveTab ==
    [][\A v \in Vaults :
        ForceRelease(v) => now - busy_since[v] >= ForceReleaseGrace]_<<vars, observed>>

\* settle_tab_voucher.rs says of the session cap "Over-spend impossible", and
\* lock_voucher.rs that no range is covered twice: what a session has paid out as
\* tabs and locked into claims stays within the cap its passkey endorsed.
SessionCapBoundsValue ==
    \A v \in Vaults, c \in Counterparties :
        session[v][c].spent + session[v][c].crystallized_cumulative
            <= session[v][c].max_amount

\* register_session_key.rs: "An existing unexpired session blocks a new one": the
\* terms of a live session stay what they are until it is revoked or expires.
LiveSessionBlocksANewOne ==
    [][\A v \in Vaults, c \in Counterparties :
        session[v][c].version # 0 /\ IsLive(v, c) /\ session'[v][c].version # 0
            => /\ session'[v][c].max_amount = session[v][c].max_amount
               /\ session'[v][c].expires_at = session[v][c].expires_at
               /\ session'[v][c].spent >= session[v][c].spent]_<<vars, observed>>

\* state.rs on borrow_recovery_at: "Set on the first draw, cleared when `borrowed`
\* returns to 0. None = nothing borrowed": a deadline is armed exactly while a
\* loan is open.
DeadlineOnlyWhileBorrowed ==
    \A v \in Vaults : vault[v].borrow_recovery_at # None <=> vault[v].borrowed > 0

=================================================================================
