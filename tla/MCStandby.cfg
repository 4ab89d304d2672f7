SPECIFICATION CreditSpec
CHECK_DEADLOCK FALSE
CONSTANTS
    v1 = v1
    v2 = v2
    f1 = f1
    Vaults = {v1, v2}
    Counterparties = {}
    DefaultKey = DefaultKey
    Holders = {}
    Channels = {}
    Financiers = {f1, v2}
    DefaultWallet = DefaultWallet
    None = None
    Amounts = {0, 1, 2}
    Deadlines = {None}
    Windows = {1}
    MasterSpends = {}
    CoolingOff = 0
    ForceReleaseGrace = 0
    Drift = 0
    MaxSessions = 0
    MaxTime = 2
    MaxBalance = 2
    MaxPending = 0
INVARIANTS
    PromisesAddUp
    PromisesCovered
    LoansAreRecoverable
PROPERTIES
    DeadlineHoldsWhileBorrowed
