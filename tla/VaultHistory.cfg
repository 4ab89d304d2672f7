SPECIFICATION HistorySpec
CHECK_DEADLOCK FALSE
CONSTANTS
    v1 = v1
    c1 = c1
    h1 = h1
    ch1 = ch1
    f1 = f1
    Vaults = {v1}
    Counterparties = {c1}
    DefaultKey = DefaultKey
    Holders = {h1}
    Channels = {ch1}
    Financiers = {f1}
    DefaultWallet = DefaultWallet
    None = None
    Amounts = {1}
    Deadlines = {None, 1}
    Windows = {0}
    MasterSpends = {1}
    CoolingOff = 2
    ForceReleaseGrace = 2
    Drift = 1
    MaxSessions = 2
    MaxTime = 2
    MaxBalance = 2
    MaxPending = 1
INVARIANTS
    TypeOK
PROPERTIES
    RegisterNeverOvercommits
    ExitWaitsForTheRequest
    OnlyTabsAndLoansUnfund
    RevokedVaultOnlyUnwinds
