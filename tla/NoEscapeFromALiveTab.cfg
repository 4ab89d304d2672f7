SPECIFICATION HistorySpec
CHECK_DEADLOCK FALSE
CONSTANTS
    v1 = v1
    c1 = c1
    Vaults = {v1}
    Counterparties = {c1}
    DefaultKey = DefaultKey
    Holders = {}
    Channels = {}
    Financiers = {}
    DefaultWallet = DefaultWallet
    None = None
    Amounts = {1}
    Deadlines = {None}
    Windows = {0}
    MasterSpends = {}
    CoolingOff = 1
    ForceReleaseGrace = 2
    Drift = 0
    MaxSessions = 2
    MaxTime = 3
    MaxBalance = 2
    MaxPending = 1
PROPERTIES
    NoEscapeFromALiveTab
