SPECIFICATION HistorySpec
CHECK_DEADLOCK FALSE
CONSTANTS
    v1 = v1
    c1 = c1
    h1 = h1
    ch1 = ch1
    Vaults = {v1}
    Counterparties = {c1}
    DefaultKey = DefaultKey
    Holders = {h1}
    Channels = {ch1}
    Financiers = {}
    DefaultWallet = DefaultWallet
    None = None
    Amounts = {1, 2}
    Deadlines = {None}
    Windows = {0}
    MasterSpends = {}
    CoolingOff = 1
    ForceReleaseGrace = 1
    Drift = 0
    MaxSessions = 2
    MaxTime = 2
    MaxBalance = 3
    MaxPending = 1
INVARIANTS
    SessionCapBoundsValue
