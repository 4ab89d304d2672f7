SPECIFICATION ExitSpec
CHECK_DEADLOCK FALSE
CONSTANTS
    v1 = v1
    c1 = c1
    c2 = c2
    h1 = h1
    ch1 = ch1
    Vaults = {v1}
    Counterparties = {c1, c2}
    DefaultKey = DefaultKey
    Holders = {h1}
    Channels = {ch1}
    Financiers = {}
    DefaultWallet = DefaultWallet
    None = None
    Amounts = {1}
    Deadlines = {None}
    Windows = {0}
    MasterSpends = {}
    CoolingOff = 1
    ForceReleaseGrace = 2
    Drift = 1
    MaxSessions = 3
    MaxTime = 3
    MaxBalance = 2
    MaxPending = 2
PROPERTIES
    BuyerEventuallyOut
    TheWayStaysOpen
