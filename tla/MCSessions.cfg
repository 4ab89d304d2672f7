SPECIFICATION SessionsSpec
SYMMETRY Symmetry
CHECK_DEADLOCK FALSE
CONSTANTS
    v1 = v1
    Vaults = {v1}
    c1 = c1
    c2 = c2
    c3 = c3
    Counterparties = {c1, c2, c3}
    DefaultKey = DefaultKey
    Holders = {}
    Channels = {}
    Financiers = {}
    DefaultWallet = DefaultWallet
    None = None
    Amounts = {1, 2}
    Deadlines = {None}
    Windows = {0}
    MasterSpends = {}
    CoolingOff = 0
    ForceReleaseGrace = 0
    Drift = 0
    MaxSessions = 3
    MaxTime = 2
    MaxBalance = 3
    MaxPending = 0
INVARIANTS
    LiveCountExact
    GateAdmitsExactlyTheOthers
    ExpiredSessionsNeverBlock
PROPERTIES
    RegisterNeverOvercommits
