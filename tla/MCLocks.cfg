SPECIFICATION VouchersSpec
SYMMETRY Symmetry
CHECK_DEADLOCK FALSE
CONSTANTS
    v1 = v1
    Vaults = {v1}
    c1 = c1
    Counterparties = {c1}
    DefaultKey = DefaultKey
    Holders = {h1, h2}
    h1 = h1
    h2 = h2
    Channels = {ch1}
    ch1 = ch1
    Financiers = {}
    DefaultWallet = DefaultWallet
    None = None
    Amounts = {1, 2}
    Deadlines = {None, 1, 2}
    Windows = {0}
    MasterSpends = {}
    CoolingOff = 0
    ForceReleaseGrace = 0
    Drift = 0
    MaxSessions = 3
    MaxTime = 2
    MaxBalance = 3
    MaxPending = 1
INVARIANTS
    LockedIsPendingSum
    OdometersAccountForClaims
    RecoveryFollowsMaturity
    SessionMovesLessThanTwiceItsCap
PROPERTIES
    ImplementsClaimBook
    VouchersAreSingleUse
