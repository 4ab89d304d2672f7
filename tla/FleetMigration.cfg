SPECIFICATION HalfFleetSpec
CHECK_DEADLOCK FALSE
CONSTANTS
    v1 = v1
    c1 = c1
    a1 = a1
    a2 = a2
    Vaults = {v1}
    Counterparties = {c1}
    Authorities = {a1, a2}
    LegacyAdmin = LegacyAdmin
    None = None
    Eras = {"V2", "V3", "V4", "V5", "born_broken", "pre_grown"}
    Pendings = {1}
    Spends = {0}
    Capacities = {1}
    Amounts = {0}
    Coolings = {}
    MaxCooling = 2
    Leftovers = {0}
    MaxTime = 1
    Keys = {a1, a2}
    IncludeMismatch = TRUE
    MaxAttempts = 2
    MaxInflight = 2
    MaxFaults = 1
INVARIANTS
    FleetTypeOK
    JournalIsTrue
PROPERTIES
    LateTransactionsAreHarmless
    EveryVaultArrives
