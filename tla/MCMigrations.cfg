SPECIFICATION Spec
CHECK_DEADLOCK FALSE
CONSTANTS
    v1 = v1
    c1 = c1
    c2 = c2
    a1 = a1
    a2 = a2
    Vaults = {v1}
    Counterparties = {c1, c2}
    Authorities = {a1, a2}
    LegacyAdmin = LegacyAdmin
    None = None
    Eras = {"V1", "V1_5", "V2", "V2_shrunk", "V3", "V4", "V5", "born_broken", "pre_grown"}
    Pendings = {1}
    Spends = {0, 1}
    Capacities = {1}
    Amounts = {0, 1}
    Coolings <- CoolingsTried
    MaxCooling = 2
    Leftovers = {0, 7}
    MaxTime = 2
INVARIANTS
    TypeOK
    MigratedVaultsAreSound
    OnlyStrandedVaultsAreStuck
PROPERTIES
    
    StuckVaultsStayStuck
