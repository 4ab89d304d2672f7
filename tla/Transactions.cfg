SPECIFICATION Spec
CHECK_DEADLOCK FALSE
CONSTANTS
    v1 = v1
    k1 = k1
    k2 = k2
    a1 = a1
    s1 = s1
    s2 = s2
    w1 = w1
    Vaults = {v1}
    Passkeys = {k1, k2}
    Malformed = Malformed
    Authorities = {a1}
    Swigs = {s1, s2}
    Default = Default
    FeePayer = FeePayer
    Master = Master
    None = None
    Withdrawals = {w1}
    MaxCumulative = 1
    Drift = 0
    MaxAssertions = 3
    MaxRequests = 2
    MaxElsewhere = 1
    MaxTime = 1
INVARIANTS
    TypeOK
    NoWalletIsOrphaned
    PaymentsAreBooked
    AssertionsActOnce
SYMMETRY Symmetry
