SPECIFICATION Spec
CHECK_DEADLOCK FALSE
CONSTANTS
    v1 = v1
    v2 = v2
    k1 = k1
    a1 = a1
    s1 = s1
    w1 = w1
    Vaults = {v1, v2}
    Passkeys = {k1}
    Malformed = Malformed
    Authorities = {a1}
    Swigs = {s1}
    Default = Default
    FeePayer = FeePayer
    Master = Master
    None = None
    Withdrawals = {w1}
    MaxCumulative = 1
    Drift = 0
    MaxAssertions = 3
    MaxRequests = 2
    MaxElsewhere = 0
    MaxTime = 0
INVARIANT
    AssertionsActOnOneVault
