SPECIFICATION Spec
CONSTANTS
    w1 = w1
    w2 = w2
    t = t
    h = h
    k = k
    Tenants = {t}
    Hashes = {h}
    Audience = {k}
    Workers = {w1, w2}
    MaxSegments = 2
    MaxCampaigns = 2
SYMMETRY Symmetry
INVARIANTS
    FailsOnlyInARace
    DeletedStaysDeleted
    AcceptedUntilDeleted
    RevenueHasCost
