SPECIFICATION Spec
CONSTANTS
    p = p
    q = q
    Replicas = {p, q}
    Grants <- MCGrants1
    Plain <- MCPlain
    HexOf <- MCHexOf
    Catalogues <- MCCatalogues
    LongestAge <- MCLongestAge
    BootCatalogues = {"base", "tight"}
    None = none
    Skew = 1
    FloorTTL = 3
    SpendLatency = 0
    MaxTime = 6
INVARIANTS
    OneApprovalOneCall
