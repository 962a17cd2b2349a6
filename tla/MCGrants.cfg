SPECIFICATION Spec
CONSTANTS
    p = p
    q = q
    Replicas = {p, q}
    Grants <- MCGrants2
    Plain <- MCPlain
    HexOf <- MCHexOf
    Catalogues <- MCCatalogues
    LongestAge <- MCLongestAge
    BootCatalogues = {"base", "plain"}
    None = none
    Skew = 1
    FloorTTL = 3
    SpendLatency = 1
    MaxTime = 6
SYMMETRY Symmetry
INVARIANTS
    BucketCovers
    SingleUse
    ReplaysAreReplays
