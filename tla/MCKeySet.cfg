\* Two kids; a time to live longer than the cooldown, and a fetch that may take
\* as long as the cooldown.
SPECIFICATION FairSpec
CONSTANTS
    Kids = {k1, k2}
    None = None
    TTL = 3
    Cooldown = 2
    FetchTime = 2
INVARIANTS
    WithdrawnKeysDie
PROPERTY
    RotationPickedUp
