\* Two digests going back and forth, two superseded generations kept.
SPECIFICATION StoreSpec
CONSTANTS
    Digests = {d1, d2}
    NoGen = NoGen
    KeepDepth = 2
    TTL = 4
    MaxTime = 7
INVARIANTS
    NewestFirst
    RetainedForTheRest
