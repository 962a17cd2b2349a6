SPECIFICATION FairSpec
CONSTANTS
    r1 = r1
    r2 = r2
    Requests = {r1}
    Poller = poller
    Free = free
    NoETag = "none"
    NoBody = "nil"
    ETags <- SmallETags
    Bodies <- SmallBodies
    BodyOf <- SmallBodyOf
    Verdict <- SmallVerdict
    MaxPuts = 3
PROPERTIES
    Converges
