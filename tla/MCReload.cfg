SPECIFICATION FairSpec
CONSTANTS
    r1 = r1
    r2 = r2
    Requests = {r1, r2}
    Poller = poller
    Free = free
    NoETag = "none"
    NoBody = "nil"
    ETags <- MCETags
    Bodies <- MCBodies
    BodyOf <- MCBodyOf
    Verdict <- MCVerdict
    MaxPuts = 2
INVARIANTS
    OnlyGovernedServed
    PlaneAndTaxonomyAgree
    ETagNamesServing
PROPERTIES
    PlaneNeverGoesBack
    KeepsPromise
    ConvergesUnlessTorn
    CallsFinish
