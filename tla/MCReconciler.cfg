\* Two changes and two lossy rounds, at any point of a sweep.
SPECIFICATION FairSpec
CONSTANTS
    a1 = a1
    a2 = a2
    b1 = b1
    b2 = b2
    p = p
    q = q
    x = x
    dp = dp
    dq = dq
    other = other
    Instances = {a1, a2, b1, b2}
    Packages = {p, q, x}
    NoDigest = NoDigest
    Undeclared = Undeclared
    NameOf <- MCNameOf
    Serves <- MCServes
    Identity <- MCIdentity
    Boot <- MCBoot
    Catalogues <- MCCatalogues
    MaxChanges = 2
    MaxLosses = 2
PROPERTIES
    LiftedOnlyOnEvidence
    CountedMismatchStands
    VerdictsConverge
