CONSTANTS
    c1 = c1
    c2 = c2
    c3 = c3
    t1 = t1
    t2 = t2
    Creds = {c1, c2, c3}
    SessionToken <- SessionTokens
    None = None
    Values <- ValuesOf
    Urls <- SomeUrls
    Candidates <- SomeCandidates
    Order <- Bound
    MaxCounter = 3
    MaxTime = 3
    MaxHeaders = 2
    MaxSigned = 2
CHECK_DEADLOCK FALSE
SPECIFICATION Spec
INVARIANTS SignaturesVerify TokenOfSigner SameAuthority KeyInRange
