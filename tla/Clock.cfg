CONSTANTS
    Rotators = {r1}
    Namespaces = {n1, n2}
    Lifetimes = {4, 8}
    MaxLife = 8
    Refresh <- RefreshTimes
    Unset = Unset
    None = None
    TenMinutes = 3
    Hour = 6
    MaxWriting = 1
    Disturbances = {"fault", "crash", "event", "refresh"}
    MaxDisturb = 2
SPECIFICATION FairSpec
INVARIANTS TypeOK FreshUnlessReported
PROPERTY Refreshed
