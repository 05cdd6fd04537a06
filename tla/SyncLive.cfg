CONSTANTS
    n1 = n1
    Rotators = {r1}
    Namespaces = {n1, n2}
    Names = {a}
    Types = {docker}
    Tokens = {t1, t2, t3}
    None = None
    User = User
    Home <- Namespaced
    NameOf <- OwnNames
    Lag = FALSE
    Interleave = FALSE
    Disturbances = {"fault", "crash", "relabel", "reconfigure", "user"}
    MaxDisturb = 3

SPECIFICATION FairSpec
PROPERTIES Convergence RecordedCleanup
