CONSTANTS
    n1 = n1
    Rotators = {r1, r2}
    Namespaces = {n1, n2}
    Names = {a}
    Types = {docker}
    Tokens = {t1, t2, t3}
    None = None
    User = User
    Home <- ClusterWide
    NameOf <- OwnNames
    Lag = FALSE
    Interleave = FALSE
    Disturbances = {"fault", "crash", "user", "relabel"}
    MaxDisturb = 1

SPECIFICATION FairSpec
PROPERTIES Convergence Rotates NoChurn
