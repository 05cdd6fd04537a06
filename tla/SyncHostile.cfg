CONSTANTS
    n1 = n1
    Rotators = {r1}
    Namespaces = {n1}
    Names = {a, b}
    Types = {docker}
    Tokens = {t1, t2, t3, t4}
    None = None
    User = User
    Home <- ClusterWide
    NameOf <- OwnNames
    Lag = TRUE
    Interleave = TRUE
    Disturbances = {"fault", "crash", "relabel", "reconfigure", "user"}
    MaxDisturb = 2
SYMMETRY Symmetry
SPECIFICATION Spec
INVARIANT TypeOK
PROPERTY DeletesOnlyOwnWrites
