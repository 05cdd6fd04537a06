CONSTANTS
    n1 = n1
    Rotators = {r1}
    Namespaces = {n1}
    Names = {a, b}
    Types = {docker}
    Tokens = {t1, t2, t3}
    None = None
    User = User
    Home <- ClusterWide
    NameOf <- OwnNames
    Lag = FALSE
    Interleave = FALSE
    Disturbances = {"fault"}
    MaxDisturb = 1

SPECIFICATION Spec
PROPERTY ConfiguredNotDeleted
