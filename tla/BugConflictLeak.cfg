CONSTANTS
    n1 = n1
    Rotators = {r1}
    Namespaces = {n1, n2}
    Names = {a}
    Types = {docker}
    Tokens = {t1, t2, t3}
    None = None
    User = User
    Home <- ClusterWide
    NameOf <- OwnNames
    Lag = FALSE
    Interleave = FALSE
    Disturbances = {"relabel"}
    MaxDisturb = 2

SPECIFICATION FairSpec
PROPERTY UnselectedRemoved
