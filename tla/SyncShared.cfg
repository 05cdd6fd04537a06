CONSTANTS
    n1 = n1
    Rotators = {r1, r2}
    Namespaces = {n1, n2}
    Names = {a, b}
    Types = {docker, generic}
    Tokens = {t1, t2, t3, t4}
    None = None
    User = User
    Home <- ClusterWide
    NameOf <- OwnNames
    Lag = FALSE
    Interleave = FALSE
    Disturbances = {"fault", "crash", "relabel", "reconfigure", "user"}
    MaxDisturb = 2

SPECIFICATION Spec
INVARIANTS CleanupReported RotationReported
PROPERTIES OwnSecretsOnly HonoursContract
SYMMETRY Symmetry
