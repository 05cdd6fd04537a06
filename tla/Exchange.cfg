CONSTANTS
    home = home
    away = away
    op = op
    ten = ten
    podRole = podRole
    tenRole = tenRole
    opRole = opRole
    Rotators = {r1, r2}
    Namespaces = {n1, n2}
    Sites = {home, away}
    Logins = {op, ten}
    Roles = {podRole, tenRole, opRole}
    Keys = {k1, k2, k3}
    Lifetimes = {1, 2}
    None = None
    OperatorSite = home
    OperatorLogin = op
    PodRole = podRole
    Specs <- Tenants
    Absent <- MCAbsent
    Annotation <- MCAnnotation
    Trust <- MCTrust
    Pathed = {opRole}
    DefaultLifetime = 3
    Disturbances = {"fault", "spec", "annotate", "session", "rotate"}
    MaxDisturb = 1
SPECIFICATION FairSpec
INVARIANTS TypeOK TenantIsolation
PROPERTY IdentityConverges
