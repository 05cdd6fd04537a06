CONSTANTS
    h1 = h1
    h2 = h2
    c1 = c1
    c2 = c2
    v1 = v1
    v2 = v2
    Rotators = {r1, r2}
    NameOf <- OwnNames
    Hosts = {h1, h2}
    Specs <- SomeSpecs
    CertSecrets = {c1, c2}
    CertData <- SomeCertData
    None = None
    Empty = Empty
    Disturbances = {"fault", "crash", "edit", "certificates"}
    MaxDisturb = 2
SPECIFICATION FairSpec
INVARIANTS TypeOK SecretsAreFunction CertificatesCurrent OwnCertificates
PROPERTY AccessConverges
