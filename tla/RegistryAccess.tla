--------------------------- MODULE RegistryAccess ---------------------------
(***************************************************************************)
(* How a cycle gets at Artifactory and what it hands out: the validation   *)
(* of the spec, the certificate files copied out of a secret, the HTTP     *)
(* client built from them, the host that issues the token, and the hosts   *)
(* under which a docker secret offers it.                                  *)
(*                                                                         *)
(* A cycle validates the spec it has read, but after the deferred status   *)
(* patch it holds the live one: the token comes from the host of the first *)
(* and is stored under the hosts of the second.  The certificate files are *)
(* never removed, only overwritten, and outlive the cycle.                 *)
(*                                                                         *)
(* A spec read from a lagging cache is one that users edit right after it  *)
(* was read, so there is no cache here.                                    *)
(***************************************************************************)
EXTENDS Naturals, FiniteSets, Sequences

CONSTANTS
    Rotators,     \* SecretRotator objects
    NameOf,       \* metadata.name of a SecretRotator
    Hosts,        \* hosts that serve Artifactory
    Specs,        \* the specs users write
    CertSecrets,  \* secrets that hold certificates
    CertData,     \* what users put into one
    None,         \* no value
    Empty,        \* the content of a file that was created and not written
    Disturbances, \* which kinds of disturbance happen
    MaxDisturb    \* bound: how many of them happen

(* The keys HandleCerts supports; other keys of a secret are left out of    *)
(* CertData, because they are only logged.                                  *)
Files == {"cert.pem", "key.pem", "ca.pem", "tls.crt", "tls.key", "ca.crt"}

Url == [scheme : {"", "http://", "https://"}, host : Hosts \cup {""}]

(* Enabled and InsecureSkipVerify, and the secret with the certificates. *)
Security == [mode : {"off", "skip", "on"}, secret : CertSecrets]

(* Serial numbers of key pairs and authorities. *)
Serials == {d[f] : d \in CertData, f \in Files} \ {None}

(* What a file holds: which certificate, and the secret it came from.       *)
Content == [from : CertSecrets, serial : Serials] \cup {Empty}

ASSUME NoneAssumption == None \notin Rotators \cup Hosts \cup CertSecrets /\ None \notin Content
ASSUME SpecAssumption ==
    \A s \in Specs :
        /\ DOMAIN s = {"secrets", "secretName", "url", "subdomains", "security"}
        /\ s.url \in Url /\ s.subdomains \in SUBSET Url /\ s.security \in Security
        /\ s.secrets \in Seq([name : STRING, type : STRING])
ASSUME CertAssumption == \A d \in CertData : DOMAIN d = Files
ASSUME BoundAssumption ==
    /\ MaxDisturb \in Nat
    /\ Disturbances \subseteq {"fault", "crash", "edit", "certificates"}

VARIABLES
    spec,    \* the spec of each SecretRotator
    certs,   \* the data of each certificate secret; None if there is none
    files,   \* the files in the directory of each name
    docker,  \* the hosts and issuers in the docker secrets of each SecretRotator
    via,     \* the client that got their token
    \* the local variables of Reconcile
    pc,      \* the point the cycle has reached
    cur,     \* the SecretRotator being reconciled
    valid,   \* its spec, as validated: tokenDetails
    held,    \* its spec, as held by the cycle
    copied,  \* the certificate data HandleCerts has copied; None if it did not
    tok,     \* the host that has issued tokenDetails.Token
    client,  \* the client that got it
    \* history and environment
    named,   \* the certificate secrets each SecretRotator has ever named
    budget   \* disturbances that may still happen

local == <<pc, cur, valid, held, copied, tok, client>>
vars  == <<spec, certs, files, docker, via, local, named, budget>>

Disturb(kind) == kind \in Disturbances /\ budget > 0 /\ budget' = budget - 1

Fault == Disturb("fault")

-----------------------------------------------------------------------------
(* ValidateObjectSpec. *)

(* spec.secretName, if set, is one more docker secret. *)
GeneratedSecrets(s) ==
    s.secrets \o IF s.secretName = "" THEN <<>> ELSE <<[name |-> s.secretName, type |-> "docker"]>>

(* Mutant: seenNames is not looked at. *)
RefusedAnonymous(g, i) == g[i].name = "" \/ g[i].type \notin {"docker", "generic"}

(* The loop's three checks of an entry; seenNames holds the entries before. *)
Refused(g, i) ==
    \/ \E j \in 1..(i - 1) : g[j].name = g[i].name
    \/ g[i].name = ""
    \/ g[i].type \notin {"docker", "generic"}

(* Mutant: only one scheme is known. *)
StrippedHttps(u) == IF u.scheme = "https://" /\ u.host # "" THEN [u EXCEPT !.scheme = ""] ELSE u

(* The scheme is removed if anything follows it. *)
Stripped(u) == IF u.host = "" THEN u ELSE [u EXCEPT !.scheme = ""]

Accepts(s) ==
    /\ GeneratedSecrets(s) # <<>>
    /\ \A i \in DOMAIN GeneratedSecrets(s) : ~Refused(GeneratedSecrets(s), i)
    /\ s.url # [scheme |-> "", host |-> ""]

ValidateObjectSpec(r) ==
    /\ pc = "idle" /\ Accepts(spec[r])
    /\ pc' = "certs" /\ cur' = r /\ valid' = spec[r]
    /\ UNCHANGED <<spec, certs, files, docker, via, held, copied, tok, client, named, budget>>

(* Reconcile tries again in a second. *)
ValidateObjectSpecFails(r) == pc = "idle" /\ ~Accepts(spec[r]) /\ UNCHANGED vars

(* Reconcile returns: its local variables are gone. *)
Return ==
    /\ pc' = "idle" /\ cur' = None /\ valid' = None /\ held' = None
    /\ copied' = None /\ tok' = None /\ client' = None

-----------------------------------------------------------------------------
(* HandleCerts. *)

(* Mutant: one directory for all. *)
SharedDirectory(r) == NameOf[CHOOSE q \in Rotators : TRUE]

(* CustomCertificatePath + secretRotatorName. *)
Directory(r) == NameOf[r]

(* The files of d with those in F copied from the secret c. *)
Copied(d, c, F) ==
    [files EXCEPT ![d] = [f \in Files |-> IF f \in F THEN [from |-> c, serial |-> certs[c][f]] ELSE @[f]]]

Supplied(data) == {f \in Files : data[f] # None}

HandleCerts ==
    /\ pc = "certs"
    /\ \/ valid.security.mode # "on" /\ UNCHANGED <<files, copied>>
       \/ LET c == valid.security.secret
          IN  /\ valid.security.mode = "on" /\ certs[c] # None
              /\ files' = Copied(Directory(cur), c, Supplied(certs[c]))
              /\ copied' = certs[c]
    /\ pc' = "patch"
    /\ UNCHANGED <<spec, certs, docker, via, cur, valid, held, tok, client, named, budget>>

(* Mutant: a file that cannot be written is logged, like an unsupported key.*)
HandleCertsGoesOn ==
    LET c == valid.security.secret
    IN  /\ pc = "certs" /\ valid.security.mode = "on"
        /\ \/ certs[c] = None /\ Return /\ UNCHANGED <<files, budget>>
           \/ /\ certs[c] # None /\ Fault
              /\ \E F \in SUBSET Supplied(certs[c]) : files' = Copied(Directory(cur), c, F)
              /\ copied' = certs[c] /\ pc' = "patch"
              /\ UNCHANGED <<cur, valid, held, tok, client>>
        /\ UNCHANGED <<spec, certs, docker, via, named>>

(* There is no such secret, or one of the files cannot be created, or not   *)
(* written once it is; the map's order decides which ones come before it.   *)
HandleCertsFails ==
    LET c == valid.security.secret
        d == Directory(cur)
    IN  /\ pc = "certs" /\ valid.security.mode = "on"
        /\ \/ certs[c] = None /\ UNCHANGED <<files, budget>>
           \/ /\ certs[c] # None /\ Fault
              /\ \E f \in Supplied(certs[c]), F \in SUBSET Supplied(certs[c]) :
                    /\ f \notin F
                    /\ \/ files' = Copied(d, c, F)
                       \/ files' = [Copied(d, c, F) EXCEPT ![d][f] = Empty]
        /\ Return
        /\ UNCHANGED <<spec, certs, docker, via, named>>

(* The held object becomes the live one, spec included, unless the patch    *)
(* fails, which is only logged.                                             *)
DeferPatch ==
    /\ pc = "patch"
    /\ \/ held' = spec[cur] /\ UNCHANGED budget
       \/ Fault /\ held' = valid
    /\ pc' = "token"
    /\ UNCHANGED <<spec, certs, files, docker, via, cur, valid, copied, tok, client, named>>

-----------------------------------------------------------------------------
(* createArtifactoryToken. *)

Has(d, F) == \A f \in F : files[d][f] # None

(* The names of certificate and key, and of the authority, if there are any.*)
PairPaths(d) ==
    IF Has(d, {"tls.crt", "tls.key"}) THEN {"tls.crt", "tls.key"}
    ELSE IF Has(d, {"cert.pem", "key.pem"}) THEN {"cert.pem", "key.pem"} ELSE {}

CaPaths(d) == IF Has(d, {"ca.crt"}) THEN {"ca.crt"} ELSE IF Has(d, {"ca.pem"}) THEN {"ca.pem"} ELSE {}

Client(verifies, pair, ca) == [verifies |-> verifies, pair |-> pair, ca |-> ca]

(* pair and ca are the files' contents. *)
createCustomHTTPClient(s, d) ==
    IF s.mode = "on"
    THEN Client(TRUE, {files[d][f] : f \in PairPaths(d)}, {files[d][f] : f \in CaPaths(d)})
    ELSE Client(s.mode = "off", {}, {})

(* LoadX509KeyPair wants a key that fits the certificate; a client without  *)
(* any authority, which an empty file makes, trusts no host.                *)
Usable(c) == Cardinality(c.pair) <= 1 /\ Empty \notin c.pair \cup c.ca

(* Mutant: createCustomHTTPClient's error is not looked at. *)
HandlingTokenUnchecked ==
    /\ pc = "token"
    /\ Stripped(valid.url) \in [scheme : {""}, host : Hosts]
    /\ tok' = valid.url.host /\ client' = createCustomHTTPClient(held.security, Directory(cur))
    /\ pc' = "write"
    /\ UNCHANGED <<spec, certs, files, docker, via, cur, valid, held, copied, named, budget>>

(* The validated host, the held security settings. *)
HandlingToken ==
    LET c == createCustomHTTPClient(held.security, Directory(cur))
    IN  /\ pc = "token"
        /\ Usable(c) /\ Stripped(valid.url) \in [scheme : {""}, host : Hosts]
        /\ tok' = valid.url.host /\ client' = c
        /\ pc' = "write"
        /\ UNCHANGED <<spec, certs, files, docker, via, cur, valid, held, copied, named, budget>>

HandlingTokenFails ==
    /\ pc = "token"
    /\ \/ /\ \/ ~Usable(createCustomHTTPClient(held.security, Directory(cur)))
             \/ Stripped(valid.url) \notin [scheme : {""}, host : Hosts]
          /\ UNCHANGED budget
       \/ Fault
    /\ Return
    /\ UNCHANGED <<spec, certs, files, docker, via, named>>

-----------------------------------------------------------------------------
(* CreateOrUpdateSecrets. *)

(* The URL as users wrote it, and the subdomains. *)
generateDockerConfigJSON(s, t) == [host : {s.url} \cup s.subdomains, issuer : {t}]

HasDocker(s) == \E i \in DOMAIN GeneratedSecrets(s) : GeneratedSecrets(s)[i].type = "docker"

(* A write that fails leaves the old configuration.  Either way the cycle   *)
(* ends, whether or not its status can be updated, and another follows.     *)
CreateOrUpdateSecrets ==
    /\ pc = "write"
    /\ \/ /\ docker' = IF HasDocker(valid)
                       THEN [docker EXCEPT ![cur] = generateDockerConfigJSON(held, tok)]
                       ELSE docker
          /\ via' = [via EXCEPT ![cur] = client]
          /\ UNCHANGED budget
       \/ Fault /\ UNCHANGED <<docker, via>>
    /\ Return
    /\ UNCHANGED <<spec, certs, files, named>>

-----------------------------------------------------------------------------
(* The environment. *)

Naming(s) == IF s.security.mode = "on" THEN {s.security.secret} ELSE {}

ChangeSpec(r, s) ==
    /\ Disturb("edit") /\ s # spec[r]
    /\ spec' = [spec EXCEPT ![r] = s]
    /\ named' = [named EXCEPT ![r] = @ \cup Naming(s)]
    /\ UNCHANGED <<certs, files, docker, via, local>>

ChangeCertificates(c, d) ==
    /\ Disturb("certificates") /\ d # certs[c]
    /\ certs' = [certs EXCEPT ![c] = d]
    /\ UNCHANGED <<spec, files, docker, via, local, named>>

(* The container starts with no files, unless a volume is mounted there. *)
Crash ==
    /\ Disturb("crash")
    /\ files' \in {files, [d \in DOMAIN files |-> [f \in Files |-> None]]}
    /\ Return
    /\ UNCHANGED <<spec, certs, docker, via, named>>

-----------------------------------------------------------------------------
Init ==
    /\ \E s \in Specs : spec = [r \in Rotators |-> s]
    /\ \E d \in CertData : certs = [c \in CertSecrets |-> d]
    /\ files = [d \in {NameOf[r] : r \in Rotators} |-> [f \in Files |-> None]]
    /\ docker = [r \in Rotators |-> {}] /\ via = [r \in Rotators |-> None]
    /\ pc = "idle" /\ cur = None /\ valid = None /\ held = None
    /\ copied = None /\ tok = None /\ client = None
    /\ named = [r \in Rotators |-> Naming(spec[r])]
    /\ budget = MaxDisturb

Cycle ==
    \/ HandleCerts \/ HandleCertsFails
    \/ DeferPatch
    \/ HandlingToken \/ HandlingTokenFails
    \/ CreateOrUpdateSecrets

Environment ==
    \/ \E r \in Rotators, s \in Specs : ChangeSpec(r, s)
    \/ \E c \in CertSecrets, d \in CertData \cup {None} : ChangeCertificates(c, d)
    \/ Crash

Next ==
    \/ \E r \in Rotators : ValidateObjectSpec(r) \/ ValidateObjectSpecFails(r)
    \/ Cycle
    \/ Environment

Spec == Init /\ [][Next]_vars

(* Every SecretRotator is reconciled again and again, and a cycle goes on. *)
Fairness ==
    /\ \A r \in Rotators : SF_vars(ValidateObjectSpec(r))
    /\ WF_vars(Cycle)

FairSpec == Spec /\ Fairness

-----------------------------------------------------------------------------
(* Properties. *)

Clients == [verifies : BOOLEAN, pair : SUBSET Content, ca : SUBSET Content]

(* The shape of the state: a cycle past its token has a client that works.  *)
TypeOK ==
    /\ spec \in [Rotators -> Specs]
    /\ certs \in [CertSecrets -> CertData \cup {None}]
    /\ files \in [{NameOf[r] : r \in Rotators} -> [Files -> Content \cup {None}]]
    /\ docker \in [Rotators -> SUBSET [host : Url, issuer : Hosts]]
    /\ \A r \in Rotators : via[r] # None => via[r] \in Clients /\ Usable(via[r])
    /\ pc \in {"idle", "certs", "patch", "token", "write"}
    /\ cur \in Rotators \cup {None} /\ (pc = "idle" <=> cur = None)
    /\ valid \in Specs \cup {None} /\ (pc # "idle" => valid \in Specs)
    /\ held \in Specs \cup {None} /\ (pc \in {"token", "write"} => held \in Specs)
    /\ copied \in CertData \cup {None}
    /\ pc = "write" => tok \in Hosts /\ client \in Clients /\ Usable(client)
    /\ named \in [Rotators -> SUBSET CertSecrets]
    /\ budget \in 0..MaxDisturb

(* What the rest of the operator takes for granted of tokenDetails, however *)
(* specs are edited: the secrets to generate are a function from names to   *)
(* types, with spec.secretName among them, and there is at least one.       *)
SecretsAreFunction ==
    pc # "idle" =>
        LET g == {GeneratedSecrets(valid)[i] : i \in DOMAIN GeneratedSecrets(valid)}
        IN  /\ g # {} /\ g \subseteq [name : {x.name : x \in g} \ {""}, type : {"docker", "generic"}]
            /\ Cardinality({x.name : x \in g}) = Len(GeneratedSecrets(valid))
            /\ valid.secretName # "" => [name |-> valid.secretName, type |-> "docker"] \in g

(* The token is asked for with what the cycle has copied: a TLS pair that   *)
(* the secret supplies is the pair the client presents, and a ca.crt is the *)
(* authority it trusts, whatever earlier cycles have left.  A pair or an    *)
(* authority in .pem files is used as well, with one exception: if the      *)
(* directory has files with the names of a TLS secret, those take           *)
(* precedence, and they may be of an earlier cycle and outdated.  (All this *)
(* if the cycle copied any: it does not if verification was switched on     *)
(* after validation.)                                                       *)
CertificatesCurrent ==
    pc = "write" /\ copied # None /\ held.security.mode = "on" =>
        LET d == Directory(cur)
            Now(f) == [from |-> valid.security.secret, serial |-> copied[f]]
            Supplies(F) == F \subseteq Supplied(copied)
        IN  /\ Supplies({"tls.crt", "tls.key"}) => client.pair = {Now("tls.crt")}
            /\ Supplies({"ca.crt"}) => client.ca = {Now("ca.crt")}
            /\ Supplies({"cert.pem", "key.pem"}) =>
                  client.pair = {Now("cert.pem")} \/ Has(d, {"tls.crt", "tls.key"})
            /\ Supplies({"ca.pem"}) => client.ca = {Now("ca.pem")} \/ Has(d, {"ca.crt"})

(* SecretRotators of different names never use each other's certificates:   *)
(* what a client presents or trusts came out of a secret its own spec has   *)
(* named at some time.                                                      *)
OwnCertificates ==
    pc = "write" =>
        \A x \in client.pair \cup client.ca : x.from \in named[cur]

(* A spec and certificates that the documentation calls for, with the names *)
(* of a TLS secret.                                                         *)
WellConfigured(s) ==
    /\ Accepts(s) /\ HasDocker(s) /\ s.url.host # ""
    /\ s.security.mode = "on" =>
          LET data == certs[s.security.secret]
          IN  /\ data # None
              /\ {"tls.crt", "tls.key", "ca.crt"} \subseteq Supplied(data)
              /\ data["tls.crt"] = data["tls.key"]

Expected(s) ==
    LET c == s.security.secret
        Now(f) == [from |-> c, serial |-> certs[c][f]]
    IN  IF s.security.mode = "on"
        THEN Client(TRUE, {Now("tls.crt")}, {Now("ca.crt")})
        ELSE Client(s.security.mode = "off", {}, {})

(* When edits end, a well configured SecretRotator's docker secrets offer,  *)
(* for good and under every host of its spec, a token of the host of its    *)
(* spec, got with the certificates of its spec: no mixture of specs, failed *)
(* copy or left-over file lasts.                                            *)
AccessConverges ==
    \A r \in Rotators : <>[](WellConfigured(spec[r]) =>
        /\ docker[r] = [host : {spec[r].url} \cup spec[r].subdomains, issuer : {spec[r].url.host}]
        /\ via[r] = Expected(spec[r]))

=============================================================================
