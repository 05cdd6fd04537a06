------------------------ MODULE RegistryAccessProofs ------------------------
(***************************************************************************)
(* Theorems about RegistryAccess, for every set of SecretRotators, hosts,  *)
(* specs and certificate secrets and every number of disturbances.         *)
(***************************************************************************)
EXTENDS RegistryAccess, FiniteSetTheorems, SequenceTheorems, TLAPS

Names == {NameOf[r] : r \in Rotators}

-----------------------------------------------------------------------------
(* Type correctness. *)

ClusterTypes ==
    /\ spec \in [Rotators -> Specs]
    /\ certs \in [CertSecrets -> CertData \cup {None}]
    /\ files \in [Names -> [Files -> Content \cup {None}]]
    /\ docker \in [Rotators -> SUBSET [host : Url, issuer : Hosts]]
    /\ \A r \in Rotators : via[r] # None => via[r] \in Clients /\ Usable(via[r])
    /\ named \in [Rotators -> SUBSET CertSecrets]
    /\ budget \in 0..MaxDisturb

CycleTypes ==
    /\ pc \in {"idle", "certs", "patch", "token", "write"}
    /\ cur \in Rotators \cup {None} /\ (pc = "idle" <=> cur = None)
    /\ valid \in Specs \cup {None} /\ (pc # "idle" => valid \in Specs)
    /\ held \in Specs \cup {None} /\ (pc \in {"token", "write"} => held \in Specs)
    /\ copied \in CertData \cup {None}
    /\ pc = "write" => tok \in Hosts /\ client \in Clients /\ Usable(client)

(* via is a function, which its type alone does not say. *)
TypeInv == ClusterTypes /\ CycleTypes /\ via = [r \in Rotators |-> via[r]]

LEMMA TypeInvTypeOK == TypeInv => TypeOK
  BY DEF TypeInv, ClusterTypes, CycleTypes, TypeOK, Names

LEMMA SpecType ==
    ASSUME NEW s \in Specs
    PROVE  /\ s.url \in Url /\ s.subdomains \subseteq Url /\ s.security \in Security
           /\ s.security.secret \in CertSecrets /\ s.security.mode \in {"off", "skip", "on"}
           /\ Naming(s) \subseteq CertSecrets
  BY SpecAssumption DEF Security, Naming

LEMMA DisturbBudget == ASSUME budget \in 0..MaxDisturb, NEW kind, Disturb(kind) PROVE budget' \in 0..MaxDisturb
  BY BoundAssumption DEF Disturb

LEMMA ReturnTypes == Return => CycleTypes'
  BY DEF Return, CycleTypes

LEMMA DirectoryType == ASSUME NEW r \in Rotators PROVE Directory(r) \in Names
  BY DEF Directory, Names

(* What a copy leaves in the directory: the files of F, and the others as   *)
(* they were.                                                               *)
LEMMA CopiedFiles ==
    ASSUME files \in [Names -> [Files -> Content \cup {None}]],
           certs \in [CertSecrets -> CertData \cup {None}],
           NEW d \in Names, NEW c \in CertSecrets, certs[c] # None, NEW F \in SUBSET Supplied(certs[c])
    PROVE  /\ Copied(d, c, F) \in [Names -> [Files -> Content \cup {None}]]
           /\ \A f \in F : Copied(d, c, F)[d][f] = [from |-> c, serial |-> certs[c][f]]
           /\ \A f \in Files \ F : Copied(d, c, F)[d][f] = files[d][f]
           /\ \A e \in Names \ {d} : Copied(d, c, F)[e] = files[e]
<1> DEFINE new == [f \in Files |-> IF f \in F THEN [from |-> c, serial |-> certs[c][f]] ELSE files[d][f]]
<1>1. ASSUME NEW f \in F PROVE f \in Files /\ [from |-> c, serial |-> certs[c][f]] \in Content
  BY <1>1 DEF Supplied, Content, Serials
<1>2. new \in [Files -> Content \cup {None}]
  BY <1>1
<1>3. Copied(d, c, F) = [files EXCEPT ![d] = new]
  BY DEF Copied
<1> HIDE DEF new
<1>4. Copied(d, c, F)[d] = new /\ \A e \in Names \ {d} : Copied(d, c, F)[e] = files[e]
  BY <1>3
<1>5. Copied(d, c, F) \in [Names -> [Files -> Content \cup {None}]]
  BY <1>2, <1>3
<1> QED
  BY <1>1, <1>4, <1>5 DEF new

LEMMA EmptiedFiles ==
    ASSUME NEW g \in [Names -> [Files -> Content \cup {None}]], NEW d \in Names, NEW f \in Files
    PROVE  /\ [g EXCEPT ![d][f] = Empty] \in [Names -> [Files -> Content \cup {None}]]
           /\ \A e \in Names, x \in Files :
                 [g EXCEPT ![d][f] = Empty][e][x] \in {g[e][x], Empty}
  BY DEF Content

LEMMA ClientType ==
    ASSUME ClusterTypes, NEW s \in Security, NEW d \in Names
    PROVE  createCustomHTTPClient(s, d) \in Clients
<1>1. PairPaths(d) \subseteq Files /\ CaPaths(d) \subseteq Files
  BY DEF PairPaths, CaPaths, Files
<1>2. \A f \in PairPaths(d) \cup CaPaths(d) : files[d][f] # None
  BY DEF PairPaths, CaPaths, Has
<1>3. \A f \in PairPaths(d) \cup CaPaths(d) : files[d][f] \in Content
  BY <1>1, <1>2 DEF ClusterTypes
<1> QED
  BY <1>3 DEF createCustomHTTPClient, Client, Clients

LEMMA InitTypeInv == Init => TypeInv
<1> SUFFICES ASSUME Init PROVE TypeInv
  OBVIOUS
<1>1. named \in [Rotators -> SUBSET CertSecrets]
  BY SpecType DEF Init
<1>2. budget \in 0..MaxDisturb
  BY BoundAssumption DEF Init
<1>3. files \in [Names -> [Files -> Content \cup {None}]]
  BY DEF Init, Names
<1> QED
  BY <1>1, <1>2, <1>3 DEF Init, TypeInv, ClusterTypes, CycleTypes

LEMMA HandleCertsTypes ==
    ASSUME TypeInv, HandleCerts \/ HandleCertsFails
    PROVE  TypeInv'
<1> USE DEF TypeInv
<1> DEFINE c == valid.security.secret
           d == Directory(cur)
<1>1. pc = "certs" /\ cur \in Rotators /\ valid \in Specs
  BY DEF HandleCerts, HandleCertsFails, CycleTypes
<1>2. c \in CertSecrets /\ d \in Names
  BY <1>1, SpecType, DirectoryType
<1>3. CASE HandleCerts
  <2>1. \/ UNCHANGED <<files, copied>>
        \/ certs[c] # None /\ files' = Copied(d, c, Supplied(certs[c])) /\ copied' = certs[c]
    BY <1>3 DEF HandleCerts
  <2>2. files' \in [Names -> [Files -> Content \cup {None}]] /\ copied' \in CertData \cup {None}
    BY <1>2, <2>1, CopiedFiles DEF ClusterTypes, CycleTypes
  <2> QED
    BY <1>1, <1>3, <2>2 DEF HandleCerts, ClusterTypes, CycleTypes
<1>4. CASE HandleCertsFails
  <2>1. \/ UNCHANGED files
        \/ certs[c] # None /\ \E f \in Supplied(certs[c]), F \in SUBSET Supplied(certs[c]) :
              \/ files' = Copied(d, c, F)
              \/ files' = [Copied(d, c, F) EXCEPT ![d][f] = Empty]
    BY <1>4 DEF HandleCertsFails
  <2>2. files' \in [Names -> [Files -> Content \cup {None}]]
    <3>1. CASE UNCHANGED files
      BY <3>1 DEF ClusterTypes
    <3>2. ASSUME certs[c] # None, NEW f \in Supplied(certs[c]), NEW F \in SUBSET Supplied(certs[c]),
                 files' = Copied(d, c, F) \/ files' = [Copied(d, c, F) EXCEPT ![d][f] = Empty]
          PROVE  files' \in [Names -> [Files -> Content \cup {None}]]
      <4> HIDE DEF c, d
      <4>1. Copied(d, c, F) \in [Names -> [Files -> Content \cup {None}]]
        BY <1>2, <3>2, CopiedFiles DEF ClusterTypes
      <4>2. f \in Files
        BY <3>2 DEF Supplied
      <4> QED
        BY <1>2, <3>2, <4>1, <4>2, EmptiedFiles
    <3> QED
      BY <2>1, <3>1, <3>2
  <2>3. /\ Return /\ UNCHANGED <<spec, certs, docker, via, named>>
        /\ UNCHANGED budget \/ Fault
    BY <1>4 DEF HandleCertsFails
  <2>4. budget' \in 0..MaxDisturb
    BY <2>3, DisturbBudget DEF Fault, ClusterTypes
  <2> QED
    BY <2>2, <2>3, <2>4, ReturnTypes DEF ClusterTypes
<1> QED
  BY <1>3, <1>4

LEMMA TokenTypes ==
    ASSUME TypeInv, DeferPatch \/ HandlingToken \/ HandlingTokenFails
    PROVE  TypeInv'
<1> USE DEF TypeInv
<1>1. CASE DeferPatch
  <2>1. pc = "patch" /\ pc' = "token" /\ cur \in Rotators /\ valid \in Specs /\ held' \in Specs
    BY <1>1 DEF DeferPatch, CycleTypes, ClusterTypes
  <2>2. budget' \in 0..MaxDisturb
    BY <1>1, DisturbBudget DEF DeferPatch, Fault, ClusterTypes
  <2> QED
    BY <1>1, <2>1, <2>2 DEF DeferPatch, ClusterTypes, CycleTypes
<1>2. CASE HandlingToken
  <2>1. pc = "token" /\ cur \in Rotators /\ held \in Specs /\ valid \in Specs
    BY <1>2 DEF HandlingToken, CycleTypes
  <2>2. client' \in Clients /\ Usable(client')
    BY <1>2, <2>1, ClientType, SpecType, DirectoryType DEF HandlingToken
  <2>3. tok' \in Hosts
    <3>1. valid.url \in Url /\ tok' = valid.url.host /\ Stripped(valid.url).host \in Hosts
      BY <1>2, <2>1, SpecType DEF HandlingToken
    <3> QED
      BY <3>1 DEF Stripped, Url
  <2> QED
    BY <1>2, <2>1, <2>2, <2>3 DEF HandlingToken, ClusterTypes, CycleTypes
<1>3. CASE HandlingTokenFails
  <2>1. budget' \in 0..MaxDisturb
    BY <1>3, DisturbBudget DEF HandlingTokenFails, Fault, ClusterTypes
  <2> QED
    BY <1>3, <2>1, ReturnTypes DEF HandlingTokenFails, ClusterTypes
<1> QED
  BY <1>1, <1>2, <1>3

LEMMA WriteTypes ==
    ASSUME TypeInv, CreateOrUpdateSecrets
    PROVE  TypeInv'
<1> USE DEF TypeInv
<1>1. /\ pc = "write" /\ cur \in Rotators /\ held \in Specs /\ tok \in Hosts
      /\ client \in Clients /\ Usable(client)
  BY DEF CreateOrUpdateSecrets, CycleTypes
<1>2. generateDockerConfigJSON(held, tok) \in SUBSET [host : Url, issuer : Hosts]
  BY <1>1, SpecType DEF generateDockerConfigJSON
<1>3. docker' \in [Rotators -> SUBSET [host : Url, issuer : Hosts]]
  BY <1>1, <1>2 DEF CreateOrUpdateSecrets, ClusterTypes
<1>4. via' = via \/ via' = [via EXCEPT ![cur] = client]
  BY DEF CreateOrUpdateSecrets
<1>5. /\ via' = [r \in Rotators |-> via'[r]]
      /\ \A r \in Rotators : via'[r] # None => via'[r] \in Clients /\ Usable(via'[r])
  BY <1>1, <1>4 DEF ClusterTypes
<1>6. budget' \in 0..MaxDisturb
  BY DisturbBudget DEF CreateOrUpdateSecrets, Fault, ClusterTypes
<1>7. CycleTypes'
  BY ReturnTypes DEF CreateOrUpdateSecrets
<1> QED
  BY <1>3, <1>5, <1>6, <1>7 DEF CreateOrUpdateSecrets, ClusterTypes, Usable

LEMMA EnvironmentTypes ==
    ASSUME TypeInv, Environment
    PROVE  TypeInv'
<1> USE DEF TypeInv
<1>1. ASSUME NEW r \in Rotators, NEW s \in Specs, ChangeSpec(r, s) PROVE TypeInv'
  <2>1. named' \in [Rotators -> SUBSET CertSecrets]
    BY <1>1, SpecType DEF ChangeSpec, ClusterTypes
  <2>2. budget' \in 0..MaxDisturb
    BY <1>1, DisturbBudget DEF ChangeSpec, ClusterTypes
  <2> QED
    BY <1>1, <2>1, <2>2 DEF ChangeSpec, ClusterTypes, CycleTypes, local
<1>2. ASSUME NEW c \in CertSecrets, NEW d \in CertData \cup {None}, ChangeCertificates(c, d) PROVE TypeInv'
  <2>1. budget' \in 0..MaxDisturb
    BY <1>2, DisturbBudget DEF ChangeCertificates, ClusterTypes
  <2> QED
    BY <1>2, <2>1 DEF ChangeCertificates, ClusterTypes, CycleTypes, local
<1>3. CASE Crash
  <2>1. budget' \in 0..MaxDisturb
    BY <1>3, DisturbBudget DEF Crash, ClusterTypes
  <2>2. files' \in [Names -> [Files -> Content \cup {None}]]
    BY <1>3 DEF Crash, ClusterTypes
  <2> QED
    BY <1>3, <2>1, <2>2, ReturnTypes DEF Crash, ClusterTypes
<1> QED
  BY <1>1, <1>2, <1>3 DEF Environment

LEMMA NextTypeInv == TypeInv /\ [Next]_vars => TypeInv'
<1> SUFFICES ASSUME TypeInv, [Next]_vars PROVE TypeInv'
  OBVIOUS
<1>1. ASSUME NEW r \in Rotators, ValidateObjectSpec(r) PROVE TypeInv'
  BY <1>1, NoneAssumption DEF TypeInv, ValidateObjectSpec, ClusterTypes, CycleTypes
<1>2. CASE UNCHANGED vars
  BY <1>2 DEF vars, local, TypeInv, ClusterTypes, CycleTypes
<1> QED
  BY <1>1, <1>2, HandleCertsTypes, TokenTypes, WriteTypes, EnvironmentTypes
  DEF Next, Cycle, ValidateObjectSpecFails

LEMMA TypeInvHolds == Spec => []TypeInv
  BY InitTypeInv, NextTypeInv, PTL DEF Spec

(* In every reachable state specs, files, clients and docker configurations *)
(* are well formed; in particular a cycle past HandlingToken has a token of *)
(* a host that serves Artifactory, got by a client that works.              *)
THEOREM TypeCorrect == Spec => []TypeOK
  BY TypeInvHolds, TypeInvTypeOK, PTL

-----------------------------------------------------------------------------
(* Certificates of others.  The property is about the client of a cycle;    *)
(* the invariant behind it is about the files it is built from, which       *)
(* outlive cycles: what lies in a directory came out of a secret that every *)
(* SecretRotator of that name has named, and what a cycle is about to copy, *)
(* out of one that its own spec has named.                                  *)

Foreign(x, r) == x \notin {None, Empty} /\ x.from \notin named[r]

OwnFiles == \A r \in Rotators, f \in Files : ~Foreign(files[Directory(r)][f], r)

OwnSpecs ==
    /\ \A r \in Rotators : Naming(spec[r]) \subseteq named[r]
    /\ pc # "idle" => Naming(valid) \subseteq named[cur]

OwnClient == pc = "write" => \A x \in client.pair \cup client.ca : x.from \in named[cur]

IsolationInv == TypeInv /\ OwnFiles /\ OwnSpecs /\ OwnClient

NamesAreUnique == \A r, q \in Rotators : NameOf[r] = NameOf[q] => r = q

LEMMA DirectoriesDiffer ==
    ASSUME NamesAreUnique, NEW r \in Rotators, NEW q \in Rotators, Directory(r) = Directory(q)
    PROVE  r = q
  BY DEF NamesAreUnique, Directory

LEMMA InitIsolation == Init => IsolationInv
<1> SUFFICES ASSUME Init PROVE IsolationInv
  OBVIOUS
<1>1. OwnFiles
  <2>1. \A r \in Rotators : Directory(r) \in {NameOf[q] : q \in Rotators}
    BY DEF Directory
  <2> QED
    BY <2>1 DEF Init, OwnFiles, Foreign
<1>2. OwnSpecs /\ OwnClient
  BY DEF Init, OwnSpecs, OwnClient
<1> QED
  BY <1>1, <1>2, InitTypeInv DEF IsolationInv

LEMMA CopyIsolation ==
    ASSUME NamesAreUnique, IsolationInv, HandleCerts \/ HandleCertsFails
    PROVE  OwnFiles'
<1> DEFINE c == valid.security.secret
           d == Directory(cur)
<1>1. /\ pc = "certs" /\ cur \in Rotators /\ valid \in Specs /\ ClusterTypes
      /\ UNCHANGED named
  BY DEF HandleCerts, HandleCertsFails, IsolationInv, TypeInv, CycleTypes
<1>2. c \in CertSecrets /\ d \in Names
  BY <1>1, SpecType, DirectoryType
<1>3. CASE UNCHANGED files
  BY <1>1, <1>3 DEF IsolationInv, OwnFiles, Foreign
<1>4. ASSUME valid.security.mode = "on", certs[c] # None, NEW F \in SUBSET Supplied(certs[c]),
             \/ files' = Copied(d, c, F)
             \/ \E f \in Supplied(certs[c]) : files' = [Copied(d, c, F) EXCEPT ![d][f] = Empty]
      PROVE  OwnFiles'
  <2>1. c \in named[cur]
    BY <1>1, <1>4 DEF IsolationInv, OwnSpecs, Naming
  <2> HIDE DEF c, d
  <2> DEFINE g == Copied(d, c, F)
  <2>2. /\ g \in [Names -> [Files -> Content \cup {None}]]
        /\ \A f \in F : g[d][f] = [from |-> c, serial |-> certs[c][f]]
        /\ \A f \in Files \ F : g[d][f] = files[d][f]
        /\ \A e \in Names \ {d} : g[e] = files[e]
    BY <1>1, <1>2, <1>4, CopiedFiles DEF ClusterTypes
  <2> HIDE DEF g
  <2>3. ASSUME NEW r \in Rotators, NEW f \in Files PROVE ~Foreign(g[Directory(r)][f], r)
    <3>1. Directory(r) \in Names
      BY DirectoryType
    <3>2. CASE Directory(r) # d
      BY <2>2, <3>1, <3>2 DEF IsolationInv, OwnFiles
    <3>3. CASE Directory(r) = d /\ f \in F
      <4>1. r = cur
        BY <1>1, <3>3, DirectoriesDiffer DEF d
      <4>2. g[Directory(r)][f] = [from |-> c, serial |-> certs[c][f]]
        BY <2>2, <3>3
      <4>3. g[Directory(r)][f].from \in named[r]
        BY <2>1, <4>1, <4>2
      <4> QED
        BY <4>3 DEF Foreign
    <3>4. CASE Directory(r) = d /\ f \notin F
      BY <2>2, <3>4 DEF IsolationInv, OwnFiles
    <3> QED
      BY <3>2, <3>3, <3>4
  <2>4. \A e \in Names, x \in Files : files'[e][x] \in {g[e][x], Empty}
    <3>1. CASE files' = g
      BY <3>1
    <3>2. ASSUME NEW f \in Supplied(certs[c]), files' = [g EXCEPT ![d][f] = Empty]
          PROVE  \A e \in Names, x \in Files : files'[e][x] \in {g[e][x], Empty}
      <4>1. f \in Files
        BY DEF Supplied
      <4> QED
        BY <1>2, <2>2, <3>2, <4>1, EmptiedFiles
    <3> QED
      BY <1>4, <3>1, <3>2 DEF g
  <2>5. ASSUME NEW r \in Rotators, NEW f \in Files PROVE ~Foreign(files'[Directory(r)][f], r)
    BY <2>3, <2>4, DirectoryType DEF Foreign
  <2> QED
    BY <1>1, <2>5 DEF OwnFiles, Foreign, Directory
<1> QED
  BY <1>3, <1>4 DEF HandleCerts, HandleCertsFails

LEMMA TokenIsolation ==
    ASSUME IsolationInv, HandlingToken
    PROVE  OwnClient'
<1> DEFINE d == Directory(cur)
<1>1. /\ pc = "token" /\ cur \in Rotators /\ UNCHANGED <<cur, named>>
      /\ client' = createCustomHTTPClient(held.security, d) /\ Usable(client')
  BY DEF HandlingToken, IsolationInv, TypeInv, CycleTypes
<1>2. PairPaths(d) \subseteq Files /\ CaPaths(d) \subseteq Files
  BY DEF PairPaths, CaPaths, Files
<1>3. \A f \in PairPaths(d) \cup CaPaths(d) : files[d][f] # None
  BY DEF PairPaths, CaPaths, Has
<1>4. ASSUME NEW x \in client'.pair \cup client'.ca PROVE x.from \in named[cur]
  <2>1. PICK f \in PairPaths(d) \cup CaPaths(d) : x = files[d][f]
    BY <1>1, <1>4 DEF createCustomHTTPClient, Client
  <2>2. x # Empty
    BY <1>1, <1>4 DEF Usable
  <2> QED
    BY <1>1, <1>2, <1>3, <2>1, <2>2 DEF IsolationInv, OwnFiles, Foreign
<1> QED
  BY <1>1, <1>4 DEF OwnClient

LEMMA NextIsolation ==
    ASSUME NamesAreUnique, IsolationInv, [Next]_vars
    PROVE  IsolationInv'
<1>1. TypeInv /\ TypeInv'
  BY NextTypeInv DEF IsolationInv
<1>2. ASSUME NEW r \in Rotators, ValidateObjectSpec(r) PROVE IsolationInv'
  BY <1>1, <1>2 DEF ValidateObjectSpec, IsolationInv, OwnFiles, Foreign, OwnSpecs, OwnClient, Directory
<1>3. CASE HandleCerts \/ HandleCertsFails
  <2>1. UNCHANGED <<spec, named>> /\ pc' # "write" /\ (pc' # "idle" => UNCHANGED <<cur, valid>> /\ pc # "idle")
    BY <1>3 DEF HandleCerts, HandleCertsFails, Return
  <2>2. OwnSpecs' /\ OwnClient'
    BY <2>1 DEF IsolationInv, OwnSpecs, OwnClient
  <2> QED
    BY <1>1, <1>3, <2>2, CopyIsolation DEF IsolationInv
<1>4. CASE HandlingToken
  <2>1. UNCHANGED <<spec, files, named, cur, valid>> /\ pc # "idle"
    BY <1>4 DEF HandlingToken
  <2>2. OwnSpecs' /\ OwnFiles'
    BY <2>1 DEF IsolationInv, OwnSpecs, OwnFiles, Foreign, Directory
  <2> QED
    BY <1>1, <1>4, <2>2, TokenIsolation DEF IsolationInv
<1>5. CASE DeferPatch
  BY <1>1, <1>5 DEF DeferPatch, IsolationInv, OwnFiles, Foreign, OwnSpecs, OwnClient, Directory
<1>6. CASE HandlingTokenFails \/ CreateOrUpdateSecrets
  <2>1. UNCHANGED <<spec, files, named>> /\ pc' = "idle"
    BY <1>6 DEF HandlingTokenFails, CreateOrUpdateSecrets, Return
  <2> QED
    BY <1>1, <2>1 DEF IsolationInv, OwnFiles, Foreign, OwnSpecs, OwnClient, Directory
<1>7. ASSUME NEW r \in Rotators, NEW s \in Specs, ChangeSpec(r, s) PROVE IsolationInv'
  <2>1. /\ spec' = [spec EXCEPT ![r] = s] /\ named' = [named EXCEPT ![r] = @ \cup Naming(s)]
        /\ UNCHANGED <<files, pc, cur, valid, client>>
    BY <1>7 DEF ChangeSpec, local
  <2>2. \A q \in Rotators : named[q] \subseteq named'[q]
    BY <1>1, <2>1 DEF TypeInv, ClusterTypes
  <2>3. OwnFiles'
    BY <2>1, <2>2 DEF IsolationInv, OwnFiles, Foreign, Directory
  <2>4. cur \in Rotators \/ pc = "idle"
    BY <1>1 DEF TypeInv, CycleTypes
  <2>5. OwnSpecs'
    BY <1>1, <2>1, <2>2, <2>4 DEF IsolationInv, OwnSpecs, TypeInv, ClusterTypes
  <2>6. OwnClient'
    BY <2>1, <2>2, <2>4 DEF IsolationInv, OwnClient
  <2> QED
    BY <1>1, <2>3, <2>5, <2>6 DEF IsolationInv
<1>8. ASSUME NEW c, NEW data, ChangeCertificates(c, data) PROVE IsolationInv'
  BY <1>1, <1>8 DEF ChangeCertificates, IsolationInv, OwnFiles, Foreign, OwnSpecs, OwnClient, local, Directory
<1>9. CASE Crash
  <2>1. UNCHANGED <<spec, named>> /\ pc' = "idle"
    BY <1>9 DEF Crash, Return
  <2>2. \A d \in Names, f \in Files : files'[d][f] \in {files[d][f], None}
    BY <1>1, <1>9 DEF Crash, TypeInv, ClusterTypes
  <2>3. OwnFiles'
    BY <2>1, <2>2, DirectoryType DEF IsolationInv, OwnFiles, Foreign, Directory
  <2> QED
    BY <1>1, <2>1, <2>3 DEF IsolationInv, OwnSpecs, OwnClient
<1>10. CASE UNCHANGED vars
  BY <1>1, <1>10 DEF vars, local, IsolationInv, OwnFiles, Foreign, OwnSpecs, OwnClient, Directory
<1> QED
  BY <1>2, <1>3, <1>4, <1>5, <1>6, <1>7, <1>8, <1>9, <1>10
  DEF Next, Cycle, Environment, ValidateObjectSpecFails

(* SecretRotators of different names never present or trust each other's    *)
(* certificates, although the files HandleCerts writes are never removed:   *)
(* through every edit, failed copy, mixture of specs and restart, whatever  *)
(* createCustomHTTPClient loads came out of a secret the SecretRotator's    *)
(* own spec has named.                                                      *)
THEOREM CertificateIsolation ==
    ASSUME NamesAreUnique
    PROVE  Spec => []OwnCertificates
<1>1. IsolationInv => OwnCertificates
  BY DEF IsolationInv, OwnClient, OwnCertificates
<1> QED
  BY <1>1, InitIsolation, NextIsolation, PTL DEF Spec

-----------------------------------------------------------------------------
(* Certificates of today.  Between the copy and the request the files the   *)
(* secret has supplied stay as they are, because there is one worker; the   *)
(* client is the one of these files.                                        *)

CopiedFilesKept ==
    /\ pc \in {"idle", "certs"} => copied = None
    /\ copied # None =>
         \A f \in Supplied(copied) :
             files[Directory(cur)][f] = [from |-> valid.security.secret, serial |-> copied[f]]

ClientOfFiles == pc = "write" => client = createCustomHTTPClient(held.security, Directory(cur))

CurrentInv == TypeInv /\ CopiedFilesKept /\ ClientOfFiles

LEMMA ClientKept ==
    ASSUME CurrentInv, [Next]_vars
    PROVE  ClientOfFiles'
<1>1. CASE pc' # "write"
  BY <1>1 DEF ClientOfFiles
<1>2. CASE HandlingToken
  <2>1. /\ client' = createCustomHTTPClient(held.security, Directory(cur))
        /\ UNCHANGED <<files, held, cur>>
    BY <1>2 DEF HandlingToken
  <2> QED
    BY <2>1 DEF ClientOfFiles, createCustomHTTPClient, PairPaths, CaPaths, Has, Directory
<1>3. CASE UNCHANGED <<pc, client, held, cur, files>>
  <2>1. CASE pc = "write"
    <3>1. client = createCustomHTTPClient(held.security, Directory(cur))
      BY <2>1 DEF CurrentInv, ClientOfFiles
    <3>2. client' = client /\ files' = files /\ held' = held /\ cur' = cur
      BY <1>3
    <3> QED
      BY <3>1, <3>2 DEF ClientOfFiles, createCustomHTTPClient, PairPaths, CaPaths, Has, Directory
  <2> QED
    BY <1>1, <1>3, <2>1
<1> QED
  BY <1>1, <1>2, <1>3
  DEF Next, Cycle, Environment, ValidateObjectSpec, ValidateObjectSpecFails, HandleCerts,
      HandleCertsFails, DeferPatch, HandlingTokenFails, CreateOrUpdateSecrets, ChangeSpec,
      ChangeCertificates, Crash, Return, vars, local

LEMMA NextCurrentInv == CurrentInv /\ [Next]_vars => CurrentInv'
<1> SUFFICES ASSUME CurrentInv, [Next]_vars PROVE CurrentInv'
  OBVIOUS
<1>1. TypeInv /\ TypeInv' /\ ClientOfFiles'
  BY NextTypeInv, ClientKept DEF CurrentInv
<1>2. CASE Return
  BY <1>1, <1>2 DEF Return, CurrentInv, CopiedFilesKept
<1>3. CASE HandleCerts
  <2> DEFINE c == valid.security.secret
             d == Directory(cur)
  <2>1. pc = "certs" /\ cur \in Rotators /\ valid \in Specs /\ UNCHANGED <<cur, valid>> /\ pc' = "patch"
    BY <1>1, <1>3 DEF HandleCerts, TypeInv, CycleTypes
  <2>2. c \in CertSecrets /\ d \in Names
    BY <2>1, SpecType, DirectoryType
  <2>3. \/ UNCHANGED copied
        \/ certs[c] # None /\ files' = Copied(d, c, Supplied(certs[c])) /\ copied' = certs[c]
    BY <1>3 DEF HandleCerts
  <2>4. CASE UNCHANGED copied
    BY <1>1, <2>1, <2>4 DEF CurrentInv, CopiedFilesKept
  <2>5. CASE certs[c] # None /\ files' = Copied(d, c, Supplied(certs[c])) /\ copied' = certs[c]
    <3>1. \A f \in Supplied(certs[c]) : files'[d][f] = [from |-> c, serial |-> certs[c][f]]
      <4>1. Supplied(certs[c]) \in SUBSET Supplied(certs[c])
        OBVIOUS
      <4> HIDE DEF c, d
      <4> QED
        BY <1>1, <2>2, <2>5, <4>1, CopiedFiles DEF TypeInv, ClusterTypes
    <3>2. \A f \in Supplied(copied') :
             files'[Directory(cur')][f] = [from |-> valid'.security.secret, serial |-> copied'[f]]
      BY <2>1, <2>5, <3>1
    <3> QED
      BY <1>1, <2>1, <3>2 DEF CurrentInv, CopiedFilesKept, Supplied, Directory
  <2> QED
    BY <2>3, <2>4, <2>5
<1>4. CASE UNCHANGED <<copied, files>> /\ (pc # "idle" => UNCHANGED <<cur, valid>>)
           /\ (pc' \in {"idle", "certs"} => pc \in {"idle", "certs"})
  BY <1>1, <1>4 DEF CurrentInv, CopiedFilesKept, Supplied, Directory
<1> QED
  BY <1>2, <1>3, <1>4
  DEF Next, Cycle, Environment, ValidateObjectSpec, ValidateObjectSpecFails, HandleCertsFails,
      DeferPatch, HandlingToken, HandlingTokenFails, CreateOrUpdateSecrets, ChangeSpec,
      ChangeCertificates, Crash, vars, local

(* A pair that works is one certificate with its own key. *)
LEMMA PairOfOne ==
    ASSUME NEW a, NEW b, Cardinality({a, b}) <= 1
    PROVE  {a, b} = {a}
<1>1. SUFFICES ASSUME a # b PROVE FALSE
  OBVIOUS
<1>2. IsFiniteSet({a}) /\ Cardinality({a}) = 1
  BY FS_Singleton
<1>3. Cardinality({a} \cup {b}) = Cardinality({a}) + 1
  BY <1>1, <1>2, FS_AddElement
<1>4. {a} \cup {b} = {a, b}
  OBVIOUS
<1> QED
  BY <1>2, <1>3, <1>4

(* Whatever is edited in mid-cycle, whatever fails and whatever an earlier  *)
(* cycle has left in the directory, a cycle that has copied a TLS pair or a *)
(* ca.crt asks for its token with those, and one that has copied .pem files *)
(* with those, unless the directory has files of the other names: that is   *)
(* the only case in which outdated certificates are used.                   *)
THEOREM CertificatesAreCurrent == Spec => []CertificatesCurrent
<1>1. Init => CurrentInv
  BY InitTypeInv DEF Init, CurrentInv, CopiedFilesKept, ClientOfFiles
<1>2. CurrentInv => CertificatesCurrent
  <2> SUFFICES ASSUME CurrentInv, pc = "write", copied # None, held.security.mode = "on"
               PROVE  CertificatesCurrent
    BY DEF CertificatesCurrent
  <2> DEFINE d == Directory(cur)
             Now(f) == [from |-> valid.security.secret, serial |-> copied[f]]
  <2>1. /\ client.pair = {files[d][f] : f \in PairPaths(d)}
        /\ client.ca = {files[d][f] : f \in CaPaths(d)}
        /\ Cardinality(client.pair) <= 1
    BY DEF CurrentInv, ClientOfFiles, createCustomHTTPClient, Client, TypeInv, CycleTypes, Usable
  <2>2. ASSUME NEW f \in Supplied(copied) PROVE files[d][f] = Now(f) /\ files[d][f] # None
    <3>1. valid \in Specs /\ copied \in CertData
      BY DEF CurrentInv, TypeInv, CycleTypes
    <3>2. valid.security.secret \in CertSecrets /\ copied[f] \in Serials
      BY <3>1, SpecType DEF Supplied, Serials
    <3>3. Now(f) \in Content
      BY <3>2 DEF Content
    <3> QED
      BY <3>3, NoneAssumption DEF CurrentInv, CopiedFilesKept
  <2> HIDE DEF d, Now
  <2>3. ASSUME {"tls.crt", "tls.key"} \subseteq Supplied(copied)
        PROVE  client.pair = {Now("tls.crt")}
    <3>1. PairPaths(d) = {"tls.crt", "tls.key"}
      BY <2>2, <2>3 DEF PairPaths, Has
    <3>2. client.pair = {files[d]["tls.crt"], files[d]["tls.key"]}
      BY <2>1, <3>1
    <3>3. client.pair = {files[d]["tls.crt"]}
      BY <2>1, <3>2, PairOfOne
    <3> QED
      BY <2>2, <2>3, <3>3
  <2>4. ASSUME {"ca.crt"} \subseteq Supplied(copied)
        PROVE  client.ca = {Now("ca.crt")}
    <3>1. CaPaths(d) = {"ca.crt"}
      BY <2>2, <2>4 DEF CaPaths, Has
    <3> QED
      BY <2>1, <2>2, <2>4, <3>1
  <2>5. ASSUME {"cert.pem", "key.pem"} \subseteq Supplied(copied), ~Has(d, {"tls.crt", "tls.key"})
        PROVE  client.pair = {Now("cert.pem")}
    <3>1. PairPaths(d) = {"cert.pem", "key.pem"}
      BY <2>2, <2>5 DEF PairPaths, Has
    <3>2. client.pair = {files[d]["cert.pem"], files[d]["key.pem"]}
      BY <2>1, <3>1
    <3>3. client.pair = {files[d]["cert.pem"]}
      BY <2>1, <3>2, PairOfOne
    <3> QED
      BY <2>2, <2>5, <3>3
  <2>6. ASSUME {"ca.pem"} \subseteq Supplied(copied), ~Has(d, {"ca.crt"})
        PROVE  client.ca = {Now("ca.pem")}
    <3>1. CaPaths(d) = {"ca.pem"}
      BY <2>2, <2>6 DEF CaPaths, Has
    <3> QED
      BY <2>1, <2>2, <2>6, <3>1
  <2> QED
    BY <2>3, <2>4, <2>5, <2>6 DEF CertificatesCurrent, d, Now
<1> QED
  BY <1>1, <1>2, NextCurrentInv, PTL DEF Spec

-----------------------------------------------------------------------------
(* The secrets to generate.  A cycle only goes on with a spec that          *)
(* ValidateObjectSpec accepts, and keeps that spec to its end.              *)

ValidInv == TypeInv /\ (pc # "idle" => Accepts(valid))

LEMMA NextValidInv == ValidInv /\ [Next]_vars => ValidInv'
<1> SUFFICES ASSUME ValidInv, [Next]_vars PROVE ValidInv'
  OBVIOUS
<1>1. TypeInv'
  BY NextTypeInv DEF ValidInv
<1>2. ASSUME NEW r \in Rotators, ValidateObjectSpec(r) PROVE Accepts(valid')
  BY <1>2 DEF ValidateObjectSpec
<1>3. CASE UNCHANGED <<pc, valid>>
  BY <1>1, <1>3 DEF ValidInv
<1>4. CASE Return
  BY <1>1, <1>4 DEF ValidInv, Return
<1>5. CASE Cycle
  BY <1>1, <1>4, <1>5
  DEF ValidInv, Cycle, HandleCerts, HandleCertsFails, DeferPatch, HandlingToken,
      HandlingTokenFails, CreateOrUpdateSecrets
<1>6. CASE Environment
  BY <1>3, <1>4, <1>6 DEF Environment, ChangeSpec, ChangeCertificates, Crash, local
<1> QED
  BY <1>1, <1>2, <1>3, <1>5, <1>6 DEF Next, ValidInv, ValidateObjectSpecFails, vars, local

(* The entries that are generated, and the last of them. *)
LEMMA GeneratedEntries ==
    ASSUME NEW s \in Specs
    PROVE  LET g == GeneratedSecrets(s)
           IN  /\ Len(g) \in Nat /\ DOMAIN g = 1..Len(g)
               /\ \A i \in 1..Len(g) : g[i] = [name |-> g[i].name, type |-> g[i].type]
               /\ g # <<>> => Len(g) # 0
               /\ s.secretName # "" =>
                     Len(g) # 0 /\ g[Len(g)] = [name |-> s.secretName, type |-> "docker"]
<1> DEFINE e == [name |-> s.secretName, type |-> "docker"]
           R == [name : STRING \cup {s.secretName}, type : STRING \cup {"docker"}]
           g == GeneratedSecrets(s)
<1>1. s.secrets \in Seq([name : STRING, type : STRING])
  BY SpecAssumption
<1>2. s.secrets \in Seq(R) /\ e \in R
  <2>1. \A i \in 1..Len(s.secrets) : s.secrets[i] \in R
    <3>1. \A i \in 1..Len(s.secrets) : s.secrets[i] \in [name : STRING, type : STRING]
      BY <1>1, ElementOfSeq
    <3> QED
      BY <3>1
  <2>2. e \in R
    OBVIOUS
  <2> HIDE DEF R
  <2>3. s.secrets \in Seq(R)
    BY <1>1, <2>1
  <2> QED
    BY <2>2, <2>3
<1>3. ASSUME NEW x \in R PROVE x = [name |-> x.name, type |-> x.type]
  BY <1>3
<1> HIDE DEF e, R
<1>4. CASE s.secretName = ""
  <2>1. g = s.secrets \o <<>>
    BY <1>4 DEF GeneratedSecrets
  <2>2. g = s.secrets
    BY <1>2, <2>1, ConcatEmptySeq
  <2> HIDE DEF g
  <2>3. Len(g) \in Nat /\ DOMAIN g = 1..Len(g) /\ (g # <<>> => Len(g) # 0)
    BY <1>2, <2>2, LenProperties, EmptySeq
  <2>4. \A i \in 1..Len(g) : g[i] = [name |-> g[i].name, type |-> g[i].type]
    BY <1>2, <1>3, <2>2, ElementOfSeq
  <2> QED
    BY <1>4, <2>3, <2>4 DEF g
<1>5. CASE s.secretName # ""
  <2>1. g = s.secrets \o <<e>>
    BY <1>5 DEF GeneratedSecrets, e
  <2>2. g = Append(s.secrets, e)
    BY <1>2, <2>1, AppendIsConcat
  <2> HIDE DEF g
  <2>3. g \in Seq(R) /\ Len(g) = Len(s.secrets) + 1 /\ g[Len(s.secrets) + 1] = e
    BY <1>2, <2>2, AppendProperties
  <2>4. Len(g) \in Nat /\ DOMAIN g = 1..Len(g) /\ Len(s.secrets) \in Nat
    BY <1>2, <2>3, LenProperties
  <2>5. Len(g) # 0
    BY <2>3, <2>4
  <2>6. \A i \in 1..Len(g) : g[i] = [name |-> g[i].name, type |-> g[i].type]
    BY <1>3, <2>3, ElementOfSeq
  <2>7. g[Len(g)] = e
    BY <2>3
  <2> QED
    BY <2>4, <2>5, <2>6, <2>7 DEF g, e
<1> QED
  BY <1>4, <1>5

(* Whatever specs users write and whenever they edit them, a cycle that has *)
(* passed ValidateObjectSpec generates at least one secret, no two of one   *)
(* name, each of a known type, and spec.secretName among them.              *)
THEOREM ValidSecretsAreFunction == Spec => []SecretsAreFunction
<1>1. ValidInv => SecretsAreFunction
  <2> SUFFICES ASSUME ValidInv, pc # "idle" PROVE SecretsAreFunction
    BY DEF SecretsAreFunction
  <2> DEFINE G == GeneratedSecrets(valid)
             g == {G[i] : i \in DOMAIN G}
             N == {x.name : x \in g}
             n == Len(G)
             f == [i \in 1..n |-> G[i].name]
  <2>1. valid \in Specs /\ Accepts(valid)
    BY DEF ValidInv, TypeInv, CycleTypes
  <2>2. /\ n \in Nat /\ DOMAIN G = 1..n /\ n # 0
        /\ \A i \in 1..n : G[i] = [name |-> G[i].name, type |-> G[i].type]
        /\ valid.secretName # "" => G[n] = [name |-> valid.secretName, type |-> "docker"]
    BY <2>1, GeneratedEntries DEF Accepts
  <2>3. \A i \in 1..n : /\ G[i].name # "" /\ G[i].type \in {"docker", "generic"}
                        /\ \A j \in 1..(i - 1) : G[j].name # G[i].name
    BY <2>1, <2>2 DEF Accepts, Refused
  <2>4. n \in Nat /\ n # 0
    BY <2>2
  <2> HIDE DEF G, n
  <2>5. g # {} /\ g \subseteq [name : N \ {""}, type : {"docker", "generic"}]
    <3>1. 1 \in 1..n
      BY <2>4
    <3>2. ASSUME NEW x \in g PROVE x \in [name : N \ {""}, type : {"docker", "generic"}]
      <4>1. PICK i \in 1..n : x = G[i]
        BY <2>2, <3>2
      <4>2. x.name \in N /\ x.name # "" /\ x.type \in {"docker", "generic"}
        BY <2>3, <4>1
      <4>3. x = [name |-> x.name, type |-> x.type]
        BY <2>2, <4>1
      <4> HIDE DEF N
      <4> QED
        BY <4>2, <4>3
    <3> QED
      BY <2>2, <3>1, <3>2
  <2>6. Cardinality(N) = n
    <3>1. f \in [1..n -> N]
      BY <2>2
    <3>2. \A i, j \in 1..n : f[i] = f[j] => i = j
      <4>1. ASSUME NEW i \in 1..n, NEW j \in 1..n, i < j PROVE f[i] # f[j]
        <5>1. i \in 1..(j - 1)
          BY <2>4, <4>1
        <5> QED
          BY <2>3, <5>1
      <4>2. \A i, j \in 1..n : i < j \/ j < i \/ i = j
        BY <2>4
      <4> QED
        BY <4>1, <4>2
    <3>3. \A t \in N : \E i \in 1..n : f[i] = t
      BY <2>2
    <3> HIDE DEF f, N
    <3>4. f \in Bijection(1..n, N)
      BY <3>1, <3>2, <3>3 DEF Bijection, Injection, Surjection, IsInjective
    <3> QED
      BY <2>2, <3>4, FS_CountingElements DEF ExistsBijection
  <2>7. valid.secretName # "" => [name |-> valid.secretName, type |-> "docker"] \in g
    <3>1. n \in 1..n
      BY <2>4
    <3> QED
      BY <2>2, <3>1
  <2> HIDE DEF N
  <2> QED
    BY <2>5, <2>6, <2>7 DEF SecretsAreFunction, G, n, N
<1>2. Init => ValidInv
  BY InitTypeInv DEF ValidInv, Init
<1> QED
  BY <1>1, <1>2, NextValidInv, PTL DEF Spec

=============================================================================
