------------------------ MODULE TokenExchangeProofs ------------------------
(***************************************************************************)
(* Theorems about TokenExchange, for every set of SecretRotators, accounts *)
(* and roles, every trust policy and every number of disturbances.         *)
(***************************************************************************)
EXTENDS TokenExchange, TLAPS

-----------------------------------------------------------------------------
(* Types. *)

LEMMA AccountType ==
    ASSUME NEW sp \in Specs
    PROVE  Account(sp) \in Accounts
  BY SpecAssumption, OperatorAssumption DEF Account, Accounts

LEMMA EmptyTypes == NoCredentials \in Credentials /\ NoToken \in Token
  BY DEF NoCredentials, Credentials, NoToken, Token

LEMMA ReturnTypes ==
    ASSUME Return
    PROVE  /\ pc' \in Points /\ cur' \in Rotators \cup {None} /\ (pc' # "idle" => cur' \in Rotators)
           /\ held' \in Specs \cup {NoSpec} /\ (pc' # "idle" => held' \in Specs)
           /\ todo' \subseteq Namespaces /\ ns' \in Namespaces \cup {None}
           /\ (pc' \notin {"idle", "patch", "namespaces"} => ns' \in Namespaces)
           /\ arn' \in Roles \cup {None} /\ (pc' \in {"web", "sign", "exchange"} => arn' \in Roles)
           /\ ttl' \in Lifetimes \cup {DefaultLifetime, 0}
           /\ tok' \in Token /\ (pc' = "idle" => tok' = NoToken)
           /\ auth' \in AuthTypes \cup {None}
           /\ cred' \in Credentials /\ request' \in Credentials
           /\ pc' = "idle"
  BY EmptyTypes DEF Return, Points

LEMMA DisturbType ==
    ASSUME TypeOK, NEW kind, Disturb(kind)
    PROVE  budget' \in 0..MaxDisturb
  BY BoundAssumption DEF TypeOK, Disturb

LEMMA InitType == Init => TypeOK
<1> SUFFICES ASSUME Init PROVE TypeOK
  OBVIOUS
<1>1. spec \in [Rotators -> Specs] /\ cspec \in [Rotators -> Specs]
  BY DEF Init
<1>2. /\ role \in [Accounts -> Roles \cup {None}] /\ session \in [Roles -> Lifetimes]
      /\ podCred \in Credentials /\ podCred.role = PodRole
  BY AccountAssumption, OperatorAssumption DEF Init, Credentials
<1>3. /\ podEnv \in BOOLEAN /\ status \in [Rotators -> AuthTypes \cup {None}]
      /\ secret \in [Rotators -> [Namespaces -> Token]]
  BY EmptyTypes DEF Init
<1>4. /\ signer \in Credentials /\ cred \in Credentials /\ request \in Credentials
      /\ pc \in Points /\ pc = "idle" /\ cur = None /\ held = NoSpec /\ todo = {} /\ ns = None
      /\ arn = None /\ ttl = 0 /\ tok = NoToken /\ tok \in Token /\ auth = None
  BY EmptyTypes DEF Init, Points
<1>5. /\ named \in [Rotators -> SUBSET Accounts]
      /\ worn \in [Accounts -> SUBSET (Roles \cup {None})]
  BY <1>1, <1>2, AccountType DEF Init
<1>6. budget \in 0..MaxDisturb
  BY BoundAssumption DEF Init
<1> QED
  BY <1>1, <1>2, <1>3, <1>4, <1>5, <1>6 DEF TypeOK

LEMMA CycleType ==
    ASSUME TypeOK, Cycle
    PROVE  TypeOK'
<1> USE DEF TypeOK
<1>1. CASE DeferPatch
  BY <1>1, DisturbType DEF DeferPatch, cluster, history, Points, Fault
<1>2. ASSUME NEW n \in Namespaces, HandlingToken(n) PROVE TypeOK'
  BY <1>2 DEF HandlingToken, cluster, history, Points
<1>3. CASE ChooseAuthType
  <2>1. pc = "account" /\ held \in Specs /\ Account(held) \in Accounts
    BY <1>3, AccountType DEF ChooseAuthType
  <2>2. role[Account(held)] # None => role[Account(held)] \in Roles
    BY <2>1
  <2> QED
    BY <1>3, <2>1, <2>2 DEF ChooseAuthType, cluster, history, Points, AuthTypes
<1>4. CASE ChooseAuthTypeFails
  BY <1>4, ReturnTypes DEF ChooseAuthTypeFails, cluster, history
<1>5. CASE GetSignedRequestForPodIdentity
  BY <1>5, OperatorAssumption DEF GetSignedRequestForPodIdentity, cluster, history, Points
<1>6. CASE GetSignedRequestForWebIdentity
  <2>1. cred' \in Credentials
    BY <1>6 DEF GetSignedRequestForWebIdentity, Credentials
  <2> QED
    BY <1>6, <2>1 DEF GetSignedRequestForWebIdentity, cluster, history, Points
<1>7. CASE AssumeRoleRefused
  BY <1>7, ReturnTypes DEF AssumeRoleRefused, cluster, history
<1>8. CASE SignV4a
  <2>1. retrievePrivateKey(cred) \in Credentials
    BY DEF retrievePrivateKey
  <2>2. pc = "sign" /\ arn \in Roles /\ session[arn] \in Lifetimes
    BY <1>8 DEF SignV4a
  <2>3. ttl' \in Lifetimes \cup {DefaultLifetime, 0} /\ budget' \in 0..MaxDisturb
    BY <1>8, <2>2, DisturbType DEF SignV4a, Fault, RoleMaxSessionDuration,
       GetMaxSession, ResolveIAMRoleARNFromPodIdentityCredentials
  <2> QED
    BY <1>8, <2>1, <2>2, <2>3 DEF SignV4a, cluster, history, Points
<1>9. CASE createArtifactoryToken
  <2>1. request.role \in Roles \cup {None}
    BY DEF Credentials
  <2>2. tok' \in Token /\ budget' \in 0..MaxDisturb
    BY <1>9, <2>1, EmptyTypes, DisturbType DEF createArtifactoryToken, Token, Fault
  <2> QED
    BY <1>9, <2>2 DEF createArtifactoryToken, cluster, history, Points
<1>10. CASE HandlingTokenFails
  <2>1. retrievePrivateKey(cred) \in Credentials
    BY DEF retrievePrivateKey
  <2>2. signer' \in Credentials /\ budget' \in 0..MaxDisturb
    BY <1>10, <2>1, DisturbType DEF HandlingTokenFails, Fault
  <2> QED
    BY <1>10, <2>2, ReturnTypes DEF HandlingTokenFails, cluster, history
<1>11. CASE CreateOrUpdateSecrets
  <2>1. secret' \in [Rotators -> [Namespaces -> Token]] /\ budget' \in 0..MaxDisturb
    <3>1. pc = "write" /\ cur \in Rotators /\ ns \in Namespaces
      BY <1>11 DEF CreateOrUpdateSecrets
    <3>2. budget' \in 0..MaxDisturb
      BY <1>11, DisturbType DEF CreateOrUpdateSecrets, Fault
    <3>3. [secret EXCEPT ![cur][ns] = tok] \in [Rotators -> [Namespaces -> Token]]
      BY <3>1
    <3> QED
      BY <1>11, <3>2, <3>3 DEF CreateOrUpdateSecrets
  <2> QED
    BY <1>11, <2>1 DEF CreateOrUpdateSecrets, history, Points
<1>12. CASE UpdateStatus
  <2>1. status' \in [Rotators -> AuthTypes \cup {None}] /\ budget' \in 0..MaxDisturb
    BY <1>12, DisturbType DEF UpdateStatus, Fault
  <2> QED
    BY <1>12, <2>1, ReturnTypes DEF UpdateStatus, history
<1> QED
  BY <1>1, <1>2, <1>3, <1>4, <1>5, <1>6, <1>7, <1>8, <1>9, <1>10, <1>11, <1>12 DEF Cycle

LEMMA EnvironmentType ==
    ASSUME TypeOK, Environment
    PROVE  TypeOK'
<1> USE DEF TypeOK
<1>1. ASSUME NEW r \in Rotators, NEW sp \in Specs, ChangeSpec(r, sp) PROVE TypeOK'
  <2>1. spec' \in [Rotators -> Specs] /\ named' \in [Rotators -> SUBSET Accounts]
    BY <1>1, AccountType DEF ChangeSpec
  <2> QED
    BY <1>1, <2>1, DisturbType DEF ChangeSpec, local
<1>2. ASSUME NEW r \in Rotators, SyncRotator(r) PROVE TypeOK'
  BY <1>2 DEF SyncRotator, local, history
<1>3. ASSUME NEW a \in Accounts, NEW x \in Roles \cup {None}, Annotate(a, x) PROVE TypeOK'
  <2>1. role' \in [Accounts -> Roles \cup {None}] /\ worn' \in [Accounts -> SUBSET (Roles \cup {None})]
    BY <1>3 DEF Annotate
  <2> QED
    BY <1>3, <2>1, DisturbType DEF Annotate, local
<1>4. ASSUME NEW x \in Roles, NEW d \in Lifetimes, ChangeMaxSession(x, d) PROVE TypeOK'
  <2>1. session' \in [Roles -> Lifetimes]
    BY <1>4 DEF ChangeMaxSession
  <2> QED
    BY <1>4, <2>1, DisturbType DEF ChangeMaxSession, local, history
<1>5. CASE RotatePodCredentials
  <2>1. podCred' \in Credentials /\ podCred'.role = PodRole
    BY <1>5 DEF RotatePodCredentials, Credentials
  <2> QED
    BY <1>5, <2>1, DisturbType DEF RotatePodCredentials, local, history
<1> QED
  BY <1>1, <1>2, <1>3, <1>4, <1>5 DEF Environment

LEMMA NextType == TypeOK /\ [Next]_vars => TypeOK'
<1> SUFFICES ASSUME TypeOK, [Next]_vars PROVE TypeOK'
  OBVIOUS
<1>1. ASSUME NEW r \in Rotators, ValidateObjectSpec(r) PROVE TypeOK'
  BY <1>1 DEF ValidateObjectSpec, cluster, history, TypeOK, Points
<1>2. ASSUME NEW r \in Rotators, ValidateObjectSpecFails(r) PROVE TypeOK'
  BY <1>2, DisturbType DEF ValidateObjectSpecFails, cluster, history, local, TypeOK, Fault
<1>3. CASE UNCHANGED vars
  BY <1>3 DEF vars, cluster, history, local, TypeOK
<1> QED
  BY <1>1, <1>2, <1>3, CycleType, EnvironmentType DEF Next

(* The state keeps its shape; a worker between two cycles holds no token.   *)
THEOREM TypeCorrect == Spec => []TypeOK
  BY InitType, NextType, PTL DEF Spec

-----------------------------------------------------------------------------
(* The invariant behind TenantIsolation: every account a cycle may use has  *)
(* been named by its SecretRotator and every role it may assume has been    *)
(* worn by that account; and the signer's cache and the pod's agent never   *)
(* hold different credentials under one access key.                         *)

Names ==
    /\ \A r \in Rotators : Account(spec[r]) \in named[r] /\ Account(cspec[r]) \in named[r]
    /\ \A a \in Accounts : role[a] \in worn[a]

InHand ==
    /\ pc # "idle" => Account(held) \in named[cur]
    /\ pc = "pod" => podEnv
    /\ pc = "web" => arn \in Entitled(cur)
    /\ pc = "sign" => cred.role \in Entitled(cur)
    /\ pc = "exchange" => request.role \in Entitled(cur)

Coherent ==
    /\ podCred.key # None
    /\ signer.key = podCred.key => signer = podCred
    /\ pc = "sign" => /\ signer.key = cred.key => signer = cred
                      /\ cred.key = podCred.key => cred = podCred

IsolationInv == TypeOK /\ Names /\ InHand /\ Coherent /\ TenantIsolation

LEMMA EntitledSame ==
    ASSUME UNCHANGED <<named, worn, podEnv>>, NEW r
    PROVE  Entitled(r)' = Entitled(r)
  BY DEF Entitled

LEMMA EntitledWorn ==
    ASSUME NEW r, NEW a \in named[r], NEW x \in worn[a]
    PROVE  x \in Entitled(r)
  BY DEF Entitled

LEMMA EntitledPod ==
    ASSUME podEnv = TRUE, NEW r
    PROVE  PodRole \in Entitled(r)
<1>1. PodRole \in {x \in {PodRole} : podEnv}
  BY Zenon
<1> QED
  BY <1>1 DEF Entitled

LEMMA EntitledGrows ==
    ASSUME NEW r \in Rotators, named \in [Rotators -> SUBSET Accounts],
           \A q \in Rotators : named[q] \subseteq named'[q],
           \A a \in Accounts : worn[a] \subseteq worn'[a],
           UNCHANGED podEnv
    PROVE  Entitled(r) \subseteq Entitled(r)'
<1> SUFFICES ASSUME NEW x \in Entitled(r) PROVE x \in Entitled(r)'
  OBVIOUS
<1>1. CASE \E a \in named[r] : x \in worn[a]
  <2>1. PICK a \in named[r] : x \in worn[a]
    BY <1>1
  <2>2. a \in named'[r] /\ x \in worn'[a]
    BY <2>1
  <2> QED
    BY <2>2 DEF Entitled
<1>2. CASE x \in {y \in {PodRole} : podEnv}
  BY <1>2 DEF Entitled
<1> QED
  BY <1>1, <1>2 DEF Entitled

LEMMA InitIsolation == Init => IsolationInv
<1> SUFFICES ASSUME Init PROVE IsolationInv
  OBVIOUS
<1>1. TypeOK
  BY InitType
<1>2. Names
  <2>1. ASSUME NEW r \in Rotators
        PROVE  Account(spec[r]) \in named[r] /\ Account(cspec[r]) \in named[r]
    BY DEF Init
  <2>2. ASSUME NEW a \in Accounts PROVE role[a] \in worn[a]
    BY DEF Init
  <2> QED
    BY <2>1, <2>2 DEF Names
<1>3. InHand
  BY DEF Init, InHand
<1>4. Coherent
  <2>1. PICK k \in Keys : podCred = [key |-> k, role |-> PodRole]
    BY DEF Init
  <2>2. podCred.key \in Keys /\ signer.key = None
    BY <2>1 DEF Init, NoCredentials
  <2>3. pc = "idle"
    BY DEF Init
  <2> QED
    BY <2>2, <2>3, NoneAssumption DEF Coherent
<1>5. TenantIsolation
  <2>1. ASSUME NEW r \in Rotators, NEW n \in Namespaces PROVE secret[r][n].role = None
    BY DEF Init, NoToken
  <2>2. pc = "idle"
    BY DEF Init
  <2> QED
    BY <2>1, <2>2 DEF TenantIsolation
<1> QED
  BY <1>1, <1>2, <1>3, <1>4, <1>5 DEF IsolationInv

(* A step that leaves the cluster and the history alone needs to care only  *)
(* for what the cycle holds.                                                *)
LEMMA CycleOnly ==
    ASSUME IsolationInv, UNCHANGED <<cluster, history>>
    PROVE  /\ Names' /\ \A r : Entitled(r)' = Entitled(r)
           /\ \A r \in Rotators, n \in Namespaces : secret'[r][n].role \in Entitled(r)' \cup {None}
<1>1. UNCHANGED <<spec, cspec, role, podEnv, secret, named, worn>>
  BY DEF cluster, history
<1>2. \A r : Entitled(r)' = Entitled(r)
  BY <1>1, EntitledSame
<1> QED
  BY <1>1, <1>2 DEF IsolationInv, Names, TenantIsolation

LEMMA ReturnIsolation ==
    ASSUME IsolationInv, Return, UNCHANGED <<cluster, history>>, TypeOK',
           signer' \in {signer, cred}, signer' # signer => pc = "sign"
    PROVE  IsolationInv'
<1>1. Names' /\ TenantIsolation'
  BY CycleOnly DEF Return, TenantIsolation
<1>2. InHand'
  BY DEF Return, InHand
<1>3. Coherent'
  BY DEF IsolationInv, Coherent, Return, cluster
<1> QED
  BY <1>1, <1>2, <1>3 DEF IsolationInv

LEMMA SignerKeeps ==
    ASSUME IsolationInv, pc = "sign"
    PROVE  retrievePrivateKey(cred) = cred
  BY DEF IsolationInv, Coherent, retrievePrivateKey

LEMMA CycleIsolation ==
    ASSUME IsolationInv, Cycle
    PROVE  IsolationInv'
<1>1. TypeOK /\ TypeOK' /\ (pc # "idle" => cur \in Rotators)
  BY CycleType DEF IsolationInv, TypeOK
<1>2. CASE DeferPatch
  <2>1. Account(held') \in named[cur]
    BY <1>1, <1>2 DEF DeferPatch, IsolationInv, Names, InHand
  <2> QED
    BY <1>1, <1>2, <2>1, CycleOnly
    DEF DeferPatch, cluster, history, IsolationInv, InHand, Coherent, TenantIsolation
<1>3. ASSUME NEW n \in Namespaces, HandlingToken(n) PROVE IsolationInv'
  BY <1>1, <1>3, CycleOnly
  DEF HandlingToken, cluster, history, IsolationInv, InHand, Coherent, TenantIsolation
<1>4. CASE ChooseAuthType
  <2>1. pc = "account" /\ Account(held) \in named[cur] /\ Account(held) \in Accounts
    BY <1>1, <1>4, AccountType DEF ChooseAuthType, IsolationInv, InHand, TypeOK
  <2>2. role[Account(held)] \in Entitled(cur)
    BY <2>1, EntitledWorn DEF IsolationInv, Names
  <2> QED
    BY <1>1, <1>4, <2>1, <2>2, CycleOnly
    DEF ChooseAuthType, UsesPodIdentity, cluster, history, IsolationInv, InHand, Coherent, TenantIsolation
<1>5. CASE ChooseAuthTypeFails
  BY <1>1, <1>5, ReturnIsolation DEF ChooseAuthTypeFails
<1>6. CASE GetSignedRequestForPodIdentity
  <2>1. podCred.role \in Entitled(cur)
    <3>1. pc = "pod" /\ podEnv \in BOOLEAN /\ (pc = "pod" => podEnv)
      BY <1>1, <1>6 DEF GetSignedRequestForPodIdentity, IsolationInv, InHand, TypeOK
    <3>2. podEnv = TRUE
      BY <3>1, Zenon
    <3> QED
      BY <1>1, <3>2, EntitledPod DEF TypeOK
  <2> QED
    BY <1>1, <1>6, <2>1, CycleOnly
    DEF GetSignedRequestForPodIdentity, cluster, history, IsolationInv, InHand, Coherent, TenantIsolation
<1>7. CASE GetSignedRequestForWebIdentity
  <2>1. PICK k \in Keys \ {signer.key, podCred.key} : cred' = [key |-> k, role |-> arn]
    BY <1>7 DEF GetSignedRequestForWebIdentity
  <2>2. cred'.key # signer.key /\ cred'.key # podCred.key /\ cred'.role \in Entitled(cur)
    BY <1>7, <2>1 DEF GetSignedRequestForWebIdentity, IsolationInv, InHand
  <2> QED
    BY <1>1, <1>7, <2>2, CycleOnly
    DEF GetSignedRequestForWebIdentity, cluster, history, IsolationInv, InHand, Coherent, TenantIsolation
<1>8. CASE AssumeRoleRefused
  BY <1>1, <1>8, ReturnIsolation DEF AssumeRoleRefused
<1>9. CASE SignV4a
  <2>1. signer' = cred /\ request' = cred /\ pc = "sign" /\ pc' = "exchange"
    BY <1>9, SignerKeeps DEF SignV4a
  <2> QED
    BY <1>1, <1>9, <2>1, CycleOnly
    DEF SignV4a, cluster, history, IsolationInv, InHand, Coherent, TenantIsolation
<1>10. CASE createArtifactoryToken
  <2>1. tok'.role \in {request.role, None}
    BY <1>10 DEF createArtifactoryToken, NoToken
  <2> QED
    BY <1>1, <1>10, <2>1, CycleOnly
    DEF createArtifactoryToken, cluster, history, IsolationInv, InHand, Coherent, TenantIsolation
<1>11. CASE HandlingTokenFails
  BY <1>1, <1>11, SignerKeeps, ReturnIsolation DEF HandlingTokenFails
<1>12. CASE CreateOrUpdateSecrets
  <2>1. /\ pc = "write" /\ pc' = "namespaces"
        /\ UNCHANGED <<spec, cspec, role, podEnv, podCred, signer, cur, held, tok, named, worn>>
        /\ secret' \in {secret, [secret EXCEPT ![cur][ns] = tok]}
    BY <1>12 DEF CreateOrUpdateSecrets, history
  <2>2. \A r : Entitled(r)' = Entitled(r)
    BY <2>1, EntitledSame
  <2>3. ASSUME NEW r \in Rotators, NEW n \in Namespaces
        PROVE  secret'[r][n] = secret[r][n] \/ (r = cur /\ secret'[r][n] = tok)
    BY <1>1, <2>1 DEF TypeOK
  <2>4. TenantIsolation'
    BY <2>1, <2>2, <2>3 DEF IsolationInv, TenantIsolation
  <2> QED
    BY <1>1, <2>1, <2>2, <2>4 DEF IsolationInv, Names, InHand, Coherent
<1>13. CASE UpdateStatus
  <2>1. /\ pc' = "idle"
        /\ UNCHANGED <<spec, cspec, role, podEnv, podCred, secret, signer, named, worn>>
    BY <1>13 DEF UpdateStatus, history, Return
  <2>2. \A r : Entitled(r)' = Entitled(r)
    BY <2>1, EntitledSame
  <2> QED
    BY <1>1, <2>1, <2>2 DEF IsolationInv, Names, InHand, Coherent, TenantIsolation
<1> QED
  BY <1>2, <1>3, <1>4, <1>5, <1>6, <1>7, <1>8, <1>9, <1>10, <1>11, <1>12, <1>13 DEF Cycle

LEMMA EnvironmentIsolation ==
    ASSUME IsolationInv, Environment
    PROVE  IsolationInv'
<1>1. TypeOK /\ TypeOK' /\ (pc # "idle" => cur \in Rotators)
  BY EnvironmentType DEF IsolationInv, TypeOK
<1>2. ASSUME UNCHANGED <<local, signer, podEnv, secret>>, Names', Coherent',
             \A r \in Rotators : named[r] \subseteq named'[r],
             \A a \in Accounts : worn[a] \subseteq worn'[a]
      PROVE  IsolationInv'
  <2>1. ASSUME NEW r \in Rotators PROVE Entitled(r) \subseteq Entitled(r)'
    BY <1>1, <1>2, EntitledGrows DEF TypeOK
  <2>2. UNCHANGED <<pc, cur, held, arn, cred, request, tok>>
    BY <1>2 DEF local
  <2>3. InHand'
    BY <1>1, <1>2, <2>1, <2>2 DEF IsolationInv, InHand
  <2>4. TenantIsolation'
    BY <1>1, <1>2, <2>1, <2>2 DEF IsolationInv, TenantIsolation
  <2> QED
    BY <1>1, <1>2, <2>3, <2>4 DEF IsolationInv
<1>3. ASSUME UNCHANGED <<podCred, signer, local>> PROVE Coherent'
  BY <1>3 DEF local, IsolationInv, Coherent
<1>4. ASSUME NEW r \in Rotators, NEW sp \in Specs, ChangeSpec(r, sp) PROVE IsolationInv'
  <2>1. /\ UNCHANGED <<cspec, role, podEnv, podCred, secret, signer, local, worn>>
        /\ spec' = [spec EXCEPT ![r] = sp]
        /\ named' = [named EXCEPT ![r] = @ \cup {Account(sp)}]
    BY <1>4 DEF ChangeSpec
  <2>2. /\ \A q \in Rotators : named[q] \subseteq named'[q]
        /\ Account(sp) \in named'[r] /\ spec'[r] = sp
        /\ \A q \in Rotators \ {r} : spec'[q] = spec[q]
    BY <1>1, <2>1 DEF TypeOK
  <2>3. ASSUME NEW q \in Rotators
        PROVE  Account(spec'[q]) \in named'[q] /\ Account(cspec'[q]) \in named'[q]
    <3>1. CASE q = r
      BY <2>1, <2>2, <3>1 DEF IsolationInv, Names
    <3>2. CASE q # r
      BY <2>1, <2>2, <3>2 DEF IsolationInv, Names
    <3> QED
      BY <3>1, <3>2
  <2>4. Names'
    BY <2>1, <2>3 DEF IsolationInv, Names
  <2> QED
    BY <1>2, <1>3, <2>1, <2>2, <2>4
<1>5. ASSUME NEW r \in Rotators, SyncRotator(r) PROVE IsolationInv'
  <2>1. /\ UNCHANGED <<spec, role, podEnv, podCred, secret, signer, local, named, worn>>
        /\ cspec' = [cspec EXCEPT ![r] = spec[r]]
    BY <1>5 DEF SyncRotator, history
  <2>2. \A q \in Rotators : cspec'[q] \in {cspec[q], spec[q]}
    BY <1>1, <2>1 DEF TypeOK
  <2>3. Names'
    BY <2>1, <2>2 DEF IsolationInv, Names
  <2> QED
    BY <1>2, <1>3, <2>1, <2>3
<1>6. ASSUME NEW a \in Accounts, NEW x \in Roles \cup {None}, Annotate(a, x) PROVE IsolationInv'
  <2>1. /\ UNCHANGED <<spec, cspec, podEnv, podCred, secret, signer, local, named>>
        /\ role' = [role EXCEPT ![a] = x]
        /\ worn' = [worn EXCEPT ![a] = @ \cup {x}]
    BY <1>6 DEF Annotate
  <2>2. \A b \in Accounts : worn[b] \subseteq worn'[b]
    BY <1>1, <2>1 DEF TypeOK
  <2>3. \A b \in Accounts : role'[b] \in worn'[b]
    BY <1>1, <2>1 DEF TypeOK, IsolationInv, Names
  <2>4. Names'
    BY <2>1, <2>3 DEF IsolationInv, Names
  <2> QED
    BY <1>2, <1>3, <2>1, <2>2, <2>4
<1>7. ASSUME NEW x \in Roles, NEW d \in Lifetimes, ChangeMaxSession(x, d) PROVE IsolationInv'
  <2>1. UNCHANGED <<spec, cspec, role, podEnv, podCred, secret, signer, local, named, worn>>
    BY <1>7 DEF ChangeMaxSession, history
  <2>2. Names'
    BY <2>1 DEF IsolationInv, Names
  <2> QED
    BY <1>2, <1>3, <2>1, <2>2
<1>8. CASE RotatePodCredentials
  <2>1. UNCHANGED <<spec, cspec, role, podEnv, secret, signer, local, named, worn>>
    BY <1>8 DEF RotatePodCredentials, history
  <2>2. PICK k \in Keys \ {signer.key, podCred.key, cred.key} : podCred' = [podCred EXCEPT !.key = k]
    BY <1>8 DEF RotatePodCredentials
  <2>3. podCred'.key = k /\ k # None
    BY <1>1, <2>2, NoneAssumption DEF TypeOK, Credentials
  <2>4. Coherent'
    BY <2>1, <2>2, <2>3 DEF local, IsolationInv, Coherent
  <2>5. Names'
    BY <2>1 DEF IsolationInv, Names
  <2> QED
    BY <1>2, <2>1, <2>4, <2>5
<1> QED
  BY <1>4, <1>5, <1>6, <1>7, <1>8 DEF Environment

LEMMA NextIsolation == IsolationInv /\ [Next]_vars => IsolationInv'
<1> SUFFICES ASSUME IsolationInv, [Next]_vars PROVE IsolationInv'
  OBVIOUS
<1>1. TypeOK /\ TypeOK'
  BY NextType DEF IsolationInv
<1>2. ASSUME NEW r \in Rotators, ValidateObjectSpec(r) PROVE IsolationInv'
  <2>1. Account(held') \in named[cur'] /\ tok = NoToken
    BY <1>1, <1>2 DEF ValidateObjectSpec, IsolationInv, Names, TypeOK
  <2> QED
    BY <1>1, <1>2, <2>1, CycleOnly
    DEF ValidateObjectSpec, cluster, history, IsolationInv, InHand, Coherent, TenantIsolation, NoToken
<1>3. CASE UNCHANGED <<cluster, signer, local, history>>
  BY <1>1, <1>3, CycleOnly
  DEF cluster, history, local, IsolationInv, InHand, Coherent, TenantIsolation
<1>4. ASSUME NEW r \in Rotators, ValidateObjectSpecFails(r) PROVE IsolationInv'
  BY <1>3, <1>4 DEF ValidateObjectSpecFails
<1>5. CASE UNCHANGED vars
  BY <1>3, <1>5 DEF vars
<1> QED
  BY <1>2, <1>4, <1>5, CycleIsolation, EnvironmentIsolation DEF Next

(* Whatever fails and whatever changes under a cycle, no SecretRotator's    *)
(* secret ever holds a token of a role that is not the operator's pod's and *)
(* that none of its own service accounts has had: the tenants that share    *)
(* the operator, its single worker and the signer's cache stay isolated.    *)
THEOREM Isolation == Spec => []TenantIsolation
<1>1. IsolationInv => TenantIsolation
  BY DEF IsolationInv
<1> QED
  BY <1>1, InitIsolation, NextIsolation, PTL DEF Spec

=============================================================================
