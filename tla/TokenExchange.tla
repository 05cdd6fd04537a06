--------------------------- MODULE TokenExchange ---------------------------
(***************************************************************************)
(* Whose token a secret gets.  A cycle of Reconcile picks a service        *)
(* account and an authentication method, obtains AWS credentials, signs a  *)
(* GetCallerIdentity request with them through the process-wide cache of   *)
(* the signer, exchanges it for an Artifactory token, and writes that into *)
(* the secrets of one namespace after another, for several SecretRotators  *)
(* in turn, while their specs, the role annotations of the accounts and    *)
(* the credentials of the pod change.                                      *)
(*                                                                         *)
(* AWS credentials are an access key and the role they stand for: AWS      *)
(* gives no two sessions the same key.  A token is the role Artifactory    *)
(* saw and the lifetime that was asked for.                                *)
(***************************************************************************)
EXTENDS Naturals

CONSTANTS
    Rotators,      \* SecretRotator objects
    Namespaces,    \* the namespaces each of them serves
    Sites,         \* namespaces of service accounts
    Logins,        \* names of service accounts
    Roles,         \* IAM roles
    Keys,          \* AWS access keys
    Lifetimes,     \* MaxSessionDuration of a role
    None,          \* no value
    OperatorSite, OperatorLogin, \* the operator's own service account
    PodRole,       \* the role Pod Identity associates with the operator's pod
    Specs,         \* what users write into the spec
    Absent,        \* accounts that do not exist
    Annotation,    \* the role annotation each account starts with
    Trust,         \* which account may assume which role
    Pathed,        \* roles whose ARN has a path
    DefaultLifetime, \* operations.RoleMaxSessionDuration
    Disturbances,  \* which kinds of disturbance happen
    MaxDisturb     \* bound: how many of them happen

Accounts == Sites \X Logins
Operator == <<OperatorSite, OperatorLogin>>
AuthTypes == {"auto", "webIdentity", "podIdentity"}

ASSUME NoneAssumption == None \notin Rotators \cup Namespaces \cup Sites \cup Logins \cup Roles \cup Keys
ASSUME OperatorAssumption == OperatorSite \in Sites /\ OperatorLogin \in Logins /\ PodRole \in Roles
ASSUME SpecAssumption ==
    Specs \subseteq [auth : AuthTypes, site : Sites \cup {None}, login : Logins \cup {None}]
ASSUME TrustAssumption == Trust \subseteq Accounts \X Roles /\ Pathed \subseteq Roles
ASSUME AccountAssumption ==
    /\ Absent \subseteq Accounts
    /\ Annotation \in [Accounts -> Roles \cup {None}]
    /\ \A a \in Absent : Annotation[a] = None
ASSUME LifetimeAssumption == DefaultLifetime \in Nat /\ Lifetimes \subseteq Nat
ASSUME BoundAssumption ==
    /\ MaxDisturb \in Nat
    /\ Disturbances \subseteq {"fault", "spec", "annotate", "session", "rotate"}

VARIABLES
    \* the cluster and AWS
    spec,      \* the spec of each SecretRotator
    cspec,     \* the same as the informer cache shows it
    role,      \* the role annotation of each service account, None: no annotation
    session,   \* MaxSessionDuration of each role
    podEnv,    \* does the pod's environment have the Pod Identity token file?
    podCred,   \* the credentials the Pod Identity agent hands out
    secret,    \* the token in the secrets of each SecretRotator and namespace
    status,    \* status.authType
    \* the operator
    signer,    \* the credentials in the signer's cache
    pc,        \* the point the cycle has reached
    cur,       \* the SecretRotator being reconciled
    held,      \* its spec, as held by the cycle
    todo,      \* namespaces yet to be visited
    ns,        \* the namespace it is at
    arn,       \* the role it is to assume
    cred,      \* the credentials it obtained
    request,   \* the credentials the signed request carries
    ttl,       \* tokenDetails.RoleMaxSessionDuration
    tok,       \* tokenDetails.Token
    auth,      \* tokenDetails.AuthType
    \* history and environment
    named,     \* the accounts each SecretRotator has ever named
    worn,      \* the roles each account has ever been annotated with
    budget     \* disturbances that may still happen

cluster == <<spec, cspec, role, session, podEnv, podCred, secret, status>>
local   == <<pc, cur, held, todo, ns, arn, cred, request, ttl, tok, auth>>
history == <<named, worn>>
vars    == <<cluster, signer, local, history, budget>>

-----------------------------------------------------------------------------
Credentials == [key : Keys \cup {None}, role : Roles \cup {None}]
NoCredentials == [key |-> None, role |-> None]

Token == [role : Roles \cup {None}, ttl : Lifetimes \cup {DefaultLifetime, 0}]
NoToken == [role |-> None, ttl |-> 0]

NoSpec == [auth |-> "auto", site |-> None, login |-> None]

Complete(sp) == sp.site # None /\ sp.login # None

(* Each missing half of the account is that of the operator's account. *)
Account(sp) == <<IF sp.site = None THEN OperatorSite ELSE sp.site,
                 IF sp.login = None THEN OperatorLogin ELSE sp.login>>

UsesPodIdentity(sp) == sp.auth \in {"podIdentity", "auto"} /\ podEnv

UsesWebIdentity(sp) == ~UsesPodIdentity(sp) /\ sp.auth \in {"webIdentity", "auto"}

(* Mutant: whatever is cached is used. *)
AnyCachedKey(c) == IF signer # NoCredentials THEN signer ELSE c

(* The signer's cache holds the key it derived last, and is looked up by    *)
(* the access key alone.                                                    *)
retrievePrivateKey(c) == IF signer.key = c.key THEN signer ELSE c

(* Mutant: the lookup is given up at once. *)
DefaultOnly(r) == DefaultLifetime

(* GetMaxSession reads the role's name off its ARN, which it cannot if the  *)
(* ARN has a path: the caller then takes the default.                       *)
GetMaxSession(r) == IF r \in Pathed THEN DefaultLifetime ELSE session[r]

(* The ARN that STS reports to the Pod Identity flow has no path. *)
ResolveIAMRoleARNFromPodIdentityCredentials(r) == session[r]

RoleMaxSessionDuration(r) ==
    IF auth = "webIdentity" THEN GetMaxSession(r) ELSE ResolveIAMRoleARNFromPodIdentityCredentials(r)

Disturb(kind) == kind \in Disturbances /\ budget > 0 /\ budget' = budget - 1

Fault == Disturb("fault")

(* Mutant: tokenDetails outlives the cycle. *)
ReturnKeepingToken ==
    /\ pc' = "idle" /\ cur' = None /\ ns' = None /\ arn' = None
    /\ held' = NoSpec /\ todo' = {} /\ cred' = NoCredentials /\ request' = NoCredentials
    /\ UNCHANGED <<ttl, tok, auth>>

(* Reconcile returns: its local variables are gone. *)
Return ==
    /\ pc' = "idle" /\ cur' = None /\ ns' = None /\ arn' = None
    /\ held' = NoSpec /\ todo' = {} /\ cred' = NoCredentials /\ request' = NoCredentials
    /\ ttl' = 0 /\ tok' = NoToken /\ auth' = None

-----------------------------------------------------------------------------
(* InitializeResource *)

(* If the spec does not name an account in full, the operator's account     *)
(* must have a role or the pod its identity.                                *)
Valid(sp) == Complete(sp) \/ role[Operator] # None \/ podEnv

ValidateObjectSpec(r) ==
    /\ pc = "idle" /\ Valid(cspec[r])
    /\ pc' = "patch" /\ cur' = r /\ held' = cspec[r] /\ todo' = Namespaces
    /\ UNCHANGED <<cluster, signer, ns, arn, cred, request, ttl, tok, auth, history, budget>>

(* The pod or its account cannot be read, or no role is to be had. *)
ValidateObjectSpecFails(r) ==
    /\ pc = "idle"
    /\ Fault \/ (~Valid(cspec[r]) /\ UNCHANGED budget)
    /\ UNCHANGED <<cluster, signer, local, history>>

(* The deferred patch makes the held object the server's, so that what      *)
(* follows uses another spec than the one that was validated.               *)
DeferPatch ==
    /\ pc = "patch"
    /\ \/ held' = spec[cur] /\ UNCHANGED budget
       \/ Fault /\ UNCHANGED held
    /\ pc' = "namespaces"
    /\ UNCHANGED <<cluster, signer, cur, todo, ns, arn, cred, request, ttl, tok, auth, history>>

-----------------------------------------------------------------------------
(* HandlingToken, once per namespace: only without a token it goes on. *)

HandlingToken(n) ==
    /\ pc = "namespaces" /\ n \in todo
    /\ todo' = todo \ {n} /\ ns' = n
    /\ pc' = IF tok = NoToken THEN "account" ELSE "write"
    /\ UNCHANGED <<cluster, signer, cur, held, arn, cred, request, ttl, tok, auth, history, budget>>

(* The service account is read, and the way to authenticate chosen. *)
ChooseAuthType ==
    /\ pc = "account" /\ Account(held) \notin Absent
    /\ \/ UsesPodIdentity(held) /\ pc' = "pod" /\ auth' = "podIdentity" /\ UNCHANGED arn
       \/ /\ UsesWebIdentity(held) /\ role[Account(held)] # None
          /\ pc' = "web" /\ auth' = "webIdentity" /\ arn' = role[Account(held)]
    /\ UNCHANGED <<cluster, signer, cur, held, todo, ns, cred, request, ttl, tok, history, budget>>

(* No such account, no such method here, or no role annotation. *)
ChooseAuthTypeFails ==
    /\ pc = "account"
    /\ \/ Account(held) \in Absent
       \/ ~UsesPodIdentity(held) /\ ~UsesWebIdentity(held)
       \/ UsesWebIdentity(held) /\ role[Account(held)] = None
    /\ Return
    /\ UNCHANGED <<cluster, signer, history, budget>>

GetSignedRequestForPodIdentity ==
    /\ pc = "pod"
    /\ cred' = podCred /\ arn' = podCred.role
    /\ pc' = "sign"
    /\ UNCHANGED <<cluster, signer, cur, held, todo, ns, request, ttl, tok, auth, history, budget>>

(* A token of the account is exchanged at STS for credentials of its role.  *)
GetSignedRequestForWebIdentity ==
    /\ pc = "web" /\ <<Account(held), arn>> \in Trust
    /\ \E k \in Keys \ {signer.key, podCred.key} : cred' = [key |-> k, role |-> arn]
    /\ pc' = "sign"
    /\ UNCHANGED <<cluster, signer, cur, held, todo, ns, arn, request, ttl, tok, auth, history, budget>>

AssumeRoleRefused ==
    /\ pc = "web" /\ <<Account(held), arn>> \notin Trust
    /\ Return
    /\ UNCHANGED <<cluster, signer, history, budget>>

(* The request is signed, and the lifetime of the role looked up; a lookup  *)
(* that fails is answered with the default.                                 *)
SignV4a ==
    /\ pc = "sign"
    /\ signer' = retrievePrivateKey(cred)
    /\ request' = retrievePrivateKey(cred)
    /\ \/ ttl' = RoleMaxSessionDuration(arn) /\ UNCHANGED budget
       \/ ttl' = DefaultLifetime /\ Fault
    /\ pc' = "exchange"
    /\ UNCHANGED <<cluster, cur, held, todo, ns, arn, cred, tok, auth, history>>

(* Artifactory asks AWS who signed the request.  An answer of status OK may *)
(* lack a token: the error, if it is one, goes unnoticed.                   *)
createArtifactoryToken ==
    /\ pc = "exchange"
    /\ \/ tok' = [role |-> request.role, ttl |-> ttl] /\ UNCHANGED budget
       \/ tok' = NoToken /\ Fault
    /\ pc' = "write"
    /\ UNCHANGED <<cluster, signer, cur, held, todo, ns, arn, cred, request, ttl, auth, history>>

(* Any call on the way fails: ManagingSecrets returns. *)
HandlingTokenFails ==
    /\ pc \in {"account", "pod", "web", "sign", "exchange"} /\ Fault
    /\ \/ UNCHANGED signer
       \/ pc = "sign" /\ signer' = retrievePrivateKey(cred)
    /\ Return
    /\ UNCHANGED <<cluster, history>>

(* The token is written to the secrets of the namespace, or the write fails.*)
CreateOrUpdateSecrets ==
    /\ pc = "write"
    /\ \/ secret' = [secret EXCEPT ![cur][ns] = tok] /\ UNCHANGED budget
       \/ Fault /\ UNCHANGED secret
    /\ pc' = "namespaces"
    /\ UNCHANGED <<spec, cspec, role, session, podEnv, podCred, status, signer, cur, held, todo, ns,
                   arn, cred, request, ttl, tok, auth, history>>

UpdateStatus ==
    /\ pc = "namespaces" /\ todo = {}
    /\ \/ status' = [status EXCEPT ![cur] = auth] /\ UNCHANGED budget
       \/ Fault /\ UNCHANGED status
    /\ Return
    /\ UNCHANGED <<spec, cspec, role, session, podEnv, podCred, secret, signer, history>>

-----------------------------------------------------------------------------
(* The environment. *)

ChangeSpec(r, sp) ==
    /\ Disturb("spec") /\ sp # spec[r]
    /\ spec' = [spec EXCEPT ![r] = sp]
    /\ named' = [named EXCEPT ![r] = @ \cup {Account(sp)}]
    /\ UNCHANGED <<cspec, role, session, podEnv, podCred, secret, status, signer, local, worn>>

SyncRotator(r) ==
    /\ cspec[r] # spec[r]
    /\ cspec' = [cspec EXCEPT ![r] = spec[r]]
    /\ UNCHANGED <<spec, role, session, podEnv, podCred, secret, status, signer, local, history, budget>>

Annotate(a, x) ==
    /\ Disturb("annotate") /\ a \notin Absent /\ x # role[a]
    /\ role' = [role EXCEPT ![a] = x]
    /\ worn' = [worn EXCEPT ![a] = @ \cup {x}]
    /\ UNCHANGED <<spec, cspec, session, podEnv, podCred, secret, status, signer, local, named>>

ChangeMaxSession(x, d) ==
    /\ Disturb("session") /\ d # session[x]
    /\ session' = [session EXCEPT ![x] = d]
    /\ UNCHANGED <<spec, cspec, role, podEnv, podCred, secret, status, signer, local, history>>

(* The agent refreshes the credentials of the pod. *)
RotatePodCredentials ==
    /\ Disturb("rotate")
    /\ \E k \in Keys \ {signer.key, podCred.key, cred.key} : podCred' = [podCred EXCEPT !.key = k]
    /\ UNCHANGED <<spec, cspec, role, session, podEnv, secret, status, signer, local, history>>

-----------------------------------------------------------------------------
Init ==
    /\ spec \in [Rotators -> Specs] /\ cspec = spec
    /\ role = Annotation
    /\ \E d \in Lifetimes : session = [x \in Roles |-> d]
    /\ podEnv \in BOOLEAN
    /\ \E k \in Keys : podCred = [key |-> k, role |-> PodRole]
    /\ secret = [r \in Rotators |-> [n \in Namespaces |-> NoToken]]
    /\ status = [r \in Rotators |-> None]
    /\ signer = NoCredentials
    /\ pc = "idle" /\ cur = None /\ held = NoSpec /\ todo = {} /\ ns = None /\ arn = None
    /\ cred = NoCredentials /\ request = NoCredentials /\ ttl = 0 /\ tok = NoToken /\ auth = None
    /\ named = [r \in Rotators |-> {Account(spec[r])}]
    /\ worn = [a \in Accounts |-> {role[a]}]
    /\ budget = MaxDisturb

Cycle ==
    \/ DeferPatch
    \/ \E n \in Namespaces : HandlingToken(n)
    \/ ChooseAuthType \/ ChooseAuthTypeFails
    \/ GetSignedRequestForPodIdentity \/ GetSignedRequestForWebIdentity \/ AssumeRoleRefused
    \/ SignV4a \/ createArtifactoryToken \/ HandlingTokenFails
    \/ CreateOrUpdateSecrets \/ UpdateStatus

Environment ==
    \/ \E r \in Rotators, sp \in Specs : ChangeSpec(r, sp)
    \/ \E r \in Rotators : SyncRotator(r)
    \/ \E a \in Accounts, x \in Roles \cup {None} : Annotate(a, x)
    \/ \E x \in Roles, d \in Lifetimes : ChangeMaxSession(x, d)
    \/ RotatePodCredentials

Next ==
    \/ \E r \in Rotators : ValidateObjectSpec(r) \/ ValidateObjectSpecFails(r)
    \/ Cycle
    \/ Environment

Spec == Init /\ [][Next]_vars

(* Every outcome of Reconcile requeues the SecretRotator, a cycle goes on,  *)
(* and watch events arrive.                                                 *)
Fairness ==
    /\ WF_vars(Cycle)
    /\ \A r \in Rotators : SF_vars(ValidateObjectSpec(r)) /\ WF_vars(SyncRotator(r))

FairSpec == Spec /\ Fairness

-----------------------------------------------------------------------------
(* Properties. *)

Points == {"idle", "patch", "namespaces", "account", "pod", "web", "sign", "exchange", "write"}

(* The shape of the state; an idle worker holds no token.                   *)
TypeOK ==
    /\ spec \in [Rotators -> Specs] /\ cspec \in [Rotators -> Specs]
    /\ role \in [Accounts -> Roles \cup {None}] /\ session \in [Roles -> Lifetimes]
    /\ podEnv \in BOOLEAN /\ podCred \in Credentials /\ podCred.role = PodRole
    /\ secret \in [Rotators -> [Namespaces -> Token]]
    /\ status \in [Rotators -> AuthTypes \cup {None}]
    /\ signer \in Credentials /\ cred \in Credentials /\ request \in Credentials
    /\ pc \in Points /\ cur \in Rotators \cup {None} /\ (pc # "idle" => cur \in Rotators)
    /\ held \in Specs \cup {NoSpec} /\ (pc # "idle" => held \in Specs)
    /\ todo \subseteq Namespaces /\ ns \in Namespaces \cup {None}
    /\ (pc \notin {"idle", "patch", "namespaces"} => ns \in Namespaces)
    /\ arn \in Roles \cup {None} /\ (pc \in {"web", "sign", "exchange"} => arn \in Roles)
    /\ ttl \in Lifetimes \cup {DefaultLifetime, 0}
    /\ tok \in Token /\ (pc = "idle" => tok = NoToken)
    /\ auth \in AuthTypes \cup {None}
    /\ named \in [Rotators -> SUBSET Accounts] /\ worn \in [Accounts -> SUBSET (Roles \cup {None})]
    /\ budget \in 0..MaxDisturb

(* The roles SecretRotator r may be served with: those its service accounts *)
(* have had, and the role of the operator's pod if Pod Identity is there.   *)
Entitled(r) == (UNION {worn[a] : a \in named[r]}) \cup {x \in {PodRole} : podEnv}

(* Tenants are isolated: a token in a secret of a SecretRotator, or about   *)
(* to be written to one, is of a role that one of its own service accounts  *)
(* has had, or of the operator's pod.  Neither the signer's cache, nor a    *)
(* cycle that failed half way, nor a change of spec, annotation or          *)
(* credentials in its middle hands out the token of another tenant.         *)
TenantIsolation ==
    /\ \A r \in Rotators, n \in Namespaces : secret[r][n].role \in Entitled(r) \cup {None}
    /\ pc # "idle" => tok.role \in Entitled(cur) \cup {None}

(* What the documentation of authType says of spec.authType: the method.    *)
Method(sp) == CASE podEnv /\ sp.auth # "webIdentity" -> "podIdentity"
                [] ~podEnv /\ sp.auth = "podIdentity" -> None
                [] OTHER -> "webIdentity"

WantedRole(sp) == IF Method(sp) = "podIdentity" THEN PodRole ELSE role[Account(sp)]

Servable(sp) ==
    /\ Complete(sp) \/ role[Operator] # None \/ podEnv
    /\ Method(sp) # None /\ Account(sp) \notin Absent
    /\ Method(sp) = "webIdentity" => <<Account(sp), role[Account(sp)]>> \in Trust

(* Once specs, annotations, roles and credentials stay as they are, every   *)
(* secret of a SecretRotator that can be served ends up with a token of the *)
(* role its current spec calls for, asked for with the lifetime of the role *)
(* (the default if the role's ARN has a path), and the status tells the     *)
(* method.                                                                  *)
IdentityConverges ==
    \A r \in Rotators : <>[](Servable(spec[r]) =>
        /\ status[r] = Method(spec[r])
        /\ \A n \in Namespaces :
              /\ secret[r][n].role = WantedRole(spec[r])
              /\ secret[r][n].ttl = IF /\ Method(spec[r]) = "webIdentity"
                                      /\ WantedRole(spec[r]) \in Pathed
                                   THEN DefaultLifetime
                                   ELSE session[WantedRole(spec[r])])

=============================================================================
