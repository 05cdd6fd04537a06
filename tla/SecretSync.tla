----------------------------- MODULE SecretSync -----------------------------
(***************************************************************************)
(* One reconciliation cycle of the operator after another: the body of     *)
(* Reconcile from ValidateObjectSpec to UpdateStatus, one action per call  *)
(* to the API server, for several SecretRotators served by the single      *)
(* worker (MaxConcurrentReconciles is 1), while users edit the cluster.    *)
(*                                                                         *)
(* The API server holds the secrets and the SecretRotator objects.  Reads  *)
(* go through informer caches that may lag behind it; writes go straight   *)
(* to it.  Two versions of an object have the same resourceVersion iff     *)
(* they are equal, because no write of the operator that changes nothing   *)
(* is a new version.                                                       *)
(***************************************************************************)
EXTENDS Naturals, FiniteSets

CONSTANTS
    Rotators,     \* SecretRotator objects
    Namespaces,   \* namespaces of the cluster
    Names,        \* secret names
    Types,        \* secret types: "docker", "generic"
    Tokens,       \* Artifactory access tokens
    None,         \* no value
    User,         \* the owner of every secret no SecretRotator controls
    Home,         \* namespace of a SecretRotator; None for a cluster-wide CRD
    NameOf,       \* metadata.name of a SecretRotator
    Lag,          \* may the informer caches be behind the API server?
    Interleave,   \* may users act in the middle of a cycle?
    Disturbances, \* which kinds of disturbance happen
    MaxDisturb    \* bound: how many of them happen

Keys == Namespaces \X Names

ASSUME NoneAssumption == None \notin Rotators \cup Namespaces \cup Types \cup Tokens \cup {User}
ASSUME UserAssumption == User \notin Rotators
ASSUME HomeAssumption == Home \in [Rotators -> Namespaces \cup {None}]
ASSUME FlagAssumption == Lag \in BOOLEAN /\ Interleave \in BOOLEAN
ASSUME BoundAssumption ==
    /\ MaxDisturb \in Nat
    /\ Disturbances \subseteq {"fault", "crash", "relabel", "reconfigure", "user"}

VARIABLES
    \* the API server
    secrets,   \* the secret stored under each key
    robj,      \* each SecretRotator: its secrets to generate and its status
    selected,  \* the namespaces each SecretRotator's selector matches
    pending,   \* SecretRotators with a namespace event to be handled
    \* the operator's informer caches
    cache,     \* secrets as the cache shows them
    crobj,     \* SecretRotators as the cache shows them
    \* the local variables of Reconcile
    pc,        \* the point the cycle has reached
    cur,       \* the SecretRotator being reconciled
    obj,       \* its object, as held by the cycle
    gen,       \* tokenDetails.GeneratedSecrets
    list,      \* tokenDetails.NamespaceList
    todo,      \* namespaces the loop of ManagingSecrets has yet to visit
    ns,        \* the namespace it is at
    names,     \* names still to be created or updated in ns
    dels,      \* keys still to be deleted
    tok,       \* tokenDetails.Token
    managed,   \* tokenDetails.SecretManagedByNamespaces
    failed,    \* domain of tokenDetails.FailedNamespaces
    \* history and environment
    wrote,     \* the keys each SecretRotator has ever written
    budget     \* disturbances that may still happen

server == <<secrets, robj, selected, pending>>
caches == <<cache, crobj>>
local  == <<pc, cur, obj, gen, list, todo, ns, names, dels, tok, managed, failed>>
vars   == <<server, caches, local, wrote, budget>>

-----------------------------------------------------------------------------
(* Objects. *)

Secret == [owner : Rotators \cup {User, None}, type : Types \cup {None}, token : Tokens \cup {None}]

NoSecret == [owner |-> None, type |-> None, token |-> None]

Exists(x) == x.owner # None

Generated == [Names -> Types \cup {None}]

Configured(g) == {s \in Names : g[s] # None}

Managed == [Namespaces -> SUBSET Names]

NothingManaged == [n \in Namespaces |-> {}]

(* The annotation "uid" holds a fresh random string after every namespace   *)
(* event; a number that grows stands for it.                                *)
Rotator == [gen : Generated, uid : Nat, prov : SUBSET Namespaces,
            managed : Managed, failed : SUBSET Namespaces]

NewRotator(g) ==
    [gen |-> g, uid |-> 0, prov |-> {}, managed |-> NothingManaged, failed |-> {}]

-----------------------------------------------------------------------------
(* The pure functions of the code. *)

(* Mutant: any SecretRotator's secret counts as owned. *)
OwnedByAnyRotator(x, r) == x.owner \in Rotators

(* resource/secret.go: the controller reference is compared by name. *)
IsSecretOwnedBy(x, r) == x.owner \in Rotators /\ NameOf[x.owner] = NameOf[r]

(* Mutant: the difference the wrong way round. *)
addedNamespaces(current, provisioned) == current \ provisioned

getRemovedNamespaces(current, provisioned) == provisioned \ current

(* Mutant: no check that the new state has an entry for the namespace. *)
findDifferencesEverywhere(new, old) == {k \in Keys : k[2] \in old[k[1]] \ new[k[1]]}

(* Namespaces in which the new state has no entry are left alone. *)
findSecretDifferences(new, old) ==
    {k \in Keys : new[k[1]] # {} /\ k[2] \in old[k[1]] \ new[k[1]]}

(* controllerutil.SetControllerReference refuses a cross-namespace owner. *)
OwnerReferenceAllowed(r, n) == Home[r] \in {None, n}

InUse == {secrets[k].token : k \in Keys} \cup {cache[k].token : k \in Keys}

-----------------------------------------------------------------------------
(* What every write to the API server does to the informer caches. *)

Put(k, x) == /\ secrets' = [secrets EXCEPT ![k] = x]
             /\ cache' = IF Lag THEN cache ELSE secrets'

PutRotator(r, o) == /\ robj' = [robj EXCEPT ![r] = o]
                    /\ crobj' = IF Lag THEN crobj ELSE robj'

Disturb(kind) == kind \in Disturbances /\ budget > 0 /\ budget' = budget - 1

Fault == Disturb("fault")

(* Reconcile returns: its local variables are gone. *)
Return ==
    /\ pc' = "idle" /\ cur' = None /\ ns' = None /\ tok' = None
    /\ obj' = NewRotator([s \in Names |-> None])
    /\ gen' = [s \in Names |-> None]
    /\ list' = {} /\ todo' = {} /\ names' = {} /\ dels' = {} /\ failed' = {}
    /\ managed' = NothingManaged

-----------------------------------------------------------------------------
(* Reconcile, InitializeResource. *)

ValidSpec(r) == Configured(crobj[r].gen) # {} /\ selected[r] # {}

ValidateObjectSpec(r) ==
    /\ pc = "idle"
    /\ ValidSpec(r)
    /\ pc' = "patch" /\ cur' = r
    /\ obj' = crobj[r] /\ gen' = crobj[r].gen
    /\ list' = selected[r] /\ todo' = selected[r]
    /\ UNCHANGED <<server, caches, ns, names, dels, tok, managed, failed, wrote, budget>>

(* No secret is configured or no namespace is selected: Reconcile returns,  *)
(* to try again in a second, before anything changes.                       *)
ValidateObjectSpecFails(r) == pc = "idle" /\ ~ValidSpec(r) /\ UNCHANGED vars

(* The deferred, empty status patch makes the held object the server's, its *)
(* resourceVersion and status included; its failure is only logged.  Then   *)
(* ManagingSecrets enters DeleteOutdatedSecrets.                            *)
DeferPatch ==
    /\ pc = "patch"
    /\ \/ obj' = robj[cur] /\ UNCHANGED budget
       \/ Fault /\ UNCHANGED obj
    /\ dels' = getRemovedNamespaces(list, obj'.prov) \X Configured(gen)
    /\ pc' = "outdated"
    /\ UNCHANGED <<server, caches, cur, gen, list, todo, ns, names, tok, managed, failed, wrote>>

-----------------------------------------------------------------------------
(* DeleteOutdatedSecrets: one DeleteSecret per removed namespace and        *)
(* configured name.                                                         *)

DeleteSecret(k) ==
    /\ pc = "outdated" /\ k \in dels
    /\ dels' = dels \ {k}
    /\ \/ /\ ~IsSecretOwnedBy(cache[k], cur)
          /\ UNCHANGED <<secrets, cache, failed>>
       \/ /\ IsSecretOwnedBy(cache[k], cur)
          /\ Put(k, NoSecret)
          /\ failed' = IF Exists(secrets[k]) THEN failed ELSE failed \cup {k[1]}
    /\ UNCHANGED <<robj, selected, pending, crobj, pc, cur, obj, gen, list, todo, ns, names,
                   tok, managed, wrote, budget>>

(* Mutant: the error of DeleteSecret is only logged. *)
DeleteSecretFailsSilently(k) ==
    /\ pc = "outdated" /\ k \in dels
    /\ Fault
    /\ dels' = dels \ {k}
    /\ UNCHANGED <<server, caches, pc, cur, obj, gen, list, todo, ns, names,
                   tok, managed, failed, wrote>>

(* The Get or the Delete fails, the latter possibly after it took effect. *)
DeleteSecretFails(k) ==
    /\ pc = "outdated" /\ k \in dels
    /\ Fault
    /\ dels' = dels \ {k}
    /\ failed' = failed \cup {k[1]}
    /\ \/ UNCHANGED <<secrets, cache>>
       \/ IsSecretOwnedBy(cache[k], cur) /\ Put(k, NoSecret)
    /\ UNCHANGED <<robj, selected, pending, crobj, pc, cur, obj, gen, list, todo, ns, names,
                   tok, managed, wrote>>

-----------------------------------------------------------------------------
(* The loop of ManagingSecrets over the selected namespaces. *)

(* Mutant: a secret that is not found counts as unreadable. *)
SkippedIfMissing(n, unread) ==
    {s \in Configured(gen) : s \in unread \/ ~IsSecretOwnedBy(cache[<<n, s>>], cur)}

(* Mutant: the owner is not looked at. *)
SkippedIfUnread(n, unread) == Configured(gen) \cap unread

(* A name is skipped in n if its secret cannot be read or is not ours. *)
Skipped(n, unread) ==
    {s \in Configured(gen) : \/ s \in unread
                             \/ /\ Exists(cache[<<n, s>>])
                                /\ ~IsSecretOwnedBy(cache[<<n, s>>], cur)}

(* Mutant: no token is requested for a namespace in which all is skipped. *)
TokenIfNeeded == IF tok = None /\ names' # {} THEN "token" ELSE "write"

(* HandlingToken does nothing if the cycle has a token. *)
AfterCheck == IF tok = None THEN "token" ELSE "write"

CheckExisting(n) ==
    /\ pc \in {"outdated", "generated"} /\ dels = {} /\ n \in todo
    /\ todo' = todo \ {n} /\ ns' = n
    /\ \E unread \in SUBSET Configured(gen) :
          /\ IF unread = {} THEN UNCHANGED budget ELSE Fault
          /\ names' = Configured(gen) \ Skipped(n, unread)
          /\ failed' = IF Skipped(n, unread) = {} THEN failed ELSE failed \cup {n}
    /\ pc' = AfterCheck
    /\ UNCHANGED <<server, caches, cur, obj, gen, list, dels, tok, managed, wrote>>

(* The first namespace of a cycle mints the token for all of them. *)
HandlingToken ==
    /\ pc = "token"
    /\ \E t \in Tokens \ InUse : tok' = t
    /\ pc' = "write"
    /\ UNCHANGED <<server, caches, cur, obj, gen, list, todo, ns, names, dels,
                   managed, failed, wrote, budget>>

(* AWS or Artifactory refuses: ManagingSecrets returns the error. *)
HandlingTokenFails ==
    /\ pc = "token" /\ Fault
    /\ Return
    /\ UNCHANGED <<server, caches, wrote>>

(* Mutant: the data of an existing secret is kept. *)
DesiredKeepingToken(s) ==
    IF Exists(cache[<<ns, s>>])
    THEN [cache[<<ns, s>>] EXCEPT !.type = gen[s]]
    ELSE [owner |-> cur, type |-> gen[s], token |-> tok]

(* What CreateOrUpdateSecrets sends: the secret the cache shows, with the   *)
(* new type and token, or a new one that cur controls.                      *)
Desired(s) ==
    IF Exists(cache[<<ns, s>>])
    THEN [cache[<<ns, s>>] EXCEPT !.type = gen[s], !.token = tok]
    ELSE [owner |-> cur, type |-> gen[s], token |-> tok]

(* Whether the API server takes it.  An Update of what the cache shows      *)
(* needs the resourceVersion to be current (if the secret is gone, the      *)
(* Create that follows is refused because it carries one).  One of a        *)
(* secret the cache does not show carries none, so it is unconditional, and *)
(* becomes a Create if there is no secret.  The type is immutable.          *)
Accepted(s) ==
    LET k == <<ns, s>>
    IN  /\ Exists(cache[k]) => secrets[k] = cache[k]
        /\ ~Exists(cache[k]) => OwnerReferenceAllowed(cur, ns)
        /\ Exists(secrets[k]) => secrets[k].type = gen[s]

Write(s) ==
    /\ Accepted(s)
    /\ Put(<<ns, s>>, Desired(s))
    /\ wrote' = [wrote EXCEPT ![cur] = @ \cup {<<ns, s>>}]

CreateOrUpdateSecrets(s) ==
    /\ pc = "write" /\ s \in names
    /\ names' = names \ {s}
    /\ Write(s)
    /\ managed' = [managed EXCEPT ![ns] = @ \cup {s}]
    /\ UNCHANGED <<robj, selected, pending, crobj, pc, cur, obj, gen, list, todo, ns, dels,
                   tok, failed, budget>>

(* Mutant: no "continue" after the failure, the name is recorded anyway. *)
CreateOrUpdateSecretsFailsThrough(s) ==
    /\ pc = "write" /\ s \in names
    /\ names' = names \ {s}
    /\ failed' = failed \cup {ns}
    /\ (~Accepted(s) /\ UNCHANGED budget) \/ Fault
    /\ managed' = [managed EXCEPT ![ns] = @ \cup {s}]
    /\ UNCHANGED <<server, caches, pc, cur, obj, gen, list, todo, ns, dels, tok, wrote>>

(* Mutant: the failure is logged and not added to failedSecrets. *)
CreateOrUpdateSecretsFailsSilently(s) ==
    /\ pc = "write" /\ s \in names
    /\ names' = names \ {s}
    /\ (~Accepted(s) /\ UNCHANGED budget) \/ Fault
    /\ UNCHANGED <<server, caches, pc, cur, obj, gen, list, todo, ns, dels,
                   tok, managed, failed, wrote>>

(* The write is refused, loses the race between its Update (not found) and  *)
(* its Create (already exists), fails, or takes effect with its answer lost.*)
CreateOrUpdateSecretsFails(s) ==
    /\ pc = "write" /\ s \in names
    /\ names' = names \ {s}
    /\ failed' = failed \cup {ns}
    /\ \/ /\ \/ ~Accepted(s)
             \/ Interleave /\ ~Exists(cache[<<ns, s>>]) /\ Exists(secrets[<<ns, s>>])
          /\ UNCHANGED <<secrets, cache, wrote, budget>>
       \/ Fault /\ UNCHANGED <<secrets, cache, wrote>>
       \/ Fault /\ Write(s)
    /\ UNCHANGED <<robj, selected, pending, crobj, pc, cur, obj, gen, list, todo, ns, dels,
                   tok, managed>>

(* The end of the body of the loop: DeleteOutdatedGeneratedSecrets, if the  *)
(* status the cycle holds records any secret, looks for what it will delete.*)
OutdatedGenerated ==
    IF obj.managed = NothingManaged THEN {} ELSE findSecretDifferences(managed, obj.managed)

FinishNamespace ==
    /\ pc = "write" /\ names = {}
    /\ dels' = OutdatedGenerated
    /\ pc' = "generated"
    /\ UNCHANGED <<server, caches, cur, obj, gen, list, todo, ns, names, tok, managed,
                   failed, wrote, budget>>

(* Deletes by name; a secret that is not there is skipped. *)
DeleteGeneratedSecret(k) ==
    /\ pc = "generated" /\ k \in dels
    /\ dels' = dels \ {k}
    /\ Put(k, NoSecret)
    /\ UNCHANGED <<robj, selected, pending, crobj, pc, cur, obj, gen, list, todo, ns, names,
                   tok, managed, failed, wrote, budget>>

(* Any other error ends the cycle, possibly after the deletion took effect. *)
DeleteGeneratedSecretFails(k) ==
    /\ pc = "generated" /\ k \in dels /\ Fault
    /\ \/ UNCHANGED <<secrets, cache>>
       \/ Put(k, NoSecret)
    /\ Return
    /\ UNCHANGED <<robj, selected, pending, crobj, wrote>>

-----------------------------------------------------------------------------
(* UpdateStatus.  ProvisionedNamespaces has grown by every namespace of the *)
(* list, whatever happened in it.                                           *)

NewStatus == [obj EXCEPT !.prov = list, !.managed = managed, !.failed = failed]

CycleDone == pc = "generated" /\ dels = {} /\ todo = {}

UpdateStatus ==
    /\ CycleDone
    /\ obj = robj[cur]
    /\ PutRotator(cur, NewStatus)
    /\ Return
    /\ UNCHANGED <<secrets, cache, selected, pending, wrote, budget>>

(* A conflict with a newer version, a failed call, or a lost answer. *)
UpdateStatusFails ==
    /\ CycleDone
    /\ \/ obj # robj[cur] /\ UNCHANGED <<robj, crobj, budget>>
       \/ Fault /\ UNCHANGED <<robj, crobj>>
       \/ Fault /\ obj = robj[cur] /\ PutRotator(cur, NewStatus)
    /\ Return
    /\ UNCHANGED <<secrets, cache, selected, pending, wrote>>

-----------------------------------------------------------------------------
(* The environment. *)

(* The operator restarts: no local state survives, the caches are rebuilt,  *)
(* and of the namespace events not yet handled only the creation of         *)
(* namespaces younger than 20 seconds is seen again.                        *)
Crash ==
    /\ pc # "idle"
    /\ Disturb("crash")
    /\ Return
    /\ cache' = secrets /\ crobj' = robj
    /\ pending' \in SUBSET pending
    /\ UNCHANGED <<secrets, robj, selected, wrote>>

UsersMayAct == Interleave \/ pc = "idle"

UserDelete(k) ==
    /\ UsersMayAct /\ Disturb("user")
    /\ Exists(secrets[k])
    /\ Put(k, NoSecret)
    /\ UNCHANGED <<robj, selected, pending, crobj, local, wrote>>

UserCreate(k, t) ==
    /\ UsersMayAct /\ Disturb("user")
    /\ ~Exists(secrets[k])
    /\ Put(k, [owner |-> User, type |-> t, token |-> None])
    /\ UNCHANGED <<robj, selected, pending, crobj, local, wrote>>

(* Labels of namespaces change. *)
Relabel(r, matching) ==
    /\ UsersMayAct /\ Disturb("relabel")
    /\ matching # selected[r]
    /\ selected' = [selected EXCEPT ![r] = matching]
    /\ pending' = pending \cup {r}
    /\ UNCHANGED <<secrets, robj, caches, local, wrote>>

(* The event filter, in the informer's own goroutine, sees the namespace    *)
(* event and writes a new annotation into the SecretRotator the cache shows;*)
(* on a conflict the event is dropped.                                      *)
HandlingNamespaceEvents(r) ==
    /\ r \in pending
    /\ pending' = pending \ {r}
    /\ IF crobj[r] = robj[r]
       THEN PutRotator(r, [robj[r] EXCEPT !.uid = @ + 1])
       ELSE UNCHANGED <<robj, crobj>>
    /\ UNCHANGED <<secrets, cache, selected, local, wrote, budget>>

(* spec.generatedSecrets changes. *)
Reconfigure(r, g) ==
    /\ UsersMayAct /\ Disturb("reconfigure")
    /\ g # robj[r].gen
    /\ PutRotator(r, [robj[r] EXCEPT !.gen = g])
    /\ UNCHANGED <<secrets, cache, selected, pending, local, wrote>>

(* Watch events arrive: in the order of the writes, so that the cache of    *)
(* secrets always shows them as they were at some moment.                   *)
SyncSecrets ==
    /\ cache # secrets
    /\ cache' = secrets
    /\ UNCHANGED <<server, crobj, local, wrote, budget>>

SyncRotator(r) ==
    /\ crobj[r] # robj[r]
    /\ crobj' = [crobj EXCEPT ![r] = robj[r]]
    /\ UNCHANGED <<server, cache, local, wrote, budget>>

-----------------------------------------------------------------------------
Init ==
    /\ secrets = [k \in Keys |-> NoSecret]
    /\ \E g \in {h \in Generated : Configured(h) # {}} :
          robj = [r \in Rotators |-> NewRotator(g)]
    /\ \E sel \in SUBSET Namespaces : sel # {} /\ selected = [r \in Rotators |-> sel]
    /\ pending = {}
    /\ cache = secrets /\ crobj = robj
    /\ pc = "idle" /\ cur = None /\ ns = None /\ tok = None
    /\ obj = NewRotator([s \in Names |-> None])
    /\ gen = [s \in Names |-> None]
    /\ list = {} /\ todo = {} /\ names = {} /\ dels = {} /\ failed = {}
    /\ managed = NothingManaged
    /\ wrote = [r \in Rotators |-> {}]
    /\ budget = MaxDisturb

OperatorStep ==
    \/ DeferPatch
    \/ \E k \in Keys : DeleteSecret(k) \/ DeleteSecretFails(k)
    \/ \E n \in Namespaces : CheckExisting(n)
    \/ HandlingToken \/ HandlingTokenFails
    \/ \E s \in Names : CreateOrUpdateSecrets(s) \/ CreateOrUpdateSecretsFails(s)
    \/ FinishNamespace
    \/ \E k \in Keys : DeleteGeneratedSecret(k) \/ DeleteGeneratedSecretFails(k)
    \/ UpdateStatus \/ UpdateStatusFails

Environment ==
    \/ Crash
    \/ \E k \in Keys : UserDelete(k)
    \/ \E k \in Keys, t \in Types : UserCreate(k, t)
    \/ \E r \in Rotators, m \in SUBSET Namespaces : Relabel(r, m)
    \/ \E r \in Rotators : HandlingNamespaceEvents(r)
    \/ \E r \in Rotators, g \in Generated : Reconfigure(r, g)

Sync == SyncSecrets \/ (\E r \in Rotators : SyncRotator(r))

Next ==
    \/ \E r \in Rotators : ValidateObjectSpec(r) \/ ValidateObjectSpecFails(r)
    \/ OperatorStep
    \/ Environment
    \/ Sync

Spec == Init /\ [][Next]_vars

(* The work queue serves every SecretRotator again and again: each outcome *)
(* of Reconcile requeues it.  A cycle that has begun goes on, and watch    *)
(* events arrive.                                                          *)
Fairness ==
    /\ \A r \in Rotators : SF_vars(ValidateObjectSpec(r))
    /\ WF_vars(OperatorStep)
    /\ WF_vars(SyncSecrets)
    /\ \A r \in Rotators : WF_vars(SyncRotator(r))

FairSpec == Spec /\ Fairness

-----------------------------------------------------------------------------
(* Properties. *)

ClusterTypes ==
    /\ secrets \in [Keys -> Secret] /\ cache \in [Keys -> Secret]
    /\ robj \in [Rotators -> Rotator] /\ crobj \in [Rotators -> Rotator]
    /\ selected \in [Rotators -> SUBSET Namespaces] /\ pending \subseteq Rotators
    /\ wrote \in [Rotators -> SUBSET Keys]
    /\ budget \in 0..MaxDisturb

LocalTypes ==
    /\ pc \in {"idle", "patch", "outdated", "token", "write", "generated"}
    /\ cur \in Rotators \cup {None} /\ (pc # "idle" => cur \in Rotators)
    /\ obj \in Rotator /\ gen \in Generated
    /\ list \subseteq Namespaces /\ todo \subseteq list
    /\ ns \in Namespaces \cup {None} /\ (pc \in {"token", "write"} => ns \in Namespaces)
    /\ names \subseteq Configured(gen) /\ (pc \notin {"token", "write"} => names = {})
    /\ dels \subseteq Keys
    /\ tok \in Tokens \cup {None} /\ (pc \in {"write", "generated"} => tok \in Tokens)
    /\ managed \in Managed /\ failed \subseteq Namespaces

(* The shape of the cluster, the caches, and the local state of a cycle: in *)
(* particular a cycle that writes has a token, a namespace and a rotator.   *)
TypeOK == ClusterTypes /\ LocalTypes

(* A step of the operator that makes the secret k disappear. *)
OperatorDeletes(k) == k \in dels \ dels' /\ Exists(secrets[k]) /\ ~Exists(secrets'[k])

(* A step of the operator that stores a token under k. *)
OperatorWrites(k) == secrets'[k].token \notin {None, secrets[k].token}

(* Whatever fails, lags, races or restarts, ManagingSecrets only ever       *)
(* deletes a secret under a key that a SecretRotator of the same name has   *)
(* written before: the names and namespaces users keep for themselves are   *)
(* never touched by DeleteOutdatedSecrets or DeleteOutdatedGeneratedSecrets.*)
DeletesOnlyOwnWrites ==
    [][\A k \in Keys : OperatorDeletes(k) =>
          \E r \in Rotators : NameOf[r] = NameOf[cur] /\ k \in wrote[r]]_vars

(* When a cycle is about to report its status, every secret configured in a *)
(* selected namespace that is not among the failed ones holds the token of  *)
(* this cycle and the configured type, and is recorded as managed.  (It is  *)
(* about a cycle users do not interfere with.)                              *)
RotationReported ==
    CycleDone =>
        \A n \in list \ failed, s \in Configured(gen) :
            /\ s \in managed[n]
            /\ secrets[<<n, s>>].token = tok
            /\ secrets[<<n, s>>].type = gen[s]

(* When a cycle is about to forget the namespaces that are no longer        *)
(* selected, none of those it does not report as failed still has a         *)
(* configured secret of this SecretRotator.  (Coherent caches, and users    *)
(* who do not interfere with a cycle.)                                      *)
CleanupReported ==
    CycleDone =>
        \A n \in obj.prov \ (list \cup failed), s \in Configured(gen) :
            secrets[<<n, s>>].owner # cur

(* With coherent caches and users who stay out of a cycle, no write and no  *)
(* deletion in an unselected namespace hits a secret that the SecretRotator *)
(* being reconciled does not control.                                       *)
OwnSecretsOnly ==
    [][\A k \in Keys : OperatorWrites(k) \/ (pc = "outdated" /\ OperatorDeletes(k)) =>
          secrets[k].owner \in {None, cur}]_vars

(* What the log line of ManagingSecrets promises of a foreign secret: it    *)
(* has to be deleted manually.                                              *)
NoForeignDelete == [][\A k \in Keys : OperatorDeletes(k) => secrets[k].owner = cur]_vars

(* What the comment on DeleteOutdatedGeneratedSecrets says: it deletes      *)
(* secrets that are not present in the current configuration.               *)
ConfiguredNotDeleted ==
    [][\A k \in Keys : pc = "generated" /\ OperatorDeletes(k) => k[2] \notin Configured(gen)]_vars

Wanted(r, k) ==
    /\ k[1] \in selected[r] /\ OwnerReferenceAllowed(r, k[1])
    /\ k[2] \in Configured(robj[r].gen)

(* Once disturbances end, every secret that is wanted in a namespace is     *)
(* there for good, of the configured type unless it belongs to somebody     *)
(* else: failures, crashes and conflicts are made good by later cycles.     *)
Convergence ==
    \A r \in Rotators : <>[](\A k \in Keys : Wanted(r, k) =>
        /\ Exists(secrets[k])
        /\ secrets[k].owner = r => secrets[k].type = robj[r].gen[k[2]])

(* A SecretRotator's own secret keeps getting fresh tokens for as long as   *)
(* it is wanted.                                                            *)
Rotates ==
    \A r \in Rotators, k \in Keys :
        <>[](Wanted(r, k) /\ secrets[k].owner = r) => []<><<OperatorWrites(k)>>_vars

(* Once disturbances end the operator stops deleting secrets.               *)
NoChurn == <>[][\A k \in Keys : ~OperatorDeletes(k)]_vars

Leftover(r, n) == n \notin selected[r] /\ \E s \in Names : secrets[<<n, s>>].owner = r

(* A namespace the status records as provisioned and the selector no longer *)
(* matches is cleaned of the secrets that are configured, or reported as    *)
(* failed, as long as the selector matches some namespace.                  *)
RecordedCleanup ==
    \A r \in Rotators, n \in Namespaces :
        n \in robj[r].prov /\ n \notin selected[r] ~>
            \/ n \in selected[r] \cup robj[r].failed \/ selected[r] = {}
            \/ \A s \in Configured(robj[r].gen) : secrets[<<n, s>>].owner # r

(* What the comment on DeleteOutdatedSecrets says: secrets the controller   *)
(* created in namespaces that are no longer selected are removed; here only *)
(* while the selector matches some namespace.                               *)
UnselectedRemoved ==
    \A r \in Rotators : <>[](selected[r] # {} => \A n \in Namespaces : ~Leftover(r, n))

-----------------------------------------------------------------------------
(* The abstract specification.  What a cycle acknowledges and what a status *)
(* claims are sets of keys.                                                 *)

KeysOf(m) == {k \in Keys : k[2] \in m[k[1]]}

Contract ==
    INSTANCE RotationContract
    WITH active <- cur, token <- tok, done <- KeysOf(managed), ledger <- wrote,
         claim <- [r \in Rotators |-> KeysOf(robj[r].managed)]

(* With coherent caches, users who stay out of a cycle and unique names,    *)
(* ManagingSecrets and UpdateStatus, with every failure, lost answer,       *)
(* conflict and restart, implement the contract of a rotation: free or own  *)
(* secrets are written, once written ones removed, and never one this cycle *)
(* has acknowledged; a status claims exactly what its cycle acknowledged.   *)
HonoursContract == Contract!Spec

=============================================================================
