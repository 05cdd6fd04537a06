# A TLA+ verification of the JFrog Registry Operator

The JFrog Registry Operator is a Kubernetes controller. For every custom
resource `SecretRotator` it proves an AWS identity to JFrog Artifactory, gets an
access token for it, and keeps that token in secrets of every namespace the
resource selects, renewing it before it expires. This directory holds TLA+
models of that controller, the TLC runs that check them on small instances and
TLAPS proofs of their main safety properties for every instance.
`PROJECT.json` lists the components, the runs, the source lines behind every
definition, the findings, the hazards and the theorems.

## The system and its parts

| Part | State | Operations | Interacts with |
|---|---|---|---|
| Reconcile and its schedule (`controllers/secretrotator_controller.go`) | work queue and timers of controller-runtime | `Reconcile`, the event filter `WatchNsChanges` | one worker (`MaxConcurrentReconciles: 1`); the filter runs in the informer's goroutine beside it |
| Lifecycle of a `SecretRotator` (`controllers/secretrotator_operations.go`) | conditions, finalizer, deletion timestamp and status of the object | `HandleConditions`, `HandleFinalizers`, `SecretRotatorChecker`, `DeferPatch`, `UpdateStatus` | API server (optimistic locking), informer cache, garbage collector |
| Secret synchronisation (`ManagingSecrets`, `internal/resource`, `internal/operations/operations.go`) | secrets; `status.provisionedNamespaces`, `secretManagedByNamespaces`, `failedNamespaces`; the local `tokenDetails` | `DeleteOutdatedSecrets`, `CreateOrUpdateSecrets`, `DeleteOutdatedGeneratedSecrets` | users and other SecretRotators that edit the same secrets |
| Token exchange (`internal/handler`) | none of its own between cycles | `HandlingToken`, the Pod Identity and web identity flows, `createArtifactoryToken` | service accounts, STS, IAM, the Pod Identity agent, Artifactory |
| Signer (`internal/sign/signer.go`, `internal/sign/v4a`) | one process-wide cache of the last derived key | `retrievePrivateKey`, `SignV4a`; as a library `SignHTTP`, `PresignHTTP` | shared by the cycles of all SecretRotators; its request is forwarded to AWS by Artifactory |
| Validation (`ValidateObjectSpec`) | none | guards of a cycle | spec, namespaces, the operator's own pod and account |
| Timing (last lines of `Reconcile`, `RequeueInterval`) | the delay of the next cycle | `RequeueAfter`, retries after an error | role sessions, `spec.refreshTime`, the work queue |
| Certificates (`HandleCerts`, `createCustomHTTPClient`) | files under `/usr/tmp/<name>` | written in each cycle, read in each token request | a user's secret with certificates |
| Docker configuration (`generateDockerConfigJSON`) | the hosts in a docker secret | written with the token | URL and subdomains of the spec |

What is hard here: reads come from caches that lag behind the writes of the same
process; a cycle is a dozen API calls, each of which may fail, conflict or lose
its answer, and whose effects outlive the cycle that failed; what has been done
is recorded only at the end, in one status update; the object held by a cycle is
replaced under it by the deferred patch; namespace events change the object
concurrently; ownership is by name while the garbage collector goes by UID;
AWS identities of several tenants pass through one process; certificate files
outlive the configuration they came from; a token's life goes on while the
worker is busy elsewhere. The list under
`hazards` in `PROJECT.json` names each of these at its line, with the properties
that would catch it going wrong.

What makes each part correct:

* schedule: no SecretRotator is ever forgotten, and the operator does not
  trigger itself for ever;
* lifecycle: deletion completes, and secrets belong to the object that exists;
* synchronisation: only its own secrets are written and deleted, what is not
  rotated is reported, what is wanted appears, what is unselected goes;
* token exchange: a tenant gets only tokens of its own identities, and in the
  end the one its spec calls for;
* timing: a token is renewed before it expires, unless something that the status
  reports or the spec asks for stands in the way;
* certificates and docker configuration: a token is asked for with the
  certificates of the spec, from the host of the spec, and offered under the
  hosts of the spec; tenants do not share certificates;
* signer: what is signed is what arrives, with the session token of the signer.

## The models

### SecretSync

One cycle after another, from `ValidateObjectSpec` to `UpdateStatus`, one action
per call to the API server, for a set of SecretRotators served by the single
worker. `secrets` and `robj` are the API server's, `cache` and `crobj` what the
informers show of them, and the variables from `pc` to `failed` are the locals of
`Reconcile` and the fields of `tokenDetails`. A secret is its owner, type and
token; a SecretRotator is its configured secrets and the parts of its status that
later cycles read.

* `DeferPatch` is the empty status patch deferred in `InitializeResource`: its
  answer overwrites the held object, status and resourceVersion included.
  `tokenDetails.GeneratedSecrets` (`gen`) stays as validated.
* `DeleteSecret` and `DeleteSecretFails` are the iterations of
  `DeleteOutdatedSecrets`; `CheckExisting` is the first inner loop of
  `ManagingSecrets`; `HandlingToken` mints the one token of the cycle;
  `CreateOrUpdateSecrets` and `CreateOrUpdateSecretsFails` are the second inner
  loop; `FinishNamespace` and `DeleteGeneratedSecret` are
  `DeleteOutdatedGeneratedSecrets`, called at the end of every namespace.
* `Accepted` says which Update or Create the API server takes: an object the
  cache showed carries its resourceVersion, an object the cache did not show
  carries none and is written unconditionally; a type never changes; the owner
  reference must not cross namespaces (`Home`).
* Two versions of an object have the same resourceVersion iff they are equal;
  a random annotation of the event filter is a number that grows.
* The environment edits secrets, relabels namespaces, changes
  `spec.generatedSecrets`, lets calls fail with or without effect, and restarts
  the operator. `Lag` says whether caches may be behind, `Interleave` whether
  users act in the middle of a cycle, `MaxDisturb` how often anything of this
  happens.

### RotatorLifecycle

How `Reconcile` is scheduled and what it does to the object itself. `queue` and
`timer` are the work queue with its `RequeueAfter`; `touching` is the loop of the
event filter over the SecretRotators that match a namespace event. An object has
`uid`, `rv` (resourceVersion), the two conditions, the operator's finalizer,
somebody else's finalizer (`other`), the deletion mark, and `prov`, which stands
for the part of the status that depends on the labels. One action per update or
re-fetch: `HandleConditions`, `RefetchAfterConditions`, `HandleFinalizers`,
`SecretRotatorChecker`, `RefetchBeforeFinalizing`, `ConfirmDegraded`,
`RemoveFinalizer`, `ValidateObjectSpec`, `DeferPatch`, `ManagingSecrets`,
`UpdateStatus`. `DeferPatch` is a call of its own, after the selected namespaces
have been listed: it makes the held object the live one, or, if it fails, leaves
it as it is. `TypeOK` is the shape of the state together with what holds of the
object where `Reconcile` is (`FinalizingPoints`).
Each update succeeds only for the current version (`Current`), makes a new
version only if it changes something (`NextVersion`), and removes the object with
its last finalizer (`Stored`). What `ManagingSecrets` does in detail is
SecretSync; here one secret per SecretRotator stands for all of them, and only
the UID in its controller reference matters. After the finalizer has been
removed the cycle goes on, as the code does, for an object that may be gone.

### TokenExchange

Whose token a secret gets. Credentials are an access key and the role they stand
for; a token is the role Artifactory saw and the lifetime that was asked for.
`ChooseAuthType` is the selection in `HandlingToken`, `Account` its separate
defaults for the two halves of the service account;
`GetSignedRequestForPodIdentity` and `GetSignedRequestForWebIdentity` obtain
credentials; `SignV4a` goes through the process-wide `signer` cache and looks up
the role's maximum session (`GetMaxSession`, which gives up on an ARN with a
path); `createArtifactoryToken` may be answered without a token. Specs, role
annotations, maximum sessions and the pod's credentials change at any time,
and the spec a cycle uses is the live one after `DeferPatch`, not the validated
one.

The writes of this module are coarse (one per namespace); in what state each
secret is left is SecretSync's subject.

### RotationContract

The abstract specification of SecretSync: secrets by key, the SecretRotator being
served, its token, the keys this cycle has acknowledged, a ledger of the keys
ever written, and the claim of each status. It has no namespaces, caches, API
calls or order of visits. The mapping (`Contract` at the end of SecretSync) takes
`done` and `claim` from the maps `managed` of the cycle and of the stored status;
everything before the first call that changes the cluster, and every lost, failed
or conflicting call without effect, stutters. A failed deletion that took effect
and ended its cycle is an `Abort` with a removal.

### RotationClock

When tokens are renewed. `Interval` is the end of `Reconcile`: three quarters of
the lifetime, or `refreshTime`. `AddAfter` is the delaying queue, which keeps the
shorter of two delays and is not called for one that is not positive;
`ReconcileGetFails` and `ReconcileFails` are the two delays after an error (ten
minutes and a second). Times are relative, so that time itself is unbounded: a
token is what is `left` of its lifetime, how much of it was `lost` (not spent
waiting as planned) and its `slack`, which is the whole lifetime until its cycle
ends and `Reserve` from then on. The `refreshTime` is that of the held object: the
live one when the deferred patch succeeds, the cached one when it fails. Whose writes may fail and what happens to the
rest of the status is SecretSync's subject.

### RegistryAccess

How a cycle gets at Artifactory and what it hands out: the checks of
`ValidateObjectSpec` on secrets and URL (`Accepts`), `HandleCerts` (the files of
the directory named after the SecretRotator, copied file by file in an order the
map decides, with a fault leaving a subset of them and possibly an empty file),
`DeferPatch`, `createCustomHTTPClient` and the token request, and
`generateDockerConfigJSON`. The host that issues the token is that of the
validated spec; security settings and the hosts of the docker secret are those of
the held one, which the deferred patch may have replaced (`valid`, `held`).
Contents of a file are the secret it came from and a serial number; a pair whose
serials differ is refused, as `LoadX509KeyPair` does.

### RequestSigning

What `SignV4a` signs, and the same algorithm as the library in
`internal/sign/v4a/v4a.go` offers it to callers. `ConstantTimeByteCompare` and
`DeriveKey` are the loop that picks a private key; `StripExcessSpaces`,
`buildCanonicalHeaders`, `SanitizeHostForHeader`, `GetURIPath` and
`setRequiredSigningFields` make the canonical request. `Sent` and `Forwarded` are
what `net/http` and `createArtifactoryToken` send on of it, and `Recomputed` is
the request as a verifier canonicalises it, written independently of the
signer's helpers.

A caller may add headers, sign and presign in any order, at any time, with any
credentials and with or without hoisting; `calls` is the list of the calls that
have signed, which the properties speak about and no action reads. Both signers
change the request in place: what `SignHTTP` leaves in the headers and
`PresignHTTP` in the query is there for the next call. A host is a text, the name
or the IPv6 literal with its brackets and its port, on which `stripPort` and
`portOnly` look for colons and brackets as `host.go` does.

### How the modules fit

Each module is one view of the same cycle, with the rest of it coarse: SecretSync
has the calls on secrets and one action for the token; TokenExchange has the
calls for the token and one write per namespace; RotationClock has durations and
one write per namespace; RegistryAccess has files, hosts and certificates. They
share the facts that matter to more than one: a single worker, the held object
replaced after `DeferPatch`, failed namespaces that are recorded and not retried,
and restarts that lose the locals. RotatorLifecycle shows that the cycles which
the other modules take for granted in their fairness do come.

## Runs

Passing runs (the bounds are in the `.cfg` of the same name):

| Run | Checks | Instance, and why it is enough |
|---|---|---|
| `SyncHostile` | `TypeOK`, `DeletesOnlyOwnWrites` | 1 rotator, 1 namespace, 2 names, lagging caches, users in mid-cycle, 2 disturbances of any kind: one secret can fail while the other succeeds, which is what makes a deletion happen |
| `SyncShared` | `CleanupReported`, `RotationReported`, `OwnSecretsOnly`, `HonoursContract` | 2 rotators that want the same 2 names in 2 namespaces, 2 types (the API server refuses a change of type), coherent caches, 2 disturbances: a namespace can leave while the other stays, one name can fail while the other succeeds, with the other rotator's cycle in between. `HonoursContract` is the refinement of RotationContract |
| `SyncLive` | `Convergence`, `RecordedCleanup` | a namespaced installation (`Home`) with one namespace in and one out of scope, 3 disturbances of any kind |
| `SyncLiveShared` | `Convergence`, `Rotates`, `NoChurn` | 2 cluster-wide rotators contending in 2 namespaces, 1 disturbance |
| `Lifecycle` | `TypeOK`, `NeverForgotten`, `UpdatesAreBounded`, `DeletionCompletes`, `SecretsFollowObject`, `LabelsAreServed` | 1 name, 3 disturbances: deletion, re-creation and one more. Several names interact only through the single worker; `NeverForgotten` is proved for any number of them |
| `Exchange` | `TypeOK`, `TenantIsolation`, `IdentityConverges` | 2 rotators over three specs (an account of its own, the operator's account or pod, half an account), with and without Pod Identity, 2 namespaces, so that the second one reuses the token, 1 disturbance |
| `Clock` | `TypeOK`, `FreshUnlessReported`, `Refreshed` | 1 rotator, 2 namespaces (one can fail while the other is written), lifetimes 4 and 8, `refreshTime` unset, 0, shorter than or equal to a lifetime (a longer one leaves a negative reserve and adds no case), 2 disturbances of any kind. A busy worker is time lost like any other, so that a second rotator adds no case; the theorem has any number |
| `Access` | `TypeOK`, `SecretsAreFunction`, `CertificatesCurrent`, `OwnCertificates`, `AccessConverges` | 2 rotators, 2 certificate secrets with four contents (complete under both namings, half a pair, two serials), three accepted and six refused specs, 2 disturbances: an edit in mid-cycle after a failed copy |
| `Signing` | `SignaturesVerify`, `TokenOfSigner`, `SameAuthority`, `KeyInRange` | 3 credentials (two with session tokens, one without), a request signed or presigned up to twice at 3 times on 2 days, up to 2 header values, one of them out of seven texts with spaces and tabs in every place, 7 URLs (default, foreign and no ports, a scheme without a default, two IPv6 literals), key candidates on both sides of the bound in either byte. Whose date and token are in the request depends on the last two calls that set one; the theorems have any number |

Three access tokens are enough to have a fresh one in the smaller instances,
because a token may be minted again once no secret and no cached secret holds it;
larger instances have more. Access keys are reused the same way. Symmetry is used
in safety runs only, over sets none of whose members the instance names.
`CHECK_DEADLOCK FALSE` is set for RotatorLifecycle, because once every
SecretRotator is deleted the operator has nothing left to do, and for
RequestSigning, where a caller is done when the request is sent.

Runs that end in a violation show where the code differs from what its comments
and log lines say (`findings` quotes them):

| Run | What it shows |
|---|---|
| `BugForeignDelete` | a secret a user has put in the place of a managed one is deleted, because `DeleteOutdatedGeneratedSecrets` goes by name |
| `BugConfiguredDeleted` | a configured secret whose write fails once is deleted as outdated |
| `BugConflictLeak` | secrets written in a cycle whose status update conflicts are not known to later ones, and stay if their namespace leaves the selector |

### Premises of the properties that hold

Each premise below is there because the property is false of this code without it.

* `OwnSecretsOnly` needs unique names (`NameOf` injective): `IsSecretOwnedBy`
  compares the name of the controller, so namesakes in two namespaces, or an
  object created again under the name of a deleted one, take each other's secrets
  for their own.
* `OwnSecretsOnly` and `HonoursContract` need coherent caches as well: a secret
  the cache does not show is created by an update without a resourceVersion
  (`internal/resource/secret.go:157`), which replaces what a user has just put
  there, although the log line at `controllers/secretrotator_operations.go:84`
  leaves foreign secrets to the user. With `Lag` set TLC finds this in a few
  steps. They also need users who stay out of a cycle: the check of an owner and
  the write are two calls.
* `Convergence` is checked with one type: a secret whose configured type changes
  is refused by the API server in every cycle (`RotationReported` shows that the
  namespace is reported as failed).
* `RecordedCleanup` allows a namespace to be reported as failed instead, because
  a deletion that fails once is not tried again: `UpdateStatus` replaces
  `provisionedNamespaces` by the namespaces of the cycle, those in which
  nothing was written included. It speaks of configured names, because a name
  that is no longer configured is not looked for in a namespace that is no longer
  selected; and of selectors that match some namespace, because otherwise
  `ValidateObjectSpec` ends the cycle before anything is removed.
* `TenantIsolation` counts the operator's pod among the identities of everybody
  where Pod Identity is present: with `authType` `auto` or `podIdentity` the
  account of the spec is read and then ignored. The two halves of an account
  default separately (`Account`), so half an account is completed with the
  operator's other half.
* `NeverForgotten` needs a positive refresh interval (`Periodic`); so does
  `Refreshed`, per SecretRotator (`Requeues`): a `refreshTime` of zero or less is
  accepted and asks for no requeue at all.
* `FreshUnlessReported` gives a token the reserve that its interval leaves: a
  quarter of the lifetime, or what `refreshTime` leaves, which is nothing if it is
  as long as the lifetime (`HandlingToken` logs only a longer one). What is lost
  to a busy worker, failing cycles and restarts comes out of that reserve, and
  nothing else does.
* `CertificatesCurrent` speaks of what the client presents and trusts, in cycles
  that copied certificates: a copied `tls.crt` pair and a copied `ca.crt` are always
  used. A copied `cert.pem` pair or `ca.pem` is not if the directory has files with
  the names of a TLS secret: `createCustomHTTPClient` prefers those
  (`internal/handler/token.go:186`), files are never removed, and so a secret that
  goes back to the `.pem` names keeps using the old, possibly outdated pair until
  the directory is lost. Without that exception TLC finds this in one edit of the
  secret. Of what the secret does not supply nothing is said; and a cycle
  that validated with verification off and holds a spec with it on uses whatever
  the directory has.
* `AccessConverges` asks for a secret with the names of a TLS secret, for the
  same reason.
* `OwnCertificates` needs unique names, since the directory is named by them.
* `SignaturesVerify` is an equivalence, and its right-hand side (`Spoiled`) is what
  the library does not handle. A URL that is presigned again, or a request signed
  after it was presigned, keeps the old signature in its query. And `Build` sets
  the signing fields in the query before it hoists the headers over them
  (`v4a.go:299`): if the request was signed before at another time, the old
  `X-Amz-Date` replaces the new one, and the signature is of a date that the request
  does not have. Signed before at the same time, it verifies.
* `TokenOfSigner` says whose session token arrives. Presigning with hoisting after
  others have signed puts the token of the last of them who had one over the
  signer's own, and credentials without a token leave the token of the others:
  in both cases the signature verifies, with somebody else's token. Requests that
  were presigned before are left out, because they never verify.
* `SameAuthority` is an equivalence as well: a `Host` without a port that the
  scheme does not imply would be another authority, and an IPv6 literal with its
  default port is the only host that comes out wrong, because `stripPort` takes the
  brackets off with the port (`host.go:39`). The right-hand side takes the well-known
  ports from RFC 9110, not from `isDefaultPort`.
* The operator meets none of the three: its request is new, signed once, for the
  host of STS. RequestSigning takes header keys to be canonical.

### Fairness

* A cycle that has begun goes on (`WF` of the operator's steps): every call it
  makes returns or times out.
* Every SecretRotator is served again and again (`SF`, because the single
  worker may be busy with another one whenever it becomes ready): the work queue
  is first in, first out, and every outcome of `Reconcile` asks for a requeue.
  RotatorLifecycle models that queue and shows it (`NeverForgotten`); SecretSync,
  TokenExchange, RegistryAccess and RotationClock (once a delay has ended) assume
  it.
* Time passes and a cycle ends within `MaxWriting` of its token (RotationClock).
* Watch events arrive, delays end, the garbage collector and other controllers'
  finalizers do their part (`WF`).
* Disturbances are not fair and are bounded by `MaxDisturb`, so liveness says
  what happens once they end. A failing call is a disturbance; a conflict is not,
  it follows from the state.

## Proofs

TLAPS proves, for every value of the constants:

| Theorem | Statement | Assumptions beyond the modules' own |
|---|---|---|
| `SecretSyncProofs!TypeCorrect` | `Spec => []TypeOK` | none |
| `SecretSyncProofs!DeletionSafety` | `Spec => DeletesOnlyOwnWrites` | none: any lag, any interleaving |
| `SecretSyncCycleProofs!RotationIsReported` | `Spec => []RotationReported` | users stay out of cycles |
| `SecretSyncCycleProofs!Ownership` | `Spec => OwnSecretsOnly` | coherent caches, users out of cycles, unique names |
| `SecretSyncCycleProofs!CleanupIsReported` | `Spec => []CleanupReported` | the same |
| `SecretSyncRefinement!Refinement` | `Spec => HonoursContract` | the same |
| `RotatorLifecycleProofs!TypeCorrect` | `Spec => []TypeOK` | none |
| `RotatorLifecycleProofs!NoRotatorForgotten` | `Spec => []NeverForgotten` | the refresh interval is positive |
| `RotatorLifecycleProofs!BoundedUpdates` | `Spec => []UpdatesAreBounded` | none |
| `TokenExchangeProofs!TypeCorrect` | `Spec => []TypeOK` | none |
| `TokenExchangeProofs!Isolation` | `Spec => []TenantIsolation` | none |
| `RotationClockProofs!TypeCorrect` | `Spec => []TypeOK` | none |
| `RotationClockProofs!Freshness` | `Spec => []FreshUnlessReported` | none |
| `RegistryAccessProofs!TypeCorrect` | `Spec => []TypeOK` | none |
| `RegistryAccessProofs!CertificateIsolation` | `Spec => []OwnCertificates` | unique names |
| `RegistryAccessProofs!CertificatesAreCurrent` | `Spec => []CertificatesCurrent` | none |
| `RegistryAccessProofs!ValidSecretsAreFunction` | `Spec => []SecretsAreFunction` | none |
| `RequestSigningProofs!CompareIsNumeric` | `ConstantTimeByteCompare` is the comparison of numbers | byte strings of one length |
| `RequestSigningProofs!DerivedKeyInRange` | `Spec => []KeyInRange` | none |
| `RequestSigningProofs!CanonicalValue` | what is signed of a header value is what a verifier computes from the value that arrives | texts of any length |
| `RequestSigningProofs!RequestsVerify` | `Spec => []SignaturesVerify` | none |
| `RequestSigningProofs!TokensAreOfSigner` | `Spec => []TokenOfSigner` | none |
| `RequestSigningProofs!HostsAreSameAuthority` | `Spec => []SameAuthority` | none |

The assumptions of the modules themselves give the constants their types and say
what the code takes for granted: that header values are sequences of characters
(`ValueAssumption`), that key candidates have the length of the order
(`ByteAssumption`), that host names have no colons, IPv6 literals at least two, and
neither has brackets (`UrlAssumption`), that a lifetime is a multiple of four. TLC evaluates all of
them on every run.

The inductive invariants:

* `DeletionSafety`: a deletion is decided from a cached owner or from a recorded
  status, so the invariant says that every owner, in the server or in the cache,
  and every recorded name, in the server, in the cache, in the held object or in
  the cycle's own `managed`, was written under that key (`OwnedWasWritten`,
  `RecordedWasWritten`, `CycleWasWritten`).
* `RotationIsReported`: in mid-cycle, every name of a visited namespace is still
  to be written, recorded as managed, or its namespace has failed; and what is
  recorded holds this cycle's token, which no deletion of the cycle removes,
  since only names that are not managed are deleted.
* `Ownership`, `CleanupIsReported`: caches are coherent; the names still to be
  written in the current namespace are free or owned (`CheckedNames`); the
  removed namespaces are still to be deleted from, failed, or clean
  (`RemovedSoFar`).
* `NoRotatorForgotten`: a cached object that equals the stored one has been
  announced, which needs that versions never repeat (`Versions`: the cached and
  the held version of a UID are not newer than the stored one).
* `BoundedUpdates`: the property bounds the number of versions, the invariant
  (`BoundInv`) the number of versions and of those still to come. `Load` counts
  the latter: an update each for the conditions and the finalizer that are not
  set, one for a status that does not show the labels, one more if the cycle has
  listed the namespaces by labels that have changed since (`Outdated`), up to
  three for a finalization, which another finalizer or a namespace event
  can make start again unless the cycle holds the current version
  (`AboutToFinalize`). An update takes from `Load` what it adds to the version, a
  step without one adds nothing, and a disturbance adds at most seven. Besides,
  nothing is left of an object that is gone. `RotatorLifecycleProofs!TypeCorrect`
  follows from this invariant, of which `FinalizingPoints` is a part.
* `Isolation`: accounts and annotations in use are in the histories `named` and
  `worn` (`Names`); role, credentials and request in the cycle's hands belong to
  the SecretRotator being served (`InHand`); equal access keys in cycle, cache
  and agent stand for the same role (`Coherent`).

* `Refinement`: the conjunction of the three invariants above and that an idle
  worker serves nobody. Coherent caches and checked names make a write hit a free
  or an own secret (`Rotate`); what is deleted was written and is not among what
  this cycle has acknowledged (`Remove`); the status that is stored is the one
  the cycle holds (`Publish`).
* `Freshness`: what is left of a token and what it has lost add up to its lifetime
  until its cycle ends (`WriteInv`), and from then on to at least its reserve and
  the delay that is still to be waited for (`Covered`), which the delaying queue
  only ever shortens. Lifetimes are multiples of four, so that nothing is rounded.
* `CertificateIsolation`: the property is about a client, the invariant about the
  files it is built from, which outlive cycles (`OwnFiles`), and about the specs
  in the cycle's hands (`OwnSpecs`).
* `ValidSecretsAreFunction`: the validated spec of a cycle stays one that
  `Accepts` lets through. That the checks, which compare entries two by two, make
  the list a function is a counting argument: a list without repeated names has
  as many names as entries.
* `CertificatesAreCurrent`: from `HandleCerts` to the end of the cycle nobody else
  writes the files just copied (`CopiedFilesKept`), because there is one worker, and
  the client was built from the files that are there now (`ClientOfFiles`). The
  property names files, the invariant the client as a function of all of them; the
  proof goes through the choice of paths in `PairPaths` and `CaPaths`.

* `DerivedKeyInRange`: the fields of a derivation have their types, with the key
  among the numbers up to the bound (`KeyInv`). The work is `CompareIsNumeric`:
  after any number of bytes, the two flags of the loop say which of the numbers
  read so far is the larger.
* `RequestsVerify`, `TokensAreOfSigner`, `HostsAreSameAuthority` share one invariant
  (`SigningInv`), because each call finds in the request what earlier ones have
  left. `History` ties the request to `calls`: as long as nothing was presigned its
  query is the caller's, its headers hold the date of the last call and the token
  of the last signer who had one; once something was, a signature is in the query
  for good. `ArrivedOK` says that what was sent is as the three properties say.
  Each way to sign (`HeadersSigned`, `QueryVerified`, `ForwardedGoesOut`) takes the
  first to the second: the canonical headers agree with those the verifier
  recomputes, header by header, by `CanonicalValue`. The converse, that a spoiled
  request does not verify, is `HeadersSpoiled`, `DateSpoiled` and `QuerySpoiled`. The
  lemmas about hosts (`PortOfName` and those around it) compute `portOnly` and
  `stripPort` for names and literals by the positions of colons and brackets, and
  for the literal whose brackets are already gone.

`CompareIsNumeric` and `CanonicalValue` are inductions over data: over the bytes of
a key and over the characters of a text. The library's induction theorems have an
operator as parameter, which the provers cannot instantiate. The operators are
therefore written as recursive functions on the indices of their argument,
`Recursion` proves that such a function satisfies its equation, and `FromTo` and
`UpTo` are induction for a set of indices instead of a predicate, from the fact
that a set of natural numbers has a least element (`LeastElement`).
`StripExcessSpaces` and the verifier's `Collapsed` are then compared prefix by
prefix, and trimming commutes with dropping spaces because the first and the last
character that is not white are kept.

All invariants of the passing runs, the two action properties and the refinement
are proved. Only model-checked are the properties that need fairness or are about
what eventually holds, which is out of the prover's reach: `Convergence`,
`RecordedCleanup`, `Rotates`, `NoChurn`, `DeletionCompletes`, `SecretsFollowObject`,
`LabelsAreServed`, `IdentityConverges`, `Refreshed` and `AccessConverges`.

## Not modelled

* Hashes, HMAC and ECDSA: a signature is the record of what is signed. The key
  derivation function is a set of candidates (`Candidates`), of which a loop picks
  one; `VerifySignature` and `ECDSAPublicKey` are used by tests only.
  `internal/sign/v4a/v4a.go` is not called by the operator and is modelled as the
  library it is; the mapping of the escaped path of a URL is left out, and IPv6
  literals have no zone.
* base64 and JSON of a secret's data, events, log lines and the wording of
  conditions.
* `main.go`: flags, scheme and health checks. Leader election is one of its flags
  and is left to controller-runtime; the models have one operator at a time, which
  may stop at any point and start again.
* Generated deep copies, Helm chart, Terraform examples.
* A composition of all modules in one state space: TLC could not hold it, and the
  modules share no mutable state but the object, whose parts each of them models
  as far as it reads them.

## Plan

1. An abstract specification of TokenExchange (a tenant, its identities, the token
   it gets) and the refinement.
2. Safety lemmas on which the liveness properties rest, such as that a served
   rotator's timer is set at the end of every cycle, as theorems of their own.
3. Two operators at a time, as when a lease is lost while a cycle goes on: what of
   RotationContract is left.
