-------------------------- MODULE RotatorLifecycle --------------------------
(***************************************************************************)
(* The life of SecretRotator objects: how Reconcile is scheduled (events,  *)
(* timers, the single worker), how it initialises an object (conditions,   *)
(* finalizer), finishes one that is being deleted, and reports its status, *)
(* with optimistic locking against an API server it reads through a cache. *)
(* What a cycle does to the secrets in each namespace is SecretSync; here  *)
(* one secret per SecretRotator stands for them, and it matters only whose *)
(* it is, because the garbage collector removes the secrets of the dead.   *)
(***************************************************************************)
EXTENDS Naturals

CONSTANTS
    Rotators,     \* names of SecretRotators
    None,         \* no value
    Periodic,     \* is spec.refreshTime, or 0.75 of the token's TTL, positive?
    Disturbances, \* which kinds of disturbance happen
    MaxDisturb    \* bound: how many of them happen

ASSUME NoneAssumption == None \notin Rotators
ASSUME PeriodicAssumption == Periodic \in BOOLEAN
ASSUME BoundAssumption ==
    /\ MaxDisturb \in Nat
    /\ Disturbances \subseteq {"fault", "crash", "relabel", "delete", "create"}

VARIABLES
    \* the API server
    obj,      \* the object of each name
    uids,     \* how many objects of each name there have been
    secret,   \* uid in the controller reference of the secret; 0: no secret
    label,    \* which namespaces are labelled for it, as a version of the labels
    \* the operator
    cobj,     \* the objects as the informer cache shows them
    queue,    \* names in the work queue
    timer,    \* names that will be added to it later (RequeueAfter)
    touching, \* names the event filter has yet to update for a namespace event
    pc,       \* the point Reconcile has reached
    busy,     \* the name it is working on
    held,     \* the object it holds
    seen,     \* the labels it listed the namespaces by
    budget    \* disturbances that may still happen

server == <<obj, uids, secret, label>>
sched  == <<cobj, queue, timer, touching>>
local  == <<pc, busy, held, seen>>
vars   == <<server, sched, local, budget>>

-----------------------------------------------------------------------------
(* An object.  rv is its resourceVersion; prov stands for the part of the   *)
(* status that depends on the selected namespaces; other says whether       *)
(* somebody else's finalizer is on it.  uid 0: there is no object.          *)

Condition == {"none", "unknown", "true"}

Object == [uid : Nat, rv : Nat, available : Condition, degraded : Condition,
           finalizer : BOOLEAN, other : BOOLEAN, deleting : BOOLEAN, prov : BOOLEAN]

NoObject == [uid |-> 0, rv |-> 0, available |-> "none", degraded |-> "none",
             finalizer |-> FALSE, other |-> FALSE, deleting |-> FALSE, prov |-> FALSE]

NewObject(u, b) == [NoObject EXCEPT !.uid = u, !.other = b]

Exists(o) == o.uid # 0

(* The API server accepts an update only of the version it has.             *)
Current(o, r) == Exists(o) /\ o = obj[r]

(* Mutant: something in the object, such as a time stamp, always changes. *)
AlwaysNewVersion(o, new) == [new EXCEPT !.rv = o.rv + 1]

(* An update that changes nothing makes no new version. *)
NextVersion(o, new) == IF new = o THEN o ELSE [new EXCEPT !.rv = o.rv + 1]

(* A deleted object goes away with its last finalizer. *)
Stored(o) == IF o.deleting /\ ~o.finalizer /\ ~o.other THEN NoObject ELSE o

Disturb(kind) == kind \in Disturbances /\ budget > 0 /\ budget' = budget - 1

-----------------------------------------------------------------------------
(* The work queue. *)

(* The worker is idle and Reconcile gets a name; the read is from the cache.*)
Reconcile(r) ==
    /\ pc = "idle" /\ r \in queue
    /\ queue' = queue \ {r}
    /\ Exists(cobj[r])
    /\ pc' = "conditions" /\ busy' = r /\ held' = cobj[r]
    /\ UNCHANGED <<server, cobj, timer, touching, seen, budget>>

(* The object is not found: reconciliation stops without a retry. *)
ReconcileNotFound(r) ==
    /\ pc = "idle" /\ r \in queue
    /\ queue' = queue \ {r}
    /\ ~Exists(cobj[r])
    /\ UNCHANGED <<server, cobj, timer, touching, local, budget>>

(* Any other error of the read is retried, in ten minutes. *)
ReconcileGetFails(r) ==
    /\ pc = "idle" /\ r \in queue
    /\ Disturb("fault")
    /\ queue' = queue \ {r} /\ timer' = timer \cup {r}
    /\ UNCHANGED <<server, cobj, touching, local>>

Leave == pc' = "idle" /\ busy' = None /\ held' = NoObject /\ seen' = FALSE

(* Mutant: the error is reported as an empty result. *)
NoRetry == Leave /\ UNCHANGED <<timer, cobj, queue, touching>>

(* Every error of InitializeResource, ManagingSecrets and UpdateStatus is   *)
(* answered with RequeueAfter: one second.                                  *)
RetryLater == Leave /\ timer' = timer \cup {busy} /\ UNCHANGED <<cobj, queue, touching>>

(* The delay of a RequeueAfter is over. *)
Requeue(r) ==
    /\ r \in timer
    /\ timer' = timer \ {r} /\ queue' = queue \cup {r}
    /\ UNCHANGED <<server, cobj, touching, local, budget>>

(* A watch event of the SecretRotator: the event filter lets it through.    *)
SyncRotator(r) ==
    /\ cobj[r] # obj[r]
    /\ cobj' = [cobj EXCEPT ![r] = obj[r]]
    /\ queue' = queue \cup {r}
    /\ UNCHANGED <<server, timer, touching, local, budget>>

-----------------------------------------------------------------------------
(* One call of Reconcile that writes the held object back: on success the   *)
(* held object is what the server answers, on a conflict or a failure the   *)
(* cycle ends.                                                              *)

UpdateObject(new, next) ==
    /\ Current(held, busy)
    /\ held' = NextVersion(held, new)
    /\ obj' = [obj EXCEPT ![busy] = Stored(held')]
    /\ pc' = next
    /\ UNCHANGED <<uids, secret, label, sched, busy, seen, budget>>

UpdateRejected ==
    /\ ~Current(held, busy)
    /\ RetryLater
    /\ UNCHANGED <<server, budget>>

(* The call fails, or its answer is lost after it took effect. *)
UpdateFails(new) ==
    /\ Disturb("fault")
    /\ \/ UNCHANGED obj
       \/ Current(held, busy) /\ obj' = [obj EXCEPT ![busy] = Stored(NextVersion(held, new))]
    /\ RetryLater
    /\ UNCHANGED <<uids, secret, label>>

Update(new, next) == UpdateObject(new, next) \/ UpdateRejected \/ UpdateFails(new)

(* A re-fetch into the held object, from the cache. *)
Refetch(next) ==
    \/ /\ Exists(cobj[busy])
       /\ held' = cobj[busy] /\ pc' = next
       /\ UNCHANGED <<server, sched, busy, seen, budget>>
    \/ /\ ~Exists(cobj[busy])
       /\ RetryLater
       /\ UNCHANGED <<server, budget>>

Goto(next) == pc' = next /\ UNCHANGED <<server, sched, busy, held, seen, budget>>

(* HandleConditions *)
HandleConditions ==
    /\ pc = "conditions"
    /\ IF held.available # "none"
       THEN Goto("finalizer")
       ELSE Update([held EXCEPT !.available = "unknown"], "refetch")

RefetchAfterConditions == pc = "refetch" /\ Refetch("finalizer")

(* Mutant: an object that is being deleted needs no finalizer to go on. *)
HandleFinalizersOfLive ==
    /\ pc = "finalizer"
    /\ \/ (held.finalizer \/ held.deleting) /\ Goto("checker")
       \/ /\ ~held.finalizer /\ ~held.deleting
          /\ Update([held EXCEPT !.finalizer = TRUE], "checker")

(* HandleFinalizers.  The API server refuses to add a finalizer to an       *)
(* object that is being deleted.                                            *)
HandleFinalizers ==
    /\ pc = "finalizer"
    /\ \/ held.finalizer /\ Goto("checker")
       \/ /\ ~held.finalizer /\ ~held.deleting
          /\ Update([held EXCEPT !.finalizer = TRUE], "checker")
       \/ /\ ~held.finalizer /\ held.deleting
          /\ RetryLater /\ UNCHANGED <<server, budget>>

(* Mutant: the deletion timestamp is not looked at. *)
DeletionIgnored == pc = "checker" /\ Goto("validate")

(* SecretRotatorChecker: is the object being deleted, with our finalizer?   *)
SecretRotatorChecker ==
    /\ pc = "checker"
    /\ IF held.deleting /\ held.finalizer
       THEN Update([held EXCEPT !.degraded = "unknown"], "finalize")
       ELSE Goto("validate")

RefetchBeforeFinalizing == pc = "finalize" /\ Refetch("degraded")

ConfirmDegraded == pc = "degraded" /\ Update([held EXCEPT !.degraded = "true"], "unfinalize")

(* The cycle goes on after it removed the finalizer, even if the object has *)
(* gone with it.  RemoveFinalizer fails if the re-fetched object has none.  *)
RemoveFinalizer ==
    /\ pc = "unfinalize"
    /\ IF held.finalizer
       THEN Update([held EXCEPT !.finalizer = FALSE], "validate")
       ELSE RetryLater /\ UNCHANGED <<server, budget>>

(* ValidateObjectSpec and HandleCerts read the cluster. *)
ValidateObjectSpec ==
    /\ pc = "validate"
    /\ \/ /\ seen' = label[busy] /\ pc' = "patch"
          /\ UNCHANGED <<server, sched, busy, held, budget>>
       \/ Disturb("fault") /\ RetryLater /\ UNCHANGED server

(* The deferred patch changes nothing, but its answer makes the held object *)
(* the live one.  The cycle goes on without it if it fails.                 *)
DeferPatch ==
    /\ pc = "patch" /\ pc' = "manage"
    /\ \/ held' = (IF Exists(obj[busy]) THEN obj[busy] ELSE held) /\ UNCHANGED budget
       \/ Disturb("fault") /\ UNCHANGED held
    /\ UNCHANGED <<server, sched, busy, seen>>

(* ManagingSecrets: a secret that exists is updated and keeps its           *)
(* controller reference, a new one gets a reference to the held object.     *)
ManagingSecrets ==
    /\ pc = "manage"
    /\ \/ /\ secret' = [secret EXCEPT ![busy] = IF @ = 0 THEN held.uid ELSE @]
          /\ pc' = "status"
          /\ UNCHANGED <<obj, uids, label, sched, busy, held, seen, budget>>
       \/ Disturb("fault") /\ RetryLater /\ UNCHANGED server

(* Mutant: only events start the next cycle. *)
NotRequeued == timer

(* UpdateStatus, and the RequeueAfter of a cycle that succeeded. *)
Finished == IF Periodic THEN timer \cup {busy} ELSE timer

UpdateStatus ==
    LET new == [held EXCEPT !.available = "true", !.prov = seen]
    IN  /\ pc = "status"
        /\ \/ /\ Current(held, busy)
              /\ obj' = [obj EXCEPT ![busy] = Stored(NextVersion(held, new))]
              /\ Leave /\ timer' = Finished
              /\ UNCHANGED <<uids, secret, label, cobj, queue, touching, budget>>
           \/ UpdateRejected
           \/ UpdateFails(new)

-----------------------------------------------------------------------------
(* The event filter: for a namespace event it updates an annotation of      *)
(* every matching SecretRotator of a cached list; the first update that     *)
(* fails ends it.                                                           *)

HandlingNamespaceEvents(r) ==
    /\ r \in touching
    /\ \/ ~Exists(cobj[r]) /\ touching' = touching \ {r} /\ UNCHANGED <<obj, budget>>
       \/ /\ Current(cobj[r], r)
          /\ touching' = touching \ {r}
          /\ obj' = [obj EXCEPT ![r].rv = @ + 1]
          /\ UNCHANGED budget
       \/ /\ Exists(cobj[r])
          /\ (cobj[r] # obj[r] /\ UNCHANGED budget) \/ Disturb("fault")
          /\ touching' = {} /\ UNCHANGED obj
    /\ UNCHANGED <<uids, secret, label, cobj, queue, timer, local>>

-----------------------------------------------------------------------------
(* The environment. *)

(* Namespaces are created or their labels change. *)
Relabel(S) ==
    /\ Disturb("relabel")
    /\ S # {} /\ touching = {}
    /\ label' = [r \in Rotators |-> IF r \in S THEN ~label[r] ELSE label[r]]
    /\ touching' = S
    /\ UNCHANGED <<obj, uids, secret, cobj, queue, timer, local>>

Create(r, b) ==
    /\ Disturb("create")
    /\ ~Exists(obj[r])
    /\ uids' = [uids EXCEPT ![r] = @ + 1]
    /\ obj' = [obj EXCEPT ![r] = NewObject(uids[r] + 1, b)]
    /\ UNCHANGED <<secret, label, sched, local>>

Delete(r) ==
    /\ Disturb("delete")
    /\ Exists(obj[r]) /\ ~obj[r].deleting
    /\ obj' = [obj EXCEPT ![r] = Stored(NextVersion(@, [@ EXCEPT !.deleting = TRUE]))]
    /\ UNCHANGED <<uids, secret, label, sched, local>>

(* Whoever else holds a finalizer is done with the object. *)
OtherFinalizerRemoved(r) ==
    /\ obj[r].other /\ obj[r].deleting
    /\ obj' = [obj EXCEPT ![r] = Stored(NextVersion(@, [@ EXCEPT !.other = FALSE]))]
    /\ UNCHANGED <<uids, secret, label, sched, local, budget>>

(* The garbage collector removes a secret whose controller is gone. *)
CollectGarbage(r) ==
    /\ secret[r] # 0 /\ secret[r] # obj[r].uid
    /\ secret' = [secret EXCEPT ![r] = 0]
    /\ UNCHANGED <<obj, uids, label, sched, local, budget>>

(* The operator restarts: queue and timers are lost, and the new informers  *)
(* announce every object there is.                                          *)
Crash ==
    /\ Disturb("crash")
    /\ Leave
    /\ cobj' = obj
    /\ queue' = {r \in Rotators : Exists(obj[r])}
    /\ timer' = {} /\ touching' = {}
    /\ UNCHANGED server

-----------------------------------------------------------------------------
Init ==
    /\ \E b \in BOOLEAN : obj = [r \in Rotators |-> NewObject(1, b)]
    /\ uids = [r \in Rotators |-> 1]
    /\ secret = [r \in Rotators |-> 0]
    /\ label = [r \in Rotators |-> TRUE]
    /\ cobj = [r \in Rotators |-> NoObject]
    /\ queue = {} /\ timer = {} /\ touching = {}
    /\ pc = "idle" /\ busy = None /\ held = NoObject /\ seen = FALSE
    /\ budget = MaxDisturb

Cycle ==
    \/ HandleConditions \/ RefetchAfterConditions
    \/ HandleFinalizers
    \/ SecretRotatorChecker \/ RefetchBeforeFinalizing \/ ConfirmDegraded \/ RemoveFinalizer
    \/ ValidateObjectSpec \/ DeferPatch
    \/ ManagingSecrets
    \/ UpdateStatus

Scheduling ==
    \E r \in Rotators :
        \/ Reconcile(r) \/ ReconcileNotFound(r) \/ ReconcileGetFails(r)
        \/ Requeue(r) \/ SyncRotator(r)
        \/ HandlingNamespaceEvents(r)

Environment ==
    \/ \E S \in SUBSET Rotators : Relabel(S)
    \/ \E r \in Rotators, b \in BOOLEAN : Create(r, b)
    \/ \E r \in Rotators : Delete(r) \/ OtherFinalizerRemoved(r) \/ CollectGarbage(r)
    \/ Crash

Next == Cycle \/ Scheduling \/ Environment

Spec == Init /\ [][Next]_vars

(* The worker goes on and serves every queued name in its turn, delays end, *)
(* watch events arrive, and the other controllers of the cluster do their   *)
(* part.                                                                    *)
Fairness ==
    /\ WF_vars(Cycle)
    /\ \A r \in Rotators :
          /\ SF_vars(Reconcile(r) \/ ReconcileNotFound(r))
          /\ WF_vars(Requeue(r))
          /\ WF_vars(SyncRotator(r))
          /\ WF_vars(HandlingNamespaceEvents(r))
          /\ WF_vars(OtherFinalizerRemoved(r))
          /\ WF_vars(CollectGarbage(r))

FairSpec == Spec /\ Fairness

-----------------------------------------------------------------------------
(* Properties. *)

Points == {"idle", "conditions", "refetch", "finalizer", "checker", "finalize", "degraded",
           "unfinalize", "validate", "patch", "manage", "status"}

(* The shape of the state; the worker has a name exactly when it is at work.*)
Shape ==
    /\ obj \in [Rotators -> Object] /\ cobj \in [Rotators -> Object]
    /\ uids \in [Rotators -> Nat] /\ secret \in [Rotators -> Nat]
    /\ label \in [Rotators -> BOOLEAN]
    /\ queue \subseteq Rotators /\ timer \subseteq Rotators /\ touching \subseteq Rotators
    /\ pc \in Points /\ held \in Object /\ seen \in BOOLEAN
    /\ busy \in Rotators \cup {None} /\ (pc = "idle" <=> busy = None)
    /\ budget \in 0..MaxDisturb

(* The steps of a deletion, SecretRotatorChecker's, are reached only with   *)
(* the operator's finalizer: until RemoveFinalizer it keeps the object.     *)
FinalizingPoints ==
    /\ pc = "checker" => held.finalizer
    /\ pc \in {"finalize", "degraded", "unfinalize"} =>
          Exists(obj[busy]) /\ obj[busy].finalizer /\ obj[busy].deleting

(* The type invariant, with what holds where Reconcile is: an object that   *)
(* is being finalized exists and has the operator's finalizer, whatever the *)
(* cache shows and whoever else has finalizers on it.                       *)
TypeOK == Shape /\ FinalizingPoints

(* No SecretRotator is ever forgotten: each one that exists is queued, on a *)
(* timer, being reconciled, or about to be announced by a watch event.  No  *)
(* early return or error of Reconcile, no conflict and no restart drops it, *)
(* as long as the interval after a successful cycle is positive.            *)
NeverForgotten ==
    \A r \in Rotators : Exists(obj[r]) =>
        r \in queue \cup timer \cup {busy} \/ cobj[r] # obj[r]

(* The operator's finalizer never keeps a deleted SecretRotator for ever.   *)
DeletionCompletes == \A r \in Rotators : obj[r].deleting ~> ~obj[r].deleting

(* Once disturbances end, the secret belongs to the object that exists, of  *)
(* several of the same name, and is gone if there is none: what a cycle     *)
(* writes for an object it has just finalized, or for one that was replaced *)
(* under it, does not last.                                                 *)
SecretsFollowObject == \A r \in Rotators : <>[](secret[r] = obj[r].uid)

(* Once disturbances end, the status shows the namespaces that are selected,*)
(* even if the event filter gave up on a namespace event.                   *)
LabelsAreServed == \A r \in Rotators : <>[](Exists(obj[r]) => obj[r].prov = label[r])

(* The operator does not keep triggering itself.  Its own updates raise     *)
(* watch events that start the next cycle at once; but it needs three of    *)
(* them to set an object up, and after that every further one can be put    *)
(* down to a disturbance, which costs at most seven.                        *)
UpdatesAreBounded == \A r \in Rotators : obj[r].rv <= 3 + 7 * (MaxDisturb - budget)

=============================================================================
