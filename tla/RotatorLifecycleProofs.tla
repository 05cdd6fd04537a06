----------------------- MODULE RotatorLifecycleProofs -----------------------
(***************************************************************************)
(* Theorems about RotatorLifecycle, for every set of SecretRotators and    *)
(* every number of disturbances.                                           *)
(***************************************************************************)
EXTENDS RotatorLifecycle, TLAPS

-----------------------------------------------------------------------------
(* Objects. *)

LEMMA NoObjectType == NoObject \in Object
  BY DEF NoObject, Object, Condition

LEMMA NewObjectType ==
    ASSUME NEW u \in Nat, NEW b \in BOOLEAN
    PROVE  NewObject(u, b) \in Object /\ NewObject(u, b).uid = u
  BY DEF NewObject, NoObject, Object, Condition

(* What a write leaves at the API server: nothing, the same version, or a   *)
(* newer version of the same object.                                        *)
LEMMA StoredVersion ==
    ASSUME NEW o \in Object, NEW new \in Object, new.uid = o.uid
    PROVE  /\ NextVersion(o, new) \in Object
           /\ Stored(NextVersion(o, new)) \in Object
           /\ \/ Stored(NextVersion(o, new)) = NoObject
              \/ Stored(NextVersion(o, new)) = o
              \/ /\ Stored(NextVersion(o, new)).uid = o.uid
                 /\ Stored(NextVersion(o, new)).rv = o.rv + 1
<1>1. NextVersion(o, new) \in Object
  BY DEF NextVersion, Object
<1>2. \/ NextVersion(o, new) = o
      \/ NextVersion(o, new).uid = o.uid /\ NextVersion(o, new).rv = o.rv + 1
  BY DEF NextVersion, Object
<1>3. \A p \in Object : Stored(p) \in {p, NoObject}
  BY DEF Stored
<1>4. Stored(NextVersion(o, new)) \in {NextVersion(o, new), NoObject}
  BY <1>1, <1>3
<1> QED
  BY <1>1, <1>2, <1>4, NoObjectType

(* The versions of the held object that the cycle writes. *)
LEMMA HeldVersions ==
    ASSUME NEW o \in Object, NEW c \in Condition, NEW b \in BOOLEAN
    PROVE  /\ [o EXCEPT !.available = c] \in Object /\ [o EXCEPT !.available = c].uid = o.uid
           /\ [o EXCEPT !.degraded = c] \in Object /\ [o EXCEPT !.degraded = c].uid = o.uid
           /\ [o EXCEPT !.finalizer = b] \in Object /\ [o EXCEPT !.finalizer = b].uid = o.uid
           /\ [o EXCEPT !.deleting = b] \in Object /\ [o EXCEPT !.deleting = b].uid = o.uid
           /\ [o EXCEPT !.other = b] \in Object /\ [o EXCEPT !.other = b].uid = o.uid
           /\ [o EXCEPT !.available = c, !.prov = b] \in Object
           /\ [o EXCEPT !.available = c, !.prov = b].uid = o.uid
  BY DEF Object

-----------------------------------------------------------------------------
(* Types. *)

(* The shape of everything but the objects. *)
OtherTypes ==
    /\ cobj \in [Rotators -> Object]
    /\ uids \in [Rotators -> Nat] /\ secret \in [Rotators -> Nat]
    /\ label \in [Rotators -> BOOLEAN]
    /\ queue \subseteq Rotators /\ timer \subseteq Rotators /\ touching \subseteq Rotators
    /\ pc \in Points /\ held \in Object /\ seen \in BOOLEAN
    /\ busy \in Rotators \cup {None} /\ (pc = "idle" <=> busy = None)
    /\ budget \in 0..MaxDisturb

LEMMA InitShape == Init => Shape
<1> SUFFICES ASSUME Init PROVE Shape
  OBVIOUS
<1>1. obj \in [Rotators -> Object] /\ cobj \in [Rotators -> Object]
  BY NewObjectType, NoObjectType DEF Init
<1>2. uids \in [Rotators -> Nat] /\ secret \in [Rotators -> Nat] /\ label \in [Rotators -> BOOLEAN]
  BY DEF Init
<1>3. pc \in Points /\ held \in Object /\ seen \in BOOLEAN /\ budget \in 0..MaxDisturb
  <2>1. pc = "idle" /\ held = NoObject /\ seen = FALSE /\ budget = MaxDisturb
    BY DEF Init
  <2>2. MaxDisturb \in 0..MaxDisturb /\ "idle" \in Points
    BY BoundAssumption DEF Points
  <2> QED
    BY <2>1, <2>2, NoObjectType
<1>4. /\ queue \subseteq Rotators /\ timer \subseteq Rotators /\ touching \subseteq Rotators
      /\ busy \in Rotators \cup {None} /\ (pc = "idle" <=> busy = None)
  BY DEF Init
<1> QED
  BY <1>1, <1>2, <1>3, <1>4 DEF Shape

LEMMA DisturbType ==
    ASSUME Shape, NEW kind, Disturb(kind)
    PROVE  budget' \in 0..MaxDisturb
  BY BoundAssumption DEF Shape, Disturb

(* A version that is stored. *)
LEMMA StoreType ==
    ASSUME Shape, NEW r \in Rotators, NEW new \in Object, new.uid = obj[r].uid,
           obj' = [obj EXCEPT ![r] = Stored(NextVersion(obj[r], new))]
    PROVE  obj' \in [Rotators -> Object]
<1>1. Stored(NextVersion(obj[r], new)) \in Object
  BY StoredVersion DEF Shape
<1> QED
  BY <1>1 DEF Shape

(* A step of Reconcile that gives up. *)
LEMMA RetryTypes ==
    ASSUME Shape, pc # "idle", RetryLater, UNCHANGED <<uids, secret, label>>,
           budget' \in 0..MaxDisturb
    PROVE  OtherTypes'
<1>1. busy \in Rotators
  BY DEF Shape
<1> QED
  BY <1>1, NoObjectType DEF Shape, OtherTypes, RetryLater, Leave, Points

LEMMA GiveUpTypes ==
    ASSUME Shape, pc # "idle", RetryLater, UNCHANGED server, budget' \in 0..MaxDisturb
    PROVE  Shape'
  BY RetryTypes DEF Shape, OtherTypes, server

(* A step of Reconcile that changes no object and goes on. *)
LEMMA GoOnTypes ==
    ASSUME Shape, pc # "idle", pc' \in Points \ {"idle"}, held' \in Object, seen' \in BOOLEAN,
           secret' \in [Rotators -> Nat], UNCHANGED <<obj, uids, label, sched, busy, budget>>
    PROVE  Shape'
  BY DEF Shape, sched

(* A write of the held object by Reconcile. *)
LEMMA UpdateTypes ==
    ASSUME Shape, pc # "idle", NEW new \in Object, new.uid = held.uid,
           NEW next \in Points \ {"idle"}, Update(new, next)
    PROVE  Shape'
<1>1. busy \in Rotators /\ held \in Object
  BY DEF Shape
<1>2. CASE UpdateObject(new, next)
  <2>1. /\ held = obj[busy]
        /\ obj' = [obj EXCEPT ![busy] = Stored(NextVersion(obj[busy], new))]
    BY <1>2 DEF UpdateObject, Current
  <2>2. obj' \in [Rotators -> Object]
    BY <1>1, <2>1, StoreType
  <2>3. held' \in Object
    BY <1>1, <1>2, StoredVersion DEF UpdateObject
  <2> QED
    BY <1>1, <1>2, <2>2, <2>3 DEF UpdateObject, sched, Shape
<1>3. CASE UpdateRejected
  BY <1>3, GiveUpTypes DEF UpdateRejected, Shape
<1>4. CASE UpdateFails(new)
  <2>1. OtherTypes'
    BY <1>4, RetryTypes, DisturbType DEF UpdateFails
  <2>2. \/ UNCHANGED obj
        \/ held = obj[busy] /\ obj' = [obj EXCEPT ![busy] = Stored(NextVersion(obj[busy], new))]
    BY <1>4 DEF UpdateFails, Current
  <2>3. obj' \in [Rotators -> Object]
    BY <1>1, <2>2, StoreType DEF Shape
  <2> QED
    BY <2>1, <2>3 DEF Shape, OtherTypes
<1> QED
  BY <1>2, <1>3, <1>4 DEF Update

LEMMA RefetchTypes ==
    ASSUME Shape, pc # "idle", NEW next \in Points \ {"idle"}, Refetch(next)
    PROVE  Shape'
<1>1. CASE RetryLater /\ UNCHANGED <<server, budget>>
  BY <1>1, GiveUpTypes DEF Shape
<1>2. CASE held' = cobj[busy] /\ pc' = next /\ UNCHANGED <<server, sched, busy, seen, budget>>
  BY <1>2, GoOnTypes DEF Shape, server
<1> QED
  BY <1>1, <1>2 DEF Refetch

LEMMA PointsToGo ==
    /\ {"unknown", "true"} \subseteq Condition
    /\ Points \ {"idle"} =
         {"conditions", "refetch", "finalizer", "checker", "finalize", "degraded",
          "unfinalize", "validate", "patch", "manage", "status"}
  BY DEF Condition, Points

LEMMA CycleTypes ==
    ASSUME Shape, Cycle
    PROVE  Shape'
<1>1. held \in Object /\ seen \in BOOLEAN /\ (pc # "idle" => busy \in Rotators)
  BY DEF Shape
<1>2. ASSUME pc # "idle", NEW next \in Points \ {"idle"}, Goto(next) PROVE Shape'
  BY <1>1, <1>2, GoOnTypes DEF Goto, Shape, server
<1>3. ASSUME pc # "idle", RetryLater, UNCHANGED <<server, budget>> PROVE Shape'
  BY <1>3, GiveUpTypes DEF Shape
<1>4. ASSUME pc # "idle", Disturb("fault"), RetryLater, UNCHANGED server PROVE Shape'
  BY <1>4, GiveUpTypes, DisturbType
<1>5. CASE HandleConditions
  BY <1>1, <1>2, <1>5, PointsToGo, UpdateTypes, HeldVersions DEF HandleConditions
<1>6. CASE RefetchAfterConditions
  BY <1>6, PointsToGo, RefetchTypes DEF RefetchAfterConditions
<1>7. CASE HandleFinalizers
  BY <1>1, <1>2, <1>3, <1>7, PointsToGo, UpdateTypes, HeldVersions DEF HandleFinalizers
<1>8. CASE SecretRotatorChecker
  BY <1>1, <1>2, <1>8, PointsToGo, UpdateTypes, HeldVersions DEF SecretRotatorChecker
<1>9. CASE RefetchBeforeFinalizing
  BY <1>9, PointsToGo, RefetchTypes DEF RefetchBeforeFinalizing
<1>10. CASE ConfirmDegraded
  BY <1>1, <1>10, PointsToGo, UpdateTypes, HeldVersions DEF ConfirmDegraded
<1>11. CASE RemoveFinalizer
  BY <1>1, <1>3, <1>11, PointsToGo, UpdateTypes, HeldVersions DEF RemoveFinalizer
<1>12. CASE ValidateObjectSpec
  <2>1. CASE /\ seen' = label[busy] /\ pc' = "patch"
             /\ UNCHANGED <<server, sched, busy, held, budget>>
    <3>1. pc # "idle" /\ held' \in Object /\ seen' \in BOOLEAN
      BY <1>1, <1>12, <2>1 DEF Shape, ValidateObjectSpec
    <3> QED
      BY <2>1, <3>1, GoOnTypes, PointsToGo DEF Shape, server
  <2> QED
    BY <1>4, <1>12, <2>1 DEF ValidateObjectSpec
<1>patch. CASE DeferPatch
  <2>1. busy \in Rotators /\ held' \in Object /\ pc' \in Points \ {"idle"} /\ busy' # None
    BY <1>1, <1>patch, PointsToGo, NoneAssumption DEF Shape, DeferPatch
  <2>2. budget' \in 0..MaxDisturb
    BY <1>patch, DisturbType DEF Shape, DeferPatch
  <2> QED
    BY <1>patch, <2>1, <2>2 DEF Shape, DeferPatch, server, sched
<1>13. CASE ManagingSecrets
  <2>1. CASE /\ secret' = [secret EXCEPT ![busy] = IF @ = 0 THEN held.uid ELSE @]
             /\ pc' = "status"
             /\ UNCHANGED <<obj, uids, label, sched, busy, held, seen, budget>>
    <3>1. held.uid \in Nat
      BY <1>1 DEF Object
    <3>2. pc # "idle" /\ secret' \in [Rotators -> Nat]
      BY <1>13, <2>1, <3>1 DEF Shape, ManagingSecrets
    <3> QED
      BY <1>1, <2>1, <3>2, GoOnTypes, PointsToGo
  <2> QED
    BY <1>4, <1>13, <2>1 DEF ManagingSecrets
<1>14. CASE UpdateStatus
  <2> DEFINE new == [held EXCEPT !.available = "true", !.prov = seen]
  <2>1. pc = "status" /\ new \in Object /\ new.uid = held.uid /\ busy \in Rotators
    BY <1>1, <1>14, PointsToGo, HeldVersions DEF UpdateStatus
  <2>2. CASE UpdateRejected \/ UpdateFails(new)
    BY <2>1, <2>2, PointsToGo, UpdateTypes DEF Update
  <2>3. CASE ~(UpdateRejected \/ UpdateFails(new))
    <3>1. /\ held = obj[busy]
          /\ obj' = [obj EXCEPT ![busy] = Stored(NextVersion(obj[busy], new))]
          /\ Leave /\ timer' \in {timer, timer \cup {busy}}
          /\ UNCHANGED <<uids, secret, label, cobj, queue, touching, budget>>
      BY <1>14, <2>3 DEF UpdateStatus, Current, Finished
    <3>2. obj' \in [Rotators -> Object]
      BY <2>1, <3>1, StoreType
    <3>3. OtherTypes'
      BY <2>1, <3>1, NoObjectType DEF Shape, OtherTypes, Leave, Points
    <3> QED
      BY <3>2, <3>3 DEF Shape, OtherTypes
  <2> QED
    BY <2>2, <2>3
<1> QED
  BY <1>5, <1>6, <1>7, <1>8, <1>9, <1>10, <1>11, <1>12, <1>patch, <1>13, <1>14
  DEF Cycle

LEMMA SchedulingTypes ==
    ASSUME Shape, Scheduling
    PROVE  Shape'
<1>1. PICK r \in Rotators :
        \/ Reconcile(r) \/ ReconcileNotFound(r) \/ ReconcileGetFails(r)
        \/ Requeue(r) \/ SyncRotator(r)
        \/ HandlingNamespaceEvents(r)
  BY DEF Scheduling
<1>2. obj[r] \in Object /\ cobj[r] \in Object /\ r # None
  BY NoneAssumption DEF Shape
<1>3. CASE Reconcile(r)
  BY <1>2, <1>3 DEF Reconcile, Shape, Points, server
<1>4. CASE ReconcileNotFound(r)
  BY <1>4 DEF ReconcileNotFound, Shape, server, local
<1>5. CASE ReconcileGetFails(r)
  BY <1>5, DisturbType DEF ReconcileGetFails, Shape, server, local
<1>6. CASE Requeue(r)
  BY <1>6 DEF Requeue, Shape, server, local
<1>7. CASE SyncRotator(r)
  BY <1>2, <1>7 DEF SyncRotator, Shape, server, local
<1>8. CASE HandlingNamespaceEvents(r)
  <2>1. /\ UNCHANGED <<uids, secret, label, cobj, queue, timer, pc, busy, held, seen>>
        /\ touching' \in {touching \ {r}, {}} /\ budget' \in 0..MaxDisturb
        /\ UNCHANGED obj \/ obj' = [obj EXCEPT ![r].rv = @ + 1]
    BY <1>8, DisturbType DEF HandlingNamespaceEvents, local, Shape
  <2>2. OtherTypes'
    BY <2>1 DEF Shape, OtherTypes
  <2>3. obj' \in [Rotators -> Object]
    <3>1. [obj[r] EXCEPT !.rv = @ + 1] \in Object
      BY <1>2 DEF Object
    <3> QED
      BY <2>1, <3>1 DEF Shape
  <2> QED
    BY <2>2, <2>3 DEF Shape, OtherTypes
<1> QED
  BY <1>1, <1>3, <1>4, <1>5, <1>6, <1>7, <1>8

LEMMA EnvironmentTypes ==
    ASSUME Shape, Environment
    PROVE  Shape'
<1>1. ASSUME NEW S \in SUBSET Rotators, Relabel(S) PROVE Shape'
  <2>1. label' \in [Rotators -> BOOLEAN]
    BY <1>1 DEF Shape, Relabel
  <2> QED
    BY <1>1, <2>1, DisturbType DEF Shape, Relabel, local
<1>2. ASSUME NEW r \in Rotators, NEW b \in BOOLEAN, Create(r, b) PROVE Shape'
  <2>1. uids[r] \in Nat /\ NewObject(uids[r] + 1, b) \in Object
    BY NewObjectType DEF Shape
  <2>2. obj' \in [Rotators -> Object] /\ uids' \in [Rotators -> Nat]
    BY <1>2, <2>1 DEF Shape, Create
  <2> QED
    BY <1>2, <2>2, DisturbType DEF Shape, Create, sched, local
<1>3. ASSUME NEW r \in Rotators, Delete(r) PROVE Shape'
  <2>1. obj' \in [Rotators -> Object]
    BY <1>3, StoreType, HeldVersions DEF Shape, Delete, Condition
  <2> QED
    BY <1>3, <2>1, DisturbType DEF Shape, Delete, sched, local
<1>4. ASSUME NEW r \in Rotators, OtherFinalizerRemoved(r) PROVE Shape'
  <2>1. obj' \in [Rotators -> Object]
    BY <1>4, StoreType, HeldVersions DEF Shape, OtherFinalizerRemoved, Condition
  <2> QED
    BY <1>4, <2>1 DEF Shape, OtherFinalizerRemoved, sched, local
<1>5. ASSUME NEW r \in Rotators, CollectGarbage(r) PROVE Shape'
  BY <1>5 DEF Shape, CollectGarbage, sched, local
<1>6. CASE Crash
  BY <1>6, NoObjectType, DisturbType DEF Shape, Crash, Leave, Points, server
<1> QED
  BY <1>1, <1>2, <1>3, <1>4, <1>5, <1>6 DEF Environment

LEMMA NextShape ==
    ASSUME Shape, [Next]_vars
    PROVE  Shape'
<1>1. CASE Next
  BY <1>1, CycleTypes, SchedulingTypes, EnvironmentTypes DEF Next
<1>2. CASE UNCHANGED vars
  BY <1>2 DEF vars, server, sched, local, Shape
<1> QED
  BY <1>1, <1>2

-----------------------------------------------------------------------------
(* The invariant: no SecretRotator is forgotten, and the cache never shows  *)
(* a version the API server has not reached yet, so that a new version      *)
(* always differs from the cached one and a watch event is sure to come.    *)

Versions ==
    \A r \in Rotators :
        /\ obj[r].uid <= uids[r] /\ cobj[r].uid <= uids[r]
        /\ Exists(obj[r]) /\ cobj[r].uid = obj[r].uid => cobj[r].rv <= obj[r].rv

ScheduleInv == Shape /\ Versions /\ NeverForgotten

LEMMA InitScheduleInv == Init => ScheduleInv
<1> SUFFICES ASSUME Init PROVE ScheduleInv
  OBVIOUS
<1>1. ASSUME NEW r \in Rotators
      PROVE  obj[r].uid = 1 /\ cobj[r].uid = 0 /\ uids[r] = 1
  <2>1. PICK b \in BOOLEAN : obj = [q \in Rotators |-> NewObject(1, b)]
    BY DEF Init
  <2>2. obj[r].uid = 1
    BY <2>1, NewObjectType
  <2>3. NoObject.uid = 0
    BY DEF NoObject
  <2> QED
    BY <2>2, <2>3 DEF Init
<1>2. Versions
  <2>1. ASSUME NEW r \in Rotators
        PROVE  /\ obj[r].uid <= uids[r] /\ cobj[r].uid <= uids[r]
               /\ cobj[r].uid # obj[r].uid
    BY <1>1
  <2> QED
    BY <2>1 DEF Versions
<1>3. NeverForgotten
  <2>1. ASSUME NEW r \in Rotators PROVE cobj[r] # obj[r]
    BY <1>1
  <2> QED
    BY <2>1 DEF NeverForgotten
<1> QED
  BY <1>2, <1>3, InitShape DEF ScheduleInv

(* The names that are queued, on a timer or at work still are. *)
NoneDropped == queue \cup timer \cup ({busy} \ {None}) \subseteq queue' \cup timer' \cup {busy'}

(* A step that stores a version of r's object, and forgets no name. *)
LEMMA StoreStep ==
    ASSUME ScheduleInv, NEW r \in Rotators, NEW new \in Object, new.uid = obj[r].uid,
           obj' = [obj EXCEPT ![r] = Stored(NextVersion(obj[r], new))],
           UNCHANGED <<uids, cobj>>,
           NoneDropped
    PROVE  Versions' /\ NeverForgotten'
<1> USE DEF ScheduleInv, NoneDropped
<1>1. obj \in [Rotators -> Object] /\ cobj \in [Rotators -> Object] /\ uids \in [Rotators -> Nat]
  BY DEF Shape
<1> DEFINE o == Stored(NextVersion(obj[r], new))
<1>2. obj[r] \in Object /\ cobj[r] \in Object /\ uids[r] \in Nat
  BY <1>1
<1>3. o \in Object /\ (o = NoObject \/ o = obj[r] \/ (o.uid = obj[r].uid /\ o.rv = obj[r].rv + 1))
  BY <1>2, StoredVersion
<1> HIDE DEF o
<1>4. obj' \in [Rotators -> Object] /\ obj'[r] = o /\ \A q \in Rotators \ {r} : obj'[q] = obj[q]
  BY <1>1, <1>3 DEF o
<1>5. NoObject.uid = 0 /\ obj[r].rv \in Nat /\ obj[r].uid \in Nat /\ cobj[r].rv \in Nat /\ cobj[r].uid \in Nat
  BY <1>2 DEF NoObject, Object
<1>6. Versions'
  <2>1. ASSUME NEW q \in Rotators
        PROVE  /\ obj'[q].uid <= uids[q] /\ cobj[q].uid <= uids[q]
               /\ Exists(obj'[q]) /\ cobj[q].uid = obj'[q].uid => cobj[q].rv <= obj'[q].rv
    <3>1. CASE q # r
      BY <1>4, <3>1 DEF Versions
    <3>2. CASE q = r
      BY <1>2, <1>3, <1>4, <1>5, <3>2 DEF Versions, Exists
    <3> QED
      BY <3>1, <3>2
  <2> QED
    BY <2>1 DEF Versions
<1>7. NeverForgotten'
  <2>1. ASSUME NEW q \in Rotators, Exists(obj'[q])
        PROVE  q \in queue' \cup timer' \cup {busy'} \/ cobj[q] # obj'[q]
    <3>1. CASE q \in queue \cup timer \cup {busy}
      BY <2>1, <3>1, NoneAssumption
    <3>2. CASE q # r \/ o = obj[r]
      BY <1>4, <2>1, <3>1, <3>2 DEF NeverForgotten
    <3>3. CASE q = r /\ o # obj[r] /\ o # NoObject
      <4>1. o.uid = obj[r].uid /\ o.rv = obj[r].rv + 1
        BY <1>3, <3>3
      <4>2. cobj[r].uid = obj[r].uid => cobj[r].rv <= obj[r].rv
        BY <1>4, <2>1, <3>3, <4>1 DEF Versions, Exists
      <4> QED
        BY <1>4, <1>5, <3>3, <4>1, <4>2
    <3>4. CASE q = r /\ o = NoObject
      BY <1>4, <1>5, <2>1, <3>4 DEF Exists
    <3> QED
      BY <3>2, <3>3, <3>4
  <2> QED
    BY <2>1 DEF NeverForgotten
<1> QED
  BY <1>6, <1>7

(* A step that leaves the objects and the cache alone, and forgets no name. *)
LEMMA KeepStep ==
    ASSUME ScheduleInv, UNCHANGED <<obj, uids, cobj>>,
           NoneDropped
    PROVE  Versions' /\ NeverForgotten'
  BY NoneAssumption DEF NoneDropped, ScheduleInv, Shape, Versions, NeverForgotten

(* What a step of Reconcile does to the schedule and to the objects. *)
LEMMA CycleDropsNone ==
    ASSUME Shape, Periodic = TRUE, Cycle
    PROVE  NoneDropped /\ UNCHANGED <<uids, cobj>>
<1> USE DEF NoneDropped
<1>1. ASSUME RetryLater PROVE NoneDropped /\ UNCHANGED cobj
  BY <1>1 DEF RetryLater, Leave
<1>2. ASSUME NEW new, NEW next, Update(new, next) PROVE NoneDropped /\ UNCHANGED <<uids, cobj>>
  BY <1>1, <1>2 DEF Update, UpdateObject, UpdateRejected, UpdateFails, sched, server
<1>3. ASSUME NEW next, Refetch(next) \/ Goto(next) PROVE NoneDropped /\ UNCHANGED <<uids, cobj>>
  BY <1>1, <1>3 DEF Refetch, Goto, sched, server
<1>4. CASE \/ HandleConditions \/ RefetchAfterConditions \/ HandleFinalizers \/ SecretRotatorChecker
           \/ RefetchBeforeFinalizing \/ ConfirmDegraded \/ RemoveFinalizer
  BY <1>1, <1>2, <1>3, <1>4
  DEF HandleConditions, RefetchAfterConditions, HandleFinalizers, SecretRotatorChecker,
      RefetchBeforeFinalizing, ConfirmDegraded, RemoveFinalizer, server
<1>5. CASE ValidateObjectSpec \/ DeferPatch \/ ManagingSecrets
  BY <1>1, <1>5 DEF ValidateObjectSpec, DeferPatch, ManagingSecrets, sched, server
<1>6. CASE UpdateStatus
  BY <1>1, <1>6 DEF UpdateStatus, UpdateRejected, UpdateFails, Leave, Finished, server
<1> QED
  BY <1>4, <1>5, <1>6 DEF Cycle

LEMMA CycleStores ==
    ASSUME Shape, Cycle
    PROVE  \/ UNCHANGED obj
           \/ \E new \in Object :
                 /\ new.uid = obj[busy].uid /\ busy \in Rotators /\ Exists(obj[busy])
                 /\ obj' = [obj EXCEPT ![busy] = Stored(NextVersion(obj[busy], new))]
<1> DEFINE Stores == \E new \in Object :
                        /\ new.uid = obj[busy].uid /\ busy \in Rotators /\ Exists(obj[busy])
                        /\ obj' = [obj EXCEPT ![busy] = Stored(NextVersion(obj[busy], new))]
<1>1. held \in Object /\ seen \in BOOLEAN /\ (pc # "idle" => busy \in Rotators)
  BY DEF Shape
<1>2. ASSUME pc # "idle", NEW new \in Object, new.uid = held.uid, NEW next, Update(new, next)
      PROVE  UNCHANGED obj \/ Stores
  BY <1>1, <1>2 DEF Update, UpdateObject, UpdateRejected, UpdateFails, Current, server
<1> HIDE DEF Stores
<1>3. ASSUME NEW next, Refetch(next) \/ Goto(next) PROVE UNCHANGED obj
  BY <1>3 DEF Refetch, Goto, server
<1>4. CASE \/ HandleConditions \/ HandleFinalizers \/ SecretRotatorChecker
           \/ ConfirmDegraded \/ RemoveFinalizer
  <2> DEFINE conditions == [held EXCEPT !.available = "unknown"]
             marked == [held EXCEPT !.finalizer = TRUE]
             unsure == [held EXCEPT !.degraded = "unknown"]
             degraded == [held EXCEPT !.degraded = "true"]
             released == [held EXCEPT !.finalizer = FALSE]
  <2>1. \A new \in {conditions, marked, unsure, degraded, released} :
            new \in Object /\ new.uid = held.uid
    BY <1>1 DEF Object, Condition
  <2>2. \/ UNCHANGED obj
        \/ /\ pc # "idle"
           /\ \E new \in {conditions, marked, unsure, degraded, released},
                 next \in Points : Update(new, next)
    BY <1>3, <1>4
    DEF HandleConditions, HandleFinalizers, SecretRotatorChecker, ConfirmDegraded,
        RemoveFinalizer, Points, server
  <2> HIDE DEF conditions, marked, unsure, degraded, released
  <2> QED
    BY <1>2, <2>1, <2>2 DEF Stores
<1>5. CASE \/ RefetchAfterConditions \/ RefetchBeforeFinalizing
           \/ ValidateObjectSpec \/ DeferPatch \/ ManagingSecrets
  BY <1>3, <1>5
  DEF RefetchAfterConditions, RefetchBeforeFinalizing, ValidateObjectSpec, DeferPatch,
      ManagingSecrets, server
<1>6. CASE UpdateStatus
  <2> DEFINE new == [held EXCEPT !.available = "true", !.prov = seen]
  <2>1. pc # "idle" /\ new \in Object /\ new.uid = held.uid /\ busy \in Rotators
    BY <1>1, <1>6, HeldVersions, PointsToGo DEF UpdateStatus
  <2>2. \/ UNCHANGED obj
        \/ /\ held = obj[busy] /\ Exists(obj[busy])
           /\ obj' = [obj EXCEPT ![busy] = Stored(NextVersion(obj[busy], new))]
    BY <1>6 DEF UpdateStatus, UpdateRejected, UpdateFails, Current, server
  <2> QED
    BY <2>1, <2>2 DEF Stores
<1> QED
  BY <1>4, <1>5, <1>6 DEF Cycle, Stores

LEMMA CycleStep ==
    ASSUME ScheduleInv, Periodic = TRUE, Cycle
    PROVE  Versions' /\ NeverForgotten'
<1>1. Shape
  BY DEF ScheduleInv
<1>2. NoneDropped /\ UNCHANGED <<uids, cobj>>
  BY <1>1, CycleDropsNone
<1>3. CASE UNCHANGED obj
  BY <1>2, <1>3, KeepStep
<1>4. CASE ~UNCHANGED obj
  BY <1>1, <1>2, <1>4, CycleStores, StoreStep
<1> QED
  BY <1>3, <1>4

(* The work queue, the informer and the event filter. *)
LEMMA SchedulingStep ==
    ASSUME ScheduleInv, Scheduling
    PROVE  Versions' /\ NeverForgotten'
<1>1. Shape
  BY DEF ScheduleInv
<1>2. PICK r \in Rotators :
        \/ Reconcile(r) \/ ReconcileNotFound(r) \/ ReconcileGetFails(r)
        \/ Requeue(r) \/ SyncRotator(r)
        \/ HandlingNamespaceEvents(r)
  BY DEF Scheduling
<1>3. obj[r] \in Object /\ cobj[r] \in Object /\ r # None
  BY <1>1, NoneAssumption DEF Shape
<1>4. CASE Reconcile(r)
  <2>1. /\ UNCHANGED <<obj, uids, secret, label, cobj, timer, touching, seen, budget>>
        /\ pc = "idle" /\ queue' = queue \ {r}
        /\ pc' = "conditions" /\ busy' = r /\ held' = cobj[r]
    BY <1>4 DEF Reconcile, server
  <2>2. Versions' /\ NeverForgotten'
    BY <1>1, <2>1, KeepStep DEF Shape, NoneDropped
  <2> QED
    BY <2>2
<1>5. CASE ReconcileNotFound(r)
  <2>1. /\ UNCHANGED <<obj, uids, secret, label, cobj, timer, touching, pc, busy, held, seen, budget>>
        /\ queue' = queue \ {r} /\ ~Exists(cobj[r])
    BY <1>5 DEF ReconcileNotFound, server, local
  <2>2. Versions'
    BY <2>1 DEF ScheduleInv, Versions
  <2>3. NeverForgotten'
    <3>1. ASSUME NEW q \in Rotators, Exists(obj[q])
          PROVE  q \in queue' \cup timer \cup {busy} \/ cobj[q] # obj[q]
      <4>1. CASE q = r
        BY <2>1, <3>1, <4>1
      <4>2. CASE q # r
        BY <2>1, <3>1, <4>2 DEF ScheduleInv, NeverForgotten
      <4> QED
        BY <4>1, <4>2
    <3> QED
      BY <2>1, <3>1 DEF NeverForgotten
  <2> QED
    BY <2>2, <2>3
<1>6. CASE ReconcileGetFails(r)
  <2>1. /\ UNCHANGED <<obj, uids, secret, label, cobj, touching, pc, busy, held, seen>>
        /\ queue' = queue \ {r} /\ timer' = timer \cup {r} /\ budget' \in 0..MaxDisturb
    BY <1>1, <1>6, DisturbType DEF ReconcileGetFails, server, local
  <2> QED
    BY <2>1, KeepStep DEF NoneDropped
<1>7. CASE Requeue(r)
  <2>1. /\ UNCHANGED <<obj, uids, secret, label, cobj, touching, pc, busy, held, seen, budget>>
        /\ timer' = timer \ {r} /\ queue' = queue \cup {r}
    BY <1>7 DEF Requeue, server, local
  <2> QED
    BY <2>1, KeepStep DEF NoneDropped
<1>8. CASE SyncRotator(r)
  <2>1. /\ UNCHANGED <<obj, uids, secret, label, timer, touching, pc, busy, held, seen, budget>>
        /\ cobj' = [cobj EXCEPT ![r] = obj[r]] /\ queue' = queue \cup {r}
    BY <1>8 DEF SyncRotator, server, local
  <2>3. /\ cobj'[r] = obj[r] /\ \A q \in Rotators \ {r} : cobj'[q] = cobj[q]
        /\ obj[r].rv \in Nat
    BY <1>1, <1>3, <2>1 DEF Shape, Object
  <2>4. Versions'
    <3>1. ASSUME NEW q \in Rotators
          PROVE  /\ obj[q].uid <= uids[q] /\ cobj'[q].uid <= uids[q]
                 /\ Exists(obj[q]) /\ cobj'[q].uid = obj[q].uid => cobj'[q].rv <= obj[q].rv
      <4>1. CASE q = r
        BY <2>3, <4>1 DEF ScheduleInv, Versions
      <4>2. CASE q # r
        BY <2>3, <4>2 DEF ScheduleInv, Versions
      <4> QED
        BY <4>1, <4>2
    <3> QED
      BY <2>1, <3>1 DEF Versions
  <2>5. NeverForgotten'
    BY <2>1, <2>3 DEF ScheduleInv, NeverForgotten
  <2> QED
    BY <2>4, <2>5
<1>9. CASE HandlingNamespaceEvents(r)
  <2>1. /\ UNCHANGED <<uids, secret, label, cobj, queue, timer, pc, busy, held, seen>>
        /\ touching' \in {touching \ {r}, {}} /\ budget' \in 0..MaxDisturb
    BY <1>1, <1>9, DisturbType DEF HandlingNamespaceEvents, local, Shape
  <2>3. CASE UNCHANGED obj
    BY <2>1, <2>3, KeepStep DEF NoneDropped
  <2>4. CASE ~UNCHANGED obj
    <3>1. cobj[r] = obj[r] /\ Exists(obj[r]) /\ obj' = [obj EXCEPT ![r].rv = @ + 1]
      BY <1>9, <2>4 DEF HandlingNamespaceEvents, Current
    <3>2. obj[r].rv \in Nat /\ obj[r].uid \in Nat
      BY <1>3 DEF Object
    <3>3. /\ obj'[r].uid = obj[r].uid /\ obj'[r].rv = obj[r].rv + 1
          /\ \A q \in Rotators \ {r} : obj'[q] = obj[q]
      BY <1>1, <1>3, <3>1, <3>2 DEF Shape, Object
    <3>4. Versions'
      <4>1. ASSUME NEW q \in Rotators
            PROVE  /\ obj'[q].uid <= uids[q] /\ cobj[q].uid <= uids[q]
                   /\ Exists(obj'[q]) /\ cobj[q].uid = obj'[q].uid => cobj[q].rv <= obj'[q].rv
        <5>1. CASE q = r
          BY <3>1, <3>2, <3>3, <5>1 DEF ScheduleInv, Versions
        <5>2. CASE q # r
          BY <3>3, <5>2 DEF ScheduleInv, Versions
        <5> QED
          BY <5>1, <5>2
      <4> QED
        BY <2>1, <4>1 DEF Versions
    <3>5. NeverForgotten'
      <4>1. cobj[r] # obj'[r]
        <5>1. obj[r].rv # obj[r].rv + 1
          BY <3>2
        <5>2. cobj[r].rv # obj'[r].rv
          BY <3>1, <3>3, <5>1
        <5> QED
          BY <5>2
      <4> QED
        BY <2>1, <3>3, <4>1 DEF ScheduleInv, NeverForgotten
    <3> QED
      BY <3>4, <3>5
  <2> QED
    BY <2>3, <2>4
<1> QED
  BY <1>2, <1>4, <1>5, <1>6, <1>7, <1>8, <1>9

(* The environment. *)
LEMMA EnvironmentStep ==
    ASSUME ScheduleInv, Environment
    PROVE  Versions' /\ NeverForgotten'
<1>1. Shape
  BY DEF ScheduleInv
<1>2. ASSUME NEW S \in SUBSET Rotators, Relabel(S) PROVE Versions' /\ NeverForgotten'
  <2>1. /\ UNCHANGED <<obj, uids, secret, cobj, queue, timer, pc, busy, held, seen>>
        /\ label' = [r \in Rotators |-> IF r \in S THEN ~label[r] ELSE label[r]]
        /\ touching' = S /\ budget' \in 0..MaxDisturb
    BY <1>1, <1>2, DisturbType DEF Relabel, local
  <2> QED
    BY <2>1, KeepStep DEF NoneDropped
<1>3. ASSUME NEW r \in Rotators, NEW b \in BOOLEAN, Create(r, b) PROVE Versions' /\ NeverForgotten'
  <2>1. /\ UNCHANGED <<secret, label, cobj, queue, timer, touching, pc, busy, held, seen>>
        /\ uids' = [uids EXCEPT ![r] = @ + 1] /\ budget' \in 0..MaxDisturb
        /\ obj' = [obj EXCEPT ![r] = NewObject(uids[r] + 1, b)]
    BY <1>1, <1>3, DisturbType DEF Create, sched, local
  <2>2. uids[r] \in Nat /\ cobj[r] \in Object /\ cobj[r].uid \in Nat
    BY <1>1 DEF Shape, Object
  <2>3. NewObject(uids[r] + 1, b) \in Object /\ NewObject(uids[r] + 1, b).uid = uids[r] + 1
    BY <2>2, NewObjectType
  <2>4. /\ obj'[r].uid = uids[r] + 1 /\ uids'[r] = uids[r] + 1
        /\ \A q \in Rotators \ {r} : obj'[q] = obj[q] /\ uids'[q] = uids[q]
    BY <1>1, <2>1, <2>2, <2>3 DEF Shape
  <2>5. cobj[r].uid <= uids[r]
    BY DEF ScheduleInv, Versions
  <2>6. Versions'
    <3>1. ASSUME NEW q \in Rotators
          PROVE  /\ obj'[q].uid <= uids'[q] /\ cobj[q].uid <= uids'[q]
                 /\ Exists(obj'[q]) /\ cobj[q].uid = obj'[q].uid => cobj[q].rv <= obj'[q].rv
      <4>1. CASE q = r
        BY <2>2, <2>4, <2>5, <4>1
      <4>2. CASE q # r
        BY <2>4, <4>2 DEF ScheduleInv, Versions
      <4> QED
        BY <4>1, <4>2
    <3> QED
      BY <2>1, <3>1 DEF Versions
  <2>7. NeverForgotten'
    <3>1. cobj[r] # obj'[r]
      BY <2>2, <2>4, <2>5
    <3> QED
      BY <2>1, <2>4, <3>1 DEF ScheduleInv, NeverForgotten
  <2> QED
    BY <2>6, <2>7
<1>4. ASSUME NEW r \in Rotators, Delete(r) PROVE Versions' /\ NeverForgotten'
  <2> DEFINE new == [obj[r] EXCEPT !.deleting = TRUE]
  <2>1. /\ UNCHANGED <<uids, secret, label, cobj, queue, timer, touching, pc, busy, held, seen>>
        /\ obj' = [obj EXCEPT ![r] = Stored(NextVersion(obj[r], new))]
        /\ budget' \in 0..MaxDisturb
    BY <1>1, <1>4, DisturbType DEF Delete, sched, local, Shape
  <2>2. new \in Object /\ new.uid = obj[r].uid
    BY <1>1, HeldVersions DEF Shape, Condition
  <2> HIDE DEF new
  <2> QED
    BY <2>1, <2>2, StoreStep DEF NoneDropped
<1>5. ASSUME NEW r \in Rotators, OtherFinalizerRemoved(r) PROVE Versions' /\ NeverForgotten'
  <2> DEFINE new == [obj[r] EXCEPT !.other = FALSE]
  <2>1. /\ UNCHANGED <<uids, secret, label, cobj, queue, timer, touching, pc, busy, held, seen, budget>>
        /\ obj' = [obj EXCEPT ![r] = Stored(NextVersion(obj[r], new))]
    BY <1>1, <1>5 DEF OtherFinalizerRemoved, sched, local, Shape
  <2>2. new \in Object /\ new.uid = obj[r].uid
    BY <1>1, HeldVersions DEF Shape, Condition
  <2> HIDE DEF new
  <2> QED
    BY <2>1, <2>2, StoreStep DEF NoneDropped
<1>6. ASSUME NEW r \in Rotators, CollectGarbage(r) PROVE Versions' /\ NeverForgotten'
  <2>1. /\ UNCHANGED <<obj, uids, label, cobj, queue, timer, touching, pc, busy, held, seen, budget>>
        /\ secret' = [secret EXCEPT ![r] = 0]
    BY <1>6 DEF CollectGarbage, sched, local
  <2> QED
    BY <2>1, KeepStep DEF NoneDropped
<1>7. CASE Crash
  <2>1. /\ UNCHANGED <<obj, uids, secret, label>> /\ Leave /\ cobj' = obj
        /\ queue' = {r \in Rotators : Exists(obj[r])}
        /\ timer' = {} /\ touching' = {} /\ budget' \in 0..MaxDisturb
    BY <1>1, <1>7, DisturbType DEF Crash, server
  <2>3. \A q \in Rotators : obj[q].rv \in Nat
    BY <1>1 DEF Shape, Object
  <2>4. Versions'
    BY <2>1, <2>3 DEF ScheduleInv, Versions
  <2>5. NeverForgotten'
    BY <2>1 DEF NeverForgotten
  <2> QED
    BY <2>4, <2>5
<1> QED
  BY <1>2, <1>3, <1>4, <1>5, <1>6, <1>7 DEF Environment

LEMMA NextScheduleInv ==
    ASSUME Periodic = TRUE, ScheduleInv, [Next]_vars
    PROVE  ScheduleInv'
<1>1. CASE Next
  BY <1>1, CycleStep, SchedulingStep, EnvironmentStep, NextShape DEF Next, ScheduleInv
<1>2. CASE UNCHANGED vars
  BY <1>2 DEF vars, server, sched, local, ScheduleInv, Shape, Versions, NeverForgotten
<1> QED
  BY <1>1, <1>2

(* If the interval after a successful cycle is positive, no SecretRotator   *)
(* is ever forgotten: whatever path Reconcile takes, whatever fails and     *)
(* whenever the operator restarts, each existing one is queued, on a timer, *)
(* at work or about to be announced.                                        *)
THEOREM NoRotatorForgotten ==
    ASSUME Periodic = TRUE
    PROVE  Spec => []NeverForgotten
<1>1. Init => ScheduleInv
  BY InitScheduleInv
<1>2. ScheduleInv /\ [Next]_vars => ScheduleInv'
  BY NextScheduleInv
<1>3. ScheduleInv => NeverForgotten
  BY DEF ScheduleInv
<1> QED
  BY <1>1, <1>2, <1>3, PTL DEF Spec

-----------------------------------------------------------------------------
(* How many updates an object may still get without a new disturbance.      *)

Cost(b, n) == IF b THEN n ELSE 0

(* HandleConditions and HandleFinalizers have one each. *)
SetUp(o) == Cost(o.available = "none", 1) + Cost(~o.deleting /\ ~o.finalizer, 1)

(* UpdateStatus has one if the status does not show the labels l; a cycle   *)
(* that listed the namespaces by the labels before (out) may have one more. *)
Status(o, l, out) ==
    IF out THEN 1 + Cost(o.available # "true" \/ o.prov = l, 1)
           ELSE Cost(o.available # "true" \/ o.prov # l, 1)

(* Degraded unknown, Degraded true and the finalizer: three, of which fin   *)
(* says that only the last is left.  The removal of another finalizer makes *)
(* a cycle that is about to do the last one start again.                    *)
Finalizing(o, fin) ==
    IF o.deleting /\ o.finalizer
    THEN Cost(o.other, 3)
         + (IF o.degraded = "unknown" THEN 2 ELSE IF o.degraded = "true" /\ fin THEN 1 ELSE 3)
    ELSE 0

(* The event filter has one if a namespace event is pending (t), which may  *)
(* make the finalization start again.                                       *)
Load(o, l, out, fin, t) ==
    IF Exists(o) THEN SetUp(o) + Status(o, l, out) + Finalizing(o, fin) + Cost(t, 3) ELSE 0

Outdated(r) == busy = r /\ pc \in {"patch", "manage", "status"} /\ seen # label[r]

AboutToFinalize(r) == busy = r /\ pc = "unfinalize" /\ held = obj[r]

Weight(r) ==
    obj[r].rv + Load(obj[r], label[r], Outdated(r), AboutToFinalize(r), r \in touching)

Budgeted == \A r \in Rotators : Weight(r) <= 3 + 7 * (MaxDisturb - budget)

(* Nothing is left of an object that is gone. *)
Gone == \A r \in Rotators : ~Exists(obj[r]) => obj[r] = NoObject

BoundInv == Shape /\ FinalizingPoints /\ Gone /\ Budgeted

LEMMA LoadType ==
    ASSUME NEW o \in Object, NEW l \in BOOLEAN, NEW out \in BOOLEAN, NEW fin \in BOOLEAN,
           NEW t \in BOOLEAN
    PROVE  Load(o, l, out, fin, t) \in Nat
  BY DEF Load, SetUp, Status, Finalizing, Cost

LEMMA LoadMonotone ==
    ASSUME NEW o \in Object, NEW l \in BOOLEAN,
           NEW out \in BOOLEAN, NEW fin \in BOOLEAN, NEW t \in BOOLEAN,
           NEW out2 \in BOOLEAN, NEW fin2 \in BOOLEAN, NEW t2 \in BOOLEAN,
           out2 => out, fin => fin2, t2 => t
    PROVE  Load(o, l, out2, fin2, t2) <= Load(o, l, out, fin, t)
  BY DEF Load, SetUp, Status, Finalizing, Cost

(* Only a step of the cycle that ends it removes the claim that one update  *)
(* of the finalization is left, and that claim is worth two.                *)
LEMMA LoadRestart ==
    ASSUME NEW o \in Object, NEW l \in BOOLEAN,
           NEW out \in BOOLEAN, NEW fin \in BOOLEAN, NEW t \in BOOLEAN,
           NEW out2 \in BOOLEAN, NEW fin2 \in BOOLEAN, NEW t2 \in BOOLEAN,
           out2 => out, t2 => t
    PROVE  Load(o, l, out2, fin2, t2) <= Load(o, l, out, fin, t) + 2
  BY DEF Load, SetUp, Status, Finalizing, Cost

LEMMA LoadVersion ==
    ASSUME NEW o \in Object, NEW new \in Object, NEW l \in BOOLEAN, NEW out \in BOOLEAN,
           NEW fin \in BOOLEAN, NEW t \in BOOLEAN
    PROVE  /\ Load(NextVersion(o, new), l, out, fin, t) = Load(new, l, out, fin, t)
           /\ NextVersion(o, new).rv = IF new = o THEN o.rv ELSE o.rv + 1
  BY DEF Load, SetUp, Status, Finalizing, Cost, NextVersion, Object, Exists

(* A write that is paid for by what it leaves to do. *)
Paid(o, new, l, out, fin, t, out2, fin2) ==
    IF new = o
    THEN Load(o, l, out2, fin2, t) <= Load(o, l, out, fin, t)
    ELSE 1 + Load(new, l, out2, fin2, t) <= Load(o, l, out, fin, t)

LEMMA StoredLoad ==
    ASSUME NEW o \in Object, NEW new \in Object, new.uid = o.uid, NEW l \in BOOLEAN,
           NEW out \in BOOLEAN, NEW fin \in BOOLEAN, NEW t \in BOOLEAN, NEW n \in Nat,
           NextVersion(o, new).rv + Load(new, l, out, fin, t) <= n
    PROVE  Stored(NextVersion(o, new)).rv
              + Load(Stored(NextVersion(o, new)), l, out, fin, t) <= n
<1> DEFINE p == NextVersion(o, new)
<1>1. p \in Object /\ p.rv + Load(p, l, out, fin, t) <= n
  BY LoadVersion, StoredVersion
<1> HIDE DEF p
<1>2. Stored(p) = p \/ Stored(p) = NoObject
  BY DEF Stored
<1>3. NoObject.rv = 0 /\ Load(NoObject, l, out, fin, t) = 0
  BY DEF NoObject, Load, Exists
<1> QED
  BY <1>1, <1>2, <1>3 DEF p

(* The writes of a cycle. *)
LEMMA CycleLoads ==
    ASSUME NEW o \in Object, Exists(o), NEW l \in BOOLEAN, NEW s \in BOOLEAN, NEW t \in BOOLEAN
    PROVE  /\ o.available = "none" =>
                 Paid(o, [o EXCEPT !.available = "unknown"], l, FALSE, FALSE, t, FALSE, FALSE)
           /\ ~o.finalizer /\ ~o.deleting =>
                 Paid(o, [o EXCEPT !.finalizer = TRUE], l, FALSE, FALSE, t, FALSE, FALSE)
           /\ o.finalizer /\ o.deleting =>
                 /\ Paid(o, [o EXCEPT !.degraded = "unknown"], l, FALSE, FALSE, t, FALSE, FALSE)
                 /\ Paid(o, [o EXCEPT !.degraded = "true"], l, FALSE, FALSE, t, FALSE, TRUE)
                 /\ Paid(o, [o EXCEPT !.finalizer = FALSE], l, FALSE, TRUE, t, FALSE, FALSE)
           /\ Paid(o, [o EXCEPT !.available = "true", !.prov = s], l, s # l, FALSE, t, FALSE, FALSE)
<1> USE DEF Paid, Load, SetUp, Status, Finalizing, Cost, Exists
<1>1. o.available = "none" =>
          Paid(o, [o EXCEPT !.available = "unknown"], l, FALSE, FALSE, t, FALSE, FALSE)
  BY DEF Object
<1>2. ~o.finalizer /\ ~o.deleting =>
          Paid(o, [o EXCEPT !.finalizer = TRUE], l, FALSE, FALSE, t, FALSE, FALSE)
  BY DEF Object
<1>3. o.finalizer /\ o.deleting =>
          Paid(o, [o EXCEPT !.degraded = "unknown"], l, FALSE, FALSE, t, FALSE, FALSE)
  BY DEF Object
<1>4. o.finalizer /\ o.deleting =>
          Paid(o, [o EXCEPT !.degraded = "true"], l, FALSE, FALSE, t, FALSE, TRUE)
  BY DEF Object
<1>5. o.finalizer /\ o.deleting =>
          Paid(o, [o EXCEPT !.finalizer = FALSE], l, FALSE, TRUE, t, FALSE, FALSE)
  BY DEF Object
<1>6. Paid(o, [o EXCEPT !.available = "true", !.prov = s], l, s # l, FALSE, t, FALSE, FALSE)
  <2> DEFINE new == [o EXCEPT !.available = "true", !.prov = s]
  <2>1. o.available = "true" /\ o.prov = s => new = o
    BY DEF Object
  <2>2. /\ new.available = "true" /\ new.prov = s /\ new.uid = o.uid /\ new.deleting = o.deleting
        /\ new.finalizer = o.finalizer /\ new.other = o.other /\ new.degraded = o.degraded
    BY DEF Object
  <2>3. o.prov \in BOOLEAN
    BY DEF Object
  <2> HIDE DEF new
  <2>4. Paid(o, new, l, s # l, FALSE, t, FALSE, FALSE)
    BY <2>1, <2>2, <2>3
  <2> QED
    BY <2>4 DEF new
<1> QED
  BY <1>1, <1>2, <1>3, <1>4, <1>5, <1>6

(* A write that leaves more to do than it found, for instance because its   *)
(* answer is lost, leaves at most six more.                                 *)
LEMMA LostLoads ==
    ASSUME NEW o \in Object, NEW new \in Object, NEW l \in BOOLEAN, NEW t \in BOOLEAN,
           NEW out \in BOOLEAN, NEW fin \in BOOLEAN,
           new.uid = o.uid, new.deleting = o.deleting, new.other = o.other,
           new.deleting /\ new.finalizer => o.finalizer
    PROVE  Load(new, l, FALSE, FALSE, t) <= Load(o, l, out, fin, t) + 6
  BY DEF Load, SetUp, Status, Finalizing, Cost, Exists

(* Weights of states. *)
LEMMA WeightType ==
    ASSUME Shape, NEW r \in Rotators
    PROVE  /\ obj[r] \in Object /\ obj[r].rv \in Nat /\ label[r] \in BOOLEAN
           /\ Outdated(r) \in BOOLEAN /\ AboutToFinalize(r) \in BOOLEAN
           /\ Weight(r) \in Nat
<1>1. obj[r] \in Object /\ obj[r].rv \in Nat /\ label[r] \in BOOLEAN
  BY DEF Shape, Object
<1>2. Outdated(r) \in BOOLEAN /\ AboutToFinalize(r) \in BOOLEAN /\ (r \in touching) \in BOOLEAN
  BY DEF Outdated, AboutToFinalize
<1>3. Load(obj[r], label[r], Outdated(r), AboutToFinalize(r), r \in touching) \in Nat
  BY <1>1, <1>2, LoadType
<1> QED
  BY <1>1, <1>2, <1>3 DEF Weight

LEMMA NextWeightType ==
    ASSUME Shape', NEW r \in Rotators
    PROVE  /\ obj'[r] \in Object /\ obj'[r].rv \in Nat /\ label'[r] \in BOOLEAN
           /\ Outdated(r)' \in BOOLEAN /\ AboutToFinalize(r)' \in BOOLEAN
           /\ Weight(r)' \in Nat
<1>1. obj'[r] \in Object /\ obj'[r].rv \in Nat /\ label'[r] \in BOOLEAN
  BY DEF Shape, Object
<1>2. Outdated(r)' \in BOOLEAN /\ AboutToFinalize(r)' \in BOOLEAN /\ (r \in touching') \in BOOLEAN
  BY DEF Outdated, AboutToFinalize
<1>3. Load(obj'[r], label'[r], Outdated(r)', AboutToFinalize(r)', r \in touching') \in Nat
  BY <1>1, <1>2, LoadType
<1> QED
  BY <1>1, <1>2, <1>3 DEF Weight

LEMMA Affordable ==
    ASSUME Shape, Shape', Budgeted,
           \A q \in Rotators : Weight(q)' <= Weight(q) + 7 * (budget - budget')
    PROVE  Budgeted'
<1> SUFFICES ASSUME NEW q \in Rotators
             PROVE  Weight(q)' <= 3 + 7 * (MaxDisturb - budget')
  BY DEF Budgeted
<1>1. Weight(q) \in Nat /\ Weight(q)' \in Nat
  BY WeightType, NextWeightType
<1>2. budget \in Nat /\ budget' \in Nat /\ MaxDisturb \in Nat
  BY BoundAssumption DEF Shape
<1>3. Weight(q) <= 3 + 7 * (MaxDisturb - budget)
  BY DEF Budgeted
<1>4. Weight(q)' <= Weight(q) + 7 * (budget - budget')
  OBVIOUS
<1> HIDE DEF Weight
<1> QED
  BY <1>1, <1>2, <1>3, <1>4

(* A step that changes nothing about r and takes no claim away. *)
LEMMA Keeps ==
    ASSUME Shape, Shape', NEW r \in Rotators, obj'[r] = obj[r], label'[r] = label[r],
           r \in touching' => r \in touching,
           Outdated(r)' => Outdated(r),
           AboutToFinalize(r) => AboutToFinalize(r)'
    PROVE  Weight(r)' <= Weight(r)
<1> DEFINE t == r \in touching
           t2 == r \in touching'
<1>1. t \in BOOLEAN /\ t2 \in BOOLEAN /\ (t2 => t)
  OBVIOUS
<1>2. /\ obj[r] \in Object /\ obj[r].rv \in Nat /\ label[r] \in BOOLEAN
      /\ Outdated(r) \in BOOLEAN /\ AboutToFinalize(r) \in BOOLEAN
      /\ Outdated(r)' \in BOOLEAN /\ AboutToFinalize(r)' \in BOOLEAN
  BY WeightType, NextWeightType
<1> HIDE DEF t, t2
<1> DEFINE load == Load(obj[r], label[r], Outdated(r), AboutToFinalize(r), t)
           load2 == Load(obj[r], label[r], Outdated(r)', AboutToFinalize(r)', t2)
<1>3. load2 <= load /\ load \in Nat /\ load2 \in Nat
  BY <1>1, <1>2, LoadMonotone, LoadType
<1>4. Weight(r) = obj[r].rv + load /\ Weight(r)' = obj[r].rv + load2
  BY DEF Weight, t, t2
<1> HIDE DEF load, load2
<1> QED
  BY <1>2, <1>3, <1>4

(* A write of Reconcile. *)
LEMMA WriteStep ==
    ASSUME Shape, Shape', Budgeted, NEW r \in Rotators, busy = r, busy' \in {r, None},
           UNCHANGED <<label, touching>>,
           NEW new \in Object, new.uid = obj[r].uid,
           obj' = [obj EXCEPT ![r] = Stored(NextVersion(obj[r], new))],
           NextVersion(obj[r], new).rv
               + Load(new, label[r], Outdated(r)', AboutToFinalize(r)', r \in touching)
             <= Weight(r) + 7 * (budget - budget'),
           budget' <= budget
    PROVE  Budgeted'
<1> DEFINE t == r \in touching
           o == Stored(NextVersion(obj[r], new))
<1>1. /\ obj[r] \in Object /\ label[r] \in BOOLEAN /\ t \in BOOLEAN
      /\ Outdated(r)' \in BOOLEAN /\ AboutToFinalize(r)' \in BOOLEAN
      /\ Weight(r) \in Nat
  BY WeightType, NextWeightType
<1>2. budget \in Nat /\ budget' \in Nat
  BY BoundAssumption DEF Shape
<1>3. Weight(r) + 7 * (budget - budget') \in Nat
  BY <1>1, <1>2
<1>4. o.rv + Load(o, label[r], Outdated(r)', AboutToFinalize(r)', t)
        <= Weight(r) + 7 * (budget - budget')
  <2> DEFINE out == Outdated(r)'
             fin == AboutToFinalize(r)'
             n == Weight(r) + 7 * (budget - budget')
  <2>1. NextVersion(obj[r], new).rv + Load(new, label[r], out, fin, t) <= n
    OBVIOUS
  <2>2. out \in BOOLEAN /\ fin \in BOOLEAN /\ t \in BOOLEAN /\ n \in Nat
    BY <1>1, <1>3
  <2> HIDE DEF out, fin, n, t
  <2>3. o.rv + Load(o, label[r], out, fin, t) <= n
    BY <1>1, <2>1, <2>2, StoredLoad
  <2> QED
    BY <2>3 DEF out, fin, n
<1>5. obj'[r] = o /\ \A q \in Rotators \ {r} : obj'[q] = obj[q]
  BY DEF Shape
<1>6. Weight(r)' = o.rv + Load(o, label[r], Outdated(r)', AboutToFinalize(r)', t)
  BY <1>5 DEF Weight
<1>7. ASSUME NEW q \in Rotators \ {r} PROVE Weight(q)' <= Weight(q) + 7 * (budget - budget')
  <2>1. q # busy /\ q # busy'
    BY NoneAssumption
  <2>2. ~Outdated(q)' /\ ~AboutToFinalize(q)
    BY <2>1 DEF Outdated, AboutToFinalize
  <2>3. Weight(q)' <= Weight(q)
    BY <1>5, <2>2, Keeps
  <2>4. Weight(q) \in Nat /\ Weight(q)' \in Nat
    BY WeightType, NextWeightType
  <2> QED
    BY <1>2, <2>3, <2>4
<1> QED
  BY <1>4, <1>6, <1>7, Affordable

LEMMA PaidWrite ==
    ASSUME Shape, Shape', Budgeted, NEW r \in Rotators, busy = r, busy' \in {r, None},
           UNCHANGED <<label, touching, budget>>,
           NEW new \in Object, new.uid = obj[r].uid,
           obj' = [obj EXCEPT ![r] = Stored(NextVersion(obj[r], new))],
           Paid(obj[r], new, label[r], Outdated(r), AboutToFinalize(r), r \in touching,
                Outdated(r)', AboutToFinalize(r)')
    PROVE  Budgeted'
<1> DEFINE t == r \in touching
           out == Outdated(r)
           fin == AboutToFinalize(r)
           out2 == Outdated(r)'
           fin2 == AboutToFinalize(r)'
<1>1. /\ obj[r] \in Object /\ obj[r].rv \in Nat /\ label[r] \in BOOLEAN /\ t \in BOOLEAN
      /\ out \in BOOLEAN /\ fin \in BOOLEAN /\ out2 \in BOOLEAN /\ fin2 \in BOOLEAN
  BY WeightType, NextWeightType
<1>2. /\ Weight(r) = obj[r].rv + Load(obj[r], label[r], out, fin, t)
      /\ Paid(obj[r], new, label[r], out, fin, t, out2, fin2)
  BY DEF Weight
<1>3. budget \in Nat /\ budget' = budget
  BY DEF Shape
<1> HIDE DEF t, out, fin, out2, fin2
<1>4. /\ Load(obj[r], label[r], out, fin, t) \in Nat
      /\ Load(obj[r], label[r], out2, fin2, t) \in Nat
      /\ Load(new, label[r], out2, fin2, t) \in Nat
  BY <1>1, LoadType
<1>5. NextVersion(obj[r], new).rv = IF new = obj[r] THEN obj[r].rv ELSE obj[r].rv + 1
  BY <1>1, LoadVersion
<1>6. NextVersion(obj[r], new).rv + Load(new, label[r], out2, fin2, t)
        <= Weight(r) + 7 * (budget - budget')
  <2>1. CASE new = obj[r]
    BY <1>1, <1>2, <1>3, <1>4, <1>5, <2>1 DEF Paid
  <2>2. CASE new # obj[r]
    BY <1>1, <1>2, <1>3, <1>4, <1>5, <2>2 DEF Paid
  <2> QED
    BY <2>1, <2>2
<1>7. budget' <= budget
  BY <1>3
<1> QED
  BY <1>6, <1>7, WriteStep DEF t, out2, fin2

(* A step that writes nothing and takes no claim away. *)
LEMMA FreeStep ==
    ASSUME Shape, Shape', Budgeted, UNCHANGED <<obj, label, budget>>,
           touching' \subseteq touching,
           \A r \in Rotators : Outdated(r)' => Outdated(r),
           \A r \in Rotators : AboutToFinalize(r) => AboutToFinalize(r)'
    PROVE  Budgeted'
<1>1. budget \in Nat /\ budget' = budget
  BY DEF Shape
<1>2. ASSUME NEW r \in Rotators PROVE Weight(r)' <= Weight(r) + 7 * (budget - budget')
  <2>1. Weight(r)' <= Weight(r)
    BY Keeps
  <2>2. Weight(r) \in Nat /\ Weight(r)' \in Nat
    BY WeightType, NextWeightType
  <2> QED
    BY <1>1, <2>1, <2>2
<1> QED
  BY <1>2, Affordable

(* A fault or a crash before anything is written. *)
LEMMA FaultStep ==
    ASSUME Shape, Shape', Budgeted, UNCHANGED <<obj, label>>, budget' = budget - 1,
           touching' \subseteq touching,
           \A r \in Rotators : Outdated(r)' => Outdated(r)
    PROVE  Budgeted'
<1>1. budget \in Nat /\ budget' \in Nat
  BY DEF Shape
<1>2. ASSUME NEW r \in Rotators PROVE Weight(r)' <= Weight(r) + 7 * (budget - budget')
  <2> DEFINE t == r \in touching
             t2 == r \in touching'
             out == Outdated(r)
             fin == AboutToFinalize(r)
             out2 == Outdated(r)'
             fin2 == AboutToFinalize(r)'
  <2>1. /\ obj[r] \in Object /\ obj[r].rv \in Nat /\ label[r] \in BOOLEAN
        /\ t \in BOOLEAN /\ t2 \in BOOLEAN /\ (t2 => t) /\ (out2 => out)
        /\ out \in BOOLEAN /\ fin \in BOOLEAN /\ out2 \in BOOLEAN /\ fin2 \in BOOLEAN
    BY WeightType, NextWeightType
  <2>2. /\ Weight(r) = obj[r].rv + Load(obj[r], label[r], out, fin, t)
        /\ Weight(r)' = obj[r].rv + Load(obj[r], label[r], out2, fin2, t2)
    BY DEF Weight
  <2> HIDE DEF t, t2, out, fin, out2, fin2
  <2>3. /\ Load(obj[r], label[r], out, fin, t) \in Nat
        /\ Load(obj[r], label[r], out2, fin2, t2) \in Nat
        /\ Load(obj[r], label[r], out2, fin2, t2) <= Load(obj[r], label[r], out, fin, t) + 2
    BY <2>1, LoadType, LoadRestart
  <2> QED
    BY <1>1, <2>1, <2>2, <2>3
<1> QED
  BY <1>2, Affordable

(* A write whose answer is lost. *)
LEMMA LostWrite ==
    ASSUME Shape, Shape', Budgeted, NEW r \in Rotators, busy = r, busy' = None,
           UNCHANGED <<label, touching>>, budget' = budget - 1,
           NEW new \in Object, new.uid = obj[r].uid, new.deleting = obj[r].deleting,
           new.other = obj[r].other, new.deleting /\ new.finalizer => obj[r].finalizer,
           obj' = [obj EXCEPT ![r] = Stored(NextVersion(obj[r], new))]
    PROVE  Budgeted'
<1> DEFINE t == r \in touching
           out == Outdated(r)
           fin == AboutToFinalize(r)
<1>1. /\ obj[r] \in Object /\ obj[r].rv \in Nat /\ label[r] \in BOOLEAN
      /\ t \in BOOLEAN /\ out \in BOOLEAN /\ fin \in BOOLEAN
  BY WeightType
<1>2. Weight(r) = obj[r].rv + Load(obj[r], label[r], out, fin, t)
  BY DEF Weight
<1>3. Outdated(r)' = FALSE /\ AboutToFinalize(r)' = FALSE
  BY NoneAssumption DEF Outdated, AboutToFinalize
<1>4. budget \in Nat /\ budget' <= budget /\ 7 * (budget - budget') = 7
  BY DEF Shape
<1> HIDE DEF t, out, fin
<1>5. /\ Load(obj[r], label[r], out, fin, t) \in Nat
      /\ Load(new, label[r], FALSE, FALSE, t) \in Nat
      /\ Load(new, label[r], FALSE, FALSE, t) <= Load(obj[r], label[r], out, fin, t) + 6
  BY <1>1, LoadType, LostLoads
<1>6. NextVersion(obj[r], new).rv \in Nat /\ NextVersion(obj[r], new).rv <= obj[r].rv + 1
  BY <1>1, LoadVersion
<1>7. NextVersion(obj[r], new).rv + Load(new, label[r], Outdated(r)', AboutToFinalize(r)', t)
        <= Weight(r) + 7 * (budget - budget')
  <2>1. NextVersion(obj[r], new).rv + Load(new, label[r], FALSE, FALSE, t) <= Weight(r) + 7
    <3> DEFINE v == NextVersion(obj[r], new).rv
               n == Load(new, label[r], FALSE, FALSE, t)
               m == Load(obj[r], label[r], out, fin, t)
    <3> HIDE DEF v, n, m
    <3>1. /\ v \in Nat /\ n \in Nat /\ m \in Nat /\ obj[r].rv \in Nat
          /\ v <= obj[r].rv + 1 /\ n <= m + 6 /\ Weight(r) = obj[r].rv + m
      BY <1>1, <1>2, <1>5, <1>6 DEF v, n, m
    <3>2. v + n <= Weight(r) + 7
      BY <3>1
    <3> QED
      BY <3>2 DEF v, n
  <2> QED
    BY <1>3, <1>4, <2>1
<1> QED
  BY <1>4, <1>7, WriteStep DEF t

(* One write of the held object by Reconcile, up to the end of the          *)
(* finalization.                                                            *)
LEMMA UpdateStep ==
    ASSUME BoundInv, Shape', pc \notin {"idle", "patch", "manage", "status"},
           NEW new \in Object, new.uid = held.uid, new.deleting = held.deleting,
           new.other = held.other, new.deleting /\ new.finalizer => held.finalizer,
           NEW next \in Points \ {"idle", "patch", "manage", "status"}, Update(new, next),
           next = "unfinalize" => new.finalizer,
           Current(held, busy) =>
                  Paid(held, new, label[busy], FALSE, pc = "unfinalize", busy \in touching,
                       FALSE, next = "unfinalize")
    PROVE  Budgeted'
<1>1. PICK r \in Rotators : r = busy
  BY DEF BoundInv, Shape
<1>2. Shape /\ Budgeted /\ held \in Object /\ r # None /\ label[r] \in BOOLEAN
  BY NoneAssumption DEF BoundInv, Shape
<1>3. CASE UpdateObject(new, next)
  <2>1. /\ Exists(held) /\ held = obj[r] /\ held' = NextVersion(held, new)
        /\ obj' = [obj EXCEPT ![r] = Stored(held')] /\ busy' = r /\ pc' = next
        /\ UNCHANGED <<label, touching, budget>>
    BY <1>1, <1>3 DEF UpdateObject, Current, sched
  <2>2. Outdated(r) = FALSE /\ Outdated(r)' = FALSE /\ AboutToFinalize(r) = (pc = "unfinalize")
    BY <1>1, <2>1 DEF Outdated, AboutToFinalize
  <2>3. AboutToFinalize(r)' = (next = "unfinalize")
    <3>1. obj'[r] = Stored(held')
      BY <1>2, <2>1 DEF Shape
    <3>2. next = "unfinalize" => held'.finalizer
      BY <1>2, <2>1 DEF NextVersion, Object
    <3> QED
      BY <2>1, <3>1, <3>2 DEF AboutToFinalize, Stored
  <2>4. Paid(obj[r], new, label[r], Outdated(r), AboutToFinalize(r), r \in touching,
             Outdated(r)', AboutToFinalize(r)')
    BY <1>1, <2>1, <2>2, <2>3 DEF Current
  <2> QED
    BY <1>1, <1>2, <2>1, <2>4, PaidWrite
<1>4. CASE UpdateRejected
  <2>1. ~Current(held, r) /\ busy' = None /\ UNCHANGED <<obj, label, budget, touching>>
    BY <1>1, <1>4 DEF UpdateRejected, RetryLater, Leave, server
  <2>2. ASSUME NEW q \in Rotators PROVE ~Outdated(q)' /\ ~AboutToFinalize(q)
    BY <1>1, <2>1, NoneAssumption
    DEF Outdated, AboutToFinalize, Current, BoundInv, FinalizingPoints
  <2> QED
    BY <1>2, <2>1, <2>2, FreeStep
<1>5. CASE UpdateFails(new)
  <2>1. /\ busy' = None /\ UNCHANGED <<label, touching>> /\ budget' = budget - 1
        /\ \/ UNCHANGED obj
           \/ /\ held = obj[r]
              /\ obj' = [obj EXCEPT ![r] = Stored(NextVersion(obj[r], new))]
    BY <1>1, <1>5 DEF UpdateFails, RetryLater, Leave, Disturb, Current
  <2>2. ASSUME NEW q \in Rotators PROVE ~Outdated(q)'
    BY <2>1, NoneAssumption DEF Outdated
  <2>3. CASE UNCHANGED obj
    BY <1>2, <2>1, <2>2, <2>3, FaultStep
  <2>4. CASE /\ held = obj[r]
             /\ obj' = [obj EXCEPT ![r] = Stored(NextVersion(obj[r], new))]
    BY <1>1, <1>2, <2>1, <2>4, LostWrite
  <2> QED
    BY <2>1, <2>3, <2>4
<1> QED
  BY <1>3, <1>4, <1>5 DEF Update

LEMMA CycleBudget ==
    ASSUME BoundInv, Cycle, Shape'
    PROVE  Budgeted'
<1>1. Shape /\ Budgeted /\ held \in Object /\ seen \in BOOLEAN /\ label \in [Rotators -> BOOLEAN]
  BY DEF BoundInv, Shape
<1>2. ASSUME pc # "idle" PROVE busy \in Rotators /\ label[busy] \in BOOLEAN
  BY <1>1, <1>2 DEF Shape
<1> DEFINE l == label[busy]
           t == busy \in touching
<1>loads. ASSUME pc # "idle", Exists(held)
       PROVE  /\ held.available = "none" =>
                    Paid(held, [held EXCEPT !.available = "unknown"], l, FALSE, FALSE, t, FALSE, FALSE)
              /\ ~held.finalizer /\ ~held.deleting =>
                    Paid(held, [held EXCEPT !.finalizer = TRUE], l, FALSE, FALSE, t, FALSE, FALSE)
              /\ held.finalizer /\ held.deleting =>
                    /\ Paid(held, [held EXCEPT !.degraded = "unknown"], l, FALSE, FALSE, t, FALSE, FALSE)
                    /\ Paid(held, [held EXCEPT !.degraded = "true"], l, FALSE, FALSE, t, FALSE, TRUE)
                    /\ Paid(held, [held EXCEPT !.finalizer = FALSE], l, FALSE, TRUE, t, FALSE, FALSE)
              /\ Paid(held, [held EXCEPT !.available = "true", !.prov = seen], l, seen # l, FALSE, t, FALSE, FALSE)
  <2>1. l \in BOOLEAN /\ t \in BOOLEAN
    BY <1>2, <1>loads
  <2> HIDE DEF l, t
  <2> QED
    BY <1>1, <1>loads, <2>1, CycleLoads
<1>3. ASSUME UNCHANGED <<obj, label, touching, budget>>, busy' \in {busy, None},
             pc # "unfinalize" \/ held # obj[busy],
             pc' \in {"patch", "manage", "status"} =>
                \/ pc \in {"patch", "manage", "status"} /\ UNCHANGED seen
                \/ seen' = label[busy]
      PROVE  Budgeted'
  <2>1. ASSUME NEW r \in Rotators
        PROVE  (Outdated(r)' => Outdated(r)) /\ ~AboutToFinalize(r)
    BY <1>3, NoneAssumption DEF Outdated, AboutToFinalize
  <2> QED
    BY <1>1, <1>3, <2>1, FreeStep
<1>4. ASSUME UNCHANGED <<obj, label, touching>>, busy' = None, budget' = budget - 1
      PROVE  Budgeted'
  <2>1. ASSUME NEW r \in Rotators PROVE ~Outdated(r)'
    BY <1>4, NoneAssumption DEF Outdated
  <2> QED
    BY <1>1, <1>4, <2>1, FaultStep
<1>5. ASSUME NEW next \in Points \ {"patch", "manage", "status"}, Goto(next) \/ Refetch(next),
             pc # "unfinalize"
      PROVE  Budgeted'
  BY <1>3, <1>5 DEF Goto, Refetch, RetryLater, Leave, server, sched
<1>6. ASSUME RetryLater, UNCHANGED <<server, budget>>, pc # "unfinalize" \/ held # obj[busy]
      PROVE  Budgeted'
  BY <1>3, <1>6 DEF RetryLater, Leave, server
<1>7. ASSUME RetryLater, UNCHANGED server, Disturb("fault")
      PROVE  Budgeted'
  BY <1>4, <1>7 DEF RetryLater, Leave, server, Disturb
<1>8. CASE HandleConditions
  <2> DEFINE new == [held EXCEPT !.available = "unknown"]
  <2>1. /\ new \in Object /\ new.uid = held.uid /\ new.deleting = held.deleting
        /\ new.other = held.other /\ new.finalizer = held.finalizer
    BY <1>1 DEF Object, Condition
  <2>2. pc = "conditions"
    BY <1>8 DEF HandleConditions
  <2>3. CASE held.available # "none"
    BY <1>5, <1>8, <2>2, <2>3 DEF HandleConditions, Points
  <2>4. CASE held.available = "none"
    <3>1. Update(new, "refetch")
      BY <1>8, <2>4 DEF HandleConditions
    <3>2. Exists(held) =>
            Paid(held, new, label[busy], FALSE, FALSE, busy \in touching, FALSE, FALSE)
      BY <1>loads, <2>2, <2>4
    <3> QED
      BY <2>1, <2>2, <3>1, <3>2, UpdateStep DEF Current, Points
  <2> QED
    BY <2>3, <2>4
<1>9. CASE RefetchAfterConditions
  BY <1>5, <1>9 DEF RefetchAfterConditions, Points
<1>10. CASE HandleFinalizers
  <2> DEFINE new == [held EXCEPT !.finalizer = TRUE]
  <2>1. /\ new \in Object /\ new.uid = held.uid /\ new.deleting = held.deleting
        /\ new.other = held.other
    BY <1>1 DEF Object
  <2>2. pc = "finalizer"
    BY <1>10 DEF HandleFinalizers
  <2>3. CASE held.finalizer \/ held.deleting
    BY <1>5, <1>6, <1>10, <2>2, <2>3 DEF HandleFinalizers, Points
  <2>4. CASE ~held.finalizer /\ ~held.deleting
    <3>1. Update(new, "checker")
      BY <1>10, <2>4 DEF HandleFinalizers
    <3>2. Exists(held) =>
            Paid(held, new, label[busy], FALSE, FALSE, busy \in touching, FALSE, FALSE)
      BY <1>loads, <2>2, <2>4
    <3> QED
      BY <2>1, <2>2, <2>4, <3>1, <3>2, UpdateStep DEF Current, Points
  <2> QED
    BY <2>3, <2>4
<1>11. CASE SecretRotatorChecker
  <2> DEFINE new == [held EXCEPT !.degraded = "unknown"]
  <2>1. /\ new \in Object /\ new.uid = held.uid /\ new.deleting = held.deleting
        /\ new.other = held.other /\ new.finalizer = held.finalizer
    BY <1>1 DEF Object, Condition
  <2>2. pc = "checker" /\ held.finalizer = TRUE
    BY <1>1, <1>11 DEF SecretRotatorChecker, BoundInv, FinalizingPoints, Object
  <2>3. CASE ~held.deleting
    BY <1>5, <1>11, <2>2, <2>3 DEF SecretRotatorChecker, Points
  <2>4. CASE held.deleting
    <3>1. Update(new, "finalize")
      BY <1>11, <2>2, <2>4 DEF SecretRotatorChecker
    <3>2. Exists(held) =>
            Paid(held, new, label[busy], FALSE, FALSE, busy \in touching, FALSE, FALSE)
      BY <1>loads, <2>2, <2>4
    <3> QED
      BY <2>1, <2>2, <3>1, <3>2, UpdateStep DEF Current, Points
  <2> QED
    BY <2>3, <2>4
<1>12. CASE RefetchBeforeFinalizing
  BY <1>5, <1>12 DEF RefetchBeforeFinalizing, Points
<1>13. CASE ConfirmDegraded
  <2> DEFINE new == [held EXCEPT !.degraded = "true"]
  <2>1. /\ new \in Object /\ new.uid = held.uid /\ new.deleting = held.deleting
        /\ new.other = held.other /\ new.finalizer = held.finalizer
    BY <1>1 DEF Object, Condition
  <2>2. pc = "degraded" /\ Update(new, "unfinalize")
    BY <1>13 DEF ConfirmDegraded
  <2>3. CASE Current(held, busy)
    <3>1. held.finalizer /\ held.deleting /\ Exists(held)
      BY <2>2, <2>3 DEF Current, BoundInv, FinalizingPoints
    <3>2. Paid(held, new, label[busy], FALSE, FALSE, busy \in touching, FALSE, TRUE)
      BY <1>loads, <2>2, <3>1
    <3> QED
      BY <2>1, <2>2, <3>1, <3>2, UpdateStep DEF Points
  <2>4. CASE ~Current(held, busy)
    <3>1. CASE UpdateRejected
      BY <1>6, <2>2, <3>1 DEF UpdateRejected
    <3>2. CASE UpdateFails(new)
      BY <1>7, <2>4, <3>2 DEF UpdateFails, server
    <3> QED
      BY <2>2, <2>4, <3>1, <3>2 DEF Update, UpdateObject
  <2> QED
    BY <2>3, <2>4
<1>14. CASE RemoveFinalizer
  <2> DEFINE new == [held EXCEPT !.finalizer = FALSE]
  <2>1. /\ new \in Object /\ new.uid = held.uid /\ new.deleting = held.deleting
        /\ new.other = held.other /\ ~new.finalizer
    BY <1>1 DEF Object
  <2>2. pc = "unfinalize" /\ obj[busy].finalizer /\ obj[busy].deleting
    BY <1>14 DEF RemoveFinalizer, BoundInv, FinalizingPoints
  <2>3. CASE ~held.finalizer
    BY <1>6, <1>14, <2>2, <2>3 DEF RemoveFinalizer
  <2>4. CASE held.finalizer
    <3>1. Update(new, "validate")
      BY <1>14, <2>4 DEF RemoveFinalizer
    <3>2. Current(held, busy) =>
            Paid(held, new, label[busy], FALSE, TRUE, busy \in touching, FALSE, FALSE)
      BY <1>loads, <2>2 DEF Current
    <3> QED
      BY <2>1, <2>2, <3>1, <3>2, UpdateStep DEF Points
  <2> QED
    BY <2>3, <2>4
<1>15. CASE ValidateObjectSpec
  BY <1>3, <1>7, <1>15 DEF ValidateObjectSpec, server, sched
<1>patch. CASE DeferPatch
  <2>1. ASSUME NEW r \in Rotators PROVE Outdated(r)' => Outdated(r)
    BY <1>patch DEF DeferPatch, Outdated, server
  <2>2. CASE UNCHANGED budget
    BY <1>3, <1>patch, <2>2 DEF DeferPatch, server, sched
  <2>3. CASE budget' = budget - 1
    BY <1>1, <1>patch, <2>1, <2>3, FaultStep DEF DeferPatch, server, sched
  <2> QED
    BY <1>patch, <2>2, <2>3 DEF DeferPatch, Disturb
<1>16. CASE ManagingSecrets
  BY <1>3, <1>7, <1>16 DEF ManagingSecrets, sched
<1>17. CASE UpdateStatus
  <2> DEFINE new == [held EXCEPT !.available = "true", !.prov = seen]
  <2>1. /\ new \in Object /\ new.uid = held.uid /\ new.deleting = held.deleting
        /\ new.other = held.other /\ new.finalizer = held.finalizer
    BY <1>1 DEF Object, Condition
  <2>2. PICK r \in Rotators : r = busy
    BY <1>2, <1>17 DEF UpdateStatus
  <2>3. pc = "status" /\ label[r] \in BOOLEAN /\ r # None
    BY <1>1, <1>17, NoneAssumption DEF UpdateStatus
  <2>4. CASE UpdateRejected
    BY <1>6, <2>3, <2>4 DEF UpdateRejected
  <2>5. CASE UpdateFails(new)
    <3>1. CASE UNCHANGED obj
      BY <1>7, <2>5, <3>1 DEF UpdateFails, server
    <3>2. CASE ~UNCHANGED obj
      <4>1. /\ held = obj[r] /\ busy' = None /\ UNCHANGED <<label, touching>>
            /\ budget' = budget - 1
            /\ obj' = [obj EXCEPT ![r] = Stored(NextVersion(obj[r], new))]
        BY <2>2, <2>5, <3>2 DEF UpdateFails, Current, Disturb, RetryLater, Leave
      <4> QED
        BY <1>1, <2>1, <2>2, <4>1, LostWrite
    <3> QED
      BY <3>1, <3>2
  <2>6. CASE ~UpdateRejected /\ ~UpdateFails(new)
    <3>1. /\ Exists(obj[r]) /\ held = obj[r] /\ busy' = None
          /\ UNCHANGED <<label, touching, budget>>
          /\ obj' = [obj EXCEPT ![r] = Stored(NextVersion(obj[r], new))]
      BY <1>17, <2>2, <2>6 DEF UpdateStatus, Current, Leave
    <3>2. /\ Outdated(r) = (seen # label[r]) /\ AboutToFinalize(r) = FALSE
          /\ Outdated(r)' = FALSE /\ AboutToFinalize(r)' = FALSE
      BY <2>2, <2>3, <3>1 DEF Outdated, AboutToFinalize
    <3>3. Paid(held, new, label[r], seen # label[r], FALSE, r \in touching, FALSE, FALSE)
      BY <1>loads, <2>2, <2>3, <3>1
    <3>4. Paid(obj[r], new, label[r], Outdated(r), AboutToFinalize(r), r \in touching,
               Outdated(r)', AboutToFinalize(r)')
      BY <3>1, <3>2, <3>3
    <3> QED
      BY <1>1, <2>1, <2>2, <3>1, <3>4, PaidWrite
  <2> QED
    BY <2>4, <2>5, <2>6
<1> QED
  BY <1>8, <1>9, <1>10, <1>11, <1>12, <1>13, <1>14, <1>15, <1>patch, <1>16, <1>17 DEF Cycle

LEMMA CyclePoints ==
    ASSUME BoundInv, Cycle
    PROVE  FinalizingPoints'
<1>1. Shape /\ FinalizingPoints /\ held \in Object /\ obj \in [Rotators -> Object]
  BY DEF BoundInv, Shape
<1>2. ASSUME pc' \notin {"checker", "finalize", "degraded", "unfinalize"} PROVE FinalizingPoints'
  BY <1>2 DEF FinalizingPoints
<1>3. ASSUME RetryLater PROVE FinalizingPoints'
  BY <1>2, <1>3 DEF RetryLater, Leave
<1>4. ASSUME NEW new, NEW next \in {"refetch", "finalizer", "validate"},
             Update(new, next) \/ Refetch(next) \/ Goto(next)
      PROVE  FinalizingPoints'
  BY <1>2, <1>3, <1>4
  DEF Update, UpdateObject, UpdateRejected, UpdateFails, Refetch, Goto
<1>5. CASE HandleConditions
  BY <1>4, <1>5 DEF HandleConditions
<1>6. CASE RefetchAfterConditions
  BY <1>4, <1>6 DEF RefetchAfterConditions
<1>7. CASE HandleFinalizers
  <2> DEFINE new == [held EXCEPT !.finalizer = TRUE]
  <2>1. CASE held.finalizer
    BY <1>3, <1>7, <2>1 DEF HandleFinalizers, Goto, FinalizingPoints
  <2>2. CASE UpdateObject(new, "checker")
    <3>1. pc' = "checker" /\ held' = NextVersion(held, new)
      BY <2>2 DEF UpdateObject
    <3>2. held'.finalizer
      BY <1>1, <3>1 DEF NextVersion, Object
    <3> QED
      BY <3>1, <3>2 DEF FinalizingPoints
  <2> QED
    BY <1>3, <1>7, <2>1, <2>2 DEF HandleFinalizers, Update, UpdateRejected, UpdateFails
<1>8. ASSUME NEW new \in Object, NEW next \in {"finalize", "unfinalize"}, Update(new, next),
             new.finalizer, new.deleting, new.uid = held.uid, busy \in Rotators
      PROVE  FinalizingPoints'
  <2>1. CASE UpdateObject(new, next)
    <3>1. /\ pc' = next /\ busy' = busy /\ Exists(held) /\ obj'[busy] = Stored(NextVersion(held, new))
      BY <1>1, <1>8, <2>1 DEF UpdateObject, Current
    <3>2. LET p == NextVersion(held, new) IN p.finalizer /\ p.deleting /\ p.uid = held.uid
      BY <1>1, <1>8 DEF NextVersion, Object
    <3>3. obj'[busy'].finalizer /\ obj'[busy'].deleting /\ Exists(obj'[busy'])
      BY <3>1, <3>2 DEF Stored, Exists
    <3> QED
      BY <3>1, <3>3 DEF FinalizingPoints
  <2> QED
    BY <1>3, <1>8, <2>1 DEF Update, UpdateRejected, UpdateFails
<1>9. ASSUME pc # "idle" PROVE busy \in Rotators
  BY <1>1, <1>9 DEF Shape
<1>10. CASE SecretRotatorChecker
  <2> DEFINE new == [held EXCEPT !.degraded = "unknown"]
  <2>1. new \in Object /\ new.uid = held.uid /\ (held.deleting => new.deleting) /\ new.finalizer
    BY <1>1, <1>10 DEF Object, Condition, SecretRotatorChecker, FinalizingPoints
  <2>2. pc = "checker" /\ (Goto("validate") \/ (held.deleting /\ Update(new, "finalize")))
    BY <1>10 DEF SecretRotatorChecker
  <2> QED
    BY <1>4, <1>8, <1>9, <2>1, <2>2
<1>11. CASE RefetchBeforeFinalizing
  BY <1>1, <1>3, <1>11 DEF RefetchBeforeFinalizing, Refetch, FinalizingPoints, server
<1>12. CASE ConfirmDegraded
  <2> DEFINE new == [held EXCEPT !.degraded = "true"]
  <2>1. new \in Object /\ new.uid = held.uid /\ pc = "degraded" /\ Update(new, "unfinalize")
    BY <1>1, <1>12 DEF Object, Condition, ConfirmDegraded
  <2>2. CASE ~Current(held, busy)
    BY <1>3, <2>1, <2>2 DEF Update, UpdateObject, UpdateRejected, UpdateFails
  <2>3. CASE Current(held, busy)
    <3>1. held.finalizer /\ held.deleting
      BY <1>1, <2>1, <2>3 DEF Current, FinalizingPoints
    <3>2. new.finalizer /\ new.deleting
      BY <1>1, <3>1 DEF Object
    <3> QED
      BY <1>8, <1>9, <2>1, <3>2
  <2> QED
    BY <2>2, <2>3
<1>13. CASE RemoveFinalizer
  BY <1>3, <1>4, <1>13 DEF RemoveFinalizer
<1>14. CASE ValidateObjectSpec \/ DeferPatch \/ ManagingSecrets
  BY <1>2, <1>3, <1>14 DEF ValidateObjectSpec, DeferPatch, ManagingSecrets
<1>15. CASE UpdateStatus
  BY <1>2, <1>3, <1>15 DEF UpdateStatus, UpdateRejected, UpdateFails, Leave
<1> QED
  BY <1>5, <1>6, <1>7, <1>10, <1>11, <1>12, <1>13, <1>14, <1>15 DEF Cycle

LEMMA CycleGone ==
    ASSUME BoundInv, Cycle
    PROVE  Gone'
<1>1. Shape /\ Gone
  BY DEF BoundInv
<1>2. CASE UNCHANGED obj
  BY <1>1, <1>2 DEF Gone
<1>3. ASSUME NEW new \in Object, new.uid = obj[busy].uid, busy \in Rotators, Exists(obj[busy]),
             obj' = [obj EXCEPT ![busy] = Stored(NextVersion(obj[busy], new))]
      PROVE  Gone'
  <2>1. obj[busy] \in Object /\ obj \in [Rotators -> Object]
    BY <1>1, <1>3 DEF Shape
  <2> DEFINE o == Stored(NextVersion(obj[busy], new))
  <2>2. o = NoObject \/ o.uid = obj[busy].uid
    BY <1>3, <2>1, StoredVersion
  <2> HIDE DEF o
  <2>3. obj'[busy] = o /\ \A q \in Rotators \ {busy} : obj'[q] = obj[q]
    BY <1>3, <2>1 DEF o
  <2> QED
    BY <1>1, <1>3, <2>2, <2>3 DEF Gone, Exists
<1> QED
  BY <1>1, <1>2, <1>3, CycleStores

(* What the event filter and the environment do to one object. *)
LEMMA EventLoads ==
    ASSUME NEW o \in Object, NEW l \in BOOLEAN, NEW out \in BOOLEAN, NEW fin \in BOOLEAN,
           NEW t \in BOOLEAN, NEW fin2 \in BOOLEAN
    PROVE  /\ Exists(o) =>
                 1 + Load([o EXCEPT !.rv = @ + 1], l, out, fin2, FALSE) <= Load(o, l, out, fin, TRUE)
           /\ 1 + Load([o EXCEPT !.deleting = TRUE], l, out, fin2, t)
                 <= Load(o, l, out, fin, t) + 7
           /\ Exists(o) /\ o.other /\ o.deleting /\ o.finalizer =>
                 1 + Load([o EXCEPT !.other = FALSE], l, out, fin2, t) <= Load(o, l, out, fin, t)
<1> USE DEF Load, SetUp, Status, Finalizing, Cost, Exists
<1>1. Exists(o) =>
        1 + Load([o EXCEPT !.rv = @ + 1], l, out, fin2, FALSE) <= Load(o, l, out, fin, TRUE)
  BY DEF Object
<1>2. 1 + Load([o EXCEPT !.deleting = TRUE], l, out, fin2, t) <= Load(o, l, out, fin, t) + 7
  BY DEF Object
<1>3. Exists(o) /\ o.other /\ o.deleting /\ o.finalizer =>
        1 + Load([o EXCEPT !.other = FALSE], l, out, fin2, t) <= Load(o, l, out, fin, t)
  BY DEF Object
<1> QED
  BY <1>1, <1>2, <1>3

LEMMA RelabelLoad ==
    ASSUME NEW o \in Object, NEW fin \in BOOLEAN,
           NEW l \in BOOLEAN, NEW out \in BOOLEAN, NEW t \in BOOLEAN,
           NEW l2 \in BOOLEAN, NEW out2 \in BOOLEAN, NEW t2 \in BOOLEAN
    PROVE  Load(o, l2, out2, fin, t2) <= Load(o, l, out, fin, t) + 7
  BY DEF Load, SetUp, Status, Finalizing, Cost, Exists

LEMMA FirstLoad ==
    ASSUME NEW b \in BOOLEAN, NEW l \in BOOLEAN
    PROVE  /\ NewObject(1, b).rv = 0
           /\ Load(NewObject(1, b), l, FALSE, FALSE, FALSE) <= 3
  BY DEF NewObject, NoObject, Load, SetUp, Status, Finalizing, Cost, Exists

LEMMA NewLoad ==
    ASSUME NEW u \in Nat, NEW b \in BOOLEAN, NEW l \in BOOLEAN, NEW out \in BOOLEAN,
           NEW fin \in BOOLEAN, NEW t \in BOOLEAN
    PROVE  NewObject(u, b).rv = 0 /\ Load(NewObject(u, b), l, out, fin, t) <= 7
  BY DEF NewObject, NoObject, Load, SetUp, Status, Finalizing, Cost, Exists

(* A step that is about one SecretRotator, and not of the cycle. *)
LEMMA EventStep ==
    ASSUME Shape, Shape', Budgeted, NEW r \in Rotators, UNCHANGED <<label, pc, busy, held, seen>>,
           \A q \in Rotators \ {r} : obj'[q] = obj[q] /\ (q \in touching' => q \in touching),
           budget' <= budget,
           Weight(r)' <= Weight(r) + 7 * (budget - budget')
    PROVE  Budgeted'
<1>1. budget \in Nat /\ budget' \in Nat
  BY DEF Shape
<1>2. ASSUME NEW q \in Rotators \ {r} PROVE Weight(q)' <= Weight(q) + 7 * (budget - budget')
  <2>1. (Outdated(q)' => Outdated(q)) /\ (AboutToFinalize(q) => AboutToFinalize(q)')
    BY DEF Outdated, AboutToFinalize
  <2>2. Weight(q)' <= Weight(q)
    BY <2>1, Keeps
  <2>3. Weight(q) \in Nat /\ Weight(q)' \in Nat
    BY WeightType, NextWeightType
  <2> QED
    BY <1>1, <2>2, <2>3
<1> QED
  BY <1>2, Affordable

(* Steps that leave the cycle where it is, and its objects exist. *)
LEMMA PointsKept ==
    ASSUME BoundInv, UNCHANGED <<pc, busy, held>>,
           \A q \in Rotators : /\ Exists(obj[q]) /\ obj[q].finalizer =>
                                    Exists(obj'[q]) /\ obj'[q].finalizer
                               /\ obj[q].deleting => obj'[q].deleting \/ ~Exists(obj'[q])
    PROVE  FinalizingPoints'
<1>1. pc # "idle" => busy \in Rotators
  BY DEF BoundInv, Shape
<1> QED
  BY <1>1 DEF BoundInv, FinalizingPoints

LEMMA SchedulingBudget ==
    ASSUME BoundInv, Scheduling, Shape'
    PROVE  FinalizingPoints' /\ Gone' /\ Budgeted'
<1>1. Shape /\ FinalizingPoints /\ Gone /\ Budgeted
  BY DEF BoundInv
<1>2. PICK r \in Rotators :
        \/ Reconcile(r) \/ ReconcileNotFound(r) \/ ReconcileGetFails(r)
        \/ Requeue(r) \/ SyncRotator(r)
        \/ HandlingNamespaceEvents(r)
  BY DEF Scheduling
<1>3. CASE Reconcile(r)
  <2>1. UNCHANGED <<obj, label, budget, touching>> /\ pc = "idle" /\ pc' = "conditions"
    BY <1>3 DEF Reconcile, server
  <2>2. FinalizingPoints' /\ Gone'
    BY <1>1, <2>1 DEF FinalizingPoints, Gone
  <2>3. ASSUME NEW q \in Rotators PROVE ~Outdated(q)' /\ ~AboutToFinalize(q)
    BY <2>1 DEF Outdated, AboutToFinalize
  <2> QED
    BY <1>1, <2>1, <2>2, <2>3, FreeStep
<1>4. CASE UNCHANGED <<obj, label, pc, busy, held, seen>> /\ touching' \subseteq touching
  <2>1. FinalizingPoints' /\ Gone'
    BY <1>1, <1>4 DEF FinalizingPoints, Gone
  <2>2. ASSUME NEW q \in Rotators
        PROVE  (Outdated(q)' => Outdated(q)) /\ (AboutToFinalize(q) => AboutToFinalize(q)')
    BY <1>4 DEF Outdated, AboutToFinalize
  <2>3. UNCHANGED budget \/ budget' = budget - 1
    BY <1>2 DEF Reconcile, ReconcileNotFound, ReconcileGetFails, Requeue, SyncRotator,
                HandlingNamespaceEvents, Disturb
  <2> QED
    BY <1>1, <1>4, <2>1, <2>2, <2>3, FreeStep, FaultStep
<1>5. CASE HandlingNamespaceEvents(r) /\ ~UNCHANGED obj
  <2>1. /\ Exists(obj[r]) /\ obj' = [obj EXCEPT ![r].rv = @ + 1] /\ r \in touching
        /\ touching' = touching \ {r} /\ UNCHANGED <<label, pc, busy, held, seen, budget>>
    BY <1>5 DEF HandlingNamespaceEvents, Current, local
  <2>2. /\ obj[r] \in Object /\ obj[r].rv \in Nat /\ label[r] \in BOOLEAN
        /\ Outdated(r) \in BOOLEAN /\ AboutToFinalize(r) \in BOOLEAN
        /\ AboutToFinalize(r)' \in BOOLEAN
    BY <1>1, WeightType, NextWeightType
  <2> DEFINE o == [obj[r] EXCEPT !.rv = @ + 1]
             fin == AboutToFinalize(r)
             fin2 == AboutToFinalize(r)'
             out == Outdated(r)
  <2>3. /\ obj'[r] = o /\ \A q \in Rotators \ {r} : obj'[q] = obj[q]
    BY <1>1, <2>1 DEF Shape
  <2>4. /\ o \in Object /\ o.rv = obj[r].rv + 1 /\ o.uid = obj[r].uid
        /\ o.finalizer = obj[r].finalizer /\ o.deleting = obj[r].deleting
    BY <2>2 DEF Object
  <2>5. FinalizingPoints' /\ Gone'
    <3>1. FinalizingPoints'
      BY <2>1, <2>3, <2>4, PointsKept DEF Exists
    <3>2. Gone'
      BY <1>1, <2>1, <2>3, <2>4 DEF Gone, Exists
    <3> QED
      BY <3>1, <3>2
  <2>6. Outdated(r)' = Outdated(r)
    BY <2>1 DEF Outdated
  <2>7. /\ Weight(r) = obj[r].rv + Load(obj[r], label[r], out, fin, TRUE)
        /\ Weight(r)' = o.rv + Load(o, label[r], out, fin2, FALSE)
    <3>1. (r \in touching) = TRUE /\ (r \in touching') = FALSE /\ label'[r] = label[r]
      BY <2>1
    <3>2. Weight(r) = obj[r].rv + Load(obj[r], label[r], out, fin, r \in touching)
      BY DEF Weight
    <3>3. Weight(r)' = o.rv + Load(o, label[r], out, fin2, r \in touching')
      BY <2>3, <2>6, <3>1 DEF Weight
    <3> QED
      BY <3>1, <3>2, <3>3
  <2>8. /\ 1 + Load(o, label[r], out, fin2, FALSE) <= Load(obj[r], label[r], out, fin, TRUE)
        /\ Load(o, label[r], out, fin2, FALSE) \in Nat
        /\ Load(obj[r], label[r], out, fin, TRUE) \in Nat
    <3>1. out \in BOOLEAN /\ fin \in BOOLEAN /\ fin2 \in BOOLEAN
      BY <2>2
    <3> HIDE DEF out, fin, fin2
    <3>2. 1 + Load(o, label[r], out, fin2, FALSE) <= Load(obj[r], label[r], out, fin, TRUE)
      BY <2>1, <2>2, <3>1, EventLoads
    <3> QED
      BY <2>2, <2>4, <3>1, <3>2, LoadType
  <2> DEFINE m == Load(obj[r], label[r], out, fin, TRUE)
             n == Load(o, label[r], out, fin2, FALSE)
  <2> HIDE DEF m, n
  <2>9. Weight(r)' <= Weight(r)
    <3>1. /\ m \in Nat /\ n \in Nat /\ 1 + n <= m /\ o.rv = obj[r].rv + 1 /\ obj[r].rv \in Nat
          /\ Weight(r) = obj[r].rv + m /\ Weight(r)' = o.rv + n
      BY <2>2, <2>4, <2>7, <2>8 DEF m, n
    <3> QED
      BY <3>1
  <2>10. budget \in Nat /\ budget' = budget /\ Weight(r) \in Nat
    BY <1>1, <2>1, WeightType DEF Shape
  <2>11. Weight(r)' <= Weight(r) + 7 * (budget - budget')
    BY <2>9, <2>10
  <2>12. budget' <= budget
    BY <2>10
  <2> QED
    BY <1>1, <2>1, <2>3, <2>5, <2>11, <2>12, EventStep
<1> QED
  BY <1>2, <1>3, <1>4, <1>5
  DEF ReconcileNotFound, ReconcileGetFails, Requeue, SyncRotator, HandlingNamespaceEvents,
      server, local

(* A write of somebody else. *)
LEMMA EventWrite ==
    ASSUME Shape, Shape', Budgeted, NEW r \in Rotators,
           UNCHANGED <<label, touching, pc, busy, held, seen>>, budget' <= budget,
           NEW new \in Object, new.uid = obj[r].uid,
           obj' = [obj EXCEPT ![r] = Stored(NextVersion(obj[r], new))],
           1 + Load(new, label[r], Outdated(r), AboutToFinalize(r)', r \in touching)
             <= Load(obj[r], label[r], Outdated(r), AboutToFinalize(r), r \in touching)
                + 7 * (budget - budget')
    PROVE  Budgeted'
<1> DEFINE t == r \in touching
           out == Outdated(r)
           fin == AboutToFinalize(r)
           fin2 == AboutToFinalize(r)'
           k == 7 * (budget - budget')
           o == Stored(NextVersion(obj[r], new))
           m == Load(obj[r], label[r], out, fin, t)
           n == Load(new, label[r], out, fin2, t)
           v == NextVersion(obj[r], new).rv
<1>1. /\ obj[r] \in Object /\ obj[r].rv \in Nat /\ label[r] \in BOOLEAN /\ t \in BOOLEAN
      /\ out \in BOOLEAN /\ fin \in BOOLEAN /\ fin2 \in BOOLEAN
  BY WeightType, NextWeightType
<1>2. k \in Nat
  <2>1. budget \in Nat /\ budget' \in Nat
    BY DEF Shape
  <2>2. budget - budget' \in Nat
    BY <2>1
  <2> QED
    BY <2>2
<1>3. 1 + n <= m + k
  OBVIOUS
<1>4. Outdated(r)' = out
  BY DEF Outdated
<1>5. obj'[r] = o /\ \A q \in Rotators \ {r} : obj'[q] = obj[q]
  BY DEF Shape
<1>6. Weight(r) = obj[r].rv + m /\ Weight(r)' = o.rv + Load(o, label[r], out, fin2, t)
  BY <1>4, <1>5 DEF Weight
<1> HIDE DEF t, out, fin, fin2, k, m, n, v
<1>7. m \in Nat /\ n \in Nat
  BY <1>1, LoadType DEF m, n
<1>8. v \in Nat /\ v <= obj[r].rv + 1
  BY <1>1, LoadVersion DEF v
<1>9. obj[r].rv + m + k \in Nat /\ v + n <= obj[r].rv + m + k
  BY <1>1, <1>2, <1>3, <1>7, <1>8
<1>10. o.rv + Load(o, label[r], out, fin2, t) <= obj[r].rv + m + k
  BY <1>1, <1>9, StoredLoad DEF n, v
<1>11. Weight(r)' <= Weight(r) + 7 * (budget - budget')
  BY <1>6, <1>10 DEF k
<1> QED
  BY <1>5, <1>11, EventStep

LEMMA EnvironmentBudget ==
    ASSUME BoundInv, Environment, Shape'
    PROVE  FinalizingPoints' /\ Gone' /\ Budgeted'
<1>1. Shape /\ FinalizingPoints /\ Gone /\ Budgeted /\ budget \in Nat
  BY DEF BoundInv, Shape
<1>2. ASSUME NEW S \in SUBSET Rotators, Relabel(S) PROVE FinalizingPoints' /\ Gone' /\ Budgeted'
  <2>1. UNCHANGED <<obj, pc, busy, held, seen>> /\ budget' = budget - 1
    BY <1>2 DEF Relabel, local, Disturb
  <2>2. FinalizingPoints' /\ Gone'
    BY <1>1, <2>1 DEF FinalizingPoints, Gone
  <2>3. ASSUME NEW r \in Rotators PROVE Weight(r)' <= Weight(r) + 7 * (budget - budget')
    <3> DEFINE t == r \in touching
               t2 == r \in touching'
               out == Outdated(r)
               out2 == Outdated(r)'
               fin == AboutToFinalize(r)
               m == Load(obj[r], label[r], out, fin, t)
               n == Load(obj[r], label'[r], out2, fin, t2)
    <3>1. /\ obj[r] \in Object /\ obj[r].rv \in Nat
          /\ label[r] \in BOOLEAN /\ label'[r] \in BOOLEAN
          /\ t \in BOOLEAN /\ t2 \in BOOLEAN /\ out \in BOOLEAN /\ out2 \in BOOLEAN
          /\ fin \in BOOLEAN
      BY <1>1, WeightType, NextWeightType
    <3>2. AboutToFinalize(r)' = fin
      BY <2>1 DEF AboutToFinalize
    <3>3. Weight(r) = obj[r].rv + m /\ Weight(r)' = obj[r].rv + n
      BY <2>1, <3>2 DEF Weight
    <3> DEFINE l2 == label'[r]
    <3>4. m \in Nat /\ n \in Nat /\ n <= m + 7
      <4>1. l2 \in BOOLEAN
        BY <3>1
      <4> HIDE DEF t, t2, out, out2, fin, l2
      <4>2. /\ Load(obj[r], label[r], out, fin, t) \in Nat
            /\ Load(obj[r], l2, out2, fin, t2) \in Nat
        BY <3>1, <4>1, LoadType
      <4>3. Load(obj[r], l2, out2, fin, t2) <= Load(obj[r], label[r], out, fin, t) + 7
        BY <3>1, <4>1, RelabelLoad, ZenonT(30)
      <4> QED
        BY <4>2, <4>3 DEF l2
    <3>5. 7 * (budget - budget') = 7
      BY <1>1, <2>1
    <3> HIDE DEF m, n
    <3>6. Weight(r)' <= Weight(r) + 7
      BY <3>1, <3>3, <3>4
    <3> QED
      BY <3>5, <3>6
  <2> QED
    BY <1>1, <2>2, <2>3, Affordable
<1>3. ASSUME NEW r \in Rotators, NEW b \in BOOLEAN, Create(r, b)
      PROVE  FinalizingPoints' /\ Gone' /\ Budgeted'
  <2> DEFINE o == NewObject(uids[r] + 1, b)
  <2>1. /\ UNCHANGED <<label, touching, pc, busy, held, seen>> /\ budget' = budget - 1
        /\ ~Exists(obj[r]) /\ obj' = [obj EXCEPT ![r] = o]
    BY <1>3 DEF Create, sched, local, Disturb
  <2>2. uids[r] \in Nat /\ uids[r] + 1 \in Nat /\ uids[r] + 1 # 0
    BY <1>1 DEF Shape
  <2>3. o.uid = uids[r] + 1
    BY <2>2, NewObjectType
  <2>4. obj'[r] = o /\ \A q \in Rotators \ {r} : obj'[q] = obj[q]
    BY <1>1, <2>1 DEF Shape
  <2>5. FinalizingPoints'
    <3>1. pc # "idle" => busy \in Rotators
      BY <1>1 DEF Shape
    <3> QED
      BY <1>1, <2>1, <2>4, <3>1 DEF FinalizingPoints
  <2>6. Gone'
    BY <1>1, <2>2, <2>3, <2>4 DEF Gone, Exists
  <2>7. Weight(r)' <= 7
    <3> DEFINE t2 == r \in touching'
               out2 == Outdated(r)'
               fin2 == AboutToFinalize(r)'
    <3>1. label'[r] \in BOOLEAN /\ t2 \in BOOLEAN /\ out2 \in BOOLEAN /\ fin2 \in BOOLEAN
      BY NextWeightType
    <3>2. Weight(r)' = o.rv + Load(o, label'[r], out2, fin2, t2)
      BY <2>4 DEF Weight
    <3> HIDE DEF t2, out2, fin2
    <3>3. o.rv = 0 /\ o \in Object /\ Load(o, label'[r], out2, fin2, t2) <= 7
      BY <2>2, <3>1, NewLoad, NewObjectType
    <3>4. Load(o, label'[r], out2, fin2, t2) \in Nat
      BY <3>1, <3>3, LoadType
    <3> QED
      BY <3>2, <3>3, <3>4
  <2>8. Weight(r)' <= Weight(r) + 7 * (budget - budget')
    <3>1. Weight(r) \in Nat /\ Weight(r)' \in Nat /\ 7 * (budget - budget') = 7
      BY <1>1, <2>1, WeightType, NextWeightType
    <3> QED
      BY <2>7, <3>1
  <2>9. budget' <= budget
    BY <1>1, <2>1
  <2> QED
    BY <1>1, <2>1, <2>4, <2>5, <2>6, <2>8, <2>9, EventStep
<1>4. ASSUME NEW r \in Rotators, NEW new \in Object, new.uid = obj[r].uid,
             Exists(obj[r]), UNCHANGED <<pc, busy, held>>,
             new.finalizer = obj[r].finalizer, obj[r].deleting => new.deleting,
             obj' = [obj EXCEPT ![r] = Stored(NextVersion(obj[r], new))]
      PROVE  FinalizingPoints' /\ Gone'
  <2>1. obj[r] \in Object /\ obj \in [Rotators -> Object]
    BY <1>1 DEF Shape
  <2> DEFINE p == NextVersion(obj[r], new)
  <2>2. /\ p \in Object /\ p.uid = obj[r].uid /\ p.finalizer = obj[r].finalizer
        /\ obj[r].deleting => p.deleting
    BY <1>4, <2>1 DEF NextVersion, Object
  <2>3. obj'[r] = Stored(p) /\ \A q \in Rotators \ {r} : obj'[q] = obj[q]
    BY <1>4, <2>1
  <2> HIDE DEF p
  <2>4. Stored(p) = p \/ (Stored(p) = NoObject /\ ~p.finalizer)
    BY DEF Stored
  <2>5. NoObject.uid = 0
    BY DEF NoObject
  <2>6. FinalizingPoints'
    BY <1>4, <2>2, <2>3, <2>4, <2>5, PointsKept DEF Exists
  <2>7. Gone'
    BY <1>1, <1>4, <2>2, <2>3, <2>4 DEF Gone, Exists
  <2> QED
    BY <2>6, <2>7
<1>5. ASSUME NEW r \in Rotators, Delete(r) PROVE FinalizingPoints' /\ Gone' /\ Budgeted'
  <2> DEFINE new == [obj[r] EXCEPT !.deleting = TRUE]
  <2>1. /\ UNCHANGED <<label, touching, pc, busy, held, seen>> /\ budget' = budget - 1
        /\ Exists(obj[r]) /\ obj' = [obj EXCEPT ![r] = Stored(NextVersion(obj[r], new))]
    BY <1>1, <1>5 DEF Delete, sched, local, Disturb, Shape
  <2>2. obj[r] \in Object
    BY <1>1 DEF Shape
  <2>3. new \in Object /\ new.uid = obj[r].uid /\ new.finalizer = obj[r].finalizer /\ new.deleting
    BY <2>2 DEF Object
  <2>4. FinalizingPoints' /\ Gone'
    BY <1>4, <2>1, <2>3
  <2> DEFINE t == r \in touching
             out == Outdated(r)
             fin == AboutToFinalize(r)
             fin2 == AboutToFinalize(r)'
  <2>5. 1 + Load(new, label[r], out, fin2, t) <= Load(obj[r], label[r], out, fin, t) + 7
    <3>1. /\ label[r] \in BOOLEAN /\ t \in BOOLEAN /\ out \in BOOLEAN /\ fin \in BOOLEAN
          /\ fin2 \in BOOLEAN
      BY <1>1, WeightType, NextWeightType
    <3> HIDE DEF t, out, fin, fin2
    <3> QED
      BY <2>2, <3>1, EventLoads
  <2>6. budget' <= budget /\ 7 * (budget - budget') = 7
    BY <1>1, <2>1
  <2>7. Budgeted'
    <3>1. 1 + Load(new, label[r], out, fin2, t)
            <= Load(obj[r], label[r], out, fin, t) + 7 * (budget - budget')
      BY <2>5, <2>6
    <3> HIDE DEF new
    <3> QED
      BY <1>1, <2>1, <2>3, <2>6, <3>1, EventWrite
  <2> QED
    BY <2>4, <2>7
<1>6. ASSUME NEW r \in Rotators, OtherFinalizerRemoved(r)
      PROVE  FinalizingPoints' /\ Gone' /\ Budgeted'
  <2> DEFINE new == [obj[r] EXCEPT !.other = FALSE]
  <2>1. /\ UNCHANGED <<label, touching, pc, busy, held, seen, budget>>
        /\ obj[r].other /\ obj[r].deleting
        /\ obj' = [obj EXCEPT ![r] = Stored(NextVersion(obj[r], new))]
    BY <1>1, <1>6 DEF OtherFinalizerRemoved, sched, local, Shape
  <2>2. obj[r] \in Object /\ Exists(obj[r])
    BY <1>1, <2>1 DEF Shape, Gone, NoObject
  <2>3. /\ new \in Object /\ new.uid = obj[r].uid /\ new.finalizer = obj[r].finalizer
        /\ new.deleting /\ ~new.other /\ new # obj[r]
    BY <2>1, <2>2 DEF Object
  <2>4. FinalizingPoints' /\ Gone'
    BY <1>4, <2>1, <2>2, <2>3
  <2>5. budget' <= budget /\ 7 * (budget - budget') = 0
    BY <1>1, <2>1
  <2>6. CASE obj[r].finalizer
    <3> DEFINE t == r \in touching
               out == Outdated(r)
               fin == AboutToFinalize(r)
               fin2 == AboutToFinalize(r)'
    <3>1. /\ label[r] \in BOOLEAN /\ t \in BOOLEAN /\ out \in BOOLEAN /\ fin \in BOOLEAN
          /\ fin2 \in BOOLEAN
      BY <1>1, WeightType, NextWeightType
    <3>2. /\ 1 + Load(new, label[r], out, fin2, t) <= Load(obj[r], label[r], out, fin, t)
          /\ Load(obj[r], label[r], out, fin, t) \in Nat
      <4> HIDE DEF t, out, fin, fin2
      <4> QED
        BY <2>1, <2>2, <2>6, <3>1, EventLoads, LoadType
    <3>3. 1 + Load(new, label[r], out, fin2, t)
            <= Load(obj[r], label[r], out, fin, t) + 7 * (budget - budget')
      BY <2>5, <3>2
    <3> HIDE DEF new
    <3> QED
      BY <1>1, <2>1, <2>3, <2>4, <2>5, <3>3, EventWrite
  <2>7. CASE ~obj[r].finalizer
    <3>1. Stored(NextVersion(obj[r], new)) = NoObject
      BY <2>2, <2>3, <2>7 DEF Stored, NextVersion, Object
    <3>2. obj'[r] = NoObject /\ \A q \in Rotators \ {r} : obj'[q] = obj[q]
      BY <1>1, <2>1, <3>1 DEF Shape
    <3>3. Weight(r)' = 0
      BY <3>2 DEF Weight, Load, NoObject, Exists
    <3>4. Weight(r)' <= Weight(r) + 7 * (budget - budget')
      <4>1. Weight(r) \in Nat
        BY <1>1, WeightType
      <4> QED
        BY <2>5, <3>3, <4>1
    <3> QED
      BY <1>1, <2>1, <2>4, <2>5, <3>2, <3>4, EventStep
  <2> QED
    BY <2>6, <2>7
<1>7. ASSUME NEW r \in Rotators, CollectGarbage(r) PROVE FinalizingPoints' /\ Gone' /\ Budgeted'
  <2>1. UNCHANGED <<obj, label, touching, pc, busy, held, seen, budget>>
    BY <1>7 DEF CollectGarbage, sched, local
  <2>2. FinalizingPoints' /\ Gone'
    BY <1>1, <2>1 DEF FinalizingPoints, Gone
  <2>3. ASSUME NEW q \in Rotators
        PROVE  (Outdated(q)' => Outdated(q)) /\ (AboutToFinalize(q) => AboutToFinalize(q)')
    BY <2>1 DEF Outdated, AboutToFinalize
  <2> QED
    BY <1>1, <2>1, <2>2, <2>3, FreeStep
<1>8. CASE Crash
  <2>1. /\ UNCHANGED <<obj, label>> /\ budget' = budget - 1 /\ touching' = {}
        /\ pc' = "idle" /\ busy' = None
    BY <1>8 DEF Crash, Leave, Disturb, server
  <2>2. FinalizingPoints' /\ Gone'
    BY <1>1, <2>1 DEF FinalizingPoints, Gone
  <2>3. ASSUME NEW q \in Rotators PROVE ~Outdated(q)'
    BY <2>1 DEF Outdated
  <2> QED
    BY <1>1, <2>1, <2>2, <2>3, FaultStep
<1> QED
  BY <1>2, <1>3, <1>5, <1>6, <1>7, <1>8 DEF Environment

LEMMA InitBoundInv == Init => BoundInv
<1> SUFFICES ASSUME Init PROVE BoundInv
  OBVIOUS
<1>1. FinalizingPoints /\ Shape
  BY InitShape DEF Init, FinalizingPoints
<1>2. PICK b \in BOOLEAN : obj = [q \in Rotators |-> NewObject(1, b)]
  BY DEF Init
<1>3. Gone
  BY <1>2, NewObjectType DEF Gone, Exists
<1>4. Budgeted
  <2>1. ASSUME NEW r \in Rotators PROVE Weight(r) <= 3
    <3>1. Outdated(r) = FALSE /\ AboutToFinalize(r) = FALSE /\ (r \in touching) = FALSE
      BY DEF Init, Outdated, AboutToFinalize
    <3>2. label[r] \in BOOLEAN /\ obj[r] = NewObject(1, b)
      BY <1>2 DEF Init
    <3>3. Weight(r) = obj[r].rv + Load(obj[r], label[r], FALSE, FALSE, FALSE)
      BY <3>1 DEF Weight
    <3>4. obj[r].rv = 0 /\ Load(obj[r], label[r], FALSE, FALSE, FALSE) <= 3
      BY <3>2, FirstLoad
    <3>5. Weight(r) \in Nat
      BY <1>1, WeightType
    <3> DEFINE m == Load(obj[r], label[r], FALSE, FALSE, FALSE)
    <3> HIDE DEF m
    <3>6. m \in Nat
      BY <1>1, <3>2, LoadType, WeightType DEF m
    <3>7. Weight(r) = 0 + m /\ m <= 3
      BY <3>3, <3>4 DEF m
    <3> QED
      BY <3>6, <3>7
  <2>2. MaxDisturb \in Nat /\ 3 + 7 * (MaxDisturb - budget) = 3
    BY BoundAssumption DEF Init
  <2> QED
    BY <2>1, <2>2 DEF Budgeted
<1> QED
  BY <1>1, <1>3, <1>4 DEF BoundInv

LEMMA NextBoundInv ==
    ASSUME BoundInv, [Next]_vars
    PROVE  BoundInv'
<1>1. Shape'
  BY NextShape DEF BoundInv
<1>2. CASE Next
  BY <1>1, <1>2, CycleBudget, CyclePoints, CycleGone, SchedulingBudget, EnvironmentBudget
  DEF Next, BoundInv
<1>3. CASE UNCHANGED vars
  BY <1>1, <1>3
  DEF vars, server, sched, local, BoundInv, FinalizingPoints, Gone, Budgeted, Weight, Outdated,
      AboutToFinalize
<1> QED
  BY <1>2, <1>3

(* For any set of SecretRotators, any interval and any disturbances the     *)
(* state keeps its shape, and an object whose deletion a cycle is in the    *)
(* middle of exists and has the operator's finalizer, though the cycle goes *)
(* on with what a stale cache shows.                                        *)
THEOREM TypeCorrect == Spec => []TypeOK
<1>1. BoundInv => TypeOK
  BY DEF BoundInv, TypeOK
<1> QED
  BY <1>1, InitBoundInv, NextBoundInv, PTL DEF Spec

(* For any number of SecretRotators, any kind and number of disturbances    *)
(* and any interval, the operator does not keep triggering itself: the      *)
(* updates of an object are at most three and seven for each disturbance.   *)
THEOREM BoundedUpdates == Spec => []UpdatesAreBounded
<1>1. BoundInv => UpdatesAreBounded
  <2> SUFFICES ASSUME BoundInv, NEW r \in Rotators
               PROVE  obj[r].rv <= 3 + 7 * (MaxDisturb - budget)
    BY DEF UpdatesAreBounded
  <2> DEFINE m == Load(obj[r], label[r], Outdated(r), AboutToFinalize(r), r \in touching)
  <2>1. Shape /\ obj[r].rv \in Nat /\ budget \in Nat /\ MaxDisturb \in Nat
    BY BoundAssumption DEF BoundInv, Shape, Object
  <2>2. m \in Nat
    <3> DEFINE out == Outdated(r)
               fin == AboutToFinalize(r)
               t == r \in touching
    <3>1. /\ obj[r] \in Object /\ label[r] \in BOOLEAN /\ out \in BOOLEAN /\ fin \in BOOLEAN
          /\ t \in BOOLEAN
      BY <2>1, WeightType
    <3> HIDE DEF out, fin, t
    <3>2. Load(obj[r], label[r], out, fin, t) \in Nat
      BY <3>1, LoadType
    <3> QED
      BY <3>2 DEF out, fin, t
  <2>3. obj[r].rv + m <= 3 + 7 * (MaxDisturb - budget)
    BY DEF BoundInv, Budgeted, Weight
  <2> HIDE DEF m
  <2> QED
    BY <2>1, <2>2, <2>3
<1> QED
  BY <1>1, InitBoundInv, NextBoundInv, PTL DEF Spec

=============================================================================
