-------------------------- MODULE SecretSyncProofs --------------------------
(***************************************************************************)
(* Theorems about SecretSync, for every set of SecretRotators, namespaces, *)
(* names, types and tokens and every number of disturbances.               *)
(***************************************************************************)
EXTENDS SecretSync, TLAPS

-----------------------------------------------------------------------------
(* The objects the operators of SecretSync build are well formed. *)

LEMMA KeyType ==
    /\ \A k \in Keys : k = <<k[1], k[2]>> /\ k[1] \in Namespaces /\ k[2] \in Names
    /\ \A n \in Namespaces, s \in Names : <<n, s>> \in Keys
  BY DEF Keys

LEMMA ConfiguredType == ASSUME NEW g \in Generated PROVE Configured(g) \subseteq Names
  BY DEF Configured

LEMMA NoSecretType == NoSecret \in Secret
  BY DEF NoSecret, Secret

LEMMA NothingType == NothingManaged \in Managed /\ [s \in Names |-> None] \in Generated
  BY DEF NothingManaged, Managed, Generated

LEMMA NewRotatorType == ASSUME NEW g \in Generated PROVE NewRotator(g) \in Rotator
  BY NothingType DEF NewRotator, Rotator

LEMMA PutType ==
    ASSUME ClusterTypes, NEW k \in Keys, NEW x \in Secret, Put(k, x)
    PROVE  secrets' \in [Keys -> Secret] /\ cache' \in [Keys -> Secret]
  BY DEF ClusterTypes, Put

LEMMA PutRotatorType ==
    ASSUME ClusterTypes, NEW r \in Rotators, NEW o \in Rotator, PutRotator(r, o)
    PROVE  robj' \in [Rotators -> Rotator] /\ crobj' \in [Rotators -> Rotator]
  BY DEF ClusterTypes, PutRotator

LEMMA DisturbType ==
    ASSUME ClusterTypes, NEW kind, Disturb(kind)
    PROVE  budget' \in 0..MaxDisturb
  BY BoundAssumption DEF ClusterTypes, Disturb

LEMMA ReturnType == Return => LocalTypes'
<1> SUFFICES ASSUME Return PROVE LocalTypes'
  OBVIOUS
<1>1. obj' \in Rotator /\ gen' \in Generated /\ managed' \in Managed
  BY NothingType, NewRotatorType DEF Return
<1>2. names' \subseteq Configured(gen') /\ dels' \subseteq Keys
  BY DEF Return
<1> QED
  BY <1>1, <1>2 DEF Return, LocalTypes

LEMMA DesiredType ==
    ASSUME TypeOK, pc = "write", NEW s \in names
    PROVE  <<ns, s>> \in Keys /\ Desired(s) \in Secret
<1>1. s \in Names /\ gen[s] \in Types /\ <<ns, s>> \in Keys
  BY KeyType, ConfiguredType DEF TypeOK, LocalTypes, Configured, Generated
<1>2. cache[<<ns, s>>] \in Secret /\ tok \in Tokens /\ cur \in Rotators
  BY <1>1 DEF TypeOK, ClusterTypes, LocalTypes
<1> QED
  BY <1>1, <1>2 DEF Desired, Secret

LEMMA NewStatusType == TypeOK => NewStatus \in Rotator
  BY DEF TypeOK, LocalTypes, NewStatus, Rotator

-----------------------------------------------------------------------------
(* Type correctness. *)

LEMMA InitTypeOK == Init => TypeOK
<1> SUFFICES ASSUME Init PROVE TypeOK
  OBVIOUS
<1>1. ClusterTypes
  <2>1. robj \in [Rotators -> Rotator]
    BY NewRotatorType DEF Init
  <2>2. secrets \in [Keys -> Secret]
    BY NoSecretType DEF Init
  <2> QED
    BY <2>1, <2>2, BoundAssumption DEF Init, ClusterTypes
<1>2. LocalTypes
  BY NothingType, NewRotatorType DEF Init, LocalTypes
<1> QED
  BY <1>1, <1>2 DEF TypeOK

LEMMA NextClusterTypes == TypeOK /\ [Next]_vars => ClusterTypes'
<1> SUFFICES ASSUME TypeOK, [Next]_vars PROVE ClusterTypes'
  OBVIOUS
<1> USE DEF TypeOK
<1>1. ASSUME NEW r \in Rotators, ValidateObjectSpec(r) PROVE ClusterTypes'
  BY <1>1 DEF ValidateObjectSpec, ClusterTypes, server, caches
<1>2. CASE DeferPatch
  BY <1>2, DisturbType DEF DeferPatch, ClusterTypes, server, caches, Fault
<1>3. ASSUME NEW k \in Keys, DeleteSecret(k) PROVE ClusterTypes'
  BY <1>3, PutType, NoSecretType DEF DeleteSecret, ClusterTypes
<1>4. ASSUME NEW k \in Keys, DeleteSecretFails(k) PROVE ClusterTypes'
  BY <1>4, PutType, NoSecretType, DisturbType DEF DeleteSecretFails, ClusterTypes, Fault
<1>5. ASSUME NEW n \in Namespaces, CheckExisting(n) PROVE ClusterTypes'
  BY <1>5, DisturbType DEF CheckExisting, ClusterTypes, server, caches, Fault
<1>6. CASE HandlingToken
  BY <1>6 DEF HandlingToken, ClusterTypes, server, caches
<1>7. CASE HandlingTokenFails
  BY <1>7, DisturbType DEF HandlingTokenFails, ClusterTypes, server, caches, Fault
<1>8. ASSUME NEW s \in names, pc = "write", Write(s)
      PROVE  /\ secrets' \in [Keys -> Secret] /\ cache' \in [Keys -> Secret]
             /\ wrote' \in [Rotators -> SUBSET Keys]
  <2>1. <<ns, s>> \in Keys /\ Desired(s) \in Secret
    BY <1>8, DesiredType
  <2>2. secrets' \in [Keys -> Secret] /\ cache' \in [Keys -> Secret]
    BY <1>8, <2>1, PutType DEF Write
  <2> QED
    BY <1>8, <2>1, <2>2 DEF Write, ClusterTypes
<1>9. ASSUME NEW s \in Names, CreateOrUpdateSecrets(s) PROVE ClusterTypes'
  BY <1>8, <1>9 DEF CreateOrUpdateSecrets, ClusterTypes
<1>10. ASSUME NEW s \in Names, CreateOrUpdateSecretsFails(s) PROVE ClusterTypes'
  BY <1>8, <1>10, DisturbType DEF CreateOrUpdateSecretsFails, ClusterTypes, Fault
<1>11. CASE FinishNamespace
  BY <1>11 DEF FinishNamespace, ClusterTypes, server, caches
<1>12. ASSUME NEW k \in Keys, DeleteGeneratedSecret(k) PROVE ClusterTypes'
  BY <1>12, PutType, NoSecretType DEF DeleteGeneratedSecret, ClusterTypes
<1>13. ASSUME NEW k \in Keys, DeleteGeneratedSecretFails(k) PROVE ClusterTypes'
  BY <1>13, PutType, NoSecretType, DisturbType DEF DeleteGeneratedSecretFails, ClusterTypes, Fault
<1>14. CycleDone => cur \in Rotators
  BY DEF CycleDone, LocalTypes
<1>15. CASE UpdateStatus
  BY <1>14, <1>15, PutRotatorType, NewStatusType DEF UpdateStatus, ClusterTypes
<1>16. CASE UpdateStatusFails
  BY <1>14, <1>16, PutRotatorType, NewStatusType, DisturbType DEF UpdateStatusFails, ClusterTypes, Fault
<1>17. CASE Crash
  BY <1>17, DisturbType DEF Crash, ClusterTypes
<1>18. ASSUME NEW k \in Keys, UserDelete(k) PROVE ClusterTypes'
  BY <1>18, PutType, NoSecretType, DisturbType DEF UserDelete, ClusterTypes
<1>19. ASSUME NEW k \in Keys, NEW t \in Types, UserCreate(k, t) PROVE ClusterTypes'
  <2>1. [owner |-> User, type |-> t, token |-> None] \in Secret
    BY DEF Secret
  <2> QED
    BY <1>19, <2>1, PutType, DisturbType DEF UserCreate, ClusterTypes
<1>20. ASSUME NEW r \in Rotators, NEW m \in SUBSET Namespaces, Relabel(r, m) PROVE ClusterTypes'
  BY <1>20, DisturbType DEF Relabel, ClusterTypes, caches
<1>21. ASSUME NEW r \in Rotators, HandlingNamespaceEvents(r) PROVE ClusterTypes'
  <2>1. robj[r] \in Rotator /\ robj[r].uid + 1 \in Nat
    BY DEF ClusterTypes, Rotator
  <2>2. [robj[r] EXCEPT !.uid = @ + 1] \in Rotator
    BY <2>1 DEF Rotator
  <2> QED
    BY <1>21, <2>2, PutRotatorType DEF HandlingNamespaceEvents, ClusterTypes
<1>22. ASSUME NEW r \in Rotators, NEW g \in Generated, Reconfigure(r, g) PROVE ClusterTypes'
  <2>1. [robj[r] EXCEPT !.gen = g] \in Rotator
    BY DEF ClusterTypes, Rotator
  <2> QED
    BY <1>22, <2>1, PutRotatorType, DisturbType DEF Reconfigure, ClusterTypes
<1>23. CASE Sync
  BY <1>23 DEF Sync, SyncSecrets, SyncRotator, ClusterTypes, server
<1>24. CASE UNCHANGED vars
  BY <1>24 DEF vars, server, caches, ClusterTypes
<1> QED
  BY <1>1, <1>2, <1>3, <1>4, <1>5, <1>6, <1>7, <1>9, <1>10, <1>11, <1>12, <1>13, <1>15,
     <1>16, <1>17, <1>18, <1>19, <1>20, <1>21, <1>22, <1>23, <1>24
  DEF Next, OperatorStep, Environment, ValidateObjectSpecFails

LEMMA NextLocalTypes == TypeOK /\ [Next]_vars => LocalTypes'
<1> SUFFICES ASSUME TypeOK, [Next]_vars PROVE LocalTypes'
  OBVIOUS
<1> USE DEF TypeOK
<1>1. ASSUME NEW r \in Rotators, ValidateObjectSpec(r) PROVE LocalTypes'
  <2>1. crobj[r] \in Rotator /\ crobj[r].gen \in Generated /\ selected[r] \subseteq Namespaces
    BY DEF ClusterTypes, Rotator
  <2>2. pc' = "patch" /\ names' \subseteq Configured(gen')
    BY <1>1 DEF ValidateObjectSpec, LocalTypes
  <2> QED
    BY <1>1, <2>1, <2>2 DEF ValidateObjectSpec, LocalTypes
<1>2. CASE DeferPatch
  <2>1. obj' \in Rotator /\ obj'.prov \subseteq Namespaces
    BY <1>2 DEF DeferPatch, ClusterTypes, LocalTypes, Rotator
  <2>2. dels' \subseteq Keys
    BY <1>2, <2>1, ConfiguredType DEF DeferPatch, getRemovedNamespaces, Keys, LocalTypes
  <2> QED
    BY <1>2, <2>1, <2>2 DEF DeferPatch, LocalTypes
<1>3. ASSUME NEW k \in Keys, DeleteSecret(k) PROVE LocalTypes'
  BY <1>3, KeyType DEF DeleteSecret, LocalTypes
<1>4. ASSUME NEW k \in Keys, DeleteSecretFails(k) PROVE LocalTypes'
  BY <1>4, KeyType DEF DeleteSecretFails, LocalTypes
<1>5. ASSUME NEW n \in Namespaces, CheckExisting(n) PROVE LocalTypes'
  BY <1>5 DEF CheckExisting, LocalTypes, AfterCheck
<1>6. CASE HandlingToken
  BY <1>6 DEF HandlingToken, LocalTypes
<1>7. ASSUME NEW s \in Names, CreateOrUpdateSecrets(s) PROVE LocalTypes'
  <2>1. managed' \in Managed
    BY <1>7 DEF CreateOrUpdateSecrets, LocalTypes, Managed
  <2> QED
    BY <1>7, <2>1 DEF CreateOrUpdateSecrets, LocalTypes
<1>8. ASSUME NEW s \in Names, CreateOrUpdateSecretsFails(s) PROVE LocalTypes'
  BY <1>8 DEF CreateOrUpdateSecretsFails, LocalTypes
<1>9. CASE FinishNamespace
  BY <1>9 DEF FinishNamespace, LocalTypes, OutdatedGenerated, findSecretDifferences
<1>10. ASSUME NEW k \in Keys, DeleteGeneratedSecret(k) PROVE LocalTypes'
  BY <1>10 DEF DeleteGeneratedSecret, LocalTypes
<1>11. CASE UNCHANGED local
  BY <1>11 DEF local, LocalTypes
<1>12. CASE Return
  BY <1>12, ReturnType
<1> QED
  BY <1>1, <1>2, <1>3, <1>4, <1>5, <1>6, <1>7, <1>8, <1>9, <1>10, <1>11, <1>12
  DEF Next, OperatorStep, Environment, Sync, ValidateObjectSpecFails, vars, SyncSecrets, SyncRotator,
      HandlingTokenFails, DeleteGeneratedSecretFails, UpdateStatus, UpdateStatusFails, Crash,
      UserDelete, UserCreate, Relabel, HandlingNamespaceEvents, Reconfigure

(* In every reachable state the API server, the caches and the local state  *)
(* of the cycle are well formed; in particular a cycle that writes secrets  *)
(* has a token to write.                                                    *)
THEOREM TypeCorrect == Spec => []TypeOK
<1>1. TypeOK /\ [Next]_vars => TypeOK'
  BY NextClusterTypes, NextLocalTypes DEF TypeOK
<1> QED
  BY InitTypeOK, <1>1, PTL DEF Spec

-----------------------------------------------------------------------------
(* The operator deletes only what it wrote.  The property is about single   *)
(* steps; the invariant behind it says where the keys it deletes come from: *)
(* every controller reference to a SecretRotator, in the API server or the  *)
(* cache, and every key its status or the cycle records as managed, goes    *)
(* back to a write of that SecretRotator.                                   *)

OwnedWasWritten ==
    \A k \in Keys, r \in Rotators :
        secrets[k].owner = r \/ cache[k].owner = r => k \in wrote[r]

RecordedWasWritten ==
    \A k \in Keys, r \in Rotators :
        k[2] \in robj[r].managed[k[1]] \/ k[2] \in crobj[r].managed[k[1]] => k \in wrote[r]

CycleWasWritten ==
    /\ pc = "idle" => managed = NothingManaged
    /\ pc # "idle" =>
         \A k \in Keys : k[2] \in obj.managed[k[1]] \/ k[2] \in managed[k[1]] => k \in wrote[cur]
    /\ pc = "generated" => dels \subseteq wrote[cur]

DeleteInv == TypeOK /\ OwnedWasWritten /\ RecordedWasWritten /\ CycleWasWritten

(* What a step can do to the secrets. *)
LEMMA SecretSteps ==
    ASSUME TypeOK, [Next]_vars
    PROVE  \/ \E k \in Keys : Put(k, NoSecret) /\ UNCHANGED wrote
           \/ \E k \in Keys, t \in Types :
                 Put(k, [owner |-> User, type |-> t, token |-> None]) /\ UNCHANGED wrote
           \/ pc = "write" /\ \E s \in names : Write(s)
           \/ UNCHANGED <<secrets, wrote>> /\ cache' \in {cache, secrets}
  BY DEF Next, OperatorStep, Environment, Sync, ValidateObjectSpec, ValidateObjectSpecFails,
         DeferPatch, DeleteSecret, DeleteSecretFails, CheckExisting, HandlingToken,
         HandlingTokenFails, CreateOrUpdateSecrets, CreateOrUpdateSecretsFails, FinishNamespace,
         DeleteGeneratedSecret, DeleteGeneratedSecretFails, UpdateStatus, UpdateStatusFails, Crash,
         UserDelete, UserCreate, Relabel, HandlingNamespaceEvents, Reconfigure, SyncSecrets,
         SyncRotator, vars, server, caches

(* What a step can do to the SecretRotators. *)
LEMMA RotatorSteps ==
    ASSUME TypeOK, [Next]_vars
    PROVE  \/ CycleDone /\ PutRotator(cur, NewStatus)
           \/ \E r \in Rotators, g \in Generated : PutRotator(r, [robj[r] EXCEPT !.gen = g])
           \/ \E r \in Rotators : PutRotator(r, [robj[r] EXCEPT !.uid = @ + 1])
           \/ UNCHANGED robj /\ crobj' \in {crobj, robj}
           \/ UNCHANGED robj /\ \E r \in Rotators : crobj' = [crobj EXCEPT ![r] = robj[r]]
  BY DEF Next, OperatorStep, Environment, Sync, ValidateObjectSpec, ValidateObjectSpecFails,
         DeferPatch, DeleteSecret, DeleteSecretFails, CheckExisting, HandlingToken,
         HandlingTokenFails, CreateOrUpdateSecrets, CreateOrUpdateSecretsFails, FinishNamespace,
         DeleteGeneratedSecret, DeleteGeneratedSecretFails, UpdateStatus, UpdateStatusFails, Crash,
         UserDelete, UserCreate, Relabel, HandlingNamespaceEvents, Reconfigure, SyncSecrets,
         SyncRotator, vars, server, caches

LEMMA WroteGrows ==
    ASSUME TypeOK, [Next]_vars
    PROVE  \A r \in Rotators : wrote[r] \subseteq wrote'[r]
<1>1. ASSUME NEW s, Write(s), pc = "write" PROVE \A r \in Rotators : wrote[r] \subseteq wrote'[r]
  BY <1>1 DEF Write, TypeOK, ClusterTypes
<1> QED
  BY <1>1, SecretSteps

LEMMA OwnedStep ==
    ASSUME TypeOK, OwnedWasWritten, [Next]_vars
    PROVE  OwnedWasWritten'
<1>1. CASE \E k \in Keys : Put(k, NoSecret) /\ UNCHANGED wrote
  BY <1>1, NoneAssumption DEF Put, NoSecret, OwnedWasWritten, TypeOK, ClusterTypes
<1>2. CASE \E k \in Keys, t \in Types :
              Put(k, [owner |-> User, type |-> t, token |-> None]) /\ UNCHANGED wrote
  BY <1>2, UserAssumption DEF Put, OwnedWasWritten, TypeOK, ClusterTypes
<1>3. CASE pc = "write" /\ \E s \in names : Write(s)
  <2>1. PICK s \in names : Write(s)
    BY <1>3
  <2> DEFINE k == <<ns, s>>
  <2>2. k \in Keys /\ Desired(s) \in Secret /\ cur \in Rotators
    BY <1>3, DesiredType DEF TypeOK, LocalTypes
  <2>3. Desired(s).owner \in {cur, cache[k].owner}
    BY <2>2 DEF Desired, TypeOK, ClusterTypes, Secret
  <2>4. /\ secrets' = [secrets EXCEPT ![k] = Desired(s)]
        /\ cache' = cache \/ cache' = secrets'
        /\ wrote' = [wrote EXCEPT ![cur] = @ \cup {k}]
    BY <2>1 DEF Write, Put
  <2>5. k \in wrote'[cur] /\ \A r \in Rotators : wrote[r] \subseteq wrote'[r]
    BY <2>2, <2>4 DEF TypeOK, ClusterTypes
  <2> HIDE DEF k
  <2>6. ASSUME NEW j \in Keys, NEW r \in Rotators, secrets'[j].owner = r
        PROVE  j \in wrote'[r]
    <3>1. CASE j = k
      BY <2>2, <2>3, <2>4, <2>5, <2>6, <3>1 DEF OwnedWasWritten, TypeOK, ClusterTypes
    <3>2. CASE j # k
      BY <2>2, <2>4, <2>5, <2>6, <3>2 DEF OwnedWasWritten, TypeOK, ClusterTypes
    <3> QED
      BY <3>1, <3>2
  <2>7. ASSUME NEW j \in Keys, NEW r \in Rotators, cache'[j].owner = r
        PROVE  j \in wrote'[r]
    BY <2>4, <2>5, <2>6, <2>7 DEF OwnedWasWritten
  <2> QED
    BY <2>6, <2>7 DEF OwnedWasWritten
<1>4. CASE UNCHANGED <<secrets, wrote>> /\ cache' \in {cache, secrets}
  BY <1>4 DEF OwnedWasWritten
<1> QED
  BY <1>1, <1>2, <1>3, <1>4, SecretSteps

LEMMA RecordedStep ==
    ASSUME TypeOK, RecordedWasWritten, CycleWasWritten, [Next]_vars
    PROVE  RecordedWasWritten'
<1>1. \A r \in Rotators : wrote[r] \subseteq wrote'[r]
  BY WroteGrows
<1>2. ASSUME NEW r \in Rotators, NEW o \in Rotator, PutRotator(r, o),
             \A k \in Keys : k[2] \in o.managed[k[1]] => k \in wrote[r]
      PROVE  RecordedWasWritten'
  <2>1. robj' = [robj EXCEPT ![r] = o] /\ (crobj' = crobj \/ crobj' = robj')
    BY <1>2 DEF PutRotator
  <2>2. \A k \in Keys, q \in Rotators : k[2] \in robj'[q].managed[k[1]] => k \in wrote'[q]
    BY <1>1, <1>2, <2>1 DEF RecordedWasWritten, TypeOK, ClusterTypes
  <2> QED
    BY <1>1, <2>1, <2>2 DEF RecordedWasWritten
<1>3. CASE CycleDone /\ PutRotator(cur, NewStatus)
  <2>1. cur \in Rotators /\ pc # "idle"
    BY <1>3 DEF CycleDone, TypeOK, LocalTypes
  <2>2. NewStatus \in Rotator /\ NewStatus.managed = managed
    BY NewStatusType DEF NewStatus, TypeOK, LocalTypes, Rotator
  <2>3. \A k \in Keys : k[2] \in managed[k[1]] => k \in wrote[cur]
    BY <2>1 DEF CycleWasWritten
  <2> QED
    BY <1>2, <1>3, <2>1, <2>2, <2>3
<1>4. ASSUME NEW r \in Rotators, NEW g \in Generated, PutRotator(r, [robj[r] EXCEPT !.gen = g])
      PROVE  RecordedWasWritten'
  <2> DEFINE o == [robj[r] EXCEPT !.gen = g]
  <2>1. o \in Rotator /\ o.managed = robj[r].managed
    BY DEF TypeOK, ClusterTypes, Rotator
  <2> QED
    BY <1>2, <1>4, <2>1 DEF RecordedWasWritten
<1>5. ASSUME NEW r \in Rotators, PutRotator(r, [robj[r] EXCEPT !.uid = @ + 1])
      PROVE  RecordedWasWritten'
  <2> DEFINE o == [robj[r] EXCEPT !.uid = @ + 1]
  <2>1. robj[r] \in Rotator /\ robj[r].uid + 1 \in Nat
    BY DEF TypeOK, ClusterTypes, Rotator
  <2>2. o \in Rotator /\ o.managed = robj[r].managed
    BY <2>1 DEF Rotator
  <2> QED
    BY <1>2, <1>5, <2>2 DEF RecordedWasWritten
<1>6. CASE UNCHANGED robj /\ crobj' \in {crobj, robj}
  BY <1>1, <1>6 DEF RecordedWasWritten
<1>7. ASSUME NEW r \in Rotators, UNCHANGED robj, crobj' = [crobj EXCEPT ![r] = robj[r]]
      PROVE  RecordedWasWritten'
  BY <1>1, <1>7 DEF RecordedWasWritten, TypeOK, ClusterTypes
<1> QED
  BY <1>3, <1>4, <1>5, <1>6, <1>7, RotatorSteps

LEMMA CycleStep ==
    ASSUME TypeOK, RecordedWasWritten, CycleWasWritten, [Next]_vars
    PROVE  CycleWasWritten'
<1>1. \A r \in Rotators : wrote[r] \subseteq wrote'[r]
  BY WroteGrows
<1>2. pc # "idle" => cur \in Rotators
  BY DEF TypeOK, LocalTypes
<1>3. CASE Return
  BY <1>3 DEF Return, CycleWasWritten
<1>4. ASSUME UNCHANGED <<pc, cur, managed>>, obj' \in {obj, robj[cur]}, pc # "idle",
             pc = "generated" => dels' \subseteq dels
      PROVE  CycleWasWritten'
  BY <1>1, <1>2, <1>4 DEF CycleWasWritten, RecordedWasWritten
<1>5. CASE UNCHANGED local
  BY <1>1, <1>2, <1>5 DEF CycleWasWritten, local
<1>6. ASSUME NEW r \in Rotators, ValidateObjectSpec(r) PROVE CycleWasWritten'
  <2>1. pc' = "patch" /\ cur' = r /\ obj' = crobj[r] /\ managed' = NothingManaged /\ wrote' = wrote
    BY <1>6 DEF ValidateObjectSpec, CycleWasWritten
  <2>2. \A k \in Keys : k[2] \in obj'.managed[k[1]] => k \in wrote'[cur']
    BY <2>1 DEF RecordedWasWritten
  <2>3. \A k \in Keys : k[2] \notin managed'[k[1]]
    BY <2>1, KeyType DEF NothingManaged
  <2> QED
    BY <2>1, <2>2, <2>3 DEF CycleWasWritten
<1>7. CASE DeferPatch
  <2>1. /\ pc = "patch" /\ pc' = "outdated" /\ UNCHANGED <<cur, managed, wrote>>
        /\ obj' \in {obj, robj[cur]}
    BY <1>7 DEF DeferPatch
  <2> QED
    BY <1>2, <2>1 DEF CycleWasWritten, RecordedWasWritten
<1>8. ASSUME NEW n \in Namespaces, CheckExisting(n) PROVE CycleWasWritten'
  <2>1. pc # "idle" /\ pc' \in {"token", "write"} /\ UNCHANGED <<cur, managed, wrote, obj>>
    BY <1>8 DEF CheckExisting, AfterCheck
  <2> QED
    BY <2>1 DEF CycleWasWritten
<1>9. CASE HandlingToken
  BY <1>9 DEF HandlingToken, CycleWasWritten
<1>10. ASSUME NEW s \in Names, CreateOrUpdateSecrets(s) PROVE CycleWasWritten'
  <2>1. /\ pc = "write" /\ UNCHANGED <<pc, cur, obj>> /\ cur \in Rotators
        /\ managed' = [managed EXCEPT ![ns] = @ \cup {s}]
        /\ wrote' = [wrote EXCEPT ![cur] = @ \cup {<<ns, s>>}]
    BY <1>2, <1>10 DEF CreateOrUpdateSecrets, Write
  <2>2. <<ns, s>> \in wrote'[cur] /\ wrote[cur] \subseteq wrote'[cur]
    BY <2>1 DEF TypeOK, ClusterTypes
  <2>3. ASSUME NEW k \in Keys, k[2] \in managed'[k[1]] PROVE k \in wrote'[cur]
    <3>1. k[2] \in managed[k[1]] \/ k = <<ns, s>>
      BY <2>1, <2>3, KeyType DEF TypeOK, LocalTypes, Managed
    <3> QED
      BY <2>1, <2>2, <3>1 DEF CycleWasWritten
  <2> QED
    BY <2>1, <2>2, <2>3 DEF CycleWasWritten
<1>11. CASE FinishNamespace
  <2>1. pc = "write" /\ pc' = "generated" /\ UNCHANGED <<cur, obj, managed, wrote>>
    BY <1>11 DEF FinishNamespace
  <2>2. dels' \subseteq {k \in Keys : k[2] \in obj.managed[k[1]]}
    BY <1>11 DEF FinishNamespace, OutdatedGenerated, findSecretDifferences
  <2> QED
    BY <2>1, <2>2 DEF CycleWasWritten
<1>12. ASSUME NEW k \in Keys, DeleteSecret(k) \/ DeleteSecretFails(k) \/ DeleteGeneratedSecret(k)
       PROVE  CycleWasWritten'
  BY <1>4, <1>12 DEF DeleteSecret, DeleteSecretFails, DeleteGeneratedSecret
<1>13. ASSUME NEW s \in Names, CreateOrUpdateSecretsFails(s) PROVE CycleWasWritten'
  BY <1>4, <1>13 DEF CreateOrUpdateSecretsFails
<1> QED
  BY <1>3, <1>5, <1>6, <1>7, <1>8, <1>9, <1>10, <1>11, <1>12, <1>13
  DEF Next, OperatorStep, Environment, Sync, ValidateObjectSpecFails, vars, SyncSecrets, SyncRotator,
      HandlingTokenFails, DeleteGeneratedSecretFails, UpdateStatus, UpdateStatusFails, Crash,
      UserDelete, UserCreate, Relabel, HandlingNamespaceEvents, Reconfigure

LEMMA InitDeleteInv == Init => DeleteInv
<1> SUFFICES ASSUME Init PROVE DeleteInv
  OBVIOUS
<1>1. OwnedWasWritten
  BY NoneAssumption DEF Init, OwnedWasWritten, NoSecret
<1>2. RecordedWasWritten
  BY KeyType DEF Init, RecordedWasWritten, NewRotator, NothingManaged
<1>3. CycleWasWritten
  BY DEF Init, CycleWasWritten
<1> QED
  BY <1>1, <1>2, <1>3, InitTypeOK DEF DeleteInv

LEMMA NextDeleteInv == DeleteInv /\ [Next]_vars => DeleteInv'
  BY NextClusterTypes, NextLocalTypes, OwnedStep, RecordedStep, CycleStep DEF DeleteInv, TypeOK

(* The keys a step removes from the list of deletions, when the secret      *)
(* disappears: they were written by a SecretRotator of the name of the one  *)
(* being reconciled.                                                        *)
LEMMA DeleteStep ==
    ASSUME DeleteInv, [Next]_vars, NEW k \in Keys, OperatorDeletes(k)
    PROVE  \E r \in Rotators : NameOf[r] = NameOf[cur] /\ k \in wrote[r]
<1>1. k \in dels /\ k \notin dels' /\ Exists(secrets[k]) /\ ~Exists(secrets'[k])
  BY DEF OperatorDeletes
<1>2. pc # "idle" => cur \in Rotators
  BY DEF DeleteInv, TypeOK, LocalTypes
<1>3. CASE pc = "generated"
  BY <1>1, <1>2, <1>3 DEF DeleteInv, CycleWasWritten
<1>4. ASSUME IsSecretOwnedBy(cache[k], cur)
      PROVE  \E r \in Rotators : NameOf[r] = NameOf[cur] /\ k \in wrote[r]
  BY <1>4 DEF IsSecretOwnedBy, DeleteInv, OwnedWasWritten
<1>5. ASSUME NEW j \in Keys, DeleteSecret(j) \/ DeleteSecretFails(j)
      PROVE  IsSecretOwnedBy(cache[k], cur)
  <2>1. j = k
    BY <1>1, <1>5 DEF DeleteSecret, DeleteSecretFails
  <2>2. ~UNCHANGED secrets
    BY <1>1
  <2> QED
    BY <1>5, <2>1, <2>2 DEF DeleteSecret, DeleteSecretFails
<1>6. UNCHANGED dels => k \in dels'
  BY <1>1
<1>7. UNCHANGED secrets => Exists(secrets'[k])
  BY <1>1
<1> QED
  BY <1>1, <1>3, <1>4, <1>5, <1>6, <1>7
  DEF Next, OperatorStep, Environment, Sync, ValidateObjectSpec, ValidateObjectSpecFails,
      DeferPatch, CheckExisting, HandlingToken, HandlingTokenFails, CreateOrUpdateSecrets,
      CreateOrUpdateSecretsFails, FinishNamespace, DeleteGeneratedSecret, DeleteGeneratedSecretFails,
      UpdateStatus, UpdateStatusFails, Crash, UserDelete, UserCreate, Relabel, HandlingNamespaceEvents,
      Reconfigure, SyncSecrets, SyncRotator, vars, server, caches, local, CycleDone

(* Whatever fails, lags, races or restarts, the two clean-ups of            *)
(* ManagingSecrets only delete a secret under a key a SecretRotator of the  *)
(* same name has written before.                                            *)
THEOREM DeletionSafety == Spec => DeletesOnlyOwnWrites
<1>1. DeleteInv /\ [Next]_vars =>
          [\A k \in Keys : OperatorDeletes(k) =>
              \E r \in Rotators : NameOf[r] = NameOf[cur] /\ k \in wrote[r]]_vars
  BY DeleteStep
<1> QED
  BY <1>1, InitDeleteInv, NextDeleteInv, PTL DEF Spec, DeletesOnlyOwnWrites

=============================================================================
