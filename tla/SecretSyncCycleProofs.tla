----------------------- MODULE SecretSyncCycleProofs ------------------------
(***************************************************************************)
(* Theorems about what one cycle of SecretSync reports when users stay out *)
(* of it: what it says it rotated is rotated, what it says it removed is   *)
(* removed and, if the caches are coherent, it touches nothing else.       *)
(***************************************************************************)
EXTENDS SecretSyncProofs

-----------------------------------------------------------------------------
(* What a cycle reports as rotated.  By the end every namespace has been    *)
(* visited; the invariant says what is true of the ones visited so far, and *)
(* that what is recorded as managed stays written: nothing still to be      *)
(* deleted is recorded, and the token never changes once it is in use.      *)

NothingYet == managed = NothingManaged /\ tok = None

VisitedSoFar ==
    /\ pc \in {"idle", "patch", "outdated"} => NothingYet
    /\ pc \in {"patch", "outdated"} => todo = list
    /\ pc = "token" => NothingYet
    /\ pc # "idle" =>
         \A n \in list \ (todo \cup failed), s \in Configured(gen) :
             s \in managed[n] \/ (pc \in {"token", "write"} /\ n = ns /\ s \in names)

ManagedIsWritten ==
    \A n \in Namespaces : \A s \in managed[n] :
        /\ s \in Configured(gen)
        /\ secrets[<<n, s>>].token = tok
        /\ secrets[<<n, s>>].type = gen[s]

DeletesNothingManaged ==
    pc = "generated" => \A k \in dels : k[2] \notin managed[k[1]]

RotationInv == TypeOK /\ VisitedSoFar /\ ManagedIsWritten /\ DeletesNothingManaged

(* At idle nothing is managed, so users may do what they like. *)
LEMMA UserStepsIdle ==
    ASSUME Interleave = FALSE, TypeOK, [Next]_vars, pc # "idle"
    PROVE  \/ OperatorStep
           \/ Crash
           \/ \E r \in Rotators : HandlingNamespaceEvents(r)
           \/ Sync
           \/ UNCHANGED vars
  BY DEF Next, Environment, ValidateObjectSpec, ValidateObjectSpecFails, UserDelete, UserCreate,
         Relabel, Reconfigure, UsersMayAct

LEMMA ReturnRotationInv ==
    ASSUME Return, TypeOK'
    PROVE  RotationInv'
<1>1. managed' = NothingManaged /\ tok' = None /\ pc' = "idle"
  BY DEF Return
<1>2. \A n \in Namespaces : managed'[n] = {}
  BY <1>1 DEF NothingManaged
<1> QED
  BY <1>1, <1>2 DEF RotationInv, VisitedSoFar, NothingYet, ManagedIsWritten, DeletesNothingManaged

LEMMA IdleRotationInv ==
    ASSUME RotationInv, TypeOK', [Next]_vars, pc = "idle"
    PROVE  RotationInv'
<1>1. managed = NothingManaged /\ tok = None
  BY DEF RotationInv, VisitedSoFar, NothingYet
<1>2. CASE UNCHANGED <<pc, managed, tok>>
  <2>1. \A n \in Namespaces : managed'[n] = {}
    BY <1>1, <1>2 DEF NothingManaged
  <2> QED
    BY <1>1, <1>2, <2>1 DEF RotationInv, VisitedSoFar, NothingYet, ManagedIsWritten,
                            DeletesNothingManaged
<1>3. ASSUME NEW r \in Rotators, ValidateObjectSpec(r) PROVE RotationInv'
  <2>1. UNCHANGED <<managed, tok>> /\ pc' = "patch" /\ todo' = list'
    BY <1>3 DEF ValidateObjectSpec
  <2>2. \A n \in Namespaces : managed'[n] = {}
    BY <1>1, <2>1 DEF NothingManaged
  <2> QED
    BY <1>1, <2>1, <2>2 DEF RotationInv, VisitedSoFar, NothingYet, ManagedIsWritten,
                            DeletesNothingManaged
<1> QED
  BY <1>2, <1>3
  DEF Next, OperatorStep, Environment, Sync, ValidateObjectSpecFails, DeferPatch, DeleteSecret,
      DeleteSecretFails, CheckExisting, HandlingToken, HandlingTokenFails, CreateOrUpdateSecrets,
      CreateOrUpdateSecretsFails, FinishNamespace, DeleteGeneratedSecret, DeleteGeneratedSecretFails,
      UpdateStatus, UpdateStatusFails, Crash, UserDelete, UserCreate, Relabel, HandlingNamespaceEvents,
      Reconfigure, SyncSecrets, SyncRotator, CycleDone, vars, local

LEMMA WriteRotation ==
    ASSUME RotationInv, pc = "write", NEW s \in names, Write(s), UNCHANGED <<gen, tok>>
    PROVE  /\ secrets'[<<ns, s>>].token = tok /\ secrets'[<<ns, s>>].type = gen[s]
           /\ \A n \in Namespaces : \A z \in managed[n] :
                 /\ secrets'[<<n, z>>].token = tok
                 /\ secrets'[<<n, z>>].type = gen[z]
<1> DEFINE k == <<ns, s>>
<1>1. k \in Keys /\ s \in Names /\ secrets' = [secrets EXCEPT ![k] = Desired(s)]
  BY DesiredType, ConfiguredType DEF RotationInv, Write, Put, TypeOK, LocalTypes
<1>2. Desired(s).token = tok /\ Desired(s).type = gen[s]
  BY <1>1 DEF Desired, RotationInv, TypeOK, ClusterTypes, Secret
<1>3. secrets \in [Keys -> Secret]
  BY DEF RotationInv, TypeOK, ClusterTypes
<1>4. secrets'[k].token = tok /\ secrets'[k].type = gen[s]
  BY <1>1, <1>2, <1>3
<1>5. ASSUME NEW n \in Namespaces, NEW z \in managed[n]
      PROVE  secrets'[<<n, z>>].token = tok /\ secrets'[<<n, z>>].type = gen[z]
  <2>1. z \in Names /\ <<n, z>> \in Keys
    BY <1>5, KeyType DEF RotationInv, TypeOK, LocalTypes, Managed
  <2>2. CASE n = ns /\ z = s
    BY <1>4, <2>2
  <2>3. CASE ~(n = ns /\ z = s)
    <3>1. <<n, z>> # k
      BY <2>3
    <3>2. secrets'[<<n, z>>] = secrets[<<n, z>>]
      BY <1>1, <1>3, <2>1, <3>1
    <3> QED
      BY <1>5, <3>2 DEF RotationInv, ManagedIsWritten
  <2> QED
    BY <2>2, <2>3
<1> QED
  BY <1>4, <1>5

LEMMA OperatorRotationInv ==
    ASSUME RotationInv, TypeOK', OperatorStep
    PROVE  RotationInv'
<1> USE DEF RotationInv
<1>1. CASE Return
  BY <1>1, ReturnRotationInv
<1>2. CASE DeferPatch
  <2>1. /\ pc = "patch" /\ pc' = "outdated"
        /\ UNCHANGED <<secrets, gen, list, todo, tok, managed, failed, ns, names>>
    BY <1>2 DEF DeferPatch, server
  <2> QED
    BY <2>1 DEF VisitedSoFar, NothingYet, ManagedIsWritten, DeletesNothingManaged
<1>3. ASSUME NEW k \in Keys, DeleteSecret(k) \/ DeleteSecretFails(k) PROVE RotationInv'
  <2>1. /\ pc = "outdated" /\ UNCHANGED <<pc, gen, list, todo, tok, managed, ns, names>>
    BY <1>3 DEF DeleteSecret, DeleteSecretFails
  <2>2. managed = NothingManaged /\ tok = None /\ todo = list
    BY <2>1 DEF VisitedSoFar, NothingYet
  <2>3. \A n \in Namespaces : managed'[n] = {}
    BY <2>1, <2>2 DEF NothingManaged
  <2> QED
    BY <2>1, <2>2, <2>3 DEF VisitedSoFar, NothingYet, ManagedIsWritten, DeletesNothingManaged
<1>4. ASSUME NEW n \in Namespaces, CheckExisting(n) PROVE RotationInv'
  <2>1. /\ pc \in {"outdated", "generated"} /\ n \in todo /\ todo' = todo \ {n} /\ ns' = n
        /\ UNCHANGED <<secrets, gen, list, tok, managed>>
        /\ pc' \in {"token", "write"} /\ (pc' = "token" <=> tok = None)
        /\ failed \subseteq failed' /\ (n \in failed' \/ names' = Configured(gen))
    BY <1>4 DEF CheckExisting, AfterCheck, server
  <2>2. VisitedSoFar'
    <3>1. pc' = "token" => NothingYet'
      BY <2>1, NoneAssumption DEF VisitedSoFar, NothingYet, TypeOK, LocalTypes
    <3> QED
      BY <2>1, <3>1 DEF VisitedSoFar
  <2> QED
    BY <2>1, <2>2 DEF ManagedIsWritten, DeletesNothingManaged
<1>5. CASE HandlingToken
  <2>1. /\ pc = "token" /\ pc' = "write"
        /\ UNCHANGED <<secrets, gen, list, todo, managed, failed, ns, names>>
    BY <1>5 DEF HandlingToken, server
  <2>2. \A n \in Namespaces : managed'[n] = {}
    BY <2>1 DEF VisitedSoFar, NothingYet, NothingManaged
  <2> QED
    BY <2>1, <2>2 DEF VisitedSoFar, ManagedIsWritten, DeletesNothingManaged
<1>6. ASSUME NEW s \in Names, CreateOrUpdateSecrets(s) PROVE RotationInv'
  <2>1. /\ pc = "write" /\ s \in names /\ names' = names \ {s} /\ Write(s)
        /\ managed' = [managed EXCEPT ![ns] = @ \cup {s}]
        /\ UNCHANGED <<pc, gen, list, todo, tok, failed, ns>>
    BY <1>6 DEF CreateOrUpdateSecrets
  <2>2. ns \in Namespaces /\ s \in Configured(gen) /\ managed \in [Namespaces -> SUBSET Names]
    BY <2>1 DEF TypeOK, LocalTypes, Managed
  <2>3. VisitedSoFar'
    BY <2>1, <2>2 DEF VisitedSoFar, TypeOK, LocalTypes
  <2>4. ManagedIsWritten'
    <3>1. ASSUME NEW n \in Namespaces, NEW z \in managed'[n]
          PROVE  z \in managed[n] \/ (n = ns /\ z = s)
      BY <2>1, <2>2, <3>1
    <3>2. /\ secrets'[<<ns, s>>].token = tok /\ secrets'[<<ns, s>>].type = gen[s]
          /\ \A n \in Namespaces : \A z \in managed[n] :
                secrets'[<<n, z>>].token = tok /\ secrets'[<<n, z>>].type = gen[z]
      BY <2>1, WriteRotation
    <3>3. \A n \in Namespaces : \A z \in managed[n] : z \in Configured(gen)
      BY DEF ManagedIsWritten
    <3> QED
      BY <2>1, <2>2, <3>1, <3>2, <3>3 DEF ManagedIsWritten
  <2> QED
    BY <2>1, <2>3, <2>4 DEF DeletesNothingManaged
<1>7. ASSUME NEW s \in Names, CreateOrUpdateSecretsFails(s) PROVE RotationInv'
  <2>1. /\ pc = "write" /\ s \in names /\ names' = names \ {s} /\ failed' = failed \cup {ns}
        /\ UNCHANGED secrets \/ Write(s)
        /\ UNCHANGED <<pc, gen, list, todo, tok, ns, managed>>
    BY <1>7 DEF CreateOrUpdateSecretsFails
  <2>2. VisitedSoFar'
    BY <2>1 DEF VisitedSoFar
  <2>3. ManagedIsWritten'
    BY <2>1, WriteRotation DEF ManagedIsWritten
  <2> QED
    BY <2>1, <2>2, <2>3 DEF DeletesNothingManaged
<1>8. CASE FinishNamespace
  <2>1. /\ pc = "write" /\ names = {} /\ pc' = "generated" /\ dels' = OutdatedGenerated
        /\ UNCHANGED <<secrets, gen, list, todo, tok, managed, failed, ns, names>>
    BY <1>8 DEF FinishNamespace, server
  <2>2. \A k \in dels' : k[2] \notin managed[k[1]]
    BY <2>1 DEF OutdatedGenerated, findSecretDifferences
  <2> QED
    BY <2>1, <2>2 DEF VisitedSoFar, ManagedIsWritten, DeletesNothingManaged
<1>9. ASSUME NEW k \in Keys, DeleteGeneratedSecret(k) PROVE RotationInv'
  <2>1. /\ pc = "generated" /\ k \in dels /\ dels' = dels \ {k}
        /\ secrets' = [secrets EXCEPT ![k] = NoSecret]
        /\ UNCHANGED <<pc, gen, list, todo, tok, managed, failed, ns, names>>
    BY <1>9 DEF DeleteGeneratedSecret, Put
  <2>2. ASSUME NEW n \in Namespaces, NEW z \in managed[n] PROVE secrets'[<<n, z>>] = secrets[<<n, z>>]
    <3>1. <<n, z>> \in Keys
      BY <2>2, KeyType DEF TypeOK, LocalTypes, Managed
    <3>2. <<n, z>> # k
      BY <2>1, <2>2 DEF DeletesNothingManaged
    <3> QED
      BY <2>1, <3>1, <3>2 DEF TypeOK, ClusterTypes
  <2> QED
    BY <2>1, <2>2 DEF VisitedSoFar, ManagedIsWritten, DeletesNothingManaged
<1> QED
  BY <1>1, <1>2, <1>3, <1>4, <1>5, <1>6, <1>7, <1>8, <1>9
  DEF OperatorStep, HandlingTokenFails, DeleteGeneratedSecretFails, UpdateStatus, UpdateStatusFails

LEMMA NextRotationInv ==
    ASSUME Interleave = FALSE, RotationInv, [Next]_vars
    PROVE  RotationInv'
<1>1. TypeOK /\ TypeOK'
  BY NextClusterTypes, NextLocalTypes DEF RotationInv, TypeOK
<1>2. CASE pc = "idle"
  BY <1>1, <1>2, IdleRotationInv
<1>3. CASE OperatorStep
  BY <1>1, <1>3, OperatorRotationInv
<1>4. CASE Crash
  BY <1>1, <1>4, ReturnRotationInv DEF Crash
<1>5. CASE UNCHANGED <<secrets, local>>
  BY <1>1, <1>5 DEF RotationInv, VisitedSoFar, NothingYet, ManagedIsWritten, DeletesNothingManaged, local
<1> QED
  BY <1>1, <1>2, <1>3, <1>4, <1>5, UserStepsIdle
  DEF HandlingNamespaceEvents, Sync, SyncSecrets, SyncRotator, vars, server

LEMMA InitRotationInv == Init => RotationInv
<1> SUFFICES ASSUME Init PROVE RotationInv
  OBVIOUS
<1>1. \A n \in Namespaces : managed[n] = {}
  BY DEF Init, NothingManaged
<1> QED
  BY <1>1, InitTypeOK
  DEF Init, RotationInv, VisitedSoFar, NothingYet, ManagedIsWritten, DeletesNothingManaged

(* If users stay out of a cycle, then whatever fails, conflicts or crashes  *)
(* and however far the caches lag, a selected namespace that UpdateStatus   *)
(* does not report as failed has every configured secret, of the configured *)
(* type, with the token of this cycle.                                      *)
THEOREM RotationIsReported ==
    ASSUME Interleave = FALSE
    PROVE  Spec => []RotationReported
<1>1. RotationInv => RotationReported
  BY DEF RotationInv, RotationReported, CycleDone, VisitedSoFar, ManagedIsWritten, TypeOK, LocalTypes
<1> QED
  BY <1>1, InitRotationInv, NextRotationInv, PTL DEF Spec

-----------------------------------------------------------------------------
(* What a cycle reports as removed, and that it touches nothing else, with  *)
(* coherent caches.  A removed namespace's configured secrets are, until    *)
(* DeleteOutdatedSecrets has got to them, among the keys to be deleted;     *)
(* afterwards they stay away because the cycle only writes in namespaces of *)
(* its list.  A name that is still to be written in the current namespace   *)
(* has passed the ownership check.                                          *)

Coherent == cache = secrets

RemovedSoFar ==
    pc \notin {"idle", "patch"} =>
        \A n \in obj.prov \ (list \cup failed), s \in Configured(gen) :
            (pc = "outdated" /\ <<n, s>> \in dels) \/ secrets[<<n, s>>].owner # cur

CheckedNames ==
    pc \in {"token", "write"} =>
        ns \in list /\ \A s \in names : secrets[<<ns, s>>].owner \in {None, cur}

OwnershipInv == TypeOK /\ Coherent /\ RemovedSoFar /\ CheckedNames

NamesAreUnique == \A r, q \in Rotators : NameOf[r] = NameOf[q] => r = q

LEMMA NextCoherent ==
    ASSUME Lag = FALSE, TypeOK, Coherent, [Next]_vars
    PROVE  Coherent'
<1>1. ASSUME NEW k, NEW x, Put(k, x) PROVE Coherent'
  BY <1>1 DEF Put, Coherent
<1> QED
  BY <1>1, SecretSteps DEF Write, Coherent

LEMMA OwnedByName ==
    ASSUME NamesAreUnique, NEW r \in Rotators, NEW x
    PROVE  IsSecretOwnedBy(x, r) <=> x.owner = r
  BY DEF IsSecretOwnedBy, NamesAreUnique

LEMMA NextRemovedSoFar ==
    ASSUME Lag = FALSE, Interleave = FALSE, NamesAreUnique, OwnershipInv, [Next]_vars
    PROVE  RemovedSoFar'
<1> USE DEF OwnershipInv
<1>1. TypeOK /\ (pc # "idle" => cur \in Rotators)
  BY DEF TypeOK, LocalTypes
<1>2. CASE Return
  BY <1>2 DEF Return, RemovedSoFar
<1>3. ASSUME NEW r \in Rotators, ValidateObjectSpec(r) PROVE RemovedSoFar'
  BY <1>3 DEF ValidateObjectSpec, RemovedSoFar
<1>4. CASE DeferPatch
  <2>1. /\ pc' = "outdated" /\ UNCHANGED <<gen, list, failed>>
        /\ dels' = (obj'.prov \ list) \X Configured(gen)
    BY <1>4 DEF DeferPatch, getRemovedNamespaces
  <2> QED
    BY <2>1 DEF RemovedSoFar
<1>5. ASSUME NEW k \in Keys, DeleteSecret(k) \/ DeleteSecretFails(k) PROVE RemovedSoFar'
  <2>1. /\ pc = "outdated" /\ dels' = dels \ {k} /\ failed \subseteq failed'
        /\ UNCHANGED <<pc, cur, obj, gen, list>>
        /\ UNCHANGED secrets \/ secrets' = [secrets EXCEPT ![k] = NoSecret]
        /\ k[1] \in failed' \/ ~IsSecretOwnedBy(cache[k], cur) \/ secrets' = [secrets EXCEPT ![k] = NoSecret]
    BY <1>5 DEF DeleteSecret, DeleteSecretFails, Put
  <2>2. cur \in Rotators
    BY <1>1, <2>1
  <2>3. NoSecret.owner # cur
    BY <2>2, NoneAssumption DEF NoSecret
  <2>4. k[1] \in failed' \/ secrets'[k].owner # cur
    <3>1. CASE ~IsSecretOwnedBy(cache[k], cur)
      <4>1. secrets[k].owner # cur
        BY <2>2, <3>1, OwnedByName DEF Coherent
      <4> QED
        BY <2>1, <2>3, <4>1 DEF TypeOK, ClusterTypes
    <3>2. CASE secrets' = [secrets EXCEPT ![k] = NoSecret]
      BY <2>3, <3>2 DEF TypeOK, ClusterTypes
    <3> QED
      BY <2>1, <3>1, <3>2
  <2>5. ASSUME NEW n \in obj.prov \ (list \cup failed'), NEW s \in Configured(gen)
        PROVE  <<n, s>> \in dels' \/ secrets'[<<n, s>>].owner # cur
    <3>1. <<n, s>> \in dels \/ secrets[<<n, s>>].owner # cur
      BY <2>1, <2>5 DEF RemovedSoFar
    <3>2. <<n, s>> \in Keys
      BY <2>5, KeyType, ConfiguredType DEF TypeOK, LocalTypes, Rotator
    <3>3. CASE <<n, s>> = k
      <4>1. k[1] = n
        BY <3>3
      <4> QED
        BY <2>4, <2>5, <3>3, <4>1
    <3>4. CASE <<n, s>> # k
      <4>1. secrets'[<<n, s>>] = secrets[<<n, s>>]
        BY <2>1, <3>2, <3>4 DEF TypeOK, ClusterTypes
      <4> QED
        BY <2>1, <3>1, <3>4, <4>1
    <3> QED
      BY <3>3, <3>4
  <2> QED
    BY <2>1, <2>5 DEF RemovedSoFar
<1>6. ASSUME NEW n \in Namespaces, CheckExisting(n) PROVE RemovedSoFar'
  <2>1. /\ pc \in {"outdated", "generated"} /\ dels = {} /\ failed \subseteq failed'
        /\ UNCHANGED <<secrets, cur, obj, gen, list>>
    BY <1>6 DEF CheckExisting, server
  <2> QED
    BY <2>1 DEF RemovedSoFar
<1>7. CASE HandlingToken
  BY <1>7 DEF HandlingToken, RemovedSoFar, server
<1>8. ASSUME NEW s \in Names, CreateOrUpdateSecrets(s) \/ CreateOrUpdateSecretsFails(s)
      PROVE  RemovedSoFar'
  <2>1. /\ pc = "write" /\ failed \subseteq failed' /\ UNCHANGED <<pc, cur, obj, gen, list>>
        /\ UNCHANGED secrets \/ \E x : secrets' = [secrets EXCEPT ![<<ns, s>>] = x]
    BY <1>8 DEF CreateOrUpdateSecrets, CreateOrUpdateSecretsFails, Write, Put
  <2>2. ns \in list
    BY <2>1 DEF CheckedNames
  <2>3. ASSUME NEW n \in obj.prov \ (list \cup failed'), NEW z \in Configured(gen)
        PROVE  secrets'[<<n, z>>].owner # cur
    <3>1. secrets[<<n, z>>].owner # cur
      BY <2>1, <2>3 DEF RemovedSoFar
    <3>2. <<n, z>> \in Keys
      BY <2>3, KeyType, ConfiguredType DEF TypeOK, LocalTypes, Rotator
    <3>3. <<n, z>> # <<ns, s>>
      BY <2>2, <2>3
    <3>4. secrets'[<<n, z>>] = secrets[<<n, z>>]
      BY <2>1, <3>2, <3>3 DEF TypeOK, ClusterTypes
    <3> QED
      BY <3>1, <3>4
  <2> QED
    BY <2>1, <2>3 DEF RemovedSoFar
<1>9. CASE FinishNamespace
  BY <1>9 DEF FinishNamespace, RemovedSoFar, server
<1>10. ASSUME NEW k \in Keys, DeleteGeneratedSecret(k) PROVE RemovedSoFar'
  <2>1. /\ pc = "generated" /\ UNCHANGED <<pc, cur, obj, gen, list, failed>>
        /\ secrets' = [secrets EXCEPT ![k] = NoSecret]
    BY <1>10 DEF DeleteGeneratedSecret, Put
  <2>2. NoSecret.owner # cur
    BY <1>1, <2>1, NoneAssumption DEF NoSecret
  <2>3. ASSUME NEW n \in obj.prov \ (list \cup failed), NEW z \in Configured(gen)
        PROVE  secrets'[<<n, z>>].owner # cur
    <3>1. secrets[<<n, z>>].owner # cur
      BY <2>1, <2>3 DEF RemovedSoFar
    <3>2. <<n, z>> \in Keys
      BY <2>3, KeyType, ConfiguredType DEF TypeOK, LocalTypes, Rotator
    <3>3. secrets'[<<n, z>>] \in {NoSecret, secrets[<<n, z>>]}
      BY <2>1, <3>2 DEF TypeOK, ClusterTypes
    <3> QED
      BY <2>2, <3>1, <3>3
  <2> QED
    BY <2>1, <2>3 DEF RemovedSoFar
<1>11. CASE pc = "idle" /\ UNCHANGED pc
  BY <1>11 DEF RemovedSoFar
<1>12. CASE UNCHANGED <<secrets, local>>
  BY <1>12 DEF RemovedSoFar, local
<1>13. CASE OperatorStep
  BY <1>13, <1>2, <1>4, <1>5, <1>6, <1>7, <1>8, <1>9, <1>10
  DEF OperatorStep, HandlingTokenFails, DeleteGeneratedSecretFails, UpdateStatus, UpdateStatusFails
<1>14. CASE pc = "idle"
  BY <1>3, <1>11, <1>13, <1>14, <1>2
  DEF Next, Environment, Sync, ValidateObjectSpecFails, Crash, UserDelete, UserCreate, Relabel,
      HandlingNamespaceEvents, Reconfigure, SyncSecrets, SyncRotator, vars, local
<1> QED
  BY <1>1, <1>2, <1>12, <1>13, <1>14, UserStepsIdle
  DEF Crash, HandlingNamespaceEvents, Sync, SyncSecrets, SyncRotator, vars, server

LEMMA NextCheckedNames ==
    ASSUME Lag = FALSE, Interleave = FALSE, NamesAreUnique, OwnershipInv, [Next]_vars
    PROVE  CheckedNames'
<1> USE DEF OwnershipInv
<1>1. TypeOK /\ (pc # "idle" => cur \in Rotators)
  BY DEF TypeOK, LocalTypes
<1>2. CASE pc' \notin {"token", "write"}
  BY <1>2 DEF CheckedNames
<1>3. ASSUME NEW n \in Namespaces, CheckExisting(n) PROVE CheckedNames'
  <2>1. /\ pc # "idle" /\ n \in todo /\ ns' = n
        /\ UNCHANGED <<secrets, cur, list>>
        /\ \E unread : names' = Configured(gen) \ Skipped(n, unread)
    BY <1>3 DEF CheckExisting, server
  <2>2. n \in list
    BY <2>1 DEF TypeOK, LocalTypes
  <2>3. ASSUME NEW s \in names' PROVE secrets[<<n, s>>].owner \in {None, cur}
    <3>1. ~Exists(cache[<<n, s>>]) \/ IsSecretOwnedBy(cache[<<n, s>>], cur)
      BY <2>1, <2>3 DEF Skipped
    <3>2. IsSecretOwnedBy(cache[<<n, s>>], cur) <=> cache[<<n, s>>].owner = cur
      BY <1>1, <2>1, OwnedByName
    <3> QED
      BY <3>1, <3>2 DEF Exists, Coherent
  <2> QED
    BY <2>1, <2>2, <2>3 DEF CheckedNames
<1>4. CASE HandlingToken
  BY <1>4 DEF HandlingToken, CheckedNames, server
<1>5. ASSUME NEW s \in Names, CreateOrUpdateSecrets(s) \/ CreateOrUpdateSecretsFails(s)
      PROVE  CheckedNames'
  <2>1. /\ pc = "write" /\ names' = names \ {s} /\ UNCHANGED <<pc, cur, list, ns>>
        /\ UNCHANGED secrets \/ \E x : secrets' = [secrets EXCEPT ![<<ns, s>>] = x]
    BY <1>5 DEF CreateOrUpdateSecrets, CreateOrUpdateSecretsFails, Write, Put
  <2>2. ASSUME NEW z \in names' PROVE secrets'[<<ns, z>>] = secrets[<<ns, z>>]
    <3>1. <<ns, z>> \in Keys /\ <<ns, z>> # <<ns, s>>
      BY <2>1, <2>2, KeyType, ConfiguredType DEF TypeOK, LocalTypes
    <3> QED
      BY <2>1, <3>1 DEF TypeOK, ClusterTypes
  <2> QED
    BY <2>1, <2>2 DEF CheckedNames
<1>6. CASE pc # "idle" /\ UNCHANGED <<secrets, local>>
  BY <1>6 DEF CheckedNames, local
<1>7. CASE OperatorStep
  BY <1>2, <1>3, <1>4, <1>5, <1>7
  DEF OperatorStep, DeferPatch, DeleteSecret, DeleteSecretFails, HandlingTokenFails, FinishNamespace,
      DeleteGeneratedSecret, DeleteGeneratedSecretFails, UpdateStatus, UpdateStatusFails, Return
<1>8. CASE pc = "idle"
  BY <1>2, <1>7, <1>8
  DEF Next, Environment, Sync, ValidateObjectSpec, ValidateObjectSpecFails, Crash, UserDelete,
      UserCreate, Relabel, HandlingNamespaceEvents, Reconfigure, SyncSecrets, SyncRotator, vars, local
<1> QED
  BY <1>1, <1>2, <1>6, <1>7, <1>8, UserStepsIdle
  DEF Crash, Return, HandlingNamespaceEvents, Sync, SyncSecrets, SyncRotator, vars, server

LEMMA NextOwnershipInv ==
    ASSUME Lag = FALSE, Interleave = FALSE, NamesAreUnique, OwnershipInv, [Next]_vars
    PROVE  OwnershipInv'
  BY NextClusterTypes, NextLocalTypes, NextCoherent, NextRemovedSoFar, NextCheckedNames
  DEF OwnershipInv, TypeOK

LEMMA InitOwnershipInv == Init => OwnershipInv
  BY InitTypeOK DEF Init, OwnershipInv, Coherent, RemovedSoFar, CheckedNames

LEMMA OwnershipStep ==
    ASSUME NamesAreUnique, OwnershipInv, [Next]_vars, NEW k \in Keys,
           OperatorWrites(k) \/ (pc = "outdated" /\ OperatorDeletes(k))
    PROVE  secrets[k].owner \in {None, cur}
<1> USE DEF OwnershipInv
<1>1. CASE OperatorWrites(k)
  <2>1. secrets'[k].token # None /\ secrets'[k].token # secrets[k].token
    BY <1>1 DEF OperatorWrites
  <2>2. secrets \in [Keys -> Secret]
    BY DEF TypeOK, ClusterTypes
  <2>3. ASSUME NEW j \in Keys, NEW x, Put(j, x), x.token = None PROVE FALSE
    BY <2>1, <2>2, <2>3 DEF Put
  <2>4. pc = "write" /\ \E s \in names : Write(s)
    BY <2>1, <2>3, SecretSteps DEF NoSecret
  <2>5. PICK s \in names : Write(s)
    BY <2>4
  <2>6. k = <<ns, s>>
    BY <2>1, <2>2, <2>5 DEF Write, Put
  <2> QED
    BY <2>4, <2>6 DEF CheckedNames
<1>2. CASE pc = "outdated" /\ OperatorDeletes(k)
  <2>1. k \in dels /\ k \notin dels' /\ Exists(secrets[k]) /\ ~Exists(secrets'[k]) /\ pc = "outdated"
    BY <1>2 DEF OperatorDeletes
  <2>2. ASSUME NEW j \in Keys, DeleteSecret(j) \/ DeleteSecretFails(j)
        PROVE  IsSecretOwnedBy(cache[k], cur)
    <3>1. j = k
      BY <2>1, <2>2 DEF DeleteSecret, DeleteSecretFails
    <3>2. ~UNCHANGED secrets
      BY <2>1
    <3> QED
      BY <2>2, <3>1, <3>2 DEF DeleteSecret, DeleteSecretFails
  <2>3. UNCHANGED dels => k \in dels'
    BY <2>1
  <2>4. UNCHANGED secrets => Exists(secrets'[k])
    BY <2>1
  <2>5. IsSecretOwnedBy(cache[k], cur)
    BY <2>1, <2>2, <2>3, <2>4
    DEF Next, OperatorStep, Environment, Sync, ValidateObjectSpec, ValidateObjectSpecFails,
        DeferPatch, CheckExisting, HandlingToken, HandlingTokenFails, CreateOrUpdateSecrets,
        CreateOrUpdateSecretsFails, FinishNamespace, DeleteGeneratedSecret,
        DeleteGeneratedSecretFails, UpdateStatus, UpdateStatusFails, CycleDone, Crash, UserDelete,
        UserCreate, Relabel, HandlingNamespaceEvents, Reconfigure, SyncSecrets, SyncRotator,
        vars, server, caches, local
  <2>6. cur \in Rotators
    BY <2>1 DEF TypeOK, LocalTypes
  <2> QED
    BY <2>5, <2>6, OwnedByName DEF Coherent
<1> QED
  BY <1>1, <1>2

(* With coherent caches, users who stay out of a cycle and SecretRotators   *)
(* with different names, no write and no deletion in an unselected          *)
(* namespace ever hits a secret of somebody else.                           *)
THEOREM Ownership ==
    ASSUME Lag = FALSE, Interleave = FALSE, NamesAreUnique
    PROVE  Spec => OwnSecretsOnly
<1>1. OwnershipInv /\ [Next]_vars =>
          [\A k \in Keys : OperatorWrites(k) \/ (pc = "outdated" /\ OperatorDeletes(k)) =>
              secrets[k].owner \in {None, cur}]_vars
  BY OwnershipStep
<1> QED
  BY <1>1, InitOwnershipInv, NextOwnershipInv, PTL DEF Spec, OwnSecretsOnly

(* Under the same assumptions a namespace that is forgotten because the     *)
(* selector no longer matches it, and is not reported as failed, has none   *)
(* of this SecretRotator's configured secrets left.                         *)
THEOREM CleanupIsReported ==
    ASSUME Lag = FALSE, Interleave = FALSE, NamesAreUnique
    PROVE  Spec => []CleanupReported
<1>1. OwnershipInv => CleanupReported
  BY DEF OwnershipInv, RemovedSoFar, CleanupReported, CycleDone
<1> QED
  BY <1>1, InitOwnershipInv, NextOwnershipInv, PTL DEF Spec

=============================================================================
