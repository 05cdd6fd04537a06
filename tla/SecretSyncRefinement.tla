------------------------ MODULE SecretSyncRefinement ------------------------
(***************************************************************************)
(* SecretSync implements RotationContract, for every set of SecretRotators,*)
(* namespaces, names, types and tokens and every number of disturbances,   *)
(* when caches are coherent, users stay out of a cycle and names are       *)
(* unique.  Each call to the API server that changes something is one step *)
(* of the contract, and everything else a stuttering step.                 *)
(***************************************************************************)
EXTENDS SecretSyncCycleProofs

-----------------------------------------------------------------------------
(* The invariant: those of the other theorems, and a worker that is idle    *)
(* serves nobody.                                                           *)

IdleIsFree == pc = "idle" => cur = None

RefinementInv == RotationInv /\ OwnershipInv /\ DeleteInv /\ IdleIsFree

LEMMA InitRefinementInv == Init => RefinementInv
  BY InitRotationInv, InitOwnershipInv, InitDeleteInv DEF Init, RefinementInv, IdleIsFree

LEMMA NextIdleIsFree ==
    ASSUME IdleIsFree, [Next]_vars
    PROVE  IdleIsFree'
  BY DEF IdleIsFree, Next, OperatorStep, Environment, Sync, ValidateObjectSpec,
         ValidateObjectSpecFails, DeferPatch, DeleteSecret, DeleteSecretFails, CheckExisting,
         AfterCheck, HandlingToken, HandlingTokenFails, CreateOrUpdateSecrets,
         CreateOrUpdateSecretsFails, FinishNamespace, DeleteGeneratedSecret,
         DeleteGeneratedSecretFails, UpdateStatus, UpdateStatusFails, Return, Crash, UserDelete,
         UserCreate, Relabel, HandlingNamespaceEvents, Reconfigure, SyncSecrets, SyncRotator,
         vars, server, caches, local

LEMMA NextRefinementInv ==
    ASSUME Lag = FALSE, Interleave = FALSE, NamesAreUnique, RefinementInv, [Next]_vars
    PROVE  RefinementInv'
  BY NextRotationInv, NextOwnershipInv, NextDeleteInv, NextIdleIsFree DEF RefinementInv

-----------------------------------------------------------------------------
(* The refinement mapping. *)

LEMMA NothingClaimed == KeysOf(NothingManaged) = {}
  BY KeyType DEF KeysOf, NothingManaged

LEMMA ReturnEnds == Return => cur' = None /\ tok' = None /\ KeysOf(managed') = {}
  BY NothingClaimed DEF Return

LEMMA InitContract == Init => Contract!Init
<1> SUFFICES ASSUME Init PROVE Contract!Init
  OBVIOUS
<1>1. KeysOf(managed) = {}
  BY NothingClaimed DEF Init
<1>2. \A r \in Rotators : robj[r].managed = NothingManaged
  BY DEF Init, NewRotator
<1>3. [r \in Rotators |-> KeysOf(robj[r].managed)] = [r \in Rotators |-> {}]
  BY <1>2, NothingClaimed
<1> QED
  BY <1>1, <1>3 DEF Init, Contract!Init, Contract!NoSecret, NoSecret

(* Steps that change nothing the contract speaks of. *)
LEMMA StutterStep ==
    ASSUME UNCHANGED <<secrets, cur, tok, managed, wrote, robj>>
    PROVE  UNCHANGED Contract!vars
  BY DEF Contract!vars

LEMMA ClaimsKept ==
    ASSUME TypeOK, NEW r \in Rotators, NEW o \in Rotator, PutRotator(r, o), o.managed = robj[r].managed
    PROVE  [q \in Rotators |-> KeysOf(robj'[q].managed)] = [q \in Rotators |-> KeysOf(robj[q].managed)]
<1>1. \A q \in Rotators : robj'[q].managed = robj[q].managed
  BY DEF PutRotator, TypeOK, ClusterTypes
<1> QED
  BY <1>1

LEMMA BeginStep ==
    ASSUME RefinementInv, NEW r \in Rotators, ValidateObjectSpec(r)
    PROVE  Contract!Begin(r)
<1>1. /\ pc = "idle" /\ cur' = r
      /\ UNCHANGED <<secrets, tok, managed, wrote, robj>>
  BY DEF ValidateObjectSpec, server
<1>2. cur = None
  BY <1>1 DEF RefinementInv, IdleIsFree
<1> QED
  BY <1>1, <1>2 DEF Contract!Begin

LEMMA MintStep ==
    ASSUME RefinementInv, HandlingToken
    PROVE  Contract!Mint
<1>1. /\ pc = "token" /\ tok' \in Tokens \ InUse
      /\ UNCHANGED <<secrets, cur, managed, wrote, robj>>
  BY DEF HandlingToken, server
<1>2. tok = None /\ cur # None
  BY <1>1, NoneAssumption DEF RefinementInv, RotationInv, VisitedSoFar, NothingYet, TypeOK, LocalTypes
<1>3. tok' \in Tokens \ {secrets[k].token : k \in Keys}
  BY <1>1 DEF InUse
<1> QED
  BY <1>1, <1>2, <1>3 DEF Contract!Mint

LEMMA RotateStep ==
    ASSUME RefinementInv, pc = "write", NEW s \in names, Write(s),
           UNCHANGED <<cur, tok, robj>>,
           managed' \in {managed, [managed EXCEPT ![ns] = @ \cup {s}]}
    PROVE  Contract!Rotate(<<ns, s>>)
<1> DEFINE k == <<ns, s>>
<1>1. TypeOK /\ Coherent /\ secrets[k].owner \in {None, cur}
  BY DEF RefinementInv, OwnershipInv, CheckedNames
<1>2. k \in Keys /\ s \in Names /\ gen[s] \in Types /\ tok \in Tokens /\ cur \in Rotators
  BY <1>1, DesiredType, ConfiguredType DEF TypeOK, LocalTypes, Configured, Generated
<1>3. tok # None /\ cur # None
  BY <1>2, NoneAssumption
<1>4. cache[k] = secrets[k] /\ secrets[k] \in Secret
  BY <1>1, <1>2 DEF Coherent, TypeOK, ClusterTypes
<1>5. Desired(s) = [owner |-> cur, type |-> gen[s], token |-> tok]
  BY <1>1, <1>4 DEF Desired, Exists, Secret
<1>6. secrets' = [secrets EXCEPT ![k] = [owner |-> cur, type |-> gen[s], token |-> tok]]
  BY <1>5 DEF Write, Put
<1>7. wrote' = [wrote EXCEPT ![cur] = @ \cup {k}]
  BY DEF Write
<1>8. KeysOf(managed') \in {KeysOf(managed), KeysOf(managed) \cup {k}}
  <2>1. CASE managed' = managed
    BY <2>1
  <2>2. CASE managed' = [managed EXCEPT ![ns] = @ \cup {s}]
    <3>1. \A j \in Keys : j[2] \in managed'[j[1]] <=> j[2] \in managed[j[1]] \/ j = k
      BY <1>1, <1>2, <2>2, KeyType DEF TypeOK, LocalTypes, Managed
    <3> QED
      BY <1>2, <3>1 DEF KeysOf
  <2> QED
    BY <2>1, <2>2
<1> QED
  BY <1>1, <1>2, <1>3, <1>6, <1>7, <1>8 DEF Contract!Rotate

(* What a cycle deletes may be removed. *)
LEMMA OutdatedRemovable ==
    ASSUME NamesAreUnique, RefinementInv, pc = "outdated", NEW k \in Keys, IsSecretOwnedBy(cache[k], cur)
    PROVE  k \in Contract!Removable
<1>1. cur \in Rotators
  BY DEF RefinementInv, RotationInv, TypeOK, LocalTypes
<1>2. cache[k].owner = cur
  BY <1>1, OwnedByName
<1>3. k \in wrote[cur]
  BY <1>1, <1>2 DEF RefinementInv, DeleteInv, OwnedWasWritten
<1>4. KeysOf(managed) = {}
  BY NothingClaimed DEF RefinementInv, RotationInv, VisitedSoFar, NothingYet
<1> QED
  BY <1>3, <1>4 DEF Contract!Removable

LEMMA GeneratedRemovable ==
    ASSUME RefinementInv, pc = "generated", NEW k \in dels
    PROVE  k \in Contract!Removable
<1>1. k \in wrote[cur]
  BY DEF RefinementInv, DeleteInv, CycleWasWritten
<1>2. k \notin KeysOf(managed)
  BY DEF RefinementInv, RotationInv, DeletesNothingManaged, KeysOf
<1> QED
  BY <1>1, <1>2 DEF Contract!Removable

LEMMA RemoveStep ==
    ASSUME RefinementInv, pc # "idle", NEW k \in Keys, k \in Contract!Removable, Put(k, NoSecret),
           UNCHANGED <<cur, tok, managed, wrote, robj>>
    PROVE  Contract!Remove(k)
<1>1. cur # None
  BY NoneAssumption DEF RefinementInv, RotationInv, TypeOK, LocalTypes
<1>2. secrets' = Contract!Without(k)
  BY DEF Put, Contract!Without, Contract!NoSecret, NoSecret
<1> QED
  BY <1>1, <1>2 DEF Contract!Remove

LEMMA AbortStep ==
    ASSUME RefinementInv, pc # "idle", Return, UNCHANGED <<wrote, robj>>,
           UNCHANGED secrets \/ \E k \in Contract!Removable : Put(k, NoSecret)
    PROVE  Contract!Abort
<1>1. cur # None
  BY NoneAssumption DEF RefinementInv, RotationInv, TypeOK, LocalTypes
<1>2. secrets' \in {secrets} \cup {Contract!Without(k) : k \in Contract!Removable}
  BY DEF Put, Contract!Without, Contract!NoSecret, NoSecret
<1> QED
  BY <1>1, <1>2, ReturnEnds DEF Contract!Abort, Contract!End

LEMMA PublishStep ==
    ASSUME RefinementInv, CycleDone, PutRotator(cur, NewStatus), Return, UNCHANGED <<secrets, wrote>>
    PROVE  Contract!Publish
<1>1. TypeOK /\ cur \in Rotators /\ cur # None
  BY NoneAssumption DEF RefinementInv, RotationInv, TypeOK, LocalTypes, CycleDone
<1>2. NewStatus.managed = managed
  BY <1>1 DEF NewStatus, TypeOK, LocalTypes, Rotator
<1>3. \A r \in Rotators : robj'[r].managed = IF r = cur THEN managed ELSE robj[r].managed
  BY <1>1, <1>2 DEF PutRotator, TypeOK, ClusterTypes
<1>4. [r \in Rotators |-> KeysOf(robj'[r].managed)]
        = [[r \in Rotators |-> KeysOf(robj[r].managed)] EXCEPT ![cur] = KeysOf(managed)]
  BY <1>1, <1>3
<1> QED
  BY <1>1, <1>4, ReturnEnds DEF Contract!Publish, Contract!End

LEMMA EditStep ==
    ASSUME RefinementInv, pc = "idle", NEW k \in Keys, UNCHANGED <<cur, tok, managed, wrote, robj>>,
           Put(k, NoSecret) \/ \E t \in Types : Put(k, [owner |-> User, type |-> t, token |-> None])
    PROVE  Contract!Edit(k)
<1>1. cur = None
  BY DEF RefinementInv, IdleIsFree
<1> QED
  BY <1>1 DEF Put, Contract!Edit, Contract!Without, Contract!NoSecret, NoSecret

-----------------------------------------------------------------------------
LEMMA OperatorContract ==
    ASSUME NamesAreUnique, RefinementInv, OperatorStep
    PROVE  Contract!Next \/ UNCHANGED Contract!vars
<1> DEFINE Goal == Contract!Next \/ UNCHANGED Contract!vars
<1>1. CASE DeferPatch
  BY <1>1, StutterStep DEF DeferPatch, server
<1>2. ASSUME NEW k \in Keys, DeleteSecret(k) \/ DeleteSecretFails(k) PROVE Goal
  <2>1. pc = "outdated" /\ UNCHANGED <<cur, tok, managed, wrote, robj>>
    BY <1>2 DEF DeleteSecret, DeleteSecretFails
  <2>2. UNCHANGED secrets \/ (IsSecretOwnedBy(cache[k], cur) /\ Put(k, NoSecret))
    BY <1>2 DEF DeleteSecret, DeleteSecretFails
  <2>3. CASE UNCHANGED secrets
    BY <2>1, <2>3, StutterStep
  <2>4. CASE IsSecretOwnedBy(cache[k], cur) /\ Put(k, NoSecret)
    BY <2>1, <2>4, OutdatedRemovable, RemoveStep DEF Contract!Next
  <2> QED
    BY <2>2, <2>3, <2>4
<1>3. ASSUME NEW n \in Namespaces, CheckExisting(n) PROVE Goal
  BY <1>3, StutterStep DEF CheckExisting, server
<1>4. CASE HandlingToken
  BY <1>4, MintStep DEF Contract!Next
<1>5. CASE HandlingTokenFails
  BY <1>5, AbortStep DEF HandlingTokenFails, server, Contract!Next
<1>6. ASSUME NEW s \in Names, CreateOrUpdateSecrets(s) \/ CreateOrUpdateSecretsFails(s) PROVE Goal
  <2>1. /\ pc = "write" /\ s \in names /\ UNCHANGED <<cur, tok, robj>>
        /\ \/ Write(s) /\ managed' \in {managed, [managed EXCEPT ![ns] = @ \cup {s}]}
           \/ UNCHANGED <<secrets, wrote, managed>>
    BY <1>6 DEF CreateOrUpdateSecrets, CreateOrUpdateSecretsFails
  <2>2. CASE UNCHANGED <<secrets, wrote, managed>>
    BY <2>1, <2>2, StutterStep
  <2>3. CASE Write(s) /\ managed' \in {managed, [managed EXCEPT ![ns] = @ \cup {s}]}
    <3>1. Contract!Rotate(<<ns, s>>)
      BY <2>1, <2>3, RotateStep
    <3>2. <<ns, s>> \in Keys
      BY <2>1, DesiredType DEF RefinementInv, RotationInv
    <3> QED
      BY <3>1, <3>2 DEF Contract!Next
  <2> QED
    BY <2>1, <2>2, <2>3
<1>7. CASE FinishNamespace
  BY <1>7, StutterStep DEF FinishNamespace, server
<1>8. ASSUME NEW k \in Keys, DeleteGeneratedSecret(k) PROVE Goal
  <2>1. /\ pc = "generated" /\ k \in dels /\ Put(k, NoSecret)
        /\ UNCHANGED <<cur, tok, managed, wrote, robj>>
    BY <1>8 DEF DeleteGeneratedSecret
  <2> QED
    BY <2>1, GeneratedRemovable, RemoveStep DEF Contract!Next
<1>9. ASSUME NEW k \in Keys, DeleteGeneratedSecretFails(k) PROVE Goal
  <2>1. /\ pc = "generated" /\ k \in dels /\ Return /\ UNCHANGED <<wrote, robj>>
        /\ UNCHANGED secrets \/ Put(k, NoSecret)
    BY <1>9 DEF DeleteGeneratedSecretFails
  <2> QED
    BY <2>1, GeneratedRemovable, AbortStep DEF Contract!Next
<1>10. CASE UpdateStatus
  BY <1>10, PublishStep DEF UpdateStatus, Contract!Next
<1>11. CASE UpdateStatusFails
  <2>1. /\ CycleDone /\ Return /\ UNCHANGED <<secrets, wrote>>
        /\ UNCHANGED robj \/ PutRotator(cur, NewStatus)
    BY <1>11 DEF UpdateStatusFails
  <2>2. pc # "idle"
    BY <2>1 DEF CycleDone
  <2> QED
    BY <2>1, <2>2, PublishStep, AbortStep DEF Contract!Next
<1> QED
  BY <1>1, <1>2, <1>3, <1>4, <1>5, <1>6, <1>7, <1>8, <1>9, <1>10, <1>11 DEF OperatorStep

LEMMA EnvironmentContract ==
    ASSUME Interleave = FALSE, RefinementInv, Environment
    PROVE  Contract!Next \/ UNCHANGED Contract!vars
<1> DEFINE Goal == Contract!Next \/ UNCHANGED Contract!vars
<1>1. TypeOK
  BY DEF RefinementInv, RotationInv
<1>2. CASE Crash
  BY <1>2, AbortStep DEF Crash, Contract!Next
<1>3. ASSUME NEW k \in Keys, UserDelete(k) \/ \E t \in Types : UserCreate(k, t) PROVE Goal
  <2>1. /\ pc = "idle" /\ UNCHANGED <<cur, tok, managed, wrote, robj>>
        /\ Put(k, NoSecret) \/ \E t \in Types : Put(k, [owner |-> User, type |-> t, token |-> None])
    BY <1>3 DEF UserDelete, UserCreate, UsersMayAct, local
  <2> QED
    BY <2>1, EditStep DEF Contract!Next
<1>4. ASSUME NEW r \in Rotators, NEW m, Relabel(r, m) PROVE Goal
  BY <1>4, StutterStep DEF Relabel, local
<1>5. ASSUME NEW r \in Rotators, NEW o \in Rotator, PutRotator(r, o), o.managed = robj[r].managed,
             UNCHANGED <<secrets, cur, tok, managed, wrote>>
      PROVE  UNCHANGED Contract!vars
  BY <1>1, <1>5, ClaimsKept DEF Contract!vars
<1>6. ASSUME NEW r \in Rotators, HandlingNamespaceEvents(r) PROVE Goal
  <2> DEFINE o == [robj[r] EXCEPT !.uid = @ + 1]
  <2>1. robj[r] \in Rotator /\ robj[r].uid + 1 \in Nat
    BY <1>1 DEF TypeOK, ClusterTypes, Rotator
  <2>2. o \in Rotator /\ o.managed = robj[r].managed
    BY <2>1 DEF Rotator
  <2>3. UNCHANGED <<secrets, cur, tok, managed, wrote>> /\ (UNCHANGED robj \/ PutRotator(r, o))
    BY <1>6 DEF HandlingNamespaceEvents, local
  <2> QED
    BY <1>5, <2>2, <2>3, StutterStep
<1>7. ASSUME NEW r \in Rotators, NEW g \in Generated, Reconfigure(r, g) PROVE Goal
  <2> DEFINE o == [robj[r] EXCEPT !.gen = g]
  <2>1. o \in Rotator /\ o.managed = robj[r].managed
    BY <1>1 DEF TypeOK, ClusterTypes, Rotator
  <2>2. UNCHANGED <<secrets, cur, tok, managed, wrote>> /\ PutRotator(r, o)
    BY <1>7 DEF Reconfigure, local
  <2> QED
    BY <1>5, <2>1, <2>2
<1> QED
  BY <1>2, <1>3, <1>4, <1>6, <1>7 DEF Environment

(* With coherent caches, users who stay out of a cycle and SecretRotators   *)
(* with different names, the cycles of ManagingSecrets and UpdateStatus,    *)
(* with all their failures, lost answers, conflicts and restarts, implement *)
(* the contract of a rotation.                                              *)
THEOREM Refinement ==
    ASSUME Lag = FALSE, Interleave = FALSE, NamesAreUnique
    PROVE  Spec => HonoursContract
<1>1. RefinementInv /\ [Next]_vars => [Contract!Next]_(Contract!vars)
  <2> SUFFICES ASSUME RefinementInv, [Next]_vars
               PROVE  Contract!Next \/ UNCHANGED Contract!vars
    OBVIOUS
  <2>1. ASSUME NEW r \in Rotators, ValidateObjectSpec(r) PROVE Contract!Next
    BY <2>1, BeginStep DEF Contract!Next
  <2>2. CASE OperatorStep
    BY <2>2, OperatorContract
  <2>3. CASE Environment
    BY <2>3, EnvironmentContract
  <2>4. CASE UNCHANGED <<secrets, robj, local, wrote>>
    BY <2>4, StutterStep DEF local
  <2> QED
    BY <2>1, <2>2, <2>3, <2>4
    DEF Next, ValidateObjectSpecFails, Sync, SyncSecrets, SyncRotator, vars, server
<1> QED
  BY <1>1, InitContract, InitRefinementInv, NextRefinementInv, PTL
  DEF Spec, HonoursContract, Contract!Spec

=============================================================================
