------------------------ MODULE ClaimResourceProofs ------------------------
(***************************************************************************)
(* Theorems about what the BucketClaim controller makes on MinIO and takes *)
(* away again, for every set of claims, classes, names, keys and specs and *)
(* all bounds.                                                             *)
(*                                                                         *)
(* These hold under conditions: OwnKeys, OwnBuckets and Apart say that     *)
(* claims do not get in each other's way, ClassesUp and PolicyKept that    *)
(* administrators do not take from under a claim what its deletion needs,  *)
(* NamesMeet that a claim is finalized by the name it was provided by, and *)
(* the disturbances "secret" and "revokeFault" are left out where the code *)
(* does not make them good.  The last section derives the conditions that  *)
(* speak of passes from what users and administrators write.               *)
(***************************************************************************)
EXTENDS RefinementProofs

USE DEF claimVars, secretVars, minioVars, workerVars
-----------------------------------------------------------------------------
(* Which steps write what.                                                 *)

LEMMA UserWriters ==
    ASSUME Next
    PROVE  \/ user' = user
           \/ pc = "addUser" /\ user' = [user EXCEPT ![cred.id].secret = cred.secret]
           \/ pc = "setPolicy" /\ user' = [user EXCEPT ![cred.id].policy = ThePolicy]
           \/ pc = "removeUser" /\ user' = [user EXCEPT ![cred.id] = NoUser]
  BY DEF Next, WorkerStep, Start, Environment, Background, Skip,
         GetClassFails, ForeignDriver, ProviderFails, BeginProvisioning, CreateBucket,
         SetBucketQuota, SetBucketLifecycle, SetBucketReplication, AddUser, AddCannedPolicy,
         SetPolicy, UpdateStatus, ReconcileSecret, EnsureCosiBucket, FinalizeResolve,
         RemoveUser, RemoveCannedPolicy, DeleteBucket, RemoveFinalizer, ReconcileNothing,
         ReconcileDeletion, ReconcileProvision, CreateClaim, EditClaim, DeleteClaim,
         EditSecret, EditClass, Crash, SyncClaim, SyncSecret, CollectSecret, Resync

LEMMA PolicyWriters ==
    ASSUME Next
    PROVE  \/ policy' = policy
           \/ pc = "addPolicy" /\ policy' = [policy EXCEPT ![ThePolicy] = loc.spec.accessType]
           \/ pc = "removePolicy" /\ policy' = [policy EXCEPT ![<<DoomedName, cur>>] = "absent"]
  BY DEF Next, WorkerStep, Start, Environment, Background, Skip,
         GetClassFails, ForeignDriver, ProviderFails, BeginProvisioning, CreateBucket,
         SetBucketQuota, SetBucketLifecycle, SetBucketReplication, AddUser, AddCannedPolicy,
         SetPolicy, UpdateStatus, ReconcileSecret, EnsureCosiBucket, FinalizeResolve,
         RemoveUser, RemoveCannedPolicy, DeleteBucket, RemoveFinalizer, ReconcileNothing,
         ReconcileDeletion, ReconcileProvision, CreateClaim, EditClaim, DeleteClaim,
         EditSecret, EditClass, Crash, SyncClaim, SyncSecret, CollectSecret, Resync

(* Of a bucket's state only its existence matters here.                    *)
LEMMA BucketWriters ==
    ASSUME TypeOK, InHand, Next
    PROVE  \/ \A n \in Names : bucket'[n].exists = bucket[n].exists
           \/ /\ pc = "createBucket" /\ TheBucket \in Names
              /\ bucket'[TheBucket].exists
              /\ \A n \in Names : n # TheBucket => bucket'[n].exists = bucket[n].exists
           \/ /\ pc = "deleteBucket" /\ DoomedName \in Names
              /\ ~bucket'[DoomedName].exists
              /\ \A n \in Names : n # DoomedName => bucket'[n].exists = bucket[n].exists
  <1>0. bucket \in [Names -> BucketState]  BY DEF TypeOK, MinioOK
  <1>1. CASE bucket' = bucket  BY <1>1
  <1>2. pc \in {"createBucket", "setQuota", "setLifecycle", "setReplication", "deleteBucket"}
        => TheBucket \in Names /\ DoomedName \in Names
    BY InHandTypes DEF NeedsClass, ProvisionSteps, Calls
  <1>3. \/ bucket' = bucket
        \/ pc = "createBucket" /\ bucket' = [bucket EXCEPT ![TheBucket].exists = TRUE]
        \/ pc = "setQuota" /\ bucket' = [bucket EXCEPT ![TheBucket].quota = loc.spec.quota]
        \/ pc = "setLifecycle" /\ bucket' = [bucket EXCEPT ![TheBucket].rules = loc.spec.rules]
        \/ pc = "setReplication" /\ bucket' = [bucket EXCEPT ![TheBucket].replicate = TRUE]
        \/ pc = "deleteBucket" /\ bucket' = [bucket EXCEPT ![DoomedName] = NoBucket]
    BY DEF Next, WorkerStep, Start, Environment, Background, Skip,
           GetClassFails, ForeignDriver, ProviderFails, BeginProvisioning, CreateBucket,
           SetBucketQuota, SetBucketLifecycle, SetBucketReplication, AddUser, AddCannedPolicy,
           SetPolicy, UpdateStatus, ReconcileSecret, EnsureCosiBucket, FinalizeResolve,
           RemoveUser, RemoveCannedPolicy, DeleteBucket, RemoveFinalizer, ReconcileNothing,
           ReconcileDeletion, ReconcileProvision, CreateClaim, EditClaim, DeleteClaim,
           EditSecret, EditClass, Crash, SyncClaim, SyncSecret, CollectSecret, Resync
  <1>4. CASE pc = "createBucket" /\ bucket' = [bucket EXCEPT ![TheBucket].exists = TRUE]
    BY <1>0, <1>2, <1>4 DEF BucketState
  <1>5. CASE pc = "setQuota" /\ bucket' = [bucket EXCEPT ![TheBucket].quota = loc.spec.quota]
    BY <1>0, <1>2, <1>5 DEF BucketState
  <1>6. CASE pc = "setLifecycle" /\ bucket' = [bucket EXCEPT ![TheBucket].rules = loc.spec.rules]
    BY <1>0, <1>2, <1>6 DEF BucketState
  <1>7. CASE pc = "setReplication" /\ bucket' = [bucket EXCEPT ![TheBucket].replicate = TRUE]
    BY <1>0, <1>2, <1>7 DEF BucketState
  <1>8. CASE pc = "deleteBucket" /\ bucket' = [bucket EXCEPT ![DoomedName] = NoBucket]
    BY <1>0, <1>2, <1>8 DEF NoBucket
  <1> QED  BY <1>1, <1>3, <1>4, <1>5, <1>6, <1>7, <1>8

TheSecret == [cred |-> cred, bucket |-> TheBucket, owner |-> loc.uid]

LEMMA SecretWriters ==
    ASSUME TypeOK, Next, "secret" \notin Disturbances
    PROVE  \/ secret' = secret
           \/ pc = "writeSecret" /\ secret' = [secret EXCEPT ![cur] = TheSecret]
           \/ \E c \in Claims : /\ ~(claim[c] # None /\ claim[c].uid = secret[c].owner)
                                /\ secret' = [secret EXCEPT ![c] = None]
  <1>1. ASSUME NEW c \in Claims, EditSecret(c) PROVE FALSE  BY <1>1 DEF EditSecret, Disturb
  <1> QED
    BY <1>1
    DEF Next, WorkerStep, Start, Environment, Background, Skip, WriteSecret, TheSecret,
        GetClassFails, ForeignDriver, ProviderFails, BeginProvisioning, CreateBucket,
        SetBucketQuota, SetBucketLifecycle, SetBucketReplication, AddUser, AddCannedPolicy,
        SetPolicy, UpdateStatus, ReconcileSecret, EnsureCosiBucket, FinalizeResolve,
        RemoveUser, RemoveCannedPolicy, DeleteBucket, RemoveFinalizer, ReconcileNothing,
        ReconcileDeletion, ReconcileProvision, CreateClaim, EditClaim, DeleteClaim,
        EditClass, Crash, SyncClaim, SyncSecret, CollectSecret, Resync

LEMMA SecretCacheWriters ==
    ASSUME TypeOK, Next
    PROVE  \/ secretCache' = secretCache
           \/ \E c \in Claims : secretCache' = [secretCache EXCEPT ![c] = secret[c]]
  BY DEF Next, WorkerStep, Start, Environment, Background, Skip,
         GetClassFails, ForeignDriver, ProviderFails, BeginProvisioning, CreateBucket,
         SetBucketQuota, SetBucketLifecycle, SetBucketReplication, AddUser, AddCannedPolicy,
         SetPolicy, UpdateStatus, ReconcileSecret, EnsureCosiBucket, FinalizeResolve,
         RemoveUser, RemoveCannedPolicy, DeleteBucket, RemoveFinalizer, ReconcileNothing,
         ReconcileDeletion, ReconcileProvision, CreateClaim, EditClaim, DeleteClaim,
         EditSecret, EditClass, Crash, SyncClaim, SyncSecret, CollectSecret, Resync

(* How a pass begins, goes on, and what each of its calls has done when it *)
(* returns.                                                                *)
Begins ==
    /\ pc = "idle" /\ cur' \in Claims /\ cache[cur'] # None
    /\ \/ /\ pc' = "finalize" /\ loc' = cache[cur'] /\ cache[cur'].deleting
          /\ cache[cur'].finalizer /\ UNCHANGED <<claim, cache>>
       \/ pc' = "getClass"

Resolves ==
    /\ cur' = cur /\ loc' = loc
    /\ \/ /\ pc = "getClass" /\ pc' = "createBucket" /\ cls' = TheClass
          /\ cred' = IF secretCache[cur] = None THEN DerivedCred(cur) ELSE secretCache[cur].cred
       \/ /\ pc = "finalize" /\ pc' = "removeUser" /\ cls' = TheClass
          /\ TheClass # None /\ TheClass.provider = "ok"
          /\ cred' = IF loc.secretRef /\ secretCache[cur] # None
                     THEN secretCache[cur].cred ELSE DerivedCred(cur)
       \/ /\ pc = "finalize" /\ pc' = "removeFinalizer" /\ UNCHANGED <<cls, cred>>
          /\ TheClass = None \/ TheClass.provider \in {"unsupported", "awsInvalid"}

Provides ==
    /\ UNCHANGED <<cur, loc, cls, cred>>
    /\ \/ pc = "createBucket" /\ pc' = "setQuota"
       \/ pc = "setQuota" /\ pc' = "setLifecycle"
       \/ pc = "setLifecycle" /\ pc' = "setReplication"
       \/ pc = "setReplication" /\ pc' = "addUser"
       \/ /\ pc = "addUser" /\ pc' = "addPolicy"
          /\ user' = [user EXCEPT ![cred.id].secret = cred.secret]
       \/ /\ pc = "addPolicy" /\ pc' = "setPolicy"
          /\ policy' = [policy EXCEPT ![ThePolicy] = loc.spec.accessType]
       \/ /\ pc = "setPolicy" /\ pc' = "writeSecret"
          /\ user' = [user EXCEPT ![cred.id].policy = ThePolicy]
       \/ /\ pc = "writeSecret" /\ pc' = "updateStatus"
          /\ secret' = [secret EXCEPT ![cur] = TheSecret]

Undoes ==
    /\ UNCHANGED <<cur, loc, cls, cred>>
    /\ \/ /\ pc = "removeUser" /\ pc' = "removePolicy"
          /\ user' = [user EXCEPT ![cred.id] = NoUser] \/ "revokeFault" \in Disturbances
       \/ pc = "removePolicy" /\ pc' = AfterRevoke(cls)
       \/ /\ pc = "deleteBucket" /\ pc' = "removeFinalizer"
          /\ bucket' = [bucket EXCEPT ![DoomedName] = NoBucket]

LEMMA PassMoves ==
    ASSUME Next
    PROVE  \/ UNCHANGED workerVars
           \/ pc' = "idle"
           \/ Begins \/ Resolves \/ Provides \/ Undoes
           \/ pc = "updateStatus" /\ pc' = "cosiBucket" /\ UNCHANGED <<cur, cls, cred>>
  <1>1. \A c \in Claims : Start(c) => UNCHANGED workerVars \/ Begins
    BY DEF Start, Take, ReconcileNothing, ReconcileDeletion, ReconcileProvision, Begins
  <1>2. CASE Environment \/ Background
    BY <1>2 DEF Environment, Background, CreateClaim, EditClaim, DeleteClaim, EditSecret,
                EditClass, Crash, SyncClaim, SyncSecret, CollectSecret, Resync, Return
  <1>3. CASE GetClassFails \/ ForeignDriver \/ ProviderFails \/ BeginProvisioning
             \/ FinalizeResolve
    BY <1>3 DEF GetClassFails, ForeignDriver, ProviderFails, BeginProvisioning,
                FinalizeResolve, Return, Goto, Resolves
  <1>4. CASE CreateBucket \/ SetBucketQuota \/ SetBucketLifecycle \/ SetBucketReplication
    BY <1>4 DEF CreateBucket, SetBucketQuota, SetBucketLifecycle, SetBucketReplication,
                CallReturns, CallFails, Skip, Return, Goto, Provides
  <1>5. CASE AddUser \/ AddCannedPolicy \/ SetPolicy
    BY <1>5 DEF AddUser, AddCannedPolicy, SetPolicy, CallReturns, CallFails, Return, Goto,
                Provides
  <1>6. CASE ReconcileSecret
    BY <1>6 DEF ReconcileSecret, SecretFailed, WriteSecret, TheSecret, Return, Goto, Provides
  <1>7. CASE UpdateStatus \/ EnsureCosiBucket \/ RemoveFinalizer
    BY <1>7 DEF UpdateStatus, EnsureCosiBucket, RemoveFinalizer, Return
  <1>8. CASE RemoveUser \/ RemoveCannedPolicy \/ DeleteBucket
    BY <1>8 DEF RemoveUser, RemoveCannedPolicy, DeleteBucket, Disturb, Return, Goto, Undoes
  <1> QED  BY <1>1, <1>2, <1>3, <1>4, <1>5, <1>6, <1>7, <1>8 DEF Next, WorkerStep

(* What becomes of a claim in one step: its status is written or not, its  *)
(* spec is edited, it comes or it goes.                                    *)
SameLife(o, p) ==
    o # None /\ p # None /\ o.uid = p.uid /\ o.deleting = p.deleting /\ o.gen = p.gen
    /\ o.spec = p.spec

Fate(c, o, p) ==
    \/ p = o
    \/ /\ c = cur /\ pc \in ProvisionSteps /\ SameLife(o, p) /\ p.finalizer = o.finalizer
       /\ ~o.deleting /\ p.phase # "Bound" /\ p.observed = o.gen
       /\ p.bucketName = o.bucketName
    \/ /\ c = cur /\ pc = "updateStatus" /\ SameLife(o, p) /\ p.finalizer = o.finalizer
       /\ p.phase = "Bound" /\ p.observed = o.gen /\ p.bucketName = TheBucket
    \/ c = cur /\ pc = "removeFinalizer" /\ o = loc /\ p = None /\ pc' = "idle"
    \/ /\ SameLife(o, p) /\ ~o.finalizer /\ p.finalizer /\ p.phase = o.phase
       /\ p.observed = o.observed /\ p.bucketName = o.bucketName /\ ~o.deleting
       /\ pc = "idle" /\ pc' = "getClass"
    \/ /\ UNCHANGED workerVars
       /\ \/ /\ o = None /\ p # None /\ p.uid = uids[c] + 1 /\ ~p.finalizer /\ ~p.deleting
             /\ p.phase # "Bound" /\ p.observed <= p.gen /\ p.bucketName = None
          \/ /\ o # None /\ p # None /\ p.uid = o.uid /\ p.gen = o.gen + 1
             /\ p.finalizer = o.finalizer /\ p.observed = o.observed /\ p.phase = o.phase
             /\ p.bucketName = o.bucketName
             /\ p.deleting = o.deleting \/ p.deleting
          \/ o # None /\ ~o.deleting /\ ~o.finalizer /\ p = None

LEMMA ClaimFates ==
    ASSUME IInv, Next, NEW c \in Claims
    PROVE  Fate(c, claim[c], claim'[c])
  <1>0. /\ TypeOK /\ Coherent /\ InHand /\ cur \in Claims
        /\ claim \in [Claims -> ClaimObject \cup {None}]
        /\ cache \in [Claims -> ClaimObject \cup {None}]
        /\ uids \in [Claims -> Nat]
    BY DEF IInv, TypeOK, WorkerOK, ClaimsOK
  <1>1. CASE claim' = claim  BY <1>1 DEF Fate
  <1>2. ASSUME NEW d \in Claims, NEW o, WriteClaim(d, o)
        PROVE  claim'[c] = IF c = d THEN o ELSE claim[c]
    BY <1>0, <1>2 DEF WriteClaim
  <1>3. CASE WorkerStep
    <2>1. CASE UpdateStatus
      <3>1. CASE cache[cur] # None /\ fresh[cur] /\ WriteClaim(cur, BoundStatus(cache[cur], TheBucket))
        <4>1. pc = "updateStatus" /\ cache[cur] = claim[cur] /\ claim[cur] \in ClaimObject
          BY <1>0, <2>1, <3>1 DEF UpdateStatus, Coherent
        <4>2. TheBucket \in Names
          BY <1>0, <4>1, InHandTypes DEF NeedsClass, ProvisionSteps
        <4> DEFINE p == BoundStatus(claim[cur], TheBucket)
        <4>3. p \in ClaimObject /\ p.uid = claim[cur].uid /\ p.deleting = claim[cur].deleting
              /\ p.finalizer = claim[cur].finalizer /\ p.bucketName = TheBucket /\ p.phase = "Bound"
          BY <4>1, <4>2, BoundStatusType
        <4>4. p.gen = claim[cur].gen /\ p.spec = claim[cur].spec /\ p.observed = claim[cur].gen
          BY <4>1 DEF BoundStatus, ClaimObject
        <4>5. claim'[c] = IF c = cur THEN p ELSE claim[c]  BY <1>0, <1>2, <3>1, <4>1
        <4>6. p # None /\ claim[cur] # None  BY <4>1, <4>3, NoneAssumption
        <4> HIDE DEF p
        <4> QED  BY <4>1, <4>3, <4>4, <4>5, <4>6 DEF Fate, SameLife
      <3> QED  BY <1>1, <2>1, <3>1 DEF UpdateStatus
    <2>2. CASE RemoveFinalizer
      <3>1. CASE claim[cur] = loc /\ WriteClaim(cur, None)
        BY <1>0, <1>2, <2>2, <3>1 DEF Fate, RemoveFinalizer, Return
      <3> QED  BY <1>1, <2>2, <3>1 DEF RemoveFinalizer
    <2>3. CASE Noted /\ claim' # claim /\ ~RemoveFinalizer
      <3>1. PICK phase \in {"Pending", "Failed"}, why \in Why : Note(cur, phase, why)
        BY <2>3 DEF Noted
      <3>2. MayNote(cache[cur]) /\ fresh[cur]  BY <2>3, <3>1 DEF Note
      <3>3. /\ cache[cur] = claim[cur] /\ claim[cur] \in ClaimObject /\ ~claim[cur].deleting
            /\ claim[cur] # None
        BY <1>0, <3>2 DEF MayNote, Coherent
      <3> DEFINE p == NotReadyStatus(claim[cur], phase, why)
      <3>4. WriteClaim(cur, p)  BY <3>1, <3>2, <3>3 DEF Note
      <3>5. phase \in Phases /\ phase # "Bound"  BY DEF Phases
      <3>6. p \in ClaimObject /\ p.uid = claim[cur].uid /\ p.deleting = claim[cur].deleting
            /\ p.finalizer = claim[cur].finalizer /\ p.bucketName = claim[cur].bucketName
        BY <3>3, <3>5, NotReadyStatusType
      <3>7. p.gen = claim[cur].gen /\ p.spec = claim[cur].spec /\ p.observed = claim[cur].gen
            /\ p.phase = phase
        BY <3>3 DEF NotReadyStatus, ClaimObject
      <3>8. p # None  BY <3>6, NoneAssumption
      <3>9. claim'[c] = IF c = cur THEN p ELSE claim[c]  BY <1>0, <1>2, <3>4
      <3>10. pc \in ProvisionSteps
        BY <1>3, <2>3
        DEF WorkerStep, GetClassFails, ForeignDriver, ProviderFails, BeginProvisioning,
            CreateBucket, SetBucketQuota, SetBucketLifecycle, SetBucketReplication, AddUser,
            AddCannedPolicy, SetPolicy, UpdateStatus, ReconcileSecret, EnsureCosiBucket,
            FinalizeResolve, RemoveUser, RemoveCannedPolicy, DeleteBucket, ProvisionSteps,
            Calls
      <3> HIDE DEF p
      <3> QED  BY <3>3, <3>5, <3>6, <3>7, <3>8, <3>9, <3>10 DEF Fate, SameLife
    <2> QED  BY <1>1, <1>3, <2>1, <2>2, <2>3, WorkerWrites
  <1>4. CASE \E d \in Claims : Start(d)
    <2>1. PICK d \in Claims : Start(d)  BY <1>4
    <2>2. CASE ReconcileProvision(d) /\ fresh[d] /\ ~cache[d].finalizer
               /\ WriteClaim(d, WithFinalizer(cache[d]))
      <3>1. /\ cache[d] = claim[d] /\ claim[d] \in ClaimObject /\ claim[d] # None
            /\ ~claim[d].deleting /\ ~claim[d].finalizer
        BY <1>0, <2>2 DEF ReconcileProvision, Coherent
      <3> DEFINE p == WithFinalizer(claim[d])
      <3>2. p \in ClaimObject /\ p.uid = claim[d].uid /\ p.deleting = claim[d].deleting
            /\ p.finalizer /\ p.bucketName = claim[d].bucketName /\ p.phase = claim[d].phase
        BY <3>1, WithFinalizerType
      <3>3. p.gen = claim[d].gen /\ p.spec = claim[d].spec /\ p.observed = claim[d].observed
        BY <3>1 DEF WithFinalizer, ClaimObject
      <3>4. p # None  BY <3>2, NoneAssumption
      <3>5. claim'[c] = IF c = d THEN p ELSE claim[c]  BY <1>2, <2>2, <3>1
      <3>6. pc = "idle" /\ pc' = "getClass"  BY <2>2 DEF ReconcileProvision, Take
      <3> HIDE DEF p
      <3> QED  BY <3>1, <3>2, <3>3, <3>4, <3>5, <3>6 DEF Fate, SameLife
    <2> QED
      BY <1>1, <2>1, <2>2 DEF Start, ReconcileNothing, ReconcileDeletion, ReconcileProvision
  <1>5. CASE \E d \in Claims, s \in Specs : CreateClaim(d, s)
    <2>1. PICK d \in Claims, s \in Specs : CreateClaim(d, s)  BY <1>5
    <2>2. uids[d] + 1 \in Nat  BY <1>0
    <2> DEFINE p == NewClaim(uids[d] + 1, s)
    <2>3. p \in ClaimObject /\ p.uid = uids[d] + 1 /\ ~p.deleting /\ ~p.finalizer
          /\ p.bucketName = None
      BY <2>2, NewClaimType
    <2>4. p.observed = 0 /\ p.gen = 1  BY DEF NewClaim
    <2>5. p.phase = ""  BY DEF NewClaim
    <2>6. p # None  BY <2>3, NoneAssumption
    <2>7. claim'[c] = IF c = d THEN p ELSE claim[c]  BY <1>2, <2>1 DEF CreateClaim
    <2>8. claim[d] = None /\ UNCHANGED workerVars  BY <2>1 DEF CreateClaim
    <2> HIDE DEF p
    <2>9. p.observed <= p.gen  BY <2>4
    <2>10. p.phase # "Bound"  BY <2>5
    <2> QED  BY <2>3, <2>6, <2>7, <2>8, <2>9, <2>10 DEF Fate
  <1>6. CASE \E d \in Claims, s \in Specs : EditClaim(d, s)
    <2>1. PICK d \in Claims, s \in Specs : EditClaim(d, s)  BY <1>6
    <2>2. claim[d] # None /\ claim[d] \in ClaimObject /\ UNCHANGED workerVars
      BY <1>0, <2>1 DEF EditClaim
    <2> DEFINE p == Edited(claim[d], s)
    <2>3. p \in ClaimObject /\ p.uid = claim[d].uid /\ p.deleting = claim[d].deleting
          /\ p.finalizer = claim[d].finalizer /\ p.bucketName = claim[d].bucketName
          /\ p.phase = claim[d].phase
      BY <2>2, EditedType
    <2>4. p.gen = claim[d].gen + 1 /\ p.observed = claim[d].observed
      BY <2>2 DEF Edited, ClaimObject
    <2>5. p # None  BY <2>3, NoneAssumption
    <2>6. claim'[c] = IF c = d THEN p ELSE claim[c]  BY <1>2, <2>1 DEF EditClaim
    <2> HIDE DEF p
    <2> QED  BY <2>2, <2>3, <2>4, <2>5, <2>6 DEF Fate
  <1>7. CASE \E d \in Claims : DeleteClaim(d)
    <2>1. PICK d \in Claims : DeleteClaim(d)  BY <1>7
    <2>2. /\ claim[d] # None /\ claim[d] \in ClaimObject /\ ~claim[d].deleting
          /\ UNCHANGED workerVars
      BY <1>0, <2>1 DEF DeleteClaim
    <2>3. CASE claim[d].finalizer
      <3> DEFINE p == Terminating(claim[d])
      <3>1. p \in ClaimObject /\ p.uid = claim[d].uid /\ p.deleting
            /\ p.finalizer = claim[d].finalizer /\ p.bucketName = claim[d].bucketName
            /\ p.phase = claim[d].phase
        BY <2>2, TerminatingType
      <3>2. p.gen = claim[d].gen + 1 /\ p.observed = claim[d].observed
        BY <2>2 DEF Terminating, ClaimObject
      <3>3. p # None  BY <3>1, NoneAssumption
      <3>4. claim'[c] = IF c = d THEN p ELSE claim[c]  BY <1>2, <2>1, <2>3 DEF DeleteClaim
      <3> HIDE DEF p
      <3> QED  BY <2>2, <3>1, <3>2, <3>3, <3>4 DEF Fate
    <2>4. CASE ~claim[d].finalizer
      <3>1. claim'[c] = IF c = d THEN None ELSE claim[c]  BY <1>2, <2>1, <2>4 DEF DeleteClaim
      <3> QED  BY <2>2, <2>4, <3>1 DEF Fate
    <2> QED  BY <2>3, <2>4
  <1>8. CASE Environment \/ Background
    BY <1>1, <1>5, <1>6, <1>7, <1>8
    DEF Environment, Background, EditSecret, EditClass, Crash, SyncClaim, SyncSecret,
        CollectSecret, Resync
  <1> QED  BY <1>3, <1>4, <1>8 DEF Next

(* Only the removal of the finalizer takes a held claim away.              *)
LEMMA HeldStays ==
    ASSUME IInv, Next, NEW c \in Claims, HasFinalizer(c)
    PROVE  \/ HasFinalizer(c)' /\ claim'[c].uid = claim[c].uid
           \/ c = cur /\ pc = "removeFinalizer" /\ claim[c] = loc /\ claim'[c] = None
  BY ClaimFates DEF Fate, SameLife, HasFinalizer
-----------------------------------------------------------------------------
(* Users.                                                                  *)

(* Nobody but the operator writes Secrets.  A user's own keys are taken    *)
(* over, and revoked in place of the derived ones.                         *)
SecretsLeftAlone == "secret" \notin Disturbances

(* A failed revocation is logged, and the finalizer removed.               *)
RevocationsWork == "revokeFault" \notin Disturbances

(* No class is missing or asks for what is not supported: a claim whose    *)
(* class is loses its finalizer at once.                                   *)
ClassesUp ==
    \A k \in Classes : class[k] # None /\ class[k].provider \notin {"unsupported", "awsInvalid"}

(* All keys are the derived ones.                                          *)
Derived ==
    /\ \A c \in Claims : secret[c] # None => secret[c].cred = DerivedCred(c)
    /\ \A c \in Claims : secretCache[c] # None => secretCache[c].cred = DerivedCred(c)
    /\ pc \in NeedsClass => cred = DerivedCred(cur)

(* A claim's user has the name derived from the claim, which is held.      *)
UsersHeld ==
    \A k \in Keys, c \in Claims : user[k].secret = c => k = KeyOf[c] /\ HasFinalizer(c)

(* It is gone once a finalizing pass has removed it.                       *)
UserGone ==
    pc \in {"removePolicy", "deleteBucket", "removeFinalizer"} => user[KeyOf[cur]].secret # cur

UsersInv == LInv /\ Derived /\ UsersHeld /\ UserGone

LEMMA DerivedStep ==
    ASSUME LInv, Derived, Next, SecretsLeftAlone
    PROVE  Derived'
  <1>0. /\ TypeOK /\ InHand /\ cur \in Claims
        /\ secret \in [Claims -> SecretObject \cup {None}]
        /\ secretCache \in [Claims -> SecretObject \cup {None}]
    BY DEF LInv, IInv, TypeOK, WorkerOK, SecretsOK
  <1>1. ASSUME NEW c \in Claims, secret'[c] # None PROVE secret'[c].cred = DerivedCred(c)
    <2>1. CASE secret' = secret  BY <1>1, <2>1 DEF Derived
    <2>2. CASE pc = "writeSecret" /\ secret' = [secret EXCEPT ![cur] = TheSecret]
      <3>1. TheSecret.cred = DerivedCred(cur)
        BY <2>2 DEF TheSecret, Derived, NeedsClass, ProvisionSteps
      <3> QED  BY <1>0, <1>1, <2>2, <3>1 DEF Derived
    <2>3. CASE \E d \in Claims : secret' = [secret EXCEPT ![d] = None]
      BY <1>0, <1>1, <2>3 DEF Derived
    <2> QED  BY <1>0, <2>1, <2>2, <2>3, SecretWriters DEF SecretsLeftAlone
  <1>2. ASSUME NEW c \in Claims, secretCache'[c] # None
        PROVE  secretCache'[c].cred = DerivedCred(c)
    BY <1>0, <1>2, SecretCacheWriters DEF Derived
  <1>3. pc' \in NeedsClass => cred' = DerivedCred(cur')
    <2>1. CASE UNCHANGED workerVars  BY <2>1 DEF Derived
    <2>2. CASE pc' = "idle" \/ Begins
      BY <2>2 DEF Begins, NeedsClass, ProvisionSteps, Calls
    <2>3. CASE Resolves
      BY <1>0, <2>3 DEF Resolves, Derived, NeedsClass, ProvisionSteps, Calls
    <2>4. CASE Provides \/ Undoes
      BY <2>4 DEF Provides, Undoes, Derived, NeedsClass, ProvisionSteps, Calls
    <2>5. CASE pc = "updateStatus" /\ pc' = "cosiBucket" /\ UNCHANGED <<cur, cls, cred>>
      BY <2>5 DEF Derived, NeedsClass, ProvisionSteps
    <2> QED  BY <2>1, <2>2, <2>3, <2>4, <2>5, PassMoves
  <1> QED  BY <1>1, <1>2, <1>3 DEF Derived

LEMMA UsersHeldStep ==
    ASSUME UsersInv, Next
    PROVE  UsersHeld'
  <1> SUFFICES ASSUME NEW k \in Keys, NEW c \in Claims, user'[k].secret = c
               PROVE  k = KeyOf[c] /\ HasFinalizer(c)'
    BY DEF UsersHeld
  <1>0. /\ IInv /\ TypeOK /\ InHand /\ cur \in Claims /\ c # None
        /\ user \in [Keys -> UserState]
    BY NoneAssumption DEF UsersInv, LInv, IInv, TypeOK, WorkerOK, MinioOK
  <1>1. ASSUME user[k].secret = c PROVE k = KeyOf[c] /\ HasFinalizer(c)'
    <2>1. k = KeyOf[c] /\ HasFinalizer(c)  BY <1>1 DEF UsersInv, UsersHeld
    <2>2. ~(c = cur /\ pc = "removeFinalizer")  BY <1>1, <2>1 DEF UsersInv, UserGone
    <2> QED  BY <1>0, <2>1, <2>2, HeldStays
  <1>2. CASE pc = "addUser" /\ user' = [user EXCEPT ![cred.id].secret = cred.secret]
    <2>1. pc \in NeedsClass /\ pc \in ProvisionSteps  BY <1>2 DEF NeedsClass, ProvisionSteps, Calls
    <2>2. cred.id = KeyOf[cur] /\ cred.secret = cur
      BY <2>1 DEF UsersInv, Derived, DerivedCred
    <2>3. HasFinalizer(cur)  BY <1>0, <2>1 DEF IInv, Guarding, PassHoldsFinalizer
    <2>4. \A d : d = cur => HasFinalizer(d)'  BY <1>0, <1>2, <2>3, HeldStays
    <2>5. CASE k = cred.id
      <3>1. user'[k].secret = cur  BY <1>0, <1>2, <2>2, <2>5 DEF UserState
      <3> QED  BY <2>2, <2>4, <2>5, <3>1
    <2>6. CASE k # cred.id
      <3>1. user'[k] = user[k]  BY <1>0, <1>2, <2>6
      <3> QED  BY <1>1, <3>1
    <2> QED  BY <2>5, <2>6
  <1>3. CASE user' = user  BY <1>1, <1>3
  <1>4. CASE pc = "setPolicy" /\ user' = [user EXCEPT ![cred.id].policy = ThePolicy]
    <2>1. user'[k].secret = user[k].secret  BY <1>0, <1>4 DEF UserState
    <2> QED  BY <1>1, <2>1
  <1>5. CASE pc = "removeUser" /\ user' = [user EXCEPT ![cred.id] = NoUser]
    <2>1. user'[k] = user[k] \/ user'[k] = NoUser  BY <1>0, <1>5
    <2> QED  BY <1>0, <1>1, <2>1 DEF NoUser
  <1> QED  BY <1>2, <1>3, <1>4, <1>5, UserWriters

LEMMA UserGoneStep ==
    ASSUME UsersInv, Next, RevocationsWork, ClassesUp
    PROVE  UserGone'
  <1> DEFINE After == {"removePolicy", "deleteBucket", "removeFinalizer"}
  <1> SUFFICES ASSUME pc' \in After PROVE user'[KeyOf[cur']].secret # cur'
    BY DEF UserGone
  <1>0. /\ TypeOK /\ InHand /\ cur \in Claims /\ cur # None /\ KeyOf[cur] \in Keys
        /\ user \in [Keys -> UserState]
    BY NoneAssumption, NamesAssumption DEF UsersInv, LInv, IInv, TypeOK, WorkerOK, MinioOK
  <1>1. ASSUME pc \in After, cur' = cur PROVE user'[KeyOf[cur']].secret # cur'
    <2>1. user' = user  BY <1>1, UserWriters
    <2> QED  BY <1>1, <2>1 DEF UsersInv, UserGone
  <1>2. CASE UNCHANGED workerVars  BY <1>1, <1>2
  <1>3. CASE Resolves
    <2>1. pc = "finalize"  BY <1>3 DEF Resolves
    <2>2. loc \in ClaimObject  BY <1>0, <2>1 DEF InHand, TypeOK, WorkerOK
    <2>3. loc.spec.className \in Classes  BY <2>2, SpecsAssumption DEF ClaimObject, SpecType
    <2> QED  BY <1>3, <2>3 DEF Resolves, TheClass, ClassesUp
  <1>4. CASE Undoes
    <2>1. CASE pc = "removeUser"
      <3>1. user' = [user EXCEPT ![cred.id] = NoUser] /\ cur' = cur
        BY <1>4, <2>1 DEF Undoes, RevocationsWork
      <3>2. cred.id = KeyOf[cur]
        BY <2>1 DEF UsersInv, Derived, DerivedCred, NeedsClass
      <3>3. user'[KeyOf[cur]].secret = None  BY <1>0, <3>1, <3>2 DEF NoUser
      <3> QED  BY <1>0, <3>1, <3>3
    <2>2. CASE pc # "removeUser"  BY <1>1, <1>4, <2>2 DEF Undoes
    <2> QED  BY <2>1, <2>2
  <1> QED
    BY <1>2, <1>3, <1>4, PassMoves DEF Begins, Provides

LEMMA UsersInvStep ==
    ASSUME UsersInv, [Next]_vars, SecretsLeftAlone, RevocationsWork, ClassesUp
    PROVE  UsersInv'
  <1>1. CASE Next
    <2>1. LInv'  BY <1>1, NextTracks DEF UsersInv
    <2> QED  BY <1>1, <2>1, DerivedStep, UsersHeldStep, UserGoneStep DEF UsersInv
  <1>2. CASE UNCHANGED vars
    <2>1. LInv'  BY <1>2, NextTracks DEF UsersInv
    <2> QED
      BY <1>2, <2>1 DEF vars, UsersInv, Derived, UsersHeld, UserGone, HasFinalizer
  <1> QED  BY <1>1, <1>2

LEMMA UsersInvInit == Init => UsersInv
  <1> SUFFICES ASSUME Init PROVE UsersInv  OBVIOUS
  <1>1. LInv  BY InitTracks
  <1>2. Derived  BY DEF Init, Derived, NeedsClass, ProvisionSteps, Calls
  <1>3. UsersHeld  BY NoneAssumption DEF Init, UsersHeld, NoUser
  <1>4. UserGone  BY DEF Init, UserGone
  <1> QED  BY <1>1, <1>2, <1>3, <1>4 DEF UsersInv

(* No MinIO user made for a claim outlives it, through crashes, failed and *)
(* repeated calls, edits and stale copies of the claim, shared keys and    *)
(* temporary troubles of classes included.                                 *)
THEOREM UsersGoWithClaims ==
    SecretsLeftAlone /\ RevocationsWork => (Spec /\ []ClassesUp => []NoOrphanUser)
  <1> SUFFICES ASSUME SecretsLeftAlone, RevocationsWork
               PROVE  Spec /\ []ClassesUp => []NoOrphanUser
    OBVIOUS
  <1>1. UsersInv /\ ClassesUp /\ [Next]_vars => UsersInv'  BY UsersInvStep
  <1>2. UsersInv => NoOrphanUser  BY DEF UsersInv, UsersHeld, NoOrphanUser
  <1> QED  BY <1>1, <1>2, UsersInvInit, PTL DEF Spec
-----------------------------------------------------------------------------
(* What Bound promises.                                                    *)

(* No two claims have the same access key, which keeps twelve characters   *)
(* of the account.                                                         *)
OwnKeys == \A c, d \in Claims : KeyOf[c] = KeyOf[d] => c = d

(* Every pass for a claim provides the same bucket B[c], and no pass       *)
(* deletes the bucket of another claim.                                    *)
Making == ProvisionSteps \ {"getClass", "cosiBucket"}
OwnBuckets(B) ==
    /\ pc \in Making => TheBucket = B[cur]
    /\ pc = "deleteBucket" => \A c \in Claims : c # cur => DoomedName # B[c]

ObservedLags == \A c \in Claims : claim[c] # None => claim[c].observed <= claim[c].gen

(* What a pass has granted so far.                                         *)
SecretFor(B, c, u) == [cred |-> DerivedCred(c), bucket |-> B[c], owner |-> u]
Granting(B) ==
    /\ pc \in AfterAdd => user[KeyOf[cur]].secret = cur
    /\ pc \in {"setPolicy", "writeSecret", "updateStatus"} => policy[<<B[cur], cur>>] # "absent"
    /\ pc \in {"writeSecret", "updateStatus"} => user[KeyOf[cur]].policy = <<B[cur], cur>>
    /\ pc = "updateStatus" => secret[cur] = SecretFor(B, cur, loc.uid)

(* What a claim of incarnation u needs to be usable.                       *)
Usable(B, c, u) ==
    /\ bucket[B[c]].exists
    /\ secret[c] = SecretFor(B, c, u)
    /\ user[KeyOf[c]] = [secret |-> c, policy |-> <<B[c], c>>]
    /\ policy[<<B[c], c>>] # "absent"

BoundUsable(B) ==
    \A c \in Claims : SettledAndBound(c) =>
        claim[c].bucketName = B[c] /\ Usable(B, c, claim[c].uid)

BoundInv(B) == LInv /\ Derived /\ ObservedLags /\ Granting(B) /\ BoundUsable(B)

LEMMA ObservedLagsStep ==
    ASSUME LInv, ObservedLags, Next
    PROVE  ObservedLags'
  <1> SUFFICES ASSUME NEW c \in Claims, claim'[c] # None
               PROVE  claim'[c].observed <= claim'[c].gen
    BY DEF ObservedLags
  <1>1. IInv /\ claim \in [Claims -> ClaimObject \cup {None}]
    BY DEF LInv, IInv, TypeOK, ClaimsOK
  <1>2. claim[c] # None => claim[c].observed \in Nat /\ claim[c].gen \in Nat
    BY <1>1 DEF ClaimObject
  <1>3. claim[c] # None => claim[c].observed <= claim[c].gen  BY DEF ObservedLags
  <1> QED  BY <1>1, <1>2, <1>3, ClaimFates DEF Fate, SameLife

(* Only the last step of a pass makes a claim settled.                     *)
LEMMA SettledBy ==
    ASSUME LInv, ObservedLags, Next, NEW c \in Claims, SettledAndBound(c)'
    PROVE  /\ claim[c] # None /\ claim'[c].uid = claim[c].uid
           /\ \/ SettledAndBound(c) /\ claim'[c].bucketName = claim[c].bucketName
              \/ c = cur /\ pc = "updateStatus" /\ claim'[c].bucketName = TheBucket
  <1>1. IInv /\ claim \in [Claims -> ClaimObject \cup {None}] /\ NewIsBlank
    BY DEF LInv, IInv, TypeOK, ClaimsOK, Tracking
  <1>2. claim[c] # None => claim[c].observed \in Nat /\ claim[c].gen \in Nat
    BY <1>1 DEF ClaimObject
  <1>3. claim[c] # None => claim[c].observed <= claim[c].gen  BY DEF ObservedLags
  <1>4. claim[c] # None /\ ~claim[c].finalizer => claim[c].phase # "Bound"
    BY <1>1 DEF NewIsBlank
  <1>5. /\ claim'[c] # None /\ ~claim'[c].deleting /\ claim'[c].phase = "Bound"
        /\ claim'[c].observed = claim'[c].gen
    BY DEF SettledAndBound
  <1> QED  BY <1>1, <1>2, <1>3, <1>4, <1>5, ClaimFates DEF Fate, SameLife, SettledAndBound

(* No finalizing pass works for a settled claim.                           *)
LEMMA SettledIsSpared ==
    ASSUME LInv, NEW c \in Claims, SettledAndBound(c), pc \in FinalizeSteps
    PROVE  c # cur
  BY DEF LInv, IInv, Guarding, PassFinalizes, Tracking, MeetsItsOwn, NewIsBlank,
         HasFinalizer, SettledAndBound

(* In a providing pass, the names and keys are those of the claim.         *)
LEMMA PassUsesOwn ==
    ASSUME LInv, Derived, NEW B \in [Claims -> Names], OwnBuckets(B), pc \in Making
    PROVE  /\ cur \in Claims /\ cred = DerivedCred(cur)
           /\ cred.id = KeyOf[cur] /\ cred.secret = cur /\ KeyOf[cur] \in Keys
           /\ TheBucket = B[cur] /\ ThePolicy = <<B[cur], cur>> /\ ThePolicy \in PolicyId
           /\ loc.spec.accessType \in {"ReadWrite", "ReadOnly"}
           /\ TheSecret = SecretFor(B, cur, loc.uid)
           /\ claim[cur] # None /\ claim[cur].uid = loc.uid
  <1>1. pc \in NeedsClass /\ pc \in ProvisionSteps  BY DEF Making, NeedsClass
  <1>2. cur \in Claims /\ loc.spec \in SpecType /\ TheBucket \in Names
    BY <1>1, InHandTypes DEF LInv, IInv
  <1>3. cred = DerivedCred(cur)  BY <1>1 DEF Derived
  <1>4. TheBucket = B[cur]  BY DEF OwnBuckets
  <1>5. ThePolicy = <<B[cur], cur>> /\ ThePolicy \in PolicyId
    BY <1>2, <1>4 DEF ThePolicy, PolicyId
  <1>6. claim[cur] # None /\ claim[cur].uid = loc.uid
    BY <1>1 DEF LInv, IInv, Guarding, PassHoldsFinalizer, HasFinalizer
  <1>7. loc.spec.accessType \in {"ReadWrite", "ReadOnly"}  BY <1>2 DEF SpecType
  <1>8. TheSecret = SecretFor(B, cur, loc.uid)  BY <1>3, <1>4 DEF TheSecret, SecretFor
  <1>9. cred.id = KeyOf[cur] /\ cred.secret = cur /\ KeyOf[cur] \in Keys
    BY <1>2, <1>3, NamesAssumption DEF DerivedCred
  <1> QED  BY <1>2, <1>3, <1>4, <1>5, <1>6, <1>7, <1>8, <1>9

(* Nothing a step does takes from a claim what it needs, but for a pass    *)
(* that finalizes it.                                                      *)
LEMMA UsableStays ==
    ASSUME NEW B \in [Claims -> Names], LInv, Derived, OwnBuckets(B), OwnKeys,
           SecretsLeftAlone, Next, NEW c \in Claims, NEW u, claim[c] # None,
           claim[c].uid = u, Usable(B, c, u), pc \in FinalizeSteps => c # cur
    PROVE  Usable(B, c, u)'
  <1>0. /\ TypeOK /\ InHand /\ cur \in Claims /\ B[c] \in Names /\ KeyOf[c] \in Keys
        /\ <<B[c], c>> \in PolicyId
        /\ user \in [Keys -> UserState] /\ policy \in [PolicyId -> PolicyState]
        /\ secret \in [Claims -> SecretObject \cup {None}]
    BY NamesAssumption DEF LInv, IInv, TypeOK, WorkerOK, MinioOK, SecretsOK, PolicyId
  <1>1. /\ pc \in {"createBucket", "addUser", "addPolicy", "setPolicy", "writeSecret"}
           => pc \in Making
        /\ pc \in {"removeUser", "removePolicy", "deleteBucket"} => pc \in FinalizeSteps
    BY DEF Making, ProvisionSteps, FinalizeSteps, Calls
  <1>2. (bucket[B[c]].exists)'
    BY <1>0, <1>1, BucketWriters DEF OwnBuckets, Usable
  <1>3. secret'[c] = SecretFor(B, c, u)
    <2>1. secret[c] = SecretFor(B, c, u) /\ SecretFor(B, c, u).owner = u
      BY DEF Usable, SecretFor
    <2>2. CASE pc = "writeSecret" /\ secret' = [secret EXCEPT ![cur] = TheSecret]
      BY <1>0, <1>1, <2>1, <2>2, PassUsesOwn
    <2> QED  BY <1>0, <2>1, <2>2, SecretWriters DEF SecretsLeftAlone
  <1>4. user'[KeyOf[c]] = [secret |-> c, policy |-> <<B[c], c>>]
    <2>1. user[KeyOf[c]] = [secret |-> c, policy |-> <<B[c], c>>]  BY DEF Usable
    <2>2. CASE pc = "addUser" /\ user' = [user EXCEPT ![cred.id].secret = cred.secret]
      <3>1. cred.id = KeyOf[cur] /\ cred.secret = cur  BY <1>1, <2>2, PassUsesOwn
      <3> QED  BY <1>0, <2>1, <2>2, <3>1 DEF OwnKeys
    <2>3. CASE pc = "setPolicy" /\ user' = [user EXCEPT ![cred.id].policy = ThePolicy]
      <3>1. cred.id = KeyOf[cur] /\ ThePolicy = <<B[cur], cur>>  BY <1>1, <2>3, PassUsesOwn
      <3> QED  BY <1>0, <2>1, <2>3, <3>1 DEF OwnKeys
    <2>4. CASE pc = "removeUser" /\ user' = [user EXCEPT ![cred.id] = NoUser]
      <3>1. cred.id = KeyOf[cur] /\ c # cur
        BY <1>1, <2>4 DEF Derived, DerivedCred, NeedsClass
      <3> QED  BY <1>0, <2>1, <2>4, <3>1 DEF OwnKeys
    <2> QED  BY <2>1, <2>2, <2>3, <2>4, UserWriters
  <1>5. policy'[<<B[c], c>>] # "absent"
    <2>1. policy[<<B[c], c>>] # "absent"  BY DEF Usable
    <2>2. CASE pc = "addPolicy" /\ policy' = [policy EXCEPT ![ThePolicy] = loc.spec.accessType]
      BY <1>0, <1>1, <2>1, <2>2, PassUsesOwn
    <2>3. CASE pc = "removePolicy" /\ policy' = [policy EXCEPT ![<<DoomedName, cur>>] = "absent"]
      BY <1>0, <1>1, <2>1, <2>3
    <2> QED  BY <2>1, <2>2, <2>3, PolicyWriters
  <1> QED  BY <1>2, <1>3, <1>4, <1>5 DEF Usable, SecretFor

LEMMA GrantingStep ==
    ASSUME NEW B \in [Claims -> Names], LInv, Derived, Granting(B), OwnBuckets(B),
           SecretsLeftAlone, Next
    PROVE  Granting(B)'
  <1> DEFINE Late == {"addPolicy", "setPolicy", "writeSecret", "updateStatus"}
  <1> SUFFICES ASSUME pc' \in Late PROVE Granting(B)'
    BY DEF Granting, AfterAdd
  <1>0. /\ TypeOK /\ InHand /\ cur \in Claims
        /\ user \in [Keys -> UserState] /\ policy \in [PolicyId -> PolicyState]
        /\ secret \in [Claims -> SecretObject \cup {None}]
    BY DEF LInv, IInv, TypeOK, WorkerOK, MinioOK, SecretsOK
  <1>1. CASE UNCHANGED workerVars
    <2>1. pc \in Making  BY <1>1 DEF Making, ProvisionSteps, Calls
    <2>2. user'[KeyOf[cur]].secret = user[KeyOf[cur]].secret
      BY <1>0, <1>1, <2>1, PassUsesOwn, UserWriters DEF UserState
    <2>3. pc \in {"writeSecret", "updateStatus"} => user' = user  BY UserWriters
    <2>4. pc # "addPolicy" => policy' = policy  BY <1>1, PolicyWriters
    <2>5. pc = "updateStatus" => secret'[cur] = secret[cur]
      <3> SUFFICES ASSUME pc = "updateStatus" PROVE secret'[cur] = secret[cur]  OBVIOUS
      <3>1. secret[cur].owner = loc.uid /\ claim[cur] # None /\ claim[cur].uid = loc.uid
        BY <2>1, PassUsesOwn DEF Granting, SecretFor
      <3> QED  BY <1>0, <3>1, SecretWriters DEF SecretsLeftAlone
    <2> QED  BY <1>1, <2>2, <2>3, <2>4, <2>5 DEF Granting, AfterAdd, SecretFor
  <1>2. CASE Provides
    <2>1. pc \in Making /\ cur' = cur /\ loc' = loc
      BY <1>2 DEF Provides, Making, ProvisionSteps, Calls
    <2>2. /\ cred.id = KeyOf[cur] /\ cred.secret = cur /\ KeyOf[cur] \in Keys
          /\ ThePolicy = <<B[cur], cur>> /\ ThePolicy \in PolicyId
          /\ loc.spec.accessType # "absent" /\ TheSecret = SecretFor(B, cur, loc.uid)
      BY <2>1, PassUsesOwn
    <2>3. CASE pc = "addUser"
      <3>1. pc' = "addPolicy" /\ user' = [user EXCEPT ![cred.id].secret = cred.secret]
        BY <1>2, <2>3 DEF Provides
      <3>2. user'[KeyOf[cur]].secret = cur  BY <1>0, <2>2, <3>1 DEF UserState
      <3> QED  BY <2>1, <3>1, <3>2 DEF Granting
    <2>4. CASE pc = "addPolicy"
      <3>1. pc' = "setPolicy" /\ policy' = [policy EXCEPT ![ThePolicy] = loc.spec.accessType]
        BY <1>2, <2>4 DEF Provides
      <3>2. policy'[<<B[cur], cur>>] # "absent"  BY <1>0, <2>2, <3>1
      <3>3. user' = user  BY <2>4, UserWriters
      <3>4. user'[KeyOf[cur]].secret = cur  BY <2>4, <3>3 DEF Granting, AfterAdd
      <3> QED  BY <2>1, <3>1, <3>2, <3>4 DEF Granting
    <2>5. CASE pc = "setPolicy"
      <3>1. pc' = "writeSecret" /\ user' = [user EXCEPT ![cred.id].policy = ThePolicy]
        BY <1>2, <2>5 DEF Provides
      <3>2. policy' = policy  BY <2>5, PolicyWriters
      <3>3. /\ user'[KeyOf[cur]].policy = <<B[cur], cur>>
            /\ user'[KeyOf[cur]].secret = user[KeyOf[cur]].secret
        BY <1>0, <2>2, <3>1 DEF UserState
      <3>4. user[KeyOf[cur]].secret = cur /\ policy[<<B[cur], cur>>] # "absent"
        BY <2>5 DEF Granting, AfterAdd
      <3> QED  BY <2>1, <3>1, <3>2, <3>3, <3>4 DEF Granting
    <2>6. CASE pc = "writeSecret"
      <3>1. pc' = "updateStatus" /\ secret' = [secret EXCEPT ![cur] = TheSecret]
        BY <1>2, <2>6 DEF Provides
      <3>2. policy' = policy /\ user' = user  BY <2>6, PolicyWriters, UserWriters
      <3>3. secret'[cur] = SecretFor(B, cur, loc.uid)  BY <1>0, <2>2, <3>1
      <3> QED  BY <2>1, <2>6, <3>1, <3>2, <3>3 DEF Granting, AfterAdd, SecretFor
    <2> QED  BY <1>2, <2>3, <2>4, <2>5, <2>6 DEF Provides
  <1> QED
    BY <1>1, <1>2, PassMoves DEF Begins, Resolves, Undoes, AfterRevoke

LEMMA BoundUsableStep ==
    ASSUME NEW B \in [Claims -> Names], BoundInv(B), OwnBuckets(B), OwnKeys,
           SecretsLeftAlone, Next
    PROVE  BoundUsable(B)'
  <1> SUFFICES ASSUME NEW c \in Claims, SettledAndBound(c)'
               PROVE  claim'[c].bucketName = B[c] /\ Usable(B, c, claim[c].uid)'
    BY DEF BoundUsable
  <1>0. LInv /\ Derived /\ ObservedLags /\ Granting(B) /\ BoundUsable(B)  BY DEF BoundInv
  <1>1. claim[c] # None /\ claim'[c].uid = claim[c].uid  BY <1>0, SettledBy
  <1>2. PICK u : u = claim[c].uid  OBVIOUS
  <1>3. claim'[c].bucketName = B[c] /\ Usable(B, c, u) /\ (pc \in FinalizeSteps => c # cur)
    <2>1. CASE SettledAndBound(c) /\ claim'[c].bucketName = claim[c].bucketName
      BY <1>0, <1>2, <2>1, SettledIsSpared DEF BoundUsable
    <2>2. CASE c = cur /\ pc = "updateStatus" /\ claim'[c].bucketName = TheBucket
      <3>1. pc \in Making /\ pc \notin FinalizeSteps
        BY <2>2 DEF Making, ProvisionSteps, FinalizeSteps, Calls
      <3>2. TheBucket = B[c] /\ claim[c].uid = loc.uid /\ KeyOf[c] \in Keys
        BY <1>0, <2>2, <3>1, PassUsesOwn
      <3>3. bucket[B[c]].exists
        BY <1>0, <2>2, <3>2 DEF LInv, Tracking, MadeSoFar, AfterCreate
      <3>4. user[KeyOf[c]] \in UserState
        BY <1>0, <3>2 DEF LInv, IInv, TypeOK, MinioOK
      <3>5. user[KeyOf[c]].secret = c /\ user[KeyOf[c]].policy = <<B[c], c>>
        BY <1>0, <2>2 DEF Granting, AfterAdd
      <3>6. user[KeyOf[c]] = [secret |-> c, policy |-> <<B[c], c>>]
        BY <3>4, <3>5 DEF UserState
      <3> QED
        BY <1>0, <1>2, <2>2, <3>1, <3>2, <3>3, <3>6 DEF Granting, Usable
    <2> QED  BY <1>0, <2>1, <2>2, SettledBy
  <1>4. Usable(B, c, u)'  BY <1>0, <1>1, <1>2, <1>3, UsableStays
  <1> QED  BY <1>1, <1>2, <1>3, <1>4

LEMMA BoundInvStep ==
    ASSUME NEW B \in [Claims -> Names], BoundInv(B), OwnBuckets(B), OwnKeys,
           SecretsLeftAlone, [Next]_vars
    PROVE  BoundInv(B)'
  <1>1. LInv'  BY NextTracks DEF BoundInv
  <1>2. CASE Next
    BY <1>1, <1>2, DerivedStep, ObservedLagsStep, GrantingStep, BoundUsableStep DEF BoundInv
  <1>3. CASE UNCHANGED vars
    <2>1. Derived' /\ ObservedLags'  BY <1>3 DEF vars, BoundInv, Derived, ObservedLags
    <2>2. Granting(B)'  BY <1>3 DEF vars, BoundInv, Granting, SecretFor
    <2>3. BoundUsable(B)'
      BY <1>3 DEF vars, BoundInv, BoundUsable, Usable, SettledAndBound, SecretFor
    <2> QED  BY <1>1, <2>1, <2>2, <2>3 DEF BoundInv
  <1> QED  BY <1>2, <1>3

LEMMA BoundInvInit ==
    ASSUME NEW B \in [Claims -> Names], Init
    PROVE  BoundInv(B)
  <1>1. LInv /\ Derived  BY UsersInvInit DEF UsersInv
  <1>2. ObservedLags /\ BoundUsable(B)
    BY DEF Init, ObservedLags, BoundUsable, SettledAndBound
  <1>3. Granting(B)  BY DEF Init, Granting, AfterAdd
  <1> QED  BY <1>1, <1>2, <1>3 DEF BoundInv

LEMMA UsableIsUsable ==
    ASSUME NEW B \in [Claims -> Names], BoundInv(B)
    PROVE  BoundIsUsable
  <1> SUFFICES ASSUME NEW c \in Claims, SettledAndBound(c)
               PROVE  LET b == claim[c].bucketName
                          s == secret[c]
                      IN  /\ bucket[b].exists
                          /\ s # None /\ s.owner = claim[c].uid /\ s.bucket = b
                          /\ user[s.cred.id] = [secret |-> s.cred.secret, policy |-> <<b, c>>]
                          /\ policy[<<b, c>>] # "absent"
    BY DEF BoundIsUsable
  <1>1. claim[c].bucketName = B[c] /\ Usable(B, c, claim[c].uid)  BY DEF BoundInv, BoundUsable
  <1>2. secret[c] = SecretFor(B, c, claim[c].uid)  BY <1>1 DEF Usable
  <1>3. /\ secret[c].owner = claim[c].uid /\ secret[c].bucket = B[c]
        /\ secret[c].cred.id = KeyOf[c] /\ secret[c].cred.secret = c
    BY <1>2 DEF SecretFor, DerivedCred
  <1>4. SecretFor(B, c, claim[c].uid) \in SecretObject
    <2>1. claim[c].uid \in Nat
      BY DEF BoundInv, LInv, IInv, TypeOK, ClaimsOK, SettledAndBound, ClaimObject
    <2>2. DerivedCred(c) \in Credential  BY NamesAssumption DEF DerivedCred, Credential
    <2> QED  BY <2>1, <2>2 DEF SecretFor, SecretObject
  <1>5. secret[c] # None  BY <1>2, <1>4, NoneAssumption
  <1> QED  BY <1>1, <1>3, <1>5 DEF Usable

(* A claim that is Bound for its generation can be used: its bucket, user, *)
(* policy and Secret are there and agree, through every interleaving of    *)
(* other claims' passes, repeated passes from stale copies, faults,        *)
(* crashes, class edits and the garbage collector.                         *)
THEOREM BoundClaimsWork ==
    ASSUME NEW B \in [Claims -> Names], OwnKeys, SecretsLeftAlone
    PROVE  Spec /\ []OwnBuckets(B) => []BoundIsUsable
  <1>1. BoundInv(B) /\ OwnBuckets(B) /\ [Next]_vars => BoundInv(B)'  BY BoundInvStep
  <1>2. BoundInv(B) => BoundIsUsable  BY UsableIsUsable
  <1>3. Init => BoundInv(B)  BY BoundInvInit
  <1> QED  BY <1>1, <1>2, <1>3, PTL DEF Spec
-----------------------------------------------------------------------------
(* Buckets.                                                                *)

(* The classes of D delete buckets and the others never do, whatever else  *)
(* administrators change.  A class of D is not missing or unsupported when *)
(* a claim of it is finalized, though its credentials may be.              *)
PolicyKept(D) ==
    \A k \in Classes :
        IF k \in D
        THEN /\ class[k] # None /\ class[k].deletionPolicy = "Delete"
             /\ class[k].provider \notin {"unsupported", "awsInvalid"}
        ELSE class[k] = None \/ class[k].deletionPolicy # "Delete"

(* No pass makes the bucket that the deletion of another claim removes.    *)
Apart ==
    pc = "createBucket" =>
        \A c \in Claims : c # cur /\ cache[c] # None => TheBucket # FinalizeName(c, cache[c])

(* The finalizer looks for the bucket by the name it is created by.  It    *)
(* does not when the name has upper-case letters or comes from the class,  *)
(* and the claim was never Bound, or when the name was edited.             *)
NamesMeet ==
    pc = "removeFinalizer" /\ TheClass # None
    => DoomedName = BucketNameFor(cur, loc.spec, TheClass)

Cleaned(D, c, o) == o.spec.className \in D => ~bucket[FinalizeName(c, o)].exists

Gone(c, o) == ~(claim[c] # None /\ claim[c].uid = o.uid)

(* A finalizing pass does what the class says before it removes the        *)
(* finalizer.                                                              *)
PassUndoes(D) ==
    /\ pc \in {"removeUser", "removePolicy", "deleteBucket"}
       => (cls.deletionPolicy = "Delete" <=> loc.spec.className \in D)
    /\ pc = "deleteBucket" => cls.deletionPolicy = "Delete"
    /\ pc = "removeFinalizer" => Cleaned(D, cur, loc)

LEMMA CacheWriters ==
    ASSUME Next
    PROVE  \/ cache' = cache
           \/ \E c \in Claims : cache' = [cache EXCEPT ![c] = claim[c]] /\ claim' = claim
  BY DEF Next, WorkerStep, Start, Environment, Background, Skip,
         GetClassFails, ForeignDriver, ProviderFails, BeginProvisioning, CreateBucket,
         SetBucketQuota, SetBucketLifecycle, SetBucketReplication, AddUser, AddCannedPolicy,
         SetPolicy, UpdateStatus, ReconcileSecret, EnsureCosiBucket, FinalizeResolve,
         RemoveUser, RemoveCannedPolicy, DeleteBucket, RemoveFinalizer, ReconcileNothing,
         ReconcileDeletion, ReconcileProvision, CreateClaim, EditClaim, DeleteClaim,
         EditSecret, EditClass, Crash, SyncClaim, SyncSecret, CollectSecret, Resync

(* A step of a finalizing pass goes on with it, for the same claim.        *)
LEMMA StillFinalizing ==
    ASSUME Next, pc' \in FinalizeSteps
    PROVE  \/ pc \in FinalizeSteps /\ cur' = cur /\ loc' = loc
           \/ Begins /\ pc' = "finalize"
  BY PassMoves DEF Begins, Resolves, Provides, Undoes, FinalizeSteps

LEMMA PassUndoesStep ==
    ASSUME NEW D \in SUBSET Classes, LInv, PassUndoes(D), PolicyKept(D), Next
    PROVE  PassUndoes(D)'
  <1> DEFINE Undoing == {"removeUser", "removePolicy", "deleteBucket", "removeFinalizer"}
  <1> SUFFICES ASSUME pc' \in Undoing PROVE PassUndoes(D)'  BY DEF PassUndoes
  <1>0. /\ TypeOK /\ InHand /\ bucket \in [Names -> BucketState] /\ cur \in Claims
    BY DEF LInv, IInv, TypeOK, MinioOK, WorkerOK
  <1>1. pc # "idle" => loc \in ClaimObject /\ loc.spec.className \in Classes
    <2>1. pc # "idle" => loc \in ClaimObject  BY <1>0 DEF InHand, TypeOK, WorkerOK
    <2> QED  BY <2>1, SpecsAssumption DEF ClaimObject, SpecType
  <1>2. pc # "idle" => FinalizeName(cur, loc) \in Names  BY <1>0, <1>1, FinalizeNameType
  <1>3. CASE UNCHANGED workerVars
    <2>1. pc = "removeFinalizer" => Cleaned(D, cur, loc)'
      <3> SUFFICES ASSUME pc = "removeFinalizer" PROVE Cleaned(D, cur, loc)'  OBVIOUS
      <3>1. \A n \in Names : bucket'[n].exists = bucket[n].exists  BY <1>0, BucketWriters
      <3> QED  BY <1>2, <1>3, <3>1 DEF PassUndoes, Cleaned
    <2> QED  BY <1>3, <2>1 DEF PassUndoes
  <1>4. CASE Resolves
    <2>1. pc = "finalize" /\ cur' = cur /\ loc' = loc  BY <1>4 DEF Resolves
    <2>2. loc.spec.className \in Classes  BY <1>1, <2>1
    <2>3. CASE pc' = "removeUser"
      <3>1. cls' = TheClass /\ TheClass # None  BY <1>4, <2>3 DEF Resolves
      <3>2. TheClass.deletionPolicy = "Delete" <=> loc.spec.className \in D
        BY <2>2, <3>1 DEF PolicyKept, TheClass
      <3> QED  BY <2>1, <2>3, <3>1, <3>2 DEF PassUndoes
    <2>4. CASE pc' = "removeFinalizer"
      <3>1. TheClass = None \/ TheClass.provider \in {"unsupported", "awsInvalid"}
        BY <1>4, <2>4 DEF Resolves
      <3>2. loc.spec.className \notin D  BY <2>2, <3>1 DEF PolicyKept, TheClass
      <3> QED  BY <2>1, <2>4, <3>2 DEF PassUndoes, Cleaned
    <2> QED  BY <1>4, <2>3, <2>4 DEF Resolves
  <1>5. CASE Undoes
    <2>1. UNCHANGED <<cur, loc, cls>>  BY <1>5 DEF Undoes
    <2>2. CASE pc = "removeUser"
      <3>1. pc' = "removePolicy"  BY <1>5, <2>2 DEF Undoes
      <3> QED  BY <2>1, <2>2, <3>1 DEF PassUndoes
    <2>3. CASE pc = "removePolicy"
      <3>1. pc' = AfterRevoke(cls)  BY <1>5, <2>3 DEF Undoes
      <3>2. cls.deletionPolicy = "Delete" <=> loc.spec.className \in D
        BY <2>3 DEF PassUndoes
      <3>3. CASE cls.deletionPolicy = "Delete"
        <4>1. pc' = "deleteBucket"  BY <3>1, <3>3 DEF AfterRevoke
        <4> QED  BY <2>1, <3>2, <3>3, <4>1 DEF PassUndoes
      <3>4. CASE cls.deletionPolicy # "Delete"
        <4>1. pc' = "removeFinalizer"  BY <3>1, <3>4 DEF AfterRevoke
        <4> QED  BY <2>1, <3>2, <3>4, <4>1 DEF PassUndoes, Cleaned
      <3> QED  BY <3>3, <3>4
    <2>4. CASE pc = "deleteBucket"
      <3>1. pc' = "removeFinalizer" /\ bucket' = [bucket EXCEPT ![DoomedName] = NoBucket]
        BY <1>5, <2>4 DEF Undoes
      <3>2. ~bucket'[FinalizeName(cur, loc)].exists
        BY <1>0, <1>2, <2>4, <3>1 DEF DoomedName, NoBucket
      <3> QED  BY <2>1, <3>1, <3>2 DEF PassUndoes, Cleaned
    <2> QED  BY <1>5, <2>2, <2>3, <2>4 DEF Undoes
  <1> QED  BY <1>3, <1>4, <1>5, PassMoves DEF Begins, Provides

UndoesInv(D) == LInv /\ PassUndoes(D)

LEMMA UndoesInvInit ==
    ASSUME NEW D \in SUBSET Classes, Init
    PROVE  UndoesInv(D)
  BY InitTracks DEF Init, UndoesInv, PassUndoes

LEMMA UndoesInvStep ==
    ASSUME NEW D \in SUBSET Classes, UndoesInv(D), PolicyKept(D), [Next]_vars
    PROVE  UndoesInv(D)'
  <1>1. LInv'  BY NextTracks DEF UndoesInv
  <1>2. CASE Next  BY <1>1, <1>2, PassUndoesStep DEF UndoesInv
  <1>3. CASE UNCHANGED vars  BY <1>1, <1>3 DEF vars, UndoesInv, PassUndoes, Cleaned
  <1> QED  BY <1>2, <1>3

(* What NoOrphanBucket says of a step.                                     *)
Leaves ==
    \A c \in Claims :
        HasFinalizer(c) /\ claim'[c] = None /\ DeletesBuckets(ClassOf(claim[c]))
        => ~bucket'[BucketNameFor(c, claim[c].spec, ClassOf(claim[c]))].exists

LEMMA LeavesNoBucket ==
    ASSUME NEW D \in SUBSET Classes, UndoesInv(D), PolicyKept(D), NamesMeet, Next
    PROVE  Leaves
  <1> SUFFICES ASSUME NEW c \in Claims, HasFinalizer(c), claim'[c] = None,
                      DeletesBuckets(ClassOf(claim[c]))
               PROVE  ~bucket'[BucketNameFor(c, claim[c].spec, ClassOf(claim[c]))].exists
    BY DEF Leaves
  <1>0. TypeOK /\ InHand /\ IInv  BY DEF UndoesInv, LInv, IInv
  <1>1. c = cur /\ pc = "removeFinalizer" /\ claim[c] = loc
    <2>1. ~HasFinalizer(c)'  BY DEF HasFinalizer
    <2> QED  BY <1>0, <2>1, HeldStays
  <1>2. loc \in ClaimObject  BY <1>0, <1>1 DEF InHand, TypeOK, WorkerOK
  <1>3. loc.spec.className \in Classes  BY <1>2, SpecsAssumption DEF ClaimObject, SpecType
  <1>4. /\ ClassOf(claim[c]) = TheClass /\ TheClass # None
        /\ TheClass.deletionPolicy = "Delete"
    BY <1>1 DEF ClassOf, TheClass, DeletesBuckets
  <1>5. loc.spec.className \in D  BY <1>3, <1>4 DEF PolicyKept, TheClass
  <1>6. ~bucket[FinalizeName(cur, loc)].exists
    BY <1>1, <1>5 DEF UndoesInv, PassUndoes, Cleaned
  <1>7. FinalizeName(cur, loc) \in Names  BY <1>1, <1>2, FinalizeNameType
  <1>8. ~bucket'[FinalizeName(cur, loc)].exists
    BY <1>0, <1>1, <1>6, <1>7, BucketWriters
  <1>9. FinalizeName(cur, loc) = BucketNameFor(cur, loc.spec, TheClass)
    BY <1>1, <1>4 DEF NamesMeet, DoomedName
  <1> QED  BY <1>1, <1>4, <1>8, <1>9

(* When a claim of a class with the policy Delete is gone, so is the       *)
(* bucket made for it, whatever failed, crashed or was read too late.      *)
THEOREM BucketsGoWithClaims ==
    ASSUME NEW D \in SUBSET Classes
    PROVE  Spec /\ []PolicyKept(D) /\ []NamesMeet => NoOrphanBucket
  <1>1. Init => UndoesInv(D)  BY UndoesInvInit
  <1>2. UndoesInv(D) /\ PolicyKept(D) /\ [Next]_vars => UndoesInv(D)'  BY UndoesInvStep
  <1>3. UndoesInv(D) /\ PolicyKept(D) /\ NamesMeet /\ [Next]_vars => [Leaves]_vars
    BY LeavesNoBucket
  <1> QED  BY <1>1, <1>2, <1>3, PTL DEF Spec, NoOrphanBucket, Leaves
-----------------------------------------------------------------------------
(* Which buckets are removed.                                              *)

(* A copy of a claim is never ahead of it.                                 *)
GensGrow ==
    \A c \in Claims :
        cache[c] # None /\ claim[c] # None /\ cache[c].uid = claim[c].uid
        => cache[c].gen <= claim[c].gen

(* A finalizing pass that would remove the finalizer works from the copy   *)
(* that is still in the cache.                                             *)
SawLast ==
    pc \in FinalizeSteps =>
        /\ cache[cur] = loc \/ claim[cur] # loc
        /\ claim[cur] # None /\ claim[cur].uid = loc.uid => loc.gen <= claim[cur].gen

(* When a claim is gone and a copy of it is left that would be finalized   *)
(* once more, or is being, there is nothing left to remove.                *)
CopiesCleaned(D) ==
    \A c \in Claims :
        cache[c] # None /\ cache[c].deleting /\ cache[c].finalizer /\ Gone(c, cache[c])
        => Cleaned(D, c, cache[c])

GoneCleaned(D) == pc \in FinalizeSteps /\ Gone(cur, loc) => Cleaned(D, cur, loc)

RemovalInv(D) ==
    LInv /\ PassUndoes(D) /\ GensGrow /\ SawLast /\ CopiesCleaned(D) /\ GoneCleaned(D)

(* A claim keeps its uid, and its generation does not fall, or it is a new *)
(* one, or it is gone: without ever having been marked for deletion, or by *)
(* the hand of the pass.                                                   *)
LEMMA LivesGoOn ==
    ASSUME IInv, Next, NEW c \in Claims, claim'[c] # claim[c]
    PROVE  \/ claim[c] = None /\ claim'[c] # None /\ claim'[c].uid = uids[c] + 1
           \/ /\ claim[c] # None /\ claim'[c] # None /\ claim'[c].uid = claim[c].uid
              /\ claim[c].gen \in Nat /\ claim'[c].gen >= claim[c].gen
              /\ pc \in FinalizeSteps => claim'[c].gen > claim[c].gen
           \/ claim[c] # None /\ claim'[c] = None /\ ~claim[c].deleting
           \/ /\ c = cur /\ pc = "removeFinalizer" /\ pc' = "idle"
              /\ claim[c] = loc /\ claim'[c] = None
  <1>1. claim \in [Claims -> ClaimObject \cup {None}]  BY DEF IInv, TypeOK, ClaimsOK
  <1>2. claim[c] # None => claim[c].gen \in Nat  BY <1>1 DEF ClaimObject
  <1>3. pc \in ProvisionSteps \/ pc = "idle" => pc \notin FinalizeSteps
    BY DEF ProvisionSteps, FinalizeSteps, Calls
  <1>4. pc = "updateStatus" => pc \in ProvisionSteps  BY DEF ProvisionSteps
  <1> QED  BY <1>2, <1>3, <1>4, ClaimFates DEF Fate, SameLife

LEMMA GensGrowStep ==
    ASSUME IInv, GensGrow, Next
    PROVE  GensGrow'
  <1> SUFFICES ASSUME NEW c \in Claims, cache'[c] # None, claim'[c] # None,
                      cache'[c].uid = claim'[c].uid
               PROVE  cache'[c].gen <= claim'[c].gen
    BY DEF GensGrow
  <1>0. /\ claim \in [Claims -> ClaimObject \cup {None}]
        /\ cache \in [Claims -> ClaimObject \cup {None}]
        /\ uids \in [Claims -> Nat]
    BY DEF IInv, TypeOK, ClaimsOK
  <1>1. /\ claim[c] # None => claim[c].gen \in Nat
        /\ cache[c] # None => cache[c].gen \in Nat /\ cache[c].uid \in Nat
    BY <1>0 DEF ClaimObject
  <1>2. CASE cache'[c] = claim[c] /\ claim' = claim  BY <1>1, <1>2
  <1>3. CASE cache'[c] = cache[c] /\ claim'[c] = claim[c]  BY <1>3 DEF GensGrow
  <1>4. CASE cache'[c] = cache[c] /\ claim'[c] # claim[c]
    <2>1. cache[c].uid <= uids[c] /\ uids[c] \in Nat
      BY <1>0, <1>4 DEF IInv, Guarding, UidsGrow
    <2>2. claim[c] # None /\ claim'[c].uid = claim[c].uid /\ claim'[c].gen >= claim[c].gen
      BY <1>1, <1>4, <2>1, LivesGoOn
    <2>3. cache[c].gen <= claim[c].gen  BY <1>4, <2>2 DEF GensGrow
    <2>4. claim'[c].gen \in Nat
      <3>1. IInv'  BY NextSafe
      <3> QED  BY <3>1 DEF IInv, TypeOK, ClaimsOK, ClaimObject
    <2> QED  BY <1>1, <1>4, <2>2, <2>3, <2>4
  <1> QED  BY <1>0, <1>2, <1>3, <1>4, CacheWriters

LEMMA SawLastStep ==
    ASSUME LInv, GensGrow, SawLast, Next
    PROVE  SawLast'
  <1> SUFFICES ASSUME pc' \in FinalizeSteps PROVE SawLast'  BY DEF SawLast
  <1>0. /\ IInv /\ InHand /\ cur \in Claims
        /\ claim \in [Claims -> ClaimObject \cup {None}]
        /\ cache \in [Claims -> ClaimObject \cup {None}]
        /\ loc \in ClaimObject \cup {None} /\ uids \in [Claims -> Nat]
    BY DEF LInv, IInv, TypeOK, ClaimsOK, WorkerOK
  <1>1. CASE Begins /\ pc' = "finalize"
    <2>1. /\ cur' \in Claims /\ loc' = cache[cur'] /\ cache[cur'] # None
          /\ claim' = claim /\ cache' = cache
      BY <1>1 DEF Begins
    <2> QED  BY <2>1 DEF SawLast, GensGrow
  <1>2. CASE pc \in FinalizeSteps /\ cur' = cur /\ loc' = loc
    <2>1. PICK c \in Claims : c = cur  BY <1>0
    <2>2. /\ loc \in ClaimObject /\ loc # None /\ loc.gen \in Nat /\ loc.uid \in Nat
          /\ loc.uid <= uids[c] /\ uids[c] \in Nat
      BY <1>0, <1>2, <2>1 DEF InHand, FinalizeSteps, ClaimObject, IInv, Guarding, PassFinalizes
    <2>3. CASE claim'[c] = claim[c]
      <3>1. cache'[c] = cache[c] \/ cache'[c] = claim[c]  BY <1>0, <2>1, CacheWriters
      <3> QED  BY <1>2, <2>1, <2>3, <3>1 DEF SawLast
    <2>4. CASE claim'[c] # claim[c]
      <3>1. claim'[c] # None => claim'[c].gen \in Nat
        <4>1. IInv'  BY <1>0, NextSafe
        <4> QED  BY <4>1 DEF IInv, TypeOK, ClaimsOK, ClaimObject
      <3>2. claim'[c] # None /\ claim'[c].uid = loc.uid => loc.gen < claim'[c].gen
        <4> SUFFICES ASSUME claim'[c] # None, claim'[c].uid = loc.uid
                     PROVE  loc.gen < claim'[c].gen
          OBVIOUS
        <4>1. /\ claim[c] # None /\ claim[c].uid = loc.uid /\ claim[c].gen \in Nat
              /\ claim'[c].gen > claim[c].gen
          BY <1>0, <1>2, <2>2, <2>4, LivesGoOn
        <4>2. loc.gen <= claim[c].gen  BY <1>2, <2>1, <4>1 DEF SawLast
        <4> QED  BY <2>2, <3>1, <4>1, <4>2
      <3>3. claim'[c] # loc  BY <2>2, <3>2
      <3> QED  BY <1>2, <2>1, <2>2, <3>1, <3>2, <3>3 DEF SawLast
    <2> QED  BY <2>3, <2>4
  <1> QED  BY <1>1, <1>2, StillFinalizing

(* A bucket comes to exist only by the hand of a providing pass.           *)
LEMMA AbsentStays ==
    ASSUME TypeOK, InHand, Next, NEW n \in Names, ~bucket[n].exists,
           pc = "createBucket" => TheBucket # n
    PROVE  ~bucket'[n].exists
  BY BucketWriters

LEMMA CopiesCleanedStep ==
    ASSUME NEW D \in SUBSET Classes, RemovalInv(D), Apart, Next
    PROVE  CopiesCleaned(D)'
  <1> SUFFICES ASSUME NEW c \in Claims, cache'[c] # None, cache'[c].deleting,
                      cache'[c].finalizer,
                      ~(claim'[c] # None /\ claim'[c].uid = cache'[c].uid)
               PROVE  Cleaned(D, c, cache[c])'
    BY DEF CopiesCleaned, Gone
  <1>0. /\ LInv /\ IInv /\ TypeOK /\ InHand /\ cur \in Claims /\ SawLast
        /\ claim \in [Claims -> ClaimObject \cup {None}]
        /\ cache \in [Claims -> ClaimObject \cup {None}]
    BY DEF RemovalInv, LInv, IInv, TypeOK, ClaimsOK, WorkerOK
  <1>1. cache'[c] = cache[c]  BY <1>0, CacheWriters
  <1>2. FinalizeName(c, cache[c]) \in Names  BY <1>0, <1>1, FinalizeNameType
  <1>3. CASE Gone(c, cache[c])
    <2>1. Cleaned(D, c, cache[c])  BY <1>1, <1>3 DEF RemovalInv, CopiesCleaned
    <2>2. pc = "createBucket" => TheBucket # FinalizeName(c, cache[c])
      <3> SUFFICES ASSUME pc = "createBucket" PROVE TheBucket # FinalizeName(c, cache[c])
        OBVIOUS
      <3>1. HasFinalizer(cur)
        BY <1>0 DEF IInv, Guarding, PassHoldsFinalizer, ProvisionSteps, Calls
      <3>2. ~Gone(cur, cache[cur])
        BY <1>0, <3>1 DEF LInv, Tracking, SeenWhenHeld, HasFinalizer, Gone
      <3> QED  BY <1>1, <1>3, <3>2 DEF Apart
    <2> QED  BY <1>0, <1>1, <1>2, <2>1, <2>2, AbsentStays DEF Cleaned
  <1>4. CASE ~Gone(c, cache[c])
    <2>1. claim[c] # None /\ claim[c].uid = cache[c].uid  BY <1>4 DEF Gone
    <2>2. claim[c].deleting  BY <1>0, <1>1, <2>1 DEF IInv, Guarding, DeletionKnown
    <2>3. c = cur /\ pc = "removeFinalizer" /\ claim[c] = loc
      BY <1>0, <1>1, <2>1, <2>2, LivesGoOn
    <2>4. cache[c] = loc  BY <1>0, <2>3 DEF SawLast, FinalizeSteps
    <2>5. Cleaned(D, c, cache[c])  BY <2>3, <2>4 DEF RemovalInv, PassUndoes
    <2> QED  BY <1>0, <1>1, <1>2, <2>3, <2>5, AbsentStays DEF Cleaned
  <1> QED  BY <1>3, <1>4

LEMMA GoneCleanedStep ==
    ASSUME NEW D \in SUBSET Classes, RemovalInv(D), Next
    PROVE  GoneCleaned(D)'
  <1> SUFFICES ASSUME pc' \in FinalizeSteps, Gone(cur, loc)' PROVE Cleaned(D, cur, loc)'
    BY DEF GoneCleaned
  <1>0. /\ LInv /\ IInv /\ TypeOK /\ InHand /\ cur \in Claims
        /\ cache \in [Claims -> ClaimObject \cup {None}]
        /\ loc \in ClaimObject \cup {None}
    BY DEF RemovalInv, LInv, IInv, TypeOK, ClaimsOK, WorkerOK
  <1>1. CASE Begins /\ pc' = "finalize"
    <2>1. PICK c \in Claims : c = cur'  BY <1>1 DEF Begins
    <2>2. /\ loc' = cache[c] /\ cache[c] # None /\ cache[c].deleting /\ cache[c].finalizer
          /\ claim' = claim /\ pc = "idle"
      BY <1>1, <2>1 DEF Begins
    <2>3. Cleaned(D, c, cache[c])
      BY <2>1, <2>2 DEF RemovalInv, CopiesCleaned, Gone
    <2>4. FinalizeName(c, cache[c]) \in Names  BY <1>0, <2>2, FinalizeNameType
    <2> QED  BY <1>0, <2>1, <2>2, <2>3, <2>4, AbsentStays DEF Cleaned
  <1>2. CASE pc \in FinalizeSteps /\ cur' = cur /\ loc' = loc
    <2>1. pc # "createBucket" /\ pc # "idle"  BY <1>2 DEF FinalizeSteps
    <2>2. FinalizeName(cur, loc) \in Names  BY <1>0, <2>1, FinalizeNameType DEF InHand
    <2>3. Gone(cur, loc)
      <3>1. SUFFICES ASSUME claim[cur] # None, claim[cur].uid = loc.uid PROVE FALSE
        BY DEF Gone
      <3>2. claim[cur].deleting  BY <1>0, <1>2, <3>1 DEF IInv, Guarding, PassFinalizes
      <3>3. ~(claim'[cur] # None /\ claim'[cur].uid = loc.uid)  BY <1>2 DEF Gone
      <3>4. pc' # "idle"  BY DEF FinalizeSteps
      <3> QED  BY <1>0, <3>1, <3>2, <3>3, <3>4, LivesGoOn
    <2>4. Cleaned(D, cur, loc)  BY <1>2, <2>3 DEF RemovalInv, GoneCleaned
    <2> QED  BY <1>0, <1>2, <2>1, <2>2, <2>4, AbsentStays DEF Cleaned
  <1> QED  BY <1>1, <1>2, StillFinalizing

LEMMA RemovalInvStep ==
    ASSUME NEW D \in SUBSET Classes, RemovalInv(D), PolicyKept(D), Apart, [Next]_vars
    PROVE  RemovalInv(D)'
  <1>1. LInv'  BY NextTracks DEF RemovalInv
  <1>2. CASE Next
    <2>1. LInv /\ IInv  BY DEF RemovalInv, LInv
    <2> QED
      BY <1>1, <1>2, <2>1, PassUndoesStep, GensGrowStep, SawLastStep, CopiesCleanedStep,
         GoneCleanedStep
      DEF RemovalInv
  <1>3. CASE UNCHANGED vars
    BY <1>1, <1>3 DEF vars, RemovalInv, PassUndoes, GensGrow, SawLast, CopiesCleaned,
                      GoneCleaned, Gone, Cleaned
  <1> QED  BY <1>2, <1>3

LEMMA RemovalInvInit ==
    ASSUME NEW D \in SUBSET Classes, Init
    PROVE  RemovalInv(D)
  <1>1. LInv  BY InitTracks
  <1> QED
    BY <1>1 DEF Init, RemovalInv, PassUndoes, GensGrow, SawLast, CopiesCleaned,
                GoneCleaned, FinalizeSteps

(* What BucketRemovedOnRequest says of a step.                             *)
Asked ==
    (\E n \in Names : bucket[n].exists /\ ~bucket'[n].exists)
    => /\ HasFinalizer(cur) /\ claim[cur].deleting /\ claim[cur].uid = loc.uid
       /\ cls.deletionPolicy = "Delete"

LEMMA RemovalIsAsked ==
    ASSUME NEW D \in SUBSET Classes, RemovalInv(D), Next
    PROVE  Asked
  <1> SUFFICES ASSUME NEW n \in Names, bucket[n].exists, ~bucket'[n].exists
               PROVE  /\ HasFinalizer(cur) /\ claim[cur].deleting /\ claim[cur].uid = loc.uid
                      /\ cls.deletionPolicy = "Delete"
    BY DEF Asked
  <1>0. LInv /\ IInv /\ TypeOK /\ InHand /\ cur \in Claims
    BY DEF RemovalInv, LInv, IInv, TypeOK, WorkerOK
  <1>1. pc = "deleteBucket" /\ n = DoomedName  BY <1>0, BucketWriters
  <1>2. cls.deletionPolicy = "Delete" /\ loc.spec.className \in D
    BY <1>1 DEF RemovalInv, PassUndoes
  <1>3. ~Cleaned(D, cur, loc)  BY <1>1, <1>2 DEF Cleaned, DoomedName
  <1>4. claim[cur] # None /\ claim[cur].uid = loc.uid
    BY <1>1, <1>3 DEF RemovalInv, GoneCleaned, Gone, FinalizeSteps
  <1>5. claim[cur].deleting
    BY <1>0, <1>1, <1>4 DEF IInv, Guarding, PassFinalizes, FinalizeSteps
  <1>6. HasFinalizer(cur)
    BY <1>0, <1>4, <1>5 DEF LInv, Tracking, NewIsBlank, HasFinalizer
  <1> QED  BY <1>2, <1>4, <1>5, <1>6

(* A bucket is removed only for a claim its user has deleted, in the       *)
(* incarnation that was deleted, and under the Delete policy, although     *)
(* passes that start from a stale copy, or that are repeated after a crash *)
(* or a failure, come to the call again when the claim is gone or another  *)
(* of its name is there.                                                   *)
THEOREM BucketsGoOnRequest ==
    ASSUME NEW D \in SUBSET Classes
    PROVE  Spec /\ []PolicyKept(D) /\ []Apart => BucketRemovedOnRequest
  <1>1. Init => RemovalInv(D)  BY RemovalInvInit
  <1>2. RemovalInv(D) /\ PolicyKept(D) /\ Apart /\ [Next]_vars => RemovalInv(D)'
    BY RemovalInvStep
  <1>3. RemovalInv(D) /\ [Next]_vars => [Asked]_vars  BY RemovalIsAsked
  <1> QED  BY <1>1, <1>2, <1>3, PTL DEF Spec, BucketRemovedOnRequest, Asked
-----------------------------------------------------------------------------
(* The conditions above on what passes meet follow from conditions on what *)
(* users and administrators write.                                         *)

(* Claims and classes ask for no bucket name, so each claim gets           *)
(* "<namespace>-<name>", which is in lower case, as Kubernetes' names are, *)
(* and not that of another claim, as "a-b"/"c" and "a"/"b-c" would be.     *)
PlainNames ==
    /\ \A s \in Specs : s.bucketName = None
    /\ \A k \in Classes : InitClass[k] # None => InitClass[k].bucketName = None
    /\ \A v \in ClassVersions : v # None => v.bucketName = None
    /\ \A c \in Claims : Canon[DefaultName[c]] = DefaultName[c]
    /\ \A c, d \in Claims : DefaultName[c] = DefaultName[d] => c = d

(* Every class exists and is supported, and an edit changes neither that   *)
(* nor its deletion policy; it may change the driver, and whether the      *)
(* credentials are there and valid.                                        *)
Steady(k, v) ==
    /\ v # None /\ v.provider \notin {"unsupported", "awsInvalid"}
    /\ v.deletionPolicy = InitClass[k].deletionPolicy

SteadyClasses ==
    \A k \in Classes :
        /\ Steady(k, InitClass[k])
        /\ "class" \in Disturbances => \A v \in ClassVersions : Steady(k, v)

DeletingClasses == {k \in Classes : InitClass[k].deletionPolicy = "Delete"}

OwnName(c, n) == n = None \/ n = DefaultName[c]

(* Only the names of the claims' own are in use.                           *)
NamesOwn ==
    /\ \A k \in Classes : Steady(k, class[k]) /\ class[k].bucketName = None
    /\ \A c \in Claims : claim[c] # None => OwnName(c, claim[c].bucketName)
    /\ \A c \in Claims : cache[c] # None => OwnName(c, cache[c].bucketName)
    /\ pc \in FinalizeSteps => OwnName(cur, loc.bucketName)
    /\ pc \in NeedsClass => cls.bucketName = None

LEMMA NamesOwnMean ==
    ASSUME IInv, NamesOwn, PlainNames
    PROVE  /\ pc \in Making => TheBucket = DefaultName[cur]
           /\ \A c \in Claims : cache[c] # None => FinalizeName(c, cache[c]) = DefaultName[c]
           /\ pc \in FinalizeSteps => DoomedName = DefaultName[cur]
           /\ pc \in FinalizeSteps
              => BucketNameFor(cur, loc.spec, TheClass) = DefaultName[cur]
  <1>0. /\ TypeOK /\ InHand /\ cur \in Claims
        /\ cache \in [Claims -> ClaimObject \cup {None}] /\ loc \in ClaimObject \cup {None}
    BY DEF IInv, TypeOK, ClaimsOK, WorkerOK
  <1>1. pc # "idle" => /\ loc.spec \in Specs /\ loc.spec.bucketName = None
                       /\ loc.spec.className \in Classes
    BY <1>0, SpecsAssumption DEF InHand, ClaimObject, PlainNames, SpecType
  <1>2. pc \in Making => pc # "idle" /\ pc \in NeedsClass
    BY DEF Making, NeedsClass, ProvisionSteps, Calls
  <1>3. pc \in FinalizeSteps => pc # "idle"  BY DEF FinalizeSteps
  <1>4. Canon[DefaultName[cur]] = DefaultName[cur]  BY <1>0 DEF PlainNames
  <1>5. pc \in Making => TheBucket = DefaultName[cur]
    BY <1>1, <1>2, <1>4 DEF TheBucket, BucketNameFor, NamesOwn
  <1>6. ASSUME NEW c \in Claims, cache[c] # None
        PROVE  FinalizeName(c, cache[c]) = DefaultName[c]
    <2>1. cache[c].spec.bucketName = None  BY <1>0, <1>6 DEF ClaimObject, PlainNames
    <2> QED  BY <1>6, <2>1 DEF NamesOwn, OwnName, FinalizeName
  <1>7. pc \in FinalizeSteps => DoomedName = DefaultName[cur]
    BY <1>1, <1>3 DEF DoomedName, FinalizeName, NamesOwn, OwnName
  <1>8. pc \in FinalizeSteps => BucketNameFor(cur, loc.spec, TheClass) = DefaultName[cur]
    BY <1>1, <1>3, <1>4 DEF BucketNameFor, TheClass, NamesOwn
  <1> QED  BY <1>5, <1>6, <1>7, <1>8

LEMMA ClassWriters ==
    ASSUME Next
    PROVE  \/ class' = class
           \/ /\ "class" \in Disturbances
              /\ \E k \in Classes, v \in ClassVersions : class' = [class EXCEPT ![k] = v]
  BY DEF Next, WorkerStep, Start, Environment, Background, Skip, Disturb,
         GetClassFails, ForeignDriver, ProviderFails, BeginProvisioning, CreateBucket,
         SetBucketQuota, SetBucketLifecycle, SetBucketReplication, AddUser, AddCannedPolicy,
         SetPolicy, UpdateStatus, ReconcileSecret, EnsureCosiBucket, FinalizeResolve,
         RemoveUser, RemoveCannedPolicy, DeleteBucket, RemoveFinalizer, ReconcileNothing,
         ReconcileDeletion, ReconcileProvision, CreateClaim, EditClaim, DeleteClaim,
         EditSecret, EditClass, Crash, SyncClaim, SyncSecret, CollectSecret, Resync

LEMMA NamesOwnStep ==
    ASSUME IInv, NamesOwn, PlainNames, SteadyClasses, Next
    PROVE  NamesOwn'
  <1>0. /\ TypeOK /\ InHand /\ cur \in Claims /\ class \in [Classes -> ClassObject \cup {None}]
        /\ claim \in [Claims -> ClaimObject \cup {None}]
        /\ cache \in [Claims -> ClaimObject \cup {None}] /\ loc \in ClaimObject \cup {None}
    BY DEF IInv, TypeOK, ClaimsOK, WorkerOK
  <1>1. ASSUME NEW k \in Classes PROVE Steady(k, class'[k]) /\ class'[k].bucketName = None
    <2>1. CASE class' = class  BY <2>1 DEF NamesOwn
    <2>2. ASSUME "class" \in Disturbances, NEW d \in Classes, NEW v \in ClassVersions,
                 class' = [class EXCEPT ![d] = v]
          PROVE  Steady(k, class'[k]) /\ class'[k].bucketName = None
      <3>1. Steady(k, v) /\ v # None  BY <2>2 DEF SteadyClasses, Steady
      <3>2. v.bucketName = None  BY <3>1 DEF PlainNames
      <3>3. class'[k] = v \/ class'[k] = class[k]  BY <1>0, <2>2
      <3> QED  BY <3>1, <3>2, <3>3 DEF NamesOwn
    <2> QED  BY <2>1, <2>2, ClassWriters
  <1>2. ASSUME NEW c \in Claims, claim'[c] # None PROVE OwnName(c, claim'[c].bucketName)
    <2>1. pc = "updateStatus" => TheBucket = DefaultName[cur]
      BY NamesOwnMean DEF Making, ProvisionSteps, Calls
    <2> QED  BY <1>2, <2>1, ClaimFates DEF Fate, SameLife, NamesOwn, OwnName
  <1>3. ASSUME NEW c \in Claims, cache'[c] # None PROVE OwnName(c, cache'[c].bucketName)
    BY <1>0, <1>3, CacheWriters DEF NamesOwn
  <1>4. ASSUME pc' \in FinalizeSteps PROVE OwnName(cur', loc'.bucketName)
    BY <1>4, StillFinalizing DEF Begins, NamesOwn
  <1>5. ASSUME pc' \in NeedsClass PROVE cls'.bucketName = None
    <2>1. CASE UNCHANGED workerVars  BY <1>5, <2>1 DEF NamesOwn
    <2>2. CASE Resolves
      <3>1. pc # "idle" /\ cls' = TheClass
        BY <1>5, <2>2 DEF Resolves, NeedsClass, ProvisionSteps, Calls
      <3>2. loc.spec.className \in Classes
        BY <1>0, <3>1, SpecsAssumption DEF InHand, ClaimObject, SpecType
      <3> QED  BY <3>1, <3>2 DEF TheClass, NamesOwn
    <2>3. CASE Provides \/ Undoes
      BY <2>3 DEF Provides, Undoes, NamesOwn, NeedsClass, ProvisionSteps, Calls
    <2>4. CASE pc = "updateStatus" /\ pc' = "cosiBucket" /\ UNCHANGED <<cur, cls, cred>>
      BY <2>4 DEF NamesOwn, NeedsClass, ProvisionSteps
    <2>5. CASE pc' = "idle" \/ Begins
      BY <1>5, <2>5 DEF Begins, NeedsClass, ProvisionSteps, Calls
    <2> QED  BY <2>1, <2>2, <2>3, <2>4, <2>5, PassMoves
  <1> QED  BY <1>1, <1>2, <1>3, <1>4, <1>5 DEF NamesOwn

LEMMA PlainConditions ==
    ASSUME PlainNames, SteadyClasses
    PROVE  Spec => /\ []OwnBuckets(DefaultName) /\ []ClassesUp
                   /\ []PolicyKept(DeletingClasses) /\ []Apart /\ []NamesMeet
  <1>1. Init => IInv /\ NamesOwn
    <2> SUFFICES ASSUME Init PROVE NamesOwn  BY InitSafe
    <2>1. \A k \in Classes : Steady(k, class[k]) /\ class[k].bucketName = None
      BY DEF Init, SteadyClasses, Steady, PlainNames
    <2> QED
      BY <2>1 DEF Init, NamesOwn, FinalizeSteps, NeedsClass, ProvisionSteps, Calls
  <1>2. IInv /\ NamesOwn /\ [Next]_vars => (IInv /\ NamesOwn)'
    <2>1. ASSUME IInv, NamesOwn, Next PROVE NamesOwn'  BY <2>1, NamesOwnStep
    <2>2. ASSUME NamesOwn, UNCHANGED vars PROVE NamesOwn'
      BY <2>2 DEF vars, NamesOwn
    <2> QED  BY <2>1, <2>2, NextSafe
  <1>3. ASSUME IInv, NamesOwn
        PROVE  /\ OwnBuckets(DefaultName) /\ ClassesUp
               /\ PolicyKept(DeletingClasses) /\ Apart /\ NamesMeet
    <2>0. cur \in Claims  BY <1>3 DEF IInv, TypeOK, WorkerOK
    <2>1. OwnBuckets(DefaultName)
      BY <1>3, <2>0, NamesOwnMean DEF OwnBuckets, PlainNames, FinalizeSteps
    <2>2. ClassesUp  BY <1>3 DEF ClassesUp, NamesOwn, Steady
    <2>3. PolicyKept(DeletingClasses)
      BY <1>3 DEF PolicyKept, DeletingClasses, NamesOwn, Steady
    <2>4. pc = "createBucket" => TheBucket = DefaultName[cur]
      BY <1>3, NamesOwnMean DEF Making, ProvisionSteps, Calls
    <2>5. Apart  BY <1>3, <2>0, <2>4, NamesOwnMean DEF Apart, PlainNames
    <2>6. NamesMeet  BY <1>3, NamesOwnMean DEF NamesMeet, FinalizeSteps
    <2> QED  BY <2>1, <2>2, <2>3, <2>5, <2>6
  <1>4. IInv /\ NamesOwn => /\ OwnBuckets(DefaultName) /\ ClassesUp
                            /\ PolicyKept(DeletingClasses) /\ Apart /\ NamesMeet
    BY <1>3
  <1> QED  BY <1>1, <1>2, <1>4, PTL DEF Spec

(* Where nobody asks for bucket names, keys differ and Secrets are left    *)
(* alone, every claim that is Bound for its generation can be used.        *)
THEOREM PlainClaimsWork ==
    ASSUME PlainNames, SteadyClasses, OwnKeys, SecretsLeftAlone
    PROVE  Spec => []BoundIsUsable
  <1> DEFINE Inv == BoundInv(DefaultName)
             Own == OwnBuckets(DefaultName)
  <1>0. DefaultName \in [Claims -> Names]  BY NamesAssumption
  <1>1. Init => Inv  BY <1>0, BoundInvInit
  <1>2. Inv /\ Own /\ [Next]_vars => Inv'  BY <1>0, BoundInvStep
  <1>3. Inv => BoundIsUsable  BY <1>0, UsableIsUsable
  <1>4. Spec => []Own  BY PlainConditions, PTL
  <1> HIDE DEF Inv, Own
  <1> QED  BY <1>1, <1>2, <1>3, <1>4, PTL DEF Spec

(* Where nobody asks for bucket names, and classes are kept as they are    *)
(* but for their driver and credentials, a claim of a class with the       *)
(* policy Delete takes its bucket along, and no other bucket is removed.   *)
THEOREM PlainBucketsGo ==
    ASSUME PlainNames, SteadyClasses
    PROVE  Spec => NoOrphanBucket /\ BucketRemovedOnRequest
  <1> DEFINE D == DeletingClasses
  <1>0. D \in SUBSET Classes  BY DEF DeletingClasses
  <1>1. Init => UndoesInv(D) /\ RemovalInv(D)  BY <1>0, UndoesInvInit, RemovalInvInit
  <1>2. UndoesInv(D) /\ PolicyKept(D) /\ [Next]_vars => UndoesInv(D)'
    BY <1>0, UndoesInvStep
  <1>3. UndoesInv(D) /\ PolicyKept(D) /\ NamesMeet /\ [Next]_vars => [Leaves]_vars
    BY <1>0, LeavesNoBucket
  <1>4. RemovalInv(D) /\ PolicyKept(D) /\ Apart /\ [Next]_vars => RemovalInv(D)'
    BY <1>0, RemovalInvStep
  <1>5. RemovalInv(D) /\ [Next]_vars => [Asked]_vars  BY <1>0, RemovalIsAsked
  <1>6. Spec => []PolicyKept(D) /\ []Apart /\ []NamesMeet  BY PlainConditions, PTL
  <1> HIDE DEF D
  <1> QED
    BY <1>1, <1>2, <1>3, <1>4, <1>5, <1>6, PTL
    DEF Spec, NoOrphanBucket, BucketRemovedOnRequest, Leaves, Asked

(* There, and if Secrets are left alone and revocations do not fail, no    *)
(* MinIO user outlives its claim.                                          *)
THEOREM PlainUsersGo ==
    ASSUME PlainNames, SteadyClasses, SecretsLeftAlone, RevocationsWork
    PROVE  Spec => []NoOrphanUser
  <1>1. Spec /\ []ClassesUp => []NoOrphanUser  BY UsersGoWithClaims
  <1>2. Spec => []ClassesUp  BY PlainConditions, PTL
  <1> QED  BY <1>1, <1>2, PTL
=============================================================================
