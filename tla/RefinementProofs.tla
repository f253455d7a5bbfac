-------------------------- MODULE RefinementProofs --------------------------
(***************************************************************************)
(* BucketClaimController implements ClaimLifecycle, for every set of       *)
(* claims, classes, names, keys and specs and all bounds.                  *)
(*                                                                         *)
(* IInv of BucketClaimProofs does not say enough for the mapping: what the *)
(* status of a claim may say before it has the finalizer, which claims a   *)
(* finalizing pass can meet, and what the backend has at the time the      *)
(* status is written.  Tracking adds that.                                 *)
(***************************************************************************)
EXTENDS ClaimRefinement, BucketClaimProofs

(* The informer has seen every claim that has the finalizer: the worker    *)
(* added it to the copy it read.                                           *)
SeenWhenHeld ==
    \A c \in Claims : HasFinalizer(c) => cache[c] # None /\ cache[c].uid = claim[c].uid

(* A claim without the finalizer has no status to speak of, and no         *)
(* deletion mark: it would be gone.                                        *)
NewIsBlank ==
    \A c \in Claims :
        claim[c] # None /\ ~claim[c].finalizer
        => claim[c].bucketName = None /\ claim[c].phase # "Bound" /\ ~claim[c].deleting

(* The claim a finalizing pass meets is the one it read, or one that has   *)
(* no finalizer yet.                                                       *)
MeetsItsOwn ==
    pc \in FinalizeSteps /\ HasFinalizer(cur) => claim[cur].uid = loc.uid

AfterCreate == {"setQuota", "setLifecycle", "setReplication", "addUser", "addPolicy",
                "setPolicy", "writeSecret", "updateStatus"}
AfterAdd    == {"addPolicy", "setPolicy", "writeSecret", "updateStatus"}

(* The bucket and the user of the pass exist once it has made them.        *)
MadeSoFar ==
    /\ pc \in AfterCreate => bucket[TheBucket].exists
    /\ pc \in AfterAdd => user[cred.id].secret # None

Tracking == SeenWhenHeld /\ NewIsBlank /\ MeetsItsOwn /\ MadeSoFar
LInv == IInv /\ Tracking
-----------------------------------------------------------------------------
(* The invariant Tracking.                                                 *)
USE DEF claimVars, secretVars, minioVars, workerVars

LEMMA KeepingTracks ==
    ASSUME IInv, Tracking, KeepsLives, KeepsPass
    PROVE  SeenWhenHeld' /\ MeetsItsOwn'
  <1>1. SeenWhenHeld'
    BY DEF Tracking, SeenWhenHeld, KeepsLives, HasFinalizer
  <1>2. CASE pc' \notin FinalizeSteps  BY <1>1, <1>2 DEF MeetsItsOwn
  <1>3. CASE pc' \in FinalizeSteps
    <2>1. pc' # "idle" /\ cur \in Claims  BY <1>3 DEF FinalizeSteps, IInv, TypeOK, WorkerOK
    <2>2. pc \in FinalizeSteps /\ cur' = cur /\ loc' = loc  BY <1>3, <2>1 DEF KeepsPass
    <2> QED  BY <1>1, <2>1, <2>2 DEF Tracking, MeetsItsOwn, KeepsLives, HasFinalizer
  <1> QED  BY <1>2, <1>3

LEMMA WriteKeepsBlank ==
    ASSUME TypeOK, NewIsBlank, NEW c \in Claims, NEW o, WriteClaim(c, o),
           o # None /\ ~o.finalizer
           => o.bucketName = None /\ o.phase # "Bound" /\ ~o.deleting
    PROVE  NewIsBlank'
  <1>1. claim'[c] = o /\ \A d \in Claims \ {c} : claim'[d] = claim[d]
    BY DEF WriteClaim, TypeOK, ClaimsOK
  <1> QED  BY <1>1 DEF NewIsBlank

(* A note is written on the claim as it is, and only while it is neither   *)
(* deleted nor bound.                                                      *)
LEMMA NotedWrites ==
    ASSUME IInv, Noted
    PROVE  \/ claim' = claim
           \/ /\ claim[cur] \in ClaimObject /\ ~claim[cur].deleting /\ claim[cur].phase # "Bound"
              /\ claim[cur] # None
              /\ \E o : /\ WriteClaim(cur, o) /\ o # None
                        /\ o.phase # "Bound" /\ o.deleting = claim[cur].deleting
                        /\ o.finalizer = claim[cur].finalizer
                        /\ o.bucketName = claim[cur].bucketName
  <1>1. PICK phase \in {"Pending", "Failed"}, why \in Why : Note(cur, phase, why)  BY DEF Noted
  <1>2. phase \in Phases /\ phase # "Bound"  BY DEF Phases
  <1>3. cur \in Claims  BY DEF IInv, TypeOK, WorkerOK
  <1>4. CASE MayNote(cache[cur]) /\ fresh[cur]
    <2>1. /\ cache[cur] = claim[cur] /\ claim[cur] \in ClaimObject /\ ~claim[cur].deleting
          /\ claim[cur].phase # "Bound" /\ claim[cur] # None
      BY <1>3, <1>4 DEF MayNote, IInv, Coherent, TypeOK, ClaimsOK
    <2> DEFINE o == NotReadyStatus(claim[cur], phase, why)
    <2>2. WriteClaim(cur, o)  BY <1>1, <1>4, <2>1 DEF Note
    <2>3. o \in ClaimObject /\ o.deleting = claim[cur].deleting
          /\ o.finalizer = claim[cur].finalizer /\ o.bucketName = claim[cur].bucketName
      BY <1>2, <2>1, NotReadyStatusType
    <2>4. o # None /\ o.phase # "Bound"
      BY <1>2, <2>1, <2>3, NoneAssumption DEF NotReadyStatus, ClaimObject
    <2> QED  BY <2>1, <2>2, <2>3, <2>4
  <1>5. CASE ~(MayNote(cache[cur]) /\ fresh[cur])  BY <1>1, <1>5 DEF Note
  <1> QED  BY <1>4, <1>5

LEMMA BlankStep ==
    ASSUME LInv, Next
    PROVE  NewIsBlank'
  <1> USE DEF LInv, IInv, Tracking
  <1>1. CASE claim' = claim  BY <1>1 DEF NewIsBlank
  <1>2. cur \in Claims  BY DEF TypeOK, WorkerOK
  <1>3. CASE Noted
    <2>1. CASE \E o : /\ WriteClaim(cur, o)
                      /\ o.phase # "Bound" /\ o.deleting = claim[cur].deleting
                      /\ o.finalizer = claim[cur].finalizer
                      /\ o.bucketName = claim[cur].bucketName
                      /\ claim[cur] # None
      BY <1>2, <2>1, WriteKeepsBlank DEF NewIsBlank
    <2> QED  BY <1>1, <1>3, <2>1, NotedWrites
  <1>4. CASE UpdateStatus
    <2>1. CASE cache[cur] # None /\ fresh[cur] /\ WriteClaim(cur, BoundStatus(cache[cur], TheBucket))
      <3>1. pc \in ProvisionSteps /\ pc \in NeedsClass
        BY <1>4 DEF UpdateStatus, ProvisionSteps, NeedsClass
      <3>2. cache[cur] = claim[cur] /\ claim[cur] \in ClaimObject /\ claim[cur].finalizer
            /\ TheBucket \in Names
        BY <1>2, <2>1, <3>1, InHandTypes DEF Coherent, TypeOK, ClaimsOK, Guarding,
           PassHoldsFinalizer, HasFinalizer
      <3> QED  BY <1>2, <2>1, <3>2, BoundStatusType, WriteKeepsBlank
    <2> QED  BY <1>1, <1>4, <2>1 DEF UpdateStatus
  <1>5. CASE RemoveFinalizer
    <2>1. CASE WriteClaim(cur, None)  BY <1>2, <2>1, WriteKeepsBlank
    <2> QED  BY <1>1, <1>5, <2>1 DEF RemoveFinalizer
  <1>6. ASSUME NEW c \in Claims, ReconcileProvision(c) PROVE NewIsBlank'
    <2>1. CASE WriteClaim(c, WithFinalizer(cache[c]))
      <3>1. cache[c] \in ClaimObject  BY <1>6 DEF ReconcileProvision, TypeOK, ClaimsOK
      <3> QED  BY <2>1, <3>1, WithFinalizerType, WriteKeepsBlank
    <2> QED  BY <1>1, <1>6, <2>1 DEF ReconcileProvision
  <1>7. ASSUME NEW c \in Claims, DeleteClaim(c) PROVE NewIsBlank'
    <2>1. claim[c] \in ClaimObject  BY <1>7 DEF DeleteClaim, TypeOK, ClaimsOK
    <2>2. CASE claim[c].finalizer
      <3>1. WriteClaim(c, Terminating(claim[c]))  BY <1>7, <2>2 DEF DeleteClaim
      <3> QED  BY <2>1, <2>2, <3>1, TerminatingType, WriteKeepsBlank
    <2>3. CASE ~claim[c].finalizer
      <3>1. WriteClaim(c, None)  BY <1>7, <2>3 DEF DeleteClaim
      <3> QED  BY <3>1, WriteKeepsBlank
    <2> QED  BY <2>2, <2>3
  <1>8. ASSUME NEW c \in Claims, NEW s \in Specs, CreateClaim(c, s) PROVE NewIsBlank'
    <2>1. uids[c] + 1 \in Nat  BY DEF TypeOK, ClaimsOK
    <2>2. /\ WriteClaim(c, NewClaim(uids[c] + 1, s))
          /\ NewClaim(uids[c] + 1, s).bucketName = None
          /\ ~NewClaim(uids[c] + 1, s).deleting
      BY <1>8, <2>1, NewClaimType DEF CreateClaim
    <2>3. NewClaim(uids[c] + 1, s).phase # "Bound"
      <3>1. NewClaim(uids[c] + 1, s).phase = ""  BY DEF NewClaim
      <3> QED  BY <3>1
    <2> QED  BY <2>2, <2>3, WriteKeepsBlank
  <1>9. ASSUME NEW c \in Claims, NEW s \in Specs, EditClaim(c, s) PROVE NewIsBlank'
    <2>1. claim[c] # None /\ claim[c] \in ClaimObject /\ WriteClaim(c, Edited(claim[c], s))
      BY <1>9 DEF EditClaim, TypeOK, ClaimsOK
    <2> QED  BY <2>1, EditedType, WriteKeepsBlank DEF NewIsBlank
  <1> QED  BY <1>1, <1>3, <1>4, <1>5, <1>6, <1>7, <1>8, <1>9, ClaimWriters

LEMMA CallReturnsWhere ==
    ASSUME NEW applied, NEW next, CallReturns(applied, next)
    PROVE  \/ applied /\ Goto(next)
           \/ pc' = "idle"
  BY DEF CallReturns, CallFails, Return

LEMMA MadeSoFarStep ==
    ASSUME LInv, Next
    PROVE  MadeSoFar'
  <1> USE DEF LInv, IInv, Tracking, AfterCreate, AfterAdd
  <1>1. CASE pc' \notin AfterCreate  BY <1>1 DEF MadeSoFar
  <1>2. CASE UNCHANGED <<cur, loc, cls, cred>> /\ UNCHANGED <<bucket, user>>
             /\ (pc' \in AfterCreate => pc \in AfterCreate)
             /\ (pc' \in AfterAdd => pc \in AfterAdd)
    BY <1>2 DEF MadeSoFar, TheBucket
  <1>3. bucket \in [Names -> BucketState] /\ user \in [Keys -> UserState]
    BY DEF TypeOK, MinioOK
  <1>4. pc \in NeedsClass => TheBucket \in Names /\ cred \in Credential  BY InHandTypes
  <1>5. \A k \in Credential : k.id \in Keys /\ k.secret # None
    BY NoneAssumption DEF Credential
  <1>6. CASE CreateBucket
    <2>1. PICK applied \in BOOLEAN :
             /\ bucket' = IF applied THEN [bucket EXCEPT ![TheBucket].exists = TRUE] ELSE bucket
             /\ CallReturns(applied, "setQuota")
      BY <1>6 DEF CreateBucket
    <2>2. CASE applied /\ Goto("setQuota")
      <3>1. pc \in NeedsClass  BY <1>6 DEF CreateBucket, NeedsClass, ProvisionSteps, Calls
      <3>2. bucket'[TheBucket].exists  BY <1>3, <1>4, <2>1, <2>2, <3>1 DEF BucketState
      <3> QED  BY <2>2, <3>2 DEF MadeSoFar, Goto, TheBucket
    <2> QED  BY <1>1, <2>1, <2>2, CallReturnsWhere
  <1>7. CASE SetBucketQuota \/ SetBucketLifecycle \/ SetBucketReplication
    <2>1. /\ pc \in AfterCreate \ AfterAdd
          /\ pc' \notin AfterAdd
          /\ pc' = "idle" \/ UNCHANGED <<cur, loc, cls, cred>>
      BY <1>7, CallReturnsWhere
      DEF SetBucketQuota, SetBucketLifecycle, SetBucketReplication, Goto, Skip
    <2>2. pc \in NeedsClass /\ TheBucket \in Names
      BY <1>4, <2>1 DEF NeedsClass, ProvisionSteps, Calls
    <2>3. bucket'[TheBucket].exists = bucket[TheBucket].exists
      <3>1. \/ bucket' = bucket
            \/ bucket' = [bucket EXCEPT ![TheBucket].quota = loc.spec.quota]
            \/ bucket' = [bucket EXCEPT ![TheBucket].rules = loc.spec.rules]
            \/ bucket' = [bucket EXCEPT ![TheBucket].replicate = TRUE]
        BY <1>7 DEF SetBucketQuota, SetBucketLifecycle, SetBucketReplication, Skip
      <3> QED  BY <1>3, <2>2, <3>1 DEF BucketState
    <2> QED  BY <1>1, <2>1, <2>3 DEF MadeSoFar, TheBucket
  <1>8. CASE AddUser
    <2>1. PICK applied \in BOOLEAN :
             /\ user' = IF applied THEN [user EXCEPT ![cred.id].secret = cred.secret] ELSE user
             /\ CallReturns(applied, "addPolicy")
      BY <1>8 DEF AddUser
    <2>2. CASE applied /\ Goto("addPolicy")
      <3>1. pc \in NeedsClass  BY <1>8 DEF AddUser, NeedsClass, ProvisionSteps, Calls
      <3>2. user'[cred.id].secret # None
        BY <1>3, <1>4, <1>5, <2>1, <2>2, <3>1 DEF UserState
      <3>3. bucket' = bucket /\ pc = "addUser"  BY <1>8 DEF AddUser
      <3> QED  BY <2>2, <3>2, <3>3 DEF MadeSoFar, Goto, TheBucket
    <2> QED  BY <1>1, <2>1, <2>2, CallReturnsWhere
  <1>9. CASE AddCannedPolicy  BY <1>1, <1>2, <1>9, CallReturnsWhere DEF AddCannedPolicy, Goto
  <1>10. CASE SetPolicy
    <2>1. PICK applied \in BOOLEAN :
             /\ user' = IF applied THEN [user EXCEPT ![cred.id].policy = ThePolicy] ELSE user
             /\ CallReturns(applied, "writeSecret")
      BY <1>10 DEF SetPolicy
    <2>2. CASE applied /\ Goto("writeSecret")
      <3>1. pc \in NeedsClass /\ pc = "setPolicy"
        BY <1>10 DEF SetPolicy, NeedsClass, ProvisionSteps, Calls
      <3>2. user'[cred.id].secret = user[cred.id].secret
        BY <1>3, <1>4, <1>5, <2>1, <2>2, <3>1 DEF UserState
      <3>3. bucket' = bucket  BY <1>10 DEF SetPolicy
      <3> QED  BY <2>2, <3>1, <3>2, <3>3 DEF MadeSoFar, Goto, TheBucket
    <2> QED  BY <1>1, <2>1, <2>2, CallReturnsWhere
  <1>11. CASE ReconcileSecret
    BY <1>1, <1>2, <1>11 DEF ReconcileSecret, Goto, SecretFailed, Return
  <1>12. CASE UNCHANGED <<workerVars, bucket, user>>  BY <1>2, <1>12
  <1> QED
    BY <1>1, <1>6, <1>7, <1>8, <1>9, <1>10, <1>11, <1>12
    DEF Next, WorkerStep, Start, Environment, Background, Return, Goto, AfterRevoke,
        GetClassFails, ForeignDriver, ProviderFails, BeginProvisioning, UpdateStatus,
        EnsureCosiBucket, FinalizeResolve, RemoveUser, RemoveCannedPolicy, DeleteBucket,
        RemoveFinalizer, ReconcileNothing, ReconcileDeletion, ReconcileProvision,
        CreateClaim, EditClaim, DeleteClaim, EditSecret, EditClass, Crash, SyncClaim,
        SyncSecret, CollectSecret, Resync

LEMMA SeenStep ==
    ASSUME LInv, Next
    PROVE  SeenWhenHeld' /\ MeetsItsOwn'
  <1> USE DEF LInv, IInv, Tracking
  <1>1. cur \in Claims /\ claim \in [Claims -> ClaimObject \cup {None}]
        /\ cache \in [Claims -> ClaimObject \cup {None}]
    BY DEF TypeOK, WorkerOK, ClaimsOK
  <1>2. ASSUME NEW c \in Claims, NEW o, WriteClaim(c, o), cache' = cache,
               o # None /\ o.finalizer => cache[c] # None /\ cache[c].uid = o.uid
        PROVE  SeenWhenHeld' /\ claim'[c] = o /\ \A d \in Claims \ {c} : claim'[d] = claim[d]
    <2>1. claim'[c] = o /\ \A d \in Claims \ {c} : claim'[d] = claim[d]
      BY <1>1, <1>2 DEF WriteClaim
    <2> QED  BY <1>2, <2>1 DEF SeenWhenHeld, HasFinalizer
  <1>3. pc' \notin FinalizeSteps => MeetsItsOwn'  BY DEF MeetsItsOwn
  <1>4. CASE WorkerStep
    <2>1. CASE RemoveFinalizer
      <3>1. pc' \notin FinalizeSteps /\ cache' = cache
        BY <2>1 DEF RemoveFinalizer, Return, FinalizeSteps
      <3>2. CASE WriteClaim(cur, None)  BY <1>1, <1>2, <1>3, <3>1, <3>2
      <3>3. CASE claim' = claim  BY <1>3, <3>1, <3>3 DEF SeenWhenHeld, HasFinalizer
      <3> QED  BY <2>1, <3>2, <3>3 DEF RemoveFinalizer
    <2>2. CASE ~RemoveFinalizer
      <3>1. Tidy
        BY <1>4, <2>2, GetClassTidy, BucketCallsTidy, GrantTidy, ReconcileSecretTidy,
           UpdateStatusTidy, EnsureCosiBucketTidy, FinalizeResolveTidy, FinalizeCallsTidy
        DEF WorkerStep
      <3> QED  BY <3>1, KeepingTracks DEF Tidy
    <2> QED  BY <2>1, <2>2
  <1>5. ASSUME UNCHANGED claimVars, KeepsPass PROVE SeenWhenHeld' /\ MeetsItsOwn'
    BY <1>5, UnchangedClaims, KeepingTracks
  <1>6. UNCHANGED workerVars => KeepsPass  BY DEF KeepsPass
  <1>7. ASSUME NEW c \in Claims, Start(c) PROVE SeenWhenHeld' /\ MeetsItsOwn'
    <2>1. CASE ReconcileNothing(c)  BY <1>5, <1>6, <2>1 DEF ReconcileNothing
    <2>2. CASE ReconcileDeletion(c)
      BY <2>2 DEF ReconcileDeletion, SeenWhenHeld, MeetsItsOwn, HasFinalizer
    <2>3. CASE ReconcileProvision(c)
      <3>1. pc' \notin FinalizeSteps /\ cache' = cache /\ cache[c] \in ClaimObject
            /\ cache[c] # None
        BY <1>1, <2>3 DEF ReconcileProvision, FinalizeSteps
      <3>2. CASE WriteClaim(c, WithFinalizer(cache[c]))
        BY <1>2, <1>3, <3>1, <3>2, WithFinalizerType
      <3>3. CASE claim' = claim  BY <1>3, <3>1, <3>3 DEF SeenWhenHeld, HasFinalizer
      <3> QED  BY <2>3, <3>2, <3>3 DEF ReconcileProvision
    <2> QED  BY <1>7, <2>1, <2>2, <2>3 DEF Start
  <1>8. ASSUME NEW c \in Claims, NEW s \in Specs, CreateClaim(c, s)
        PROVE  SeenWhenHeld' /\ MeetsItsOwn'
    <2> DEFINE o == NewClaim(uids[c] + 1, s)
    <2>1. uids[c] + 1 \in Nat  BY DEF TypeOK, ClaimsOK
    <2>2. WriteClaim(c, o) /\ ~o.finalizer /\ cache' = cache /\ UNCHANGED workerVars
      BY <1>8, <2>1, NewClaimType DEF CreateClaim
    <2> HIDE DEF o
    <2>3. SeenWhenHeld' /\ claim'[c] = o /\ \A d \in Claims \ {c} : claim'[d] = claim[d]
      BY <1>2, <2>2
    <2> QED  BY <1>1, <2>2, <2>3 DEF MeetsItsOwn, HasFinalizer
  <1>9. ASSUME NEW c \in Claims, NEW s \in Specs, EditClaim(c, s)
        PROVE  SeenWhenHeld' /\ MeetsItsOwn'
    <2>1. /\ claim[c] # None /\ claim[c] \in ClaimObject
          /\ claim[c].bucketName \in CanonNames \cup {None}
          /\ WriteClaim(c, Edited(claim[c], s)) /\ cache' = cache /\ uids' = uids
      BY <1>9 DEF EditClaim, TypeOK, ClaimsOK
    <2>2. KeepsLives  BY <2>1, EditedType, WriteKeepsLives
    <2> QED  BY <1>6, <1>9, <2>2, KeepingTracks DEF EditClaim
  <1>10. ASSUME NEW c \in Claims, DeleteClaim(c) PROVE SeenWhenHeld' /\ MeetsItsOwn'
    <2> DEFINE o == IF claim[c].finalizer THEN Terminating(claim[c]) ELSE None
    <2>1. /\ WriteClaim(c, o) /\ claim[c] # None /\ claim[c] \in ClaimObject
          /\ cache' = cache /\ UNCHANGED workerVars
      BY <1>1, <1>10 DEF DeleteClaim
    <2>2. o # None => claim[c].finalizer /\ o.uid = claim[c].uid
      BY <2>1, TerminatingType
    <2> HIDE DEF o
    <2>3. SeenWhenHeld' /\ claim'[c] = o /\ \A d \in Claims \ {c} : claim'[d] = claim[d]
      BY <1>2, <2>1, <2>2 DEF SeenWhenHeld, HasFinalizer
    <2> QED  BY <1>1, <2>1, <2>2, <2>3 DEF MeetsItsOwn, HasFinalizer
  <1>11. ASSUME NEW c \in Claims, SyncClaim(c) PROVE SeenWhenHeld' /\ MeetsItsOwn'
    <2>1. claim' = claim /\ UNCHANGED workerVars /\ cache' = [cache EXCEPT ![c] = claim[c]]
      BY <1>11 DEF SyncClaim
    <2> QED  BY <1>1, <2>1 DEF SeenWhenHeld, MeetsItsOwn, HasFinalizer
  <1>12. CASE Environment \/ Background
    <2>1. CASE Crash  BY <1>5, <2>1, ReturnEnds DEF Crash
    <2>2. CASE UNCHANGED <<claimVars, workerVars>>  BY <1>5, <1>6, <2>2
    <2> QED
      BY <1>8, <1>9, <1>10, <1>11, <1>12, <2>1, <2>2
      DEF Environment, Background, EditSecret, EditClass, SyncSecret, CollectSecret, Resync
  <1> QED  BY <1>4, <1>7, <1>12 DEF Next

LEMMA InitTracks == Init => LInv
  <1> SUFFICES ASSUME Init PROVE Tracking  BY InitSafe DEF LInv
  <1> QED
    BY DEF Init, Tracking, SeenWhenHeld, NewIsBlank, MeetsItsOwn, MadeSoFar, HasFinalizer,
           FinalizeSteps, AfterCreate, AfterAdd

LEMMA NextTracks == LInv /\ [Next]_vars => LInv'
  <1>1. ASSUME LInv, Next PROVE LInv'
    BY <1>1, NextSafe, BlankStep, MadeSoFarStep, SeenStep DEF LInv, Tracking
  <1>2. ASSUME LInv, UNCHANGED vars PROVE LInv'
    <2>1. IInv'  BY <1>2, NextSafe DEF LInv
    <2>2. Tracking'
      BY <1>2 DEF vars, LInv, Tracking, SeenWhenHeld, NewIsBlank, MeetsItsOwn, MadeSoFar,
                  HasFinalizer, TheBucket
    <2> QED  BY <2>1, <2>2 DEF LInv
  <1> QED  BY <1>1, <1>2

(* The inductive invariant of the refinement: claims with the finalizer    *)
(* are in the informer's cache, one without it has no status, and what a   *)
(* pass has made so far is there.                                          *)
THEOREM TrackingHolds == Spec => []LInv
  BY InitTracks, NextTracks, PTL DEF Spec
-----------------------------------------------------------------------------
(* The mapping, step by step.                                              *)

(* The stage and the bucket of no claim change.                            *)
Still ==
    \A c \in Claims : /\ StageOf(claim'[c]) = StageOf(claim[c])
                      /\ GivenOf(claim'[c]) = GivenOf(claim[c])

(* The variables of ClaimLifecycle under the mapping, and its steps in     *)
(* terms of them.                                                          *)
Life  == [c \in Claims |-> StageOf(claim[c])]
Given == [c \in Claims |-> GivenOf(claim[c])]
Made  == {n \in Names : bucket[n].exists}
Users == {k \in Keys : user[k].secret # None}

LEMMA ClaimSteps ==
    ASSUME NEW c \in Claims, UNCHANGED <<Made, Users>>,
           \/ Life[c] = "absent" /\ Life' = [Life EXCEPT ![c] = "new"] /\ UNCHANGED Given
           \/ Life[c] = "new" /\ Life' = [Life EXCEPT ![c] = "held"] /\ UNCHANGED Given
           \/ Life[c] = "new" /\ Life' = [Life EXCEPT ![c] = "absent"] /\ UNCHANGED Given
           \/ /\ Life[c] \in {"held", "bound"} /\ Life' = [Life EXCEPT ![c] = "doomed"]
              /\ UNCHANGED Given
           \/ /\ Life[c] = "doomed" /\ Life' = [Life EXCEPT ![c] = "absent"]
              /\ Given' = [Given EXCEPT ![c] = None]
    PROVE  Lifecycle!LifeNext
  <1>1. Lifecycle!Create(c) \/ Lifecycle!Adopt(c) \/ Lifecycle!Delete(c) \/ Lifecycle!Vanish(c)
    BY Zenon
    DEF Life, Given, Made, Users, Lifecycle!Create, Lifecycle!Adopt, Lifecycle!Delete,
        Lifecycle!Vanish, Lifecycle!Become, Lifecycle!Living
  <1> QED  BY <1>1 DEF Lifecycle!LifeNext

LEMMA BucketSteps ==
    ASSUME NEW c \in Claims, NEW n \in Names, UNCHANGED <<Life, Given, Users>>,
           \/ Life[c] \in {"held", "bound", "doomed"} /\ Made' = Made \cup {n}
           \/ Life[c] \notin {"held", "bound"} /\ Made' = Made \ {n}
    PROVE  Lifecycle!LifeNext
  <1>1. Lifecycle!MakeBucket(c, n) \/ Lifecycle!RemoveBucket(c, n)
    BY Zenon
    DEF Life, Given, Made, Users, Lifecycle!MakeBucket, Lifecycle!RemoveBucket,
        Lifecycle!Guarded, Lifecycle!Living
  <1> QED  BY <1>1 DEF Lifecycle!LifeNext

LEMMA UserSteps ==
    ASSUME NEW c \in Claims, NEW k \in Keys, UNCHANGED <<Life, Given, Made>>,
           \/ Life[c] \in {"held", "bound", "doomed"} /\ Users' = Users \cup {k}
           \/ Life[c] \notin {"held", "bound"} /\ Users' = Users \ {k}
    PROVE  Lifecycle!LifeNext
  <1>1. Lifecycle!MakeUser(c, k) \/ Lifecycle!RemoveUser(c, k)
    BY Zenon
    DEF Life, Given, Made, Users, Lifecycle!MakeUser, Lifecycle!RemoveUser,
        Lifecycle!Guarded, Lifecycle!Living
  <1> QED  BY <1>1 DEF Lifecycle!LifeNext

LEMMA BindStep ==
    ASSUME NEW c \in Claims, NEW n \in Names, NEW k \in Keys, UNCHANGED <<Made, Users>>,
           Life[c] \in {"held", "bound", "doomed"}, n \in Made, k \in Users,
           Life' = [Life EXCEPT ![c] = IF Life[c] = "doomed" THEN "doomed" ELSE "bound"],
           Given' = [Given EXCEPT ![c] = n]
    PROVE  Lifecycle!LifeNext
  <1>1. Lifecycle!Bind(c, n, k)
    BY Zenon DEF Life, Given, Made, Users, Lifecycle!Bind, Lifecycle!Become, Lifecycle!Guarded
  <1> QED  BY <1>1 DEF Lifecycle!LifeNext

LEMMA LifeUnchanged ==
    ASSUME UNCHANGED <<Life, Given, Made, Users>>
    PROVE  UNCHANGED Lifecycle!lifeVars
  BY Zenon DEF Life, Given, Made, Users, Lifecycle!lifeVars

LEMMA LifeIs ==
    ASSUME NEW c \in Claims
    PROVE  Life[c] = StageOf(claim[c])
  BY DEF Life

LEMMA StillMaps ==
    ASSUME Still
    PROVE  UNCHANGED <<Life, Given>>
  BY DEF Still, Life, Given

LEMMA WriteMaps ==
    ASSUME TypeOK, NEW c \in Claims, NEW o, WriteClaim(c, o)
    PROVE  /\ Life' = [Life EXCEPT ![c] = StageOf(o)]
           /\ Given' = [Given EXCEPT ![c] = GivenOf(o)]
           /\ GivenOf(o) = GivenOf(claim[c]) => Given' = Given
  <1>1. claim'[c] = o /\ \A d \in Claims \ {c} : claim'[d] = claim[d]
    BY DEF WriteClaim, TypeOK, ClaimsOK
  <1> QED  BY <1>1 DEF Life, Given

LEMMA StillWrite ==
    ASSUME TypeOK, NEW c \in Claims, NEW o, WriteClaim(c, o),
           StageOf(o) = StageOf(claim[c]), GivenOf(o) = GivenOf(claim[c])
    PROVE  Still
  <1>1. claim'[c] = o /\ \A d \in Claims \ {c} : claim'[d] = claim[d]
    BY DEF WriteClaim, TypeOK, ClaimsOK
  <1> QED  BY <1>1 DEF Still

LEMMA NotedIsStill ==
    ASSUME IInv, Noted
    PROVE  Still
  <1>1. CASE claim' = claim  BY <1>1 DEF Still
  <1>2. CASE claim' # claim
    <2>1. /\ ~claim[cur].deleting /\ claim[cur].phase # "Bound" /\ claim[cur] # None
          /\ cur \in Claims /\ TypeOK
      BY <1>2, NotedWrites DEF IInv, TypeOK, WorkerOK
    <2>2. PICK o : /\ WriteClaim(cur, o) /\ o # None
                   /\ o.phase # "Bound" /\ o.deleting = claim[cur].deleting
                   /\ o.finalizer = claim[cur].finalizer
                   /\ o.bucketName = claim[cur].bucketName
      BY <1>2, NotedWrites
    <2>3. StageOf(o) = StageOf(claim[cur]) /\ GivenOf(o) = GivenOf(claim[cur])
      BY <2>1, <2>2 DEF StageOf, GivenOf
    <2> QED  BY <2>1, <2>2, <2>3, StillWrite
  <1> QED  BY <1>1, <1>2

(* The calls to the backend that make or remove something.                 *)
Makes   == CreateBucket \/ SetBucketQuota \/ SetBucketLifecycle \/ SetBucketReplication
           \/ AddUser \/ AddCannedPolicy \/ SetPolicy
Removes == RemoveUser \/ DeleteBucket

LEMMA MakesIsStill ==
    ASSUME IInv, Makes
    PROVE  Still
  <1>1. CASE claim' = claim  BY <1>1 DEF Still
  <1>2. CASE pc \in Calls /\ \E applied, next : CallReturns(applied, next)
    BY <1>1, <1>2, CallsOnlyNote, NotedIsStill
  <1> QED
    BY <1>1, <1>2
    DEF Makes, CreateBucket, SetBucketQuota, SetBucketLifecycle, SetBucketReplication,
        AddUser, AddCannedPolicy, SetPolicy, Skip, Calls

LEMMA BackendWriters ==
    ASSUME Next
    PROVE  Makes \/ Removes \/ UNCHANGED <<bucket, user>>
  BY DEF Next, WorkerStep, Start, Environment, Background, Makes, Removes,
         GetClassFails, ForeignDriver, ProviderFails, BeginProvisioning, UpdateStatus,
         ReconcileSecret, EnsureCosiBucket, FinalizeResolve, RemoveCannedPolicy,
         RemoveFinalizer, ReconcileNothing, ReconcileDeletion, ReconcileProvision,
         CreateClaim, EditClaim, DeleteClaim, EditSecret, EditClass, Crash, SyncClaim,
         SyncSecret, CollectSecret, Resync

(* A claim with the finalizer is guarded; one a finalizing pass meets is   *)
(* not living.                                                             *)
LEMMA HeldIsGuarded ==
    ASSUME NEW c \in Claims, HasFinalizer(c)
    PROVE  Life[c] \in {"held", "bound", "doomed"}
  BY DEF HasFinalizer, Life, StageOf

LEMMA FinalizedIsNotLiving ==
    ASSUME LInv, pc \in FinalizeSteps
    PROVE  Life[cur] \notin {"held", "bound"}
  <1>1. cur \in Claims  BY DEF LInv, IInv, TypeOK, WorkerOK
  <1>2. HasFinalizer(cur) => claim[cur].deleting
    BY DEF LInv, IInv, Guarding, PassFinalizes, Tracking, MeetsItsOwn, HasFinalizer
  <1> QED  BY <1>1, <1>2 DEF Life, StageOf, HasFinalizer

LEMMA StepMaps ==
    ASSUME LInv, Next
    PROVE  Lifecycle!LifeNext \/ UNCHANGED Lifecycle!lifeVars
  <1>1. TypeOK /\ cur \in Claims /\ bucket \in [Names -> BucketState] /\ user \in [Keys -> UserState]
    BY DEF LInv, IInv, TypeOK, MinioOK, WorkerOK
  <1>2. CASE Still /\ UNCHANGED <<bucket, user>>
    BY <1>2, StillMaps, LifeUnchanged DEF Made, Users
  <1>3. CASE Makes
    <2>1. Still  BY <1>3, MakesIsStill DEF LInv
    <2>2. /\ pc \in ProvisionSteps /\ pc \in NeedsClass
      BY <1>3 DEF Makes, CreateBucket, SetBucketQuota, SetBucketLifecycle, SetBucketReplication,
                  AddUser, AddCannedPolicy, SetPolicy, ProvisionSteps, NeedsClass, Calls
    <2>3. Life[cur] \in {"held", "bound", "doomed"}
      BY <1>1, <2>2, HeldIsGuarded DEF LInv, IInv, Guarding, PassHoldsFinalizer
    <2>4. TheBucket \in Names /\ cred.id \in Keys /\ cred.secret # None
      BY <2>2, InHandTypes, NoneAssumption DEF LInv, IInv, Credential
    <2>5. CASE user' = user /\ bucket' = [bucket EXCEPT ![TheBucket].exists = TRUE]
      <3>1. Made' = Made \cup {TheBucket}  BY <1>1, <2>4, <2>5 DEF BucketState, Made
      <3>2. UNCHANGED <<Life, Given, Users>>  BY <2>1, <2>5, StillMaps DEF Users
      <3> QED  BY <1>1, <2>3, <2>4, <3>1, <3>2, BucketSteps
    <2>6. CASE bucket' = bucket /\ user' = [user EXCEPT ![cred.id].secret = cred.secret]
      <3>1. Users' = Users \cup {cred.id}  BY <1>1, <2>4, <2>6 DEF UserState, Users
      <3>2. UNCHANGED <<Life, Given, Made>>  BY <2>1, <2>6, StillMaps DEF Made
      <3> QED  BY <1>1, <2>3, <2>4, <3>1, <3>2, UserSteps
    <2>7. CASE /\ \A n \in Names : bucket'[n].exists = bucket[n].exists
               /\ \A k \in Keys : user'[k].secret = user[k].secret
      BY <2>1, <2>7, StillMaps, LifeUnchanged DEF Made, Users
    <2>8. \/ user' = user /\ bucket' = [bucket EXCEPT ![TheBucket].exists = TRUE]
          \/ bucket' = bucket /\ user' = [user EXCEPT ![cred.id].secret = cred.secret]
          \/ UNCHANGED <<bucket, user>>
          \/ user' = user /\ \/ bucket' = [bucket EXCEPT ![TheBucket].quota = loc.spec.quota]
                             \/ bucket' = [bucket EXCEPT ![TheBucket].rules = loc.spec.rules]
                             \/ bucket' = [bucket EXCEPT ![TheBucket].replicate = TRUE]
          \/ bucket' = bucket /\ user' = [user EXCEPT ![cred.id].policy = ThePolicy]
      BY <1>3 DEF Makes, CreateBucket, SetBucketQuota, SetBucketLifecycle, SetBucketReplication,
                  AddUser, AddCannedPolicy, SetPolicy, Skip
    <2>9. ASSUME user' = user, \/ bucket' = [bucket EXCEPT ![TheBucket].quota = loc.spec.quota]
                               \/ bucket' = [bucket EXCEPT ![TheBucket].rules = loc.spec.rules]
                               \/ bucket' = [bucket EXCEPT ![TheBucket].replicate = TRUE]
          PROVE  \A n \in Names : bucket'[n].exists = bucket[n].exists
      BY <1>1, <2>4, <2>9 DEF BucketState
    <2>10. ASSUME user' = [user EXCEPT ![cred.id].policy = ThePolicy]
           PROVE  \A k \in Keys : user'[k].secret = user[k].secret
      BY <1>1, <2>4, <2>10 DEF UserState
    <2> QED  BY <2>5, <2>6, <2>7, <2>8, <2>9, <2>10
  <1>4. CASE Removes
    <2>1. Still  BY <1>4 DEF Removes, RemoveUser, DeleteBucket, Still
    <2>2. pc \in FinalizeSteps /\ pc \in NeedsClass
      BY <1>4 DEF Removes, RemoveUser, DeleteBucket, FinalizeSteps, NeedsClass
    <2>3. Life[cur] \notin {"held", "bound"}  BY <2>2, FinalizedIsNotLiving
    <2>4. DoomedName \in Names /\ cred.id \in Keys
      BY <2>2, InHandTypes DEF LInv, IInv, Credential
    <2>5. CASE bucket' = bucket /\ user' = [user EXCEPT ![cred.id] = NoUser]
      <3>1. Users' = Users \ {cred.id}  BY <1>1, <2>4, <2>5 DEF UserState, NoUser, Users
      <3>2. UNCHANGED <<Life, Given, Made>>  BY <2>1, <2>5, StillMaps DEF Made
      <3> QED  BY <1>1, <2>3, <2>4, <3>1, <3>2, UserSteps
    <2>6. CASE user' = user /\ bucket' = [bucket EXCEPT ![DoomedName] = NoBucket]
      <3>1. Made' = Made \ {DoomedName}  BY <1>1, <2>4, <2>6 DEF BucketState, NoBucket, Made
      <3>2. UNCHANGED <<Life, Given, Users>>  BY <2>1, <2>6, StillMaps DEF Users
      <3> QED  BY <1>1, <2>3, <2>4, <3>1, <3>2, BucketSteps
    <2> QED  BY <1>2, <1>4, <2>1, <2>5, <2>6 DEF Removes, RemoveUser, DeleteBucket
  <1>5. CASE UNCHANGED <<bucket, user>>
    <2> UNCHANGED <<Made, Users>>  BY <1>5 DEF Made, Users
    <2>1. CASE claim' = claim \/ Noted
      BY <1>2, <1>5, <2>1, NotedIsStill DEF Still, LInv
    <2>2. CASE UpdateStatus
      <3>1. CASE cache[cur] # None /\ fresh[cur] /\ WriteClaim(cur, BoundStatus(cache[cur], TheBucket))
        <4> DEFINE o == BoundStatus(claim[cur], TheBucket)
        <4>1. pc \in ProvisionSteps /\ pc \in NeedsClass /\ pc \in AfterCreate /\ pc \in AfterAdd
          BY <2>2 DEF UpdateStatus, ProvisionSteps, NeedsClass, AfterCreate, AfterAdd
        <4>2. /\ cache[cur] = claim[cur] /\ claim[cur] \in ClaimObject /\ HasFinalizer(cur)
              /\ TheBucket \in Names /\ cred.id \in Keys
          BY <1>1, <3>1, <4>1, InHandTypes
          DEF LInv, IInv, Coherent, TypeOK, ClaimsOK, Guarding, PassHoldsFinalizer, Credential
        <4>3. /\ o \in ClaimObject /\ o.deleting = claim[cur].deleting /\ o # None
              /\ o.finalizer = claim[cur].finalizer /\ o.phase = "Bound" /\ o.bucketName = TheBucket
          BY <4>2, BoundStatusType, NoneAssumption
        <4>4. Life[cur] \in {"held", "bound", "doomed"}  BY <1>1, <4>2, HeldIsGuarded
        <4>5. TheBucket \in Made /\ cred.id \in Users
          BY <4>1, <4>2 DEF LInv, Tracking, MadeSoFar, Made, Users
        <4>6. WriteClaim(cur, o)  BY <3>1, <4>2
        <4>7. /\ StageOf(o) = IF StageOf(claim[cur]) = "doomed" THEN "doomed" ELSE "bound"
              /\ GivenOf(o) = TheBucket
          BY <4>2, <4>3 DEF StageOf, GivenOf, HasFinalizer
        <4> HIDE DEF o
        <4>8. /\ Life' = [Life EXCEPT ![cur] = StageOf(o)]
              /\ Given' = [Given EXCEPT ![cur] = TheBucket] /\ Life[cur] = StageOf(claim[cur])
          BY <1>1, <4>6, <4>7, WriteMaps, LifeIs
        <4> QED  BY <1>1, <4>2, <4>4, <4>5, <4>7, <4>8, BindStep
      <3> QED  BY <2>1, <2>2, <3>1 DEF UpdateStatus
    <2>3. CASE RemoveFinalizer
      <3>1. CASE claim[cur] = loc /\ WriteClaim(cur, None)
        <4>1. claim[cur] # None /\ claim[cur].deleting
          BY <2>3, <3>1 DEF RemoveFinalizer, FinalizeSteps, LInv, IInv, InHand, Guarding,
                            PassFinalizes
        <4>2. StageOf(claim[cur]) = "doomed" /\ StageOf(None) = "absent" /\ GivenOf(None) = None
          BY <4>1 DEF StageOf, GivenOf
        <4> QED  BY <1>1, <3>1, <4>2, WriteMaps, LifeIs, ClaimSteps
      <3> QED  BY <2>1, <2>3, <3>1 DEF RemoveFinalizer
    <2>4. ASSUME NEW c \in Claims, ReconcileProvision(c)
          PROVE  Lifecycle!LifeNext \/ UNCHANGED Lifecycle!lifeVars
      <3>1. CASE ~cache[c].finalizer /\ fresh[c] /\ WriteClaim(c, WithFinalizer(cache[c]))
        <4> DEFINE o == WithFinalizer(claim[c])
        <4>1. cache[c] = claim[c] /\ claim[c] \in ClaimObject /\ claim[c] # None
          BY <2>4, <3>1 DEF ReconcileProvision, LInv, IInv, Coherent, TypeOK, ClaimsOK
        <4>2. claim[c].bucketName = None /\ claim[c].phase # "Bound" /\ ~claim[c].deleting
          BY <3>1, <4>1 DEF LInv, Tracking, NewIsBlank
        <4>3. /\ o \in ClaimObject /\ o # None /\ o.finalizer /\ ~o.deleting
              /\ o.bucketName = None /\ o.phase # "Bound"
          BY <4>1, <4>2, WithFinalizerType, NoneAssumption
        <4>4. WriteClaim(c, o)  BY <3>1, <4>1
        <4>5. /\ StageOf(claim[c]) = "new" /\ StageOf(o) = "held"
              /\ GivenOf(o) = GivenOf(claim[c])
          BY <3>1, <4>1, <4>2, <4>3 DEF StageOf, GivenOf
        <4> HIDE DEF o
        <4> QED  BY <1>1, <4>4, <4>5, WriteMaps, LifeIs, ClaimSteps
      <3> QED  BY <2>1, <2>4, <3>1 DEF ReconcileProvision
    <2>5. ASSUME NEW c \in Claims, NEW s \in Specs, CreateClaim(c, s)
          PROVE  Lifecycle!LifeNext
      <3> DEFINE o == NewClaim(uids[c] + 1, s)
      <3>1. uids[c] + 1 \in Nat  BY <1>1 DEF TypeOK, ClaimsOK
      <3>2. /\ WriteClaim(c, o) /\ claim[c] = None /\ o \in ClaimObject /\ o # None
            /\ ~o.deleting /\ ~o.finalizer /\ o.bucketName = None
        BY <2>5, <3>1, NewClaimType, NoneAssumption DEF CreateClaim
      <3> HIDE DEF o
      <3>3. /\ StageOf(claim[c]) = "absent" /\ StageOf(o) = "new"
            /\ GivenOf(o) = GivenOf(claim[c])
        BY <3>2 DEF StageOf, GivenOf
      <3> QED  BY <1>1, <3>2, <3>3, WriteMaps, LifeIs, ClaimSteps
    <2>6. ASSUME NEW c \in Claims, NEW s \in Specs, EditClaim(c, s)
          PROVE  Lifecycle!LifeNext \/ UNCHANGED Lifecycle!lifeVars
      <3> DEFINE o == Edited(claim[c], s)
      <3>1. claim[c] # None /\ claim[c] \in ClaimObject /\ WriteClaim(c, o)
        BY <1>1, <2>6 DEF EditClaim, TypeOK, ClaimsOK
      <3>2. /\ o \in ClaimObject /\ o # None /\ o.deleting = claim[c].deleting
            /\ o.finalizer = claim[c].finalizer /\ o.bucketName = claim[c].bucketName
            /\ o.phase = claim[c].phase
        BY <3>1, EditedType, NoneAssumption
      <3> HIDE DEF o
      <3>3. StageOf(o) = StageOf(claim[c]) /\ GivenOf(o) = GivenOf(claim[c])
        BY <3>1, <3>2 DEF StageOf, GivenOf
      <3> QED  BY <1>1, <1>2, <1>5, <3>1, <3>3, StillWrite
    <2>7. ASSUME NEW c \in Claims, DeleteClaim(c)
          PROVE  Lifecycle!LifeNext
      <3>1. claim[c] # None /\ claim[c] \in ClaimObject /\ ~claim[c].deleting
        BY <1>1, <2>7 DEF DeleteClaim, TypeOK, ClaimsOK
      <3>2. CASE claim[c].finalizer
        <4> DEFINE o == Terminating(claim[c])
        <4>1. WriteClaim(c, o)  BY <2>7, <3>2 DEF DeleteClaim
        <4>2. o \in ClaimObject /\ o # None /\ o.deleting /\ o.bucketName = claim[c].bucketName
          BY <3>1, TerminatingType, NoneAssumption
        <4> HIDE DEF o
        <4>3. /\ StageOf(claim[c]) \in {"held", "bound"} /\ StageOf(o) = "doomed"
              /\ GivenOf(o) = GivenOf(claim[c])
          BY <3>1, <3>2, <4>2 DEF StageOf, GivenOf
        <4> QED  BY <1>1, <4>1, <4>3, WriteMaps, LifeIs, ClaimSteps
      <3>3. CASE ~claim[c].finalizer
        <4>1. WriteClaim(c, None)  BY <2>7, <3>3 DEF DeleteClaim
        <4>2. claim[c].bucketName = None  BY <3>1, <3>3 DEF LInv, Tracking, NewIsBlank
        <4>3. /\ StageOf(claim[c]) = "new" /\ StageOf(None) = "absent"
              /\ GivenOf(None) = GivenOf(claim[c])
          BY <3>1, <3>3, <4>2 DEF StageOf, GivenOf
        <4> QED  BY <1>1, <4>1, <4>3, WriteMaps, LifeIs, ClaimSteps
      <3> QED  BY <3>2, <3>3
    <2> QED  BY <2>1, <2>2, <2>3, <2>4, <2>5, <2>6, <2>7, ClaimWriters
  <1> QED  BY <1>3, <1>4, <1>5, BackendWriters

LEMMA InitMaps == Init => Lifecycle!LifeInit
  <1> SUFFICES ASSUME Init PROVE Lifecycle!LifeInit  OBVIOUS
  <1>1. StageOf(None) = "absent" /\ GivenOf(None) = None  BY DEF StageOf, GivenOf
  <1>2. ~NoBucket.exists /\ NoUser.secret = None  BY DEF NoBucket, NoUser
  <1> QED  BY <1>1, <1>2 DEF Init, Lifecycle!LifeInit

(* The controller implements the lifecycle: whatever interleaving of       *)
(* users, caches, faults, crashes and retries, each of its steps is a step *)
(* of ClaimLifecycle or changes nothing of it.  Buckets and users come     *)
(* into being only for a claim that holds the finalizer, are never taken   *)
(* from a claim that is held or bound, and a claim becomes Bound only to a *)
(* bucket that exists.                                                     *)
THEOREM Refinement == Spec => ImplementsLifecycle
  <1>1. LInv /\ [Next]_vars => [Lifecycle!LifeNext]_(Lifecycle!lifeVars)
    <2>1. ASSUME UNCHANGED vars PROVE UNCHANGED Lifecycle!lifeVars
      BY <2>1 DEF vars, Lifecycle!lifeVars
    <2> QED  BY <2>1, StepMaps
  <1> QED
    BY <1>1, InitMaps, TrackingHolds, PTL DEF Spec, ImplementsLifecycle, Lifecycle!LifeSpec
=============================================================================
