-------------------------- MODULE BucketClaimProofs --------------------------
(***************************************************************************)
(* Theorems about BucketClaimController, for every set of claims, classes, *)
(* names, keys and specs and all bounds.                                   *)
(***************************************************************************)
EXTENDS BucketClaimController, TLAPS

(* The cache is a copy of the claim when its resource version is current.  *)
Coherent == \A c \in Claims : fresh[c] => cache[c] = claim[c]

(* What the worker has in hand at each step.                               *)
NeedsClass ==
    (ProvisionSteps \ {"getClass"}) \cup {"removeUser", "removePolicy", "deleteBucket"}

InHand ==
    /\ pc # "idle" => loc # None
    /\ pc \in NeedsClass => cls # None /\ cred # None
    /\ pc = "cosiBucket" => loc.bucketName # None

(* uids grow: the claim has the latest one, its copies none that is later. *)
UidsGrow ==
    \A c \in Claims :
        /\ claim[c] # None => claim[c].uid = uids[c]
        /\ cache[c] # None => cache[c].uid <= uids[c]

(* Deletion is final for an incarnation.                                   *)
DeletionKnown ==
    \A c \in Claims :
        cache[c] # None /\ cache[c].deleting /\ claim[c] # None /\ claim[c].uid = cache[c].uid
        => claim[c].deleting

(* A cached claim with the finalizer that is not marked for deletion is    *)
(* still there.                                                            *)
CachedAlive ==
    \A c \in Claims :
        cache[c] # None /\ ~cache[c].deleting /\ cache[c].finalizer
        => HasFinalizer(c) /\ claim[c].uid = cache[c].uid

(* A provisioning pass works for a claim that holds its finalizer.         *)
PassHoldsFinalizer ==
    pc \in ProvisionSteps => HasFinalizer(cur) /\ claim[cur].uid = loc.uid

(* A finalizing pass works for an incarnation marked for deletion, and the *)
(* cache has not gone back to a time before that.                          *)
PassFinalizes ==
    pc \in FinalizeSteps =>
        /\ loc.deleting /\ loc.finalizer /\ loc.uid <= uids[cur]
        /\ claim[cur] # None /\ claim[cur].uid = loc.uid => claim[cur].deleting
        /\ cache[cur] # None /\ cache[cur].uid <= loc.uid => cache[cur].deleting

Guarding == UidsGrow /\ DeletionKnown /\ CachedAlive /\ PassHoldsFinalizer /\ PassFinalizes

(* The inductive invariant.                                                *)
IInv == TypeOK /\ Coherent /\ InHand /\ Guarding
-----------------------------------------------------------------------------
(* Lemmas on the operators that rewrite a claim.                           *)

LEMMA NotReadyStatusType ==
    ASSUME NEW o \in ClaimObject, NEW phase \in Phases, NEW why \in Why
    PROVE  /\ NotReadyStatus(o, phase, why) \in ClaimObject
           /\ NotReadyStatus(o, phase, why).uid = o.uid
           /\ NotReadyStatus(o, phase, why).deleting = o.deleting
           /\ NotReadyStatus(o, phase, why).finalizer = o.finalizer
           /\ NotReadyStatus(o, phase, why).bucketName = o.bucketName
  BY DEF NotReadyStatus, ClaimObject

LEMMA BoundStatusType ==
    ASSUME NEW o \in ClaimObject, NEW b \in Names
    PROVE  /\ BoundStatus(o, b) \in ClaimObject
           /\ BoundStatus(o, b).uid = o.uid
           /\ BoundStatus(o, b).deleting = o.deleting
           /\ BoundStatus(o, b).finalizer = o.finalizer
           /\ BoundStatus(o, b).bucketName = b
           /\ BoundStatus(o, b).phase = "Bound"
  <1>1. <<"BucketProvisioned", "">> \in Why  BY DEF Why, Reasons
  <1>2. "Bound" \in Phases  BY DEF Phases
  <1> QED  BY <1>1, <1>2 DEF BoundStatus, ClaimObject

LEMMA WithFinalizerType ==
    ASSUME NEW o \in ClaimObject
    PROVE  /\ WithFinalizer(o) \in ClaimObject
           /\ WithFinalizer(o).uid = o.uid
           /\ WithFinalizer(o).deleting = o.deleting
           /\ WithFinalizer(o).finalizer
           /\ WithFinalizer(o).bucketName = o.bucketName
           /\ WithFinalizer(o).phase = o.phase
  BY DEF WithFinalizer, ClaimObject

LEMMA EditedType ==
    ASSUME NEW o \in ClaimObject, NEW s \in Specs
    PROVE  /\ Edited(o, s) \in ClaimObject
           /\ Edited(o, s).uid = o.uid
           /\ Edited(o, s).deleting = o.deleting
           /\ Edited(o, s).finalizer = o.finalizer
           /\ Edited(o, s).bucketName = o.bucketName
           /\ Edited(o, s).phase = o.phase
  <1>1. o.gen + 1 \in Nat  BY DEF ClaimObject
  <1> QED  BY <1>1 DEF Edited, ClaimObject

LEMMA TerminatingType ==
    ASSUME NEW o \in ClaimObject
    PROVE  /\ Terminating(o) \in ClaimObject
           /\ Terminating(o).uid = o.uid
           /\ Terminating(o).deleting
           /\ Terminating(o).finalizer = o.finalizer
           /\ Terminating(o).bucketName = o.bucketName
           /\ Terminating(o).phase = o.phase
  <1>1. o.gen + 1 \in Nat  BY DEF ClaimObject
  <1> QED  BY <1>1 DEF Terminating, ClaimObject

LEMMA NewClaimType ==
    ASSUME NEW u \in Nat, NEW s \in Specs
    PROVE  /\ NewClaim(u, s) \in ClaimObject
           /\ NewClaim(u, s).uid = u
           /\ ~NewClaim(u, s).deleting
           /\ ~NewClaim(u, s).finalizer
           /\ NewClaim(u, s).bucketName = None
  <1>1. <<"", "">> \in Why  BY DEF Why, Reasons
  <1>2. "" \in Phases  BY DEF Phases
  <1> QED  BY <1>1, <1>2 DEF NewClaim, ClaimObject

LEMMA BucketNameIsCanonical ==
    ASSUME NEW c \in Claims, NEW s \in Specs, NEW k \in ClassObject
    PROVE  BucketNameFor(c, s, k) \in CanonNames /\ BucketNameFor(c, s, k) \in Names
  BY SpecsAssumption, NamesAssumption DEF BucketNameFor, CanonNames, SpecType, ClassObject

LEMMA FinalizeNameType ==
    ASSUME NEW c \in Claims, NEW o \in ClaimObject
    PROVE  FinalizeName(c, o) \in Names
  BY SpecsAssumption, NamesAssumption DEF FinalizeName, SpecType, ClaimObject
-----------------------------------------------------------------------------
(* Steps that leave every claim the life it has: its incarnation, deletion *)
(* mark and finalizer, and the informer's copy.                            *)
KeepsLives ==
    /\ cache' = cache /\ uids' = uids
    /\ \A c \in Claims :
          /\ (claim'[c] = None) <=> (claim[c] = None)
          /\ claim[c] # None => /\ claim'[c].uid = claim[c].uid
                                /\ claim'[c].deleting = claim[c].deleting
                                /\ claim'[c].finalizer = claim[c].finalizer
          /\ fresh'[c] => fresh[c] /\ claim'[c] = claim[c]

(* Steps that end the pass or go on with it.                               *)
KeepsPass ==
    \/ pc' = "idle"
    \/ /\ cur' = cur
       /\ pc' \in ProvisionSteps => pc \in ProvisionSteps
       /\ pc # "idle" => loc'.uid = loc.uid
       /\ pc' \in FinalizeSteps => pc \in FinalizeSteps /\ loc' = loc

LEMMA WriteKeepsLives ==
    ASSUME TypeOK, Coherent, NEW c \in Claims, NEW o \in ClaimObject,
           claim[c] # None, o.uid = claim[c].uid, o.deleting = claim[c].deleting,
           o.finalizer = claim[c].finalizer, o.bucketName \in CanonNames \cup {None},
           WriteClaim(c, o), cache' = cache, uids' = uids
    PROVE  KeepsLives /\ ClaimsOK'
  <1>1. o # None  BY NoneAssumption
  <1>2. /\ claim \in [Claims -> ClaimObject \cup {None}]
        /\ cache \in [Claims -> ClaimObject \cup {None}]
        /\ fresh \in [Claims -> BOOLEAN]
        /\ uids \in [Claims -> Nat]
        /\ \A d \in Claims : claim[d] # None => claim[d].bucketName \in CanonNames \cup {None}
    BY DEF TypeOK, ClaimsOK
  <1>3. /\ claim' = [claim EXCEPT ![c] = o]
        /\ fresh' = [fresh EXCEPT ![c] = fresh[c] /\ o = claim[c]]
    BY DEF WriteClaim
  <1>4. fresh' \in [Claims -> BOOLEAN]  BY <1>2, <1>3
  <1>5. \A d \in Claims : fresh'[d] => fresh[d] /\ claim'[d] = claim[d]  BY <1>2, <1>3
  <1> QED  BY <1>1, <1>2, <1>3, <1>4, <1>5 DEF KeepsLives, ClaimsOK

LEMMA NoteKeepsLives ==
    ASSUME TypeOK, Coherent, NEW c \in Claims, NEW phase \in Phases, NEW why \in Why,
           Note(c, phase, why), cache' = cache, uids' = uids
    PROVE  KeepsLives /\ ClaimsOK'
  <1>1. CASE MayNote(cache[c]) /\ fresh[c]
    <2>1. cache[c] = claim[c] /\ claim[c] # None /\ claim[c] \in ClaimObject
      BY <1>1 DEF MayNote, Coherent, TypeOK, ClaimsOK
    <2> DEFINE o == NotReadyStatus(claim[c], phase, why)
    <2>2. WriteClaim(c, o)  BY <1>1, <2>1 DEF Note
    <2>3. /\ o \in ClaimObject /\ o.uid = claim[c].uid /\ o.deleting = claim[c].deleting
          /\ o.finalizer = claim[c].finalizer /\ o.bucketName = claim[c].bucketName
      BY <2>1, NotReadyStatusType
    <2>4. claim[c].bucketName \in CanonNames \cup {None}  BY <2>1 DEF TypeOK, ClaimsOK
    <2> HIDE DEF o
    <2> QED  BY <2>1, <2>2, <2>3, <2>4, WriteKeepsLives
  <1>2. CASE ~(MayNote(cache[c]) /\ fresh[c])
    BY <1>2 DEF Note, KeepsLives, TypeOK, ClaimsOK
  <1> QED  BY <1>1, <1>2

(* Such steps preserve what the guarding invariants say.                   *)
LEMMA KeepingIsSafe ==
    ASSUME TypeOK, Coherent, InHand, Guarding, KeepsLives, KeepsPass
    PROVE  Coherent' /\ Guarding'
  <1>1. Coherent'  BY DEF Coherent, KeepsLives
  <1>2. UidsGrow'  BY DEF Guarding, UidsGrow, KeepsLives
  <1>3. DeletionKnown'  BY DEF Guarding, DeletionKnown, KeepsLives
  <1>4. CachedAlive'  BY DEF Guarding, CachedAlive, KeepsLives, HasFinalizer
  <1>5. PassHoldsFinalizer'
    <2>1. CASE pc' = "idle"  BY <2>1 DEF PassHoldsFinalizer, ProvisionSteps, Calls
    <2>2. CASE pc' # "idle"
      BY <2>2 DEF Guarding, PassHoldsFinalizer, KeepsLives, KeepsPass, HasFinalizer, TypeOK,
                  WorkerOK, ProvisionSteps, Calls
    <2> QED  BY <2>1, <2>2
  <1>6. PassFinalizes'
    <2>1. CASE pc' = "idle"  BY <2>1 DEF PassFinalizes, FinalizeSteps
    <2>2. CASE pc' # "idle"
      BY <2>2 DEF Guarding, PassFinalizes, KeepsLives, KeepsPass, TypeOK, WorkerOK,
                  FinalizeSteps
    <2> QED  BY <2>1, <2>2
  <1> QED  BY <1>1, <1>2, <1>3, <1>4, <1>5, <1>6 DEF Guarding
-----------------------------------------------------------------------------
(* What the helpers of the steps do, and with it every step that ends a    *)
(* pass or goes on with it.                                                *)
Tidy ==
    /\ ClaimsOK' /\ WorkerOK' /\ InHand' /\ queue' \subseteq Claims /\ disturbed' \in Nat
    /\ KeepsLives /\ KeepsPass

LEMMA UnchangedClaims ==
    ASSUME TypeOK, UNCHANGED <<claim, cache, fresh, uids>>
    PROVE  KeepsLives /\ ClaimsOK'
  BY DEF TypeOK, ClaimsOK, KeepsLives

LEMMA ReturnEnds ==
    ASSUME TypeOK, Return
    PROVE  WorkerOK' /\ InHand' /\ KeepsPass
  BY DEF TypeOK, WorkerOK, Return, InHand, KeepsPass, NeedsClass, ProvisionSteps, Calls, Steps

LEMMA GotoContinues ==
    ASSUME TypeOK, InHand, NEW step \in Steps, Goto(step), pc # "idle", step # "cosiBucket",
           step \in NeedsClass => pc \in NeedsClass,
           step \in ProvisionSteps => pc \in ProvisionSteps,
           step \in FinalizeSteps => pc \in FinalizeSteps
    PROVE  WorkerOK' /\ InHand' /\ KeepsPass
  BY DEF TypeOK, WorkerOK, Goto, InHand, KeepsPass

LEMMA RequeueType ==
    ASSUME TypeOK, Requeue
    PROVE  queue' \subseteq Claims
  BY DEF TypeOK, WorkerOK, Requeue

LEMMA DisturbType ==
    ASSUME TypeOK, NEW kind, Disturb(kind)
    PROVE  disturbed' \in Nat
  BY DEF TypeOK, Disturb

LEMMA CallFailsTidy ==
    ASSUME TypeOK, Coherent, InHand, pc \in Calls, CallFails, cache' = cache, uids' = uids
    PROVE  Tidy
  <1>1. <<"Provisioning", pc>> \in Why /\ <<"Failed", pc>> \in Why  BY DEF Why, Reasons
  <1>2. "Pending" \in Phases /\ "Failed" \in Phases  BY DEF Phases
  <1>3. cur \in Claims  BY DEF TypeOK, WorkerOK
  <1>4. KeepsLives /\ ClaimsOK'
    BY <1>1, <1>2, <1>3, NoteKeepsLives DEF CallFails, NoteProvisioning, NoteNotReady
  <1> QED  BY <1>4, ReturnEnds, RequeueType, DisturbType DEF CallFails, Tidy

LEMMA CallReturnsTidy ==
    ASSUME TypeOK, Coherent, InHand, pc \in Calls, NEW applied \in BOOLEAN,
           NEW step \in NeedsClass \cap ProvisionSteps, step # "cosiBucket",
           CallReturns(applied, step), cache' = cache, uids' = uids
    PROVE  Tidy
  <1>1. CASE CallFails  BY <1>1, CallFailsTidy
  <1>2. CASE Goto(step) /\ UNCHANGED <<claim, fresh, queue, disturbed>>
    <2>1. step \in Steps /\ step \notin FinalizeSteps
      BY DEF Steps, FinalizeSteps, ProvisionSteps, Calls
    <2>2. pc # "idle" /\ pc \in NeedsClass /\ pc \in ProvisionSteps
      BY DEF Calls, NeedsClass, ProvisionSteps
    <2>3. WorkerOK' /\ InHand' /\ KeepsPass  BY <1>2, <2>1, <2>2, GotoContinues
    <2>4. KeepsLives /\ ClaimsOK'  BY <1>2, UnchangedClaims
    <2> QED  BY <1>2, <2>3, <2>4 DEF Tidy, TypeOK
  <1> QED  BY <1>1, <1>2 DEF CallReturns

LEMMA SkipTidy ==
    ASSUME TypeOK, InHand, pc \in Calls,
           NEW step \in NeedsClass \cap ProvisionSteps, step # "cosiBucket",
           Skip(step), cache' = cache, uids' = uids
    PROVE  Tidy
  <1>1. step \in Steps /\ step \notin FinalizeSteps
    BY DEF Steps, FinalizeSteps, ProvisionSteps, Calls
  <1>2. pc # "idle" /\ pc \in NeedsClass /\ pc \in ProvisionSteps
    BY DEF Calls, NeedsClass, ProvisionSteps
  <1>3. WorkerOK' /\ InHand' /\ KeepsPass  BY <1>1, <1>2, GotoContinues DEF Skip
  <1>4. KeepsLives /\ ClaimsOK'  BY UnchangedClaims DEF Skip
  <1> QED  BY <1>3, <1>4 DEF Tidy, TypeOK, Skip

(* The names and objects the backend steps use.                            *)
LEMMA InHandTypes ==
    ASSUME TypeOK, InHand, pc \in NeedsClass
    PROVE  /\ loc \in ClaimObject /\ cls \in ClassObject /\ cred \in Credential
           /\ cur \in Claims /\ loc.spec \in SpecType
           /\ TheBucket \in Names /\ TheBucket \in CanonNames /\ DoomedName \in Names
  <1>1. pc # "idle"  BY DEF NeedsClass, ProvisionSteps, Calls
  <1>2. /\ loc \in ClaimObject /\ cls \in ClassObject /\ cred \in Credential
        /\ cur \in Claims
    BY <1>1 DEF TypeOK, WorkerOK, InHand
  <1>3. loc.spec \in Specs  BY <1>2 DEF ClaimObject
  <1> QED
    BY <1>2, <1>3, SpecsAssumption, BucketNameIsCanonical, FinalizeNameType
    DEF TheBucket, DoomedName
-----------------------------------------------------------------------------
(* The steps of a pass, but for the removal of the finalizer.              *)
USE DEF claimVars, secretVars, minioVars, workerVars

LEMMA GetClassTidy ==
    ASSUME TypeOK, Coherent, InHand,
           GetClassFails \/ ForeignDriver \/ ProviderFails \/ BeginProvisioning
    PROVE  TypeOK' /\ Tidy
  <1>1. /\ "Pending" \in Phases /\ "Failed" \in Phases /\ cur \in Claims
        /\ pc = "getClass" /\ loc \in ClaimObject
    BY DEF Phases, TypeOK, WorkerOK, InHand, GetClassFails, ForeignDriver, ProviderFails,
           BeginProvisioning
  <1>2. ASSUME NEW r \in Reasons  PROVE <<r, "">> \in Why  BY <1>2 DEF Why
  <1>3. /\ "BucketClassNotFound" \in Reasons /\ "UnsupportedDriver" \in Reasons
        /\ "BucketClassLookupFailed" \in Reasons
        /\ "CredentialSecretNotFound" \in Reasons /\ "Provisioning" \in Reasons
        /\ "MinioCredentialSecretInvalid" \in Reasons
        /\ \A p \in {"unsupported", "awsInvalid"} : p \in Reasons
    BY DEF Reasons
  <1>4. UNCHANGED <<secretVars, class, cosi, minioVars>> => /\ SecretsOK' /\ MinioOK'
                                                             /\ class' = class /\ cosi' = cosi
    BY DEF TypeOK, SecretsOK, MinioOK
  <1>5. CASE GetClassFails
    <2>1. KeepsLives /\ ClaimsOK'
      BY <1>1, <1>2, <1>3, <1>5, NoteKeepsLives
      DEF GetClassFails, NoteProvisioning, NoteNotReady
    <2>2. disturbed' \in Nat  BY <1>5, DisturbType DEF GetClassFails, TypeOK
    <2>3. Tidy  BY <1>5, <2>1, <2>2, ReturnEnds, RequeueType DEF GetClassFails, Tidy, TypeOK
    <2> QED  BY <1>4, <1>5, <2>3 DEF GetClassFails, Tidy, TypeOK
  <1>6. CASE ForeignDriver
    <2>1. KeepsLives /\ ClaimsOK'
      BY <1>1, <1>2, <1>3, <1>6, NoteKeepsLives DEF ForeignDriver, NoteNotReady
    <2>2. Tidy  BY <1>6, <2>1, ReturnEnds DEF ForeignDriver, Tidy, TypeOK
    <2> QED  BY <1>4, <1>6, <2>2 DEF ForeignDriver, Tidy, TypeOK
  <1>7. CASE ProviderFails
    <2>1. KeepsLives /\ ClaimsOK'
      BY <1>1, <1>2, <1>3, <1>7, NoteKeepsLives
      DEF ProviderFails, NoteNotReady, NoteProvisioning
    <2>2. queue' \subseteq Claims  BY <1>7, RequeueType DEF ProviderFails, TypeOK
    <2>3. Tidy  BY <1>7, <2>1, <2>2, ReturnEnds DEF ProviderFails, Tidy, TypeOK
    <2> QED  BY <1>4, <1>7, <2>3 DEF ProviderFails, Tidy, TypeOK
  <1>8. CASE BeginProvisioning
    <2>1. KeepsLives /\ ClaimsOK'
      BY <1>1, <1>2, <1>3, <1>8, NoteKeepsLives, UnchangedClaims
      DEF BeginProvisioning, NoteProvisioning
    <2>2. loc.spec.className \in Classes
      BY <1>1, SpecsAssumption DEF ClaimObject, SpecType
    <2>3. cls' \in ClassObject  BY <1>8, <2>2 DEF BeginProvisioning, TheClass, TypeOK
    <2>4. DerivedCred(cur) \in Credential
      BY <1>1, NamesAssumption DEF DerivedCred, Credential
    <2>5. secretCache[cur] # None => secretCache[cur].cred \in Credential
      BY <1>1 DEF TypeOK, SecretsOK, SecretObject
    <2>6. cred' \in Credential  BY <1>8, <2>4, <2>5 DEF BeginProvisioning
    <2>7. /\ pc' = "createBucket" /\ pc' \in Steps /\ pc' \in ProvisionSteps
          /\ pc' \notin FinalizeSteps /\ pc \in ProvisionSteps
      BY <1>1, <1>8 DEF BeginProvisioning, Steps, ProvisionSteps, FinalizeSteps, Calls
    <2>8. WorkerOK' /\ InHand' /\ KeepsPass
      BY <1>1, <1>8, <2>3, <2>6, <2>7, NoneAssumption
      DEF BeginProvisioning, WorkerOK, InHand, KeepsPass
    <2>9. Tidy  BY <1>8, <2>1, <2>8 DEF BeginProvisioning, Tidy, TypeOK
    <2> QED  BY <1>4, <1>8, <2>9 DEF BeginProvisioning, Tidy, TypeOK
  <1> QED  BY <1>5, <1>6, <1>7, <1>8

LEMMA BucketCallsTidy ==
    ASSUME TypeOK, Coherent, InHand,
           CreateBucket \/ SetBucketQuota \/ SetBucketLifecycle \/ SetBucketReplication
    PROVE  TypeOK' /\ Tidy
  <1>1. /\ pc \in NeedsClass
        /\ {"setQuota", "setLifecycle", "setReplication", "addUser"}
             \subseteq NeedsClass \cap ProvisionSteps
    BY DEF CreateBucket, SetBucketQuota, SetBucketLifecycle, SetBucketReplication, NeedsClass,
           ProvisionSteps, Calls
  <1>2. /\ TheBucket \in Names /\ TheBucket \in CanonNames
        /\ loc.spec.quota \in Nat /\ loc.spec.rules \in Nat
    BY <1>1, InHandTypes DEF SpecType
  <1>3. /\ bucket \in [Names -> BucketState]
        /\ \A n \in Names : bucket[n].exists => n \in CanonNames
    BY DEF TypeOK, MinioOK
  <1>4. UNCHANGED <<secretVars, class, cosi, user, policy>> /\ MinioOK' /\ Tidy => TypeOK'
    BY DEF TypeOK, SecretsOK, Tidy
  <1>5. UNCHANGED <<user, policy>> /\ (bucket' = bucket \/
            (/\ bucket' \in [Names -> BucketState]
             /\ \A n \in Names : bucket'[n].exists => n \in CanonNames)) => MinioOK'
    BY DEF TypeOK, MinioOK
  <1>6. CASE CreateBucket
    <2>1. PICK applied \in BOOLEAN :
             /\ bucket' = IF applied THEN [bucket EXCEPT ![TheBucket].exists = TRUE] ELSE bucket
             /\ CallReturns(applied, "setQuota")
      BY <1>6 DEF CreateBucket
    <2>2. pc \in Calls  BY <1>6 DEF CreateBucket, Calls
    <2>3. Tidy  BY <1>1, <1>6, <2>1, <2>2, CallReturnsTidy DEF CreateBucket
    <2>4. MinioOK'  BY <1>2, <1>3, <1>5, <1>6, <2>1 DEF CreateBucket, BucketState
    <2> QED  BY <1>4, <1>6, <2>3, <2>4 DEF CreateBucket
  <1>7. CASE SetBucketQuota
    <2>1. pc \in Calls  BY <1>7 DEF SetBucketQuota, Calls
    <2>2. CASE loc.spec.quota > 0
      <3>1. PICK applied \in BOOLEAN :
               /\ bucket' = IF applied THEN [bucket EXCEPT ![TheBucket].quota = loc.spec.quota]
                            ELSE bucket
               /\ CallReturns(applied, "setLifecycle")
               /\ UNCHANGED <<user, policy>>
        BY <1>7, <2>2 DEF SetBucketQuota
      <3>2. Tidy  BY <1>1, <1>7, <2>1, <3>1, CallReturnsTidy DEF SetBucketQuota
      <3>3. MinioOK'  BY <1>2, <1>3, <1>5, <3>1 DEF BucketState
      <3> QED  BY <1>4, <1>7, <3>1, <3>2, <3>3 DEF SetBucketQuota
    <2>3. CASE ~(loc.spec.quota > 0)
      <3>1. Skip("setLifecycle")  BY <1>7, <2>3 DEF SetBucketQuota
      <3>2. Tidy  BY <1>1, <1>7, <2>1, <3>1, SkipTidy DEF SetBucketQuota
      <3> QED  BY <1>4, <1>5, <1>7, <3>1, <3>2 DEF SetBucketQuota, Skip
    <2> QED  BY <2>2, <2>3
  <1>8. CASE SetBucketLifecycle
    <2>1. pc \in Calls  BY <1>8 DEF SetBucketLifecycle, Calls
    <2>2. CASE loc.spec.rules > 0
      <3>1. PICK applied \in BOOLEAN :
               /\ bucket' = IF applied THEN [bucket EXCEPT ![TheBucket].rules = loc.spec.rules]
                            ELSE bucket
               /\ CallReturns(applied, "setReplication")
               /\ UNCHANGED <<user, policy>>
        BY <1>8, <2>2 DEF SetBucketLifecycle
      <3>2. Tidy  BY <1>1, <1>8, <2>1, <3>1, CallReturnsTidy DEF SetBucketLifecycle
      <3>3. MinioOK'  BY <1>2, <1>3, <1>5, <3>1 DEF BucketState
      <3> QED  BY <1>4, <1>8, <3>1, <3>2, <3>3 DEF SetBucketLifecycle
    <2>3. CASE ~(loc.spec.rules > 0)
      <3>1. Skip("setReplication")  BY <1>8, <2>3 DEF SetBucketLifecycle
      <3>2. Tidy  BY <1>1, <1>8, <2>1, <3>1, SkipTidy DEF SetBucketLifecycle
      <3> QED  BY <1>4, <1>5, <1>8, <3>1, <3>2 DEF SetBucketLifecycle, Skip
    <2> QED  BY <2>2, <2>3
  <1>9. CASE SetBucketReplication
    <2>1. /\ pc # "idle" /\ pc \in ProvisionSteps /\ "addUser" \in Steps
          /\ "addUser" \notin FinalizeSteps
      BY <1>9 DEF SetBucketReplication, ProvisionSteps, FinalizeSteps, Steps, Calls
    <2>2. WorkerOK' /\ InHand' /\ KeepsPass
      BY <1>1, <1>9, <2>1, GotoContinues DEF SetBucketReplication
    <2>3. KeepsLives /\ ClaimsOK'  BY <1>9, UnchangedClaims DEF SetBucketReplication
    <2>4. disturbed' \in Nat  BY <1>9, DisturbType DEF SetBucketReplication, TypeOK
    <2>5. Tidy  BY <1>9, <2>2, <2>3, <2>4 DEF SetBucketReplication, Tidy, TypeOK
    <2>6. MinioOK'  BY <1>2, <1>3, <1>5, <1>9 DEF SetBucketReplication, BucketState
    <2> QED  BY <1>4, <1>9, <2>5, <2>6 DEF SetBucketReplication
  <1> QED  BY <1>6, <1>7, <1>8, <1>9

LEMMA GrantTidy ==
    ASSUME TypeOK, Coherent, InHand, AddUser \/ AddCannedPolicy \/ SetPolicy
    PROVE  TypeOK' /\ Tidy
  <1>1. /\ pc \in NeedsClass /\ pc \in Calls
        /\ {"addPolicy", "setPolicy", "writeSecret"} \subseteq NeedsClass \cap ProvisionSteps
    BY DEF AddUser, AddCannedPolicy, SetPolicy, NeedsClass, ProvisionSteps, Calls
  <1>2. /\ cred.id \in Keys /\ cred.secret \in Claims \cup {Custom} /\ ThePolicy \in PolicyId
        /\ loc.spec.accessType \in PolicyState
    BY <1>1, InHandTypes DEF Credential, ThePolicy, PolicyId, SpecType, PolicyState
  <1>3. user \in [Keys -> UserState] /\ policy \in [PolicyId -> PolicyState]
    BY DEF TypeOK, MinioOK
  <1>4. UNCHANGED <<secretVars, class, cosi>> /\ MinioOK' /\ Tidy => TypeOK'
    BY DEF TypeOK, SecretsOK, Tidy
  <1>5. bucket' = bucket /\ user' \in [Keys -> UserState] /\ policy' \in [PolicyId -> PolicyState]
        => MinioOK'
    BY DEF TypeOK, MinioOK
  <1>6. CASE AddUser
    <2>1. PICK applied \in BOOLEAN :
             /\ user' = IF applied THEN [user EXCEPT ![cred.id].secret = cred.secret] ELSE user
             /\ CallReturns(applied, "addPolicy")
      BY <1>6 DEF AddUser
    <2>2. Tidy  BY <1>1, <1>6, <2>1, CallReturnsTidy DEF AddUser
    <2>3. user' \in [Keys -> UserState]  BY <1>2, <1>3, <2>1 DEF UserState
    <2> QED  BY <1>3, <1>4, <1>5, <1>6, <2>2, <2>3 DEF AddUser
  <1>7. CASE AddCannedPolicy
    <2>1. PICK applied \in BOOLEAN :
             /\ policy' = IF applied THEN [policy EXCEPT ![ThePolicy] = loc.spec.accessType]
                          ELSE policy
             /\ CallReturns(applied, "setPolicy")
      BY <1>7 DEF AddCannedPolicy
    <2>2. Tidy  BY <1>1, <1>7, <2>1, CallReturnsTidy DEF AddCannedPolicy
    <2>3. policy' \in [PolicyId -> PolicyState]  BY <1>2, <1>3, <2>1
    <2> QED  BY <1>3, <1>4, <1>5, <1>7, <2>2, <2>3 DEF AddCannedPolicy
  <1>8. CASE SetPolicy
    <2>1. PICK applied \in BOOLEAN :
             /\ user' = IF applied THEN [user EXCEPT ![cred.id].policy = ThePolicy] ELSE user
             /\ CallReturns(applied, "writeSecret")
      BY <1>8 DEF SetPolicy
    <2>2. Tidy  BY <1>1, <1>8, <2>1, CallReturnsTidy DEF SetPolicy
    <2>3. user' \in [Keys -> UserState]  BY <1>2, <1>3, <2>1 DEF UserState
    <2> QED  BY <1>3, <1>4, <1>5, <1>8, <2>2, <2>3 DEF SetPolicy
  <1> QED  BY <1>6, <1>7, <1>8

LEMMA ReconcileSecretTidy ==
    ASSUME TypeOK, Coherent, InHand, ReconcileSecret
    PROVE  TypeOK' /\ Tidy
  <1>1. /\ pc \in NeedsClass /\ pc = "writeSecret" /\ pc # "idle" /\ pc \in ProvisionSteps
        /\ "updateStatus" \in NeedsClass /\ "updateStatus" \in Steps
        /\ "updateStatus" \notin FinalizeSteps
    BY DEF ReconcileSecret, NeedsClass, ProvisionSteps, FinalizeSteps, Steps, Calls
  <1>2. /\ cur \in Claims /\ cred \in Credential /\ loc \in ClaimObject
        /\ TheBucket \in Names /\ TheBucket \in CanonNames
    BY <1>1, InHandTypes
  <1>3. MinioOK' /\ class' = class /\ cosi' = cosi
    BY DEF ReconcileSecret, TypeOK, MinioOK
  <1>4. SecretsOK'
    <2>1. CASE WriteSecret(cur, [cred |-> cred, bucket |-> TheBucket, owner |-> loc.uid])
      <3> DEFINE s == [cred |-> cred, bucket |-> TheBucket, owner |-> loc.uid]
      <3>1. s \in SecretObject /\ s.bucket \in CanonNames
        BY <1>2 DEF SecretObject, ClaimObject
      <3>2. /\ secret' = [secret EXCEPT ![cur] = s]
            /\ secretFresh' = [secretFresh EXCEPT ![cur] = secretFresh[cur] /\ s = secret[cur]]
            /\ secretCache' = secretCache
        BY <2>1 DEF WriteSecret, ReconcileSecret
      <3> HIDE DEF s
      <3>3. secretFresh' \in [Claims -> BOOLEAN]  BY <1>2, <3>2 DEF TypeOK, SecretsOK
      <3> QED  BY <1>2, <3>1, <3>2, <3>3 DEF TypeOK, SecretsOK
    <2>2. CASE UNCHANGED <<secret, secretFresh>>
      BY <2>2 DEF ReconcileSecret, TypeOK, SecretsOK
    <2> QED  BY <2>1, <2>2 DEF ReconcileSecret
  <1>5. CASE Goto("updateStatus") /\ UNCHANGED <<claim, fresh, queue, disturbed>>
    <2>1. WorkerOK' /\ InHand' /\ KeepsPass  BY <1>1, <1>5, GotoContinues
    <2>2. KeepsLives /\ ClaimsOK'  BY <1>5, UnchangedClaims DEF ReconcileSecret
    <2> QED  BY <1>3, <1>4, <1>5, <2>1, <2>2 DEF Tidy, TypeOK
  <1>6. CASE (UNCHANGED disturbed \/ Disturb("fault")) /\ SecretFailed
    <2>1. <<"ReconcileSecretFailed", "">> \in Why /\ "Failed" \in Phases
      BY DEF Why, Reasons, Phases
    <2>2. KeepsLives /\ ClaimsOK'
      BY <1>2, <1>6, <2>1, NoteKeepsLives DEF SecretFailed, NoteNotReady, ReconcileSecret
    <2>3. disturbed' \in Nat  BY <1>6, DisturbType DEF TypeOK
    <2>4. Requeue /\ Return  BY <1>6 DEF SecretFailed
    <2> QED  BY <1>3, <1>4, <2>2, <2>3, <2>4, ReturnEnds, RequeueType DEF Tidy, TypeOK
  <1> QED  BY <1>5, <1>6 DEF ReconcileSecret

LEMMA UpdateStatusTidy ==
    ASSUME TypeOK, Coherent, InHand, Guarding, UpdateStatus
    PROVE  TypeOK' /\ Tidy
  <1>1. /\ pc = "updateStatus" /\ pc \in NeedsClass /\ pc \in ProvisionSteps /\ pc # "idle"
        /\ "cosiBucket" \in Steps /\ "cosiBucket" \notin FinalizeSteps
    BY DEF UpdateStatus, NeedsClass, ProvisionSteps, FinalizeSteps, Steps, Calls
  <1>2. /\ cur \in Claims /\ TheBucket \in Names /\ TheBucket \in CanonNames
        /\ cls \in ClassObject /\ cred \in Credential
    BY <1>1, InHandTypes
  <1>3. claim[cur].uid = loc.uid  BY <1>1 DEF Guarding, PassHoldsFinalizer
  <1>4. MinioOK' /\ SecretsOK' /\ class' = class /\ cosi' = cosi /\ cache' = cache /\ uids' = uids
    BY DEF UpdateStatus, TypeOK, MinioOK, SecretsOK
  <1>5. Tidy => TypeOK'  BY <1>4 DEF Tidy, TypeOK
  <1> DEFINE o == BoundStatus(cache[cur], TheBucket)
  <1>6. CASE cache[cur] # None /\ fresh[cur] /\ WriteClaim(cur, o)
    <2>1. cache[cur] = claim[cur] /\ cache[cur] \in ClaimObject
      BY <1>2, <1>6 DEF Coherent, TypeOK, ClaimsOK
    <2>2. /\ o \in ClaimObject /\ o.uid = claim[cur].uid /\ o.deleting = claim[cur].deleting
          /\ o.finalizer = claim[cur].finalizer /\ o.bucketName = TheBucket
      BY <1>2, <2>1, BoundStatusType
    <2>3. KeepsLives /\ ClaimsOK'
      <3> HIDE DEF o
      <3> QED  BY <1>2, <1>4, <1>6, <2>1, <2>2, WriteKeepsLives
    <2>4. CASE pc' = "cosiBucket" /\ loc' = o /\ UNCHANGED <<cur, cls, cred, queue, disturbed>>
      <3>1. o # None /\ o.bucketName # None  BY <1>2, <2>2, NoneAssumption
      <3> HIDE DEF o
      <3>2. WorkerOK' /\ InHand' /\ KeepsPass
        BY <1>1, <1>2, <1>3, <2>2, <2>4, <3>1, NoneAssumption
        DEF WorkerOK, InHand, KeepsPass
      <3> QED  BY <1>5, <2>3, <2>4, <3>2 DEF Tidy, TypeOK
    <2>5. CASE Return /\ UNCHANGED <<queue, disturbed>>
      BY <1>5, <2>3, <2>5, ReturnEnds DEF Tidy, TypeOK
    <2>6. CASE Disturb("fault") /\ Requeue /\ Return
      BY <1>5, <2>3, <2>6, ReturnEnds, RequeueType, DisturbType DEF Tidy
    <2> QED  BY <1>6, <2>4, <2>5, <2>6 DEF UpdateStatus
  <1>7. CASE /\ UNCHANGED disturbed \/ Disturb("fault")
             /\ Requeue /\ Return /\ UNCHANGED <<claim, fresh>>
    <2>1. KeepsLives /\ ClaimsOK'  BY <1>4, <1>7, UnchangedClaims
    <2>2. disturbed' \in Nat  BY <1>7, DisturbType DEF TypeOK
    <2> QED  BY <1>5, <1>7, <2>1, <2>2, ReturnEnds, RequeueType DEF Tidy, TypeOK
  <1> QED  BY <1>6, <1>7 DEF UpdateStatus

LEMMA EnsureCosiBucketTidy ==
    ASSUME TypeOK, InHand, EnsureCosiBucket
    PROVE  TypeOK' /\ Tidy
  <1>1. KeepsLives /\ ClaimsOK'  BY UnchangedClaims DEF EnsureCosiBucket
  <1>2. disturbed' \in Nat /\ queue' \subseteq Claims
    BY RequeueType, DisturbType DEF EnsureCosiBucket, TypeOK
  <1>3. Tidy  BY <1>1, <1>2, ReturnEnds DEF EnsureCosiBucket, Tidy
  <1>4. MinioOK' /\ SecretsOK' /\ class' = class
    BY DEF EnsureCosiBucket, TypeOK, MinioOK, SecretsOK
  <1>5. cosi' \in [Names -> {"absent", "created", "ready"}]
    BY DEF EnsureCosiBucket, TypeOK
  <1> QED  BY <1>3, <1>4, <1>5 DEF Tidy, TypeOK

LEMMA FinalizeResolveTidy ==
    ASSUME TypeOK, InHand, FinalizeResolve
    PROVE  TypeOK' /\ Tidy
  <1>1. /\ pc = "finalize" /\ pc \in FinalizeSteps /\ pc # "idle" /\ cur \in Claims
        /\ loc \in ClaimObject
        /\ {"removeFinalizer", "removeUser"} \subseteq Steps \ ProvisionSteps
        /\ "removeFinalizer" \notin NeedsClass
    BY DEF FinalizeResolve, FinalizeSteps, Steps, ProvisionSteps, NeedsClass, Calls, TypeOK,
           WorkerOK, InHand
  <1>2. KeepsLives /\ ClaimsOK'  BY UnchangedClaims DEF FinalizeResolve
  <1>3. MinioOK' /\ SecretsOK' /\ class' = class /\ cosi' = cosi /\ disturbed' = disturbed
    BY DEF FinalizeResolve, TypeOK, MinioOK, SecretsOK
  <1>4. CASE Goto("removeFinalizer") /\ UNCHANGED queue
    <2>1. WorkerOK' /\ InHand' /\ KeepsPass  BY <1>1, <1>4, GotoContinues
    <2> QED  BY <1>2, <1>3, <1>4, <2>1 DEF Tidy, TypeOK
  <1>5. CASE Requeue /\ Return
    BY <1>2, <1>3, <1>5, ReturnEnds, RequeueType DEF Tidy, TypeOK
  <1>6. CASE /\ TheClass # None /\ pc' = "removeUser" /\ cls' = TheClass
             /\ cred' = IF loc.secretRef /\ secretCache[cur] # None
                        THEN secretCache[cur].cred ELSE DerivedCred(cur)
             /\ UNCHANGED <<cur, loc, queue>>
    <2>1. loc.spec.className \in Classes
      BY <1>1, SpecsAssumption DEF ClaimObject, SpecType
    <2>2. cls' \in ClassObject  BY <1>6, <2>1 DEF TheClass, TypeOK
    <2>3. DerivedCred(cur) \in Credential
      BY <1>1, NamesAssumption DEF DerivedCred, Credential
    <2>4. secretCache[cur] # None => secretCache[cur].cred \in Credential
      BY <1>1 DEF TypeOK, SecretsOK, SecretObject
    <2>5. cred' \in Credential  BY <1>6, <2>3, <2>4
    <2>6. WorkerOK' /\ InHand' /\ KeepsPass
      BY <1>1, <1>6, <2>2, <2>5, NoneAssumption DEF WorkerOK, InHand, KeepsPass
    <2> QED  BY <1>2, <1>3, <1>6, <2>6 DEF Tidy, TypeOK
  <1> QED  BY <1>4, <1>5, <1>6 DEF FinalizeResolve

LEMMA FinalizeCallsTidy ==
    ASSUME TypeOK, InHand, RemoveUser \/ RemoveCannedPolicy \/ DeleteBucket
    PROVE  TypeOK' /\ Tidy
  <1>1. /\ pc \in NeedsClass /\ pc \in FinalizeSteps /\ pc # "idle"
        /\ {"removePolicy", "deleteBucket", "removeFinalizer"} \subseteq Steps \ ProvisionSteps
    BY DEF RemoveUser, RemoveCannedPolicy, DeleteBucket, FinalizeSteps, Steps, ProvisionSteps,
           NeedsClass, Calls
  <1>2. /\ cred.id \in Keys /\ DoomedName \in Names /\ cur \in Claims
        /\ <<DoomedName, cur>> \in PolicyId
    BY <1>1, InHandTypes DEF Credential, PolicyId
  <1>3. KeepsLives /\ ClaimsOK'
    BY UnchangedClaims DEF RemoveUser, RemoveCannedPolicy, DeleteBucket
  <1>4. SecretsOK' /\ class' = class /\ cosi' = cosi
    BY DEF RemoveUser, RemoveCannedPolicy, DeleteBucket, TypeOK, SecretsOK
  <1>5. disturbed' \in Nat
    BY DisturbType DEF RemoveUser, RemoveCannedPolicy, DeleteBucket, TypeOK
  <1>6. ASSUME NEW step \in {"removePolicy", "deleteBucket", "removeFinalizer"}, Goto(step)
        PROVE  WorkerOK' /\ InHand' /\ KeepsPass
    BY <1>1, <1>6, GotoContinues
  <1>7. MinioOK'
    <2>1. NoUser \in UserState /\ NoBucket \in BucketState /\ ~NoBucket.exists
      BY DEF NoUser, UserState, NoBucket, BucketState
    <2>2. CASE RemoveUser  BY <1>2, <2>1, <2>2 DEF RemoveUser, TypeOK, MinioOK
    <2>3. CASE RemoveCannedPolicy
      BY <1>2, <2>3 DEF RemoveCannedPolicy, TypeOK, MinioOK, PolicyState
    <2>4. CASE DeleteBucket
      <3>1. \/ bucket' = bucket
            \/ bucket' = [bucket EXCEPT ![DoomedName] = NoBucket]
        BY <2>4 DEF DeleteBucket
      <3> QED  BY <1>2, <2>1, <2>4, <3>1 DEF DeleteBucket, TypeOK, MinioOK
    <2> QED  BY <2>2, <2>3, <2>4
  <1>8. WorkerOK' /\ InHand' /\ KeepsPass /\ queue' \subseteq Claims
    <2>1. CASE RemoveUser  BY <1>6, <2>1 DEF RemoveUser, TypeOK
    <2>2. CASE RemoveCannedPolicy
      <3>1. AfterRevoke(cls) \in {"deleteBucket", "removeFinalizer"}  BY DEF AfterRevoke
      <3> QED  BY <1>6, <2>2, <3>1 DEF RemoveCannedPolicy, TypeOK
    <2>3. CASE DeleteBucket
      <3>1. \/ Goto("removeFinalizer") /\ UNCHANGED queue
            \/ Requeue /\ Return
        BY <2>3 DEF DeleteBucket
      <3> QED  BY <1>6, <3>1, ReturnEnds, RequeueType DEF TypeOK
    <2> QED  BY <2>1, <2>2, <2>3
  <1> QED  BY <1>3, <1>4, <1>5, <1>7, <1>8 DEF Tidy, TypeOK

(* The removal of the finalizer is the one step of the worker that ends a  *)
(* claim's life: the cache cannot still show that claim as alive.          *)
LEMMA RemoveFinalizerSafe ==
    ASSUME IInv, RemoveFinalizer
    PROVE  IInv'
  <1> USE DEF IInv
  <1>1. /\ pc \in FinalizeSteps /\ pc # "idle" /\ cur \in Claims /\ loc # None
    BY DEF RemoveFinalizer, FinalizeSteps, TypeOK, WorkerOK, InHand
  <1>2. MinioOK' /\ SecretsOK' /\ class' = class /\ cosi' = cosi /\ cache' = cache /\ uids' = uids
    BY DEF RemoveFinalizer, TypeOK, MinioOK, SecretsOK
  <1>3. WorkerOK' /\ InHand' /\ KeepsPass /\ pc' = "idle"
    BY ReturnEnds DEF RemoveFinalizer, Return
  <1>4. CASE claim[cur] = loc /\ WriteClaim(cur, None) /\ UNCHANGED <<queue, disturbed>>
    <2>1. /\ claim' = [claim EXCEPT ![cur] = None]
          /\ fresh' = [fresh EXCEPT ![cur] = fresh[cur] /\ None = claim[cur]]
      BY <1>4 DEF WriteClaim
    <2>2. claim'[cur] = None /\ \A d \in Claims \ {cur} : claim'[d] = claim[d]
      BY <1>1, <2>1 DEF TypeOK, ClaimsOK
    <2>3. fresh' \in [Claims -> BOOLEAN]  BY <1>1, <2>1 DEF TypeOK, ClaimsOK
    <2>4. ~fresh'[cur] /\ \A d \in Claims \ {cur} : fresh'[d] = fresh[d]
      BY <1>1, <1>4, <2>1 DEF TypeOK, ClaimsOK
    <2>5. ClaimsOK'  BY <1>2, <2>1, <2>2, <2>3 DEF TypeOK, ClaimsOK
    <2>6. TypeOK'  BY <1>2, <1>3, <1>4, <2>5 DEF TypeOK
    <2>7. Coherent'  BY <1>2, <2>2, <2>4 DEF Coherent
    <2>8. UidsGrow' /\ DeletionKnown'
      BY <1>2, <2>2 DEF Guarding, UidsGrow, DeletionKnown
    <2>9. CachedAlive'
      <3>1. cache[cur] # None => cache[cur].deleting
        <4>1. cache[cur] # None => cache[cur].uid <= loc.uid
          BY <1>1, <1>4 DEF Guarding, UidsGrow
        <4> QED  BY <1>1, <4>1 DEF Guarding, PassFinalizes
      <3> QED  BY <1>2, <2>2, <3>1 DEF Guarding, CachedAlive, HasFinalizer
    <2>10. PassHoldsFinalizer' /\ PassFinalizes'
      BY <1>3 DEF PassHoldsFinalizer, PassFinalizes, ProvisionSteps, FinalizeSteps, Calls
    <2> QED  BY <1>3, <2>6, <2>7, <2>8, <2>9, <2>10 DEF Guarding
  <1>5. CASE /\ UNCHANGED disturbed \/ Disturb("fault")
             /\ Requeue /\ UNCHANGED <<claim, fresh>>
    <2>1. KeepsLives /\ ClaimsOK'  BY <1>2, <1>5, UnchangedClaims
    <2>2. Coherent' /\ Guarding'  BY <1>3, <2>1, KeepingIsSafe
    <2>3. disturbed' \in Nat  BY <1>5, DisturbType DEF TypeOK
    <2> QED  BY <1>2, <1>3, <1>5, <2>1, <2>2, <2>3, RequeueType DEF TypeOK
  <1> QED  BY <1>4, <1>5 DEF RemoveFinalizer

LEMMA WorkerStepSafe ==
    ASSUME IInv, WorkerStep
    PROVE  IInv'
  <1>1. CASE RemoveFinalizer  BY <1>1, RemoveFinalizerSafe
  <1>2. CASE ~RemoveFinalizer
    <2>1. TypeOK' /\ Tidy
      BY <1>2, GetClassTidy, BucketCallsTidy, GrantTidy, ReconcileSecretTidy, UpdateStatusTidy,
         EnsureCosiBucketTidy, FinalizeResolveTidy, FinalizeCallsTidy
      DEF WorkerStep, IInv
    <2> QED  BY <2>1, KeepingIsSafe DEF Tidy, IInv
  <1> QED  BY <1>1, <1>2
-----------------------------------------------------------------------------
(* The start of a pass.                                                    *)

LEMMA StartSafe ==
    ASSUME IInv, NEW c \in Claims, Start(c)
    PROVE  IInv'
  <1> USE DEF IInv
  <1>1. CASE ReconcileNothing(c)
    <2>1. KeepsLives /\ ClaimsOK'  BY <1>1, UnchangedClaims DEF ReconcileNothing
    <2>2. KeepsPass /\ InHand' /\ WorkerOK'
      BY <1>1 DEF ReconcileNothing, KeepsPass, InHand, TypeOK, WorkerOK
    <2>3. TypeOK'  BY <1>1, <2>1, <2>2 DEF ReconcileNothing, TypeOK, SecretsOK, MinioOK
    <2> QED  BY <2>1, <2>2, <2>3, KeepingIsSafe
  <1>2. CASE ReconcileDeletion(c)
    <2>1. KeepsLives /\ ClaimsOK'  BY <1>2, UnchangedClaims DEF ReconcileDeletion
    <2>2. /\ cache[c] \in ClaimObject /\ cache[c] # None /\ cache[c].deleting
          /\ cache[c].finalizer /\ pc' = "finalize" /\ cur' = c /\ loc' = cache[c]
      BY <1>2 DEF ReconcileDeletion, TypeOK, ClaimsOK
    <2>3. pc' \in Steps /\ pc' \notin NeedsClass /\ pc' \notin ProvisionSteps
      BY <2>2 DEF Steps, FinalizeSteps, NeedsClass, ProvisionSteps, Calls
    <2>4. WorkerOK' /\ InHand'
      BY <1>2, <2>2, <2>3 DEF ReconcileDeletion, WorkerOK, InHand, TypeOK
    <2>5. TypeOK'  BY <1>2, <2>1, <2>4 DEF ReconcileDeletion, TypeOK, SecretsOK, MinioOK
    <2>6. Coherent' /\ UidsGrow' /\ DeletionKnown' /\ CachedAlive'
      BY <1>2 DEF ReconcileDeletion, Coherent, Guarding, UidsGrow, DeletionKnown, CachedAlive,
                  HasFinalizer
    <2>7. PassHoldsFinalizer'  BY <2>3 DEF PassHoldsFinalizer
    <2>8. PassFinalizes'
      BY <1>2, <2>2 DEF ReconcileDeletion, PassFinalizes, Guarding, UidsGrow, DeletionKnown
    <2> QED  BY <2>4, <2>5, <2>6, <2>7, <2>8 DEF Guarding
  <1>3. CASE ReconcileProvision(c)
    <2>1. /\ cache[c] \in ClaimObject /\ cache[c] # None /\ ~cache[c].deleting
          /\ pc' = "getClass" /\ cur' = c /\ loc' = WithFinalizer(cache[c])
          /\ cache' = cache /\ uids' = uids
      BY <1>3 DEF ReconcileProvision, TypeOK, ClaimsOK
    <2>2. /\ loc' \in ClaimObject /\ loc' # None /\ loc'.uid = cache[c].uid
          /\ loc'.finalizer /\ loc'.deleting = cache[c].deleting
          /\ loc'.bucketName = cache[c].bucketName
      BY <2>1, WithFinalizerType, NoneAssumption
    <2>3. pc' \in Steps /\ pc' \notin NeedsClass /\ pc' \notin FinalizeSteps
      BY <2>1 DEF Steps, FinalizeSteps, NeedsClass, ProvisionSteps, Calls
    <2>4. WorkerOK' /\ InHand'
      BY <1>3, <2>1, <2>2, <2>3 DEF ReconcileProvision, WorkerOK, InHand, TypeOK
    <2>5. ClaimsOK' => TypeOK'
      BY <1>3, <2>4 DEF ReconcileProvision, TypeOK, SecretsOK, MinioOK
    <2>6. PassFinalizes'  BY <2>3 DEF PassFinalizes
    <2>7. CASE cache[c].finalizer /\ UNCHANGED <<claim, fresh>>
      <3>1. ClaimsOK'  BY <2>1, <2>7, UnchangedClaims
      <3>2. Coherent' /\ UidsGrow' /\ DeletionKnown' /\ CachedAlive'
        BY <2>1, <2>7 DEF Coherent, Guarding, UidsGrow, DeletionKnown, CachedAlive,
                          HasFinalizer
      <3>3. PassHoldsFinalizer'
        BY <2>1, <2>2, <2>7 DEF PassHoldsFinalizer, Guarding, CachedAlive, HasFinalizer
      <3> QED  BY <2>4, <2>5, <2>6, <3>1, <3>2, <3>3 DEF Guarding
    <2>8. CASE fresh[c] /\ WriteClaim(c, loc')
      <3>1. cache[c] = claim[c]  BY <2>8 DEF Coherent
      <3>2. /\ claim' = [claim EXCEPT ![c] = loc']
            /\ fresh' = [fresh EXCEPT ![c] = fresh[c] /\ loc' = claim[c]]
        BY <2>8 DEF WriteClaim
      <3>3. claim'[c] = loc' /\ \A d \in Claims \ {c} : claim'[d] = claim[d]
        BY <3>2 DEF TypeOK, ClaimsOK
      <3>4. fresh' \in [Claims -> BOOLEAN]  BY <3>2 DEF TypeOK, ClaimsOK
      <3>5. \A d \in Claims : fresh'[d] => fresh[d] /\ claim'[d] = claim[d]
        BY <3>2, <3>3 DEF TypeOK, ClaimsOK
      <3>6. ClaimsOK'
        BY <2>1, <2>2, <3>1, <3>2, <3>3, <3>4 DEF TypeOK, ClaimsOK
      <3>7. Coherent'  BY <2>1, <3>5 DEF Coherent
      <3>8. UidsGrow' /\ DeletionKnown'
        BY <2>1, <2>2, <3>1, <3>3 DEF Guarding, UidsGrow, DeletionKnown
      <3>9. CachedAlive'
        BY <2>1, <2>2, <3>1, <3>3 DEF Guarding, CachedAlive, HasFinalizer
      <3>10. PassHoldsFinalizer'
        BY <2>1, <2>2, <3>3 DEF PassHoldsFinalizer, HasFinalizer
      <3> QED  BY <2>4, <2>5, <2>6, <3>6, <3>7, <3>8, <3>9, <3>10 DEF Guarding
    <2> QED  BY <1>3, <2>1, <2>7, <2>8 DEF ReconcileProvision
  <1> QED  BY <1>1, <1>2, <1>3 DEF Start
-----------------------------------------------------------------------------
(* The surroundings.                                                       *)

LEMMA CreateClaimSafe ==
    ASSUME IInv, NEW c \in Claims, NEW s \in Specs, CreateClaim(c, s)
    PROVE  IInv'
  <1> USE DEF IInv
  <1> DEFINE o == NewClaim(uids[c] + 1, s)
  <1>1. /\ claim[c] = None /\ cache' = cache /\ WriteClaim(c, o)
        /\ uids' = [uids EXCEPT ![c] = uids[c] + 1]
    BY DEF CreateClaim, TypeOK, ClaimsOK
  <1>2. uids[c] \in Nat /\ uids[c] + 1 \in Nat  BY DEF TypeOK, ClaimsOK
  <1>3. /\ o \in ClaimObject /\ o # None /\ o.uid = uids[c] + 1 /\ ~o.deleting /\ ~o.finalizer
        /\ o.bucketName = None
    BY <1>2, NewClaimType, NoneAssumption
  <1> HIDE DEF o
  <1>4. /\ claim' = [claim EXCEPT ![c] = o]
        /\ fresh' = [fresh EXCEPT ![c] = fresh[c] /\ o = claim[c]]
    BY <1>1 DEF WriteClaim
  <1>5. /\ claim'[c] = o /\ \A d \in Claims \ {c} : claim'[d] = claim[d]
        /\ uids'[c] = uids[c] + 1 /\ \A d \in Claims \ {c} : uids'[d] = uids[d]
        /\ uids' \in [Claims -> Nat]
    BY <1>1, <1>2, <1>4 DEF TypeOK, ClaimsOK
  <1>6. fresh' \in [Claims -> BOOLEAN]  BY <1>4 DEF TypeOK, ClaimsOK
  <1>7. ~fresh'[c] /\ \A d \in Claims \ {c} : fresh'[d] = fresh[d]
    BY <1>1, <1>3, <1>4 DEF TypeOK, ClaimsOK
  <1>8. ClaimsOK'  BY <1>1, <1>3, <1>4, <1>5, <1>6 DEF TypeOK, ClaimsOK
  <1>9. TypeOK' /\ InHand'
    BY <1>8 DEF CreateClaim, TypeOK, SecretsOK, MinioOK, WorkerOK, InHand
  <1>10. Coherent'  BY <1>1, <1>5, <1>7 DEF Coherent
  <1>11. \A d \in Claims : cache[d] # None => cache[d].uid \in Nat
    BY DEF TypeOK, ClaimsOK, ClaimObject
  <1>12. UidsGrow'  BY <1>1, <1>2, <1>3, <1>5, <1>11 DEF Guarding, UidsGrow
  <1>13. DeletionKnown'
    BY <1>1, <1>2, <1>3, <1>5, <1>11 DEF Guarding, UidsGrow, DeletionKnown
  <1>14. CachedAlive'  BY <1>1, <1>5 DEF Guarding, CachedAlive, HasFinalizer
  <1>15. PassHoldsFinalizer'
    BY <1>1, <1>5 DEF CreateClaim, Guarding, PassHoldsFinalizer, HasFinalizer, TypeOK, WorkerOK
  <1>16. PassFinalizes'
    <2>1. pc \in FinalizeSteps => loc.uid \in Nat
      BY DEF TypeOK, WorkerOK, InHand, ClaimObject, FinalizeSteps
    <2> QED
      BY <1>1, <1>2, <1>3, <1>5, <2>1
      DEF CreateClaim, Guarding, PassFinalizes, TypeOK, WorkerOK
  <1> QED  BY <1>9, <1>10, <1>12, <1>13, <1>14, <1>15, <1>16 DEF Guarding

LEMMA DeleteClaimSafe ==
    ASSUME IInv, NEW c \in Claims, DeleteClaim(c)
    PROVE  IInv'
  <1> USE DEF IInv
  <1> DEFINE o == IF claim[c].finalizer THEN Terminating(claim[c]) ELSE None
  <1>1. /\ claim[c] # None /\ claim[c] \in ClaimObject /\ ~claim[c].deleting
        /\ WriteClaim(c, o) /\ cache' = cache /\ uids' = uids
    BY DEF DeleteClaim, TypeOK, ClaimsOK
  <1>2. claim[c].finalizer =>
           /\ o \in ClaimObject /\ o # None /\ o.uid = claim[c].uid /\ o.deleting /\ o.finalizer
           /\ o.bucketName = claim[c].bucketName
    BY <1>1, TerminatingType, NoneAssumption
  <1>3. ~claim[c].finalizer => o = None  OBVIOUS
  <1> HIDE DEF o
  <1>4. /\ claim' = [claim EXCEPT ![c] = o]
        /\ fresh' = [fresh EXCEPT ![c] = fresh[c] /\ o = claim[c]]
    BY <1>1 DEF WriteClaim
  <1>5. claim'[c] = o /\ \A d \in Claims \ {c} : claim'[d] = claim[d]
    BY <1>4 DEF TypeOK, ClaimsOK
  <1>6. fresh' \in [Claims -> BOOLEAN]  BY <1>4 DEF TypeOK, ClaimsOK
  <1>7. \A d \in Claims : fresh'[d] => fresh[d] /\ claim'[d] = claim[d]
    BY <1>4, <1>5 DEF TypeOK, ClaimsOK
  <1>8. ClaimsOK'  BY <1>1, <1>2, <1>3, <1>4, <1>5, <1>6 DEF TypeOK, ClaimsOK
  <1>9. TypeOK' /\ InHand'
    BY <1>8 DEF DeleteClaim, TypeOK, SecretsOK, MinioOK, WorkerOK, InHand
  <1>10. Coherent'  BY <1>1, <1>7 DEF Coherent
  <1>11. UidsGrow' /\ DeletionKnown'
    BY <1>1, <1>2, <1>3, <1>5 DEF Guarding, UidsGrow, DeletionKnown
  <1>12. CachedAlive'
    BY <1>1, <1>2, <1>3, <1>5 DEF Guarding, CachedAlive, HasFinalizer
  <1>13. PassHoldsFinalizer'
    BY <1>1, <1>2, <1>3, <1>5
    DEF DeleteClaim, Guarding, PassHoldsFinalizer, HasFinalizer, TypeOK, WorkerOK
  <1>14. PassFinalizes'
    <2>1. UNCHANGED <<pc, cur, loc, cache, uids>> /\ cur \in Claims
      BY <1>1 DEF DeleteClaim, TypeOK, WorkerOK
    <2>2. CASE cur = c
      BY <1>1, <1>2, <1>3, <1>5, <2>1, <2>2 DEF Guarding, PassFinalizes
    <2>3. CASE cur # c
      BY <1>5, <2>1, <2>3 DEF Guarding, PassFinalizes
    <2> QED  BY <2>2, <2>3
  <1> QED  BY <1>9, <1>10, <1>11, <1>12, <1>13, <1>14 DEF Guarding

LEMMA SyncClaimSafe ==
    ASSUME IInv, NEW c \in Claims, SyncClaim(c)
    PROVE  IInv'
  <1> USE DEF IInv
  <1>1. /\ cache' = [cache EXCEPT ![c] = claim[c]] /\ fresh' = [fresh EXCEPT ![c] = TRUE]
        /\ claim' = claim /\ uids' = uids /\ UNCHANGED workerVars
    BY DEF SyncClaim
  <1>2. cache'[c] = claim[c] /\ \A d \in Claims \ {c} : cache'[d] = cache[d]
    BY <1>1 DEF TypeOK, ClaimsOK
  <1>3. \A d \in Claims \ {c} : fresh'[d] = fresh[d]  BY <1>1 DEF TypeOK, ClaimsOK
  <1>4. ClaimsOK'  BY <1>1 DEF TypeOK, ClaimsOK
  <1>5. TypeOK' /\ InHand'
    BY <1>4 DEF SyncClaim, TypeOK, SecretsOK, MinioOK, WorkerOK, InHand
  <1>6. Coherent'  BY <1>1, <1>2, <1>3 DEF Coherent
  <1>7. claim[c] # None => claim[c].uid \in Nat  BY DEF TypeOK, ClaimsOK, ClaimObject
  <1>8. UidsGrow' /\ DeletionKnown' /\ CachedAlive'
    BY <1>1, <1>2, <1>7 DEF Guarding, UidsGrow, DeletionKnown, CachedAlive, HasFinalizer
  <1>9. PassHoldsFinalizer'
    BY <1>1 DEF Guarding, PassHoldsFinalizer, HasFinalizer
  <1>10. PassFinalizes'
    <2>1. pc \in FinalizeSteps => loc.uid \in Nat
      BY DEF TypeOK, WorkerOK, InHand, ClaimObject, FinalizeSteps
    <2> QED
      BY <1>1, <1>2, <1>7, <2>1 DEF Guarding, PassFinalizes, UidsGrow, TypeOK, WorkerOK
  <1> QED  BY <1>5, <1>6, <1>8, <1>9, <1>10 DEF Guarding

LEMMA SurroundingsSafe ==
    ASSUME IInv, Environment \/ Background
    PROVE  IInv'
  <1> USE DEF IInv
  <1>1. CASE \E c \in Claims, s \in Specs : CreateClaim(c, s)  BY <1>1, CreateClaimSafe
  <1>2. CASE \E c \in Claims : DeleteClaim(c)  BY <1>2, DeleteClaimSafe
  <1>3. CASE \E c \in Claims : SyncClaim(c)  BY <1>3, SyncClaimSafe
  <1>4. CASE \E c \in Claims, s \in Specs : EditClaim(c, s)
    <2>1. PICK c \in Claims, s \in Specs : EditClaim(c, s)  BY <1>4
    <2>2. /\ claim[c] # None /\ claim[c] \in ClaimObject
          /\ claim[c].bucketName \in CanonNames \cup {None}
          /\ WriteClaim(c, Edited(claim[c], s)) /\ cache' = cache /\ uids' = uids
      BY <2>1 DEF EditClaim, TypeOK, ClaimsOK
    <2>3. KeepsLives /\ ClaimsOK'  BY <2>2, EditedType, WriteKeepsLives
    <2>4. KeepsPass /\ InHand' /\ WorkerOK'
      BY <2>1 DEF EditClaim, KeepsPass, InHand, TypeOK, WorkerOK
    <2>5. TypeOK'  BY <2>1, <2>3, <2>4 DEF EditClaim, TypeOK, SecretsOK, MinioOK
    <2> QED  BY <2>3, <2>4, <2>5, KeepingIsSafe
  <1>5. ASSUME UNCHANGED claimVars, KeepsPass, InHand', TypeOK'
        PROVE  IInv'
    BY <1>5, UnchangedClaims, KeepingIsSafe
  <1>6. ASSUME UNCHANGED workerVars
        PROVE  KeepsPass /\ InHand' /\ WorkerOK'
    BY <1>6 DEF KeepsPass, InHand, TypeOK, WorkerOK
  <1>7. ASSUME NEW c \in Claims, NEW s \in SecretObject \cup {None}, WriteSecret(c, s),
               s # None => s.bucket = None, UNCHANGED secretCache
        PROVE  SecretsOK'
    <2>1. secretFresh' \in [Claims -> BOOLEAN]  BY <1>7 DEF WriteSecret, TypeOK, SecretsOK
    <2>2. secret' = [secret EXCEPT ![c] = s]  BY <1>7 DEF WriteSecret
    <2> QED  BY <1>7, <2>1, <2>2 DEF TypeOK, SecretsOK
  <1>8. CASE \E c \in Claims : SyncSecret(c)
    <2>1. PICK c \in Claims : SyncSecret(c)  BY <1>8
    <2>2. SecretsOK' /\ ClaimsOK' /\ MinioOK' /\ queue' \subseteq Claims
      BY <2>1 DEF SyncSecret, TypeOK, SecretsOK, ClaimsOK, MinioOK
    <2>3. TypeOK'  BY <1>6, <2>1, <2>2 DEF SyncSecret, TypeOK
    <2> QED  BY <1>5, <1>6, <2>1, <2>3 DEF SyncSecret
  <1>9. CASE \E c \in Claims : CollectSecret(c)
    <2>1. PICK c \in Claims : CollectSecret(c)  BY <1>9
    <2>2. SecretsOK'  BY <1>7, <2>1 DEF CollectSecret
    <2>3. TypeOK'  BY <1>6, <2>1, <2>2 DEF CollectSecret, TypeOK, ClaimsOK, MinioOK
    <2> QED  BY <1>5, <1>6, <2>1, <2>3 DEF CollectSecret
  <1>10. CASE \E c \in Claims : EditSecret(c)
    <2>1. PICK c \in Claims : EditSecret(c)  BY <1>10
    <2>2. ASSUME NEW k \in Keys
          PROVE  /\ [cred |-> [id |-> k, secret |-> Custom], bucket |-> None, owner |-> 0]
                      \in SecretObject
                 /\ [cred |-> [id |-> k, secret |-> Custom], bucket |-> None, owner |-> 0].bucket
                      = None
      BY <2>2 DEF SecretObject, Credential
    <2>3. SecretsOK'  BY <1>7, <2>1, <2>2 DEF EditSecret
    <2>4. disturbed' \in Nat  BY <2>1, DisturbType DEF EditSecret
    <2>5. TypeOK'  BY <1>6, <2>1, <2>3, <2>4 DEF EditSecret, TypeOK, ClaimsOK, MinioOK
    <2> QED  BY <1>5, <1>6, <2>1, <2>5 DEF EditSecret
  <1>11. CASE \E k \in Classes, o \in ClassVersions : EditClass(k, o)
    <2>1. PICK k \in Classes, o \in ClassVersions : EditClass(k, o)  BY <1>11
    <2>2. class' \in [Classes -> ClassObject \cup {None}]
      BY <2>1, ControllerAssumption DEF EditClass, TypeOK
    <2>3. disturbed' \in Nat  BY <2>1, DisturbType DEF EditClass
    <2>4. TypeOK'
      BY <1>6, <2>1, <2>2, <2>3 DEF EditClass, TypeOK, ClaimsOK, SecretsOK, MinioOK
    <2> QED  BY <1>5, <1>6, <2>1, <2>4 DEF EditClass
  <1>12. CASE Crash
    <2>1. WorkerOK' /\ InHand' /\ KeepsPass  BY <1>12, ReturnEnds DEF Crash
    <2>2. disturbed' \in Nat /\ queue' \subseteq Claims  BY <1>12, DisturbType DEF Crash
    <2>3. TypeOK'  BY <1>12, <2>1, <2>2 DEF Crash, TypeOK, ClaimsOK, SecretsOK, MinioOK
    <2> QED  BY <1>5, <1>12, <2>1, <2>3 DEF Crash
  <1>13. CASE Resync
    <2>1. TypeOK'  BY <1>6, <1>13 DEF Resync, TypeOK, ClaimsOK, SecretsOK, MinioOK
    <2> QED  BY <1>5, <1>6, <1>13, <2>1 DEF Resync
  <1> QED
    BY <1>1, <1>2, <1>3, <1>4, <1>8, <1>9, <1>10, <1>11, <1>12, <1>13
    DEF Environment, Background
-----------------------------------------------------------------------------
LEMMA InitSafe == Init => IInv
  <1> SUFFICES ASSUME Init PROVE IInv  OBVIOUS
  <1>1. ClaimsOK /\ SecretsOK /\ MinioOK
    <2>1. NoBucket \in BucketState /\ ~NoBucket.exists /\ NoUser \in UserState
          /\ "absent" \in PolicyState
      BY DEF NoBucket, BucketState, NoUser, UserState, PolicyState
    <2> QED  BY <2>1 DEF Init, ClaimsOK, SecretsOK, MinioOK
  <1>2. WorkerOK  BY DEF Init, WorkerOK, Steps
  <1>3. TypeOK  BY <1>1, <1>2, ControllerAssumption DEF Init, TypeOK
  <1>4. Coherent /\ InHand
    BY DEF Init, Coherent, InHand, NeedsClass, ProvisionSteps, Calls
  <1>5. Guarding
    BY DEF Init, Guarding, UidsGrow, DeletionKnown, CachedAlive, PassHoldsFinalizer,
           PassFinalizes, ProvisionSteps, FinalizeSteps, Calls
  <1> QED  BY <1>3, <1>4, <1>5 DEF IInv

LEMMA NextSafe == IInv /\ [Next]_vars => IInv'
  <1>1. ASSUME IInv, Next PROVE IInv'
    BY <1>1, WorkerStepSafe, StartSafe, SurroundingsSafe DEF Next
  <1>2. ASSUME IInv, UNCHANGED vars PROVE IInv'
    <2>1. TypeOK' /\ Coherent' /\ InHand'
      BY <1>2 DEF IInv, vars, TypeOK, ClaimsOK, SecretsOK, MinioOK, WorkerOK, Coherent, InHand
    <2>2. Guarding'
      BY <1>2 DEF IInv, vars, Guarding, UidsGrow, DeletionKnown, CachedAlive,
                  PassHoldsFinalizer, PassFinalizes, HasFinalizer
    <2> QED  BY <2>1, <2>2 DEF IInv
  <1> QED  BY <1>1, <1>2

(* The inductive invariant holds throughout.                               *)
THEOREM Invariance == Spec => []IInv
  BY InitSafe, NextSafe, PTL DEF Spec

(* Every variable keeps its type, and every bucket name the operator       *)
(* creates, records in a status or hands out in a Secret is canonical.     *)
THEOREM TypeCorrect == Spec => []TypeOK
  <1>1. IInv => TypeOK  BY DEF IInv
  <1> QED  BY <1>1, Invariance, PTL

(* Buckets, users and policies come into being only under the finalizer of *)
(* the claim they are for.                                                 *)
THEOREM FinalizerFirst == Spec => EffectsUnderFinalizer
  <1> DEFINE Grows == \/ \E n \in Names : ~bucket[n].exists /\ bucket'[n].exists
                      \/ \E k \in Keys : user[k].secret = None /\ user'[k].secret # None
                      \/ \E p \in PolicyId : policy[p] = "absent" /\ policy'[p] # "absent"
  <1>1. ASSUME IInv, Next, Grows
        PROVE  HasFinalizer(cur) /\ claim[cur].uid = loc.uid
    <2>1. pc \in ProvisionSteps
      <3>1. CASE pc \in {"createBucket", "setQuota", "setLifecycle", "setReplication",
                         "addUser", "addPolicy", "setPolicy"}
        BY <3>1 DEF ProvisionSteps, Calls
      <3>2. CASE UNCHANGED minioVars  BY <1>1, <3>2
      <3>3. CASE RemoveUser
        <4>1. NoUser.secret = None  BY DEF NoUser
        <4>2. user \in [Keys -> UserState]  BY <1>1 DEF IInv, TypeOK, MinioOK
        <4>3. UNCHANGED <<bucket, policy>>  BY <3>3 DEF RemoveUser
        <4>4. \A k \in Keys : user'[k] = user[k] \/ user'[k] = NoUser
          BY <3>3, <4>2 DEF RemoveUser
        <4> QED  BY <1>1, <4>1, <4>3, <4>4
      <3>4. CASE RemoveCannedPolicy
        <4>1. policy \in [PolicyId -> PolicyState]  BY <1>1 DEF IInv, TypeOK, MinioOK
        <4>2. UNCHANGED <<bucket, user>>  BY <3>4 DEF RemoveCannedPolicy
        <4>3. \A p \in PolicyId : policy'[p] = policy[p] \/ policy'[p] = "absent"
          BY <3>4, <4>1 DEF RemoveCannedPolicy
        <4> QED  BY <1>1, <4>2, <4>3
      <3>5. CASE DeleteBucket
        <4>1. bucket \in [Names -> BucketState] /\ ~NoBucket.exists
          BY <1>1 DEF IInv, TypeOK, MinioOK, NoBucket
        <4>2. UNCHANGED <<policy, user>>  BY <3>5 DEF DeleteBucket
        <4>3. bucket' = bucket \/ bucket' = [bucket EXCEPT ![DoomedName] = NoBucket]
          BY <3>5 DEF DeleteBucket
        <4>4. \A n \in Names : bucket'[n] = bucket[n] \/ bucket'[n] = NoBucket
          BY <4>1, <4>3
        <4> QED  BY <1>1, <4>1, <4>2, <4>4
      <3> QED
        BY <1>1, <3>1, <3>2, <3>3, <3>4, <3>5
        DEF Next, WorkerStep, Environment, Background, Start,
            GetClassFails, ForeignDriver, ProviderFails, BeginProvisioning,
            CreateBucket, SetBucketQuota, SetBucketLifecycle, SetBucketReplication,
            AddUser, AddCannedPolicy, SetPolicy, ReconcileSecret, UpdateStatus,
            EnsureCosiBucket, FinalizeResolve, RemoveFinalizer, ReconcileNothing,
            ReconcileDeletion, ReconcileProvision, CreateClaim, EditClaim, DeleteClaim,
            EditSecret, EditClass, Crash, SyncClaim, SyncSecret, CollectSecret, Resync
    <2> QED  BY <1>1, <2>1 DEF IInv, Guarding, PassHoldsFinalizer
  <1>2. IInv /\ [Next]_vars => [Grows => HasFinalizer(cur) /\ claim[cur].uid = loc.uid]_vars
    BY <1>1
  <1> QED  BY <1>2, Invariance, PTL DEF Spec, EffectsUnderFinalizer
-----------------------------------------------------------------------------
(* The steps that write a claim.                                           *)
Noted == \E phase \in {"Pending", "Failed"}, why \in Why : Note(cur, phase, why)

LEMMA CallsOnlyNote ==
    ASSUME NEW applied, NEW next, CallReturns(applied, next), pc \in Calls
    PROVE  UNCHANGED <<claim, fresh>> \/ Noted
  <1>1. <<"Provisioning", pc>> \in Why /\ <<"Failed", pc>> \in Why  BY DEF Why, Reasons
  <1> QED  BY <1>1 DEF CallReturns, CallFails, NoteProvisioning, NoteNotReady, Noted

LEMMA WorkerWrites ==
    ASSUME WorkerStep
    PROVE  claim' = claim \/ Noted \/ UpdateStatus \/ RemoveFinalizer
  <1>1. ASSUME NEW r \in Reasons, \/ NoteProvisioning(cur, <<r, "">>)
                                  \/ NoteNotReady(cur, <<r, "">>)
        PROVE  Noted
    <2>1. <<r, "">> \in Why  BY DEF Why
    <2> QED  BY <1>1, <2>1 DEF NoteProvisioning, NoteNotReady, Noted
  <1>2. /\ "BucketClassNotFound" \in Reasons /\ "UnsupportedDriver" \in Reasons
        /\ "BucketClassLookupFailed" \in Reasons
        /\ "CredentialSecretNotFound" \in Reasons /\ "Provisioning" \in Reasons
        /\ "MinioCredentialSecretInvalid" \in Reasons /\ "ReconcileSecretFailed" \in Reasons
        /\ \A p \in {"unsupported", "awsInvalid"} : p \in Reasons
    BY DEF Reasons
  <1>3. CASE pc \in Calls /\ \E applied, next : CallReturns(applied, next)
    BY <1>3, CallsOnlyNote
  <1> QED
    BY <1>1, <1>2, <1>3
    DEF WorkerStep, GetClassFails, ForeignDriver, ProviderFails, BeginProvisioning,
        CreateBucket, SetBucketQuota, SetBucketLifecycle, SetBucketReplication, Skip,
        AddUser, AddCannedPolicy, SetPolicy, ReconcileSecret, SecretFailed, EnsureCosiBucket,
        FinalizeResolve, RemoveUser, RemoveCannedPolicy, DeleteBucket, Calls

LEMMA ClaimWriters ==
    ASSUME Next
    PROVE  \/ claim' = claim \/ Noted \/ UpdateStatus \/ RemoveFinalizer
           \/ \E c \in Claims : ReconcileProvision(c) \/ DeleteClaim(c)
           \/ \E c \in Claims, s \in Specs : CreateClaim(c, s) \/ EditClaim(c, s)
  <1>1. WorkerStep => claim' = claim \/ Noted \/ UpdateStatus \/ RemoveFinalizer
    BY WorkerWrites
  <1>2. \A c \in Claims : Start(c) => claim' = claim \/ ReconcileProvision(c)
    BY DEF Start, ReconcileNothing, ReconcileDeletion
  <1>3. Environment \/ Background =>
            \/ claim' = claim
            \/ \E c \in Claims, s \in Specs : CreateClaim(c, s) \/ EditClaim(c, s)
            \/ \E c \in Claims : DeleteClaim(c)
    BY DEF Environment, Background, EditSecret, EditClass, Crash, SyncClaim, SyncSecret,
           CollectSecret, Resync
  <1> QED  BY <1>1, <1>2, <1>3 DEF Next

(* No step takes a bound claim back.                                       *)
StaysBound ==
    \A c \in Claims :
        claim[c] # None /\ claim'[c] # None /\ claim[c].uid = claim'[c].uid
        /\ claim[c].phase = "Bound" => claim'[c].phase = "Bound"

LEMMA WriteStaysBound ==
    ASSUME TypeOK, NEW c \in Claims, NEW o, WriteClaim(c, o),
           claim[c] # None /\ o # None /\ claim[c].phase = "Bound" => o.phase = "Bound"
    PROVE  StaysBound
  <1>1. claim'[c] = o /\ \A d \in Claims \ {c} : claim'[d] = claim[d]
    BY DEF WriteClaim, TypeOK, ClaimsOK
  <1> QED  BY <1>1 DEF StaysBound

(* mergeClaimStatus spares bound claims, and its update is refused when    *)
(* the copy it judged by is out of date.                                   *)
LEMMA NoteStaysBound ==
    ASSUME TypeOK, Coherent, NEW c \in Claims, NEW phase, NEW why, Note(c, phase, why)
    PROVE  StaysBound
  <1>1. CASE MayNote(cache[c]) /\ fresh[c]
    <2>1. claim[c].phase # "Bound"  BY <1>1 DEF MayNote, Coherent
    <2> QED  BY <1>1, <2>1, WriteStaysBound DEF Note
  <1>2. CASE ~(MayNote(cache[c]) /\ fresh[c])  BY <1>2 DEF Note, StaysBound
  <1> QED  BY <1>1, <1>2

(* A claim once Bound stays Bound for as long as this incarnation lives.   *)
THEOREM BoundForLife == Spec => BoundIsStable
  <1>1. ASSUME IInv, Next PROVE StaysBound
    <2> USE DEF IInv
    <2>1. cur \in Claims  BY <1>1 DEF TypeOK, WorkerOK
    <2>2. CASE claim' = claim  BY <2>2 DEF StaysBound
    <2>3. CASE Noted  BY <1>1, <2>1, <2>3, NoteStaysBound DEF Noted
    <2>4. CASE UpdateStatus
      <3>1. CASE cache[cur] # None /\ WriteClaim(cur, BoundStatus(cache[cur], TheBucket))
        <4>1. cache[cur] \in ClaimObject  BY <1>1, <2>1, <3>1 DEF TypeOK, ClaimsOK
        <4>2. BoundStatus(cache[cur], TheBucket).phase = "Bound"
          BY <4>1 DEF BoundStatus, ClaimObject
        <4> QED  BY <1>1, <2>1, <3>1, <4>2, WriteStaysBound
      <3>2. CASE claim' = claim  BY <3>2 DEF StaysBound
      <3> QED  BY <2>4, <3>1, <3>2 DEF UpdateStatus
    <2>5. CASE RemoveFinalizer
      <3>1. CASE WriteClaim(cur, None)  BY <1>1, <2>1, <3>1, WriteStaysBound
      <3>2. CASE claim' = claim  BY <3>2 DEF StaysBound
      <3> QED  BY <2>5, <3>1, <3>2 DEF RemoveFinalizer
    <2>6. CASE \E c \in Claims : ReconcileProvision(c)
      <3>1. PICK c \in Claims : ReconcileProvision(c)  BY <2>6
      <3>2. CASE fresh[c] /\ WriteClaim(c, WithFinalizer(cache[c]))
        <4>1. cache[c] = claim[c] /\ cache[c] \in ClaimObject
          BY <1>1, <3>1, <3>2 DEF ReconcileProvision, Coherent, TypeOK, ClaimsOK
        <4> QED  BY <1>1, <3>2, <4>1, WithFinalizerType, WriteStaysBound
      <3>3. CASE claim' = claim  BY <3>3 DEF StaysBound
      <3> QED  BY <3>1, <3>2, <3>3 DEF ReconcileProvision
    <2>7. CASE \E c \in Claims, s \in Specs : CreateClaim(c, s)
      BY <1>1, <2>7, WriteStaysBound DEF CreateClaim
    <2>8. CASE \E c \in Claims, s \in Specs : EditClaim(c, s)
      <3>1. PICK c \in Claims, s \in Specs : EditClaim(c, s)  BY <2>8
      <3>2. claim[c] \in ClaimObject  BY <1>1, <3>1 DEF EditClaim, TypeOK, ClaimsOK
      <3> QED  BY <1>1, <3>1, <3>2, EditedType, WriteStaysBound DEF EditClaim
    <2>9. CASE \E c \in Claims : DeleteClaim(c)
      <3>1. PICK c \in Claims : DeleteClaim(c)  BY <2>9
      <3>2. claim[c] \in ClaimObject  BY <1>1, <3>1 DEF DeleteClaim, TypeOK, ClaimsOK
      <3> QED  BY <1>1, <3>1, <3>2, TerminatingType, WriteStaysBound DEF DeleteClaim
    <2> QED
      BY <1>1, <2>2, <2>3, <2>4, <2>5, <2>6, <2>7, <2>8, <2>9, ClaimWriters DEF Noted
  <1>2. IInv /\ [Next]_vars => [StaysBound]_vars  BY <1>1
  <1>3. [StaysBound]_vars =>
          [ \A c \in Claims :
              claim[c] # None /\ claim'[c] # None /\ claim[c].uid = claim'[c].uid
              /\ claim[c].phase = "Bound" => claim'[c].phase = "Bound" ]_vars
    BY DEF StaysBound
  <1> QED  BY <1>2, <1>3, Invariance, PTL DEF Spec, BoundIsStable
=============================================================================
