------------------------ MODULE BucketClaimController ------------------------
(***************************************************************************)
(* The BucketClaim controller of the operator with the MinIO backend.      *)
(*                                                                         *)
(* One worker (MaxConcurrentReconciles is 1) takes claims off a workqueue  *)
(* and reconciles each in a sequence of steps, one per call it makes to    *)
(* the API server or to MinIO.  It reads claims and Secrets from an        *)
(* informer cache that lags the API server, and every write carries the    *)
(* resource version it read, so a write based on a stale copy is refused.  *)
(* Around it, users create, edit and delete claims and Secrets,            *)
(* administrators edit classes, the garbage collector removes Secrets      *)
(* whose claim is gone, backend calls fail (with or without having taken   *)
(* effect) and the operator crashes and restarts.                          *)
(***************************************************************************)
EXTENDS ClaimTypes

CONSTANTS
    InitClass,        \* the BucketClass objects at the start
    ClassVersions,    \* what an administrator may replace a class by
    EnableCOSI,       \* the --cosi-enabled flag
    Disturbances,     \* which of the kinds below may happen
    MaxDisturbances,  \* bound: how many disturbances happen in a behaviour
    MaxGen,           \* bound: highest generation a spec edit may produce
    MaxUid            \* bound: how often a claim of one name is created

ASSUME ControllerAssumption ==
    /\ InitClass \in [Classes -> ClassObject \cup {None}]
    /\ ClassVersions \subseteq ClassObject \cup {None}
    /\ EnableCOSI \in BOOLEAN
    /\ Disturbances \subseteq {"fault", "revokeFault", "crash", "class", "secret"}
    /\ MaxDisturbances \in Nat /\ MaxGen \in Nat /\ MaxUid \in Nat
    /\ Claims # {}

VARIABLES
    claim,        \* [Claims -> ClaimObject or None]: the API server's copy
    cache,        \* the informer's copy of each claim
    fresh,        \* whether cache has the API server's resource version
    uids,         \* uid of the latest incarnation of each claim name
    secret,       \* the credentials Secret of each claim
    secretCache,  \* the informer's copy
    secretFresh,  \* whether secretCache has the current resource version
    class,        \* BucketClasses, with what their credentials resolve to
    cosi,         \* COSI Bucket objects: "absent", "created" or "ready"
    bucket,       \* MinIO: bucket and its configuration
    user,         \* MinIO: secret key and attached policy of each user
    policy,       \* MinIO: canned policies
    queue,        \* claims in the workqueue
    pc,           \* the worker's next step
    cur,          \* the claim it reconciles
    loc,          \* its in-memory copy of that claim
    cls,          \* its in-memory copy of the class
    cred,         \* the credentials of this pass
    disturbed     \* disturbances so far

claimVars  == <<claim, cache, fresh, uids>>
secretVars == <<secret, secretCache, secretFresh>>
minioVars  == <<bucket, user, policy>>
workerVars == <<pc, cur, loc, cls, cred>>
vars == <<claimVars, secretVars, class, cosi, minioVars, queue, workerVars, disturbed>>

ProvisionSteps == Calls \cup {"getClass", "setReplication", "writeSecret", "updateStatus",
                              "cosiBucket"}
FinalizeSteps  == {"finalize", "removeUser", "removePolicy", "deleteBucket", "removeFinalizer"}

Init ==
    /\ claim = [c \in Claims |-> None] /\ cache = claim
    /\ fresh = [c \in Claims |-> TRUE]
    /\ uids  = [c \in Claims |-> 0]
    /\ secret = [c \in Claims |-> None] /\ secretCache = secret
    /\ secretFresh = [c \in Claims |-> TRUE]
    /\ class = InitClass
    /\ cosi = [n \in Names |-> "absent"]
    /\ bucket = [n \in Names |-> NoBucket]
    /\ user   = [k \in Keys |-> NoUser]
    /\ policy = [p \in PolicyId |-> "absent"]
    /\ queue = {}
    /\ pc = "idle" /\ cur \in Claims /\ loc = None /\ cls = None /\ cred = None
    /\ disturbed = 0
-----------------------------------------------------------------------------
(* Helpers of the steps.                                                   *)

Disturb(kind) == /\ kind \in Disturbances
                 /\ disturbed < MaxDisturbances
                 /\ disturbed' = disturbed + 1

(* A write to the claim: the cache is out of date if it changed anything.  *)
WriteClaim(c, o) ==
    /\ claim' = [claim EXCEPT ![c] = o]
    /\ fresh' = [fresh EXCEPT ![c] = fresh[c] /\ o = claim[c]]

WriteSecret(c, s) ==
    /\ secret' = [secret EXCEPT ![c] = s]
    /\ secretFresh' = [secretFresh EXCEPT ![c] = secretFresh[c] /\ s = secret[c]]

Goto(step) == pc' = step /\ UNCHANGED <<cur, loc, cls, cred>>

(* Reconcile returns; the workqueue gets the claim back when it returns an *)
(* error or RequeueAfter.                                                  *)
Return == pc' = "idle" /\ loc' = None /\ cls' = None /\ cred' = None /\ UNCHANGED cur

(* A plausible slip: an error is logged and the claim forgotten.           *)
RequeueForgotten == UNCHANGED queue

Requeue == queue' = queue \cup {cur}

(* A plausible slip: only the deletion timestamp is looked at.             *)
MayNoteUnlessDeleting(o) == o # None /\ ~o.deleting

(* mergeClaimStatus leaves deleted and already bound claims alone.         *)
MayNote(o) == o # None /\ ~o.deleting /\ o.phase # "Bound"

NotReadyStatus(o, phase, why) ==
    [o EXCEPT !.phase = phase, !.why = why, !.observed = o.gen]

(* mergeClaimStatus: read the claim, change its status, update.  A refused *)
(* update is only logged.                                                  *)
Note(c, phase, why) ==
    IF MayNote(cache[c]) /\ fresh[c]
    THEN WriteClaim(c, NotReadyStatus(cache[c], phase, why))
    ELSE UNCHANGED <<claim, fresh>>

NoteProvisioning(c, why) == Note(c, "Pending", why)
NoteNotReady(c, why)     == Note(c, "Failed", why)

(* Plausible slips: any bound claim is taken for done; or any claim with a *)
(* condition for this generation.                                          *)
AlreadyProvisionedOnce(o) == o.phase = "Bound"
AlreadyObserved(o) == o.observed = o.gen

(* The Ready condition is True, for this generation.                       *)
AlreadyProvisioned(o) == o.phase = "Bound" /\ o.observed = o.gen

TheBucket   == BucketNameFor(cur, loc.spec, cls)
ThePolicy   == <<TheBucket, cur>>
DoomedName  == FinalizeName(cur, loc)
-----------------------------------------------------------------------------
(* Reconcile: the first steps, on the cached claim.                        *)

Take(c) == pc = "idle" /\ c \in queue

(* Nothing to do: the claim is gone, its finalizer is gone, or it has been *)
(* provisioned for this generation.                                        *)
ReconcileNothing(c) ==
    /\ Take(c)
    /\ \/ cache[c] = None
       \/ cache[c] # None /\ cache[c].deleting /\ ~cache[c].finalizer
       \/ /\ cache[c] # None /\ ~cache[c].deleting /\ cache[c].finalizer
          /\ AlreadyProvisioned(cache[c])
    /\ queue' = queue \ {c}
    /\ UNCHANGED <<claimVars, secretVars, class, cosi, minioVars, workerVars, disturbed>>

(* A claim marked for deletion that still has the finalizer.               *)
ReconcileDeletion(c) ==
    /\ Take(c)
    /\ cache[c] # None /\ cache[c].deleting /\ cache[c].finalizer
    /\ queue' = queue \ {c}
    /\ pc' = "finalize" /\ cur' = c /\ loc' = cache[c]
    /\ UNCHANGED <<claimVars, secretVars, class, cosi, minioVars, cls, cred, disturbed>>

(* A plausible slip: the finalizer is never added.                         *)
WithoutFinalizer(o) == o

WithFinalizer(o) == [o EXCEPT !.finalizer = TRUE]

(* A claim to provision: the finalizer is added first, unless it is there  *)
(* (a claim without it has never been bound).  If the cached copy is stale *)
(* the update is refused and the claim stays in the workqueue, which is no *)
(* step of this model.                                                     *)
ReconcileProvision(c) ==
    /\ Take(c)
    /\ cache[c] # None /\ ~cache[c].deleting
    /\ IF cache[c].finalizer
       THEN ~AlreadyProvisioned(cache[c]) /\ UNCHANGED <<claim, fresh>>
       ELSE fresh[c] /\ WriteClaim(c, WithFinalizer(cache[c]))
    /\ queue' = queue \ {c}
    /\ pc' = "getClass" /\ cur' = c /\ loc' = WithFinalizer(cache[c])
    /\ UNCHANGED <<cache, uids, secretVars, class, cosi, minioVars, cls, cred, disturbed>>

(* getClass: the BucketClass is missing or cannot be read, belongs to      *)
(* another driver, or its provider cannot be built.  Only some of these    *)
(* are retried.                                                            *)
TheClass == class[loc.spec.className]

GetClassFails ==
    /\ pc = "getClass"
    /\ \/ /\ TheClass = None
          /\ NoteProvisioning(cur, <<"BucketClassNotFound", "">>)
          /\ UNCHANGED disturbed
       \/ /\ Disturb("fault")
          /\ NoteNotReady(cur, <<"BucketClassLookupFailed", "">>)
    /\ Requeue /\ Return
    /\ UNCHANGED <<cache, uids, secretVars, class, cosi, minioVars>>

ForeignDriver ==
    /\ pc = "getClass" /\ TheClass # None
    /\ TheClass.driver # "k8s-s3-bucket-operator"
    /\ NoteNotReady(cur, <<"UnsupportedDriver", "">>)
    /\ Return
    /\ UNCHANGED <<cache, uids, secretVars, class, cosi, minioVars, queue, disturbed>>

ProviderFails ==
    /\ pc = "getClass" /\ TheClass # None
    /\ TheClass.driver = "k8s-s3-bucket-operator"
    /\ \/ /\ TheClass.provider = "secretNotFound"
          /\ NoteProvisioning(cur, <<"CredentialSecretNotFound", "">>)
          /\ Requeue
       \/ /\ TheClass.provider \in {"unsupported", "awsInvalid"}
          /\ NoteNotReady(cur, <<TheClass.provider, "">>)
          /\ UNCHANGED queue
       \/ /\ TheClass.provider = "invalid"
          /\ NoteNotReady(cur, <<"MinioCredentialSecretInvalid", "">>)
          /\ Requeue
    /\ Return
    /\ UNCHANGED <<cache, uids, secretVars, class, cosi, minioVars, disturbed>>

(* The provider is at hand: note Provisioning, take over the keys of an    *)
(* existing Secret, otherwise derive them from the account.                *)
BeginProvisioning ==
    /\ pc = "getClass" /\ TheClass # None
    /\ TheClass.driver = "k8s-s3-bucket-operator" /\ TheClass.provider = "ok"
    /\ IF loc.phase = "Bound" THEN UNCHANGED <<claim, fresh>>
       ELSE NoteProvisioning(cur, <<"Provisioning", "">>)
    /\ cls' = TheClass
    /\ cred' = IF secretCache[cur] = None THEN DerivedCred(cur) ELSE secretCache[cur].cred
    /\ pc' = "createBucket"
    /\ UNCHANGED <<cache, uids, secretVars, class, cosi, minioVars, queue, cur, loc, disturbed>>
-----------------------------------------------------------------------------
(* ProvisionBucketAndGrantAccess, one action per backend call.  A call may *)
(* fail after it took effect.  A transient failure is noted as Pending and *)
(* retried after 15 s, any other as Failed and retried with back-off.      *)

CallFails ==
    /\ Disturb("fault")
    /\ \/ NoteProvisioning(cur, <<"Provisioning", pc>>)
       \/ NoteNotReady(cur, <<"Failed", pc>>)
    /\ Requeue /\ Return

(* A plausible slip: the error is logged and the pass goes on.             *)
CallReturnsUnchecked(applied, next) ==
    /\ Goto(next) /\ UNCHANGED <<claim, fresh, queue>>
    /\ IF applied THEN UNCHANGED disturbed ELSE Disturb("fault")

CallReturns(applied, next) ==
    \/ applied /\ Goto(next) /\ UNCHANGED <<claim, fresh, queue, disturbed>>
    \/ CallFails

Skip(next) ==
    Goto(next) /\ UNCHANGED <<claim, fresh, queue, disturbed, minioVars>>

CreateBucket ==
    /\ pc = "createBucket"
    /\ \E applied \in BOOLEAN :
          /\ bucket' = IF applied THEN [bucket EXCEPT ![TheBucket].exists = TRUE] ELSE bucket
          /\ CallReturns(applied, "setQuota")
    /\ UNCHANGED <<cache, uids, secretVars, class, cosi, user, policy>>

SetBucketQuota ==
    /\ pc = "setQuota"
    /\ IF loc.spec.quota > 0
       THEN \E applied \in BOOLEAN :
              /\ bucket' = IF applied THEN [bucket EXCEPT ![TheBucket].quota = loc.spec.quota]
                           ELSE bucket
              /\ CallReturns(applied, "setLifecycle")
              /\ UNCHANGED <<user, policy>>
       ELSE Skip("setLifecycle")
    /\ UNCHANGED <<cache, uids, secretVars, class, cosi>>

SetBucketLifecycle ==
    /\ pc = "setLifecycle"
    /\ IF loc.spec.rules > 0
       THEN \E applied \in BOOLEAN :
              /\ bucket' = IF applied THEN [bucket EXCEPT ![TheBucket].rules = loc.spec.rules]
                           ELSE bucket
              /\ CallReturns(applied, "setReplication")
              /\ UNCHANGED <<user, policy>>
       ELSE Skip("setReplication")
    /\ UNCHANGED <<cache, uids, secretVars, class, cosi>>

(* A failure here is only logged.                                          *)
SetBucketReplication ==
    /\ pc = "setReplication"
    /\ Goto("addUser")
    /\ IF loc.spec.replicate
       THEN \/ /\ bucket' = [bucket EXCEPT ![TheBucket].replicate = TRUE]
               /\ UNCHANGED disturbed
            \/ Disturb("fault") /\ UNCHANGED bucket
       ELSE UNCHANGED <<bucket, disturbed>>
    /\ UNCHANGED <<claimVars, secretVars, class, cosi, user, policy, queue>>

AddUser ==
    /\ pc = "addUser"
    /\ \E applied \in BOOLEAN :
          /\ user' = IF applied THEN [user EXCEPT ![cred.id].secret = cred.secret] ELSE user
          /\ CallReturns(applied, "addPolicy")
    /\ UNCHANGED <<cache, uids, secretVars, class, cosi, bucket, policy>>

AddCannedPolicy ==
    /\ pc = "addPolicy"
    /\ \E applied \in BOOLEAN :
          /\ policy' = IF applied THEN [policy EXCEPT ![ThePolicy] = loc.spec.accessType]
                       ELSE policy
          /\ CallReturns(applied, "setPolicy")
    /\ UNCHANGED <<cache, uids, secretVars, class, cosi, bucket, user>>

SetPolicy ==
    /\ pc = "setPolicy"
    /\ \E applied \in BOOLEAN :
          /\ user' = IF applied THEN [user EXCEPT ![cred.id].policy = ThePolicy] ELSE user
          /\ CallReturns(applied, "writeSecret")
    /\ UNCHANGED <<cache, uids, secretVars, class, cosi, bucket, policy>>
-----------------------------------------------------------------------------
(* Reconcile: the last steps, back at the API server.                      *)

SecretFailed == NoteNotReady(cur, <<"ReconcileSecretFailed", "">>) /\ Requeue /\ Return

(* CreateOrUpdate of the Secret reads it from the cache as well: with a    *)
(* stale copy the create or the update is refused.                         *)
ReconcileSecret ==
    /\ pc = "writeSecret"
    /\ \/ /\ secretFresh[cur]
          /\ WriteSecret(cur, [cred |-> cred, bucket |-> TheBucket, owner |-> loc.uid])
          /\ \/ Goto("updateStatus") /\ UNCHANGED <<claim, fresh, queue, disturbed>>
             \/ Disturb("fault") /\ SecretFailed
       \/ /\ \/ ~secretFresh[cur] /\ UNCHANGED disturbed
             \/ Disturb("fault")
          /\ SecretFailed /\ UNCHANGED <<secret, secretFresh>>
    /\ UNCHANGED <<cache, uids, secretCache, class, cosi, minioVars>>

BoundStatus(o, b) ==
    [o EXCEPT !.phase = "Bound", !.why = <<"BucketProvisioned", "">>, !.observed = o.gen,
              !.bucketName = b, !.secretRef = TRUE]

(* The claim is read again, from the cache, and its status written; the    *)
(* observed generation is that of the copy just read.                      *)
UpdateStatus ==
    /\ pc = "updateStatus"
    /\ LET o == BoundStatus(cache[cur], TheBucket) IN
       \/ /\ cache[cur] # None /\ fresh[cur]
          /\ WriteClaim(cur, o)
          /\ \/ /\ IF EnableCOSI THEN pc' = "cosiBucket" /\ loc' = o /\ UNCHANGED <<cur, cls, cred>>
                   ELSE Return
                /\ UNCHANGED <<queue, disturbed>>
             \/ Disturb("fault") /\ Requeue /\ Return
       \/ /\ \/ ~(cache[cur] # None /\ fresh[cur]) /\ UNCHANGED disturbed
             \/ Disturb("fault")
          /\ Requeue /\ Return /\ UNCHANGED <<claim, fresh>>
    /\ UNCHANGED <<cache, uids, secretVars, class, cosi, minioVars>>

(* ensureCosiBucket.  The COSI Bucket CRD has a status subresource, so the *)
(* status given to Create is dropped by the API server.                    *)
EnsureCosiBucket ==
    /\ pc = "cosiBucket"
    /\ \/ /\ cosi' = [cosi EXCEPT ![loc.bucketName] = IF @ = "absent" THEN "created" ELSE "ready"]
          /\ UNCHANGED <<queue, disturbed>>
       \/ Disturb("fault") /\ Requeue /\ UNCHANGED cosi
    /\ Return
    /\ UNCHANGED <<claimVars, secretVars, class, minioVars>>
-----------------------------------------------------------------------------
(* finalizeBucketClaim, then the removal of the finalizer.                 *)

(* The class decides whether there is anything to undo.  It is not asked   *)
(* which driver it belongs to.                                             *)
FinalizeResolve ==
    /\ pc = "finalize"
    /\ \/ /\ \/ TheClass = None
             \/ TheClass # None /\ TheClass.provider \in {"unsupported", "awsInvalid"}
          /\ Goto("removeFinalizer") /\ UNCHANGED queue
       \/ /\ TheClass # None /\ TheClass.provider \in {"secretNotFound", "invalid"}
          /\ Requeue /\ Return
       \/ /\ TheClass # None /\ TheClass.provider = "ok"
          /\ pc' = "removeUser" /\ cls' = TheClass
          /\ cred' = IF loc.secretRef /\ secretCache[cur] # None
                     THEN secretCache[cur].cred ELSE DerivedCred(cur)
          /\ UNCHANGED <<cur, loc, queue>>
    /\ UNCHANGED <<claimVars, secretVars, class, cosi, minioVars, disturbed>>

(* RevokeAccess: failures of its two calls are only logged.                *)
RemoveUser ==
    /\ pc = "removeUser"
    /\ \/ user' = [user EXCEPT ![cred.id] = NoUser] /\ UNCHANGED disturbed
       \/ Disturb("revokeFault") /\ UNCHANGED user
    /\ Goto("removePolicy")
    /\ UNCHANGED <<claimVars, secretVars, class, cosi, bucket, policy, queue>>

(* A plausible slip: the policies are mixed up.                            *)
AfterRevokeSwapped(k) == IF k.deletionPolicy = "Retain" THEN "deleteBucket" ELSE "removeFinalizer"

AfterRevoke(k) == IF k.deletionPolicy = "Delete" THEN "deleteBucket" ELSE "removeFinalizer"

RemoveCannedPolicy ==
    /\ pc = "removePolicy"
    /\ \/ policy' = [policy EXCEPT ![<<DoomedName, cur>>] = "absent"] /\ UNCHANGED disturbed
       \/ Disturb("revokeFault") /\ UNCHANGED policy
    /\ Goto(AfterRevoke(cls))
    /\ UNCHANGED <<claimVars, secretVars, class, cosi, bucket, user, queue>>

DeleteBucket ==
    /\ pc = "deleteBucket"
    /\ \E applied \in BOOLEAN :
          /\ bucket' = IF applied THEN [bucket EXCEPT ![DoomedName] = NoBucket] ELSE bucket
          /\ \/ applied /\ Goto("removeFinalizer") /\ UNCHANGED <<queue, disturbed>>
             \/ Disturb("fault") /\ Requeue /\ Return
    /\ UNCHANGED <<claimVars, secretVars, class, cosi, user, policy>>

(* The update carries the version read at the start of the pass.  Without  *)
(* its last finalizer the API server removes the claim.                    *)
RemoveFinalizer ==
    /\ pc = "removeFinalizer"
    /\ \/ /\ claim[cur] = loc
          /\ WriteClaim(cur, None)
          /\ UNCHANGED <<queue, disturbed>>
       \/ /\ \/ claim[cur] # loc /\ UNCHANGED disturbed
             \/ Disturb("fault")
          /\ Requeue /\ UNCHANGED <<claim, fresh>>
    /\ Return
    /\ UNCHANGED <<cache, uids, secretVars, class, cosi, minioVars>>
-----------------------------------------------------------------------------
(* The surroundings of the worker.                                         *)

NewClaim(u, s) ==
    [uid |-> u, gen |-> 1, spec |-> s, deleting |-> FALSE, finalizer |-> FALSE, phase |-> "",
     why |-> <<"", "">>, observed |-> 0, bucketName |-> None, secretRef |-> FALSE]

CreateClaim(c, s) ==
    /\ claim[c] = None /\ uids[c] < MaxUid
    /\ uids' = [uids EXCEPT ![c] = @ + 1]
    /\ WriteClaim(c, NewClaim(uids[c] + 1, s))
    /\ UNCHANGED <<cache, secretVars, class, cosi, minioVars, queue, workerVars, disturbed>>

Edited(o, s)    == [o EXCEPT !.spec = s, !.gen = o.gen + 1]
Terminating(o)  == [o EXCEPT !.deleting = TRUE, !.gen = o.gen + 1]

EditClaim(c, s) ==
    /\ claim[c] # None /\ claim[c].spec # s /\ claim[c].gen < MaxGen
    /\ WriteClaim(c, Edited(claim[c], s))
    /\ UNCHANGED <<cache, uids, secretVars, class, cosi, minioVars, queue, workerVars, disturbed>>

DeleteClaim(c) ==
    /\ claim[c] # None /\ ~claim[c].deleting
    /\ WriteClaim(c, IF claim[c].finalizer THEN Terminating(claim[c]) ELSE None)
    /\ UNCHANGED <<cache, uids, secretVars, class, cosi, minioVars, queue, workerVars, disturbed>>

(* Informer events: the cache catches up and the claim is enqueued; for a  *)
(* Secret, the claim that is its controller.                               *)
SyncClaim(c) ==
    /\ ~fresh[c]
    /\ cache' = [cache EXCEPT ![c] = claim[c]]
    /\ fresh' = [fresh EXCEPT ![c] = TRUE]
    /\ queue' = queue \cup {c}
    /\ UNCHANGED <<claim, uids, secretVars, class, cosi, minioVars, workerVars, disturbed>>

Owned(s) == s # None /\ s.owner > 0

SyncSecret(c) ==
    /\ ~secretFresh[c]
    /\ secretCache' = [secretCache EXCEPT ![c] = secret[c]]
    /\ secretFresh' = [secretFresh EXCEPT ![c] = TRUE]
    /\ queue' = IF Owned(secret[c]) \/ Owned(secretCache[c]) THEN queue \cup {c} ELSE queue
    /\ UNCHANGED <<claimVars, secret, class, cosi, minioVars, workerVars, disturbed>>

(* The informer's periodic resync enqueues every claim it holds.           *)
Resync ==
    /\ queue' = queue \cup {c \in Claims : cache[c] # None}
    /\ UNCHANGED <<claimVars, secretVars, class, cosi, minioVars, workerVars, disturbed>>

(* Kubernetes' garbage collector: a Secret whose controller is gone.       *)
CollectSecret(c) ==
    /\ Owned(secret[c])
    /\ ~(claim[c] # None /\ claim[c].uid = secret[c].owner)
    /\ WriteSecret(c, None)
    /\ UNCHANGED <<claimVars, secretCache, class, cosi, minioVars, queue, workerVars, disturbed>>

(* A user deletes the Secret, or puts one with his own keys in its place.  *)
EditSecret(c) ==
    /\ Disturb("secret")
    /\ \/ secret[c] # None /\ WriteSecret(c, None)
       \/ \E k \in Keys :
             /\ secret[c] = None
             /\ WriteSecret(c, [cred |-> [id |-> k, secret |-> Custom], bucket |-> None,
                                owner |-> 0])
    /\ UNCHANGED <<claimVars, secretCache, class, cosi, minioVars, queue, workerVars>>

(* An administrator creates, edits or deletes a class or its credentials.  *)
EditClass(k, o) ==
    /\ Disturb("class")
    /\ class[k] # o
    /\ class' = [class EXCEPT ![k] = o]
    /\ UNCHANGED <<claimVars, secretVars, cosi, minioVars, queue, workerVars>>

(* The operator stops and starts again, or another replica becomes leader: *)
(* the worker's memory is lost and every cached claim is enqueued.         *)
Crash ==
    /\ Disturb("crash")
    /\ Return
    /\ queue' = {c \in Claims : cache[c] # None}
    /\ UNCHANGED <<claimVars, secretVars, class, cosi, minioVars>>
-----------------------------------------------------------------------------
Start(c) == ReconcileNothing(c) \/ ReconcileDeletion(c) \/ ReconcileProvision(c)

WorkerStep ==
    \/ GetClassFails \/ ForeignDriver \/ ProviderFails \/ BeginProvisioning
    \/ CreateBucket \/ SetBucketQuota \/ SetBucketLifecycle \/ SetBucketReplication
    \/ AddUser \/ AddCannedPolicy \/ SetPolicy
    \/ ReconcileSecret \/ UpdateStatus \/ EnsureCosiBucket
    \/ FinalizeResolve \/ RemoveUser \/ RemoveCannedPolicy \/ DeleteBucket \/ RemoveFinalizer

Environment ==
    \/ \E c \in Claims, s \in Specs : CreateClaim(c, s) \/ EditClaim(c, s)
    \/ \E c \in Claims : DeleteClaim(c) \/ EditSecret(c)
    \/ \E k \in Classes, o \in ClassVersions : EditClass(k, o)
    \/ Crash

Background ==
    \/ \E c \in Claims : SyncClaim(c) \/ SyncSecret(c) \/ CollectSecret(c)
    \/ Resync

Next == WorkerStep \/ (\E c \in Claims : Start(c)) \/ Environment \/ Background

Spec == Init /\ [][Next]_vars

(* The worker finishes what it began; the workqueue, first in first out,   *)
(* starves no claim; informer events arrive.  Resync is not relied on.     *)
Fairness ==
    /\ WF_vars(WorkerStep)
    /\ \A c \in Claims : /\ SF_vars(Start(c))
                         /\ WF_vars(SyncClaim(c)) /\ WF_vars(SyncSecret(c))

FairSpec == Spec /\ Fairness
-----------------------------------------------------------------------------
(* Correctness.                                                            *)

CanonNames == {Canon[n] : n \in Names}

Steps == ProvisionSteps \cup FinalizeSteps \cup {"idle"}

ClaimsOK ==
    /\ claim \in [Claims -> ClaimObject \cup {None}]
    /\ cache \in [Claims -> ClaimObject \cup {None}]
    /\ fresh \in [Claims -> BOOLEAN]
    /\ uids \in [Claims -> Nat]
    /\ \A c \in Claims : claim[c] # None => claim[c].bucketName \in CanonNames \cup {None}

SecretsOK ==
    /\ secret \in [Claims -> SecretObject \cup {None}]
    /\ secretCache \in [Claims -> SecretObject \cup {None}]
    /\ secretFresh \in [Claims -> BOOLEAN]
    /\ \A c \in Claims : secret[c] # None => secret[c].bucket \in CanonNames \cup {None}

MinioOK ==
    /\ bucket \in [Names -> BucketState]
    /\ user \in [Keys -> UserState]
    /\ policy \in [PolicyId -> PolicyState]
    /\ \A n \in Names : bucket[n].exists => n \in CanonNames

WorkerOK ==
    /\ pc \in Steps
    /\ cur \in Claims
    /\ loc \in ClaimObject \cup {None}
    /\ cls \in ClassObject \cup {None}
    /\ cred \in Credential \cup {None}

(* Types of the variables.  The part that is not mere typing: every bucket *)
(* the operator creates, and every name it records in a status or hands    *)
(* out in a Secret, is in the canonical lower-case form                    *)
(* createBucketAndConfigure computes.                                      *)
TypeOK ==
    /\ ClaimsOK /\ SecretsOK /\ MinioOK /\ WorkerOK
    /\ class \in [Classes -> ClassObject \cup {None}]
    /\ cosi \in [Names -> {"absent", "created", "ready"}]
    /\ queue \subseteq Claims
    /\ disturbed \in Nat

HasFinalizer(c) == claim[c] # None /\ claim[c].finalizer

(* Buckets, users and policies come into being only while the claim they   *)
(* are for exists, in the incarnation the worker read, with its finalizer: *)
(* whatever the worker's caches say and however users race it, a claim     *)
(* cannot vanish under a pass that creates things for it.                  *)
EffectsUnderFinalizer ==
    [][ (\/ \E n \in Names : ~bucket[n].exists /\ bucket'[n].exists
         \/ \E k \in Keys : user[k].secret = None /\ user'[k].secret # None
         \/ \E p \in PolicyId : policy[p] = "absent" /\ policy'[p] # "absent")
        => HasFinalizer(cur) /\ claim[cur].uid = loc.uid ]_vars

(* A bucket is removed only for a claim its user has deleted, in the       *)
(* incarnation that was deleted, and under the Delete policy: neither a    *)
(* stale cache nor a retry after a crash removes the bucket of a claim     *)
(* that is alive.                                                          *)
BucketRemovedOnRequest ==
    [][ (\E n \in Names : bucket[n].exists /\ ~bucket'[n].exists)
        => /\ HasFinalizer(cur) /\ claim[cur].deleting /\ claim[cur].uid = loc.uid
           /\ cls.deletionPolicy = "Delete" ]_vars

(* The status of one incarnation of a claim never goes back from Bound to  *)
(* Pending or Failed, although failed passes for a newer generation, or    *)
(* based on stale copies, try to write that.                               *)
BoundIsStable ==
    [][ \A c \in Claims :
          claim[c] # None /\ claim'[c] # None /\ claim[c].uid = claim'[c].uid
          /\ claim[c].phase = "Bound" => claim'[c].phase = "Bound" ]_vars

ClassOf(o) == class[o.spec.className]

DeletesBuckets(k) == k # None /\ k.provider = "ok" /\ k.deletionPolicy = "Delete"

(* When a claim of a class with deletionPolicy Delete is gone, so is the   *)
(* bucket made for it, also when it was deleted before it ever became      *)
(* Bound, or after a crash or a failed call.                               *)
NoOrphanBucket ==
    [][ \A c \in Claims :
          HasFinalizer(c) /\ claim'[c] = None /\ DeletesBuckets(ClassOf(claim[c]))
          => ~bucket'[BucketNameFor(c, claim[c].spec, ClassOf(claim[c]))].exists ]_vars

(* A MinIO user lives only as long as a claim that will remove it: its     *)
(* claim exists and has the finalizer.                                     *)
NoOrphanUser ==
    \A k \in Keys : user[k].secret \in Claims => HasFinalizer(user[k].secret)

SettledAndBound(c) ==
    /\ claim[c] # None /\ ~claim[c].deleting
    /\ claim[c].phase = "Bound" /\ claim[c].observed = claim[c].gen

(* What Bound promises to an application: the bucket in the status exists, *)
(* the Secret names it and belongs to this claim, and the user in the      *)
(* Secret has that secret key and a policy for that bucket.                *)
BoundIsUsable ==
    \A c \in Claims : SettledAndBound(c) =>
        LET b == claim[c].bucketName
            s == secret[c]
        IN  /\ bucket[b].exists
            /\ s # None /\ s.owner = claim[c].uid /\ s.bucket = b
            /\ user[s.cred.id] = [secret |-> s.cred.secret, policy |-> <<b, c>>]
            /\ policy[<<b, c>>] # "absent"

(* Bound with the current generation observed means the bucket is          *)
(* configured as that generation's spec asks.                              *)
ObservedMeansProvisioned ==
    \A c \in Claims : SettledAndBound(c) =>
        LET b == bucket[claim[c].bucketName]
            s == claim[c].spec
        IN  s.quota > 0 => b.quota = s.quota

Healthy(k) == k # None /\ k.driver = "k8s-s3-bucket-operator" /\ k.provider = "ok"

(* Troubles that end a pass with neither an error nor a requeue.           *)
Unretried(k) ==
    k # None /\ (k.driver # "k8s-s3-bucket-operator" \/ k.provider \in {"unsupported", "awsInvalid"})

LeftAlone(c) == claim[c] # None /\ ~claim[c].deleting /\ Healthy(ClassOf(claim[c]))

(* A claim that is left alone and whose class is, from some time on, in    *)
(* order ends up Bound for its last generation.  Requeues alone see to it, *)
(* if its class never had a trouble that is not retried.                   *)
EventuallyBound ==
    \A c \in Claims :
        <>[]LeftAlone(c) /\ [](\A k \in Classes : ~Unretried(class[k])) => <>[]SettledAndBound(c)

(* Also after a trouble that is not retried: classes are not watched, but  *)
(* the periodic resync, if it comes, makes the controller look again.      *)
EventuallyRepaired ==
    WF_vars(Resync) => \A c \in Claims : <>[]LeftAlone(c) => <>[]SettledAndBound(c)

(* A deleted claim goes away, if from some time on its class can be        *)
(* resolved or is gone.                                                    *)
EventuallyDeleted ==
    \A c \in Claims :
        <>[](\A k \in Classes : class[k] = None \/ class[k].provider = "ok")
        => ((claim[c] # None /\ claim[c].deleting) ~> (claim[c] = None))
=============================================================================
