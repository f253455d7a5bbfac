# TLA+ verification of k8s-s3-bucket-operator

This directory holds TLA+ models of the operator's components, the TLC
configurations that check them, and TLAPS proofs of the safety properties. Paths such
as `internal/controller/bucketclaim_controller.go` are relative to the
repository's root; definitions of the models are in `monospace`.

## 1. Inventory of the system

The operator is one Go process built on controller-runtime. Users write
`BucketClaim` objects that name a `BucketClass`; the operator makes a bucket, a
user with an access policy and a Secret with that user's keys, and reports in
the claim's status. Deleting the claim undoes this as far as the class's
`deletionPolicy` says.

| Component | State | Operations | Talks to |
|---|---|---|---|
| BucketClaim controller (`internal/controller/bucketclaim_controller.go`) | claims (spec, status, finalizer), credentials Secrets, COSI `Bucket` objects, all in the API server; its informer caches; the workqueue | `Reconcile`, `finalizeBucketClaim`, `ensureCosiBucket`, status notes | resolver, provisioning library, API server |
| Provisioning library (`internal/provisioning`) | none | create and configure a bucket, grant, revoke, delete; error classification | a backend provider |
| MinIO client (`internal/minio/client.go`) | MinIO's buckets, users, canned policies | create, quota, lifecycle and replication of a bucket; grant, revoke, delete | MinIO |
| AWS provider (`internal/backend/aws`) | S3 buckets, IAM users, inline policies, access keys | the same interface | AWS |
| Provider resolver (`internal/backend/resolve`) | clients cached by the resource version of their Secret | `ProviderForClass` | API server |
| BucketAccess controller (`internal/controller/bucketaccess_controller.go`) | `BucketAccess` objects, their Secrets and users | `Reconcile` | claims, resolver, provider |
| COSI gRPC driver (`internal/cosi`) | none of its own | create/delete bucket, grant/revoke access | provisioning library, API server |
| API types (`api/v1alpha1`) | | | |
| Metrics, `cmd/main.go`, generated deep copies, Helm chart, manifests, E2E scripts | counters, flags, files | | |

What is hard here:

* **Stale reads.** Reads go to an informer cache, writes to the API server.
  A pass may work from a copy of a claim that was edited, deleted or even
  created anew since. Optimistic concurrency refuses writes from such copies,
  but backend calls know no resource versions.
* **No transactions.** A pass makes up to seven backend calls and three API
  writes. Each may fail with or without having taken effect, and the process may
  stop between any two.
* **Retries by four different ways**: `RequeueAfter`, an error with back-off, a
  watch event, and the informer's periodic resync; some paths use none but the
  last.
* **Deletion before completion.** The finalizer may have to undo a provisioning
  that never reached the status.
* **Keys that cannot be derived again.** MinIO's access keys are computed from the
  claim's name; an AWS key exists only in the Secret it was written to, and a user
  has at most two.
* **Concurrent requests.** Each gRPC request of the COSI sidecar has a goroutine of
  its own, and one that was given up may still be running when it is repeated. Both
  controllers share the resolver's caches.
* **Shared names.** Buckets, users and policies live in flat name spaces, and
  names are lower-cased and truncated on the way.

What makes each component correct: nothing is created that nobody will remove,
and nothing removed that somebody still has (controller, providers); a claim
that says Bound can be used (controller); passes reach Bound or gone once the
trouble is over (controller); the same input names the same object everywhere
(provisioning, MinIO and AWS clients, COSI driver); an access outlives neither
its claim nor its request (BucketAccess controller, COSI driver); a resolved
client belongs to the Secret's current content (resolver). The hazards, each at
its line, are listed in `PROJECT.json` with the properties that watch over them.

## 2. Modules

| Module | Content |
|---|---|
| `ClaimTypes` | records for claims, classes, Secrets and backend objects; how names and keys are derived |
| `BucketClaimController` | the BucketClaim controller, the provisioning library and the MinIO client, with the API server, caches, workqueue, users, garbage collector, faults and crashes around them |
| `ClaimLifecycle` | abstract specification: what a claim promises, without the worker, caches, retries and generations |
| `ClaimRefinement` | the mapping under which `BucketClaimController` implements `ClaimLifecycle` |
| `BucketClaimProofs` | inductive invariant and theorems about `BucketClaimController` that need no condition |
| `RefinementProofs` | `BucketClaimController` implements `ClaimLifecycle` |
| `ClaimResourceProofs` | what the BucketClaim controller makes, hands out and takes away, under stated conditions |
| `AwsSecurity` | pure: how security parameters are read, and policy documents merged |
| `AwsProvider` | the AWS provider call by call, as claims drive it |
| `AwsProofs` | theorems about `AwsProvider` |
| `BucketAccessController` | the BucketAccess controller, composed with claims that behave as `ClaimLifecycle` allows |
| `AccessProofs` | theorems about `BucketAccessController` |
| `ProviderResolver` | `ProviderForClass` with its two caches, under concurrent workers |
| `ResolverProofs` | inductive invariant and theorems about `ProviderResolver` |
| `CosiDriver` | the four state-changing gRPC methods as concurrent requests of a sidecar |
| `CosiProofs` | theorems about `CosiDriver` |
| `ErrorClassification` | pure: `IsTransientMinioError` and `grpcErr` on chains of wrapped errors |
| `ErrorProofs` | theorems about `ErrorClassification` |
| `MCClaim`, `MCAws`, `MCAccess`, `MCResolver`, `MCCosi` | values of the constants for TLC |

Each module of a component has, beside a definition that a mutant replaces, the
mutated form, introduced as "a plausible slip". Nothing but the mutants uses it.

### BucketClaimController

| Variables | Stand for |
|---|---|
| `claim`, `uids` | BucketClaims in the API server and the incarnation counter that stands for their UIDs |
| `cache`, `fresh` | the informer's copy, and whether it has the current resource version |
| `secret`, `secretCache`, `secretFresh` | the same for the Secrets `<claim>-credentials` |
| `class` | BucketClasses together with what their credentials resolve to |
| `cosi` | COSI `Bucket` objects |
| `bucket`, `user`, `policy` | MinIO |
| `queue` | the workqueue |
| `pc`, `cur`, `loc`, `cls`, `cred` | the worker: next step, and the local variables `req`, `claim`, `class`, keys of `Reconcile` |
| `disturbed` | how many faults and foreign edits have happened |

A pass starts with one of `ReconcileNothing`, `ReconcileDeletion` and
`ReconcileProvision` and goes on with one action per call:

    getClass        GetClassFails, ForeignDriver, ProviderFails, BeginProvisioning
    createBucket -> setQuota -> setLifecycle -> setReplication   (createBucketAndConfigure)
    addUser -> addPolicy -> setPolicy                            (GrantAccess)
    writeSecret -> updateStatus -> cosiBucket                    (Reconcile, ensureCosiBucket)

    finalize        FinalizeResolve                              (finalizeBucketClaim)
    removeUser -> removePolicy -> deleteBucket                   (RevokeAccess, DeleteBucket)
    removeFinalizer RemoveFinalizer

`CallReturns` and `CallFails` are the error path of `Reconcile`: a failed call is
noted on the claim as Pending (transient) or Failed and the claim comes back to
the workqueue. `Note` is `mergeClaimStatus`, with the rule that deleting and
bound claims are left alone.

Abstractions:

* `phase` stands for phase, `bucketReady` and the Ready condition's status,
  which the code always writes together. Reasons and messages are kept as the
  step they are about (`why`), because a changed message is a new resource version.
* A quota is a number, 0 when absent or not positive; lifecycle rules are their
  number; replication a flag. Object locking and region do not influence control.
* The policy documents are "ReadWrite" or "ReadOnly". A derived secret key is
  represented by the claim it is derived from, `Custom` is a key chosen by a user.
* `KeyOf`, `Canon` and `DefaultName` are constants with the laws the code
  guarantees (`NamesAssumption`); the instances choose colliding keys and
  upper-case names. Names of blanks only are not considered.
* A read and the write based on it are one action where nothing is done in
  between: a write from a copy that is not `fresh` is refused. For the same
  reason a refused addition of the finalizer, which merely requeues, is no step.
* Watch events are coalesced: the cache jumps to the current object
  (`SyncClaim`, `SyncSecret`). Classes and their credentials are read without lag;
  their edits may fall between any two steps.
* Reads are from informer caches, which answer with the object or that there is none.
  Another failure of the read of the class notes Failed (`GetClassFails`). Of the claim,
  of the COSI `Bucket` and, in a finalization, of the class it changes nothing but the
  time of the retry, and neither does a failing note; these are left out. So is a failing
  read of the Secret, which the code takes for no Secret.
* One worker, as `MaxConcurrentReconciles` is left at 1. After `Crash` the queue
  holds every cached claim, as after an initial list. Two replicas that both
  believe to be leader, and a standby with an older cache, are not modelled.
* `IsTransientMinioError` is a free choice between its two outcomes, which both
  lead to a retry; `ErrorClassification` looks at the function itself.
* MinIO keeps no objects: the failure to delete a bucket that is not empty is one
  of the faults of `DeleteBucket`.
* The provider behind a class is MinIO. For AWS classes only the failures of the
  resolver are covered here; `AwsProvider` has the rest.

### ClaimLifecycle and ClaimRefinement

A claim is absent, new, held (it has the finalizer), bound or doomed (deleted, not
yet gone). `MakeBucket` and `MakeUser` need a claim that is held, bound or doomed;
`RemoveBucket` and `RemoveUser` one that is neither held nor bound; `Bind` needs a
bucket and a user that exist; from bound a claim only goes to its doom. A claim
that is gone may be finalized once more, from a stale copy. `StageOf` reads the
stage off the claim object in the API server, `given` is the bucket name of its
status, `made` and `users` are the buckets and users of MinIO; all other
variables of `BucketClaimController` are hidden. `ClaimLifecycle` says nothing of
when a claim is left behind by its bucket or user, which is what `NoOrphanBucket`
and `NoOrphanUser` are about.

### AwsProvider and AwsSecurity

`bucket` (owner, public access block, ownership controls, encryption, policy,
rules), `user`, `grants` (inline policies) and `keys` are S3 and IAM; `claim`,
`secret`, `secretCache` and `params` (of the class) the API server. A pass:

    createBucket -> flags -> block -> acls -> encrypt -> bucketPolicy   (CreateBucket, ConfigureBucketSecurity)
    lifecycle -> createUser -> putUserPolicy -> createKey [-> makeRoom -> retryKey]
    writeSecret -> updateStatus

    dropPolicy -> dropKeys -> dropUser -> deleteBucket -> removeFinalizer

* The API server's side of a pass is reduced to what decides which AWS calls are
  made: whether the claim is provisioned for its generation, and which key its
  Secret holds. The claim is read without lag, since `BucketClaimController` has
  that; the Secret from a cache that lags, since on AWS the key in it decides
  whether another is created.
* A failed call did or did not take effect (`Fail` in both branches). As a pass
  keeps nothing in memory that another would not read again, a crash before a call
  is a failure of that call without effect. The failed attempt's note and its
  requeue are the retry.
* A parameter's text is one of a few representatives; a policy document is its
  kind and the sequence of its statements, which are from `Statements`; only a
  document that is an array has any (`StatementsInArray`). `SetBucketQuota` and
  `SetBucketReplication` do nothing on AWS.
* `KeyIds` is small, so `Unused` lets an ID that nothing refers to stand for a new
  one.
* `failures.leak` notes that one of the failures after which the code does leave an
  IAM user behind has happened (`Leaks`): a key is created and lost, a pass that had
  written its Secret is repeated while the cache does not show it, a revocation fails.

### BucketAccessController

`EXTENDS ClaimLifecycle`: `life`, `given`, `made` and `users` are shared with the
claims, which the other controller's worker moves (`ClaimMoves`, `DeleteClaim`) in
the order it works in. `access` is read from the API server, as unstructured
objects are not cached; `seen` and `seenSecret` are the cached claims and Secrets.

    readClaim -> provider -> addUser -> addPolicy -> writeSecret -> updateStatus
    findClaim -> findKey -> revokeProvider -> removeUser -> removePolicy
              -> deleteSecret -> removeFinalizer

* `classUp` says whether `providerForClaim` finds a provider; every error of it is
  retried alike. `addPolicy` stands for `AddCannedPolicy` and `SetPolicy`, which
  name the same policy and are repeated together.
* `KeyOf` and `SecretOf` are free: claims and BucketAccesses may share keys, and
  BucketAccesses a Secret, which only this controller fills. `access` gives each its own;
  the theorem about `UserGoesWithAnOwner` does not.
* A claim of the real controller may be finalized twice from a stale copy; the
  claims of this module are finalized once, and vanish when their own user and
  bucket are gone.
* `disturbed` is the sequence of the kinds of disturbance so far, so that a property
  may except one by name.

### ProviderResolver

Workers call at any time, with any class. `Call` covers the answers that need no
Secret; `ReadSecret` and `ReadPolicy` read the informer caches (`seen`) without a
lock; `Lookup` is the part under the mutex. `cache` is both maps, their keys told
apart by the kind. A client is represented by what it was made from: the Secret,
the document, and the version of each. `floor` is a history variable: the versions
the informers held when the call began. Objects that do not parse are `ok` = FALSE.
`CapabilitiesForKind` is not called by the operator.

### CosiDriver

`rpc` has one request per goroutine (`Slots`), `made` to `attached` are MinIO. The
sidecar and the users of the API are external: they ask (`AskCreate`, `AskDelete`,
`AskGrant`, `AskRevoke`), ask again when answered with an error, record an answer OK
in the object, and may give up (`GiveUp`), after which the context is cancelled: the
call under way may yet take effect and no other is made. Requests that do not
validate change nothing and are guards of the `Ask` actions. A deletion reads the
Bucket object, or fails to (`ReadBucket`).

A Bucket or BucketAccess that is gone is not created again under its name (`Want`). The
driver allows for names that come again (`internal/cosi/mapper.go:58`); what a late
request of the former object then does to the later one is not covered.

### ErrorClassification

An error is the sequence of its layers, the outermost first: transport, the
client's `fmt.Errorf`, `ProvisioningError`. The eight transient phrases are one
flag of a layer. It is a free choice for the wrappers too, as their texts quote the
names of buckets, users and policies. An error that already is a gRPC status does not come from the
backends and is left out.

## 3. Properties

BucketClaimController:

* `TypeOK`: types, and that only canonical bucket names are created, recorded or
  handed out.
* `EffectsUnderFinalizer`: buckets, users and policies come into being only while
  the live claim, in the incarnation the worker read, has the finalizer.
* `BucketRemovedOnRequest`: a bucket goes only for a claim that is marked for
  deletion, in the incarnation that was deleted, under the Delete policy.
* `BoundIsStable`: an incarnation never goes back from Bound.
* `NoOrphanUser`, `NoOrphanBucket`: what was made for a claim is gone when the
  claim is gone.
* `BoundIsUsable`: Bound for the current generation means the bucket exists, the
  Secret is this claim's and names it, and the user in it has that key and a
  policy for that bucket.
* `ObservedMeansProvisioned`: Bound for the current generation means the bucket
  has that generation's quota.
* `EventuallyBound`: a claim left alone with its class in order is Bound, by
  requeues alone, if its class never had a trouble that is not retried;
  `EventuallyRepaired`: also after such a trouble, if the resync comes.
* `EventuallyDeleted`: a deleted claim goes away, if its class can be resolved or is
  gone from some time on.
* `ImplementsLifecycle`: every step is a step of `ClaimLifecycle` or changes nothing
  of it.

AwsProvider:

* `SettledKeyWorks`: the key in the Secret of a Bound claim is a live key of its
  user, who has a policy for the bucket in the status.
* `BoundToOwnBucket`: no claim is Bound to another account's bucket, although
  `CreateBucket` takes BucketAlreadyExists for success, if its class asks for at least
  one security setting.
* `KeysOnlyWhenProtected`: no key is handed out before the bucket has every
  protection the class asks for. `Protected` states this on the parameters' text,
  independently of how the code reads it.
* `GuardrailStays`: the TLS guardrail leaves a policy only with the bucket, or when
  the class turns it off.
* `NoOrphanIamUser`: the user is gone with its claim, the first of its name and never
  edited, unless one of `Leaks` failed.
* `EventuallyBound`, `EventuallyDeleted`, also past the quota of two keys.

BucketAccessController:

* `GrantedIsUsable`: user, policy and Secret are there while accessGranted is said.
* `NoOrphanAccess`: user, policy and Secret exist only while the BucketAccess does,
  with its finalizer.
* `UserGoesWithAnOwner`: a user goes only while one that has it, a claim or a
  BucketAccess, is being deleted, or a BucketAccess that names the Secret of one that has
  it. This is what is left for claims and BucketAccesses that share a user.
* `EventuallyGranted`, `EventuallyGone`.

ProviderResolver:

* `ClientOfItsClass`: a client is made from what the caller's own class names.
* `NeverStale`: it is not older than what the caller could read when it called.
* `NoStandIn`: the default MinIO answers only classes that leave it the choice.

CosiDriver:

* `ReadyIsConfigured`, `GrantedWorks`: what was answered OK is there and works.
* `NoOrphanGrant`, `NoOrphanBucket`: nothing survives its object.
* `RemovedOnRequest`: a backend bucket goes only for a deleted Bucket with the policy
  Delete.

ErrorClassification:

* `WrappingOnlySoftens`: the operator's wrapping makes no transient error permanent, and
  leaves the verdict on a `net.Error` alone; a name in the text can make a permanent
  error of another kind look transient, nothing else.
* `DriverAgreesWithController`: the driver answers Unavailable for what the controller
  calls transient, and for nothing else.

## 4. Runs

Passing:

| Run | Instance | Shows |
|---|---|---|
| `claim_safety` | one claim name, created twice and edited, its bucket name in upper and lower case; one disturbance of any kind, class edits of every sort included | `TypeOK`, `EffectsUnderFinalizer`, `BucketRemovedOnRequest`, `BoundIsStable`, `ImplementsLifecycle` |
| `claim_recovery` | one claim, two generations that differ in class (Delete and Retain), quota, rules, replication and access; COSI mode; any two faults or crashes | `NoOrphanUser`, `NoOrphanBucket`, `BoundIsUsable` |
| `claim_liveness` | class missing at first; up to two class edits, faults or crashes | `EventuallyBound`, `EventuallyRepaired`, `EventuallyDeleted` |
| `aws_safety` | one claim edited between two buckets and one of another account; seven parameter settings; two failures, class edits or deleted Secrets at any step | `TypeOK`, `SettledKeyWorks`, `BoundToOwnBucket`, `KeysOnlyWhenProtected`, `GuardrailStays` |
| `aws_liveness` | one claim created twice, a policy document broken and repaired; three failures up to the Secret or after the revocation | `NoOrphanIamUser`, `EventuallyBound`, `EventuallyDeleted` |
| `access` | one claim that comes, goes and comes back, one BucketAccess created twice; two disturbances of any kind | `TypeOK`, `GrantedIsUsable`, `NoOrphanAccess`, `UserGoesWithAnOwner`, `EventuallyGranted`, `EventuallyGone` |
| `resolver` | two workers, nine classes, a Secret and a policy object with two fields, two versions | `TypeOK`, `ClientOfItsClass`, `NeverStale`, `NoStandIn` |
| `cosi` | two Buckets, two BucketAccesses of one of them, two requests at a time; two disturbances of any kind | `TypeOK`, `ReadyIsConfigured`, `GrantedWorks`, `NoOrphanGrant`, `NoOrphanBucket`, `RemovedOnRequest` |
| `errors` | chains of up to three transport layers and every wrapping of them, with a phrase in its text or without | `DriverAgreesWithController`, `WrappingOnlySoftens` |

Violated, each a place where the code does other than a comment or document says
(quoted in `PROJECT.json`):

| Run | What happens |
|---|---|
| `lost_edit` | The claim is edited while a pass provisions the earlier spec. The final status update re-reads the claim and records the new generation as observed; the edit is never applied. |
| `shared_key` | Two claims whose accounts agree in the first twelve letters and digits share a user; the second `AddUser` replaces the first one's key. |
| `aws_reprovision` | The status update fails once after the Secret was written. From then on `GrantAccess` reuses the key and answers without an endpoint, which `grantAccess` refuses as incomplete, in every pass. |

### What the instances and properties leave out

The passing runs stay clear of the following, which the code does not make good.
Where a property excepts it, it does so by the kind of disturbance; otherwise the
constants of the run do. One of these plainly contradicts what the repository says, the
parameter `bucketName` of COSI classes (below); no run shows it, as the model of the driver
has no such parameter to ignore.

* A class deleted before its claims: finalization is skipped and the user and bucket
  stay (`claim_recovery` has no class edits; `claim_safety` has).
* A class turned from Retain to Delete after its claim was finalized: a stale cached
  copy finalizes once more and deletes the retained bucket (the class edits of
  `claim_safety` start from Delete and are one at most).
* Two claims that name one bucket: the deletion of one takes it from the other, and a
  stale copy of a claim that is gone takes it from one that has come since
  (`claim_safety` has one claim).
* A failed revocation is logged, the finalizer removed, and the user stays
  (`claim_recovery` does not have it; `NoOrphanAccess` and `NoOrphanGrant` except it).
* Keys put into the Secret by a user are taken over and revoked in place of the
  derived ones; the Secret's replacement is not noticed by a Bound claim.
  `EventuallyBound` with such edits is not claimed: each pass takes over the keys in
  the cached Secret, and with a cache that always lags they can alternate.
* A bucket name with upper-case letters, deleted before Bound: the finalizer looks
  for the name as written (`claim_recovery` uses default names).
* A claim of another driver's class gets the finalizer and is finalized here.
* The status given to `Create` of a COSI `Bucket` is dropped by the API server, as the
  CRD has a status subresource, and a Bound claim is not looked at again.
* An edited bucket name leaves the first bucket and policy; on AWS the policy keeps
  the IAM user from being deleted (`aws_liveness` has one name). If the edit is
  lost, as in `lost_edit`, the claim is Bound to the first bucket, and the next pass, from
  the copy it has, attaches the user's policy for the second.
* AWS: a disabled lifecycle rule is sent as Enabled; with every security setting off a
  claim can be Bound to another account's bucket; two claims whose IAM user names
  coincide share the quota of two keys; a key that was lost, or a second one made
  by a pass after an edit or a refused status update that did not see the Secret yet,
  keeps the user from being deleted when the Secret names another (`Leaks`); a second
  claim of the same name may find its predecessor's Secret in the cache.
* A claim deleted before its BucketAccess: the user is not revoked (`NoOrphanAccess`
  excepts it). Two BucketAccesses that name one Secret revoke each other's user.
* A claim and a BucketAccess whose accounts agree in the first twelve letters and digits
  share a user, as two claims do in `shared_key`. Those of the repository's own end-to-end
  test are such: `my-app/cosi-app-bucket-…` and `my-app/cosi-app-access-…`
  (`test/e2e/run-e2e.sh:407-408`) both have the user `cosimyappcosiapp`. The grant replaces
  the claim's key, and the deletion of the BucketAccess takes the user of a claim that is
  still Bound, which line 484 of the script asserts. The deletion of the claim, in turn,
  takes the user of a BucketAccess that says accessGranted. `GrantedIsUsable` and
  `NoOrphanAccess` are therefore claimed for distinct keys only; `UserGoesWithAnOwner`
  holds for all.
* COSI: a Bucket that cannot be read is taken for one to retain and answered OK; a
  user made with `existingAccessKey` is not revoked; the parameter `bucketName` never
  takes effect, as the synthetic claim always has a name, although `docs/COSI.md:68` says
  "force the backend bucket name" and the comment at `provisioning.go:73` that it takes
  precedence; a request given up may still
  create what was just removed (`NoOrphanGrant` and `NoOrphanBucket` except it).
* A refused connection is a `net.Error` that is neither timeout nor temporary, so
  `IsTransientMinioError` calls it permanent without looking at its text.
* The text of any other error is searched for phrases such as "timeout" and "temporar",
  names included: a permanent failure on a bucket called `temporary-uploads` is called
  transient. Both verdicts are retried.

**Bounds.** `MaxUid` 2 lets an object be recreated while a pass for its predecessor is
under way; `MaxGen` 2 lets an edit fall into a pass and be followed by a pass of its
own. A deletion may come after either. `MaxDisturbances` counts faults, crashes and
foreign edits together: two allow a failure in a pass and another in the one that
retries it, or in the finalization. In `claim_safety` one is enough for each of its
properties to meet every kind, and its two incarnations supply the retries. Three
failures in `aws_liveness` lose two keys and fail once more. One BucketAccess suffices
in `access`: one worker serves them in turn, and with keys and Secrets of their own
they share nothing but the claim and the queue (what they do to each other's users with
shared keys and Secrets is the matter of a theorem, `UsersGoWithOwners`). `MaxVersion` 2 gives the resolver an
old and a new version of an object, which is what an overtaking call needs; the proofs
cover the rest. Two requests at a time let one be given up and repeated, or a
revocation meet a grant. A shared name or key is shared by two (`shared_key`).

**Symmetry.** Key IDs (`aws_safety`), workers (`resolver`) and slots (`cosi`) are
interchangeable; none of these runs checks liveness.

**Deadlock.** The claim runs, `resolver` and `errors` check for it. In the AWS, access
and COSI models everything may be done: every object settled or gone for good, as
`MaxUid` allows no further one, and nothing for the worker or sidecar to do. That they
do not stop earlier is what their liveness properties say (for the driver, which keeps
no state, repeating a request is the sidecar's part and no liveness is claimed).

**Fairness.** The worker goes on with a pass it has begun (weak fairness of
`WorkerStep`). The workqueue is first in, first out, and an object whose turn comes is
reconciled each time the worker is idle again (strong fairness of `Start`, as the
worker is busy in between). Watch events arrive (weak fairness of the `Sync`
actions). In `AwsProvider` the garbage collector collects at last (weak fairness of
`CollectSecret`), which Kubernetes promises; `BucketClaimController` does without it.
Users, administrators, faults, crashes and the other controller's claims are under no
obligation. The resync, every ten hours by default, is assumed only in the antecedent
of `EventuallyRepaired`. Faults are finite in number because of the bounds: a backend
that fails for ever binds no claim.

## 5. Proofs

Every invariant, action property and refinement that a passing run checks is also
proved, for every value of the constants that satisfies the assumptions of the modules
(which TLC evaluates in every run). Some hold only under further conditions. These are
no assumptions of a module but hypotheses of the theorems concerned, defined and
explained where they are used. The instances of the passing runs satisfy them, but for
`claim_safety`, whose one class edit may break `PolicyKept`: `BucketRemovedOnRequest`
takes two to violate. Where a condition does not hold the code need not keep the
property (section 4, "What the instances and properties leave out").

All proofs follow one pattern. For each module a few lemmas say what a step can do, per
variable or per step of a pass, whatever else it does ("writers", `PassMoves`,
`ClaimFates`, `HandleShape`, `NextIs`); each conjunct of an invariant has a lemma that
goes through these cases instead of through the actions; and a frame lemma covers the
steps that leave alone what the conjunct is about.

### BucketClaimProofs

`BucketClaimProofs` proves, for every set of claims, classes, names, keys and
specs and all bounds:

* `Invariance`: `Spec => []IInv`
* `TypeCorrect`: `Spec => []TypeOK`
* `FinalizerFirst`: `Spec => EffectsUnderFinalizer`
* `BoundForLife`: `Spec => BoundIsStable`

from the assumptions `SpecsAssumption`, `NamesAssumption` (the name functions are
total, canonicalisation is idempotent), `NoneAssumption` (None is no object) and
`ControllerAssumption`, all evaluated by TLC in every run.

`EffectsUnderFinalizer` is not inductive. That the claim has its finalizer when
the worker makes its calls depends on the copy the pass started from, which came
from the cache. `IInv` therefore adds:

* `Coherent`: a fresh cache entry equals the claim;
* `InHand`: what the worker holds at each step;
* `UidsGrow`: no copy is of a later incarnation than the claim;
* `DeletionKnown`: a copy marked for deletion tells the truth about its incarnation;
* `CachedAlive`: a cached copy that has the finalizer and is not marked for deletion
  is of a claim that still exists with its finalizer. This is the heart of the
  argument: only the worker removes the finalizer, and only from a copy marked for
  deletion, which the cache has then seen too;
* `PassHoldsFinalizer`: the live claim keeps the finalizer throughout a
  provisioning pass;
* `PassFinalizes`: a finalizing pass works for an incarnation marked for deletion,
  and the cache does not go back to a time before that.

Most steps of the worker neither change a claim's incarnation, deletion mark or
finalizer (`KeepsLives`) nor start another pass (`KeepsPass`); `KeepingIsSafe`
shows once that such steps preserve the invariant, and one lemma per group of
actions shows that they are such steps. `RemoveFinalizer`, the start of a pass,
creation, deletion and the informer's events are treated on their own.
`BoundForLife` needs of the invariant only `Coherent` and the types: a note from a
stale copy is refused, a note from a fresh one sees that the claim is Bound.

### RefinementProofs

* `TrackingHolds`: `Spec => []LInv`
* `Refinement`: `Spec => ImplementsLifecycle`

`IInv` does not say enough for the mapping; `LInv` adds `Tracking`:

* `SeenWhenHeld`: the informer has seen every claim that has the finalizer, as the
  worker added it to a copy it had read;
* `NewIsBlank`: a claim without the finalizer has neither bucket name nor deletion mark,
  and is not Bound;
* `MeetsItsOwn`: a finalizing pass meets the incarnation it read, or one without
  finalizer. So it removes nothing that a held or bound claim has, which is the guard of
  `RemoveBucket` and `RemoveUser`;
* `MadeSoFar`: the bucket and the user of a pass exist once it has made them, which is
  the guard of `Bind`.

`InitMaps` and `StepMaps` are the two halves of the refinement. Most steps of the worker
leave the life of every claim alone (`Still`); the rest map one by one.

### ClaimResourceProofs

| Theorem | Property | Conditions |
|---|---|---|
| `UsersGoWithClaims` | `NoOrphanUser` | `SecretsLeftAlone`, `RevocationsWork`, always `ClassesUp` |
| `BoundClaimsWork` | `BoundIsUsable` | `OwnKeys`, `SecretsLeftAlone`, always `OwnBuckets(B)` for some `B` |
| `BucketsGoWithClaims` | `NoOrphanBucket` | always `PolicyKept(D)` for some `D`, always `NamesMeet` |
| `BucketsGoOnRequest` | `BucketRemovedOnRequest` | always `PolicyKept(D)` for some `D`, always `Apart` |
| `PlainClaimsWork` | `BoundIsUsable` | `PlainNames`, `SteadyClasses`, `OwnKeys`, `SecretsLeftAlone` |
| `PlainBucketsGo` | `NoOrphanBucket`, `BucketRemovedOnRequest` | `PlainNames`, `SteadyClasses` |
| `PlainUsersGo` | `NoOrphanUser` | `PlainNames`, `SteadyClasses`, `SecretsLeftAlone`, `RevocationsWork` |

The first four state as little as the argument needs, as conditions on what passes
meet. The last three have conditions on the constants only, from which
`PlainConditions` derives the others; the instance of `claim_recovery` satisfies all of
them.

* `SecretsLeftAlone`, `RevocationsWork`: no disturbance of the kind "secret" or
  "revokeFault". A user's own keys are taken over and revoked in place of the derived
  ones; a failed revocation is only logged.
* `ClassesUp`: no class is missing or unsupported, which would have its claims lose
  their finalizer at once. Credentials may be missing or invalid for a while.
* `OwnKeys`: no two claims have the same access key; `shared_key` shows what happens
  otherwise. `UsersGoWithClaims` does without it.
* `OwnBuckets(B)`: every pass for claim `c` provides `B[c]`, and none deletes another
  claim's bucket. When the name is edited during a pass, that pass has the claim Bound
  to the earlier bucket, for the new generation; another, from the copy before that
  status, then attaches the user's policy for the later bucket, and the claim is Bound
  without access.
* `PolicyKept(D)`: the classes of `D` delete buckets, exist and are supported, the others
  never delete. With a class turned to Retain while a claim is finalized and back to
  Delete when it is gone, the copy left in the cache deletes the bucket that was kept.
* `NamesMeet`: the finalizer looks for the bucket by the name it was created by, which a
  name in upper case or from the class is not if the claim was never Bound.
* `Apart`: no pass makes the bucket that the deletion of another claim removes.
* `PlainNames`: nobody asks for bucket names, and the default names are canonical and
  differ. `SteadyClasses`: an edit of a class may change its driver and its
  credentials' state, not its policy, and does not make it unsupported or remove it.

The invariants, all on top of `LInv`:

* `UsersInv`: all keys are the derived ones (`Derived`), a user is that of a claim with
  the finalizer (`UsersHeld`), and gone once a finalizing pass is past the call that
  removes it (`UserGone`).
* `BoundInv(B)`: `Derived`; the observed generation is not ahead (`ObservedLags`); what a
  pass has granted is still there when it writes the status (`Granting`); what a settled
  claim needs is there (`BoundUsable`). `UsableStays` is the core: no step but one of a
  pass that finalizes the claim takes anything of this away.
* `UndoesInv(D)`: a finalizing pass has done what the class says before it removes the
  finalizer (`PassUndoes`).
* `RemovalInv(D)` has to rule out that a pass from a stale copy removes the bucket of a
  claim that is gone, which the code does not prevent: such passes do get to
  `DeleteBucket`. They find no bucket there. `CopiesCleaned` and `GoneCleaned` say so:
  once an incarnation is gone, the bucket that a copy of it names is gone. It was removed
  by the pass that removed the finalizer, and that pass worked from the very copy that is
  left in the cache: `SawLast`, which needs that generations only grow (`GensGrow`).

### AwsProofs

| Theorem | Property | Conditions |
|---|---|---|
| `AwsTypeCorrect` | `TypeOK`, with at most two keys per user and no key of two users | |
| `KeysNeedProtection` | `KeysOnlyWhenProtected` | |
| `GuardrailKept` | `GuardrailStays` | |
| `BoundToOwn` | `BoundToOwnBucket` | `Checked`, always `Unshared` |
| `SettledKeysWork` | `SettledKeyWorks` | `OwnUser` |
| `NoOrphanUsers` | `NoOrphanIamUser` | `OwnUser`, `NeverEdited` |

* `Checked`: every class asks for at least one setting of the bucket. With all turned off
  nothing is asked of S3 that it refuses to others than the owner. `Unshared`: under the
  policy Delete no two claims have to do with the same bucket.
* `OwnUser`: no two claims have the same IAM user name after normalization.
* `NeverEdited`: `MaxGen` is 1. After an edit a pass may read a cache that does not show
  the Secret yet, make a second key and find the Secret taken.

`AwsInv` (`AwsPassesFit`) says that a pass works on a claim that holds its finalizer and
is not settled before its last step. On top of it, `Secured` follows the bucket's
settings through the steps of a pass; it is about the parameters the pass began with,
whatever happens to the class meanwhile. `Unowned` (only our buckets have policies)
completes it for the guardrail. `Granting` follows user, grant and key. `Tidy` is the
account of every key: in the first life of a claim, while nothing has leaked, its user
has no key but the one in the Secret or on its way there, and a pass that has written
the Secret is the last that provisions, so that the revocation finds all there is.

### AccessProofs

`AccessTypeCorrect` (`TypeOK`) and `UsersGoWithOwners` (`UserGoesWithAnOwner`) without
condition; with distinct access keys, of claims and BucketAccesses alike (`SeparateKeys`),
and a Secret for each BucketAccess (`SeparateSecrets`):

* `GrantedUsable`: `GrantedIsUsable`
* `NoOrphans`: `NoOrphanAccess`

The invariant comes in layers. `AInv`: a pass keeps its object, since one that
grants has it under the finalizer and one that revokes has the object it read. `NInv`, for
keys and Secrets shared at will: a Secret, its cached copy and a revoking pass hold the key
of a BucketAccess that names that Secret (`Named`). `UInv`, under the two conditions:
the key in a Secret is that of the BucketAccess that names it, hence the key that is
revoked is the pass's own, and what a granting pass has done stays (`GrantedSoFar`).
`CInv`, as long as no revocation has failed and no claim was deleted: a claim has one
bucket all its life (`OneBucketEach`), so a revocation names the policy that was made;
users, policies and Secrets are of objects with the finalizer (`TracesAreHeld`); what a
revoking pass has removed stays away (`RevokedSoFar`).

### CosiProofs

For any number of concurrent requests: `CosiTypeCorrect` (`TypeOK`) and
`RemovedOnlyOnRequest` (`RemovedOnRequest`) without condition;

* `ReadyConfigured` (`ReadyIsConfigured`) and `NoOrphanBuckets` (`NoOrphanBucket`) if no two
  Buckets have names that differ only in case (`DistinctIds`);
* `GrantsWork` (`GrantedWorks`) if no two BucketAccesses share a user (`DistinctGrants`),
  `NoOrphanGrants` (`NoOrphanGrant`) if moreover no key is named in the parameters
  (`DerivedKeys`), which a revocation does not see.

`BInv` (`RequestsInOrder`): at most one request per object is waited for; each request
is handled at a point in its object's life that it was made for, except that a request
that was given up may be late (`Fits`); identifiers are given once. `Configured` and
`Granted` say how far the request that is waited for has got, and hold although
requests given up earlier still run beside it: those only repeat what it does.
`AllAwaited` leaves them out where a property excepts them.

### ErrorProofs

`DriverAgrees` (`DriverAgreesWithController`) and `VerdictOnlySoftens` (`WrappingOnlySoftens`)
for errors of any depth and any names in their texts. `EInv`: a `ProvisioningError` is never below another layer, so what
`grpcErr` unwraps is the whole error. That the outermost `net.Error` decides, and stays
the same under wrapping, rests on `MinIsLeast`, for the smallest index of a set.

### ResolverProofs

For every set of workers, classes, objects and fields and every `MaxVersion`, from
`ResolverAssumption` (classes are records of the stated type, the absent and the
incomplete reference are no objects):

* `ResolverInvariance`: `Spec => []IInv`
* `ResolverTypeCorrect`: `Spec => []TypeOK`
* `ResolverGivesItsOwn`: `Spec => []ClientOfItsClass`
* `ResolverNeverStale`: `Spec => []NeverStale`
* `ResolverNoStandIn`: `Spec => []NoStandIn`

The properties speak of answers only, so they are not inductive. `IInv` adds what
leads up to an answer:

* `CacheSound`: an entry is the client its key and its versions describe. This is why
  it does no harm that a slower call puts an older client back into the cache: the
  next call compares the versions it has read itself.
* `Ordered`: versions are handed out in order, and the informers hold no later one
  than the API server.
* `CallsKept`: at each step of a call, what it has read, or whatever may still be read
  (`NotBelow`), is not older than its `floor`, and a call that goes on has a Secret to
  read. A deleted object that is written again gets a later version, which is why
  `NotBelow` bounds the clock too.

### Only model-checked

Liveness (`EventuallyBound`, `EventuallyRepaired`, `EventuallyDeleted`, `EventuallyGranted`,
`EventuallyGone`), as fairness and enabledness are out of the prover's reach, and the
three violations of section 4, which are counterexamples.

## 6. Plan

What could be proved beyond this:

1. `NoOrphanIamUser` for claims that are edited, if the cache shows the Secret before the
   next pass begins: the condition that `NeverEdited` stands in for.
2. `ClientOfItsClass` and the claims' theorems joined: that the client a pass works with
   is of the class it read, which `class` of `BucketClaimController` takes for granted.
3. That the claims `BucketAccessController` is composed with are those of
   `ClaimLifecycle`: its `ClaimMoves` maps to steps of the abstract specification.
4. `GrantedIsUsable` and `BoundIsUsable` under shared keys, weakened to what then still
   holds: the user exists, with some policy.

## 7. Not modelled

* Metrics: counters nothing reads. Generated deep copies, charts, manifests, scripts.
* `cmd/main.go` beyond the flag `--cosi-enabled`, restarts and the shared resolver:
  flag parsing, health checks and endpoints.
* Starting and stopping the gRPC server, `DriverGetInfo`: I/O, and no state.
* The upstream COSI sidecar beyond what the driver can tell of it, and the objects
  inside buckets.
* Two replicas that both act as leader: leader election is controller-runtime's.
