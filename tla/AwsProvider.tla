----------------------------- MODULE AwsProvider -----------------------------
(***************************************************************************)
(* The AWS backend as BucketClaims drive it: S3 buckets with their         *)
(* security configuration, one IAM user per claim with inline policies and *)
(* at most two access keys, and the credentials Secret that carries one of *)
(* the keys.                                                               *)
(*                                                                         *)
(* A claim is reconciled by the same worker as in BucketClaimController;   *)
(* here every AWS call is a step and the API server's side is reduced to   *)
(* what decides which calls are made: whether the claim is provisioned for *)
(* its generation, and the key its Secret holds, which the worker reads    *)
(* from a cache.  Unlike MinIO's, AWS access keys cannot be derived again: *)
(* a key whose Secret was not written is lost to the operator.             *)
(*                                                                         *)
(* Every call may fail, with or without having taken effect, and so may    *)
(* the worker; since a pass keeps nothing in memory, a crash before a call *)
(* is a failure of that call without effect.  Every error is retried.      *)
(***************************************************************************)
EXTENDS AwsSecurity, Integers, FiniteSets

CONSTANTS
    Claims,        \* namespaced names of BucketClaims of an AWS class
    Names,         \* bucket names, in canonical form
    Users,         \* IAM user names
    UserOf,        \* userNameForAccount("<namespace>-<name>") of a claim
    KeyIds,        \* IAM access key IDs
    Specs,         \* the claim specs a user may write
    Statements,    \* the statements of administrators' policy documents
    Params,        \* the class parameters an administrator may write
    InitParams,    \* those the class may have at the start
    ForeignNames,  \* bucket names that other AWS accounts hold
    DeletionPolicy, \* of the class
    FailAt,        \* the steps at which a call may fail
    MaxFailures,   \* bound: failures, class edits and deleted Secrets
    MaxGen,        \* bound: highest generation of a claim
    MaxUid,        \* bound: how often a claim of one name is created
    NoKey, NoClaim

SpecType == [bucket : Names,
             access : {"ReadWrite", "ReadOnly"},
             rules  : {"none", "Enabled", "Disabled"}]

ParamType == [block : BoolTexts, acls : BoolTexts, tls : BoolTexts,
              enc : EncTexts, kms : ArnTexts,
              doc : [kind : DocKinds, st : Seq(Statements)]]

(* Only an array has statements to merge; an empty one is treated like a   *)
(* document without a Statement and is not listed apart.                   *)
StatementsInArray(p) == p.doc.kind = "array" <=> p.doc.st # <<>>

(* observed is the generation of the Ready condition, 0 if there is none.  *)
ClaimObject == [gen : Nat, spec : Specs, deleting : BOOLEAN, finalizer : BOOLEAN,
                observed : Nat, bucketName : Names, secretRef : BOOLEAN]

Owners      == {"nobody", "us", "other"}
BucketState == [owner : Owners, block : BOOLEAN, acls : BOOLEAN,
                enc : {"NONE", "SSE-S3", "SSE-KMS"}, policy : Seq(Statements \cup {Deny}),
                rules : {"none", "Enabled", "Disabled"}]
Grant       == [bucket : Names, access : {"ReadWrite", "ReadOnly"}]

KeyQuota == 2

SecuritySteps == {"flags", "block", "acls", "encrypt", "bucketPolicy"}
GrantSteps    == {"createUser", "putUserPolicy", "createKey", "makeRoom", "retryKey"}
ProvisionSteps == {"createBucket", "lifecycle", "writeSecret", "updateStatus"}
                  \cup SecuritySteps \cup GrantSteps
FinalizeSteps == {"dropPolicy", "dropKeys", "dropUser", "deleteBucket", "removeFinalizer"}
Steps == ProvisionSteps \cup FinalizeSteps \cup {"idle"}

ASSUME AwsAssumption ==
    /\ UserOf \in [Claims -> Users]
    /\ Specs \subseteq SpecType
    /\ Params \subseteq ParamType /\ InitParams \subseteq Params
    /\ \A p \in Params : StatementsInArray(p)
    /\ ForeignNames \subseteq Names
    /\ DeletionPolicy \in {"Delete", "Retain"}
    /\ FailAt \subseteq Steps \cup {"class", "secret"}
    /\ MaxFailures \in Nat /\ MaxGen \in Nat /\ MaxUid \in Nat
    /\ NoKey \notin KeyIds /\ NoClaim \notin ClaimObject

VARIABLES
    claim,        \* [Claims -> ClaimObject or NoClaim]
    uids,         \* how often each claim has been created
    secret,       \* the key in the credentials Secret of each claim
    secretCache,  \* the informer's copy
    stray,        \* claims whose Secret was written for an earlier claim of that name
    params,       \* parameters of the class
    bucket,       \* S3: buckets and their configuration
    user,         \* IAM: which users exist
    grants,       \* IAM: inline policies of each user
    keys,         \* IAM: access keys of each user
    pc, cur,      \* the worker's next step, and the claim it works on
    loc,          \* its copy of that claim
    par,          \* its copy of the class parameters
    cred,         \* the access key of this pass
    failures      \* failures so far: how many, and whether one of them leaks

secretVars == <<secret, secretCache, stray>>
apiVars    == <<claim, uids, secretVars, params>>
iamVars    == <<user, grants, keys>>
workerVars == <<pc, cur, loc, par, cred>>
vars == <<apiVars, bucket, iamVars, workerVars, failures>>

FreshBucket(owner) == [owner |-> owner, block |-> FALSE, acls |-> FALSE, enc |-> "NONE",
                       policy |-> <<>>, rules |-> "none"]

Init ==
    /\ claim = [c \in Claims |-> NoClaim] /\ uids = [c \in Claims |-> 0]
    /\ secret = [c \in Claims |-> NoKey] /\ secretCache = secret /\ stray = {}
    /\ params \in InitParams
    /\ bucket = [n \in Names |-> FreshBucket(IF n \in ForeignNames THEN "other" ELSE "nobody")]
    /\ user = [u \in Users |-> FALSE]
    /\ grants = [u \in Users |-> {}]
    /\ keys = [u \in Users |-> {}]
    /\ pc = "idle" /\ cur \in Claims /\ loc = NoClaim /\ par = params /\ cred = NoKey
    /\ failures = [count |-> 0, leak |-> FALSE]
-----------------------------------------------------------------------------
(* Helpers of the steps.                                                   *)

(* Failures after which an IAM user may be left behind: a key is created   *)
(* and lost, or a pass repeated that has written its Secret, which makes a *)
(* second key as long as the cache does not show the first, or a           *)
(* revocation fails, which is only logged.                                 *)
Leaks == {"createKey", "retryKey", "writeSecret", "updateStatus", "secret",
          "dropPolicy", "dropKeys", "dropUser"}

Fault(kind) ==
    /\ kind \in FailAt /\ failures.count < MaxFailures
    /\ failures' = [count |-> failures.count + 1, leak |-> failures.leak \/ kind \in Leaks]

Goto(step) == pc' = step /\ UNCHANGED <<cur, loc, par, cred, failures>>

(* The pass ends; the claim is looked at again, from the start.            *)
Return == pc' = "idle" /\ loc' = NoClaim /\ cred' = NoKey /\ UNCHANGED <<cur, par>>

Fail    == Fault(pc) /\ Return
Refused == Return /\ UNCHANGED failures

TheUser == UserOf[cur]
TheBucket == loc.spec.bucket

(* A plausible slip: the answer of the call is not looked at.              *)
S3CallUnchecked(configured, next) ==
    /\ bucket' = IF bucket[TheBucket].owner = "us"
                 THEN [bucket EXCEPT ![TheBucket] = configured] ELSE bucket
    /\ Goto(next)

(* One call to S3 on a bucket; S3 refuses it unless the bucket is ours.    *)
S3Call(configured, next) ==
    \/ /\ bucket[TheBucket].owner = "us"
       /\ bucket' = [bucket EXCEPT ![TheBucket] = configured]
       /\ Goto(next) \/ Fail
    \/ /\ UNCHANGED bucket
       /\ \/ Fail
          \/ bucket[TheBucket].owner # "us" /\ Refused

Settled(c) == claim[c] # NoClaim /\ ~claim[c].deleting /\ claim[c].observed = claim[c].gen
-----------------------------------------------------------------------------
(* The resolver refuses a policy document that is not JSON: the pass ends  *)
(* with an error before anything is called.                                *)
Resolvable(p) == p.doc.kind # "garbage"

(* Reconcile takes up a claim, and the keys of an existing Secret.         *)
StartProvision(c) ==
    /\ pc = "idle" /\ claim[c] # NoClaim /\ ~claim[c].deleting /\ ~Settled(c)
    /\ claim' = [claim EXCEPT ![c].finalizer = TRUE]
    /\ \/ /\ Resolvable(params)
          /\ pc' = "createBucket" /\ cur' = c /\ loc' = claim'[c] /\ par' = params
          /\ cred' = secretCache[c]
       \/ ~Resolvable(params) /\ UNCHANGED workerVars
    /\ UNCHANGED <<uids, secretVars, params, bucket, iamVars, failures>>

(* finalizeBucketClaim: the key of the Secret the status refers to.        *)
KeyToRevoke(c) == IF claim[c].secretRef THEN secretCache[c] ELSE NoKey

StartFinalize(c) ==
    /\ pc = "idle" /\ claim[c] # NoClaim /\ claim[c].deleting /\ Resolvable(params)
    /\ pc' = "dropPolicy" /\ cur' = c /\ loc' = claim[c] /\ par' = params
    /\ cred' = KeyToRevoke(c)
    /\ UNCHANGED <<apiVars, bucket, iamVars, failures>>
-----------------------------------------------------------------------------
(* createBucketAndConfigure.  SetBucketQuota and SetBucketReplication do   *)
(* nothing on AWS and are no steps.                                        *)

(* BucketAlreadyOwnedByYou and BucketAlreadyExists both count as success.  *)
CreateBucket ==
    /\ pc = "createBucket"
    /\ \/ /\ bucket' = IF bucket[TheBucket].owner = "nobody"
                       THEN [bucket EXCEPT ![TheBucket] = FreshBucket("us")] ELSE bucket
          /\ Goto("flags") \/ Fail
       \/ UNCHANGED bucket /\ Fail
    /\ UNCHANGED <<apiVars, iamVars>>

(* ConfigureBucketSecurity: the flags first, then one call per setting.    *)
ReadFlags ==
    /\ pc = "flags"
    /\ IF FlagsValid(par) THEN Goto("block") ELSE Refused
    /\ UNCHANGED <<apiVars, bucket, iamVars>>

PutPublicAccessBlock ==
    /\ pc = "block"
    /\ IF Block(par) = "on"
       THEN S3Call([bucket[TheBucket] EXCEPT !.block = TRUE], "acls")
       ELSE Goto("acls") /\ UNCHANGED bucket
    /\ UNCHANGED <<apiVars, iamVars>>

PutBucketOwnershipControls ==
    /\ pc = "acls"
    /\ IF DisableAcls(par) = "on"
       THEN S3Call([bucket[TheBucket] EXCEPT !.acls = TRUE], "encrypt")
       ELSE Goto("encrypt") /\ UNCHANGED bucket
    /\ UNCHANGED <<apiVars, iamVars>>

PutBucketEncryption ==
    /\ pc = "encrypt"
    /\ \/ ~EncryptionValid(par) /\ Refused /\ UNCHANGED bucket
       \/ /\ EncryptionValid(par)
          /\ IF Encryption(par) # "NONE"
             THEN S3Call([bucket[TheBucket] EXCEPT !.enc = Encryption(par)], "bucketPolicy")
             ELSE Goto("bucketPolicy") /\ UNCHANGED bucket
    /\ UNCHANGED <<apiVars, iamVars>>

PutBucketPolicy ==
    /\ pc = "bucketPolicy"
    /\ \/ ~HasPolicy(par) /\ Goto("lifecycle") /\ UNCHANGED bucket
       \/ HasPolicy(par) /\ ~PolicyValid(par) /\ Refused /\ UNCHANGED bucket
       \/ /\ HasPolicy(par) /\ PolicyValid(par)
          /\ S3Call([bucket[TheBucket] EXCEPT
                       !.policy = Merge(BaseStatements(TlsOnly(par)), par.doc)], "lifecycle")
    /\ UNCHANGED <<apiVars, iamVars>>

(* Every rule is sent as Enabled, whatever its status.                     *)
SetBucketLifecycle ==
    /\ pc = "lifecycle"
    /\ IF loc.spec.rules # "none"
       THEN S3Call([bucket[TheBucket] EXCEPT !.rules = "Enabled"], "createUser")
       ELSE Goto("createUser") /\ UNCHANGED bucket
    /\ UNCHANGED <<apiVars, iamVars>>
-----------------------------------------------------------------------------
(* GrantAccess, then grantAccess's look at its answer.                     *)

CreateUser ==
    /\ pc = "createUser"
    /\ \/ user' = [user EXCEPT ![TheUser] = TRUE] /\ (Goto("putUserPolicy") \/ Fail)
       \/ UNCHANGED user /\ Fail
    /\ UNCHANGED <<apiVars, bucket, grants, keys>>

(* A plausible slip: a user that has a policy is taken to be set up.       *)
WithGrantOnce(gs, g) == IF gs = {} THEN {g} ELSE gs

(* PutUserPolicy replaces the policy of that name, which is the bucket's.  *)
WithGrant(gs, g) == {h \in gs : h.bucket # g.bucket} \cup {g}

(* With keys from an existing Secret GrantAccess answers without an        *)
(* endpoint, which grantAccess refuses as incomplete.                      *)
PutUserPolicy ==
    /\ pc = "putUserPolicy"
    /\ \/ /\ grants' = [grants EXCEPT ![TheUser] =
                          WithGrant(@, [bucket |-> TheBucket, access |-> loc.spec.access])]
          /\ \/ cred = NoKey /\ Goto("createKey")
             \/ cred # NoKey /\ Refused
             \/ Fail
       \/ UNCHANGED grants /\ Fail
    /\ UNCHANGED <<apiVars, bucket, user, keys>>

(* IAM never hands out an ID twice: one that nothing refers to any more    *)
(* stands for a new one.                                                   *)
Unused(k) == /\ k # cred
             /\ \A u \in Users : k \notin keys[u]
             /\ \A c \in Claims : k \notin {secret[c], secretCache[c]}

(* At the quota, room is made and the call repeated once.                  *)
CreateAccessKey ==
    /\ pc \in {"createKey", "retryKey"}
    /\ \/ /\ Cardinality(keys[TheUser]) < KeyQuota
          /\ \E k \in KeyIds :
                /\ Unused(k)
                /\ keys' = [keys EXCEPT ![TheUser] = @ \cup {k}]
                /\ \/ pc' = "writeSecret" /\ cred' = k /\ UNCHANGED <<cur, loc, par, failures>>
                   \/ Fail
       \/ /\ Cardinality(keys[TheUser]) >= KeyQuota
          /\ IF pc = "createKey" THEN Goto("makeRoom") ELSE Refused
          /\ UNCHANGED keys
       \/ UNCHANGED keys /\ Fail
    /\ UNCHANGED <<apiVars, bucket, user, grants>>

(* A plausible slip: the list comes back empty and nothing is deleted.     *)
RoomMadeNone(ks) == ks

(* What is left of a user's keys after all have been deleted.              *)
RoomMade(ks) == {}

(* Failures of the list and of the single deletions are ignored.           *)
DeleteOldKeys ==
    /\ pc = "makeRoom"
    /\ \/ /\ keys' = [keys EXCEPT ![TheUser] = RoomMade(@)]
          /\ UNCHANGED failures
       \/ /\ Fault(pc)
          /\ \E left \in SUBSET keys[TheUser] : keys' = [keys EXCEPT ![TheUser] = left]
    /\ pc' = "retryKey"
    /\ UNCHANGED <<apiVars, bucket, user, grants, cur, loc, par, cred>>
-----------------------------------------------------------------------------
(* Reconcile: Secret and status.                                           *)

(* CreateOrUpdate, on the cached Secret.                                   *)
WriteSecret ==
    /\ pc = "writeSecret"
    /\ \/ /\ secretCache[cur] = secret[cur]
          /\ secret' = [secret EXCEPT ![cur] = cred]
          /\ stray' = stray \ {cur}
          /\ Goto("updateStatus") \/ Fail
       \/ /\ UNCHANGED <<secret, stray>>
          /\ \/ secretCache[cur] # secret[cur] /\ Refused
             \/ Fail
    /\ UNCHANGED <<claim, uids, secretCache, params, bucket, iamVars>>

(* A failure stands also for an update refused because the claim, which is *)
(* read from the cache, has changed since.                                 *)
UpdateStatus ==
    /\ pc = "updateStatus"
    /\ \/ /\ claim' = [claim EXCEPT ![cur].observed = claim[cur].gen,
                                    ![cur].bucketName = TheBucket, ![cur].secretRef = TRUE]
          /\ Refused
       \/ UNCHANGED claim /\ Fail
    /\ UNCHANGED <<uids, secretVars, params, bucket, iamVars>>
-----------------------------------------------------------------------------
(* RevokeAccessAndMaybeDeleteBucket.  RevokeAccess ignores every error.    *)

DoomedName == IF loc.secretRef THEN loc.bucketName ELSE loc.spec.bucket

DeleteUserPolicy ==
    /\ pc = "dropPolicy"
    /\ pc' = "dropKeys"
    /\ \/ /\ grants' = [grants EXCEPT ![TheUser] = {g \in @ : g.bucket # DoomedName}]
          /\ UNCHANGED failures
       \/ Fault(pc) /\ UNCHANGED grants
    /\ UNCHANGED <<apiVars, bucket, user, keys, cur, loc, par, cred>>

(* A plausible slip: without a key there is nothing to delete.             *)
KeysLeftUnlisted(ks, k) == ks \ {k}

(* The given key is deleted, or every key if none is given.                *)
KeysLeft(ks, k) == IF k = NoKey THEN {} ELSE ks \ {k}

DeleteAccessKeys ==
    /\ pc = "dropKeys"
    /\ pc' = "dropUser"
    /\ \/ /\ keys' = [keys EXCEPT ![TheUser] = KeysLeft(@, cred)]
          /\ UNCHANGED failures
       \/ /\ Fault(pc)
          /\ \E left \in SUBSET keys[TheUser] : keys' = [keys EXCEPT ![TheUser] = left]
    /\ UNCHANGED <<apiVars, bucket, user, grants, cur, loc, par, cred>>

(* IAM refuses to delete a user that has keys or policies.                 *)
DeleteUser ==
    /\ pc = "dropUser"
    /\ pc' = IF DeletionPolicy = "Delete" THEN "deleteBucket" ELSE "removeFinalizer"
    /\ \/ /\ user' = [user EXCEPT ![TheUser] = @ /\ (keys[TheUser] # {} \/ grants[TheUser] # {})]
          /\ UNCHANGED failures
       \/ Fault(pc) /\ UNCHANGED user
    /\ UNCHANGED <<apiVars, bucket, grants, keys, cur, loc, par, cred>>

(* A plausible slip: a bucket that is gone already is an error.            *)
DeletableOnce(owner) == owner = "us"

(* NoSuchBucket counts as success.                                         *)
Deletable(owner) == owner \in {"us", "nobody"}

DeleteBucket ==
    /\ pc = "deleteBucket"
    /\ \/ /\ Deletable(bucket[DoomedName].owner)
          /\ bucket' = [bucket EXCEPT ![DoomedName] = FreshBucket("nobody")]
          /\ Goto("removeFinalizer") \/ Fail
       \/ /\ UNCHANGED bucket
          /\ \/ ~Deletable(bucket[DoomedName].owner) /\ Refused
             \/ Fail
    /\ UNCHANGED <<apiVars, iamVars>>

RemoveFinalizer ==
    /\ pc = "removeFinalizer"
    /\ \/ /\ claim' = [claim EXCEPT ![cur] = NoClaim]
          /\ stray' = stray \cup {cur}
          /\ Refused
       \/ UNCHANGED <<claim, stray>> /\ Fail
    /\ UNCHANGED <<uids, secret, secretCache, params, bucket, iamVars>>
-----------------------------------------------------------------------------
(* Users, administrators, the informer and the garbage collector.          *)

CreateClaim(c, s) ==
    /\ claim[c] = NoClaim /\ uids[c] < MaxUid
    /\ uids' = [uids EXCEPT ![c] = @ + 1]
    /\ claim' = [claim EXCEPT ![c] =
          [gen |-> 1, spec |-> s, deleting |-> FALSE, finalizer |-> FALSE, observed |-> 0,
           bucketName |-> s.bucket, secretRef |-> FALSE]]
    /\ UNCHANGED <<secretVars, params, bucket, iamVars, workerVars, failures>>

EditClaim(c, s) ==
    /\ claim[c] # NoClaim /\ ~claim[c].deleting /\ claim[c].gen < MaxGen /\ claim[c].spec # s
    /\ claim' = [claim EXCEPT ![c].spec = s, ![c].gen = @ + 1]
    /\ UNCHANGED <<uids, secretVars, params, bucket, iamVars, workerVars, failures>>

DeleteClaim(c) ==
    /\ claim[c] # NoClaim /\ ~claim[c].deleting
    /\ claim' = [claim EXCEPT ![c] =
          IF claim[c].finalizer THEN [claim[c] EXCEPT !.deleting = TRUE] ELSE NoClaim]
    /\ UNCHANGED <<uids, secretVars, params, bucket, iamVars, workerVars, failures>>

EditClass ==
    /\ Fault("class")
    /\ params' \in Params \ {params}
    /\ UNCHANGED <<claim, uids, secretVars, bucket, iamVars, workerVars>>

DeleteSecret(c) ==
    /\ Fault("secret") /\ secret[c] # NoKey
    /\ secret' = [secret EXCEPT ![c] = NoKey]
    /\ UNCHANGED <<claim, uids, secretCache, stray, params, bucket, iamVars, workerVars>>

(* The garbage collector: the Secret's controller reference names a claim  *)
(* that is gone.                                                           *)
CollectSecret(c) ==
    /\ c \in stray /\ secret[c] # NoKey
    /\ secret' = [secret EXCEPT ![c] = NoKey]
    /\ stray' = stray \ {c}
    /\ UNCHANGED <<claim, uids, secretCache, params, bucket, iamVars, workerVars, failures>>

SyncSecret(c) ==
    /\ secretCache[c] # secret[c]
    /\ secretCache' = [secretCache EXCEPT ![c] = secret[c]]
    /\ UNCHANGED <<claim, uids, secret, stray, params, bucket, iamVars, workerVars, failures>>
-----------------------------------------------------------------------------
Start(c) == StartProvision(c) \/ StartFinalize(c)

WorkerStep ==
    \/ CreateBucket \/ ReadFlags \/ PutPublicAccessBlock \/ PutBucketOwnershipControls
    \/ PutBucketEncryption \/ PutBucketPolicy \/ SetBucketLifecycle
    \/ CreateUser \/ PutUserPolicy \/ CreateAccessKey \/ DeleteOldKeys
    \/ WriteSecret \/ UpdateStatus
    \/ DeleteUserPolicy \/ DeleteAccessKeys \/ DeleteUser \/ DeleteBucket \/ RemoveFinalizer

Next ==
    \/ WorkerStep
    \/ \E c \in Claims : Start(c) \/ DeleteClaim(c) \/ DeleteSecret(c) \/ CollectSecret(c)
                         \/ SyncSecret(c)
    \/ \E c \in Claims, s \in Specs : CreateClaim(c, s) \/ EditClaim(c, s)
    \/ EditClass

Spec == Init /\ [][Next]_vars

(* The worker finishes a pass, every error is retried, the workqueue       *)
(* starves no claim, the Secret informer catches up and the garbage        *)
(* collector collects.                                                     *)
FairSpec ==
    /\ Spec
    /\ WF_vars(WorkerStep)
    /\ \A c \in Claims : SF_vars(Start(c)) /\ WF_vars(SyncSecret(c))
                         /\ WF_vars(CollectSecret(c))
-----------------------------------------------------------------------------
(* Correctness.                                                            *)

(* Types of the variables, and what IAM sees to: no user has more than two *)
(* access keys, and no key belongs to two users.                           *)
TypeOK ==
    /\ claim \in [Claims -> ClaimObject \cup {NoClaim}]
    /\ uids \in [Claims -> Nat]
    /\ secret \in [Claims -> KeyIds \cup {NoKey}]
    /\ secretCache \in [Claims -> KeyIds \cup {NoKey}]
    /\ stray \subseteq Claims
    /\ params \in Params /\ par \in Params
    /\ bucket \in [Names -> BucketState]
    /\ user \in [Users -> BOOLEAN]
    /\ grants \in [Users -> SUBSET Grant]
    /\ keys \in [Users -> SUBSET KeyIds]
    /\ pc \in Steps /\ cur \in Claims
    /\ loc \in ClaimObject \cup {NoClaim}
    /\ cred \in KeyIds \cup {NoKey}
    /\ failures \in [count : Nat, leak : BOOLEAN]
    /\ \A u \in Users : Cardinality(keys[u]) <= KeyQuota
    /\ \A u, v \in Users : u # v => keys[u] \cap keys[v] = {}

(* What the class's parameters promise about a bucket, stated on their     *)
(* text: a protection is on unless it is turned off by name.               *)
Protected(b, p) ==
    /\ p.block # "false" => b.block
    /\ p.acls # "false" => b.acls
    /\ p.enc # "none" => b.enc = (IF p.enc = "SSE-KMS" THEN "SSE-KMS" ELSE "SSE-S3")
    /\ p.tls # "false" => b.policy # <<>> /\ b.policy[1] = Deny
    /\ \A i \in 1 .. Len(p.doc.st) :
          \E j \in 1 .. Len(b.policy) : b.policy[j] = p.doc.st[i]

(* No access key is handed out for a bucket that does not yet have every   *)
(* protection the class asked for at the start of the pass, the user's own *)
(* policy statements included, whatever call failed before and however     *)
(* often the pass was repeated.                                            *)
KeysOnlyWhenProtected ==
    [][ \A u \in Users : ~(keys'[u] \subseteq keys[u])
                         => Protected(bucket[TheBucket], par) ]_vars

(* The TLS-only guardrail, once attached, leaves a bucket's policy only    *)
(* with the bucket, or when the class turns it off.                        *)
GuardrailStays ==
    [][ \A n \in Names :
          /\ bucket[n].policy # <<>> /\ bucket[n].policy[1] = Deny
          /\ bucket'[n].owner = "us"
          => bucket'[n].policy # <<>> /\ (bucket'[n].policy[1] = Deny \/ par.tls = "false") ]_vars

(* What Bound promises: the key in the Secret is a live key of the claim's *)
(* user, and that user may use the bucket in the status.                   *)
SettledKeyWorks ==
    \A c \in Claims : Settled(c) /\ secret[c] # NoKey =>
        /\ user[UserOf[c]]
        /\ secret[c] \in keys[UserOf[c]]
        /\ \E g \in grants[UserOf[c]] : g.bucket = claim[c].bucketName

(* A claim is never Bound to a bucket of another AWS account, although     *)
(* CreateBucket takes BucketAlreadyExists for success: the settings the    *)
(* class asks for are refused later, when it asks for at least one.        *)
BoundToOwnBucket ==
    \A c \in Claims : Settled(c) => bucket[claim[c].bucketName].owner = "us"

(* An IAM user does not outlive the first claim of its name, although keys *)
(* cannot be derived again and the claim may never have been Bound:        *)
(* whatever failed, except what leaks, of a claim that is never edited.    *)
(* (A second claim may find the Secret of the first in the cache and       *)
(* revoke the key that is in there; a pass after an edit may find no       *)
(* Secret in the cache and make a second key.)                             *)
NoOrphanIamUser ==
    \A u \in Users : user[u] /\ ~failures.leak =>
        \E c \in Claims : UserOf[c] = u /\ (claim[c] # NoClaim \/ uids[c] > 1)

Valid(p) == Resolvable(p) /\ FlagsValid(p) /\ EncryptionValid(p) /\ PolicyValid(p)

(* A claim left alone, whose class is valid from some time on, becomes     *)
(* Bound, also when earlier passes used up the user's two access keys.     *)
EventuallyBound ==
    \A c \in Claims :
        <>[](claim[c] # NoClaim /\ ~claim[c].deleting /\ Valid(params)) => <>[]Settled(c)

(* A deleted claim goes away, if its class's policy document can be read   *)
(* from some time on.                                                      *)
EventuallyDeleted ==
    \A c \in Claims :
        <>[]Resolvable(params)
        => ((claim[c] # NoClaim /\ claim[c].deleting) ~> (claim[c] = NoClaim))
=============================================================================
