------------------------------ MODULE AwsProofs ------------------------------
(***************************************************************************)
(* Theorems about AwsProvider, for every set of claims, specs, parameters, *)
(* bucket names, users and access keys, and all bounds.                    *)
(*                                                                         *)
(* Typing, with the quota of access keys, KeysOnlyWhenProtected and        *)
(* GuardrailStays need no more.  The others have a hypothesis each on what *)
(* claims share, on what a class asks for or on edits: Unshared, Checked,  *)
(* OwnUser and NeverEdited.                                                *)
(***************************************************************************)
EXTENDS AwsProvider, FiniteSetTheorems, SequenceTheorems, TLAPS

(* Types of what the worker keeps, of the API server, and of AWS.          *)
WorkerTypes ==
    /\ params \in Params /\ par \in Params
    /\ pc \in Steps /\ cur \in Claims
    /\ loc \in ClaimObject \cup {NoClaim}
    /\ cred \in KeyIds \cup {NoKey}
    /\ failures \in [count : Nat, leak : BOOLEAN]

ApiTypes ==
    /\ claim \in [Claims -> ClaimObject \cup {NoClaim}]
    /\ uids \in [Claims -> Nat]
    /\ secret \in [Claims -> KeyIds \cup {NoKey}]
    /\ secretCache \in [Claims -> KeyIds \cup {NoKey}]
    /\ stray \subseteq Claims

BucketTypes == bucket \in [Names -> BucketState]

IamTypes ==
    /\ user \in [Users -> BOOLEAN]
    /\ grants \in [Users -> SUBSET Grant]
    /\ keys \in [Users -> SUBSET KeyIds]
    /\ \A u \in Users : IsFiniteSet(keys[u]) /\ Cardinality(keys[u]) <= KeyQuota
    /\ \A u, v \in Users : u # v => keys[u] \cap keys[v] = {}

(* The status lags behind the generation, and only a claim with the        *)
(* finalizer is ever seen with a deletion timestamp.                       *)
Sane(v) == v # NoClaim => v.observed <= v.gen /\ (v.deleting = TRUE => v.finalizer = TRUE)

(* A pass works on a claim that holds its finalizer, and so cannot go away *)
(* under it: one that is provisioned is not settled before the last step,  *)
(* and one that is finalized is being deleted.                             *)
PassFits ==
    /\ pc # "idle" => loc \in ClaimObject /\ claim[cur] # NoClaim /\ claim[cur].finalizer = TRUE
    /\ pc \in FinalizeSteps => claim[cur].deleting = TRUE
    /\ pc \in ProvisionSteps => ~Settled(cur)
    /\ \A c \in Claims : Sane(claim[c])

AwsInv == WorkerTypes /\ ApiTypes /\ BucketTypes /\ IamTypes /\ PassFits
-----------------------------------------------------------------------------
USE DEF secretVars, apiVars, iamVars, workerVars

(* The steps, by what they leave alone.                                    *)
S3Step ==
    \/ CreateBucket \/ ReadFlags \/ PutPublicAccessBlock \/ PutBucketOwnershipControls
    \/ PutBucketEncryption \/ PutBucketPolicy \/ SetBucketLifecycle \/ DeleteBucket
IamStep ==
    \/ CreateUser \/ PutUserPolicy \/ CreateAccessKey \/ DeleteOldKeys
    \/ DeleteUserPolicy \/ DeleteAccessKeys \/ DeleteUser
OtherStep ==
    \/ \E c \in Claims : DeleteClaim(c) \/ DeleteSecret(c) \/ CollectSecret(c) \/ SyncSecret(c)
    \/ \E c \in Claims, s \in Specs : CreateClaim(c, s) \/ EditClaim(c, s)
    \/ EditClass

LEMMA NextIs ==
    ASSUME [Next]_vars
    PROVE  \/ S3Step \/ IamStep \/ WriteSecret \/ UpdateStatus \/ RemoveFinalizer
           \/ \E c \in Claims : StartProvision(c) \/ StartFinalize(c)
           \/ OtherStep \/ UNCHANGED vars
  BY DEF Next, WorkerStep, Start, S3Step, IamStep, OtherStep

(* A pass ends, or goes on with the same claim.                            *)
Ends == pc' = "idle" /\ loc' = NoClaim /\ cred' = NoKey /\ cur' = cur /\ par' = par
Moves(S) == pc' \in S /\ cur' = cur /\ par' = par /\ loc' = loc

LEMMA FaultIs ==
    ASSUME WorkerTypes, NEW kind, Fault(kind)
    PROVE  /\ failures' \in [count : Nat, leak : BOOLEAN]
           /\ failures.leak \/ kind \in Leaks => failures'.leak
  <1> DEFINE n == failures.count + 1
             l == failures.leak \/ kind \in Leaks
  <1>1. failures' = [count |-> n, leak |-> l]  BY DEF Fault
  <1>2. n \in Nat /\ l \in BOOLEAN  BY DEF WorkerTypes
  <1> HIDE DEF n
  <1>3. failures' \in [count : Nat, leak : BOOLEAN]  BY <1>1, <1>2
  <1>4. failures'.leak = l  BY <1>1
  <1> QED  BY <1>3, <1>4

LEMMA FailIs ==
    ASSUME WorkerTypes, Fail
    PROVE  /\ Ends /\ failures' \in [count : Nat, leak : BOOLEAN]
           /\ failures.leak \/ pc \in Leaks => failures'.leak
  BY FaultIs DEF Fail, Return, Ends

LEMMA RefusedIs == ASSUME Refused PROVE Ends /\ failures' = failures
  BY DEF Refused, Return, Ends

LEMMA GotoIs ==
    ASSUME NEW step, Goto(step)
    PROVE  Moves({step}) /\ cred' = cred /\ failures' = failures
  BY DEF Goto, Moves

FailuresKept ==
    /\ failures' \in [count : Nat, leak : BOOLEAN]
    /\ failures.leak => failures'.leak

LEMMA S3CallIs ==
    ASSUME WorkerTypes, NEW configured, NEW next, S3Call(configured, next)
    PROVE  /\ FailuresKept
           /\ \/ Ends
              \/ Moves({next}) /\ cred' = cred /\ bucket[TheBucket].owner = "us"
           /\ \/ bucket' = bucket /\ Ends
              \/ bucket[TheBucket].owner = "us" /\ bucket' = [bucket EXCEPT ![TheBucket] = configured]
  <1>1. CASE UNCHANGED bucket /\ (Fail \/ Refused)
    BY <1>1, FailIs, RefusedIs DEF FailuresKept, WorkerTypes
  <1>2. CASE /\ bucket[TheBucket].owner = "us" /\ bucket' = [bucket EXCEPT ![TheBucket] = configured]
             /\ Goto(next) \/ Fail
    BY <1>2, FailIs, GotoIs DEF FailuresKept, WorkerTypes
  <1> QED  BY <1>1, <1>2 DEF S3Call
-----------------------------------------------------------------------------
(* What the single steps of a pass do.                                     *)

(* A setting of the bucket: made if the class asks for it, by a call that  *)
(* only the bucket's owner may make.                                       *)
Configures(on, configured, next) ==
    /\ FailuresKept
    /\ \/ bucket' = bucket /\ Ends
       \/ ~on /\ bucket' = bucket /\ Moves({next}) /\ cred' = cred
       \/ /\ on /\ bucket[TheBucket].owner = "us"
          /\ bucket' = [bucket EXCEPT ![TheBucket] = configured]
          /\ Ends \/ (Moves({next}) /\ cred' = cred)

LEMMA ConfiguresBy ==
    ASSUME WorkerTypes, NEW on \in BOOLEAN, NEW configured, NEW next,
           \/ on /\ S3Call(configured, next)
           \/ ~on /\ Goto(next) /\ UNCHANGED bucket
           \/ Refused /\ UNCHANGED bucket
    PROVE  Configures(on, configured, next)
  <1>1. CASE on /\ S3Call(configured, next)  BY <1>1, S3CallIs DEF Configures
  <1>2. CASE ~on /\ Goto(next) /\ UNCHANGED bucket
    BY <1>2, GotoIs DEF Configures, FailuresKept, WorkerTypes
  <1>3. CASE Refused /\ UNCHANGED bucket
    BY <1>3, RefusedIs DEF Configures, FailuresKept, WorkerTypes
  <1> QED  BY <1>1, <1>2, <1>3

WithBlock  == [bucket[TheBucket] EXCEPT !.block = TRUE]
WithAcls   == [bucket[TheBucket] EXCEPT !.acls = TRUE]
WithEnc    == [bucket[TheBucket] EXCEPT !.enc = Encryption(par)]
WithPolicy == [bucket[TheBucket] EXCEPT !.policy = Merge(BaseStatements(TlsOnly(par)), par.doc)]
WithRules  == [bucket[TheBucket] EXCEPT !.rules = "Enabled"]

LEMMA BlockIs ==
    ASSUME WorkerTypes, PutPublicAccessBlock
    PROVE  pc = "block" /\ Configures(Block(par) = "on", WithBlock, "acls")
  BY ConfiguresBy DEF PutPublicAccessBlock, WithBlock

LEMMA AclsIs ==
    ASSUME WorkerTypes, PutBucketOwnershipControls
    PROVE  pc = "acls" /\ Configures(DisableAcls(par) = "on", WithAcls, "encrypt")
  BY ConfiguresBy DEF PutBucketOwnershipControls, WithAcls

LEMMA EncryptIs ==
    ASSUME WorkerTypes, PutBucketEncryption
    PROVE  /\ pc = "encrypt" /\ Configures(Encryption(par) # "NONE", WithEnc, "bucketPolicy")
           /\ bucket' # bucket \/ pc' # "idle" => EncryptionValid(par)
  <1>1. CASE ~EncryptionValid(par) /\ Refused /\ UNCHANGED bucket
    BY <1>1, ConfiguresBy, RefusedIs DEF PutBucketEncryption, Ends
  <1>2. CASE /\ EncryptionValid(par)
             /\ IF Encryption(par) # "NONE" THEN S3Call(WithEnc, "bucketPolicy")
                ELSE Goto("bucketPolicy") /\ UNCHANGED bucket
    BY <1>2, ConfiguresBy DEF PutBucketEncryption
  <1> QED  BY <1>1, <1>2 DEF PutBucketEncryption, WithEnc

LEMMA PolicyIs ==
    ASSUME WorkerTypes, PutBucketPolicy
    PROVE  /\ pc = "bucketPolicy" /\ Configures(HasPolicy(par), WithPolicy, "lifecycle")
           /\ bucket' # bucket \/ (pc' # "idle" /\ HasPolicy(par)) => PolicyValid(par)
  <1>1. CASE ~HasPolicy(par) /\ Goto("lifecycle") /\ UNCHANGED bucket
    BY <1>1, ConfiguresBy DEF PutBucketPolicy, HasPolicy
  <1>2. CASE HasPolicy(par) /\ ~PolicyValid(par) /\ Refused /\ UNCHANGED bucket
    BY <1>2, ConfiguresBy, RefusedIs DEF PutBucketPolicy, Ends, HasPolicy
  <1>3. CASE HasPolicy(par) /\ PolicyValid(par) /\ S3Call(WithPolicy, "lifecycle")
    BY <1>3, ConfiguresBy DEF PutBucketPolicy, HasPolicy
  <1> QED  BY <1>1, <1>2, <1>3 DEF PutBucketPolicy, WithPolicy

LEMMA RulesIs ==
    ASSUME WorkerTypes, SetBucketLifecycle
    PROVE  pc = "lifecycle" /\ Configures(loc.spec.rules # "none", WithRules, "createUser")
  BY ConfiguresBy DEF SetBucketLifecycle, WithRules

LEMMA CreateBucketIs ==
    ASSUME WorkerTypes, CreateBucket
    PROVE  /\ pc = "createBucket" /\ FailuresKept
           /\ \/ bucket' = bucket
              \/ /\ bucket[TheBucket].owner = "nobody"
                 /\ bucket' = [bucket EXCEPT ![TheBucket] = FreshBucket("us")]
           /\ Ends \/ (Moves({"flags"}) /\ cred' = cred)
  BY FailIs, GotoIs DEF CreateBucket, FailuresKept, WorkerTypes

LEMMA FlagsIs ==
    ASSUME WorkerTypes, ReadFlags
    PROVE  /\ pc = "flags" /\ FailuresKept /\ bucket' = bucket
           /\ Ends \/ (Moves({"block"}) /\ cred' = cred /\ FlagsValid(par))
  BY RefusedIs, GotoIs DEF ReadFlags, FailuresKept, WorkerTypes

LEMMA DeleteBucketIs ==
    ASSUME WorkerTypes, DeleteBucket
    PROVE  /\ pc = "deleteBucket" /\ FailuresKept
           /\ \/ bucket' = bucket
              \/ bucket' = [bucket EXCEPT ![DoomedName] = FreshBucket("nobody")]
           /\ Ends \/ (Moves({"removeFinalizer"}) /\ cred' = cred)
  BY FailIs, RefusedIs, GotoIs DEF DeleteBucket, FailuresKept, WorkerTypes

(* All of them: the claim's copy and the parameters stay.                  *)
LEMMA S3StepIs ==
    ASSUME WorkerTypes, S3Step
    PROVE  /\ UNCHANGED <<apiVars, iamVars>> /\ FailuresKept
           /\ pc \notin {"idle", "removeFinalizer", "writeSecret", "updateStatus"}
           /\ \/ Ends
              \/ /\ cred' = cred
                 /\ \/ pc \in ProvisionSteps /\ Moves(ProvisionSteps \ {"writeSecret", "updateStatus"})
                    \/ pc = "deleteBucket" /\ Moves({"removeFinalizer"})
  <1>1. UNCHANGED <<apiVars, iamVars>>
    BY DEF S3Step, CreateBucket, ReadFlags, PutPublicAccessBlock, PutBucketOwnershipControls,
           PutBucketEncryption, PutBucketPolicy, SetBucketLifecycle, DeleteBucket
  <1>2. CASE CreateBucket
    BY <1>1, <1>2, CreateBucketIs DEF Moves, ProvisionSteps, SecuritySteps
  <1>3. CASE ReadFlags  BY <1>1, <1>3, FlagsIs DEF Moves, ProvisionSteps, SecuritySteps
  <1>4. CASE DeleteBucket  BY <1>1, <1>4, DeleteBucketIs DEF Moves, ProvisionSteps, SecuritySteps
  <1>5. CASE PutPublicAccessBlock
    BY <1>1, <1>5, BlockIs DEF Configures, Moves, ProvisionSteps, SecuritySteps
  <1>6. CASE PutBucketOwnershipControls
    BY <1>1, <1>6, AclsIs DEF Configures, Moves, ProvisionSteps, SecuritySteps
  <1>7. CASE PutBucketEncryption
    BY <1>1, <1>7, EncryptIs DEF Configures, Moves, ProvisionSteps, SecuritySteps
  <1>8. CASE PutBucketPolicy
    BY <1>1, <1>8, PolicyIs DEF Configures, Moves, ProvisionSteps, SecuritySteps
  <1>9. CASE SetBucketLifecycle
    BY <1>1, <1>9, RulesIs DEF Configures, Moves, ProvisionSteps, SecuritySteps, GrantSteps
  <1> QED  BY <1>2, <1>3, <1>4, <1>5, <1>6, <1>7, <1>8, <1>9 DEF S3Step

LEMMA CreateUserIs ==
    ASSUME WorkerTypes, CreateUser
    PROVE  /\ pc = "createUser" /\ FailuresKept /\ UNCHANGED <<grants, keys>>
           /\ user' = user \/ user' = [user EXCEPT ![TheUser] = TRUE]
           /\ \/ Ends
              \/ Moves({"putUserPolicy"}) /\ cred' = cred /\ user' = [user EXCEPT ![TheUser] = TRUE]
  BY FailIs, GotoIs DEF CreateUser, FailuresKept, WorkerTypes

TheGrant == [bucket |-> TheBucket, access |-> loc.spec.access]

LEMMA PutUserPolicyIs ==
    ASSUME WorkerTypes, PutUserPolicy
    PROVE  /\ pc = "putUserPolicy" /\ FailuresKept /\ UNCHANGED <<user, keys>>
           /\ \/ grants' = grants
              \/ grants' = [grants EXCEPT ![TheUser] = WithGrant(grants[TheUser], TheGrant)]
           /\ \/ Ends
              \/ /\ Moves({"createKey"}) /\ cred = NoKey /\ cred' = NoKey
                 /\ grants' = [grants EXCEPT ![TheUser] = WithGrant(grants[TheUser], TheGrant)]
  <1>1. CASE /\ grants' = [grants EXCEPT ![TheUser] = WithGrant(@, TheGrant)]
             /\ \/ cred = NoKey /\ Goto("createKey")
                \/ cred # NoKey /\ Refused
                \/ Fail
    BY <1>1, FailIs, RefusedIs, GotoIs DEF PutUserPolicy, FailuresKept, WorkerTypes
  <1>2. CASE UNCHANGED grants /\ Fail
    BY <1>2, FailIs DEF PutUserPolicy, FailuresKept, WorkerTypes
  <1> QED  BY <1>1, <1>2 DEF PutUserPolicy, TheGrant

LEMMA CreateKeyIs ==
    ASSUME WorkerTypes, CreateAccessKey
    PROVE  /\ pc \in {"createKey", "retryKey"} /\ FailuresKept /\ UNCHANGED <<user, grants>>
           /\ \/ keys' = keys /\ Ends
              \/ /\ keys' = keys /\ pc = "createKey" /\ Moves({"makeRoom"}) /\ cred' = cred
                 /\ Cardinality(keys[TheUser]) >= KeyQuota
              \/ \E k \in KeyIds :
                    /\ Cardinality(keys[TheUser]) < KeyQuota
                    /\ Unused(k)
                    /\ keys' = [keys EXCEPT ![TheUser] = keys[TheUser] \cup {k}]
                    /\ \/ Ends /\ failures'.leak
                       \/ Moves({"writeSecret"}) /\ cred' = k
  <1>0. pc \in {"createKey", "retryKey"} /\ UNCHANGED <<user, grants>> /\ pc \in Leaks
    BY DEF CreateAccessKey, Leaks
  <1>1. CASE /\ Cardinality(keys[TheUser]) < KeyQuota
             /\ \E k \in KeyIds :
                   /\ Unused(k)
                   /\ keys' = [keys EXCEPT ![TheUser] = @ \cup {k}]
                   /\ \/ pc' = "writeSecret" /\ cred' = k /\ UNCHANGED <<cur, loc, par, failures>>
                      \/ Fail
    <2>1. PICK k \in KeyIds :
             /\ Unused(k)
             /\ keys' = [keys EXCEPT ![TheUser] = @ \cup {k}]
             /\ \/ pc' = "writeSecret" /\ cred' = k /\ UNCHANGED <<cur, loc, par, failures>>
                \/ Fail
      BY <1>1
    <2>2. CASE Fail  BY <1>0, <1>1, <2>1, <2>2, FailIs DEF FailuresKept
    <2>3. CASE pc' = "writeSecret" /\ cred' = k /\ UNCHANGED <<cur, loc, par, failures>>
      BY <1>0, <1>1, <2>1, <2>3 DEF FailuresKept, WorkerTypes, Moves
    <2> QED  BY <2>1, <2>2, <2>3
  <1>2. CASE /\ Cardinality(keys[TheUser]) >= KeyQuota
             /\ IF pc = "createKey" THEN Goto("makeRoom") ELSE Refused
             /\ UNCHANGED keys
    BY <1>0, <1>2, GotoIs, RefusedIs DEF FailuresKept, WorkerTypes
  <1>3. CASE UNCHANGED keys /\ Fail  BY <1>0, <1>3, FailIs DEF FailuresKept
  <1> QED  BY <1>1, <1>2, <1>3 DEF CreateAccessKey

LEMMA DeleteOldKeysIs ==
    ASSUME WorkerTypes, DeleteOldKeys
    PROVE  /\ pc = "makeRoom" /\ FailuresKept /\ UNCHANGED <<user, grants>>
           /\ \E left \in SUBSET keys[TheUser] : keys' = [keys EXCEPT ![TheUser] = left]
           /\ Moves({"retryKey"}) /\ cred' = cred
  BY FaultIs DEF DeleteOldKeys, FailuresKept, WorkerTypes, Moves, RoomMade

LEMMA DropPolicyIs ==
    ASSUME WorkerTypes, DeleteUserPolicy
    PROVE  /\ pc = "dropPolicy" /\ FailuresKept /\ UNCHANGED <<user, keys>>
           /\ \/ grants' = grants /\ failures'.leak
              \/ grants' = [grants EXCEPT ![TheUser] = {g \in grants[TheUser] : g.bucket # DoomedName}]
           /\ Moves({"dropKeys"}) /\ cred' = cred
  BY FaultIs DEF DeleteUserPolicy, FailuresKept, WorkerTypes, Moves, Leaks

LEMMA DropKeysIs ==
    ASSUME WorkerTypes, DeleteAccessKeys
    PROVE  /\ pc = "dropKeys" /\ FailuresKept /\ UNCHANGED <<user, grants>>
           /\ \E left \in SUBSET keys[TheUser] :
                 /\ keys' = [keys EXCEPT ![TheUser] = left]
                 /\ left = KeysLeft(keys[TheUser], cred) \/ failures'.leak
           /\ Moves({"dropUser"}) /\ cred' = cred
  <1>1. KeysLeft(keys[TheUser], cred) \in SUBSET keys[TheUser]  BY DEF KeysLeft
  <1> QED  BY <1>1, FaultIs DEF DeleteAccessKeys, FailuresKept, WorkerTypes, Moves, Leaks

LEMMA DropUserIs ==
    ASSUME WorkerTypes, DeleteUser
    PROVE  /\ pc = "dropUser" /\ FailuresKept /\ UNCHANGED <<grants, keys>>
           /\ \/ user' = user /\ failures'.leak
              \/ user' = [user EXCEPT ![TheUser] =
                            user[TheUser] /\ (keys[TheUser] # {} \/ grants[TheUser] # {})]
           /\ Moves({"deleteBucket", "removeFinalizer"}) /\ cred' = cred
           /\ pc' = "deleteBucket" => DeletionPolicy = "Delete"
  BY FaultIs DEF DeleteUser, FailuresKept, WorkerTypes, Moves, Leaks

LEMMA IamStepIs ==
    ASSUME WorkerTypes, IamStep
    PROVE  /\ UNCHANGED <<apiVars, bucket>> /\ FailuresKept
           /\ pc \notin {"idle", "removeFinalizer", "writeSecret", "updateStatus"}
           /\ \/ Ends
              \/ /\ pc \in ProvisionSteps /\ Moves(ProvisionSteps \ {"updateStatus"})
                 /\ cred' \in KeyIds \cup {NoKey}
              \/ /\ pc \in FinalizeSteps /\ Moves(FinalizeSteps)
                 /\ cred' = cred
  <1>1. UNCHANGED <<apiVars, bucket>>
    BY DEF IamStep, CreateUser, PutUserPolicy, CreateAccessKey, DeleteOldKeys, DeleteUserPolicy,
           DeleteAccessKeys, DeleteUser
  <1>0. cred \in KeyIds \cup {NoKey}  BY DEF WorkerTypes
  <1>2. CASE CreateUser
    BY <1>0, <1>1, <1>2, CreateUserIs DEF Moves, ProvisionSteps, GrantSteps
  <1>3. CASE PutUserPolicy
    BY <1>1, <1>3, PutUserPolicyIs DEF Moves, ProvisionSteps, GrantSteps
  <1>4. CASE CreateAccessKey
    BY <1>0, <1>1, <1>4, CreateKeyIs DEF Moves, ProvisionSteps, GrantSteps
  <1>5. CASE DeleteOldKeys
    BY <1>0, <1>1, <1>5, DeleteOldKeysIs DEF Moves, ProvisionSteps, GrantSteps
  <1>6. CASE DeleteUserPolicy  BY <1>1, <1>6, DropPolicyIs DEF Moves, FinalizeSteps
  <1>7. CASE DeleteAccessKeys  BY <1>1, <1>7, DropKeysIs DEF Moves, FinalizeSteps
  <1>8. CASE DeleteUser  BY <1>1, <1>8, DropUserIs DEF Moves, FinalizeSteps
  <1> QED  BY <1>2, <1>3, <1>4, <1>5, <1>6, <1>7, <1>8 DEF IamStep

LEMMA WriteSecretIs ==
    ASSUME WorkerTypes, WriteSecret
    PROVE  /\ pc = "writeSecret" /\ FailuresKept
           /\ UNCHANGED <<claim, uids, secretCache, params, bucket, iamVars>>
           /\ \/ /\ secret' = secret /\ stray' = stray /\ Ends
                 /\ secretCache[cur] # secret[cur] \/ failures'.leak
              \/ /\ secret' = [secret EXCEPT ![cur] = cred] /\ stray' = stray \ {cur}
                 /\ secretCache[cur] = secret[cur]
                 /\ (Ends /\ failures'.leak) \/ (Moves({"updateStatus"}) /\ cred' = cred)
  <1>0. /\ pc = "writeSecret" /\ pc \in Leaks
        /\ UNCHANGED <<claim, uids, secretCache, params, bucket, iamVars>>
    BY DEF WriteSecret, Leaks
  <1>1. CASE UNCHANGED <<secret, stray>> /\ secretCache[cur] # secret[cur] /\ Refused
    BY <1>0, <1>1, RefusedIs DEF FailuresKept, WorkerTypes
  <1>2. CASE UNCHANGED <<secret, stray>> /\ Fail
    BY <1>0, <1>2, FailIs DEF FailuresKept
  <1>3. CASE /\ secretCache[cur] = secret[cur]
             /\ secret' = [secret EXCEPT ![cur] = cred]
             /\ stray' = stray \ {cur}
             /\ Goto("updateStatus") \/ Fail
    BY <1>0, <1>3, FailIs, GotoIs DEF FailuresKept, WorkerTypes
  <1> QED  BY <1>1, <1>2, <1>3 DEF WriteSecret

Bound(c) == [claim[c] EXCEPT !.observed = claim[c].gen, !.bucketName = TheBucket, !.secretRef = TRUE]

LEMMA UpdateStatusIs ==
    ASSUME WorkerTypes, ApiTypes, UpdateStatus
    PROVE  /\ pc = "updateStatus" /\ FailuresKept /\ Ends
           /\ UNCHANGED <<uids, secretVars, params, bucket, iamVars>>
           /\ (claim' = claim /\ failures'.leak) \/ claim' = [claim EXCEPT ![cur] = Bound(cur)]
  <1>1. CASE /\ claim' = [claim EXCEPT ![cur].observed = claim[cur].gen,
                                       ![cur].bucketName = TheBucket, ![cur].secretRef = TRUE]
             /\ Refused
    <2>1. claim' = [claim EXCEPT ![cur] = Bound(cur)]
      BY <1>1 DEF Bound, WorkerTypes, ApiTypes
    <2> QED  BY <1>1, <2>1, RefusedIs DEF UpdateStatus, FailuresKept, WorkerTypes
  <1>2. CASE UNCHANGED claim /\ Fail
    BY <1>2, FailIs DEF UpdateStatus, FailuresKept, WorkerTypes, Leaks
  <1> QED  BY <1>1, <1>2 DEF UpdateStatus

LEMMA RemoveFinalizerIs ==
    ASSUME WorkerTypes, RemoveFinalizer
    PROVE  /\ pc = "removeFinalizer" /\ FailuresKept /\ Ends
           /\ UNCHANGED <<uids, secret, secretCache, params, bucket, iamVars>>
           /\ \/ claim' = claim /\ stray' = stray
              \/ claim' = [claim EXCEPT ![cur] = NoClaim] /\ stray' = stray \cup {cur}
  BY FailIs, RefusedIs DEF RemoveFinalizer, FailuresKept, WorkerTypes
-----------------------------------------------------------------------------
(* AwsInv is inductive.                                                    *)

(* What others do leaves the pass alone.                                   *)
LEMMA OtherStepIs ==
    ASSUME WorkerTypes, OtherStep
    PROVE  UNCHANGED <<bucket, iamVars, workerVars>> /\ FailuresKept /\ params' \in Params
  <1>1. CASE EditClass
    <2>1. UNCHANGED <<bucket, iamVars, workerVars>> /\ Fault("class") /\ params' \in Params
      BY <1>1 DEF EditClass
    <2> QED  BY <2>1, FaultIs DEF FailuresKept
  <1>2. ASSUME NEW c \in Claims, DeleteSecret(c)
        PROVE  UNCHANGED <<bucket, iamVars, workerVars>> /\ FailuresKept /\ params' \in Params
    <2>1. UNCHANGED <<bucket, iamVars, workerVars>> /\ Fault("secret") /\ params' = params
      BY <1>2 DEF DeleteSecret
    <2> QED  BY <2>1, FaultIs DEF FailuresKept, WorkerTypes
  <1>3. ASSUME NEW c \in Claims, DeleteClaim(c) \/ CollectSecret(c) \/ SyncSecret(c)
        PROVE  UNCHANGED <<bucket, iamVars, workerVars>> /\ FailuresKept /\ params' \in Params
    BY <1>3 DEF DeleteClaim, CollectSecret, SyncSecret, FailuresKept, WorkerTypes
  <1>4. ASSUME NEW c \in Claims, NEW s \in Specs, CreateClaim(c, s) \/ EditClaim(c, s)
        PROVE  UNCHANGED <<bucket, iamVars, workerVars>> /\ FailuresKept /\ params' \in Params
    BY <1>4 DEF CreateClaim, EditClaim, FailuresKept, WorkerTypes
  <1> QED  BY <1>1, <1>2, <1>3, <1>4 DEF OtherStep

LEMMA EndsTyped ==
    ASSUME WorkerTypes, Ends, FailuresKept, params' = params
    PROVE  WorkerTypes'
  BY DEF WorkerTypes, Ends, FailuresKept, Steps

LEMMA MovesTyped ==
    ASSUME WorkerTypes, NEW S \in SUBSET Steps, Moves(S), FailuresKept, params' = params,
           cred' \in KeyIds \cup {NoKey}
    PROVE  WorkerTypes'
  BY DEF WorkerTypes, Moves, FailuresKept

(* StartProvision puts the finalizer on the claim.                         *)
Held(c) == [claim[c] EXCEPT !.finalizer = TRUE]

LEMMA StartProvisionIs ==
    ASSUME WorkerTypes, ApiTypes, NEW c \in Claims, StartProvision(c)
    PROVE  /\ pc = "idle" /\ claim[c] \in ClaimObject /\ claim[c] # NoClaim /\ ~claim[c].deleting
           /\ ~Settled(c)
           /\ claim' = [claim EXCEPT ![c] = Held(c)] /\ Held(c) \in ClaimObject
           /\ UNCHANGED <<uids, secretVars, params, bucket, iamVars, failures>>
           /\ \/ UNCHANGED workerVars
              \/ /\ pc' = "createBucket" /\ cur' = c /\ loc' = Held(c) /\ par' = params
                 /\ cred' = secretCache[c]
  <1>1. claim' = [claim EXCEPT ![c].finalizer = TRUE] /\ claim[c] # NoClaim
    BY DEF StartProvision
  <1>2. claim[c] \in ClaimObject  BY <1>1 DEF ApiTypes
  <1>3. Held(c) \in ClaimObject /\ claim'[c] = Held(c)  BY <1>1, <1>2 DEF Held, ClaimObject, ApiTypes
  <1>4. claim' = [claim EXCEPT ![c] = Held(c)]  BY <1>1 DEF Held, ApiTypes
  <1> QED  BY <1>1, <1>2, <1>3, <1>4 DEF StartProvision

LEMMA StartFinalizeIs ==
    ASSUME WorkerTypes, ApiTypes, NEW c \in Claims, StartFinalize(c)
    PROVE  /\ pc = "idle" /\ claim[c] \in ClaimObject /\ claim[c] # NoClaim /\ claim[c].deleting
           /\ UNCHANGED <<apiVars, bucket, iamVars, failures>>
           /\ pc' = "dropPolicy" /\ cur' = c /\ loc' = claim[c] /\ par' = params
           /\ cred' = KeyToRevoke(c) /\ KeyToRevoke(c) \in KeyIds \cup {NoKey}
  BY DEF StartFinalize, ApiTypes, KeyToRevoke

LEMMA StepsParts ==
    /\ ProvisionSteps \subseteq Steps /\ FinalizeSteps \subseteq Steps
    /\ ProvisionSteps \cap FinalizeSteps = {}
    /\ "idle" \notin ProvisionSteps /\ "idle" \notin FinalizeSteps
    /\ \A S : Moves(S) /\ S \subseteq Steps \ {"idle"} => pc' # "idle"
    /\ {"createBucket", "updateStatus", "writeSecret"} \subseteq ProvisionSteps
    /\ {"dropPolicy", "removeFinalizer", "deleteBucket"} \subseteq FinalizeSteps
  BY DEF Steps, ProvisionSteps, FinalizeSteps, SecuritySteps, GrantSteps, Moves

LEMMA WorkerTypesStep ==
    ASSUME WorkerTypes, ApiTypes, [Next]_vars
    PROVE  WorkerTypes'
  <1>1. CASE S3Step
    <2>1. cred \in KeyIds \cup {NoKey} /\ params' = params  BY <1>1, S3StepIs DEF WorkerTypes
    <2>2. \/ Ends
          \/ cred' = cred /\ Moves(ProvisionSteps \ {"writeSecret", "updateStatus"})
          \/ cred' = cred /\ Moves({"removeFinalizer"})
      BY <1>1, S3StepIs
    <2>3. ProvisionSteps \ {"writeSecret", "updateStatus"} \in SUBSET Steps /\ {"removeFinalizer"} \in SUBSET Steps
      BY StepsParts
    <2> QED  BY <1>1, <2>1, <2>2, <2>3, EndsTyped, MovesTyped, S3StepIs
  <1>2. CASE IamStep
    <2>1. cred \in KeyIds \cup {NoKey} /\ params' = params  BY <1>2, IamStepIs DEF WorkerTypes
    <2>2. \/ Ends
          \/ cred' \in KeyIds \cup {NoKey} /\ Moves(ProvisionSteps \ {"updateStatus"})
          \/ cred' \in KeyIds \cup {NoKey} /\ Moves(FinalizeSteps)
      BY <1>2, <2>1, IamStepIs
    <2>3. ProvisionSteps \ {"updateStatus"} \in SUBSET Steps /\ FinalizeSteps \in SUBSET Steps
      BY StepsParts
    <2> QED  BY <1>2, <2>1, <2>2, <2>3, EndsTyped, MovesTyped, IamStepIs
  <1>3. CASE WriteSecret
    <2>1. cred \in KeyIds \cup {NoKey} /\ {"updateStatus"} \in SUBSET Steps
      BY StepsParts DEF WorkerTypes
    <2> QED  BY <1>3, <2>1, WriteSecretIs, EndsTyped, MovesTyped
  <1>4. CASE UpdateStatus  BY <1>4, UpdateStatusIs, EndsTyped
  <1>5. CASE RemoveFinalizer  BY <1>5, RemoveFinalizerIs, EndsTyped
  <1>6. ASSUME NEW c \in Claims, StartProvision(c)  PROVE WorkerTypes'
    <2>1. "createBucket" \in Steps /\ secretCache[c] \in KeyIds \cup {NoKey}
      BY StepsParts DEF ApiTypes
    <2> QED  BY <1>6, <2>1, StartProvisionIs DEF WorkerTypes
  <1>7. ASSUME NEW c \in Claims, StartFinalize(c)  PROVE WorkerTypes'
    <2>1. "dropPolicy" \in Steps  BY StepsParts
    <2> QED  BY <1>7, <2>1, StartFinalizeIs DEF WorkerTypes
  <1>8. CASE OtherStep  BY <1>8, OtherStepIs DEF WorkerTypes, FailuresKept
  <1>9. CASE UNCHANGED vars  BY <1>9 DEF vars, WorkerTypes
  <1> QED  BY <1>1, <1>2, <1>3, <1>4, <1>5, <1>6, <1>7, <1>8, <1>9, NextIs

(* What users make of a claim.                                             *)
NewClaim(s) == [gen |-> 1, spec |-> s, deleting |-> FALSE, finalizer |-> FALSE, observed |-> 0,
                bucketName |-> s.bucket, secretRef |-> FALSE]
Edited(c, s) == [claim[c] EXCEPT !.spec = s, !.gen = claim[c].gen + 1]
Doomed(c) == [claim[c] EXCEPT !.deleting = TRUE]

LEMMA SpecFacts ==
    /\ NoClaim \notin ClaimObject
    /\ \A s \in Specs : s \in SpecType /\ s.bucket \in Names
  BY AwsAssumption DEF SpecType

LEMMA CreateClaimIs ==
    ASSUME ApiTypes, NEW c \in Claims, NEW s \in Specs, CreateClaim(c, s)
    PROVE  /\ claim[c] = NoClaim /\ NewClaim(s) \in ClaimObject /\ NewClaim(s) # NoClaim
           /\ claim' = [claim EXCEPT ![c] = NewClaim(s)]
           /\ uids' = [uids EXCEPT ![c] = uids[c] + 1] /\ UNCHANGED <<secretVars, failures>>
  <1>1. s.bucket \in Names  BY SpecFacts
  <1>2. NewClaim(s) \in ClaimObject  BY <1>1 DEF NewClaim, ClaimObject
  <1>3. claim' = [claim EXCEPT ![c] = NewClaim(s)]  BY DEF CreateClaim, NewClaim
  <1> QED  BY <1>2, <1>3, SpecFacts DEF CreateClaim

LEMMA EditClaimIs ==
    ASSUME ApiTypes, NEW c \in Claims, NEW s \in Specs, EditClaim(c, s)
    PROVE  /\ claim[c] # NoClaim /\ claim[c] \in ClaimObject /\ ~claim[c].deleting
           /\ Edited(c, s) \in ClaimObject /\ Edited(c, s) # NoClaim
           /\ claim' = [claim EXCEPT ![c] = Edited(c, s)]
           /\ claim[c].gen < MaxGen /\ UNCHANGED <<uids, secretVars, failures>>
  <1>1. claim[c] # NoClaim /\ claim[c] \in ClaimObject /\ ~claim[c].deleting /\ claim[c].gen < MaxGen
        /\ UNCHANGED <<uids, secretVars, failures>>
    BY DEF EditClaim, ApiTypes
  <1>2. Edited(c, s) \in ClaimObject /\ Edited(c, s) # NoClaim
    <2>1. claim[c].gen + 1 \in Nat  BY <1>1 DEF ClaimObject
    <2>2. Edited(c, s) \in ClaimObject  BY <1>1, <2>1 DEF Edited, ClaimObject
    <2> QED  BY <2>2, SpecFacts
  <1>3. claim' = [claim EXCEPT ![c] = Edited(c, s)]  BY DEF EditClaim, Edited, ApiTypes
  <1> QED  BY <1>1, <1>2, <1>3

LEMMA DeleteClaimIs ==
    ASSUME ApiTypes, NEW c \in Claims, DeleteClaim(c)
    PROVE  /\ claim[c] # NoClaim /\ claim[c] \in ClaimObject /\ ~claim[c].deleting
           /\ Doomed(c) \in ClaimObject /\ Doomed(c) # NoClaim
           /\ \/ claim[c].finalizer = TRUE /\ claim' = [claim EXCEPT ![c] = Doomed(c)]
              \/ claim[c].finalizer = FALSE /\ claim' = [claim EXCEPT ![c] = NoClaim]
           /\ UNCHANGED <<uids, secretVars, failures>>
  <1>1. claim[c] # NoClaim /\ claim[c] \in ClaimObject /\ ~claim[c].deleting
        /\ UNCHANGED <<uids, secretVars, failures>>
    BY DEF DeleteClaim, ApiTypes
  <1>2. Doomed(c) \in ClaimObject /\ Doomed(c) # NoClaim /\ claim[c].finalizer \in BOOLEAN
    BY <1>1, AwsAssumption DEF Doomed, ClaimObject
  <1>3. CASE claim[c].finalizer = TRUE
    BY <1>1, <1>2, <1>3 DEF DeleteClaim, Doomed
  <1>4. CASE claim[c].finalizer = FALSE
    BY <1>1, <1>2, <1>4 DEF DeleteClaim, Doomed
  <1> QED  BY <1>2, <1>3, <1>4

LEMMA SecretsIs ==
    ASSUME ApiTypes, NEW c \in Claims, DeleteSecret(c) \/ CollectSecret(c) \/ SyncSecret(c)
    PROVE  /\ UNCHANGED <<claim, uids>> /\ stray' \subseteq stray
           /\ \/ /\ secret' = [secret EXCEPT ![c] = NoKey] /\ secretCache' = secretCache
                 /\ CollectSecret(c) \/ Fault("secret")
              \/ secret' = secret /\ secretCache' = [secretCache EXCEPT ![c] = secret[c]]
  BY DEF DeleteSecret, CollectSecret, SyncSecret

LEMMA ApiTypesStep ==
    ASSUME WorkerTypes, ApiTypes, PassFits, [Next]_vars
    PROVE  ApiTypes'
  <1>1. CASE UNCHANGED apiVars  BY <1>1 DEF ApiTypes
  <1>2. CASE S3Step \/ IamStep  BY <1>1, <1>2, S3StepIs, IamStepIs
  <1>3. CASE WriteSecret
    <2>1. cur \in Claims /\ cred \in KeyIds \cup {NoKey}  BY DEF WorkerTypes
    <2> QED  BY <1>3, <2>1, WriteSecretIs DEF ApiTypes
  <1>4. CASE UpdateStatus
    <2>1. cur \in Claims /\ claim[cur] \in ClaimObject /\ loc \in ClaimObject
      BY <1>4, UpdateStatusIs DEF WorkerTypes, ApiTypes, PassFits
    <2>2. Bound(cur) \in ClaimObject
      BY <2>1, AwsAssumption DEF Bound, ClaimObject, TheBucket, SpecType
    <2> QED  BY <1>4, <2>1, <2>2, UpdateStatusIs DEF ApiTypes
  <1>5. CASE RemoveFinalizer  BY <1>5, RemoveFinalizerIs DEF ApiTypes, WorkerTypes
  <1>6. ASSUME NEW c \in Claims, StartProvision(c)  PROVE ApiTypes'
    BY <1>6, StartProvisionIs DEF ApiTypes
  <1>7. ASSUME NEW c \in Claims, StartFinalize(c)  PROVE ApiTypes'
    BY <1>1, <1>7, StartFinalizeIs
  <1>8. CASE OtherStep
    <2>1. ASSUME NEW c \in Claims, DeleteClaim(c)  PROVE ApiTypes'
      BY <2>1, DeleteClaimIs DEF ApiTypes
    <2>2. ASSUME NEW c \in Claims, DeleteSecret(c) \/ CollectSecret(c) \/ SyncSecret(c)
          PROVE  ApiTypes'
      BY <2>2, SecretsIs DEF ApiTypes
    <2>3. ASSUME NEW c \in Claims, NEW s \in Specs, CreateClaim(c, s)  PROVE ApiTypes'
      BY <2>3, CreateClaimIs DEF ApiTypes
    <2>4. ASSUME NEW c \in Claims, NEW s \in Specs, EditClaim(c, s)  PROVE ApiTypes'
      BY <2>4, EditClaimIs DEF ApiTypes
    <2>5. CASE EditClass  BY <2>5 DEF EditClass, ApiTypes
    <2> QED  BY <1>8, <2>1, <2>2, <2>3, <2>4, <2>5 DEF OtherStep
  <1>9. CASE UNCHANGED vars  BY <1>1, <1>9 DEF vars
  <1> QED  BY <1>2, <1>3, <1>4, <1>5, <1>6, <1>7, <1>8, <1>9, NextIs

LEMMA BucketTypesStep ==
    ASSUME WorkerTypes, PassFits, BucketTypes, [Next]_vars
    PROVE  BucketTypes'
  <1>1. CASE bucket' = bucket  BY <1>1 DEF BucketTypes
  <1>2. ASSUME NEW n \in Names, NEW v \in BucketState, bucket' = [bucket EXCEPT ![n] = v]
        PROVE  BucketTypes'
    BY <1>2 DEF BucketTypes
  <1>3. ASSUME pc # "idle"
        PROVE  /\ TheBucket \in Names /\ DoomedName \in Names /\ bucket[TheBucket] \in BucketState
               /\ par \in ParamType /\ loc.spec \in SpecType
    BY <1>3, AwsAssumption
    DEF PassFits, ClaimObject, TheBucket, DoomedName, SpecType, BucketTypes, WorkerTypes
  <1>4. FreshBucket("us") \in BucketState /\ FreshBucket("nobody") \in BucketState
    BY DEF FreshBucket, BucketState, Owners
  <1>5. ASSUME NEW on \in BOOLEAN, NEW next, NEW v, bucket' # bucket => v \in BucketState, pc # "idle",
               Configures(on, v, next)
        PROVE  BucketTypes'
    BY <1>1, <1>2, <1>3, <1>5 DEF Configures
  <1>6. CASE CreateBucket
    BY <1>1, <1>2, <1>3, <1>4, <1>6, CreateBucketIs
  <1>7. CASE ReadFlags  BY <1>1, <1>7, FlagsIs
  <1>8. CASE DeleteBucket  BY <1>1, <1>2, <1>3, <1>4, <1>8, DeleteBucketIs
  <1>9. CASE PutPublicAccessBlock
    <2>1. pc # "idle" /\ Configures(Block(par) = "on", WithBlock, "acls")  BY <1>9, BlockIs
    <2>2. WithBlock \in BucketState  BY <1>3, <2>1 DEF WithBlock, BucketState
    <2> QED  BY <1>5, <2>1, <2>2
  <1>10. CASE PutBucketOwnershipControls
    <2>1. pc # "idle" /\ Configures(DisableAcls(par) = "on", WithAcls, "encrypt")  BY <1>10, AclsIs
    <2>2. WithAcls \in BucketState  BY <1>3, <2>1 DEF WithAcls, BucketState
    <2> QED  BY <1>5, <2>1, <2>2
  <1>11. CASE PutBucketEncryption
    <2>1. pc # "idle" /\ Configures(Encryption(par) # "NONE", WithEnc, "bucketPolicy")
      BY <1>11, EncryptIs
    <2>2. bucket' # bucket => EncryptionValid(par)  BY <1>11, EncryptIs
    <2>3. EncryptionValid(par) => Encryption(par) \in {"NONE", "SSE-S3", "SSE-KMS"}
      BY Zenon DEF EncryptionValid
    <2>4. bucket' # bucket => WithEnc \in BucketState
      BY <1>3, <2>1, <2>2, <2>3 DEF WithEnc, BucketState
    <2> QED  BY <1>5, <2>1, <2>4
  <1>12. CASE PutBucketPolicy
    <2>1. pc # "idle" /\ Configures(HasPolicy(par), WithPolicy, "lifecycle")  BY <1>12, PolicyIs
    <2>2. par.doc.st \in Seq(Statements \cup {Deny})
      <3>1. par.doc.st \in Seq(Statements)  BY <1>3, <2>1 DEF ParamType
      <3> QED  BY <3>1
    <2>3. BaseStatements(TlsOnly(par)) \in Seq(Statements \cup {Deny})
      <3>1. <<Deny>> \in Seq(Statements \cup {Deny}) /\ << >> \in Seq(Statements \cup {Deny})
        OBVIOUS
      <3> QED  BY <3>1 DEF BaseStatements
    <2>4. Merge(BaseStatements(TlsOnly(par)), par.doc) \in Seq(Statements \cup {Deny})
      BY <2>2, <2>3, ConcatProperties DEF Merge
    <2>5. WithPolicy \in BucketState  BY <1>3, <2>1, <2>4 DEF WithPolicy, BucketState
    <2>6. HasPolicy(par) \in BOOLEAN  BY DEF HasPolicy
    <2> QED  BY <1>5, <2>1, <2>5, <2>6
  <1>13. CASE SetBucketLifecycle
    <2>1. pc # "idle" /\ Configures(loc.spec.rules # "none", WithRules, "createUser")
      BY <1>13, RulesIs
    <2>2. WithRules \in BucketState  BY <1>3, <2>1 DEF WithRules, BucketState
    <2> QED  BY <1>5, <2>1, <2>2
  <1>14. \/ S3Step \/ bucket' = bucket
    BY NextIs, IamStepIs, OtherStepIs
    DEF WriteSecret, UpdateStatus, RemoveFinalizer, StartProvision, StartFinalize, vars
  <1> QED
    BY <1>1, <1>6, <1>7, <1>8, <1>9, <1>10, <1>11, <1>12, <1>13, <1>14 DEF S3Step

LEMMA TheUserType == ASSUME WorkerTypes PROVE TheUser \in Users
  BY AwsAssumption DEF WorkerTypes, TheUser

LEMMA IamTypesStep ==
    ASSUME WorkerTypes, PassFits, IamTypes, [Next]_vars
    PROVE  IamTypes'
  <1>0. TheUser \in Users  BY TheUserType
  <1>1. CASE UNCHANGED iamVars  BY <1>1 DEF IamTypes
  <1>2. ASSUME NEW v \in BOOLEAN, user' = [user EXCEPT ![TheUser] = v], UNCHANGED <<grants, keys>>
        PROVE  IamTypes'
    BY <1>0, <1>2 DEF IamTypes
  <1>3. ASSUME NEW v \in SUBSET Grant, grants' = [grants EXCEPT ![TheUser] = v], UNCHANGED <<user, keys>>
        PROVE  IamTypes'
    BY <1>0, <1>3 DEF IamTypes
  <1>4. ASSUME NEW v \in SUBSET KeyIds, keys' = [keys EXCEPT ![TheUser] = v], UNCHANGED <<user, grants>>,
               IsFiniteSet(v), Cardinality(v) <= KeyQuota,
               \A w \in Users : w # TheUser => v \cap keys[w] = {}
        PROVE  IamTypes'
    <2>1. keys' \in [Users -> SUBSET KeyIds]  BY <1>4 DEF IamTypes
    <2>2. \A u \in Users : IsFiniteSet(keys'[u]) /\ Cardinality(keys'[u]) <= KeyQuota
      BY <1>4 DEF IamTypes
    <2>3. \A u, w \in Users : u # w => keys'[u] \cap keys'[w] = {}
      BY <1>0, <1>4 DEF IamTypes
    <2> QED  BY <1>4, <2>1, <2>2, <2>3 DEF IamTypes
  <1>5. IsFiniteSet(keys[TheUser]) /\ Cardinality(keys[TheUser]) <= KeyQuota
        /\ keys[TheUser] \in SUBSET KeyIds /\ grants[TheUser] \in SUBSET Grant
        /\ \A w \in Users : w # TheUser => keys[TheUser] \cap keys[w] = {}
    BY <1>0 DEF IamTypes
  <1>6. Cardinality(keys[TheUser]) \in Nat  BY <1>5, FS_CardinalityType
  <1>7. ASSUME NEW left \in SUBSET keys[TheUser], keys' = [keys EXCEPT ![TheUser] = left],
               UNCHANGED <<user, grants>>
        PROVE  IamTypes'
    <2>1. IsFiniteSet(left) /\ Cardinality(left) <= Cardinality(keys[TheUser])
      BY <1>5, <1>7, FS_Subset
    <2>2. Cardinality(left) \in Nat  BY <2>1, FS_CardinalityType
    <2>3. Cardinality(left) <= KeyQuota  BY <1>5, <1>6, <2>1, <2>2 DEF KeyQuota
    <2>4. left \in SUBSET KeyIds  BY <1>5
    <2>5. \A w \in Users : w # TheUser => left \cap keys[w] = {}  BY <1>5
    <2> QED  BY <1>4, <1>7, <2>1, <2>3, <2>4, <2>5
  <1>8. CASE CreateUser  BY <1>1, <1>2, <1>8, CreateUserIs
  <1>9. CASE PutUserPolicy
    <2>1. loc \in ClaimObject  BY <1>9, PutUserPolicyIs DEF PassFits
    <2>2. TheGrant \in Grant
      BY <2>1, AwsAssumption DEF TheGrant, TheBucket, Grant, ClaimObject, SpecType
    <2>3. WithGrant(grants[TheUser], TheGrant) \in SUBSET Grant  BY <1>5, <2>2 DEF WithGrant
    <2> QED  BY <1>1, <1>3, <1>9, <2>3, PutUserPolicyIs
  <1>10. CASE CreateAccessKey
    <2>1. ASSUME NEW k \in KeyIds, Unused(k), Cardinality(keys[TheUser]) < KeyQuota,
                 keys' = [keys EXCEPT ![TheUser] = keys[TheUser] \cup {k}], UNCHANGED <<user, grants>>
          PROVE  IamTypes'
      <3>1. /\ IsFiniteSet(keys[TheUser] \cup {k})
            /\ Cardinality(keys[TheUser] \cup {k})
                 \in {Cardinality(keys[TheUser]), Cardinality(keys[TheUser]) + 1}
        BY <1>5, FS_AddElement
      <3>2. Cardinality(keys[TheUser] \cup {k}) <= KeyQuota  BY <1>6, <2>1, <3>1 DEF KeyQuota
      <3>3. keys[TheUser] \cup {k} \in SUBSET KeyIds  BY <1>5
      <3>4. \A w \in Users : w # TheUser => (keys[TheUser] \cup {k}) \cap keys[w] = {}
        BY <1>5, <2>1 DEF Unused
      <3> QED  BY <1>4, <2>1, <3>1, <3>2, <3>3, <3>4
    <2> QED  BY <1>1, <1>10, <2>1, CreateKeyIs
  <1>11. CASE DeleteOldKeys  BY <1>7, <1>11, DeleteOldKeysIs
  <1>12. CASE DeleteUserPolicy
    <2>1. {g \in grants[TheUser] : g.bucket # DoomedName} \in SUBSET Grant  BY <1>5
    <2> QED  BY <1>1, <1>3, <1>12, <2>1, DropPolicyIs
  <1>13. CASE DeleteAccessKeys  BY <1>7, <1>13, DropKeysIs
  <1>14. CASE DeleteUser
    <2> DEFINE v == user[TheUser] /\ (keys[TheUser] # {} \/ grants[TheUser] # {})
    <2>1. v \in BOOLEAN  OBVIOUS
    <2>2. \/ UNCHANGED iamVars
          \/ user' = [user EXCEPT ![TheUser] = v] /\ UNCHANGED <<grants, keys>>
      BY <1>14, DropUserIs
    <2> HIDE DEF v
    <2> QED  BY <1>1, <1>2, <2>1, <2>2
  <1>15. IamStep \/ UNCHANGED iamVars
    BY NextIs, S3StepIs, OtherStepIs
    DEF WriteSecret, UpdateStatus, RemoveFinalizer, StartProvision, StartFinalize, vars
  <1> QED
    BY <1>1, <1>8, <1>9, <1>10, <1>11, <1>12, <1>13, <1>14, <1>15 DEF IamStep

(* A pass that ends leaves nothing to be asked of it.                      *)
LEMMA EndsFit ==
    ASSUME PassFits, pc' = "idle", \A c \in Claims : Sane(claim'[c])
    PROVE  PassFits'
  BY StepsParts DEF PassFits

LEMMA MovesFit ==
    ASSUME WorkerTypes, PassFits, NEW S,
           (pc \in ProvisionSteps /\ S \subseteq ProvisionSteps)
           \/ (pc \in FinalizeSteps /\ S \subseteq FinalizeSteps),
           Moves(S), claim' = claim
    PROVE  PassFits'
  BY StepsParts DEF PassFits, Moves, Settled

(* A change to a claim that keeps one that is worked on in place, and      *)
(* unsettled or under deletion.                                            *)
LEMMA ChangeFits ==
    ASSUME WorkerTypes, ApiTypes, PassFits, NEW c \in Claims, NEW v \in ClaimObject \cup {NoClaim},
           claim' = [claim EXCEPT ![c] = v], UNCHANGED workerVars,
           Sane(v),
           pc # "idle" /\ c = cur =>
              /\ v # NoClaim /\ v.finalizer = TRUE
              /\ claim[c].deleting = TRUE => v.deleting = TRUE
              /\ v.deleting = TRUE \/ v.observed # v.gen
    PROVE  PassFits'
  <1>1. /\ \A d \in Claims : d # c => claim'[d] = claim[d]
        /\ claim'[c] = v /\ cur \in Claims /\ pc' = pc /\ cur' = cur /\ loc' = loc
    BY DEF ApiTypes, WorkerTypes
  <1>2. CASE c = cur
    <2>1. ASSUME pc # "idle" PROVE ~Settled(cur)'  BY <1>1, <1>2, <2>1 DEF Settled
    <2> QED  BY <1>1, <1>2, <2>1, StepsParts DEF PassFits
  <1>3. CASE c # cur
    <2>1. Settled(cur)' = Settled(cur)  BY <1>1, <1>3 DEF Settled
    <2> QED  BY <1>1, <1>3, <2>1 DEF PassFits
  <1> QED  BY <1>2, <1>3

LEMMA PassFitsStep ==
    ASSUME WorkerTypes, ApiTypes, PassFits, [Next]_vars
    PROVE  PassFits'
  <1>0. /\ cur \in Claims /\ claim \in [Claims -> ClaimObject \cup {NoClaim}] /\ pc \in Steps
        /\ \A c \in Claims : Sane(claim[c])
    BY DEF WorkerTypes, ApiTypes, PassFits
  <1> USE DEF Sane
  <1>1. CASE S3Step
    <2>1. claim' = claim  BY <1>1, S3StepIs
    <2>2. CASE Ends  BY <1>0, <2>1, <2>2, EndsFit DEF Ends
    <2>3. CASE pc \in ProvisionSteps /\ Moves(ProvisionSteps \ {"writeSecret", "updateStatus"})
      BY <2>1, <2>3, MovesFit
    <2>4. CASE pc = "deleteBucket" /\ Moves({"removeFinalizer"})
      BY <2>1, <2>4, MovesFit, StepsParts
    <2> QED  BY <1>1, <2>2, <2>3, <2>4, S3StepIs
  <1>2. CASE IamStep
    <2>1. claim' = claim  BY <1>2, IamStepIs
    <2>2. CASE Ends  BY <1>0, <2>1, <2>2, EndsFit DEF Ends
    <2>3. CASE pc \in ProvisionSteps /\ Moves(ProvisionSteps \ {"updateStatus"})
      BY <2>1, <2>3, MovesFit
    <2>4. CASE pc \in FinalizeSteps /\ Moves(FinalizeSteps)
      BY <2>1, <2>4, MovesFit
    <2> QED  BY <1>2, <2>2, <2>3, <2>4, IamStepIs
  <1>3. CASE WriteSecret
    <2>1. CASE Ends  BY <1>0, <1>3, <2>1, WriteSecretIs, EndsFit DEF Ends
    <2>2. CASE Moves({"updateStatus"})  BY <1>3, <2>2, WriteSecretIs, MovesFit, StepsParts
    <2> QED  BY <1>3, <2>1, <2>2, WriteSecretIs
  <1>4. CASE UpdateStatus
    <2>1. claim[cur] \in ClaimObject  BY <1>0, <1>4, UpdateStatusIs DEF PassFits
    <2>2. /\ Bound(cur).observed = Bound(cur).gen /\ Bound(cur).gen \in Nat
          /\ Bound(cur).deleting = claim[cur].deleting /\ Bound(cur).finalizer = claim[cur].finalizer
      BY <2>1 DEF Bound, ClaimObject
    <2>3. \A c \in Claims : Sane(claim'[c])
      <3>1. Sane(Bound(cur))  BY <1>0, <1>4, <2>1, <2>2, SpecFacts
      <3> HIDE DEF Sane
      <3> QED  BY <1>0, <1>4, <3>1, UpdateStatusIs
    <2> QED  BY <1>4, <2>3, UpdateStatusIs, EndsFit DEF Ends
  <1>5. CASE RemoveFinalizer
    <2>1. \A c \in Claims : Sane(claim'[c])
      BY <1>0, <1>5, RemoveFinalizerIs
    <2> QED  BY <1>5, <2>1, RemoveFinalizerIs, EndsFit DEF Ends
  <1>6. ASSUME NEW c \in Claims, StartProvision(c)  PROVE PassFits'
    <2>1. /\ Held(c).observed = claim[c].observed /\ Held(c).gen = claim[c].gen
          /\ Held(c).finalizer = TRUE /\ Held(c).deleting = claim[c].deleting
          /\ Held(c) \in ClaimObject /\ Held(c) # NoClaim
      BY <1>6, StartProvisionIs, SpecFacts DEF Held, ClaimObject
    <2>2. claim' = [claim EXCEPT ![c] = Held(c)] /\ pc = "idle" /\ claim[c] # NoClaim /\ ~Settled(c)
      BY <1>6, StartProvisionIs
    <2>3. CASE UNCHANGED workerVars
      BY <1>0, <2>1, <2>2, <2>3, ChangeFits
    <2>4. CASE pc' = "createBucket" /\ cur' = c /\ loc' = Held(c)
      <3>1. \A d \in Claims : Sane(claim'[d])
        BY <1>0, <2>1, <2>2
      <3>2. claim'[c] = Held(c)  BY <1>0, <2>2
      <3>3. ~Settled(cur)'  BY <2>1, <2>2, <2>4, <3>2 DEF Settled
      <3> QED  BY <2>1, <2>4, <3>1, <3>2, <3>3, StepsParts DEF PassFits
    <2> QED  BY <1>6, <2>3, <2>4, StartProvisionIs
  <1>7. ASSUME NEW c \in Claims, StartFinalize(c)  PROVE PassFits'
    <2>1. /\ claim[c] \in ClaimObject /\ claim[c] # NoClaim /\ claim[c].deleting = TRUE /\ claim' = claim
          /\ pc' = "dropPolicy" /\ cur' = c /\ loc' = claim[c]
      <3>1. claim[c] \in ClaimObject /\ claim[c].deleting  BY <1>7, StartFinalizeIs
      <3>2. claim[c].deleting \in BOOLEAN  BY <3>1 DEF ClaimObject
      <3> QED  BY <1>7, <3>1, <3>2, StartFinalizeIs
    <2>2. claim[c].finalizer = TRUE  BY <1>7, <2>1 DEF PassFits
    <2> QED  BY <1>0, <2>1, <2>2, StepsParts DEF PassFits
  <1>8. CASE OtherStep
    <2>0. UNCHANGED workerVars  BY <1>8, OtherStepIs
    <2>1. ASSUME NEW c \in Claims, DeleteClaim(c)  PROVE PassFits'
      <3>1. /\ claim[c] # NoClaim /\ claim[c] \in ClaimObject
            /\ Doomed(c).observed = claim[c].observed /\ Doomed(c).gen = claim[c].gen
            /\ Doomed(c).finalizer = claim[c].finalizer /\ Doomed(c).deleting = TRUE
            /\ Doomed(c) \in ClaimObject
        BY <2>1, DeleteClaimIs DEF Doomed, ClaimObject
      <3>2. CASE claim[c].finalizer = TRUE /\ claim' = [claim EXCEPT ![c] = Doomed(c)]
        BY <1>0, <2>0, <2>1, <3>1, <3>2, ChangeFits, DeleteClaimIs
      <3>3. CASE claim[c].finalizer = FALSE /\ claim' = [claim EXCEPT ![c] = NoClaim]
        <4>1. ~(pc # "idle" /\ c = cur)  BY <3>3 DEF PassFits
        <4> QED  BY <2>0, <3>3, <4>1, ChangeFits
      <3> QED  BY <2>1, <3>2, <3>3, DeleteClaimIs
    <2>2. ASSUME NEW c \in Claims, DeleteSecret(c) \/ CollectSecret(c) \/ SyncSecret(c)
          PROVE  PassFits'
      BY <2>0, <2>2, SecretsIs DEF PassFits, Settled
    <2>3. ASSUME NEW c \in Claims, NEW s \in Specs, CreateClaim(c, s)  PROVE PassFits'
      <3>1. ~(pc # "idle" /\ c = cur)  BY <2>3, CreateClaimIs DEF PassFits
      <3>2. NewClaim(s).observed <= NewClaim(s).gen /\ NewClaim(s).deleting = FALSE  BY DEF NewClaim
      <3> QED  BY <2>0, <2>3, <3>1, <3>2, CreateClaimIs, ChangeFits
    <2>4. ASSUME NEW c \in Claims, NEW s \in Specs, EditClaim(c, s)  PROVE PassFits'
      <3>1. /\ Edited(c, s).observed = claim[c].observed /\ Edited(c, s).gen = claim[c].gen + 1
            /\ Edited(c, s).finalizer = claim[c].finalizer /\ Edited(c, s).deleting = claim[c].deleting
            /\ claim[c].gen \in Nat /\ claim[c].observed \in Nat /\ claim[c].observed <= claim[c].gen
        BY <1>0, <2>4, EditClaimIs DEF Edited, ClaimObject
      <3>2. /\ Edited(c, s) \in ClaimObject /\ claim' = [claim EXCEPT ![c] = Edited(c, s)]
            /\ Edited(c, s) # NoClaim
        BY <2>4, EditClaimIs
      <3>3. pc # "idle" /\ c = cur => claim[c].finalizer = TRUE  BY DEF PassFits
      <3>4. Edited(c, s).observed # Edited(c, s).gen /\ Edited(c, s).observed <= Edited(c, s).gen
        BY <3>1
      <3>5. Sane(Edited(c, s))  BY <1>0, <2>4, <3>1, <3>4, EditClaimIs
      <3> HIDE DEF Sane
      <3> QED  BY <2>0, <3>1, <3>2, <3>3, <3>4, <3>5, ChangeFits
    <2>5. CASE EditClass  BY <2>0, <2>5 DEF EditClass, PassFits, Settled
    <2> QED  BY <1>8, <2>1, <2>2, <2>3, <2>4, <2>5 DEF OtherStep
  <1>9. CASE UNCHANGED vars  BY <1>9 DEF vars, PassFits, Settled
  <1> QED  BY <1>1, <1>2, <1>3, <1>4, <1>5, <1>6, <1>7, <1>8, <1>9, NextIs

LEMMA AwsInit == ASSUME Init PROVE AwsInv
  <1>1. WorkerTypes  BY AwsAssumption DEF Init, WorkerTypes, Steps
  <1>2. ApiTypes  BY DEF Init, ApiTypes
  <1>3. BucketTypes  BY DEF Init, BucketTypes, FreshBucket, BucketState, Owners
  <1>4. IamTypes
    BY FS_EmptySet DEF Init, IamTypes, KeyQuota
  <1>5. PassFits  BY StepsParts DEF Init, PassFits, Sane
  <1> QED  BY <1>1, <1>2, <1>3, <1>4, <1>5 DEF AwsInv

LEMMA AwsStep == ASSUME AwsInv, [Next]_vars PROVE AwsInv'
  BY WorkerTypesStep, ApiTypesStep, BucketTypesStep, IamTypesStep, PassFitsStep DEF AwsInv

(* The inductive invariant of the AWS backend: types, the quota of keys,   *)
(* and a pass that fits the claim it works on.                             *)
THEOREM AwsPassesFit == Spec => []AwsInv
  <1>1. Init => AwsInv  BY AwsInit
  <1>2. AwsInv /\ [Next]_vars => AwsInv'  BY AwsStep
  <1> QED  BY <1>1, <1>2, PTL DEF Spec

(* Every variable keeps its type, and no user ever has more keys than IAM  *)
(* allows, however passes are interrupted and repeated.                    *)
THEOREM AwsTypeCorrect == Spec => []TypeOK
  <1>1. AwsInv => TypeOK
    BY DEF AwsInv, WorkerTypes, ApiTypes, BucketTypes, IamTypes, TypeOK
  <1> QED  BY <1>1, AwsPassesFit, PTL
-----------------------------------------------------------------------------
(* Protections.                                                            *)

AfterRules   == GrantSteps \cup {"writeSecret", "updateStatus"}
AfterPolicy  == {"lifecycle"} \cup AfterRules
AfterEncrypt == {"bucketPolicy"} \cup AfterPolicy
AfterAcls    == {"encrypt"} \cup AfterEncrypt
AfterBlock   == {"acls"} \cup AfterAcls
AfterFlags   == {"block"} \cup AfterBlock

(* What a pass has made sure of by the time it has come to a step: the     *)
(* settings the class asks for are on the bucket, and wherever it asks for *)
(* one the bucket is ours.                                                 *)
Secured ==
    /\ pc \in AfterFlags => FlagsValid(par)
    /\ pc \in AfterBlock /\ Block(par) = "on" =>
          bucket[TheBucket].block = TRUE /\ bucket[TheBucket].owner = "us"
    /\ pc \in AfterAcls /\ DisableAcls(par) = "on" =>
          bucket[TheBucket].acls = TRUE /\ bucket[TheBucket].owner = "us"
    /\ pc \in AfterEncrypt => EncryptionValid(par)
    /\ pc \in AfterEncrypt /\ Encryption(par) # "NONE" =>
          bucket[TheBucket].enc = Encryption(par) /\ bucket[TheBucket].owner = "us"
    /\ pc \in AfterPolicy /\ HasPolicy(par) =>
          /\ PolicyValid(par) /\ bucket[TheBucket].owner = "us"
          /\ bucket[TheBucket].policy = Merge(BaseStatements(TlsOnly(par)), par.doc)

LEMMA AfterParts ==
    /\ \A S \in {AfterFlags, AfterBlock, AfterAcls, AfterEncrypt, AfterPolicy} :
          {"idle", "createBucket", "flags"} \cap S = {} /\ FinalizeSteps \cap S = {} /\ AfterRules \subseteq S
    /\ "block" \notin AfterBlock /\ "acls" \notin AfterAcls /\ "encrypt" \notin AfterEncrypt
    /\ "bucketPolicy" \notin AfterPolicy
    /\ "block" \in AfterFlags
    /\ "acls" \in AfterFlags \cap AfterBlock
    /\ "encrypt" \in AfterFlags \cap AfterBlock \cap AfterAcls
    /\ "bucketPolicy" \in AfterFlags \cap AfterBlock \cap AfterAcls \cap AfterEncrypt
    /\ {"lifecycle", "createUser"} \subseteq AfterFlags \cap AfterBlock \cap AfterAcls \cap AfterEncrypt \cap AfterPolicy
    /\ AfterRules \cap FinalizeSteps = {} /\ "idle" \notin AfterRules
  BY DEF AfterRules, AfterPolicy, AfterEncrypt, AfterAcls, AfterBlock, AfterFlags, GrantSteps, FinalizeSteps

LEMMA IamMoves ==
    ASSUME WorkerTypes, IamStep
    PROVE  \/ Ends
           \/ pc \in AfterRules /\ Moves(AfterRules)
           \/ Moves(FinalizeSteps)
  <1>1. CASE CreateUser  BY <1>1, CreateUserIs DEF Moves, AfterRules, GrantSteps
  <1>2. CASE PutUserPolicy  BY <1>2, PutUserPolicyIs DEF Moves, AfterRules, GrantSteps
  <1>3. CASE CreateAccessKey  BY <1>3, CreateKeyIs DEF Moves, AfterRules, GrantSteps
  <1>4. CASE DeleteOldKeys  BY <1>4, DeleteOldKeysIs DEF Moves, AfterRules, GrantSteps
  <1>5. CASE DeleteUserPolicy  BY <1>5, DropPolicyIs DEF Moves, FinalizeSteps
  <1>6. CASE DeleteAccessKeys  BY <1>6, DropKeysIs DEF Moves, FinalizeSteps
  <1>7. CASE DeleteUser  BY <1>7, DropUserIs DEF Moves, FinalizeSteps
  <1> QED  BY <1>1, <1>2, <1>3, <1>4, <1>5, <1>6, <1>7 DEF IamStep

LEMMA SecuredElsewhere ==
    ASSUME pc' \in {"idle", "createBucket", "flags"} \cup FinalizeSteps
    PROVE  Secured'
  BY AfterParts DEF Secured

LEMMA SecuredStays ==
    ASSUME Secured, UNCHANGED <<bucket, loc, par>>,
           pc' = pc \/ (pc \in AfterRules /\ pc' \in AfterRules)
    PROVE  Secured'
  BY AfterParts DEF Secured, TheBucket

(* After a setting that succeeds.                                          *)
LEMMA ConfiguredIs ==
    ASSUME BucketTypes, TheBucket \in Names, NEW on \in BOOLEAN, NEW v, NEW next, Configures(on, v, next)
    PROVE  \/ Ends
           \/ /\ pc' = next /\ TheBucket' = TheBucket /\ par' = par
              /\ IF on THEN bucket[TheBucket].owner = "us" /\ bucket'[TheBucket] = v
                       ELSE bucket'[TheBucket] = bucket[TheBucket]
  BY DEF Configures, Moves, TheBucket, BucketTypes

LEMMA SecuredStep ==
    ASSUME AwsInv, Secured, [Next]_vars
    PROVE  Secured'
  <1>0. WorkerTypes /\ ApiTypes /\ BucketTypes /\ PassFits  BY DEF AwsInv
  <1> USE DEF Ends
  <1>n. ASSUME pc # "idle" PROVE TheBucket \in Names /\ bucket[TheBucket] \in BucketState
    BY <1>0, <1>n, AwsAssumption DEF PassFits, ClaimObject, TheBucket, SpecType, BucketTypes
  <1>1. CASE CreateBucket  BY <1>0, <1>1, CreateBucketIs, SecuredElsewhere DEF Moves
  <1>2. CASE ReadFlags
    BY <1>0, <1>2, FlagsIs, SecuredElsewhere, AfterParts DEF Moves, Secured, AfterFlags, AfterBlock,
       AfterAcls, AfterEncrypt, AfterPolicy, AfterRules, GrantSteps
  <1>3. CASE PutPublicAccessBlock
    <2>1. pc = "block" /\ Configures(Block(par) = "on", WithBlock, "acls")  BY <1>0, <1>3, BlockIs
    <2>2. WithBlock.block = TRUE /\ WithBlock.owner = bucket[TheBucket].owner
      BY <1>n, <2>1 DEF WithBlock, BucketState
    <2>3. CASE Ends  BY <2>3, SecuredElsewhere
    <2>4. CASE /\ pc' = "acls" /\ TheBucket' = TheBucket /\ par' = par
               /\ IF Block(par) = "on" THEN bucket[TheBucket].owner = "us" /\ bucket'[TheBucket] = WithBlock
                  ELSE bucket'[TheBucket] = bucket[TheBucket]
      BY <2>1, <2>2, <2>4, AfterParts DEF Secured, AfterFlags, AfterBlock,
         AfterAcls, AfterEncrypt, AfterPolicy, AfterRules, GrantSteps
    <2> QED  BY <1>0, <1>n, <2>1, <2>3, <2>4, ConfiguredIs
  <1>4. CASE PutBucketOwnershipControls
    <2>1. pc = "acls" /\ Configures(DisableAcls(par) = "on", WithAcls, "encrypt")  BY <1>0, <1>4, AclsIs
    <2>2. /\ WithAcls.acls = TRUE /\ WithAcls.owner = bucket[TheBucket].owner
          /\ WithAcls.block = bucket[TheBucket].block
      BY <1>n, <2>1 DEF WithAcls, BucketState
    <2>3. CASE Ends  BY <2>3, SecuredElsewhere
    <2>4. CASE /\ pc' = "encrypt" /\ TheBucket' = TheBucket /\ par' = par
               /\ IF DisableAcls(par) = "on" THEN bucket[TheBucket].owner = "us" /\ bucket'[TheBucket] = WithAcls
                  ELSE bucket'[TheBucket] = bucket[TheBucket]
      BY <2>1, <2>2, <2>4, AfterParts DEF Secured, AfterFlags, AfterBlock,
         AfterAcls, AfterEncrypt, AfterPolicy, AfterRules, GrantSteps
    <2> QED  BY <1>0, <1>n, <2>1, <2>3, <2>4, ConfiguredIs
  <1>5. CASE PutBucketEncryption
    <2>1. /\ pc = "encrypt" /\ Configures(Encryption(par) # "NONE", WithEnc, "bucketPolicy")
          /\ pc' # "idle" => EncryptionValid(par)
      BY <1>0, <1>5, EncryptIs
    <2>2. /\ WithEnc.enc = Encryption(par) /\ WithEnc.owner = bucket[TheBucket].owner
          /\ WithEnc.block = bucket[TheBucket].block /\ WithEnc.acls = bucket[TheBucket].acls
      BY <1>n, <2>1 DEF WithEnc, BucketState
    <2>3. CASE Ends  BY <2>3, SecuredElsewhere
    <2>4. CASE /\ pc' = "bucketPolicy" /\ TheBucket' = TheBucket /\ par' = par
               /\ IF Encryption(par) # "NONE" THEN bucket[TheBucket].owner = "us" /\ bucket'[TheBucket] = WithEnc
                  ELSE bucket'[TheBucket] = bucket[TheBucket]
      BY <2>1, <2>2, <2>4, AfterParts DEF Secured, AfterFlags, AfterBlock,
         AfterAcls, AfterEncrypt, AfterPolicy, AfterRules, GrantSteps
    <2> QED  BY <1>0, <1>n, <2>1, <2>3, <2>4, ConfiguredIs
  <1>6. CASE PutBucketPolicy
    <2>1. /\ pc = "bucketPolicy" /\ Configures(HasPolicy(par), WithPolicy, "lifecycle")
          /\ pc' # "idle" /\ HasPolicy(par) => PolicyValid(par)
      BY <1>0, <1>6, PolicyIs
    <2>2. /\ WithPolicy.policy = Merge(BaseStatements(TlsOnly(par)), par.doc)
          /\ WithPolicy.owner = bucket[TheBucket].owner /\ WithPolicy.enc = bucket[TheBucket].enc
          /\ WithPolicy.block = bucket[TheBucket].block /\ WithPolicy.acls = bucket[TheBucket].acls
      BY <1>n, <2>1 DEF WithPolicy, BucketState
    <2>3. CASE Ends  BY <2>3, SecuredElsewhere
    <2>4. CASE /\ pc' = "lifecycle" /\ TheBucket' = TheBucket /\ par' = par
               /\ IF HasPolicy(par) THEN bucket[TheBucket].owner = "us" /\ bucket'[TheBucket] = WithPolicy
                  ELSE bucket'[TheBucket] = bucket[TheBucket]
      BY <2>1, <2>2, <2>4, AfterParts DEF Secured, AfterFlags, AfterBlock,
         AfterAcls, AfterEncrypt, AfterPolicy, AfterRules, GrantSteps
    <2>5. HasPolicy(par) \in BOOLEAN  BY DEF HasPolicy
    <2> QED  BY <1>0, <1>n, <2>1, <2>3, <2>4, <2>5, ConfiguredIs
  <1>7. CASE SetBucketLifecycle
    <2>1. pc = "lifecycle" /\ Configures(loc.spec.rules # "none", WithRules, "createUser")
      BY <1>0, <1>7, RulesIs
    <2>2. /\ WithRules.policy = bucket[TheBucket].policy
          /\ WithRules.owner = bucket[TheBucket].owner /\ WithRules.enc = bucket[TheBucket].enc
          /\ WithRules.block = bucket[TheBucket].block /\ WithRules.acls = bucket[TheBucket].acls
      BY <1>n, <2>1 DEF WithRules, BucketState
    <2>3. CASE Ends  BY <2>3, SecuredElsewhere
    <2>4. CASE /\ pc' = "createUser" /\ TheBucket' = TheBucket /\ par' = par
               /\ bucket'[TheBucket] \in {WithRules, bucket[TheBucket]}
      BY <2>1, <2>2, <2>4, AfterParts DEF Secured, AfterFlags, AfterBlock,
         AfterAcls, AfterEncrypt, AfterPolicy, AfterRules, GrantSteps
    <2> QED  BY <1>0, <1>n, <2>1, <2>3, <2>4, ConfiguredIs
  <1>8. CASE DeleteBucket
    BY <1>0, <1>8, DeleteBucketIs, SecuredElsewhere DEF Moves, FinalizeSteps
  <1>9. CASE IamStep
    <2>1. UNCHANGED bucket  BY <1>0, <1>9, IamStepIs
    <2> QED  BY <1>0, <1>9, <2>1, IamMoves, SecuredElsewhere, SecuredStays DEF Moves
  <1>10. CASE WriteSecret
    BY <1>0, <1>10, WriteSecretIs, SecuredElsewhere, SecuredStays DEF Moves, AfterRules
  <1>11. CASE UpdateStatus \/ RemoveFinalizer
    BY <1>0, <1>11, UpdateStatusIs, RemoveFinalizerIs, SecuredElsewhere
  <1>12. ASSUME NEW c \in Claims, StartProvision(c)  PROVE Secured'
    BY <1>0, <1>12, StartProvisionIs, SecuredElsewhere, SecuredStays
  <1>13. ASSUME NEW c \in Claims, StartFinalize(c)  PROVE Secured'
    BY <1>0, <1>13, StartFinalizeIs, SecuredElsewhere, StepsParts
  <1>14. CASE OtherStep  BY <1>0, <1>14, OtherStepIs, SecuredStays
  <1>15. CASE UNCHANGED vars  BY <1>15, SecuredStays DEF vars
  <1> QED
    BY <1>1, <1>2, <1>3, <1>4, <1>5, <1>6, <1>7, <1>8, <1>9, <1>10, <1>11, <1>12, <1>13, <1>14, <1>15,
       NextIs DEF S3Step

(* What the parameters' text means, once ConfigureBucketSecurity has found *)
(* nothing to object to.                                                   *)
LEMMA TextMeans ==
    ASSUME NEW p \in ParamType, FlagsValid(p), EncryptionValid(p)
    PROVE  /\ p.block # "false" => Block(p) = "on"
           /\ p.acls # "false" => DisableAcls(p) = "on"
           /\ p.tls # "false" => TlsOnly(p) = "on"
           /\ p.enc # "none" =>
                 Encryption(p) = (IF p.enc = "SSE-KMS" THEN "SSE-KMS" ELSE "SSE-S3")
  <1>1. p.block \in BoolTexts /\ p.acls \in BoolTexts /\ p.tls \in BoolTexts /\ p.enc \in EncTexts
    BY DEF ParamType
  <1>2. ASSUME NEW t \in BoolTexts, t # "false", ParamBool(t, "on") # "invalid"
        PROVE  ParamBool(t, "on") = "on"
    BY <1>2 DEF ParamBool, BoolTexts, NoText
  <1>3. /\ p.block # "false" => Block(p) = "on"
        /\ p.acls # "false" => DisableAcls(p) = "on"
        /\ p.tls # "false" => TlsOnly(p) = "on"
    BY <1>1, <1>2 DEF FlagsValid, Block, DisableAcls, TlsOnly
  <1>4. Encryption(p) \in {"NONE", "SSE-S3", "SSE-KMS"}  BY Zenon DEF EncryptionValid
  <1>5. p.enc # "none" => Encryption(p) = (IF p.enc = "SSE-KMS" THEN "SSE-KMS" ELSE "SSE-S3")
    BY <1>1, <1>4 DEF Encryption, Upper, ParamString, EncTexts, NoText
  <1> QED  BY <1>3, <1>5

KeptIn(s, t, m) ==
    /\ Len(s) = 1 => m # <<>> /\ m[1] = s[1]
    /\ \A i \in 1 .. Len(t) : \E j \in 1 .. Len(m) : m[j] = t[i]

LEMMA ConcatKeeps ==
    ASSUME NEW S, NEW s \in Seq(S), NEW t \in Seq(S)
    PROVE  KeptIn(s, t, s \o t)
  <1>1. Len(s) \in Nat /\ Len(t) \in Nat /\ Len(s \o t) = Len(s) + Len(t) /\ s \o t \in Seq(S)
    BY ConcatProperties
  <1>2. \A i \in 1 .. Len(s) + Len(t) : (s \o t)[i] = IF i <= Len(s) THEN s[i] ELSE t[i - Len(s)]
    BY ConcatProperties
  <1> DEFINE m == s \o t
  <1>3. ASSUME Len(s) = 1 PROVE m # <<>> /\ m[1] = s[1]
    <2>1. Len(m) > 0 /\ 1 \in 1 .. Len(s) + Len(t)  BY <1>1, <1>3
    <2> QED  BY <1>1, <1>2, <1>3, <2>1
  <1>4. ASSUME NEW i \in 1 .. Len(t) PROVE \E j \in 1 .. Len(m) : m[j] = t[i]
    <2> DEFINE j == i + Len(s)
    <2>1. j \in 1 .. Len(s) + Len(t) /\ ~(j <= Len(s)) /\ j - Len(s) = i  BY <1>1
    <2>2. j \in 1 .. Len(m)  BY <1>1, <2>1
    <2> HIDE DEF j
    <2>3. m[j] = t[j - Len(s)]  BY <1>2, <2>1
    <2>4. m[j] = t[i]  BY <2>1, <2>3
    <2> QED  BY <2>2, <2>4
  <1> QED  BY <1>3, <1>4 DEF KeptIn

(* The guardrail comes first in a merged policy, and no statement of the   *)
(* document is lost.                                                       *)
LEMMA MergeKeeps ==
    ASSUME NEW p \in ParamType, StatementsInArray(p)
    PROVE  LET m == Merge(BaseStatements(TlsOnly(p)), p.doc)
           IN  /\ TlsOnly(p) = "on" => m # <<>> /\ m[1] = Deny
               /\ \A i \in 1 .. Len(p.doc.st) : \E j \in 1 .. Len(m) : m[j] = p.doc.st[i]
  <1> DEFINE S == Statements \cup {Deny}
             base == BaseStatements(TlsOnly(p))
             m == Merge(base, p.doc)
  <1>1. p.doc.st \in Seq(S)
    <2>1. p.doc.st \in Seq(Statements)  BY DEF ParamType
    <2> QED  BY <2>1
  <1>2. /\ base \in Seq(S) /\ Len(base) \in {0, 1}
        /\ TlsOnly(p) = "on" => Len(base) = 1 /\ base[1] = Deny
    <2>1. /\ <<Deny>> \in Seq(S) /\ << >> \in Seq(S) /\ Len(<<Deny>>) = 1 /\ Len(<< >>) = 0
          /\ <<Deny>>[1] = Deny
      OBVIOUS
    <2> QED  BY <2>1 DEF BaseStatements
  <1> HIDE DEF S, base
  <1>3. CASE p.doc.kind = "array"
    <2>1. m = base \o p.doc.st  BY <1>3 DEF Merge
    <2>2. base \in Seq(S) /\ p.doc.st \in Seq(S)  BY <1>1, <1>2
    <2>3. KeptIn(base, p.doc.st, m)  BY <2>1, <2>2, ConcatKeeps
    <2> HIDE DEF m
    <2>4. TlsOnly(p) = "on" => m # <<>> /\ m[1] = Deny  BY <1>2, <2>3 DEF KeptIn
    <2>5. \A i \in 1 .. Len(p.doc.st) : \E j \in 1 .. Len(m) : m[j] = p.doc.st[i]
      BY <2>3 DEF KeptIn
    <2> QED  BY <2>4, <2>5 DEF m, base
  <1>4. CASE p.doc.kind # "array"
    <2>1. m = base /\ p.doc.st = <<>>  BY <1>4 DEF Merge, StatementsInArray
    <2>2. Len(base) = 1 => base # <<>>  BY <1>2
    <2>3. Len(p.doc.st) = 0  BY <2>1
    <2>4. 1 .. Len(p.doc.st) = {}  BY <2>3
    <2> HIDE DEF m
    <2> QED  BY <1>2, <2>1, <2>2, <2>4 DEF m, base
  <1> QED  BY <1>3, <1>4

LEMMA ParamFacts == \A p \in Params : p \in ParamType /\ StatementsInArray(p)
  BY AwsAssumption

(* Where keys are made, the bucket has what the class asks for.            *)
LEMMA SecuredProtects ==
    ASSUME AwsInv, Secured, pc \in AfterRules
    PROVE  Protected(bucket[TheBucket], par)
  <1>0. par \in ParamType /\ StatementsInArray(par)  BY ParamFacts DEF AwsInv, WorkerTypes
  <1>1. /\ FlagsValid(par) /\ EncryptionValid(par)
        /\ Block(par) = "on" => bucket[TheBucket].block = TRUE
        /\ DisableAcls(par) = "on" => bucket[TheBucket].acls = TRUE
        /\ Encryption(par) # "NONE" => bucket[TheBucket].enc = Encryption(par)
        /\ HasPolicy(par) => bucket[TheBucket].policy = Merge(BaseStatements(TlsOnly(par)), par.doc)
    BY AfterParts DEF Secured
  <1>2. par.enc # "none" => Encryption(par) # "NONE"  BY <1>0, <1>1, TextMeans
  <1>3. par.tls # "false" =>
           HasPolicy(par) /\ bucket[TheBucket].policy # <<>> /\ bucket[TheBucket].policy[1] = Deny
    BY <1>0, <1>1, TextMeans, MergeKeeps DEF HasPolicy
  <1>4. \A i \in 1 .. Len(par.doc.st) :
           \E j \in 1 .. Len(bucket[TheBucket].policy) : bucket[TheBucket].policy[j] = par.doc.st[i]
    <2>1. CASE HasPolicy(par)  BY <1>0, <1>1, <2>1, MergeKeeps
    <2>2. CASE ~HasPolicy(par)
      <3>1. par.doc.kind = "none"  BY <2>2 DEF HasPolicy
      <3>2. par.doc.st = <<>>  BY <1>0, <3>1 DEF StatementsInArray
      <3>3. Len(par.doc.st) = 0  BY <3>2
      <3> QED  BY <3>3
    <2> QED  BY <2>1, <2>2
  <1> QED  BY <1>0, <1>1, <1>2, <1>3, <1>4, TextMeans DEF Protected

(* Only CreateAccessKey adds a key.                                        *)
LEMMA KeysAddedAt ==
    ASSUME AwsInv, [Next]_vars, NEW u \in Users, ~(keys'[u] \subseteq keys[u])
    PROVE  pc \in {"createKey", "retryKey"}
  <1>0. WorkerTypes /\ keys \in [Users -> SUBSET KeyIds] /\ TheUser \in Users
    BY TheUserType DEF AwsInv, IamTypes
  <1>1. CASE DeleteOldKeys  BY <1>0, <1>1, DeleteOldKeysIs
  <1>2. CASE DeleteAccessKeys  BY <1>0, <1>2, DropKeysIs
  <1>3. CASE CreateAccessKey  BY <1>0, <1>3, CreateKeyIs
  <1>4. UNCHANGED keys \/ DeleteOldKeys \/ DeleteAccessKeys \/ CreateAccessKey
    BY <1>0, NextIs, S3StepIs, OtherStepIs, CreateUserIs, PutUserPolicyIs, DropPolicyIs, DropUserIs
    DEF IamStep, WriteSecret, UpdateStatus, RemoveFinalizer, StartProvision, StartFinalize, vars
  <1> QED  BY <1>1, <1>2, <1>3, <1>4

(* What a pass has made sure of stays so until it is over.                 *)
THEOREM SecuredHolds == Spec => []Secured
  <1>1. Init => Secured  BY AfterParts DEF Init, Secured
  <1>2. AwsInv /\ Secured /\ [Next]_vars => Secured'  BY SecuredStep
  <1> QED  BY <1>1, <1>2, AwsPassesFit, PTL DEF Spec

(* No step hands out an access key for a bucket without every protection   *)
(* and every policy statement the class asked for when the pass began.     *)
THEOREM KeysNeedProtection == Spec => KeysOnlyWhenProtected
  <1>1. AwsInv /\ Secured /\ [Next]_vars
        => [\A u \in Users : ~(keys'[u] \subseteq keys[u]) => Protected(bucket[TheBucket], par)]_vars
    <2> SUFFICES ASSUME AwsInv, Secured, [Next]_vars, NEW u \in Users, ~(keys'[u] \subseteq keys[u])
                 PROVE  Protected(bucket[TheBucket], par)
      OBVIOUS
    <2>1. pc \in AfterRules  BY KeysAddedAt DEF AfterRules, GrantSteps
    <2> QED  BY <2>1, SecuredProtects
  <1> QED  BY <1>1, AwsPassesFit, SecuredHolds, PTL DEF Spec, KeysOnlyWhenProtected
-----------------------------------------------------------------------------
(* The guardrail.                                                          *)

(* A bucket that is not ours has no policy of ours.                        *)
Unowned == \A n \in Names : bucket[n].owner # "us" => bucket[n].policy = <<>>

(* What a step may do to a bucket.                                         *)
LEMMA BucketChanges ==
    ASSUME AwsInv, [Next]_vars, NEW n \in Names, bucket'[n] # bucket[n]
    PROVE  \/ /\ bucket[n].owner = "nobody" /\ bucket'[n] = FreshBucket("us")
           \/ /\ n = DoomedName /\ pc = "deleteBucket" /\ bucket'[n] = FreshBucket("nobody")
           \/ /\ bucket[n].owner = "us" /\ bucket'[n].owner = "us" /\ bucket'[n].policy = bucket[n].policy
           \/ /\ bucket[n].owner = "us" /\ bucket'[n].owner = "us" /\ HasPolicy(par) /\ PolicyValid(par)
              /\ pc = "bucketPolicy"
              /\ bucket'[n].policy = Merge(BaseStatements(TlsOnly(par)), par.doc)
  <1>0. WorkerTypes /\ PassFits /\ bucket \in [Names -> BucketState]  BY DEF AwsInv, BucketTypes
  <1>1. ASSUME NEW m, NEW v, bucket' = [bucket EXCEPT ![m] = v]  PROVE n = m /\ bucket'[n] = v
    BY <1>0, <1>1
  <1>2. ASSUME NEW on, NEW v, NEW next, Configures(on, v, next)
        PROVE  n = TheBucket /\ bucket[n].owner = "us" /\ bucket'[n] = v
    BY <1>1, <1>2 DEF Configures
  <1>3. bucket[n] \in BucketState  BY <1>0
  <1>4. CASE CreateBucket  BY <1>0, <1>1, <1>4, CreateBucketIs
  <1>5. CASE ReadFlags  BY <1>0, <1>5, FlagsIs
  <1>6. CASE DeleteBucket  BY <1>0, <1>1, <1>6, DeleteBucketIs
  <1>7. CASE PutPublicAccessBlock
    BY <1>0, <1>2, <1>3, <1>7, BlockIs DEF WithBlock, BucketState
  <1>8. CASE PutBucketOwnershipControls
    BY <1>0, <1>2, <1>3, <1>8, AclsIs DEF WithAcls, BucketState
  <1>9. CASE PutBucketEncryption
    BY <1>0, <1>2, <1>3, <1>9, EncryptIs DEF WithEnc, BucketState
  <1>10. CASE PutBucketPolicy
    <2>1. /\ n = TheBucket /\ bucket[n].owner = "us" /\ bucket'[n] = WithPolicy /\ pc = "bucketPolicy"
          /\ PolicyValid(par)
      BY <1>0, <1>2, <1>10, PolicyIs
    <2>2. HasPolicy(par)  BY <1>0, <1>10, PolicyIs DEF Configures
    <2> QED  BY <1>3, <2>1, <2>2 DEF WithPolicy, BucketState
  <1>11. CASE SetBucketLifecycle
    BY <1>0, <1>2, <1>3, <1>11, RulesIs DEF WithRules, BucketState
  <1>12. S3Step
    BY <1>0, NextIs, IamStepIs, OtherStepIs
    DEF WriteSecret, UpdateStatus, RemoveFinalizer, StartProvision, StartFinalize, vars
  <1> QED  BY <1>4, <1>5, <1>6, <1>7, <1>8, <1>9, <1>10, <1>11, <1>12 DEF S3Step

LEMMA UnownedStep == ASSUME AwsInv, Unowned, [Next]_vars PROVE Unowned'
  <1> SUFFICES ASSUME NEW n \in Names, bucket'[n].owner # "us" PROVE bucket'[n].policy = <<>>
    BY DEF Unowned
  <1>1. CASE bucket'[n] = bucket[n]  BY <1>1 DEF Unowned
  <1>2. CASE bucket'[n] # bucket[n]  BY <1>2, BucketChanges DEF FreshBucket
  <1> QED  BY <1>1, <1>2

(* A policy that is put replaces the guardrail only if the class has it    *)
(* turned off.                                                             *)
LEMMA PutKeepsGuardrail ==
    ASSUME NEW p \in ParamType, StatementsInArray(p), FlagsValid(p), EncryptionValid(p), HasPolicy(p), PolicyValid(p)
    PROVE  LET m == Merge(BaseStatements(TlsOnly(p)), p.doc)
           IN  m # <<>> /\ (m[1] = Deny \/ p.tls = "false")
  <1>1. CASE TlsOnly(p) = "on"  BY <1>1, MergeKeeps
  <1>2. CASE TlsOnly(p) # "on"
    <2>1. p.tls = "false"  BY <1>2, TextMeans
    <2>2. p.doc.kind = "array"  BY <1>2 DEF HasPolicy, PolicyValid, Readable
    <2>3. p.doc.st # <<>> /\ p.doc.st \in Seq(Statements)  BY <2>2 DEF StatementsInArray, ParamType
    <2>4. BaseStatements(TlsOnly(p)) = <<>>  BY <1>2 DEF BaseStatements
    <2>5. Merge(BaseStatements(TlsOnly(p)), p.doc) = << >> \o p.doc.st  BY <2>2, <2>4 DEF Merge
    <2>6. << >> \o p.doc.st = p.doc.st  BY <2>3, ConcatEmptySeq
    <2> QED  BY <2>1, <2>3, <2>5, <2>6
  <1> QED  BY <1>1, <1>2

(* The TLS-only guardrail goes only with the bucket or by the class.       *)
THEOREM GuardrailKept == Spec => GuardrailStays
  <1> DEFINE I == AwsInv /\ Secured /\ Unowned
             A == \A n \in Names :
                    /\ bucket[n].policy # <<>> /\ bucket[n].policy[1] = Deny
                    /\ bucket'[n].owner = "us"
                    => bucket'[n].policy # <<>> /\ (bucket'[n].policy[1] = Deny \/ par.tls = "false")
  <1>1. Init => Unowned  BY DEF Init, Unowned, FreshBucket
  <1>2. AwsInv /\ Unowned /\ [Next]_vars => Unowned'  BY UnownedStep
  <1>3. I /\ [Next]_vars => A
    <2> SUFFICES ASSUME I, [Next]_vars, NEW n \in Names, bucket[n].policy # <<>>,
                        bucket[n].policy[1] = Deny, bucket'[n].owner = "us"
                 PROVE  bucket'[n].policy # <<>> /\ (bucket'[n].policy[1] = Deny \/ par.tls = "false")
      OBVIOUS
    <2>1. CASE bucket'[n].policy = bucket[n].policy  BY <2>1
    <2>2. CASE /\ HasPolicy(par) /\ PolicyValid(par) /\ pc = "bucketPolicy"
               /\ bucket'[n].policy = Merge(BaseStatements(TlsOnly(par)), par.doc)
      <3>1. par \in ParamType /\ StatementsInArray(par)  BY ParamFacts DEF AwsInv, WorkerTypes
      <3>2. FlagsValid(par) /\ EncryptionValid(par)  BY <2>2, AfterParts DEF Secured
      <3> QED  BY <2>2, <3>1, <3>2, PutKeepsGuardrail
    <2>3. bucket[n].owner = "us"  BY DEF Unowned
    <2> QED  BY <2>1, <2>2, <2>3, BucketChanges DEF FreshBucket
  <1>4. Spec => []I  BY <1>1, <1>2, AwsPassesFit, SecuredHolds, PTL DEF Spec
  <1>5. I /\ [Next]_vars => [A]_vars  BY <1>3
  <1> HIDE DEF I
  <1>6. Spec => [][A]_vars  BY <1>4, <1>5, PTL DEF Spec
  <1> QED  BY <1>6 DEF GuardrailStays
-----------------------------------------------------------------------------
(* What Bound promises.                                                    *)

(* Unless buckets are kept, no two claims have anything to do with the     *)
(* same bucket: else the deletion of one takes it from the other.          *)
BucketsOf(c) == {claim[c].spec.bucket, claim[c].bucketName}
Unshared ==
    DeletionPolicy = "Delete" =>
        \A c, d \in Claims : c # d /\ claim[c] # NoClaim /\ claim[d] # NoClaim
                              => BucketsOf(c) \cap BucketsOf(d) = {}

(* Every class asks for at least one setting of the bucket.  With all of   *)
(* them turned off S3 is not asked anything that it refuses to others than *)
(* the owner, and BucketAlreadyExists stays unnoticed.                     *)
Checked ==
    \A p \in Params :
        \/ Block(p) = "on" \/ DisableAcls(p) = "on" \/ Encryption(p) # "NONE" \/ HasPolicy(p)

(* No two claims have the same IAM user name, which is normalized and cut  *)
(* to 64 characters.                                                       *)
OwnUser == \A c, d \in Claims : UserOf[c] = UserOf[d] => c = d

(* Only the last step of a pass makes a claim settled.                     *)
LEMMA SettledBy ==
    ASSUME AwsInv, [Next]_vars, NEW c \in Claims, Settled(c)'
    PROVE  \/ Settled(c) /\ claim'[c].bucketName = claim[c].bucketName
           \/ UpdateStatus /\ c = cur /\ claim'[c].bucketName = TheBucket
  <1>0. /\ WorkerTypes /\ ApiTypes /\ PassFits /\ cur \in Claims
        /\ claim \in [Claims -> ClaimObject \cup {NoClaim}]
    BY DEF AwsInv, ApiTypes, WorkerTypes
  <1>1. CASE claim'[c] = claim[c]  BY <1>1 DEF Settled
  <1>2. CASE UNCHANGED claim  BY <1>1, <1>2
  <1>3. CASE UpdateStatus
    <2>1. CASE claim' = [claim EXCEPT ![cur] = Bound(cur)] /\ c = cur
      <3>1. claim[cur] \in ClaimObject  BY <1>0, <1>3, UpdateStatusIs DEF PassFits
      <3>2. Bound(cur).bucketName = TheBucket  BY <3>1 DEF Bound, ClaimObject
      <3> QED  BY <1>0, <1>3, <2>1, <3>2
    <2> QED  BY <1>0, <1>1, <1>3, <2>1, UpdateStatusIs
  <1>4. CASE RemoveFinalizer
    <2>1. c # cur \/ claim' = claim  BY <1>0, <1>4, RemoveFinalizerIs DEF Settled
    <2> QED  BY <1>0, <1>1, <1>4, <2>1, RemoveFinalizerIs
  <1>5. ASSUME NEW d \in Claims, StartProvision(d)
        PROVE  Settled(c) /\ claim'[c].bucketName = claim[c].bucketName
    <2>1. /\ Held(d).observed = claim[d].observed /\ Held(d).gen = claim[d].gen
          /\ Held(d).deleting = claim[d].deleting /\ claim[d] # NoClaim /\ ~Settled(d)
          /\ claim' = [claim EXCEPT ![d] = Held(d)]
      BY <1>0, <1>5, StartProvisionIs DEF Held, ClaimObject
    <2>2. c # d  BY <1>0, <2>1 DEF Settled
    <2> QED  BY <1>0, <1>1, <2>1, <2>2 DEF Settled
  <1>6. ASSUME NEW d \in Claims, DeleteClaim(d)
        PROVE  Settled(c) /\ claim'[c].bucketName = claim[c].bucketName
    <2>1. CASE c = d
      <3>1. Doomed(d).deleting = TRUE  BY <1>0, <1>6, DeleteClaimIs DEF Doomed, ClaimObject
      <3> QED  BY <1>0, <1>6, <2>1, <3>1, DeleteClaimIs DEF Settled
    <2> QED  BY <1>0, <1>1, <1>6, <2>1, DeleteClaimIs DEF Settled
  <1>7. ASSUME NEW d \in Claims, NEW s \in Specs, CreateClaim(d, s)
        PROVE  Settled(c) /\ claim'[c].bucketName = claim[c].bucketName
    <2>1. NewClaim(s).observed # NewClaim(s).gen  BY DEF NewClaim
    <2> QED  BY <1>0, <1>1, <1>7, <2>1, CreateClaimIs DEF Settled
  <1>8. ASSUME NEW d \in Claims, NEW s \in Specs, EditClaim(d, s)
        PROVE  Settled(c) /\ claim'[c].bucketName = claim[c].bucketName
    <2>1. /\ Edited(d, s).observed = claim[d].observed /\ Edited(d, s).gen = claim[d].gen + 1
          /\ claim[d].gen \in Nat /\ claim[d].observed \in Nat /\ claim[d] # NoClaim
      BY <1>0, <1>8, EditClaimIs DEF Edited, ClaimObject
    <2>2. claim[d].observed <= claim[d].gen  BY <1>0, <2>1 DEF PassFits, Sane
    <2>3. Edited(d, s).observed # Edited(d, s).gen  BY <2>1, <2>2
    <2> QED  BY <1>0, <1>1, <1>8, <2>3, EditClaimIs DEF Settled
  <1>9. ASSUME NEW d \in Claims, DeleteSecret(d) \/ CollectSecret(d) \/ SyncSecret(d)
        PROVE  UNCHANGED claim
    BY <1>0, <1>9, SecretsIs
  <1>10. CASE OtherStep
    BY <1>2, <1>6, <1>7, <1>8, <1>9, <1>10 DEF OtherStep, EditClass
  <1>11. CASE S3Step \/ IamStep \/ WriteSecret \/ UNCHANGED vars
    BY <1>0, <1>2, <1>11, S3StepIs, IamStepIs, WriteSecretIs DEF vars
  <1>12. ASSUME NEW d \in Claims, StartFinalize(d) PROVE UNCHANGED claim
    BY <1>0, <1>12, StartFinalizeIs
  <1> QED
    BY <1>2, <1>3, <1>4, <1>5, <1>10, <1>11, <1>12, NextIs

DeletesAsked == pc = "deleteBucket" => DeletionPolicy = "Delete"

LEMMA DeletesAskedStep == ASSUME AwsInv, DeletesAsked, [Next]_vars PROVE DeletesAsked'
  <1> SUFFICES ASSUME pc' = "deleteBucket" PROVE DeletionPolicy = "Delete"  BY DEF DeletesAsked
  <1>0. WorkerTypes /\ ApiTypes  BY DEF AwsInv
  <1>1. CASE S3Step
    BY <1>0, <1>1, S3StepIs, StepsParts DEF Ends, Moves, ProvisionSteps, SecuritySteps, GrantSteps
  <1>2. CASE DeleteUser  BY <1>0, <1>2, DropUserIs
  <1>3. CASE CreateUser \/ PutUserPolicy \/ CreateAccessKey \/ DeleteOldKeys \/ DeleteUserPolicy
             \/ DeleteAccessKeys
    BY <1>0, <1>3, CreateUserIs, PutUserPolicyIs, CreateKeyIs, DeleteOldKeysIs, DropPolicyIs, DropKeysIs
    DEF Ends, Moves
  <1>4. CASE WriteSecret \/ UpdateStatus \/ RemoveFinalizer
    BY <1>0, <1>4, WriteSecretIs, UpdateStatusIs, RemoveFinalizerIs DEF Ends, Moves
  <1>5. ASSUME NEW c \in Claims, StartProvision(c) \/ StartFinalize(c)  PROVE DeletionPolicy = "Delete"
    BY <1>0, <1>5, StartProvisionIs, StartFinalizeIs
  <1>6. CASE OtherStep \/ UNCHANGED vars  BY <1>0, <1>6, OtherStepIs DEF DeletesAsked, vars
  <1> QED  BY <1>1, <1>2, <1>3, <1>4, <1>5, <1>6, NextIs DEF IamStep

(* A claim under deletion is not edited: a pass that finalizes it knows it *)
(* as it is.                                                               *)
FinalizesLatest == pc \in FinalizeSteps => loc = claim[cur]

LEMMA FinalizesLatestStep ==
    ASSUME AwsInv, FinalizesLatest, [Next]_vars
    PROVE  FinalizesLatest'
  <1> SUFFICES ASSUME pc' \in FinalizeSteps PROVE loc' = claim'[cur']  BY DEF FinalizesLatest
  <1>0. /\ WorkerTypes /\ ApiTypes /\ PassFits /\ cur \in Claims
        /\ claim \in [Claims -> ClaimObject \cup {NoClaim}]
    BY DEF AwsInv, ApiTypes, WorkerTypes
  <1>1. ASSUME pc \in FinalizeSteps, claim' = claim, loc' = loc, cur' = cur
        PROVE  loc' = claim'[cur']
    BY <1>1 DEF FinalizesLatest
  <1>2. CASE S3Step
    BY <1>0, <1>1, <1>2, S3StepIs, StepsParts DEF Ends, Moves
  <1>3. CASE IamStep  BY <1>0, <1>1, <1>3, IamStepIs, StepsParts DEF Ends, Moves
  <1>4. CASE WriteSecret \/ UpdateStatus \/ RemoveFinalizer
    BY <1>0, <1>4, WriteSecretIs, UpdateStatusIs, RemoveFinalizerIs, StepsParts DEF Ends, Moves
  <1>5. ASSUME NEW c \in Claims, StartProvision(c) \/ StartFinalize(c)
        PROVE  loc' = claim'[cur']
    BY <1>0, <1>5, StartProvisionIs, StartFinalizeIs, StepsParts
  <1>6. CASE OtherStep
    <2>1. UNCHANGED workerVars /\ pc \in FinalizeSteps  BY <1>0, <1>6, OtherStepIs
    <2>2. claim[cur].deleting = TRUE /\ claim[cur] # NoClaim  BY <1>0, <2>1, StepsParts DEF PassFits
    <2>3. ASSUME NEW c \in Claims, DeleteClaim(c) PROVE claim'[cur] = claim[cur]
      BY <1>0, <2>2, <2>3, DeleteClaimIs
    <2>4. ASSUME NEW c \in Claims, NEW s \in Specs, CreateClaim(c, s) \/ EditClaim(c, s)
          PROVE  claim'[cur] = claim[cur]
      BY <1>0, <2>2, <2>4, CreateClaimIs, EditClaimIs
    <2>5. ASSUME NEW c \in Claims, DeleteSecret(c) \/ CollectSecret(c) \/ SyncSecret(c)
          PROVE  claim'[cur] = claim[cur]
      BY <1>0, <2>5, SecretsIs
    <2>6. claim'[cur] = claim[cur]
      BY <1>6, <2>3, <2>4, <2>5 DEF OtherStep, EditClass
    <2> QED  BY <2>1, <2>6 DEF FinalizesLatest
  <1>7. CASE UNCHANGED vars  BY <1>1, <1>7 DEF vars
  <1> QED  BY <1>2, <1>3, <1>4, <1>5, <1>6, <1>7, NextIs

LEMMA OwnBucketStep ==
    ASSUME Checked, Unshared, AwsInv, Secured, DeletesAsked, FinalizesLatest, BoundToOwnBucket, [Next]_vars
    PROVE  BoundToOwnBucket'
  <1> SUFFICES ASSUME NEW c \in Claims, Settled(c)' PROVE bucket'[claim'[c].bucketName].owner = "us"
    BY DEF BoundToOwnBucket
  <1>0. WorkerTypes /\ ApiTypes /\ BucketTypes /\ PassFits /\ cur \in Claims  BY DEF AwsInv, WorkerTypes
  <1>1. CASE Settled(c) /\ claim'[c].bucketName = claim[c].bucketName
    <2> DEFINE n == claim[c].bucketName
    <2>1. n \in Names  BY <1>0, <1>1 DEF Settled, ApiTypes, ClaimObject
    <2>2. bucket[n].owner = "us"  BY <1>1 DEF BoundToOwnBucket
    <2>3. ~(pc = "deleteBucket" /\ n = DoomedName)
      <3> SUFFICES ASSUME pc = "deleteBucket" PROVE n # DoomedName  OBVIOUS
      <3>1. DeletionPolicy = "Delete"  BY DEF DeletesAsked
      <3>2. claim[cur].deleting = TRUE /\ claim[cur] # NoClaim /\ loc = claim[cur]
        BY <1>0, StepsParts DEF PassFits, FinalizesLatest
      <3>3. c # cur /\ claim[c] # NoClaim  BY <1>1, <3>2 DEF Settled
      <3>4. DoomedName \in BucketsOf(cur)  BY <3>2 DEF DoomedName, BucketsOf
      <3>5. n \in BucketsOf(c)  BY DEF BucketsOf
      <3> QED  BY <1>0, <3>1, <3>2, <3>3, <3>4, <3>5 DEF Unshared
    <2> HIDE DEF n
    <2>4. bucket'[n].owner = "us"  BY <2>1, <2>2, <2>3, BucketChanges DEF FreshBucket
    <2> QED  BY <1>1, <2>4 DEF n
  <1>2. CASE UpdateStatus /\ c = cur /\ claim'[c].bucketName = TheBucket
    <2>1. pc = "updateStatus" /\ bucket' = bucket  BY <1>0, <1>2, UpdateStatusIs
    <2>2. bucket[TheBucket].owner = "us"
      BY <1>0, <2>1, AfterParts DEF Checked, WorkerTypes, Secured, AfterRules
    <2> QED  BY <1>2, <2>1, <2>2
  <1> QED  BY <1>1, <1>2, SettledBy

(* A claim is never Bound to a bucket of another account, although         *)
(* CreateBucket takes BucketAlreadyExists for success: a later setting of  *)
(* the bucket would have been refused.                                     *)
THEOREM BoundToOwn == Checked => (Spec /\ []Unshared => []BoundToOwnBucket)
  <1> SUFFICES ASSUME Checked PROVE Spec /\ []Unshared => []BoundToOwnBucket  OBVIOUS
  <1> DEFINE I == DeletesAsked /\ FinalizesLatest /\ BoundToOwnBucket
  <1>1. Init => I
    BY StepsParts DEF Init, BoundToOwnBucket, DeletesAsked, FinalizesLatest, Settled
  <1>2. AwsInv /\ Secured /\ Unshared /\ I /\ [Next]_vars => I'
    BY DeletesAskedStep, FinalizesLatestStep, OwnBucketStep
  <1>3. I => BoundToOwnBucket  OBVIOUS
  <1> HIDE DEF I
  <1> QED  BY <1>1, <1>2, <1>3, AwsPassesFit, SecuredHolds, PTL DEF Spec
-----------------------------------------------------------------------------
(* The key of a settled claim.                                             *)

AfterUser  == {"putUserPolicy", "createKey", "makeRoom", "retryKey", "writeSecret", "updateStatus"}
AfterGrant == AfterUser \ {"putUserPolicy"}
AfterKey   == {"writeSecret", "updateStatus"}

(* What GrantAccess has done by the time it has come to a step.            *)
Granting ==
    /\ pc \in AfterUser => user[TheUser] = TRUE
    /\ pc \in AfterGrant => \E g \in grants[TheUser] : g.bucket = TheBucket
    /\ pc \in AfterKey => cred \in keys[TheUser]
    /\ pc = "updateStatus" => secret[cur] \in {NoKey, cred}

LEMMA GrantingElsewhere == ASSUME pc' \notin AfterUser PROVE Granting'
  BY DEF Granting, AfterUser, AfterGrant, AfterKey

LEMMA GrantingStep == ASSUME AwsInv, Granting, [Next]_vars PROVE Granting'
  <1>0. /\ WorkerTypes /\ ApiTypes /\ PassFits /\ cur \in Claims /\ TheUser \in Users
        /\ user \in [Users -> BOOLEAN] /\ grants \in [Users -> SUBSET Grant]
        /\ keys \in [Users -> SUBSET KeyIds] /\ secret \in [Claims -> KeyIds \cup {NoKey}]
    BY TheUserType DEF AwsInv, ApiTypes, WorkerTypes, IamTypes
  <1>e. ASSUME Ends PROVE Granting'  BY <1>e, GrantingElsewhere DEF Ends, AfterUser
  <1> USE DEF AfterUser, AfterGrant, AfterKey
  <1>1. CASE S3Step
    <2>1. CASE Moves({"createUser", "flags", "block", "acls", "encrypt", "bucketPolicy", "lifecycle", "removeFinalizer"})
      BY <2>1, GrantingElsewhere DEF Moves
    <2>2. \/ Ends
          \/ Moves({"createUser", "flags", "block", "acls", "encrypt", "bucketPolicy", "lifecycle", "removeFinalizer"})
      BY <1>0, <1>1, CreateBucketIs, FlagsIs, BlockIs, AclsIs, EncryptIs, PolicyIs, RulesIs, DeleteBucketIs
      DEF S3Step, Configures, Moves
    <2> QED  BY <1>e, <2>1, <2>2
  <1>2. CASE CreateUser
    <2>1. CASE Moves({"putUserPolicy"}) /\ user' = [user EXCEPT ![TheUser] = TRUE]
      BY <1>0, <2>1 DEF Granting, Moves, TheUser
    <2> QED  BY <1>0, <1>2, <1>e, <2>1, CreateUserIs
  <1>3. CASE PutUserPolicy
    <2>1. CASE /\ Moves({"createKey"})
               /\ grants' = [grants EXCEPT ![TheUser] = WithGrant(grants[TheUser], TheGrant)]
      <3>1. pc = "putUserPolicy" /\ user' = user  BY <1>0, <1>3, PutUserPolicyIs
      <3>2. TheGrant \in WithGrant(grants[TheUser], TheGrant) /\ TheGrant.bucket = TheBucket
        BY DEF WithGrant, TheGrant
      <3>3. TheGrant \in grants'[TheUser]  BY <1>0, <2>1, <3>2
      <3>4. TheUser' = TheUser /\ TheBucket' = TheBucket  BY <2>1 DEF Moves, TheUser, TheBucket
      <3> QED  BY <2>1, <3>1, <3>2, <3>3, <3>4 DEF Granting, Moves
    <2> QED  BY <1>0, <1>3, <1>e, <2>1, PutUserPolicyIs
  <1>4. CASE CreateAccessKey
    <2>0. pc \in {"createKey", "retryKey"} /\ UNCHANGED <<user, grants>>  BY <1>0, <1>4, CreateKeyIs
    <2>1. CASE Moves({"makeRoom"})  BY <2>0, <2>1 DEF Granting, Moves, TheUser, TheBucket
    <2>2. ASSUME NEW k \in KeyIds, keys' = [keys EXCEPT ![TheUser] = keys[TheUser] \cup {k}],
                 Moves({"writeSecret"}), cred' = k
          PROVE  Granting'
      <3>1. TheUser' = TheUser /\ TheBucket' = TheBucket /\ pc' = "writeSecret"
        BY <2>2 DEF Moves, TheUser, TheBucket
      <3>2. k \in keys'[TheUser]  BY <1>0, <2>2
      <3> QED  BY <2>0, <2>2, <3>1, <3>2 DEF Granting
    <2> QED  BY <1>0, <1>4, <1>e, <2>1, <2>2, CreateKeyIs
  <1>5. CASE DeleteOldKeys
    BY <1>0, <1>5, DeleteOldKeysIs DEF Granting, Moves, TheUser, TheBucket
  <1>6. CASE DeleteUserPolicy \/ DeleteAccessKeys \/ DeleteUser
    BY <1>0, <1>6, DropPolicyIs, DropKeysIs, DropUserIs, GrantingElsewhere DEF Moves
  <1>7. CASE WriteSecret
    <2>1. CASE /\ secret' = [secret EXCEPT ![cur] = cred] /\ Moves({"updateStatus"}) /\ cred' = cred
      <3>1. pc = "writeSecret" /\ UNCHANGED iamVars  BY <1>0, <1>7, WriteSecretIs
      <3>2. secret'[cur] = cred  BY <1>0, <2>1
      <3> QED  BY <2>1, <3>1, <3>2 DEF Granting, Moves, TheUser, TheBucket
    <2> QED  BY <1>0, <1>7, <1>e, <2>1, WriteSecretIs
  <1>8. CASE UpdateStatus \/ RemoveFinalizer
    BY <1>0, <1>8, <1>e, UpdateStatusIs, RemoveFinalizerIs
  <1>9. ASSUME NEW c \in Claims, StartProvision(c) \/ StartFinalize(c)  PROVE Granting'
    BY <1>0, <1>9, StartProvisionIs, StartFinalizeIs, GrantingElsewhere
  <1>10. ASSUME UNCHANGED <<workerVars, iamVars>>, secret'[cur] \in {secret[cur], NoKey}  PROVE Granting'
    BY <1>10 DEF Granting, TheUser, TheBucket
  <1>11. CASE OtherStep
    <2>1. UNCHANGED <<workerVars, iamVars>>  BY <1>0, <1>11, OtherStepIs
    <2>2. secret'[cur] \in {secret[cur], NoKey}
      BY <1>0, <1>11, SecretsIs DEF OtherStep, DeleteClaim, CreateClaim, EditClaim, EditClass
    <2> QED  BY <1>10, <2>1, <2>2
  <1>12. CASE UNCHANGED vars  BY <1>10, <1>12 DEF vars
  <1> QED
    BY <1>1, <1>2, <1>3, <1>4, <1>5, <1>6, <1>7, <1>8, <1>9, <1>11, <1>12, NextIs DEF IamStep

(* A pass touches the user of its own claim, which is not settled, and no  *)
(* other.                                                                  *)
LEMMA OthersUntouched ==
    ASSUME OwnUser, AwsInv, [Next]_vars, NEW c \in Claims, pc = "idle" \/ c # cur
    PROVE  /\ user'[UserOf[c]] = user[UserOf[c]] /\ grants'[UserOf[c]] = grants[UserOf[c]]
           /\ keys'[UserOf[c]] = keys[UserOf[c]]
  <1>0. /\ WorkerTypes /\ cur \in Claims /\ TheUser \in Users /\ UserOf[c] \in Users
        /\ user \in [Users -> BOOLEAN] /\ grants \in [Users -> SUBSET Grant]
        /\ keys \in [Users -> SUBSET KeyIds]
    BY TheUserType, AwsAssumption DEF AwsInv, WorkerTypes, IamTypes
  <1>1. CASE UNCHANGED iamVars  BY <1>1
  <1>2. CASE IamStep
    <2>1. c # cur  BY <1>0, <1>2, IamStepIs
    <2>2. UserOf[c] # TheUser  BY <1>0, <2>1 DEF OwnUser, TheUser
    <2>3. CASE CreateUser  BY <1>0, <2>2, <2>3, CreateUserIs
    <2>4. CASE PutUserPolicy  BY <1>0, <2>2, <2>4, PutUserPolicyIs
    <2>5. CASE CreateAccessKey  BY <1>0, <2>2, <2>5, CreateKeyIs
    <2>6. CASE DeleteOldKeys  BY <1>0, <2>2, <2>6, DeleteOldKeysIs
    <2>7. CASE DeleteUserPolicy  BY <1>0, <2>2, <2>7, DropPolicyIs
    <2>8. CASE DeleteAccessKeys  BY <1>0, <2>2, <2>8, DropKeysIs
    <2>9. CASE DeleteUser  BY <1>0, <2>2, <2>9, DropUserIs
    <2> QED  BY <1>2, <2>3, <2>4, <2>5, <2>6, <2>7, <2>8, <2>9 DEF IamStep
  <1>3. IamStep \/ UNCHANGED iamVars
    BY <1>0, NextIs, S3StepIs, OtherStepIs
    DEF WriteSecret, UpdateStatus, RemoveFinalizer, StartProvision, StartFinalize, vars
  <1> QED  BY <1>1, <1>2, <1>3

(* Nor does anything but a pass of its own put a key in a claim's Secret.  *)
LEMMA SecretsOfOthers ==
    ASSUME AwsInv, [Next]_vars, NEW c \in Claims, pc # "writeSecret" \/ c # cur
    PROVE  secret'[c] \in {secret[c], NoKey}
  <1>0. WorkerTypes /\ ApiTypes /\ secret \in [Claims -> KeyIds \cup {NoKey}]  BY DEF AwsInv, ApiTypes
  <1>1. CASE S3Step \/ IamStep \/ WriteSecret \/ UpdateStatus \/ RemoveFinalizer
    BY <1>0, <1>1, S3StepIs, IamStepIs, WriteSecretIs, UpdateStatusIs, RemoveFinalizerIs
  <1>2. CASE OtherStep
    BY <1>0, <1>2, SecretsIs DEF OtherStep, DeleteClaim, CreateClaim, EditClaim, EditClass
  <1>3. ASSUME NEW d \in Claims, StartProvision(d) \/ StartFinalize(d)
        PROVE  secret'[c] \in {secret[c], NoKey}
    BY <1>0, <1>3, StartProvisionIs, StartFinalizeIs
  <1>4. CASE UNCHANGED vars  BY <1>4 DEF vars
  <1> QED  BY <1>1, <1>2, <1>3, <1>4, NextIs

LEMMA KeyWorksStep ==
    ASSUME OwnUser, AwsInv, Granting, SettledKeyWorks, [Next]_vars
    PROVE  SettledKeyWorks'
  <1> SUFFICES ASSUME NEW c \in Claims, Settled(c)', secret'[c] # NoKey
               PROVE  /\ user'[UserOf[c]]
                      /\ secret'[c] \in keys'[UserOf[c]]
                      /\ \E g \in grants'[UserOf[c]] : g.bucket = claim'[c].bucketName
    BY DEF SettledKeyWorks
  <1>0. WorkerTypes /\ ApiTypes /\ PassFits  BY DEF AwsInv
  <1>1. CASE Settled(c) /\ claim'[c].bucketName = claim[c].bucketName
    <2>1. pc = "idle" \/ c # cur
      <3>1. pc \in FinalizeSteps \/ pc \in ProvisionSteps \/ pc = "idle"  BY <1>0 DEF WorkerTypes, Steps
      <3> QED  BY <1>0, <1>1, <3>1 DEF PassFits, Settled
    <2>2. secret'[c] = secret[c]  BY <2>1, SecretsOfOthers
    <2>3. /\ user[UserOf[c]] /\ secret[c] \in keys[UserOf[c]]
          /\ \E g \in grants[UserOf[c]] : g.bucket = claim[c].bucketName
      BY <1>1, <2>2 DEF SettledKeyWorks
    <2> QED  BY <1>1, <2>1, <2>2, <2>3, OthersUntouched
  <1>2. CASE UpdateStatus /\ c = cur /\ claim'[c].bucketName = TheBucket
    <2>1. pc = "updateStatus" /\ UNCHANGED <<secret, iamVars>>  BY <1>0, <1>2, UpdateStatusIs
    <2>2. /\ user[TheUser] = TRUE /\ cred \in keys[TheUser] /\ secret[cur] \in {NoKey, cred}
          /\ \E g \in grants[TheUser] : g.bucket = TheBucket
      BY <2>1 DEF Granting, AfterUser, AfterGrant, AfterKey
    <2> QED  BY <1>2, <2>1, <2>2 DEF TheUser
  <1> QED  BY <1>1, <1>2, SettledBy

(* The key in the Secret of a Bound claim is a live key of the claim's     *)
(* user, who may use the bucket in the status, through every interleaving  *)
(* of edits, deletions, failures and repeated passes.                      *)
THEOREM SettledKeysWork == OwnUser => (Spec => []SettledKeyWorks)
  <1> SUFFICES ASSUME OwnUser PROVE Spec => []SettledKeyWorks  OBVIOUS
  <1>1. Init => Granting /\ SettledKeyWorks
    BY DEF Init, Granting, SettledKeyWorks, Settled, AfterUser, AfterGrant, AfterKey
  <1>2. AwsInv /\ Granting /\ SettledKeyWorks /\ [Next]_vars => Granting' /\ SettledKeyWorks'
    BY GrantingStep, KeyWorksStep
  <1> QED  BY <1>1, <1>2, AwsPassesFit, PTL DEF Spec
-----------------------------------------------------------------------------
(* No user is left behind.                                                 *)

(* Claims are not edited.  After an edit a pass may read a cache that does *)
(* not show the Secret yet, make a second key, and find the Secret taken.  *)
NeverEdited == MaxGen <= 1

(* The spec of a claim is the one it was created with.                     *)
Fixed ==
    /\ \A c \in Claims : claim[c] # NoClaim =>
          claim[c].gen = 1 /\ claim[c].bucketName = claim[c].spec.bucket
    /\ pc # "idle" => loc.spec = claim[cur].spec /\ loc.bucketName = claim[cur].spec.bucket

At(c, S) == cur = c /\ pc \in S

Untouched(c) ==
    /\ claim[c] = NoClaim /\ c \notin stray /\ secret[c] = NoKey /\ secretCache[c] = NoKey
    /\ user[UserOf[c]] = FALSE /\ grants[UserOf[c]] = {} /\ keys[UserOf[c]] = {}

(* The first claim of its name, as long as nothing has leaked: its user    *)
(* has no key but the one in the Secret, or on its way there, and no grant *)
(* but for the bucket, and a pass that has written the Secret is the last  *)
(* that provisions.                                                        *)
FirstLife(c) ==
    /\ c \notin stray
    /\ claim[c].finalizer = FALSE => user[UserOf[c]] = FALSE
    /\ \A g \in grants[UserOf[c]] : g.bucket = claim[c].spec.bucket
    /\ secretCache[c] \in {NoKey, secret[c]}
    /\ keys[UserOf[c]] \subseteq IF At(c, {"writeSecret"}) THEN {cred} ELSE {secret[c]}
    /\ secret[c] # NoKey => At(c, {"updateStatus"}) \/ claim[c].observed = claim[c].gen
    /\ At(c, ProvisionSteps \ {"updateStatus"}) => secret[c] = NoKey
    /\ At(c, {"dropPolicy", "dropKeys"}) => cred \in {NoKey, secret[c]}
    /\ At(c, {"dropKeys", "dropUser"}) => grants[UserOf[c]] = {}
    /\ At(c, {"dropUser"}) => keys[UserOf[c]] = {}
    /\ At(c, {"deleteBucket", "removeFinalizer"}) => user[UserOf[c]] = FALSE

TidyAt(c) ==
    /\ uids[c] = 0 => Untouched(c)
    /\ uids[c] = 1 /\ claim[c] = NoClaim => user[UserOf[c]] = FALSE
    /\ uids[c] = 1 /\ claim[c] # NoClaim => FirstLife(c)

Tidy == ~failures.leak => \A c \in Claims : TidyAt(c)

(* Users are those of claims.                                              *)
UsersKnown == \A u \in Users : user[u] = TRUE => \E c \in Claims : UserOf[c] = u

LEMMA FixedStep ==
    ASSUME NeverEdited, AwsInv, Fixed, [Next]_vars
    PROVE  Fixed'
  <1>0. /\ WorkerTypes /\ ApiTypes /\ PassFits /\ cur \in Claims
        /\ claim \in [Claims -> ClaimObject \cup {NoClaim}]
    BY DEF AwsInv, ApiTypes, WorkerTypes
  <1>1. ASSUME UNCHANGED claim, pc' = "idle" \/ (pc # "idle" /\ cur' = cur /\ loc' = loc)  PROVE Fixed'
    BY <1>1 DEF Fixed
  <1>2. CASE S3Step \/ IamStep
    BY <1>0, <1>1, <1>2, S3StepIs, IamStepIs DEF Ends, Moves
  <1>3. CASE WriteSecret  BY <1>0, <1>1, <1>3, WriteSecretIs DEF Ends, Moves
  (* A change of one claim that keeps what is fixed.                       *)
  <1>4. ASSUME NEW c \in Claims, NEW v, claim' = [claim EXCEPT ![c] = v],
               v # NoClaim => v.gen = 1 /\ v.bucketName = v.spec.bucket,
               \/ pc' = "idle"
               \/ UNCHANGED workerVars /\ (c # cur \/ v.spec = claim[c].spec)
        PROVE  Fixed'
    BY <1>0, <1>4 DEF Fixed
  <1>5. CASE UpdateStatus
    <2>1. claim[cur] \in ClaimObject /\ claim[cur] # NoClaim /\ pc # "idle" /\ pc' = "idle"
      BY <1>0, <1>5, UpdateStatusIs DEF PassFits, Ends
    <2>2. Bound(cur).gen = claim[cur].gen /\ Bound(cur).spec = claim[cur].spec
          /\ Bound(cur).bucketName = TheBucket
      BY <2>1 DEF Bound, ClaimObject
    <2>3. claim[cur].gen = 1 /\ TheBucket = claim[cur].spec.bucket  BY <1>0, <2>1 DEF Fixed, TheBucket
    <2>4. CASE claim' = [claim EXCEPT ![cur] = Bound(cur)]  BY <1>0, <1>4, <2>1, <2>2, <2>3, <2>4
    <2>5. CASE claim' = claim  BY <1>1, <2>1, <2>5
    <2> QED  BY <1>0, <1>5, <2>4, <2>5, UpdateStatusIs
  <1>6. CASE RemoveFinalizer
    BY <1>0, <1>1, <1>4, <1>6, RemoveFinalizerIs DEF Ends
  <1>7. ASSUME NEW c \in Claims, StartProvision(c)  PROVE Fixed'
    <2>1. /\ claim[c] # NoClaim /\ pc = "idle" /\ claim' = [claim EXCEPT ![c] = Held(c)]
          /\ Held(c).gen = claim[c].gen /\ Held(c).spec = claim[c].spec
          /\ Held(c).bucketName = claim[c].bucketName
      BY <1>0, <1>7, StartProvisionIs DEF Held, ClaimObject
    <2>2. claim[c].gen = 1 /\ claim[c].bucketName = claim[c].spec.bucket  BY <2>1 DEF Fixed
    <2>3. CASE UNCHANGED workerVars  BY <1>4, <2>1, <2>2, <2>3
    <2>4. CASE pc' = "createBucket" /\ cur' = c /\ loc' = Held(c)
      <3>1. claim'[c] = Held(c)  BY <1>0, <2>1
      <3>2. \A d \in Claims : claim'[d] # NoClaim =>
               claim'[d].gen = 1 /\ claim'[d].bucketName = claim'[d].spec.bucket
        BY <1>0, <2>1, <2>2 DEF Fixed
      <3> QED  BY <2>1, <2>2, <2>4, <3>1, <3>2 DEF Fixed
    <2> QED  BY <1>0, <1>7, <2>3, <2>4, StartProvisionIs
  <1>8. ASSUME NEW c \in Claims, StartFinalize(c)  PROVE Fixed'
    BY <1>0, <1>8, StartFinalizeIs DEF Fixed
  <1>9. CASE OtherStep
    <2>0. UNCHANGED workerVars  BY <1>0, <1>9, OtherStepIs
    <2>1. ASSUME NEW c \in Claims, DeleteClaim(c)  PROVE Fixed'
      <3>1. /\ claim[c] # NoClaim /\ Doomed(c).gen = claim[c].gen /\ Doomed(c).spec = claim[c].spec
            /\ Doomed(c).bucketName = claim[c].bucketName
        BY <1>0, <2>1, DeleteClaimIs DEF Doomed, ClaimObject
      <3>2. claim[c].gen = 1 /\ claim[c].bucketName = claim[c].spec.bucket  BY <3>1 DEF Fixed
      <3>3. CASE claim' = [claim EXCEPT ![c] = Doomed(c)]  BY <1>4, <2>0, <3>1, <3>2, <3>3
      <3>4. CASE claim[c].finalizer = FALSE /\ claim' = [claim EXCEPT ![c] = NoClaim]
        <4>1. pc = "idle" \/ c # cur  BY <1>0, <3>4 DEF PassFits
        <4> QED  BY <1>4, <2>0, <3>4, <4>1
      <3> QED  BY <1>0, <2>1, <3>3, <3>4, DeleteClaimIs
    <2>2. ASSUME NEW c \in Claims, NEW s \in Specs, CreateClaim(c, s)  PROVE Fixed'
      <3>1. NewClaim(s).gen = 1 /\ NewClaim(s).bucketName = NewClaim(s).spec.bucket  BY DEF NewClaim
      <3>2. claim' = [claim EXCEPT ![c] = NewClaim(s)] /\ claim[c] = NoClaim
        BY <1>0, <2>2, CreateClaimIs
      <3>3. pc = "idle" \/ c # cur  BY <1>0, <3>2 DEF PassFits
      <3> QED  BY <1>4, <2>0, <3>1, <3>2, <3>3
    <2>3. ASSUME NEW c \in Claims, NEW s \in Specs, EditClaim(c, s)  PROVE FALSE
      <3>1. claim[c].gen = 1 /\ claim[c].gen < MaxGen  BY <1>0, <2>3, EditClaimIs DEF Fixed
      <3> QED  BY <3>1, AwsAssumption DEF NeverEdited
    <2>4. UNCHANGED claim => Fixed'  BY <2>0 DEF Fixed
    <2>5. ASSUME NEW c \in Claims, DeleteSecret(c) \/ CollectSecret(c) \/ SyncSecret(c)
          PROVE  UNCHANGED claim
      BY <1>0, <2>5, SecretsIs
    <2> QED  BY <1>9, <2>1, <2>2, <2>3, <2>4, <2>5 DEF OtherStep, EditClass
  <1>10. CASE UNCHANGED vars  BY <1>10 DEF vars, Fixed
  <1> QED  BY <1>2, <1>3, <1>5, <1>6, <1>7, <1>8, <1>9, <1>10, NextIs

LEMMA UsersKnownStep == ASSUME AwsInv, UsersKnown, [Next]_vars PROVE UsersKnown'
  <1>0. WorkerTypes /\ cur \in Claims /\ user \in [Users -> BOOLEAN] /\ TheUser \in Users
    BY TheUserType DEF AwsInv, WorkerTypes, IamTypes
  <1>1. UNCHANGED user \/ CreateUser \/ DeleteUser
    BY <1>0, NextIs, S3StepIs, OtherStepIs, PutUserPolicyIs, CreateKeyIs, DeleteOldKeysIs, DropPolicyIs,
       DropKeysIs
    DEF IamStep, WriteSecret, UpdateStatus, RemoveFinalizer, StartProvision, StartFinalize, vars
  <1>2. ASSUME NEW u \in Users, user'[u] = TRUE  PROVE user[u] = TRUE \/ u = UserOf[cur]
    BY <1>0, <1>1, <1>2, CreateUserIs, DropUserIs DEF TheUser
  <1> QED  BY <1>0, <1>2 DEF UsersKnown

(* A step that is not about a claim leaves it as it was.                   *)
LEMMA TidyFrame ==
    ASSUME NEW c \in Claims, TidyAt(c),
           claim'[c] = claim[c], uids'[c] = uids[c], secret'[c] = secret[c],
           secretCache'[c] = secretCache[c], c \in stray' <=> c \in stray,
           user'[UserOf[c]] = user[UserOf[c]], grants'[UserOf[c]] = grants[UserOf[c]],
           keys'[UserOf[c]] = keys[UserOf[c]],
           \/ pc' = pc /\ cur' = cur /\ cred' = cred
           \/ (pc = "idle" \/ cur # c) /\ (pc' = "idle" \/ cur' # c)
    PROVE  TidyAt(c)'
  <1>1. Untouched(c) => Untouched(c)'  BY DEF Untouched
  <1>2. FirstLife(c) => FirstLife(c)'
    BY StepsParts DEF FirstLife, At
  <1> QED  BY <1>1, <1>2 DEF TidyAt

(* The pass on the claim is at it.                                         *)
LEMMA TidyPass ==
    ASSUME AwsInv, TidyAt(cur), pc # "idle", uids' = uids, claim'[cur] # NoClaim,
           FirstLife(cur) => (\A c : c = cur => FirstLife(c)')
    PROVE  \A c : c = cur => TidyAt(c)'
  <1>1. claim[cur] # NoClaim  BY DEF AwsInv, PassFits
  <1>2. uids[cur] # 0  BY <1>1 DEF TidyAt, Untouched
  <1> QED  BY <1>1, <1>2 DEF TidyAt

LEMMA TidyS3 ==
    ASSUME AwsInv, TidyAt(cur), S3Step
    PROVE  \A c : c = cur => TidyAt(c)'
  <1>0. WorkerTypes /\ claim[cur] # NoClaim /\ pc # "idle"
    <2>1. WorkerTypes  BY DEF AwsInv
    <2>2. pc # "idle"  BY <2>1, S3StepIs
    <2> QED  BY <2>1, <2>2 DEF AwsInv, PassFits
  <1>1. UNCHANGED <<apiVars, iamVars>> /\ cur' = cur
    BY <1>0, S3StepIs DEF Ends, Moves
  <1>2. ASSUME FirstLife(cur), NEW c, c = cur PROVE FirstLife(c)'
    <2>1. CASE pc' = "idle"
      BY <1>0, <1>1, <1>2, <2>1, S3StepIs, StepsParts DEF FirstLife, At
    <2>2. CASE pc \in ProvisionSteps \ {"writeSecret", "updateStatus"}
               /\ pc' \in ProvisionSteps \ {"writeSecret", "updateStatus"}
      BY <1>1, <1>2, <2>2, StepsParts DEF FirstLife, At, ProvisionSteps, SecuritySteps, GrantSteps
    <2>3. CASE pc = "deleteBucket" /\ pc' = "removeFinalizer"
      BY <1>1, <1>2, <2>3, StepsParts DEF FirstLife, At
    <2> QED  BY <1>0, <2>1, <2>2, <2>3, S3StepIs DEF Ends, Moves
  <1> QED  BY <1>0, <1>1, <1>2, TidyPass

(* The steps of GrantAccess.                                               *)
LEMMA TidyGrant ==
    ASSUME AwsInv, Fixed, TidyAt(cur), ~failures'.leak,
           CreateUser \/ PutUserPolicy \/ CreateAccessKey \/ DeleteOldKeys
    PROVE  \A c : c = cur => TidyAt(c)'
  <1>0. /\ WorkerTypes /\ pc \in GrantSteps /\ cur \in Claims /\ TheUser = UserOf[cur] /\ TheUser \in Users
        /\ user \in [Users -> BOOLEAN] /\ grants \in [Users -> SUBSET Grant]
        /\ keys \in [Users -> SUBSET KeyIds]
    BY TheUserType
    DEF AwsInv, WorkerTypes, IamTypes, TheUser, GrantSteps, CreateUser, PutUserPolicy, CreateAccessKey,
        DeleteOldKeys
  <1>1. /\ claim[cur] # NoClaim /\ claim[cur].finalizer = TRUE /\ TheBucket = claim[cur].spec.bucket
        /\ pc # "idle" /\ pc \in ProvisionSteps \ {"writeSecret", "updateStatus"}
    BY <1>0 DEF AwsInv, PassFits, GrantSteps, Fixed, TheBucket, ProvisionSteps
  <1>2. UNCHANGED apiVars /\ cur' = cur
    BY <1>0, IamStepIs DEF IamStep, Ends, Moves
  <1>3. ASSUME FirstLife(cur), NEW c, c = cur PROVE FirstLife(c)'
    <2>1. secret[c] = NoKey /\ keys[UserOf[c]] = {}
      <3>1. secret[c] = NoKey /\ keys[UserOf[c]] \subseteq {secret[c]}
        BY <1>1, <1>3 DEF FirstLife, At
      <3>2. NoKey \notin keys[UserOf[c]]  BY <1>0, <1>3, AwsAssumption
      <3> QED  BY <3>1, <3>2
    <2>2. /\ c \notin stray /\ \A g \in grants[UserOf[c]] : g.bucket = claim[c].spec.bucket
          /\ secretCache[c] \in {NoKey, secret[c]}
      BY <1>3 DEF FirstLife
    (* What has to be seen to.                                             *)
    <2>3. ASSUME pc' \in GrantSteps \cup {"idle", "writeSecret"},
                 \A g \in grants'[UserOf[c]] : g.bucket = claim[c].spec.bucket,
                 keys'[UserOf[c]] \subseteq IF pc' = "writeSecret" THEN {cred'} ELSE {}
          PROVE  FirstLife(c)'
      BY <1>1, <1>2, <1>3, <2>1, <2>2, <2>3 DEF FirstLife, At, GrantSteps
    <2>4. CASE CreateUser
      BY <1>0, <1>3, <2>1, <2>2, <2>3, <2>4, CreateUserIs DEF Ends, Moves, GrantSteps
    <2>5. CASE PutUserPolicy
      <3>1. TheGrant.bucket = claim[c].spec.bucket  BY <1>1, <1>3 DEF TheGrant
      <3>2. \A g \in grants'[UserOf[c]] : g.bucket = claim[c].spec.bucket
        BY <1>0, <1>3, <2>2, <2>5, <3>1, PutUserPolicyIs DEF WithGrant
      <3> QED  BY <1>0, <2>1, <2>3, <2>5, <3>2, PutUserPolicyIs DEF Ends, Moves, GrantSteps
    <2>6. CASE CreateAccessKey
      <3>1. CASE keys' = keys
        BY <1>0, <2>1, <2>2, <2>3, <2>6, <3>1, CreateKeyIs DEF Ends, Moves, GrantSteps
      <3>2. ASSUME NEW k \in KeyIds, keys' = [keys EXCEPT ![TheUser] = keys[TheUser] \cup {k}],
                   Moves({"writeSecret"}), cred' = k
            PROVE  FirstLife(c)'
        <4>1. keys'[UserOf[c]] = {k}  BY <1>0, <1>3, <2>1, <3>2
        <4> QED  BY <1>0, <2>2, <2>3, <2>6, <3>2, <4>1, CreateKeyIs DEF Moves
      <3> QED  BY <1>0, <2>6, <3>1, <3>2, CreateKeyIs
    <2>7. CASE DeleteOldKeys
      BY <1>0, <1>3, <2>1, <2>2, <2>3, <2>7, DeleteOldKeysIs DEF Moves, GrantSteps
    <2> QED  BY <2>4, <2>5, <2>6, <2>7
  <1> QED  BY <1>1, <1>2, <1>3, TidyPass

(* RevokeAccess: policy, keys, user, in this order.                        *)
LEMMA TidyRevoke ==
    ASSUME AwsInv, Fixed, TidyAt(cur), ~failures'.leak,
           DeleteUserPolicy \/ DeleteAccessKeys \/ DeleteUser
    PROVE  \A c : c = cur => TidyAt(c)'
  <1>0. /\ WorkerTypes /\ pc \in {"dropPolicy", "dropKeys", "dropUser"} /\ cur \in Claims
        /\ TheUser = UserOf[cur] /\ TheUser \in Users
        /\ user \in [Users -> BOOLEAN] /\ grants \in [Users -> SUBSET Grant]
        /\ keys \in [Users -> SUBSET KeyIds]
    BY TheUserType
    DEF AwsInv, WorkerTypes, IamTypes, TheUser, DeleteUserPolicy, DeleteAccessKeys, DeleteUser
  <1>1. /\ claim[cur] # NoClaim /\ claim[cur].finalizer = TRUE /\ DoomedName = claim[cur].spec.bucket
        /\ pc # "idle"
    BY <1>0 DEF AwsInv, PassFits, Fixed, DoomedName
  <1>2. UNCHANGED apiVars /\ cur' = cur /\ cred' = cred
    BY <1>0, IamStepIs, DropPolicyIs, DropKeysIs, DropUserIs DEF IamStep, Moves
  <1>3. ASSUME FirstLife(cur), NEW c, c = cur PROVE FirstLife(c)'
    <2>1. /\ c \notin stray /\ \A g \in grants[UserOf[c]] : g.bucket = claim[c].spec.bucket
          /\ secretCache[c] \in {NoKey, secret[c]}
          /\ keys[UserOf[c]] \subseteq {secret[c]}
          /\ secret[c] # NoKey => claim[c].observed = claim[c].gen
      BY <1>0, <1>3 DEF FirstLife, At
    <2>2. ASSUME pc' \in {"dropKeys", "dropUser", "deleteBucket", "removeFinalizer"},
                 grants'[UserOf[c]] \subseteq grants[UserOf[c]], keys'[UserOf[c]] \subseteq keys[UserOf[c]],
                 pc' = "dropKeys" => cred \in {NoKey, secret[c]},
                 pc' \in {"dropKeys", "dropUser"} => grants'[UserOf[c]] = {},
                 pc' = "dropUser" => keys'[UserOf[c]] = {},
                 pc' \in {"deleteBucket", "removeFinalizer"} => user'[UserOf[c]] = FALSE
          PROVE  FirstLife(c)'
      <3>1. pc' \notin ProvisionSteps /\ pc' # "writeSecret" /\ pc' # "updateStatus"
        BY <2>2, StepsParts DEF FinalizeSteps
      <3> QED  BY <1>1, <1>2, <1>3, <2>1, <2>2, <3>1 DEF FirstLife, At
    <2>3. CASE DeleteUserPolicy
      <3>1. pc = "dropPolicy" /\ pc' = "dropKeys" /\ UNCHANGED <<user, keys>>
            /\ grants' = [grants EXCEPT ![TheUser] = {g \in grants[TheUser] : g.bucket # DoomedName}]
        BY <1>0, <2>3, DropPolicyIs DEF Moves
      <3>2. {g \in grants[TheUser] : g.bucket # DoomedName} = {}  BY <1>0, <1>1, <1>3, <2>1
      <3>3. grants'[UserOf[c]] = {}  BY <1>0, <1>3, <3>1, <3>2
      <3>4. cred \in {NoKey, secret[c]}  BY <1>3, <3>1 DEF FirstLife, At
      <3> QED  BY <2>2, <3>1, <3>3, <3>4
    <2>4. CASE DeleteAccessKeys
      <3>1. pc = "dropKeys" /\ pc' = "dropUser" /\ UNCHANGED <<user, grants>>
            /\ keys' = [keys EXCEPT ![TheUser] = KeysLeft(keys[TheUser], cred)]
        BY <1>0, <2>4, DropKeysIs DEF Moves
      <3>2. cred \in {NoKey, secret[c]} /\ grants[UserOf[c]] = {}  BY <1>3, <3>1 DEF FirstLife, At
      <3>3. NoKey \notin keys[TheUser]  BY <1>0, AwsAssumption
      <3>4. KeysLeft(keys[TheUser], cred) = {}  BY <1>0, <1>3, <2>1, <3>2, <3>3 DEF KeysLeft
      <3>5. keys'[UserOf[c]] = {}  BY <1>0, <1>3, <3>1, <3>4
      <3> QED  BY <2>2, <3>1, <3>2, <3>5
    <2>5. CASE DeleteUser
      <3>1. pc = "dropUser" /\ pc' \in {"deleteBucket", "removeFinalizer"} /\ UNCHANGED <<grants, keys>>
            /\ user' = [user EXCEPT ![TheUser] =
                          user[TheUser] /\ (keys[TheUser] # {} \/ grants[TheUser] # {})]
        BY <1>0, <2>5, DropUserIs DEF Moves
      <3>2. keys[TheUser] = {} /\ grants[TheUser] = {}  BY <1>0, <1>3, <3>1 DEF FirstLife, At
      <3>3. user'[UserOf[c]] = FALSE  BY <1>0, <1>3, <3>1, <3>2
      <3> QED  BY <2>2, <3>1, <3>3
    <2> QED  BY <2>3, <2>4, <2>5
  <1> QED  BY <1>1, <1>2, <1>3, TidyPass

LEMMA TidyWrites ==
    ASSUME AwsInv, TidyAt(cur), ~failures'.leak, WriteSecret \/ UpdateStatus
    PROVE  \A c : c = cur => TidyAt(c)'
  <1>0. /\ WorkerTypes /\ ApiTypes /\ cur \in Claims /\ pc \in {"writeSecret", "updateStatus"}
        /\ claim \in [Claims -> ClaimObject \cup {NoClaim}]
        /\ secret \in [Claims -> KeyIds \cup {NoKey}]
    BY DEF AwsInv, ApiTypes, WorkerTypes, WriteSecret, UpdateStatus
  <1>1. /\ claim[cur] # NoClaim /\ claim[cur] \in ClaimObject /\ claim[cur].finalizer = TRUE /\ pc # "idle"
    BY <1>0 DEF AwsInv, PassFits
  <1>2. CASE WriteSecret
    <2>1. ASSUME FirstLife(cur), NEW c, c = cur PROVE FirstLife(c)'
      <3>1. /\ pc = "writeSecret" /\ UNCHANGED <<claim, secretCache, iamVars>>
        BY <1>0, <1>2, WriteSecretIs
      <3>2. secret[c] = NoKey /\ secretCache[c] = NoKey /\ keys[UserOf[c]] \subseteq {cred} /\ c \notin stray
        BY <2>1, <3>1, StepsParts DEF FirstLife, At
      <3>3. /\ secret' = [secret EXCEPT ![cur] = cred] /\ stray' = stray \ {cur} /\ pc' = "updateStatus"
            /\ cred' = cred /\ cur' = cur
        BY <1>0, <1>2, <2>1, <3>2, WriteSecretIs DEF Moves
      <3>4. secret'[c] = cred  BY <1>0, <2>1, <3>3
      <3> QED
        BY <1>1, <2>1, <3>1, <3>2, <3>3, <3>4 DEF FirstLife, At
    <2>2. uids' = uids /\ claim' = claim  BY <1>0, <1>2, WriteSecretIs
    <2> QED  BY <1>1, <2>1, <2>2, TidyPass
  <1>3. CASE UpdateStatus
    <2>0. /\ pc = "updateStatus" /\ UNCHANGED <<secretVars, iamVars, uids>> /\ pc' = "idle" /\ cur' = cur
          /\ claim' = [claim EXCEPT ![cur] = Bound(cur)]
      BY <1>0, <1>3, UpdateStatusIs DEF Ends
    <2>1. /\ Bound(cur).observed = Bound(cur).gen /\ Bound(cur).spec = claim[cur].spec
          /\ Bound(cur).finalizer = TRUE /\ Bound(cur) \in ClaimObject /\ claim'[cur] = Bound(cur)
      <3>1. claim'[cur] = Bound(cur)  BY <1>0, <2>0
      <3>2. loc \in ClaimObject /\ loc.spec \in Specs  BY <1>1 DEF AwsInv, PassFits, ClaimObject
      <3>3. TheBucket \in Names  BY <3>2, SpecFacts DEF TheBucket
      <3>4. Bound(cur) \in ClaimObject  BY <1>1, <3>3 DEF Bound, ClaimObject
      <3> QED  BY <1>1, <3>1, <3>4 DEF Bound, ClaimObject
    <2>2. ASSUME FirstLife(cur), NEW c, c = cur PROVE FirstLife(c)'
      BY <1>1, <2>0, <2>1, <2>2, StepsParts DEF FirstLife, At
    <2> QED  BY <1>1, <2>0, <2>1, <2>2, TidyPass, SpecFacts
  <1> QED  BY <1>2, <1>3

LEMMA TidyRemove ==
    ASSUME AwsInv, TidyAt(cur), RemoveFinalizer
    PROVE  \A c : c = cur => TidyAt(c)'
  <1>0. /\ WorkerTypes /\ ApiTypes /\ cur \in Claims
        /\ claim \in [Claims -> ClaimObject \cup {NoClaim}]
    BY DEF AwsInv, ApiTypes, WorkerTypes
  <1>1. /\ pc = "removeFinalizer" /\ pc' = "idle" /\ UNCHANGED <<uids, secret, secretCache, iamVars>>
        /\ claim[cur] # NoClaim
    BY <1>0, RemoveFinalizerIs DEF Ends, AwsInv, PassFits
  <1>2. CASE claim' = claim /\ stray' = stray
    <2>1. ASSUME FirstLife(cur), NEW c, c = cur PROVE FirstLife(c)'
      BY <1>1, <1>2, <2>1, StepsParts DEF FirstLife, At
    <2> QED  BY <1>1, <1>2, <2>1, TidyPass
  <1>3. CASE claim' = [claim EXCEPT ![cur] = NoClaim]
    <2>1. uids[cur] # 0  BY <1>1 DEF TidyAt, Untouched
    <2>2. uids[cur] = 1 => user[UserOf[cur]] = FALSE  BY <1>1 DEF TidyAt, FirstLife, At
    <2>3. claim'[cur] = NoClaim  BY <1>0, <1>3
    <2> QED  BY <1>1, <2>1, <2>2, <2>3 DEF TidyAt
  <1> QED  BY <1>0, <1>2, <1>3, RemoveFinalizerIs

LEMMA TidyStarts ==
    ASSUME AwsInv, NEW c \in Claims, TidyAt(c), StartProvision(c) \/ StartFinalize(c)
    PROVE  TidyAt(c)'
  <1>0. /\ WorkerTypes /\ ApiTypes /\ claim \in [Claims -> ClaimObject \cup {NoClaim}]
    BY DEF AwsInv, ApiTypes
  <1>1. /\ pc = "idle" /\ claim[c] # NoClaim /\ claim[c] \in ClaimObject
        /\ UNCHANGED <<uids, secretVars, iamVars>>
    BY <1>0, StartProvisionIs, StartFinalizeIs
  <1>2. uids[c] # 0  BY <1>1 DEF TidyAt, Untouched
  <1>3. CASE StartProvision(c)
    <2>1. /\ claim'[c] = Held(c) /\ Held(c) # NoClaim /\ Held(c).finalizer = TRUE
          /\ Held(c).spec = claim[c].spec /\ Held(c).observed = claim[c].observed
          /\ Held(c).gen = claim[c].gen
      BY <1>0, <1>1, <1>3, StartProvisionIs, SpecFacts DEF Held, ClaimObject
    <2>2. claim[c].observed # claim[c].gen  BY <1>0, <1>1, <1>3, StartProvisionIs DEF Settled
    <2>3. pc' = "idle" \/ (pc' = "createBucket" /\ cur' = c)  BY <1>0, <1>1, <1>3, StartProvisionIs
    <2>4. FirstLife(c) => FirstLife(c)'
      BY <1>1, <2>1, <2>2, <2>3, StepsParts DEF FirstLife, At
    <2> QED  BY <1>1, <1>2, <2>1, <2>4 DEF TidyAt
  <1>4. CASE StartFinalize(c)
    <2>1. claim' = claim /\ pc' = "dropPolicy" /\ cur' = c /\ cred' \in {NoKey, secretCache[c]}
      BY <1>0, <1>4, StartFinalizeIs DEF KeyToRevoke
    <2>2. FirstLife(c) => FirstLife(c)'
      BY <1>1, <2>1, StepsParts DEF FirstLife, At
    <2> QED  BY <1>1, <1>2, <2>1, <2>2 DEF TidyAt
  <1> QED  BY <1>3, <1>4

LEMMA TidyOthers ==
    ASSUME NeverEdited, AwsInv, Fixed, NEW c \in Claims, TidyAt(c), ~failures'.leak, OtherStep
    PROVE  TidyAt(c)'
  <1>0. /\ WorkerTypes /\ ApiTypes /\ claim \in [Claims -> ClaimObject \cup {NoClaim}]
        /\ uids \in [Claims -> Nat] /\ secret \in [Claims -> KeyIds \cup {NoKey}]
        /\ secretCache \in [Claims -> KeyIds \cup {NoKey}] /\ PassFits
    BY DEF AwsInv, ApiTypes
  <1>1. UNCHANGED <<iamVars, workerVars>>  BY <1>0, OtherStepIs
  <1>2. ASSUME claim'[c] = claim[c], uids'[c] = uids[c], secret'[c] = secret[c],
               secretCache'[c] = secretCache[c], c \in stray' <=> c \in stray
        PROVE  TidyAt(c)'
    BY <1>1, <1>2, TidyFrame
  <1>3. ASSUME NEW d \in Claims, DeleteClaim(d)  PROVE TidyAt(c)'
    <2>1. CASE c # d  BY <1>0, <1>2, <1>3, <2>1, DeleteClaimIs
    <2>2. CASE c = d
      <3>1. /\ claim[c] # NoClaim /\ uids[c] # 0 /\ UNCHANGED <<uids, secretVars>>
            /\ claim'[c] \in {Doomed(c), NoClaim} /\ Doomed(c) # NoClaim
            /\ claim'[c] = NoClaim => claim[c].finalizer = FALSE
            /\ Doomed(c).finalizer = claim[c].finalizer /\ Doomed(c).spec = claim[c].spec
            /\ Doomed(c).observed = claim[c].observed /\ Doomed(c).gen = claim[c].gen
        BY <1>0, <1>3, <2>2, DeleteClaimIs DEF TidyAt, Untouched, Doomed, ClaimObject
      <3>2. CASE claim'[c] = NoClaim
        BY <1>1, <3>1, <3>2 DEF TidyAt, FirstLife
      <3>3. CASE claim'[c] = Doomed(c)
        <4>1. FirstLife(c) => FirstLife(c)'  BY <1>1, <3>1, <3>3 DEF FirstLife, At
        <4> QED  BY <3>1, <3>3, <4>1 DEF TidyAt
      <3> QED  BY <3>1, <3>2, <3>3
    <2> QED  BY <2>1, <2>2
  <1>4. ASSUME NEW d \in Claims, NEW s \in Specs, CreateClaim(d, s)  PROVE TidyAt(c)'
    <2>1. CASE c # d  BY <1>0, <1>2, <1>4, <2>1, CreateClaimIs
    <2>2. CASE c = d
      <3>1. /\ claim[c] = NoClaim /\ claim'[c] = NewClaim(s) /\ NewClaim(s) # NoClaim
            /\ uids'[c] = uids[c] + 1 /\ UNCHANGED secretVars /\ NewClaim(s).finalizer = FALSE
        BY <1>0, <1>4, <2>2, CreateClaimIs DEF NewClaim
      <3>2. pc = "idle" \/ cur # c  BY <1>0, <3>1 DEF PassFits
      <3>3. uids[c] \in Nat  BY <1>0
      <3>4. CASE uids[c] # 0  BY <3>1, <3>3, <3>4 DEF TidyAt
      <3>5. CASE uids[c] = 0
        <4>1. Untouched(c)  BY <3>5 DEF TidyAt
        <4>2. FirstLife(c)'  BY <1>1, <3>1, <3>2, <4>1, StepsParts DEF Untouched, FirstLife, At
        <4> QED  BY <3>1, <3>5, <4>2 DEF TidyAt
      <3> QED  BY <3>4, <3>5
    <2> QED  BY <2>1, <2>2
  <1>5. ASSUME NEW d \in Claims, NEW s \in Specs, EditClaim(d, s)  PROVE FALSE
    <2>1. claim[d].gen = 1 /\ claim[d].gen < MaxGen  BY <1>0, <1>5, EditClaimIs DEF Fixed
    <2> QED  BY <2>1, AwsAssumption DEF NeverEdited
  <1>6. ASSUME NEW d \in Claims, DeleteSecret(d)  PROVE FALSE
    <2>1. Fault("secret")  BY <1>6 DEF DeleteSecret
    <2> QED  BY <1>0, <2>1, FaultIs DEF Leaks
  <1>7. ASSUME NEW d \in Claims, CollectSecret(d)  PROVE TidyAt(c)'
    <2>1. CASE c # d  BY <1>0, <1>2, <1>7, <2>1 DEF CollectSecret
    <2>2. CASE c = d
      <3>1. c \in stray /\ UNCHANGED <<claim, uids>>  BY <1>7, <2>2 DEF CollectSecret
      <3> QED  BY <1>1, <3>1 DEF TidyAt, Untouched, FirstLife
    <2> QED  BY <2>1, <2>2
  <1>8. ASSUME NEW d \in Claims, SyncSecret(d)  PROVE TidyAt(c)'
    <2>1. CASE c # d  BY <1>0, <1>2, <1>8, <2>1 DEF SyncSecret
    <2>2. CASE c = d
      <3>1. secretCache'[c] = secret[c] /\ UNCHANGED <<claim, uids, secret, stray>>
        BY <1>0, <1>8, <2>2 DEF SyncSecret
      <3>2. Untouched(c) => Untouched(c)'  BY <1>1, <3>1 DEF Untouched
      <3>3. FirstLife(c) => FirstLife(c)'  BY <1>1, <3>1 DEF FirstLife, At
      <3> QED  BY <1>1, <3>1, <3>2, <3>3 DEF TidyAt
    <2> QED  BY <2>1, <2>2
  <1>9. CASE EditClass  BY <1>2, <1>9 DEF EditClass
  <1> QED  BY <1>3, <1>4, <1>5, <1>6, <1>7, <1>8, <1>9 DEF OtherStep

LEMMA TidyStep ==
    ASSUME OwnUser, NeverEdited, AwsInv, Fixed, Tidy, [Next]_vars
    PROVE  Tidy'
  <1> SUFFICES ASSUME ~failures'.leak, NEW c \in Claims PROVE TidyAt(c)'  BY DEF Tidy
  <1>0. /\ WorkerTypes /\ ApiTypes /\ PassFits /\ cur \in Claims
        /\ claim \in [Claims -> ClaimObject \cup {NoClaim}]
        /\ secret \in [Claims -> KeyIds \cup {NoKey}]
    BY DEF AwsInv, ApiTypes, WorkerTypes
  <1>1. failures.leak => failures'.leak
    BY <1>0, NextIs, S3StepIs, IamStepIs, WriteSecretIs, UpdateStatusIs, RemoveFinalizerIs,
       StartProvisionIs, StartFinalizeIs, OtherStepIs DEF FailuresKept, vars
  <1>2. TidyAt(c)  BY <1>1 DEF Tidy
  (* A pass on another claim.                                              *)
  <1>3. ASSUME c # cur, pc # "idle", cur' = cur, claim'[c] = claim[c], uids' = uids, secret'[c] = secret[c],
               secretCache' = secretCache, c \in stray' <=> c \in stray
        PROVE  TidyAt(c)'
    BY <1>2, <1>3, OthersUntouched, TidyFrame
  <1>4. CASE S3Step
    <2>1. c # cur => TidyAt(c)'  BY <1>0, <1>3, <1>4, S3StepIs DEF Ends, Moves
    <2> QED  BY <1>2, <1>4, <2>1, TidyS3
  <1>5. CASE IamStep
    <2>1. c # cur => TidyAt(c)'  BY <1>0, <1>3, <1>5, IamStepIs DEF Ends, Moves
    <2> QED  BY <1>2, <1>5, <2>1, TidyGrant, TidyRevoke DEF IamStep
  <1>6. CASE WriteSecret
    <2>1. c # cur => TidyAt(c)'  BY <1>0, <1>3, <1>6, WriteSecretIs DEF Ends, Moves
    <2> QED  BY <1>2, <1>6, <2>1, TidyWrites
  <1>7. CASE UpdateStatus
    <2>1. c # cur => TidyAt(c)'  BY <1>0, <1>3, <1>7, UpdateStatusIs DEF Ends, Moves
    <2> QED  BY <1>2, <1>7, <2>1, TidyWrites
  <1>8. CASE RemoveFinalizer
    <2>1. c # cur => TidyAt(c)'  BY <1>0, <1>3, <1>8, RemoveFinalizerIs DEF Ends, Moves
    <2> QED  BY <1>2, <1>8, <2>1, TidyRemove
  <1>9. ASSUME NEW d \in Claims, StartProvision(d) \/ StartFinalize(d)  PROVE TidyAt(c)'
    <2>1. CASE c = d  BY <1>2, <1>9, <2>1, TidyStarts
    <2>2. CASE c # d
      <3>1. pc = "idle" /\ (cur' = d \/ (cur' = cur /\ pc' = pc)) /\ claim'[c] = claim[c]
            /\ UNCHANGED <<uids, secretVars, iamVars>>
        BY <1>0, <1>9, <2>2, StartProvisionIs, StartFinalizeIs
      <3> QED  BY <1>2, <2>2, <3>1, TidyFrame
    <2> QED  BY <2>1, <2>2
  <1>10. CASE OtherStep  BY <1>2, <1>10, TidyOthers
  <1>11. CASE UNCHANGED vars  BY <1>2, <1>11, TidyFrame DEF vars
  <1> QED  BY <1>4, <1>5, <1>6, <1>7, <1>8, <1>9, <1>10, <1>11, NextIs

(* The IAM user of the first claim of its name is gone when the claim is,  *)
(* whichever calls failed, if none of those that leak did.                 *)
THEOREM NoOrphanUsers == OwnUser /\ NeverEdited => (Spec => []NoOrphanIamUser)
  <1> SUFFICES ASSUME OwnUser, NeverEdited PROVE Spec => []NoOrphanIamUser  OBVIOUS
  <1> DEFINE I == Fixed /\ Tidy /\ UsersKnown
  <1>1. Init => I
    BY AwsAssumption DEF Init, Fixed, Tidy, TidyAt, Untouched, UsersKnown
  <1>2. AwsInv /\ I /\ [Next]_vars => I'  BY FixedStep, TidyStep, UsersKnownStep
  <1>3. AwsInv /\ I => NoOrphanIamUser
    <2> SUFFICES ASSUME AwsInv, I, NEW u \in Users, user[u], ~failures.leak
                 PROVE  \E c \in Claims : UserOf[c] = u /\ (claim[c] # NoClaim \/ uids[c] > 1)
      BY DEF NoOrphanIamUser
    <2>0. user[u] = TRUE  BY DEF AwsInv, IamTypes
    <2>1. PICK c \in Claims : UserOf[c] = u  BY <2>0 DEF UsersKnown
    <2>2. TidyAt(c) /\ uids[c] \in Nat  BY DEF Tidy, AwsInv, ApiTypes
    <2>3. claim[c] # NoClaim \/ uids[c] \notin {0, 1}  BY <2>0, <2>1, <2>2 DEF TidyAt, Untouched
    <2> QED  BY <2>1, <2>2, <2>3
  <1> HIDE DEF I
  <1> QED  BY <1>1, <1>2, <1>3, AwsPassesFit, PTL DEF Spec
=============================================================================
