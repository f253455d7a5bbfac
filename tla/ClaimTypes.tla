----------------------------- MODULE ClaimTypes -----------------------------
(***************************************************************************)
(* The objects the operator handles and the names it derives from them:    *)
(* BucketClaims and BucketClasses as the Kubernetes API stores them, the   *)
(* credentials Secret of a claim, and the bucket, user and policy names    *)
(* of the MinIO backend.  Shared by every module that models a component   *)
(* working on these objects.                                               *)
(***************************************************************************)
EXTENDS Integers

CONSTANTS
    Claims,        \* namespaced names of BucketClaims
    Classes,       \* names of BucketClasses
    Names,         \* bucket names, as written in a spec and as sent to MinIO
    Keys,          \* MinIO user names (access key IDs)
    Specs,         \* the claim specs a user may write
    Canon,         \* strings.ToLower(strings.TrimSpace(n)) of a name n
    DefaultName,   \* "<namespace>-<name>" of a claim
    KeyOf,         \* accessKeyForAccount("<namespace>-<name>") of a claim
    None,          \* an absent object, name, key or policy
    Custom         \* a secret key chosen by a user, not derived by the operator

(* A spec keeps what decides the control flow: quota 0 stands for a quota  *)
(* that is absent, not an int64 or not positive; rules 0 for no lifecycle  *)
(* rules; replicate for the presence of a replicationTarget.               *)
SpecType == [className  : Classes,
             bucketName : Names \cup {None},
             quota      : Nat,
             rules      : Nat,
             replicate  : BOOLEAN,
             accessType : {"ReadWrite", "ReadOnly"}]

Phases == {"", "Pending", "Failed", "Bound"}

(* Why the Ready condition is as it is: its reason, and the backend call   *)
(* its message is about, if any.                                           *)
Reasons == {"", "BucketClassNotFound", "BucketClassLookupFailed", "UnsupportedDriver",
            "CredentialSecretNotFound", "unsupported", "awsInvalid",
            "MinioCredentialSecretInvalid", "Provisioning", "Failed",
            "ReconcileSecretFailed", "BucketProvisioned"}
Calls   == {"createBucket", "setQuota", "setLifecycle", "addUser", "addPolicy", "setPolicy"}
Why     == Reasons \X ({""} \cup Calls)

(* A BucketClaim.  The controller always writes the Ready condition and    *)
(* bucketReady together with the phase (True exactly when Bound), so phase *)
(* stands for the three; why is the condition's reason and message.        *)
ClaimObject == [uid        : Nat,
                gen        : Nat,
                spec       : Specs,
                deleting   : BOOLEAN,
                finalizer  : BOOLEAN,
                phase      : Phases,
                why        : Why,
                observed   : Nat,
                bucketName : Names \cup {None},
                secretRef  : BOOLEAN]

(* provider is what ProviderForClass answers for the class: a client, or   *)
(* which of the errors the controller tells apart.                         *)
Providers == {"ok", "secretNotFound", "unsupported", "awsInvalid", "invalid"}

ClassObject == [driver         : {"k8s-s3-bucket-operator", "other"},
                deletionPolicy : {"Delete", "Retain"},
                provider       : Providers,
                bucketName     : Names \cup {None}]

Credential == [id : Keys, secret : Claims \cup {Custom}]

(* The credentials Secret; owner is the uid of its controller, 0 if none.  *)
SecretObject == [cred   : Credential,
                 bucket : Names \cup {None},
                 owner  : Nat]

PolicyId == Names \X Claims

(* Backend state of one bucket, one user and one canned policy.            *)
BucketState == [exists : BOOLEAN, quota : Nat, rules : Nat, replicate : BOOLEAN]
UserState   == [secret : Claims \cup {Custom, None}, policy : PolicyId \cup {None}]
PolicyState == {"ReadWrite", "ReadOnly", "absent"}

NoBucket == [exists |-> FALSE, quota |-> 0, rules |-> 0, replicate |-> FALSE]
NoUser   == [secret |-> None, policy |-> None]

ASSUME SpecsAssumption == Specs \subseteq SpecType
ASSUME NamesAssumption ==
    /\ Canon \in [Names -> Names]
    /\ \A n \in Names : Canon[Canon[n]] = Canon[n]
    /\ DefaultName \in [Claims -> Names]
    /\ KeyOf \in [Claims -> Keys]
ASSUME NoneAssumption ==
    /\ None \notin Names \cup Claims \cup Keys \cup PolicyId
    /\ None \notin ClaimObject
    /\ None \notin ClassObject
    /\ None \notin SecretObject
    /\ None \notin Credential
    /\ Custom \notin Claims \cup {None}
-----------------------------------------------------------------------------
(* A plausible slip: the name is used as the user typed it.                *)
BucketNameForUncanonical(c, s, k) ==
    IF s.bucketName # None THEN s.bucketName
    ELSE IF k.bucketName # None THEN k.bucketName ELSE DefaultName[c]

(* The bucket createBucketAndConfigure works on: the claim's own name, or  *)
(* the hint in the class parameters, or namespace-name; in lower case.     *)
BucketNameFor(c, s, k) ==
    Canon[IF s.bucketName # None THEN s.bucketName
          ELSE IF k.bucketName # None THEN k.bucketName ELSE DefaultName[c]]

(* The bucket RevokeAccessAndMaybeDeleteBucket works on: the one in the    *)
(* status, or the name in the spec as it is, or namespace-name.            *)
FinalizeName(c, o) ==
    IF o.bucketName # None THEN o.bucketName
    ELSE IF o.spec.bucketName # None THEN o.spec.bucketName ELSE DefaultName[c]

(* A plausible slip: a fixed user name for every account.                  *)
DerivedCredShared(c) == [id |-> CHOOSE k \in Keys : TRUE, secret |-> c]

(* Credentials MinIO's GrantAccess derives for an account.                 *)
DerivedCred(c) == [id |-> KeyOf[c], secret |-> c]
=============================================================================
