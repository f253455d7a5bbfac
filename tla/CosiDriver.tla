----------------------------- MODULE CosiDriver -----------------------------
(***************************************************************************)
(* The COSI gRPC driver.  A sidecar asks it to create and delete buckets   *)
(* for Bucket objects and to grant and revoke access for BucketAccess      *)
(* objects; every request is handled by a goroutine of its own against the *)
(* operator's default MinIO client.  The driver keeps no state: it answers *)
(* from the request, MinIO and, for a deletion, the Bucket object.         *)
(*                                                                         *)
(* The sidecar (external) asks again until it is answered OK and records   *)
(* the answer in the object.  If it gives up waiting, the request's        *)
(* context is cancelled: the call under way may yet take effect, and the   *)
(* handler makes no other.                                                 *)
(***************************************************************************)
EXTENDS Integers, Sequences

CONSTANTS
    Buckets,         \* names of Bucket objects
    Accesses,        \* names of BucketAccesses
    BucketOf,        \* the Bucket a BucketAccess is for
    Names, Keys,     \* MinIO bucket and user names
    IdOf,            \* strings.ToLower of a Bucket's name
    KeyOf,           \* accessKeyForAccount("cosi-<SyntheticClaimName>") of a BucketAccess
    Params,          \* parameters of each Bucket, see BucketParams
    AccessParams,    \* and of each BucketAccess
    None,            \* an absent object, name, key or policy
    Slots,           \* bound: requests handled at once
    Disturbances, MaxDisturbances

(* quota "bad" stands for any parameter that does not parse; hint is the   *)
(* parameter bucketName, policy the deletionPolicy of the Bucket's spec.   *)
BucketParams == [quota : {"none", "set", "bad"}, rules : BOOLEAN, replication : BOOLEAN,
                 hint : Names \cup {None}, policy : {"Delete", "Retain", ""}]
GrantParams  == [auth : {"Key", "IAM"}, type : {"ReadWrite", "ReadOnly"},
                 existing : Keys \cup {None}]

ASSUME CosiAssumption ==
    /\ BucketOf \in [Accesses -> Buckets]
    /\ IdOf \in [Buckets -> Names] /\ KeyOf \in [Accesses -> Keys]
    /\ Params \in [Buckets -> BucketParams] /\ AccessParams \in [Accesses -> GrantParams]
    /\ Disturbances \subseteq {"fault", "revokeFault", "unreadable", "timeout"}
    /\ MaxDisturbances \in Nat
    /\ None \notin Names \cup Keys \cup Accesses

VARIABLES
    bucketObj,   \* each Bucket object: [stage, id]
    accessObj,   \* each BucketAccess: [stage, account]
    rpc,         \* the request each goroutine handles, or None
    made,        \* MinIO: buckets
    quotas,      \* MinIO: buckets with a quota
    ruled,       \* MinIO: buckets with lifecycle rules
    mirrored,    \* MinIO: buckets with replication
    users,       \* MinIO: users
    policies,    \* MinIO: canned policies, [PolicyId -> access type or None]
    attached,    \* MinIO: the policy of each user
    disturbed    \* disturbances so far

minioVars == <<made, quotas, ruled, mirrored, users, policies, attached>>
vars == <<bucketObj, accessObj, rpc, minioVars, disturbed>>

Stages   == {"absent", "wanted", "ready", "doomed", "gone"}
PolicyId == Names \X Accesses
Ops      == {"create", "delete", "grant", "revoke"}
Steps    == {"makeBucket", "setQuota", "setRules", "setReplication", "readBucket", "deleteBucket",
             "addUser", "addPolicy", "setPolicy", "removeUser", "removePolicy"}

(* object stands for the name in the request or the account that encodes   *)
(* it, name for the bucket_id.                                             *)
Request == [op : Ops, object : Buckets \cup Accesses, name : Names, step : Steps,
            cancelled : BOOLEAN]

Init ==
    /\ bucketObj = [b \in Buckets |-> [stage |-> "absent", id |-> None]]
    /\ accessObj = [a \in Accesses |-> [stage |-> "absent", account |-> None]]
    /\ rpc = [s \in Slots |-> None]
    /\ made = {} /\ quotas = {} /\ ruled = {} /\ mirrored = {} /\ users = {}
    /\ policies = [p \in PolicyId |-> None] /\ attached = [k \in Keys |-> None]
    /\ disturbed = <<>>
-----------------------------------------------------------------------------
(* Helpers.                                                                *)

Disturb(kind) == /\ kind \in Disturbances
                 /\ Len(disturbed) < MaxDisturbances
                 /\ disturbed' = Append(disturbed, kind)

(* BuildSyntheticClaim sets spec.bucketName, always.                       *)
SpecBucketName(b) == IdOf[b]

(* createBucketAndConfigure: the name in the spec, or else the hint.       *)
BackendName(b) == IF SpecBucketName(b) # None THEN SpecBucketName(b) ELSE Params[b].hint

(* ApplyClaimParameterExtensions and the checks before it.                 *)
ValidBucket(b) == Params[b].quota # "bad"
ValidGrant(a)  == AccessParams[a].auth = "Key"

(* A plausible slip: an identifier is not asked for.                       *)
IdentifiedUnchecked(id) == TRUE

(* bucket_id and account_id are required.                                  *)
Identified(id) == id # None

(* syntheticClassFromParameters without parameters.                        *)
GuessedPolicy == "Retain"

(* grantAccess prefers the key of the parameters.                          *)
GrantedKey(a) == IF AccessParams[a].existing # None THEN AccessParams[a].existing ELSE KeyOf[a]

(* The revocation is not given the parameters and derives the key.         *)
RevokedKey(a) == KeyOf[a]

At(s, step)  == rpc[s] # None /\ rpc[s].step = step
Object(s)    == rpc[s].object
Bucket(s)    == rpc[s].name

(* A handler returns; the sidecar is told unless it has given up.          *)
End(s)       == rpc' = [rpc EXCEPT ![s] = None]
Fail(s)      == End(s) /\ UNCHANGED <<bucketObj, accessObj>>
SetBucket(b, stage, id) == bucketObj' = [bucketObj EXCEPT ![b] = [stage |-> stage, id |-> id]]
SetAccess(a, stage, account) ==
    accessObj' = [accessObj EXCEPT ![a] = [stage |-> stage, account |-> account]]

(* What the sidecar makes of the answer OK.                                *)
Answer(s) ==
    LET o == Object(s)
    IN  CASE rpc[s].op = "create" ->
               /\ IF bucketObj[o].stage = "wanted" THEN SetBucket(o, "ready", Bucket(s))
                                                   ELSE SetBucket(o, "doomed", Bucket(s))
               /\ UNCHANGED accessObj
          [] rpc[s].op = "delete" -> SetBucket(o, "gone", Bucket(s)) /\ UNCHANGED accessObj
          [] rpc[s].op = "grant"  ->
               /\ IF accessObj[o].stage = "wanted" THEN SetAccess(o, "ready", o)
                                                   ELSE SetAccess(o, "doomed", o)
               /\ UNCHANGED bucketObj
          [] rpc[s].op = "revoke" -> SetAccess(o, "gone", o) /\ UNCHANGED bucketObj

(* A plausible slip: a failed call does not end the request.               *)
ProceedUnchecked(s, applied, next) ==
    /\ IF next = "OK" THEN End(s) /\ Answer(s)
       ELSE rpc' = [rpc EXCEPT ![s].step = next] /\ UNCHANGED <<bucketObj, accessObj>>
    /\ \/ applied /\ UNCHANGED disturbed
       \/ Disturb("fault")

(* After a call that took effect or not: go on, or fail, which every call  *)
(* does for a cancelled request.                                           *)
Proceed(s, applied, next) ==
    \/ rpc[s].cancelled /\ Fail(s) /\ UNCHANGED disturbed
    \/ /\ ~rpc[s].cancelled /\ applied /\ UNCHANGED disturbed
       /\ IF next = "OK" THEN End(s) /\ Answer(s)
          ELSE rpc' = [rpc EXCEPT ![s].step = next] /\ UNCHANGED <<bucketObj, accessObj>>
    \/ ~rpc[s].cancelled /\ Disturb("fault") /\ Fail(s)

(* A plausible slip: the revocation is over when the user is removed.      *)
EndAfterUser(s, next) == IF rpc[s].cancelled THEN Fail(s) ELSE End(s) /\ Answer(s)

(* After a call whose failures are only logged, also that of a cancelled   *)
(* context: go on.                                                         *)
NextOrEnd(s, next) ==
    IF rpc[s].cancelled THEN Fail(s)
    ELSE IF next = "OK" THEN End(s) /\ Answer(s)
    ELSE rpc' = [rpc EXCEPT ![s].step = next] /\ UNCHANGED <<bucketObj, accessObj>>
-----------------------------------------------------------------------------
(* DriverCreateBucket, after validation: ProvisionBucket.                  *)

AfterRules(b) == IF Params[b].replication THEN "setReplication" ELSE "OK"
AfterQuota(b) == IF Params[b].rules THEN "setRules" ELSE AfterRules(b)

(* A plausible slip: a bucket that is there counts as configured.          *)
AfterBucketShort(b) ==
    IF IdOf[b] \in made THEN "OK" ELSE IF Params[b].quota = "set" THEN "setQuota" ELSE AfterQuota(b)

AfterBucket(b) == IF Params[b].quota = "set" THEN "setQuota" ELSE AfterQuota(b)

MakeBucket(s) ==
    /\ At(s, "makeBucket")
    /\ \E applied \in BOOLEAN :
          /\ made' = IF applied THEN made \cup {Bucket(s)} ELSE made
          /\ Proceed(s, applied, AfterBucket(Object(s)))
    /\ UNCHANGED <<quotas, ruled, mirrored, users, policies, attached>>

(* The two settings fail on a bucket that is not there.                    *)
SetQuota(s) ==
    /\ At(s, "setQuota")
    /\ \/ /\ Bucket(s) \in made
          /\ \E applied \in BOOLEAN :
                /\ quotas' = IF applied THEN quotas \cup {Bucket(s)} ELSE quotas
                /\ Proceed(s, applied, AfterQuota(Object(s)))
       \/ Bucket(s) \notin made /\ Fail(s) /\ UNCHANGED <<quotas, disturbed>>
    /\ UNCHANGED <<made, ruled, mirrored, users, policies, attached>>

SetRules(s) ==
    /\ At(s, "setRules")
    /\ \/ /\ Bucket(s) \in made
          /\ \E applied \in BOOLEAN :
                /\ ruled' = IF applied THEN ruled \cup {Bucket(s)} ELSE ruled
                /\ Proceed(s, applied, AfterRules(Object(s)))
       \/ Bucket(s) \notin made /\ Fail(s) /\ UNCHANGED <<ruled, disturbed>>
    /\ UNCHANGED <<made, quotas, mirrored, users, policies, attached>>

(* Best effort: a failure does not fail the request.                       *)
SetReplication(s) ==
    /\ At(s, "setReplication")
    /\ \/ Bucket(s) \in made /\ mirrored' = mirrored \cup {Bucket(s)} /\ UNCHANGED disturbed
       \/ Bucket(s) \notin made /\ UNCHANGED <<mirrored, disturbed>>
       \/ /\ IF rpc[s].cancelled THEN UNCHANGED disturbed ELSE Disturb("fault")
          /\ UNCHANGED mirrored
    /\ NextOrEnd(s, "OK")
    /\ UNCHANGED <<made, quotas, ruled, users, policies, attached>>
-----------------------------------------------------------------------------
(* DriverDeleteBucket.                                                     *)

(* Plausible slips: only an explicit Retain keeps the bucket; the policy   *)
(* is compared with a value it never has.                                  *)
DeletesLowerCase(policy) == policy = "delete"

DeletesUnlessRetain(policy) == policy # "Retain"

Deletes(policy) == policy = "Delete"

(* The Bucket object decides; if it cannot be read, a guess from its name  *)
(* does, which is always to keep the bucket.  A cancelled context cannot   *)
(* read either, but then nobody hears the answer.                          *)
ReadBucket(s) ==
    /\ At(s, "readBucket")
    /\ \/ /\ ~rpc[s].cancelled /\ UNCHANGED disturbed
          /\ IF Deletes(Params[Object(s)].policy)
             THEN rpc' = [rpc EXCEPT ![s].step = "deleteBucket"] /\ UNCHANGED <<bucketObj, accessObj>>
             ELSE End(s) /\ Answer(s)
       \/ ~rpc[s].cancelled /\ Disturb("unreadable") /\ ~Deletes(GuessedPolicy) /\ End(s) /\ Answer(s)
       \/ rpc[s].cancelled /\ Fail(s) /\ UNCHANGED disturbed
    /\ UNCHANGED minioVars

DeleteBucket(s) ==
    /\ At(s, "deleteBucket")
    /\ \E applied \in BOOLEAN :
          /\ made' = IF applied THEN made \ {Bucket(s)} ELSE made
          /\ quotas' = quotas \cap made' /\ ruled' = ruled \cap made' /\ mirrored' = mirrored \cap made'
          /\ Proceed(s, applied, "OK")
    /\ UNCHANGED <<users, policies, attached>>
-----------------------------------------------------------------------------
(* DriverGrantBucketAccess, after validation: GrantBucketAccess.           *)

ThePolicy(s) == <<Bucket(s), Object(s)>>

AddUser(s) ==
    /\ At(s, "addUser")
    /\ \E applied \in BOOLEAN :
          /\ users' = IF applied THEN users \cup {GrantedKey(Object(s))} ELSE users
          /\ Proceed(s, applied, "addPolicy")
    /\ UNCHANGED <<made, quotas, ruled, mirrored, policies, attached>>

AddPolicy(s) ==
    /\ At(s, "addPolicy")
    /\ \E applied \in BOOLEAN :
          /\ policies' = IF applied
                         THEN [policies EXCEPT ![ThePolicy(s)] = AccessParams[Object(s)].type]
                         ELSE policies
          /\ Proceed(s, applied, "setPolicy")
    /\ UNCHANGED <<made, quotas, ruled, mirrored, users, attached>>

(* Refused when the user or the policy is not there.                       *)
SetPolicy(s) ==
    /\ At(s, "setPolicy")
    /\ LET k == GrantedKey(Object(s))
           possible == k \in users /\ policies[ThePolicy(s)] # None
       IN  \/ /\ possible
              /\ \E applied \in BOOLEAN :
                    /\ attached' = IF applied THEN [attached EXCEPT ![k] = ThePolicy(s)] ELSE attached
                    /\ Proceed(s, applied, "OK")
           \/ ~possible /\ Fail(s) /\ UNCHANGED <<attached, disturbed>>
    /\ UNCHANGED <<made, quotas, ruled, mirrored, users, policies>>
-----------------------------------------------------------------------------
(* DriverRevokeBucketAccess: RevokeBucketAccess, whose calls only log      *)
(* their failures, also that of a cancelled context.                       *)

RemoveUser(s) ==
    /\ At(s, "removeUser")
    /\ LET k == RevokedKey(Object(s))
       IN  \/ /\ users' = users \ {k} /\ attached' = [attached EXCEPT ![k] = None]
              /\ UNCHANGED disturbed
           \/ /\ IF rpc[s].cancelled THEN UNCHANGED disturbed ELSE Disturb("revokeFault")
              /\ UNCHANGED <<users, attached>>
    /\ NextOrEnd(s, "removePolicy")
    /\ UNCHANGED <<made, quotas, ruled, mirrored, policies>>

RemovePolicy(s) ==
    /\ At(s, "removePolicy")
    /\ \/ policies' = [policies EXCEPT ![ThePolicy(s)] = None] /\ UNCHANGED disturbed
       \/ /\ IF rpc[s].cancelled THEN UNCHANGED disturbed ELSE Disturb("revokeFault")
          /\ UNCHANGED policies
    /\ NextOrEnd(s, "OK")
    /\ UNCHANGED <<made, quotas, ruled, mirrored, users, attached>>
-----------------------------------------------------------------------------
(* The sidecar and the users of the API (external).                        *)

(* One request per object at a time that anybody waits for.  What is       *)
(* deleted before it was answered has no identifier, and is refused.       *)
Waiting(o) == \E s \in Slots : rpc[s] # None /\ rpc[s].object = o /\ ~rpc[s].cancelled

Ask(s, op, o, name, step) ==
    /\ rpc[s] = None /\ ~Waiting(o)
    /\ rpc' = [rpc EXCEPT ![s] = [op |-> op, object |-> o, name |-> name, step |-> step,
                                  cancelled |-> FALSE]]
    /\ UNCHANGED <<bucketObj, accessObj, minioVars, disturbed>>

(* A request that does not validate is answered with an error and changes  *)
(* nothing.                                                                *)
AskCreate(s, b) ==
    /\ bucketObj[b].stage = "wanted" /\ ValidBucket(b)
    /\ Ask(s, "create", b, BackendName(b), "makeBucket")

AskDelete(s, b) ==
    /\ bucketObj[b].stage = "doomed" /\ Identified(bucketObj[b].id)
    /\ Ask(s, "delete", b, bucketObj[b].id, "readBucket")

AskGrant(s, a) ==
    LET b == BucketOf[a]
    IN  /\ accessObj[a].stage = "wanted" /\ bucketObj[b].stage = "ready" /\ ValidGrant(a)
        /\ Ask(s, "grant", a, bucketObj[b].id, "addUser")

(* The account of the answer to the grant leads back to the same name.     *)
AskRevoke(s, a) ==
    /\ accessObj[a].stage = "doomed" /\ Identified(accessObj[a].account)
    /\ Ask(s, "revoke", a, bucketObj[BucketOf[a]].id, "removeUser")

GiveUp(s) ==
    /\ rpc[s] # None /\ ~rpc[s].cancelled /\ Disturb("timeout")
    /\ rpc' = [rpc EXCEPT ![s].cancelled = TRUE]
    /\ UNCHANGED <<bucketObj, accessObj, minioVars>>

Want(o) ==
    /\ \/ /\ o \in Buckets /\ bucketObj[o].stage = "absent"
          /\ SetBucket(o, "wanted", None) /\ UNCHANGED accessObj
       \/ /\ o \in Accesses /\ accessObj[o].stage = "absent"
          /\ SetAccess(o, "wanted", None) /\ UNCHANGED bucketObj
    /\ UNCHANGED <<rpc, minioVars, disturbed>>

Doom(o) ==
    /\ \/ /\ o \in Buckets /\ bucketObj[o].stage \in {"wanted", "ready"}
          /\ SetBucket(o, "doomed", bucketObj[o].id) /\ UNCHANGED accessObj
       \/ /\ o \in Accesses /\ accessObj[o].stage \in {"wanted", "ready"}
          /\ SetAccess(o, "doomed", accessObj[o].account) /\ UNCHANGED bucketObj
    /\ UNCHANGED <<rpc, minioVars, disturbed>>

Handle(s) ==
    \/ MakeBucket(s) \/ SetQuota(s) \/ SetRules(s) \/ SetReplication(s) \/ ReadBucket(s) \/ DeleteBucket(s)
    \/ AddUser(s) \/ AddPolicy(s) \/ SetPolicy(s) \/ RemoveUser(s) \/ RemovePolicy(s)

Next ==
    \/ \E s \in Slots :
          \/ Handle(s) \/ GiveUp(s)
          \/ \E b \in Buckets : AskCreate(s, b) \/ AskDelete(s, b)
          \/ \E a \in Accesses : AskGrant(s, a) \/ AskRevoke(s, a)
    \/ \E o \in Buckets \cup Accesses : Want(o) \/ Doom(o)

Spec == Init /\ [][Next]_vars
-----------------------------------------------------------------------------
(* Correctness.                                                            *)

TypeOK ==
    /\ bucketObj \in [Buckets -> [stage : Stages, id : Names \cup {None}]]
    /\ accessObj \in [Accesses -> [stage : Stages, account : Accesses \cup {None}]]
    /\ rpc \in [Slots -> Request \cup {None}]
    /\ made \subseteq Names /\ quotas \subseteq made /\ ruled \subseteq made
    /\ mirrored \subseteq made
    /\ users \subseteq Keys
    /\ policies \in [PolicyId -> {"ReadWrite", "ReadOnly", None}]
    /\ attached \in [Keys -> PolicyId \cup {None}]
    /\ disturbed \in Seq(Disturbances)

(* A Bucket that is ready has its backend bucket, with the quota and rules *)
(* asked for, although creating it may have taken several requests, some   *)
(* of them given up and still running.                                     *)
ReadyIsConfigured ==
    \A b \in Buckets : bucketObj[b].stage = "ready" =>
        LET n == bucketObj[b].id
        IN  /\ n \in made
            /\ Params[b].quota = "set" => n \in quotas
            /\ Params[b].rules => n \in ruled

(* The credentials a BucketAccess was answered with work, with the access  *)
(* asked for, until it is deleted.                                         *)
GrantedWorks ==
    \A a \in Accesses : accessObj[a].stage = "ready" =>
        LET k == GrantedKey(a)
        IN  /\ k \in users /\ attached[k] = <<BackendName(BucketOf[a]), a>>
            /\ policies[attached[k]] = AccessParams[a].type

(* A backend bucket goes only for a Bucket that was deleted and whose      *)
(* policy is to delete, whatever fails or is given up.                     *)
RemovedOnRequest ==
    [][ \A n \in Names : n \in made /\ n \notin made' =>
          \E b \in Buckets : /\ BackendName(b) = n /\ Params[b].policy = "Delete"
                             /\ bucketObj[b].stage \in {"doomed", "gone"} ]_vars

Happened(kind) == \E i \in DOMAIN disturbed : disturbed[i] = kind

(* When a BucketAccess is gone, so are the user and the policy made for    *)
(* it, whatever failed before.  Not made good: a revocation that failed,   *)
(* which is only logged, and a request given up that still runs.           *)
NoOrphanGrant ==
    ~Happened("revokeFault") /\ ~Happened("timeout") =>
    \A a \in Accesses : accessObj[a].stage = "gone" =>
        /\ GrantedKey(a) \notin users
        /\ \A n \in Names : policies[<<n, a>>] = None

(* When a Bucket with the policy Delete is gone, so is its backend bucket. *)
(* Not made good: a Bucket that could not be read, which is taken for one  *)
(* to retain, and a request given up that still runs.                      *)
NoOrphanBucket ==
    ~Happened("unreadable") /\ ~Happened("timeout") =>
    \A b \in Buckets :
        bucketObj[b].stage = "gone" /\ Params[b].policy = "Delete" => BackendName(b) \notin made
=============================================================================
