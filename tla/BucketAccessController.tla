----------------------- MODULE BucketAccessController -----------------------
(***************************************************************************)
(* The BucketAccess controller (COSI mode), beside the BucketClaim         *)
(* controller.  A BucketAccess asks for a user of its own on the bucket of *)
(* a claim in its namespace.                                               *)
(*                                                                         *)
(* The controller's one worker reads the BucketAccess from the API server  *)
(* (unstructured objects are not cached), the claim and the credentials    *)
(* Secret from caches, which may be behind.  The claims live the life      *)
(* ClaimLifecycle describes, run by another worker that shares MinIO with  *)
(* this one.  The controller watches BucketAccesses only: it learns of a   *)
(* claim by asking again.                                                  *)
(***************************************************************************)
EXTENDS ClaimLifecycle, Integers, Sequences

CONSTANTS
    Accesses,        \* namespaced names of BucketAccesses
    ClaimOf,         \* spec.bucketClaimName, None if a required field is missing
    SecretOf,        \* spec.credentialsSecretName
    BucketOf,        \* the bucket a claim provisions
    KeyOf,           \* accessKeyForAccount of a claim or a BucketAccess
    DeletionPolicy,  \* of the class of the claims
    Disturbances,    \* which of the kinds below may happen
    MaxDisturbances, \* bound: how many disturbances happen in a behaviour
    MaxUid           \* bound: how often a BucketAccess of one name is created

ASSUME AccessAssumption ==
    /\ ClaimOf \in [Accesses -> Claims \cup {None}]
    /\ DOMAIN SecretOf = Accesses
    /\ BucketOf \in [Claims -> Names]
    /\ KeyOf \in [Claims \cup Accesses -> Keys]
    /\ DeletionPolicy \in {"Delete", "Retain"}
    /\ Disturbances \subseteq {"fault", "revokeFault", "crash", "class", "deleteClaim"}
    /\ MaxDisturbances \in Nat /\ MaxUid \in Nat
    /\ None \notin Claims \cup Names \cup Keys

VARIABLES
    access,     \* [Accesses -> AccessObject or None]
    uids,       \* how often each has been created
    secret,     \* the access key in each credentials Secret, or None
    seen,       \* the cached copy of each claim: [there, given]
    seenSecret, \* the cached copy of each Secret
    policies,   \* MinIO: policies made for BucketAccesses
    classUp,    \* whether a provider can be had for the claims' class
    todo,       \* BucketAccesses in the workqueue
    pc, cur,    \* the worker's next step, and the BucketAccess it works on
    loc,        \* its copy of that object
    target,     \* the bucket of this pass
    victim,     \* the access key it revokes
    disturbed   \* disturbances so far

accessVars == <<access, uids, secret, policies>>
workerVars == <<pc, cur, loc, target, victim>>
views == <<seen, seenSecret>>
vars == <<lifeVars, accessVars, views, classUp, todo, workerVars, disturbed>>

Secrets == {SecretOf[a] : a \in Accesses}

(* The status says accessGranted.                                          *)
AccessObject == [uid : Nat, deleting : BOOLEAN, finalizer : BOOLEAN, granted : BOOLEAN]
ASSUME NoneIsNoAccess == None \notin AccessObject

ClaimView    == [there : BOOLEAN, given : Names \cup {None}]
PolicyId     == Names \X Accesses

ViewOf(c) == [there |-> life[c] # "absent", given |-> given[c]]

GrantSteps  == {"readClaim", "provider", "addUser", "addPolicy", "writeSecret", "updateStatus"}
RevokeSteps == {"findClaim", "findKey", "revokeProvider", "removeUser", "removePolicy",
                "deleteSecret", "removeFinalizer"}

Init ==
    /\ LifeInit
    /\ access = [a \in Accesses |-> None] /\ uids = [a \in Accesses |-> 0]
    /\ secret = [s \in Secrets |-> None] /\ seenSecret = secret
    /\ seen = [c \in Claims |-> ViewOf(c)]
    /\ policies = {} /\ classUp = TRUE /\ todo = {}
    /\ pc = "idle" /\ cur \in Accesses /\ loc = None /\ target = None /\ victim = None
    /\ disturbed = <<>>
-----------------------------------------------------------------------------
(* Helpers of the steps.                                                   *)

Disturb(kind) == /\ kind \in Disturbances
                 /\ Len(disturbed) < MaxDisturbances
                 /\ disturbed' = Append(disturbed, kind)

Goto(step) == pc' = step /\ UNCHANGED <<cur, loc, target, victim>>
Return     == pc' = "idle" /\ loc' = None /\ target' = None /\ victim' = None /\ UNCHANGED cur

(* A plausible slip: an error is logged and the pass ends for good.        *)
RetryForgotten == UNCHANGED todo /\ Return

(* Reconcile returns with an error or RequeueAfter.                        *)
Retry == todo' = todo \cup {cur} /\ Return

(* A plausible slip: a claim that is not ready yet ends the pass for good. *)
AwaitForgotten == UNCHANGED todo /\ Return

Await == todo' = todo \cup {cur} /\ Return

(* A write of a BucketAccess; the controller gets an event of its own.     *)
WriteAccess(a, o) == access' = [access EXCEPT ![a] = o] /\ todo' = todo \cup {a}

(* The update is refused if the object is not the one read in this pass.   *)
Unchanged == access[cur] = loc

TheClaim == ClaimOf[cur]

(* A plausible slip: the account is named after the claim.                 *)
UserOfClaim == KeyOf[TheClaim]

(* accountID "<namespace>-<name>" names the user and the policy.           *)
TheUser   == KeyOf[cur]
ThePolicy == <<target, cur>>
TheSecret == SecretOf[cur]

ClaimSide == <<lifeVars, views, classUp>>
-----------------------------------------------------------------------------
(* Reconcile: the first steps.                                             *)

Take(a) == pc = "idle" /\ a \in todo

(* The object is gone, its spec is incomplete, its finalizer is gone, or   *)
(* access has been granted.                                                *)
ReconcileNothing(a) ==
    /\ Take(a)
    /\ LET o == access[a]
       IN  \/ o = None
           \/ ClaimOf[a] = None
           \/ o # None /\ o.deleting /\ ~o.finalizer
           \/ o # None /\ ~o.deleting /\ o.finalizer /\ o.granted
    /\ todo' = todo \ {a}
    /\ UNCHANGED <<ClaimSide, accessVars, workerVars, disturbed>>

ReconcileDeletion(a) ==
    /\ Take(a) /\ ClaimOf[a] # None
    /\ access[a] # None /\ access[a].deleting /\ access[a].finalizer
    /\ todo' = todo \ {a}
    /\ pc' = "findClaim" /\ cur' = a /\ loc' = access[a]
    /\ UNCHANGED <<target, victim>>
    /\ UNCHANGED <<ClaimSide, accessVars, disturbed>>

(* A plausible slip: the finalizer is never added.                         *)
WithoutFinalizer(o) == o

WithFinalizer(o) == [o EXCEPT !.finalizer = TRUE]

(* The finalizer is added, unless it is there.  The granted flag is the    *)
(* one read before; without the finalizer it has never been set.           *)
ReconcileGrant(a) ==
    /\ Take(a) /\ ClaimOf[a] # None
    /\ access[a] # None /\ ~access[a].deleting /\ ~(access[a].finalizer /\ access[a].granted)
    /\ LET o == WithFinalizer(access[a])
       IN  /\ access' = [access EXCEPT ![a] = o]
           /\ todo' = IF o = access[a] THEN todo \ {a} ELSE todo
           /\ pc' = "readClaim" /\ cur' = a /\ loc' = o
           /\ UNCHANGED <<target, victim>>
    /\ UNCHANGED <<ClaimSide, uids, secret, policies, disturbed>>
-----------------------------------------------------------------------------
(* Granting.  Whether the claim is being deleted is not looked at.         *)

(* A plausible slip: a claim that exists is taken to be ready.             *)
ReadyUnchecked(v) == v.there

Ready(v) == v.there /\ v.given # None

ReadClaim ==
    /\ pc = "readClaim"
    /\ LET v == seen[TheClaim]
       IN  \/ /\ Ready(v)
              /\ pc' = "provider" /\ target' = v.given
              /\ UNCHANGED <<cur, loc, victim, todo>>
           \/ ~Ready(v) /\ Await
    /\ UNCHANGED <<ClaimSide, accessVars, disturbed>>

(* Every error of providerForClaim is tried again.                         *)
Provider ==
    /\ pc \in {"provider", "revokeProvider"}
    /\ IF classUp
       THEN Goto(IF pc = "provider" THEN "addUser" ELSE "removeUser") /\ UNCHANGED todo
       ELSE Retry
    /\ UNCHANGED <<ClaimSide, accessVars, disturbed>>

(* A plausible slip: the error of a call is dropped.                       *)
CallReturnsUnchecked(applied, next) ==
    \/ applied /\ Goto(next) /\ UNCHANGED <<todo, disturbed>>
    \/ Disturb("fault") /\ Goto(next) /\ UNCHANGED todo

(* A call goes through, or fails with or without having taken effect.      *)
CallReturns(applied, next) ==
    \/ applied /\ Goto(next) /\ UNCHANGED <<todo, disturbed>>
    \/ Disturb("fault") /\ Retry

AddUser ==
    /\ pc = "addUser"
    /\ \E applied \in BOOLEAN :
          /\ users' = IF applied THEN users \cup {TheUser} ELSE users
          /\ CallReturns(applied, "addPolicy")
    /\ UNCHANGED <<life, given, made, views, classUp, accessVars>>

(* AddCannedPolicy and SetPolicy: until both are done the pass starts over. *)
AddPolicy ==
    /\ pc = "addPolicy"
    /\ \E applied \in BOOLEAN :
          /\ policies' = IF applied THEN policies \cup {ThePolicy} ELSE policies
          /\ CallReturns(applied, "writeSecret")
    /\ UNCHANGED <<ClaimSide, access, uids, secret>>

(* Created if the cache has none, else updated; both are refused when the  *)
(* cache is behind.                                                        *)
WriteSecret ==
    /\ pc = "writeSecret"
    /\ \/ /\ seenSecret[TheSecret] = secret[TheSecret]
          /\ \E applied \in BOOLEAN :
                /\ secret' = IF applied THEN [secret EXCEPT ![TheSecret] = TheUser] ELSE secret
                /\ CallReturns(applied, "updateStatus")
       \/ /\ seenSecret[TheSecret] # secret[TheSecret]
          /\ Retry /\ UNCHANGED <<secret, disturbed>>
    /\ UNCHANGED <<ClaimSide, access, uids, policies>>

UpdateStatus ==
    /\ pc = "updateStatus"
    /\ \/ /\ Unchanged
          /\ WriteAccess(cur, [loc EXCEPT !.granted = TRUE])
          /\ Return /\ UNCHANGED disturbed
       \/ /\ \/ ~Unchanged /\ UNCHANGED disturbed
             \/ Disturb("fault")
          /\ Retry /\ UNCHANGED access
    /\ UNCHANGED <<ClaimSide, uids, secret, policies>>
-----------------------------------------------------------------------------
(* Revoking.  If the claim is gone, nothing is revoked and the Secret      *)
(* stays.                                                                  *)

FindClaim ==
    /\ pc = "findClaim"
    /\ LET v == seen[TheClaim]
       IN  \/ ~v.there /\ Goto("removeFinalizer")
           \/ /\ v.there
              /\ pc' = "findKey"
              /\ target' = IF v.given # None THEN v.given ELSE BucketOf[TheClaim]
              /\ UNCHANGED <<cur, loc, victim>>
    /\ UNCHANGED <<ClaimSide, accessVars, todo, disturbed>>

(* The access key in the Secret; without one the key derived from the name. *)
FindKey ==
    /\ pc = "findKey"
    /\ LET k == seenSecret[TheSecret]
       IN  victim' = IF k # None THEN k ELSE TheUser
    /\ pc' = "revokeProvider"
    /\ UNCHANGED <<cur, loc, target, ClaimSide, accessVars, todo, disturbed>>

(* RevokeAccess only logs the failures of its two calls.                   *)
RemoveAccessUser ==
    /\ pc = "removeUser"
    /\ \/ users' = users \ {victim} /\ UNCHANGED disturbed
       \/ Disturb("revokeFault") /\ UNCHANGED users
    /\ Goto("removePolicy")
    /\ UNCHANGED <<life, given, made, views, classUp, accessVars, todo>>

RemovePolicy ==
    /\ pc = "removePolicy"
    /\ \/ policies' = policies \ {ThePolicy} /\ UNCHANGED disturbed
       \/ Disturb("revokeFault") /\ UNCHANGED policies
    /\ Goto("deleteSecret")
    /\ UNCHANGED <<ClaimSide, access, uids, secret, todo>>

(* Best effort.                                                            *)
DeleteSecret ==
    /\ pc = "deleteSecret"
    /\ \/ secret' = [secret EXCEPT ![TheSecret] = None] /\ UNCHANGED disturbed
       \/ Disturb("revokeFault") /\ UNCHANGED secret
    /\ Goto("removeFinalizer")
    /\ UNCHANGED <<ClaimSide, access, uids, policies, todo>>

RemoveFinalizer ==
    /\ pc = "removeFinalizer"
    /\ \/ /\ Unchanged
          /\ WriteAccess(cur, None)
          /\ Return /\ UNCHANGED disturbed
       \/ /\ \/ ~Unchanged /\ UNCHANGED disturbed
             \/ Disturb("fault")
          /\ Retry /\ UNCHANGED access
    /\ UNCHANGED <<ClaimSide, uids, secret, policies>>
-----------------------------------------------------------------------------
(* Users of BucketAccesses, the operator's restart, an administrator.      *)

CreateAccess(a) ==
    /\ access[a] = None /\ uids[a] < MaxUid
    /\ uids' = [uids EXCEPT ![a] = @ + 1]
    /\ WriteAccess(a, [uid |-> uids[a] + 1, deleting |-> FALSE, finalizer |-> FALSE,
                       granted |-> FALSE])
    /\ UNCHANGED <<ClaimSide, secret, policies, workerVars, disturbed>>

DeleteAccess(a) ==
    /\ access[a] # None /\ ~access[a].deleting
    /\ WriteAccess(a, IF access[a].finalizer THEN [access[a] EXCEPT !.deleting = TRUE] ELSE None)
    /\ UNCHANGED <<ClaimSide, uids, secret, policies, workerVars, disturbed>>

Crash ==
    /\ Disturb("crash")
    /\ Return /\ todo' = {a \in Accesses : access[a] # None}
    /\ UNCHANGED <<ClaimSide, accessVars>>

EditClass ==
    /\ Disturb("class") /\ classUp' = ~classUp
    /\ UNCHANGED <<lifeVars, views, accessVars, todo, workerVars>>

(* The claims, as the BucketClaim controller handles them: in order, each  *)
(* with its own bucket and user, and gone only when these have been        *)
(* removed.                                                                *)
ClaimStep(c) ==
    \/ Create(c) \/ Adopt(c)
    \/ Living(c) /\ MakeBucket(c, BucketOf[c])
    \/ Living(c) /\ MakeUser(c, KeyOf[c])
    \/ life[c] = "held" /\ Bind(c, BucketOf[c], KeyOf[c])
    \/ life[c] = "doomed" /\ RemoveUser(c, KeyOf[c])
    \/ life[c] = "doomed" /\ DeletionPolicy = "Delete" /\ RemoveBucket(c, BucketOf[c])
    \/ /\ KeyOf[c] \notin users /\ (DeletionPolicy = "Delete" => BucketOf[c] \notin made)
       /\ Vanish(c)

Others == <<accessVars, views, classUp, todo, workerVars>>

ClaimMoves(c)  == ClaimStep(c) /\ lifeVars' # lifeVars /\ UNCHANGED <<Others, disturbed>>
DeleteClaim(c) == Delete(c) /\ Disturb("deleteClaim") /\ UNCHANGED Others

SyncClaim(c) ==
    /\ seen[c] # ViewOf(c)
    /\ seen' = [seen EXCEPT ![c] = ViewOf(c)]
    /\ UNCHANGED <<lifeVars, seenSecret, accessVars, classUp, todo, workerVars, disturbed>>

SyncSecret(s) ==
    /\ seenSecret[s] # secret[s]
    /\ seenSecret' = [seenSecret EXCEPT ![s] = secret[s]]
    /\ UNCHANGED <<lifeVars, seen, accessVars, classUp, todo, workerVars, disturbed>>
-----------------------------------------------------------------------------
Start(a) == ReconcileNothing(a) \/ ReconcileDeletion(a) \/ ReconcileGrant(a)

WorkerStep ==
    \/ ReadClaim \/ Provider \/ AddUser \/ AddPolicy \/ WriteSecret \/ UpdateStatus
    \/ FindClaim \/ FindKey \/ RemoveAccessUser \/ RemovePolicy \/ DeleteSecret \/ RemoveFinalizer

Next ==
    \/ WorkerStep \/ Crash \/ EditClass
    \/ \E a \in Accesses : Start(a) \/ CreateAccess(a) \/ DeleteAccess(a)
    \/ \E c \in Claims : ClaimMoves(c) \/ DeleteClaim(c) \/ SyncClaim(c)
    \/ \E s \in Secrets : SyncSecret(s)

Spec == Init /\ [][Next]_vars

(* The worker finishes its passes, the workqueue starves no BucketAccess   *)
(* and the caches catch up.                                                *)
FairSpec ==
    /\ Spec
    /\ WF_vars(WorkerStep)
    /\ \A a \in Accesses : SF_vars(Start(a))
    /\ \A c \in Claims : WF_vars(SyncClaim(c))
    /\ \A s \in Secrets : WF_vars(SyncSecret(s))
-----------------------------------------------------------------------------
(* Correctness.                                                            *)

TypeOK ==
    /\ life \in [Claims -> Stages] /\ given \in [Claims -> Names \cup {None}]
    /\ made \subseteq Names /\ users \subseteq Keys
    /\ access \in [Accesses -> AccessObject \cup {None}] /\ uids \in [Accesses -> Nat]
    /\ secret \in [Secrets -> Keys \cup {None}] /\ seenSecret \in [Secrets -> Keys \cup {None}]
    /\ seen \in [Claims -> ClaimView]
    /\ policies \subseteq PolicyId
    /\ classUp \in BOOLEAN /\ todo \subseteq Accesses
    /\ pc \in GrantSteps \cup RevokeSteps \cup {"idle"} /\ cur \in Accesses
    /\ loc \in AccessObject \cup {None} /\ target \in Names \cup {None}
    /\ victim \in Keys \cup {None}
    /\ pc \in {"provider", "addUser", "addPolicy", "removeUser", "removePolicy"} => target # None
    /\ pc \in {"revokeProvider", "removeUser"} => victim # None
    /\ disturbed \in Seq(Disturbances)

Held(a) == access[a] # None /\ access[a].finalizer

Happened(kind) == \E i \in DOMAIN disturbed : disturbed[i] = kind

(* A user, policy or Secret made for a BucketAccess exists only while the  *)
(* BucketAccess does, with the finalizer that will have it removed.  Two   *)
(* things are not made good: a revocation that failed, which is only       *)
(* logged, and a claim deleted before its BucketAccess.                    *)
NoOrphanAccess ==
    ~Happened("revokeFault") /\ ~Happened("deleteClaim") =>
    \A a \in Accesses :
        KeyOf[a] \in users \/ secret[SecretOf[a]] = KeyOf[a] \/ (\E n \in Names : <<n, a>> \in policies)
        => Held(a)

(* accessGranted can be relied on: the user, its policy and the Secret are *)
(* there, until the BucketAccess is deleted, whatever becomes of the       *)
(* claim.                                                                  *)
GrantedIsUsable ==
    \A a \in Accesses :
        access[a] # None /\ access[a].granted /\ ~access[a].deleting
        => KeyOf[a] \in users /\ secret[SecretOf[a]] = KeyOf[a] /\ \E n \in Names : <<n, a>> \in policies

(* The keys of the BucketAccesses that name a Secret.                      *)
KeysFor(s) == {KeyOf[a] : a \in {b \in Accesses : SecretOf[b] = s}}

(* Somebody who has the user is being deleted, under its finalizer: a      *)
(* claim or BucketAccess with that key, or a BucketAccess that names the   *)
(* Secret of one with that key.                                            *)
OwnerLeaves(k) ==
    \/ \E c \in Claims : life[c] = "doomed" /\ k = KeyOf[c]
    \/ \E a \in Accesses : Held(a) /\ access[a].deleting /\ k \in KeysFor(SecretOf[a])

(* Users are shared: accessKeyForAccount keeps twelve letters and digits,  *)
(* so a claim and a BucketAccess may have one user, and BucketAccesses may *)
(* name one Secret.  Even so a user goes only with one of its owners: no   *)
(* stale Secret, repeated pass, crash or recreation takes it from a claim  *)
(* or BucketAccess none of whose sharers is being deleted.                 *)
UserGoesWithAnOwner == [][ \A k \in users \ users' : OwnerLeaves(k) ]_vars

ReadyFor(a) ==
    /\ access[a] # None /\ ~access[a].deleting /\ classUp
    /\ ClaimOf[a] # None /\ life[ClaimOf[a]] = "bound"

(* A BucketAccess that is left alone, with its claim bound and its class   *)
(* in order, is granted, although nothing tells the controller when the    *)
(* claim becomes ready.                                                    *)
EventuallyGranted ==
    \A a \in Accesses : <>[]ReadyFor(a) => <>[](access[a] # None /\ access[a].granted)

(* A deleted BucketAccess goes away, if its class can be resolved from     *)
(* some time on.                                                           *)
EventuallyGone ==
    \A a \in Accesses :
        <>[]classUp => ((access[a] # None /\ access[a].deleting) ~> (access[a] = None))
=============================================================================
