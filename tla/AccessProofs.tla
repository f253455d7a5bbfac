----------------------------- MODULE AccessProofs -----------------------------
(***************************************************************************)
(* Theorems about BucketAccessController, for every set of claims,         *)
(* BucketAccesses, names and keys and all bounds.                          *)
(*                                                                         *)
(* Typing and UserGoesWithAnOwner need nothing else.  GrantedIsUsable and  *)
(* NoOrphanAccess hold for accounts that do not get in each other's way:   *)
(* SeparateKeys and SeparateSecrets.                                       *)
(***************************************************************************)
EXTENDS BucketAccessController, SequenceTheorems, TLAPS

(* accessKeyForAccount tells the accounts apart, those of claims and those *)
(* of BucketAccesses.  It keeps twelve letters and digits of the account:  *)
(* where two accounts agree in these, as those of the end-to-end test do   *)
(* (test/e2e/run-e2e.sh:407), UserGoesWithAnOwner is all that is proved.   *)
SeparateKeys ==
    /\ Claims \cap Accesses = {}
    /\ \A x, y \in Claims \cup Accesses : KeyOf[x] = KeyOf[y] => x = y

(* No two BucketAccesses name the same credentials Secret.                 *)
SeparateSecrets == \A a, b \in Accesses : SecretOf[a] = SecretOf[b] => a = b

(* A pass works on an object that will not go away under it.               *)
PassHolds ==
    /\ pc # "idle" => loc # None /\ ClaimOf[cur] \in Claims
    /\ pc \in GrantSteps => Held(cur) /\ loc.finalizer /\ ~loc.deleting /\ ~loc.granted
    /\ pc \in RevokeSteps => access[cur] = loc /\ loc.deleting /\ loc.finalizer
    /\ pc \in {"findKey", "revokeProvider"} => target # None

GrantedIsHeld ==
    \A a \in Accesses : access[a] # None /\ access[a].granted => access[a].finalizer

(* A Secret holds the key of the one BucketAccess that names it, and so    *)
(* that is the key a pass revokes.                                         *)
OwnKeyInSecret ==
    /\ \A a \in Accesses : /\ secret[SecretOf[a]] \in {None, KeyOf[a]}
                           /\ seenSecret[SecretOf[a]] \in {None, KeyOf[a]}
    /\ pc \in {"revokeProvider", "removeUser"} => victim = KeyOf[cur]

(* What a granting pass has done stays done until it ends.                 *)
GrantedSoFar ==
    /\ pc \in {"addPolicy", "writeSecret", "updateStatus"} => KeyOf[cur] \in users
    /\ pc \in {"writeSecret", "updateStatus"} => \E n \in Names : <<n, cur>> \in policies
    /\ pc = "updateStatus" => secret[SecretOf[cur]] = KeyOf[cur]

Usable == OwnKeyInSecret /\ GrantedSoFar /\ GrantedIsUsable

(* A claim has one bucket all its life, and that is the bucket of every    *)
(* pass and of every policy.                                               *)
OneBucketEach ==
    /\ \A c \in Claims : given[c] \in {None, BucketOf[c]} /\ seen[c].given \in {None, BucketOf[c]}
    /\ pc \in {"provider", "addUser", "addPolicy", "findKey", "revokeProvider", "removeUser",
               "removePolicy"}
       => target = BucketOf[TheClaim]
    /\ \A p \in policies : ClaimOf[p[2]] \in Claims /\ p[1] = BucketOf[ClaimOf[p[2]]]

Calm == ~Happened("revokeFault") /\ ~Happened("deleteClaim")

Traces(a) ==
    KeyOf[a] \in users \/ secret[SecretOf[a]] = KeyOf[a] \/ (\E n \in Names : <<n, a>> \in policies)

(* As long as no claim is deleted, one that has been seen is there, and    *)
(* nothing is made for a BucketAccess whose claim has not been seen.       *)
SeenIsThere ==
    Calm => \A c \in Claims : life[c] # "doomed" /\ (seen[c].there => life[c] # "absent")

TracesAreHeld ==
    Calm => /\ \A a \in Accesses :
                  Traces(a) => Held(a) /\ ClaimOf[a] \in Claims /\ seen[ClaimOf[a]].there
            /\ pc \in GrantSteps \ {"readClaim"} => seen[TheClaim].there

(* What a revoking pass has removed stays away.                            *)
RevokedSoFar ==
    Calm => /\ pc \in {"removePolicy", "deleteSecret", "removeFinalizer"} => KeyOf[cur] \notin users
            /\ pc \in {"deleteSecret", "removeFinalizer"}
               => \A n \in Names : <<n, cur>> \notin policies
            /\ pc = "removeFinalizer" => secret[SecretOf[cur]] # KeyOf[cur]

AInv == TypeOK /\ PassHolds /\ GrantedIsHeld
UInv == AInv /\ Usable
Cleaned == OneBucketEach /\ SeenIsThere /\ TracesAreHeld /\ RevokedSoFar
CInv == UInv /\ Cleaned
-----------------------------------------------------------------------------
USE DEF lifeVars, accessVars, workerVars, views, ClaimSide, Others, GrantSteps, RevokeSteps

LEMMA DisturbNotes ==
    ASSUME disturbed \in Seq(Disturbances), NEW kind, Disturb(kind)
    PROVE  /\ disturbed' \in Seq(Disturbances)
           /\ Calm' => Calm /\ kind \notin {"revokeFault", "deleteClaim"}
  <1>1. disturbed' = Append(disturbed, kind) /\ kind \in Disturbances  BY DEF Disturb
  <1>2. /\ disturbed' \in Seq(Disturbances) /\ Len(disturbed') = Len(disturbed) + 1
        /\ \A i \in 1 .. Len(disturbed) : disturbed'[i] = disturbed[i]
        /\ disturbed'[Len(disturbed) + 1] = kind
    BY <1>1, AppendProperties
  <1>3. /\ Len(disturbed) \in Nat /\ DOMAIN disturbed = 1 .. Len(disturbed)
        /\ DOMAIN disturbed' = 1 .. Len(disturbed) + 1
    BY <1>2, LenProperties
  <1> QED  BY <1>2, <1>3 DEF Calm, Happened

LEMMA CalmStays ==
    ASSUME disturbed' = disturbed
    PROVE  Calm' <=> Calm
  BY DEF Calm, Happened

LEMMA SecretsKnown ==
    ASSUME NEW a \in Accesses
    PROVE  SecretOf[a] \in Secrets
  BY DEF Secrets

(* What the worker reads of its claim.                                     *)
LEMMA InHandOK ==
    ASSUME AInv, pc # "idle"
    PROVE  /\ cur \in Accesses /\ loc \in AccessObject /\ TheClaim \in Claims
           /\ TheUser \in Keys /\ TheUser # None /\ TheSecret \in Secrets
           /\ seen[TheClaim] \in ClaimView /\ BucketOf[TheClaim] \in Names
           /\ BucketOf[TheClaim] # None
           /\ seenSecret[TheSecret] \in Keys \cup {None}
  BY AccessAssumption, SecretsKnown
  DEF AInv, TypeOK, PassHolds, TheClaim, TheUser, TheSecret

LEMMA AccessTypes ==
    ASSUME NEW o \in AccessObject
    PROVE  /\ WithFinalizer(o) \in AccessObject /\ WithFinalizer(o).finalizer
           /\ WithFinalizer(o).deleting = o.deleting /\ WithFinalizer(o).granted = o.granted
           /\ [o EXCEPT !.granted = TRUE] \in AccessObject /\ [o EXCEPT !.granted = TRUE].granted
           /\ [o EXCEPT !.granted = TRUE].finalizer = o.finalizer
           /\ [o EXCEPT !.granted = TRUE].deleting = o.deleting
           /\ [o EXCEPT !.deleting = TRUE] \in AccessObject /\ [o EXCEPT !.deleting = TRUE].deleting
           /\ [o EXCEPT !.deleting = TRUE].finalizer = o.finalizer
           /\ [o EXCEPT !.deleting = TRUE].granted = o.granted
  BY DEF AccessObject, WithFinalizer

(* A write of one BucketAccess that keeps it held if it is worked on.      *)
LEMMA WriteAccessSafe ==
    ASSUME AInv, NEW a \in Accesses, NEW o \in AccessObject \cup {None},
           access' = [access EXCEPT ![a] = o],
           o # None /\ o.granted => o.finalizer
    PROVE  /\ access' \in [Accesses -> AccessObject \cup {None}] /\ GrantedIsHeld'
           /\ access'[a] = o /\ \A b \in Accesses \ {a} : access'[b] = access[b]
  BY DEF AInv, TypeOK, GrantedIsHeld

(* The end of a pass, and its going on.                                    *)
LEMMA ReturnSafe ==
    ASSUME AInv, Return
    PROVE  /\ PassHolds' /\ cur' = cur /\ pc' = "idle" /\ loc' = None /\ target' = None
           /\ victim' = None
  BY DEF Return, PassHolds

LEMMA RetryType ==
    ASSUME AInv, Retry \/ Await
    PROVE  todo' \subseteq Accesses /\ Return
  BY DEF AInv, TypeOK, Retry, Await
-----------------------------------------------------------------------------
(* Typing, and what a pass holds, step by step.                            *)

LEMMA AInit == Init => AInv
  <1> SUFFICES ASSUME Init PROVE AInv  OBVIOUS
  <1>1. ClaimView = [there : BOOLEAN, given : Names \cup {None}]  BY DEF ClaimView
  <1>2. \A c \in Claims : ViewOf(c) \in ClaimView  BY <1>1 DEF ViewOf, Init, LifeInit
  <1>3. disturbed \in Seq(Disturbances)  BY EmptySeq DEF Init
  <1> QED  BY <1>2, <1>3 DEF AInv, TypeOK, PassHolds, GrantedIsHeld, Init, LifeInit, Stages

(* Nothing of the claims' side or the API objects is touched.              *)
LEMMA AKeep ==
    ASSUME AInv, UNCHANGED <<ClaimSide, access, uids>>, disturbed' \in Seq(Disturbances),
           secret' \in [Secrets -> Keys \cup {None}], policies' \subseteq PolicyId,
           todo' \subseteq Accesses, Return
    PROVE  AInv'
  BY ReturnSafe DEF AInv, TypeOK, GrantedIsHeld

LEMMA AStart ==
    ASSUME AInv, NEW a \in Accesses, Start(a)
    PROVE  AInv'
  <1> USE DEF AInv
  <1>1. CASE ReconcileNothing(a)
    BY <1>1 DEF ReconcileNothing, Take, TypeOK, PassHolds, GrantedIsHeld, Held, TheClaim
  <1>2. CASE ReconcileDeletion(a)
    <2>1. access[a] \in AccessObject /\ ClaimOf[a] \in Claims
      BY <1>2, AccessAssumption DEF ReconcileDeletion, TypeOK
    <2> QED
      BY <1>2, <2>1, NoneIsNoAccess
      DEF ReconcileDeletion, Take, TypeOK, PassHolds, GrantedIsHeld, Held, TheClaim
  <1>3. CASE ReconcileGrant(a)
    <2> DEFINE mine == WithFinalizer(access[a])
    <2>1. access[a] \in AccessObject /\ ClaimOf[a] \in Claims
      BY <1>3, AccessAssumption DEF ReconcileGrant, TypeOK
    <2>2. /\ mine \in AccessObject /\ mine.finalizer /\ mine.deleting = access[a].deleting
          /\ mine.granted = access[a].granted /\ mine # None
      BY <2>1, AccessTypes, NoneIsNoAccess
    <2>3. /\ access' = [access EXCEPT ![a] = mine] /\ pc' = "readClaim" /\ cur' = a /\ loc' = mine
          /\ todo' \subseteq todo /\ UNCHANGED <<target, victim, ClaimSide, uids, secret, policies, disturbed>>
          /\ ~access[a].deleting /\ ~(access[a].finalizer /\ access[a].granted)
      BY <1>3 DEF ReconcileGrant
    <2> HIDE DEF mine
    <2>4. GrantedIsHeld' /\ access'[a] = mine /\ access' \in [Accesses -> AccessObject \cup {None}]
      BY <2>2, <2>3, WriteAccessSafe
    <2>5. ~mine.granted  BY <2>1, <2>2, <2>3, NoneIsNoAccess DEF GrantedIsHeld
    <2> QED
      BY <2>1, <2>2, <2>3, <2>4, <2>5 DEF TypeOK, PassHolds, Held
  <1> QED  BY <1>1, <1>2, <1>3 DEF Start

(* A call of a granting or revoking pass.                                  *)
LEMMA AGoto ==
    ASSUME AInv, NEW next, Goto(next), pc # "idle",
           \/ pc \in GrantSteps /\ next \in GrantSteps
           \/ pc \in RevokeSteps /\ next \in RevokeSteps,
           next \in {"provider", "addUser", "addPolicy", "removeUser", "removePolicy"} => target # None,
           next \notin {"findKey", "revokeProvider"}, next = "removeUser" => victim # None,
           UNCHANGED <<life, given, made, classUp, views, access, uids>>,
           users' \subseteq Keys,
           disturbed' \in Seq(Disturbances), todo' \subseteq Accesses,
           secret' \in [Secrets -> Keys \cup {None}], policies' \subseteq PolicyId
    PROVE  AInv'
  BY DEF AInv, Goto, TypeOK, PassHolds, Held, GrantedIsHeld

LEMMA AReturn ==
    ASSUME AInv, Return, UNCHANGED <<life, given, made, classUp, views, uids>>,
           GrantedIsHeld', access' \in [Accesses -> AccessObject \cup {None}],
           users' \subseteq Keys,
           disturbed' \in Seq(Disturbances), todo' \subseteq Accesses,
           secret' \in [Secrets -> Keys \cup {None}], policies' \subseteq PolicyId
    PROVE  AInv'
  BY ReturnSafe DEF AInv, TypeOK

LEMMA ACallReturns ==
    ASSUME AInv, pc \in GrantSteps, NEW applied \in BOOLEAN, NEW next \in GrantSteps,
           CallReturns(applied, next), next = "addPolicy" => target # None,
           next \in {"addPolicy", "writeSecret", "updateStatus"},
           UNCHANGED <<life, given, made, classUp, views, access, uids>>,
           users' \subseteq Keys,
           secret' \in [Secrets -> Keys \cup {None}], policies' \subseteq PolicyId
    PROVE  AInv'
  <1>1. CASE applied /\ Goto(next) /\ UNCHANGED <<todo, disturbed>>
    <2>1. disturbed' \in Seq(Disturbances) /\ todo' \subseteq Accesses
      BY <1>1 DEF AInv, TypeOK
    <2> QED  BY <1>1, <2>1, AGoto
  <1>2. CASE Disturb("fault") /\ Retry
    <2>1. disturbed' \in Seq(Disturbances)  BY <1>2, DisturbNotes DEF AInv, TypeOK
    <2>2. todo' \subseteq Accesses /\ Return  BY <1>2, RetryType
    <2>3. GrantedIsHeld' /\ access' \in [Accesses -> AccessObject \cup {None}]
      BY DEF AInv, GrantedIsHeld, TypeOK
    <2> QED  BY <2>1, <2>2, <2>3, AReturn
  <1> QED  BY <1>1, <1>2 DEF CallReturns

(* The end of a pass without a write.                                      *)
LEMMA AEnd ==
    ASSUME AInv, Retry \/ Await, UNCHANGED <<ClaimSide, accessVars>>,
           disturbed' \in Seq(Disturbances)
    PROVE  AInv'
  BY RetryType, AKeep DEF AInv, TypeOK

LEMMA AGrantStep ==
    ASSUME AInv, ReadClaim \/ Provider \/ AddUser \/ AddPolicy \/ WriteSecret \/ UpdateStatus
    PROVE  AInv'
  <1> USE DEF AInv
  <1>0. /\ cur \in Accesses /\ TheClaim \in Claims /\ TheUser \in Keys /\ TheSecret \in Secrets
        /\ loc \in AccessObject /\ seen[TheClaim] \in ClaimView
    BY InHandOK DEF ReadClaim, Provider, AddUser, AddPolicy, WriteSecret, UpdateStatus
  <1>1. CASE ReadClaim
    <2>1. CASE ~Ready(seen[TheClaim]) /\ Await
      BY <1>1, <2>1, AEnd DEF ReadClaim, TypeOK
    <2>2. CASE Ready(seen[TheClaim]) /\ pc' = "provider" /\ target' = seen[TheClaim].given
               /\ UNCHANGED <<cur, loc, victim, todo>>
      <3>1. target' \in Names /\ target' # None
        BY <1>0, <2>2, AccessAssumption DEF Ready, ClaimView
      <3> QED  BY <1>1, <2>2, <3>1 DEF ReadClaim, TypeOK, PassHolds, GrantedIsHeld, Held, TheClaim
    <2> QED  BY <1>1, <2>1, <2>2 DEF ReadClaim
  <1>2. CASE Provider
    <2>1. CASE classUp
      <3>1. /\ Goto(IF pc = "provider" THEN "addUser" ELSE "removeUser") /\ UNCHANGED todo
            /\ UNCHANGED <<ClaimSide, accessVars, disturbed>> /\ pc \in {"provider", "revokeProvider"}
        BY <1>2, <2>1 DEF Provider
      <3>2. CASE pc = "provider"
        <4>1. Goto("addUser") /\ target # None  BY <3>1, <3>2 DEF TypeOK
        <4> QED  BY <3>1, <3>2, <4>1, AGoto DEF TypeOK
      <3>3. CASE pc = "revokeProvider"
        <4>1. Goto("removeUser") /\ victim # None /\ target # None
          BY <3>1, <3>3 DEF TypeOK, PassHolds
        <4> QED  BY <3>1, <3>3, <4>1, AGoto DEF TypeOK
      <3> QED  BY <3>1, <3>2, <3>3
    <2>2. CASE ~classUp
      BY <1>2, <2>2, AEnd DEF Provider, TypeOK
    <2> QED  BY <2>1, <2>2
  <1>3. CASE AddUser
    <2>1. PICK applied \in BOOLEAN : /\ users' = IF applied THEN users \cup {TheUser} ELSE users
                                     /\ CallReturns(applied, "addPolicy")
      BY <1>3 DEF AddUser
    <2>2. users' \subseteq Keys  BY <1>0, <2>1 DEF TypeOK
    <2>3. target # None /\ pc = "addUser"  BY <1>3 DEF AddUser, TypeOK
    <2>4. UNCHANGED <<life, given, made, views, classUp, accessVars>>  BY <1>3 DEF AddUser
    <2> QED  BY <2>1, <2>2, <2>3, <2>4, ACallReturns DEF TypeOK
  <1>4. CASE AddPolicy
    <2>1. PICK applied \in BOOLEAN :
              /\ policies' = IF applied THEN policies \cup {ThePolicy} ELSE policies
              /\ CallReturns(applied, "writeSecret")
      BY <1>4 DEF AddPolicy
    <2>2. target \in Names /\ pc = "addPolicy"  BY <1>4 DEF AddPolicy, TypeOK
    <2>3. policies' \subseteq PolicyId  BY <1>0, <2>1, <2>2 DEF TypeOK, ThePolicy, PolicyId
    <2>4. UNCHANGED <<ClaimSide, access, uids, secret>>  BY <1>4 DEF AddPolicy
    <2> QED  BY <2>1, <2>2, <2>3, <2>4, ACallReturns DEF TypeOK
  <1>5. CASE WriteSecret
    <2>0. pc = "writeSecret" /\ UNCHANGED <<ClaimSide, access, uids, policies>>
      BY <1>5 DEF WriteSecret
    <2>1. CASE \E applied \in BOOLEAN :
                  /\ secret' = IF applied THEN [secret EXCEPT ![TheSecret] = TheUser] ELSE secret
                  /\ CallReturns(applied, "updateStatus")
      <3>1. PICK applied \in BOOLEAN :
                  /\ secret' = IF applied THEN [secret EXCEPT ![TheSecret] = TheUser] ELSE secret
                  /\ CallReturns(applied, "updateStatus")
        BY <2>1
      <3>2. secret' \in [Secrets -> Keys \cup {None}]  BY <1>0, <3>1 DEF TypeOK
      <3> QED  BY <2>0, <3>1, <3>2, ACallReturns DEF TypeOK
    <2>2. CASE Retry /\ UNCHANGED <<secret, disturbed>>
      BY <2>0, <2>2, AEnd DEF TypeOK
    <2> QED  BY <1>5, <2>1, <2>2 DEF WriteSecret
  <1>6. CASE UpdateStatus
    <2>0. pc = "updateStatus" /\ UNCHANGED <<ClaimSide, uids, secret, policies>>
      BY <1>6 DEF UpdateStatus
    <2>1. CASE WriteAccess(cur, [loc EXCEPT !.granted = TRUE]) /\ Return /\ UNCHANGED disturbed
      <3> DEFINE o == [loc EXCEPT !.granted = TRUE]
      <3>1. o \in AccessObject /\ o.finalizer
        BY <1>0, <2>0, AccessTypes DEF PassHolds
      <3>2. access' = [access EXCEPT ![cur] = o] /\ todo' = todo \cup {cur}
        BY <2>1 DEF WriteAccess
      <3> HIDE DEF o
      <3>3. GrantedIsHeld' /\ access' \in [Accesses -> AccessObject \cup {None}]
        BY <1>0, <3>1, <3>2, WriteAccessSafe
      <3>4. todo' \subseteq Accesses  BY <1>0, <3>2 DEF TypeOK
      <3> QED  BY <2>0, <2>1, <3>3, <3>4, AReturn DEF TypeOK
    <2>2. CASE Retry /\ UNCHANGED access /\ (UNCHANGED disturbed \/ Disturb("fault"))
      <3>1. disturbed' \in Seq(Disturbances)  BY <2>2, DisturbNotes DEF TypeOK
      <3> QED  BY <2>0, <2>2, <3>1, AEnd
    <2> QED  BY <1>6, <2>1, <2>2 DEF UpdateStatus
  <1> QED  BY <1>1, <1>2, <1>3, <1>4, <1>5, <1>6

LEMMA ARevokeStep ==
    ASSUME AInv,
           FindClaim \/ FindKey \/ RemoveAccessUser \/ RemovePolicy \/ DeleteSecret \/ RemoveFinalizer
    PROVE  AInv'
  <1> USE DEF AInv
  <1>0. /\ cur \in Accesses /\ TheClaim \in Claims /\ TheUser \in Keys /\ TheSecret \in Secrets
        /\ TheUser # None /\ BucketOf[TheClaim] \in Names /\ BucketOf[TheClaim] # None
        /\ seen[TheClaim] \in ClaimView /\ seenSecret[TheSecret] \in Keys \cup {None}
    BY InHandOK DEF FindClaim, FindKey, RemoveAccessUser, RemovePolicy, DeleteSecret, RemoveFinalizer
  <1>1. CASE FindClaim
    <2>0. pc = "findClaim" /\ UNCHANGED <<ClaimSide, accessVars, todo, disturbed>>
      BY <1>1 DEF FindClaim
    <2>1. CASE Goto("removeFinalizer")  BY <2>0, <2>1, AGoto DEF TypeOK
    <2>2. CASE /\ pc' = "findKey"
               /\ target' = IF seen[TheClaim].given # None THEN seen[TheClaim].given
                                                           ELSE BucketOf[TheClaim]
               /\ UNCHANGED <<cur, loc, victim>>
      <3>1. target' \in Names /\ target' # None  BY <1>0, <2>2, AccessAssumption DEF ClaimView
      <3> QED  BY <2>0, <2>2, <3>1 DEF TypeOK, PassHolds, GrantedIsHeld, Held
    <2> QED  BY <1>1, <2>1, <2>2 DEF FindClaim
  <1>2. CASE FindKey
    <2>1. victim' \in Keys /\ victim' # None  BY <1>0, <1>2, AccessAssumption DEF FindKey
    <2> QED  BY <1>2, <2>1 DEF FindKey, TypeOK, PassHolds, GrantedIsHeld, Held
  <1>3. CASE RemoveAccessUser
    <2>0. /\ pc = "removeUser" /\ Goto("removePolicy") /\ target # None
          /\ UNCHANGED <<life, given, made, views, classUp, accessVars, todo>>
      BY <1>3 DEF RemoveAccessUser, TypeOK
    <2>1. users' \subseteq Keys  BY <1>3 DEF RemoveAccessUser, TypeOK
    <2>2. disturbed' \in Seq(Disturbances)  BY <1>3, DisturbNotes DEF RemoveAccessUser, TypeOK
    <2> QED  BY <2>0, <2>1, <2>2, AGoto DEF TypeOK
  <1>4. CASE RemovePolicy
    <2>0. /\ pc = "removePolicy" /\ Goto("deleteSecret")
          /\ UNCHANGED <<ClaimSide, access, uids, secret, todo>>
      BY <1>4 DEF RemovePolicy
    <2>1. policies' \subseteq PolicyId  BY <1>4 DEF RemovePolicy, TypeOK
    <2>2. disturbed' \in Seq(Disturbances)  BY <1>4, DisturbNotes DEF RemovePolicy, TypeOK
    <2> QED  BY <2>0, <2>1, <2>2, AGoto DEF TypeOK
  <1>5. CASE DeleteSecret
    <2>0. /\ pc = "deleteSecret" /\ Goto("removeFinalizer")
          /\ UNCHANGED <<ClaimSide, access, uids, policies, todo>>
      BY <1>5 DEF DeleteSecret
    <2>1. secret' \in [Secrets -> Keys \cup {None}]  BY <1>0, <1>5 DEF DeleteSecret, TypeOK
    <2>2. disturbed' \in Seq(Disturbances)  BY <1>5, DisturbNotes DEF DeleteSecret, TypeOK
    <2> QED  BY <2>0, <2>1, <2>2, AGoto DEF TypeOK
  <1>6. CASE RemoveFinalizer
    <2>0. pc = "removeFinalizer" /\ UNCHANGED <<ClaimSide, uids, secret, policies>>
      BY <1>6 DEF RemoveFinalizer
    <2>1. CASE WriteAccess(cur, None) /\ Return /\ UNCHANGED disturbed
      <3>1. access' = [access EXCEPT ![cur] = None] /\ todo' = todo \cup {cur}
        BY <2>1 DEF WriteAccess
      <3>2. GrantedIsHeld' /\ access' \in [Accesses -> AccessObject \cup {None}]
        BY <1>0, <3>1, WriteAccessSafe
      <3>3. todo' \subseteq Accesses  BY <1>0, <3>1 DEF TypeOK
      <3> QED  BY <2>0, <2>1, <3>2, <3>3, AReturn DEF TypeOK
    <2>2. CASE Retry /\ UNCHANGED access /\ (UNCHANGED disturbed \/ Disturb("fault"))
      <3>1. disturbed' \in Seq(Disturbances)  BY <2>2, DisturbNotes DEF TypeOK
      <3> QED  BY <2>0, <2>2, <3>1, AEnd
    <2> QED  BY <1>6, <2>1, <2>2 DEF RemoveFinalizer
  <1> QED  BY <1>1, <1>2, <1>3, <1>4, <1>5, <1>6

LEMMA AUsersStep ==
    ASSUME AInv, NEW a \in Accesses, CreateAccess(a) \/ DeleteAccess(a)
    PROVE  AInv'
  <1> USE DEF AInv
  <1>1. CASE CreateAccess(a)
    <2> DEFINE o == [uid |-> uids[a] + 1, deleting |-> FALSE, finalizer |-> FALSE, granted |-> FALSE]
    <2>1. /\ access[a] = None /\ access' = [access EXCEPT ![a] = o] /\ todo' = todo \cup {a}
          /\ uids' = [uids EXCEPT ![a] = @ + 1]
          /\ UNCHANGED <<ClaimSide, secret, policies, workerVars, disturbed>>
      BY <1>1 DEF CreateAccess, WriteAccess
    <2>2. o \in AccessObject /\ ~o.granted  BY DEF TypeOK, AccessObject
    <2> HIDE DEF o
    <2>3. /\ access' \in [Accesses -> AccessObject \cup {None}] /\ GrantedIsHeld'
          /\ access'[a] = o /\ \A b \in Accesses \ {a} : access'[b] = access[b]
      BY <2>1, <2>2, WriteAccessSafe
    <2>4. pc # "idle" => cur # a  BY <2>1 DEF PassHolds, Held, TypeOK
    <2>5. uids' \in [Accesses -> Nat] /\ todo' \subseteq Accesses  BY <2>1 DEF TypeOK
    <2>6. PassHolds'  BY <2>1, <2>3, <2>4 DEF PassHolds, Held, TypeOK
    <2> QED  BY <2>1, <2>3, <2>5, <2>6 DEF TypeOK
  <1>2. CASE DeleteAccess(a)
    <2> DEFINE o == IF access[a].finalizer THEN [access[a] EXCEPT !.deleting = TRUE] ELSE None
    <2>1. /\ access[a] # None /\ ~access[a].deleting
          /\ access' = [access EXCEPT ![a] = o] /\ todo' = todo \cup {a}
          /\ UNCHANGED <<ClaimSide, uids, secret, policies, workerVars, disturbed>>
      BY <1>2 DEF DeleteAccess, WriteAccess
    <2>2. /\ o \in AccessObject \cup {None} /\ (o # None /\ o.granted => o.finalizer)
          /\ access[a].finalizer => o # None /\ o.finalizer
      BY <2>1, AccessTypes, NoneIsNoAccess DEF TypeOK
    <2> HIDE DEF o
    <2>3. /\ access' \in [Accesses -> AccessObject \cup {None}] /\ GrantedIsHeld'
          /\ access'[a] = o /\ \A b \in Accesses \ {a} : access'[b] = access[b]
      BY <2>1, <2>2, WriteAccessSafe
    <2>4. pc \in RevokeSteps => cur # a  BY <2>1 DEF PassHolds
    <2>5. todo' \subseteq Accesses  BY <2>1 DEF TypeOK
    <2>6. PassHolds'  BY <2>1, <2>2, <2>3, <2>4 DEF PassHolds, Held, TypeOK
    <2> QED  BY <2>1, <2>3, <2>5, <2>6 DEF TypeOK
  <1> QED  BY <1>1, <1>2

(* What the claims' controller does to what is on its side, said once with *)
(* the values a step may change.                                           *)
LEMMA ClaimStepTypes ==
    ASSUME AInv, NEW c \in Claims, ClaimStep(c) \/ Delete(c)
    PROVE  /\ life' \in [Claims -> Stages] /\ given' \in [Claims -> Names \cup {None}]
           /\ made' \subseteq Names /\ users' \subseteq Keys
  <1>1. /\ life \in [Claims -> Stages] /\ given \in [Claims -> Names \cup {None}]
        /\ made \subseteq Names /\ users \subseteq Keys
    BY DEF AInv, TypeOK
  <1>2. BucketOf[c] \in Names /\ KeyOf[c] \in Keys  BY AccessAssumption
  <1> QED
    BY <1>1, <1>2
    DEF ClaimStep, Create, Adopt, MakeBucket, MakeUser, Bind, Delete, RemoveUser, RemoveBucket,
        Vanish, Become, Stages

LEMMA AOtherStep ==
    ASSUME AInv,
           \/ Crash \/ EditClass
           \/ \E c \in Claims : ClaimMoves(c) \/ DeleteClaim(c) \/ SyncClaim(c)
           \/ \E s \in Secrets : SyncSecret(s)
    PROVE  AInv'
  <1>1. CASE Crash
    <2>1. Return /\ UNCHANGED <<ClaimSide, accessVars>> /\ todo' \subseteq Accesses  BY <1>1 DEF Crash
    <2>2. disturbed' \in Seq(Disturbances)  BY <1>1, DisturbNotes DEF Crash, AInv, TypeOK
    <2> QED  BY <2>1, <2>2, AKeep DEF AInv, TypeOK
  <1>2. CASE EditClass
    <2>1. disturbed' \in Seq(Disturbances)  BY <1>2, DisturbNotes DEF EditClass, AInv, TypeOK
    <2> QED  BY <1>2, <2>1 DEF EditClass, AInv, TypeOK, PassHolds, GrantedIsHeld, Held
  <1>3. ASSUME NEW c \in Claims, ClaimMoves(c) \/ DeleteClaim(c)  PROVE AInv'
    <2>1. UNCHANGED Others /\ (ClaimStep(c) \/ Delete(c))
      BY <1>3 DEF ClaimMoves, DeleteClaim
    <2>2. disturbed' \in Seq(Disturbances)
      BY <1>3, DisturbNotes DEF ClaimMoves, DeleteClaim, AInv, TypeOK
    <2> QED  BY <2>1, <2>2, ClaimStepTypes DEF AInv, TypeOK, PassHolds, GrantedIsHeld, Held
  <1>4. ASSUME NEW c \in Claims, SyncClaim(c)  PROVE AInv'
    <2>1. ViewOf(c) \in ClaimView  BY DEF ViewOf, ClaimView, AInv, TypeOK
    <2> QED  BY <1>4, <2>1 DEF SyncClaim, AInv, TypeOK, PassHolds, GrantedIsHeld, Held
  <1>5. ASSUME NEW s \in Secrets, SyncSecret(s)  PROVE AInv'
    BY <1>5 DEF SyncSecret, AInv, TypeOK, PassHolds, GrantedIsHeld, Held
  <1> QED  BY <1>1, <1>2, <1>3, <1>4, <1>5

LEMMA AStep == AInv /\ [Next]_vars => AInv'
  <1> SUFFICES ASSUME AInv, [Next]_vars PROVE AInv'  OBVIOUS
  <1>1. CASE WorkerStep  BY <1>1, AGrantStep, ARevokeStep DEF WorkerStep
  <1>2. CASE \E a \in Accesses : Start(a) \/ CreateAccess(a) \/ DeleteAccess(a)
    BY <1>2, AStart, AUsersStep
  <1>3. CASE \/ Crash \/ EditClass
             \/ \E c \in Claims : ClaimMoves(c) \/ DeleteClaim(c) \/ SyncClaim(c)
             \/ \E s \in Secrets : SyncSecret(s)
    BY <1>3, AOtherStep
  <1>4. CASE UNCHANGED vars
    BY <1>4 DEF vars, AInv, TypeOK, PassHolds, GrantedIsHeld, Held
  <1> QED  BY <1>1, <1>2, <1>3, <1>4 DEF Next

(* A pass keeps its BucketAccess: one that grants has it under the         *)
(* finalizer all along, one that revokes has the object it read.           *)
THEOREM PassesHold == Spec => []AInv
  <1>1. Init => AInv  BY AInit
  <1>2. AInv /\ [Next]_vars => AInv'  BY AStep
  <1> QED  BY <1>1, <1>2, PTL DEF Spec

(* Every variable of the BucketAccess controller keeps its type, and a     *)
(* pass has the bucket and the key it works with in hand.                  *)
THEOREM AccessTypeCorrect == Spec => []TypeOK
  <1>1. AInv => TypeOK  BY DEF AInv
  <1> QED  BY <1>1, PassesHold, PTL
-----------------------------------------------------------------------------
(* Whose user a step may take away, with keys and Secrets shared at will.  *)

(* A Secret holds the key of a BucketAccess that names it, and so does the *)
(* copy in the cache; the key a pass revokes is one of these.              *)
Named ==
    /\ \A s \in Secrets : /\ secret[s] \in KeysFor(s) \cup {None}
                          /\ seenSecret[s] \in KeysFor(s) \cup {None}
    /\ pc \in {"revokeProvider", "removeUser"} => victim \in KeysFor(TheSecret)

NInv == AInv /\ Named

LEMMA OwnKeyNamed == ASSUME NEW a \in Accesses PROVE KeyOf[a] \in KeysFor(SecretOf[a])
  BY DEF KeysFor

(* Only three steps have to do with what Secrets hold or with the key to   *)
(* be revoked.                                                             *)
LEMMA NamedWriters ==
    ASSUME AInv, [Next]_vars
    PROVE  \/ WriteSecret \/ DeleteSecret \/ FindKey \/ Provider \/ \E s \in Secrets : SyncSecret(s)
           \/ /\ UNCHANGED <<secret, seenSecret>>
              /\ \/ pc' \notin {"revokeProvider", "removeUser"}
                 \/ UNCHANGED <<pc, cur, victim>>
  <1>1. CASE WorkerStep
    BY <1>1
    DEF WorkerStep, ReadClaim, AddUser, AddPolicy, UpdateStatus, FindClaim, RemoveAccessUser,
        RemovePolicy, RemoveFinalizer, CallReturns, Await, Retry, Return, Goto
  <1>2. CASE \E a \in Accesses : Start(a) \/ CreateAccess(a) \/ DeleteAccess(a)
    BY <1>2 DEF Start, ReconcileNothing, ReconcileDeletion, ReconcileGrant, CreateAccess, DeleteAccess
  <1>3. CASE \/ Crash \/ EditClass \/ UNCHANGED vars
             \/ \E c \in Claims : ClaimMoves(c) \/ DeleteClaim(c) \/ SyncClaim(c)
    BY <1>3 DEF Crash, EditClass, ClaimMoves, DeleteClaim, SyncClaim, Return, vars
  <1> QED  BY <1>1, <1>2, <1>3 DEF Next

LEMMA NStep == NInv /\ [Next]_vars => NInv'
  <1> SUFFICES ASSUME NInv, [Next]_vars PROVE NInv'  OBVIOUS
  <1>0. AInv /\ AInv' /\ \A s \in Secrets : None \notin KeysFor(s)
    BY AStep, AccessAssumption DEF NInv, KeysFor
  <1>1. secret \in [Secrets -> Keys \cup {None}] /\ seenSecret \in [Secrets -> Keys \cup {None}]
    BY <1>0 DEF AInv, TypeOK
  <1>2. CASE WriteSecret \/ DeleteSecret
    <2>1. cur \in Accesses /\ TheUser = KeyOf[cur] /\ TheSecret = SecretOf[cur] /\ TheSecret \in Secrets
      BY <1>0, <1>2, InHandOK DEF WriteSecret, DeleteSecret, TheUser, TheSecret
    <2>2. /\ UNCHANGED seenSecret /\ pc' \notin {"revokeProvider", "removeUser"}
          /\ \/ secret' = secret
             \/ secret' = [secret EXCEPT ![TheSecret] = TheUser]
             \/ secret' = [secret EXCEPT ![TheSecret] = None]
      BY <1>2 DEF WriteSecret, DeleteSecret, CallReturns, Retry, Return, Goto
    <2>3. \A s \in Secrets : secret'[s] \in KeysFor(s) \cup {None}
      BY <1>1, <2>1, <2>2, OwnKeyNamed DEF NInv, Named
    <2> QED  BY <1>0, <2>2, <2>3 DEF NInv, Named
  <1>3. CASE FindKey
    <2>1. cur \in Accesses /\ TheUser = KeyOf[cur] /\ TheSecret = SecretOf[cur] /\ TheSecret \in Secrets
      BY <1>0, <1>3, InHandOK DEF FindKey, TheUser, TheSecret
    <2>2. victim' \in KeysFor(TheSecret)
      BY <1>3, <2>1, OwnKeyNamed DEF FindKey, NInv, Named
    <2> QED  BY <1>0, <1>3, <2>2 DEF FindKey, NInv, Named, TheSecret
  <1>4. CASE Provider
    BY <1>0, <1>4 DEF Provider, Goto, Retry, Return, NInv, Named, TheSecret
  <1>5. ASSUME NEW s \in Secrets, SyncSecret(s)  PROVE NInv'
    BY <1>0, <1>1, <1>5 DEF SyncSecret, NInv, Named, TheSecret
  <1>6. CASE /\ UNCHANGED <<secret, seenSecret>>
             /\ pc' \notin {"revokeProvider", "removeUser"} \/ UNCHANGED <<pc, cur, victim>>
    BY <1>0, <1>6 DEF NInv, Named, TheSecret
  <1> QED  BY <1>0, <1>2, <1>3, <1>4, <1>5, <1>6, NamedWriters

(* The steps that take a user away.                                        *)
LEMMA UserTakers ==
    ASSUME AInv, Next, NEW k \in users \ users'
    PROVE  \/ RemoveAccessUser /\ k = victim
           \/ \E c \in Claims : life[c] = "doomed" /\ k = KeyOf[c]
  <1>1. CASE WorkerStep
    BY <1>1
    DEF WorkerStep, ReadClaim, Provider, AddUser, AddPolicy, WriteSecret, UpdateStatus, FindClaim,
        FindKey, RemoveAccessUser, RemovePolicy, DeleteSecret, RemoveFinalizer
  <1>2. CASE \E a \in Accesses : Start(a) \/ CreateAccess(a) \/ DeleteAccess(a)
    BY <1>2 DEF Start, ReconcileNothing, ReconcileDeletion, ReconcileGrant, CreateAccess, DeleteAccess
  <1>3. CASE \/ Crash \/ EditClass \/ \E c \in Claims : SyncClaim(c)
             \/ \E s \in Secrets : SyncSecret(s)
    BY <1>3 DEF Crash, EditClass, SyncClaim, SyncSecret
  <1>4. ASSUME NEW c \in Claims, ClaimMoves(c) \/ DeleteClaim(c)
        PROVE  life[c] = "doomed" /\ k = KeyOf[c]
    BY <1>4
    DEF ClaimMoves, DeleteClaim, ClaimStep, Create, Adopt, MakeBucket, MakeUser, Bind, Delete,
        RemoveUser, RemoveBucket, Vanish
  <1> QED  BY <1>1, <1>2, <1>3, <1>4 DEF Next

(* A user goes only when a claim or a BucketAccess that has it is being    *)
(* deleted, or a BucketAccess that names the Secret of one that has it.    *)
(* Nothing is assumed of keys and Secrets: a claim and its BucketAccess    *)
(* may have one user, as those of the repository's end-to-end test do.     *)
THEOREM UsersGoWithOwners == Spec => UserGoesWithAnOwner
  <1>1. Init => NInv
    BY AInit, SecretsKnown DEF Init, NInv, Named
  <1>2. NInv /\ [Next]_vars => NInv'  BY NStep
  <1>3. ASSUME NInv, Next, NEW k \in users \ users'  PROVE OwnerLeaves(k)
    <2>1. CASE RemoveAccessUser /\ k = victim
      <3>1. /\ pc = "removeUser" /\ cur \in Accesses /\ TheSecret = SecretOf[cur]
            /\ victim \in KeysFor(SecretOf[cur])
        BY <1>3, <2>1 DEF RemoveAccessUser, NInv, Named, AInv, TypeOK, TheSecret
      <3>2. Held(cur) /\ access[cur].deleting
        BY <1>3, <3>1 DEF NInv, AInv, PassHolds, Held
      <3> QED  BY <2>1, <3>1, <3>2 DEF OwnerLeaves
    <2> QED  BY <1>3, <2>1, UserTakers DEF NInv, OwnerLeaves
  <1>4. NInv /\ [Next]_vars => [\A k \in users \ users' : OwnerLeaves(k)]_vars  BY <1>3
  <1> QED  BY <1>1, <1>2, <1>4, PTL DEF Spec, UserGoesWithAnOwner
-----------------------------------------------------------------------------
(* What is granted is usable.                                              *)

(* A BucketAccess is not newly reported granted.                           *)
NoneNewlyGranted ==
    \A a \in Accesses :
        access'[a] # None /\ access'[a].granted /\ ~access'[a].deleting
        => access[a] # None /\ access[a].granted /\ ~access[a].deleting

(* A step that touches neither users, policies nor Secrets: the pass is    *)
(* where it was, or where nothing of what it has done matters.             *)
LEMMA UQuiet ==
    ASSUME UInv, UNCHANGED <<life, users, secret, seenSecret, policies>>, NoneNewlyGranted,
           \/ pc' \in {"idle", "readClaim", "provider", "addUser", "findClaim", "findKey",
                       "removePolicy", "deleteSecret", "removeFinalizer"}
           \/ UNCHANGED <<pc, cur, victim>>
    PROVE  Usable'
  BY DEF UInv, Usable, OwnKeyInSecret, GrantedSoFar, GrantedIsUsable,
         NoneNewlyGranted

LEMMA SameObjects ==
    ASSUME UNCHANGED access
    PROVE  NoneNewlyGranted
  BY DEF NoneNewlyGranted

(* Users and policies may come; the granting pass ends or goes on with     *)
(* what it made.                                                           *)
LEMMA UGrow ==
    ASSUME UInv, users \subseteq users', policies \subseteq policies',
           UNCHANGED <<life, access, secret, seenSecret>>, pc' = "idle"
    PROVE  Usable'
  BY DEF UInv, Usable, OwnKeyInSecret, GrantedSoFar, GrantedIsUsable

LEMMA UStart ==
    ASSUME UInv, NEW a \in Accesses, Start(a)
    PROVE  Usable'
  <1>1. AInv  BY DEF UInv
  <1>2. CASE ReconcileNothing(a) \/ ReconcileDeletion(a)
    BY <1>2, UQuiet, SameObjects DEF ReconcileNothing, ReconcileDeletion
  <1>3. CASE ReconcileGrant(a)
    <2>1. access[a] \in AccessObject  BY <1>1, <1>3 DEF AInv, TypeOK, ReconcileGrant
    <2>2. access' = [access EXCEPT ![a] = WithFinalizer(access[a])] /\ access[a] # None
      BY <1>3 DEF ReconcileGrant
    <2>3. NoneNewlyGranted
      BY <1>1, <2>1, <2>2, AccessTypes DEF NoneNewlyGranted, AInv, TypeOK
    <2> QED  BY <1>3, <2>3, UQuiet DEF ReconcileGrant
  <1> QED  BY <1>2, <1>3 DEF Start

LEMMA UGrantStep ==
    ASSUME UInv, SeparateKeys, SeparateSecrets,
           ReadClaim \/ Provider \/ AddUser \/ AddPolicy \/ WriteSecret \/ UpdateStatus
    PROVE  Usable'
  <1>0. /\ AInv /\ cur \in Accesses /\ TheUser = KeyOf[cur] /\ TheSecret = SecretOf[cur]
        /\ loc \in AccessObject /\ TheSecret \in Secrets
    BY InHandOK
    DEF UInv, ReadClaim, Provider, AddUser, AddPolicy, WriteSecret, UpdateStatus, TheUser, TheSecret
  <1>1. CASE ReadClaim
    BY <1>1, UQuiet, SameObjects DEF ReadClaim, Await, Return
  <1>2. CASE Provider
    <2>1. CASE pc' = "removeUser"
      BY <1>2, <2>1
      DEF Provider, Goto, Retry, Return, UInv, Usable, OwnKeyInSecret, GrantedSoFar,
          GrantedIsUsable
    <2>2. CASE pc' # "removeUser"
      BY <1>2, <2>2, UQuiet, SameObjects DEF Provider, Goto, Retry, Return
    <2> QED  BY <2>1, <2>2
  <1>3. CASE AddUser
    <2>1. /\ users \subseteq users' /\ UNCHANGED <<life, policies, access, secret, seenSecret>>
          /\ pc' = "idle" \/ (pc' = "addPolicy" /\ cur' = cur /\ KeyOf[cur] \in users')
      <3>1. PICK applied \in BOOLEAN : /\ users' = IF applied THEN users \cup {TheUser} ELSE users
                                       /\ CallReturns(applied, "addPolicy")
        BY <1>3 DEF AddUser
      <3> QED  BY <1>0, <1>3, <3>1 DEF AddUser, CallReturns, Goto, Retry, Return
    <2> QED
      BY <2>1, UGrow
      DEF UInv, Usable, OwnKeyInSecret, GrantedSoFar, GrantedIsUsable
  <1>4. CASE AddPolicy
    <2>1. target \in Names /\ pc = "addPolicy"  BY <1>0, <1>4 DEF AddPolicy, AInv, TypeOK
    <2>2. /\ policies \subseteq policies' /\ UNCHANGED <<life, users, access, secret, seenSecret>>
          /\ pc' = "idle" \/ (pc' = "writeSecret" /\ cur' = cur /\ <<target, cur>> \in policies')
      <3>1. PICK applied \in BOOLEAN :
                /\ policies' = IF applied THEN policies \cup {ThePolicy} ELSE policies
                /\ CallReturns(applied, "writeSecret")
        BY <1>4 DEF AddPolicy
      <3> QED  BY <1>4, <3>1 DEF AddPolicy, CallReturns, Goto, Retry, Return, ThePolicy
    <2> QED
      BY <2>1, <2>2, UGrow
      DEF UInv, Usable, OwnKeyInSecret, GrantedSoFar, GrantedIsUsable
  <1>5. CASE WriteSecret
    <2>0. /\ pc = "writeSecret" /\ UNCHANGED <<life, users, policies, access, seenSecret>>
          /\ cur' = cur /\ pc' \in {"idle", "updateStatus"}
          /\ secret' = secret \/ secret' = [secret EXCEPT ![SecretOf[cur]] = KeyOf[cur]]
          /\ pc' = "updateStatus" => secret' = [secret EXCEPT ![SecretOf[cur]] = KeyOf[cur]]
      BY <1>0, <1>5 DEF WriteSecret, CallReturns, Goto, Retry, Return
    <2>1. secret \in [Secrets -> Keys \cup {None}]  BY <1>0 DEF AInv, TypeOK
    <2>2. \A a \in Accesses : secret'[SecretOf[a]] = secret[SecretOf[a]]
                              \/ (a = cur /\ secret'[SecretOf[a]] = KeyOf[a])
      BY <1>0, <2>0, <2>1, SecretsKnown DEF SeparateSecrets
    <2>3. pc' = "updateStatus" => secret'[SecretOf[cur]] = KeyOf[cur]
      BY <1>0, <2>0, <2>1, SecretsKnown
    <2> QED
      BY <1>0, <2>0, <2>2, <2>3
      DEF UInv, Usable, OwnKeyInSecret, GrantedSoFar, GrantedIsUsable
  <1>6. CASE UpdateStatus
    <2>1. CASE Retry /\ UNCHANGED access
      BY <1>6, <2>1, UQuiet, SameObjects DEF UpdateStatus, Retry, Return
    <2>2. CASE WriteAccess(cur, [loc EXCEPT !.granted = TRUE]) /\ Return
      <3>1. \A a \in Accesses : a # cur => access'[a] = access[a]
        BY <1>0, <2>2 DEF WriteAccess, AInv, TypeOK
      <3>2. /\ pc = "updateStatus" /\ pc' = "idle"
            /\ UNCHANGED <<life, users, secret, seenSecret, policies>>
        BY <1>6, <2>2 DEF UpdateStatus, Return
      <3> QED
        BY <1>0, <3>1, <3>2
        DEF UInv, Usable, OwnKeyInSecret, GrantedSoFar, GrantedIsUsable
    <2> QED  BY <1>6, <2>1, <2>2 DEF UpdateStatus
  <1> QED  BY <1>1, <1>2, <1>3, <1>4, <1>5, <1>6

(* A revoking pass touches what belongs to its own BucketAccess, which is  *)
(* marked for deletion.                                                    *)
LEMMA URevokeStep ==
    ASSUME UInv, SeparateKeys, SeparateSecrets,
           FindClaim \/ FindKey \/ RemoveAccessUser \/ RemovePolicy \/ DeleteSecret \/ RemoveFinalizer
    PROVE  Usable'
  <1>0. /\ AInv /\ cur \in Accesses /\ TheUser = KeyOf[cur] /\ TheSecret = SecretOf[cur]
        /\ TheSecret \in Secrets /\ access[cur].deleting
    BY InHandOK
    DEF UInv, AInv, PassHolds, FindClaim, FindKey, RemoveAccessUser, RemovePolicy, DeleteSecret,
        RemoveFinalizer, TheUser, TheSecret
  <1>1. CASE FindClaim
    BY <1>1, UQuiet, SameObjects DEF FindClaim, Goto
  <1>2. CASE FindKey
    <2>1. victim' = KeyOf[cur] /\ cur' = cur /\ pc' = "revokeProvider"
      BY <1>0, <1>2 DEF FindKey, UInv, Usable, OwnKeyInSecret
    <2> QED
      BY <1>2, <2>1
      DEF FindKey, UInv, Usable, OwnKeyInSecret, GrantedSoFar, GrantedIsUsable
  <1>3. CASE RemoveAccessUser
    <2>1. victim = KeyOf[cur]  BY <1>3 DEF RemoveAccessUser, UInv, Usable, OwnKeyInSecret
    <2>2. /\ UNCHANGED <<life, policies, access, secret, seenSecret>> /\ pc' = "removePolicy"
          /\ users' = users \ {KeyOf[cur]} \/ users' = users
      BY <1>3, <2>1 DEF RemoveAccessUser, Goto
    <2>3. \A a \in Accesses : a # cur => KeyOf[a] # KeyOf[cur]  BY <1>0 DEF SeparateKeys
    <2> QED
      BY <1>0, <2>2, <2>3
      DEF UInv, Usable, OwnKeyInSecret, GrantedSoFar, GrantedIsUsable
  <1>4. CASE RemovePolicy
    <2>1. /\ UNCHANGED <<life, users, access, secret, seenSecret>> /\ pc' = "deleteSecret"
          /\ policies' = policies \ {<<target, cur>>} \/ policies' = policies
      BY <1>4 DEF RemovePolicy, Goto, ThePolicy
    <2> QED
      BY <1>0, <2>1
      DEF UInv, Usable, OwnKeyInSecret, GrantedSoFar, GrantedIsUsable
  <1>5. CASE DeleteSecret
    <2>1. /\ UNCHANGED <<life, users, policies, access, seenSecret>> /\ pc' = "removeFinalizer"
          /\ secret' = [secret EXCEPT ![SecretOf[cur]] = None] \/ secret' = secret
      BY <1>0, <1>5 DEF DeleteSecret, Goto
    <2>2. \A a \in Accesses : secret'[SecretOf[a]] = secret[SecretOf[a]]
                              \/ (a = cur /\ secret'[SecretOf[a]] = None)
      BY <1>0, <2>1, SecretsKnown DEF SeparateSecrets, AInv, TypeOK
    <2> QED
      BY <1>0, <2>1, <2>2
      DEF UInv, Usable, OwnKeyInSecret, GrantedSoFar, GrantedIsUsable
  <1>6. CASE RemoveFinalizer
    <2>1. NoneNewlyGranted
      BY <1>0, <1>6 DEF RemoveFinalizer, WriteAccess, NoneNewlyGranted, AInv, TypeOK
    <2> QED  BY <1>6, <2>1, UQuiet DEF RemoveFinalizer, Return, Retry
  <1> QED  BY <1>1, <1>2, <1>3, <1>4, <1>5, <1>6

LEMMA UUsersStep ==
    ASSUME UInv, NEW a \in Accesses, CreateAccess(a) \/ DeleteAccess(a)
    PROVE  Usable'
  <1>0. AInv  BY DEF UInv
  <1>1. CASE CreateAccess(a)
    <2>1. NoneNewlyGranted  BY <1>0, <1>1 DEF CreateAccess, WriteAccess, NoneNewlyGranted, AInv, TypeOK
    <2> QED  BY <1>1, <2>1, UQuiet DEF CreateAccess
  <1>2. CASE DeleteAccess(a)
    <2> DEFINE o == IF access[a].finalizer THEN [access[a] EXCEPT !.deleting = TRUE] ELSE None
    <2>1. access[a] \in AccessObject /\ access' = [access EXCEPT ![a] = o]
      BY <1>0, <1>2 DEF DeleteAccess, WriteAccess, AInv, TypeOK
    <2>2. o # None => o.deleting  BY <2>1, AccessTypes
    <2> HIDE DEF o
    <2>3. NoneNewlyGranted  BY <1>0, <2>1, <2>2 DEF NoneNewlyGranted, AInv, TypeOK
    <2> QED  BY <1>2, <2>3, UQuiet DEF DeleteAccess
  <1> QED  BY <1>1, <1>2

(* The claims' controller adds and removes the users of claims only.       *)
LEMMA ClaimStepUsers ==
    ASSUME AInv, NEW c \in Claims, ClaimStep(c) \/ Delete(c)
    PROVE  /\ users' \in {users, users \cup {KeyOf[c]}, users \ {KeyOf[c]}}
           /\ \A d \in Claims \ {c} : life'[d] = life[d]
  <1>1. life \in [Claims -> Stages]  BY DEF AInv, TypeOK
  <1> QED
    BY <1>1
    DEF ClaimStep, Create, Adopt, MakeBucket, MakeUser, Bind, Delete, RemoveUser, RemoveBucket,
        Vanish, Become

LEMMA UOtherStep ==
    ASSUME UInv, SeparateKeys, SeparateSecrets,
           \/ Crash \/ EditClass
           \/ \E c \in Claims : ClaimMoves(c) \/ DeleteClaim(c) \/ SyncClaim(c)
           \/ \E s \in Secrets : SyncSecret(s)
    PROVE  Usable'
  <1>1. CASE Crash  BY <1>1, UQuiet, SameObjects DEF Crash, Return
  <1>2. CASE EditClass  BY <1>2, UQuiet, SameObjects DEF EditClass
  <1>3. ASSUME NEW c \in Claims, ClaimMoves(c) \/ DeleteClaim(c)  PROVE Usable'
    <2>1. UNCHANGED Others /\ (ClaimStep(c) \/ Delete(c)) /\ AInv /\ cur \in Accesses
      BY <1>3 DEF ClaimMoves, DeleteClaim, UInv, AInv, TypeOK
    <2>2. \A a \in Accesses : KeyOf[a] # KeyOf[c]  BY DEF SeparateKeys
    <2>3. \A a \in Accesses : KeyOf[a] \in users' <=> KeyOf[a] \in users
      BY <2>1, <2>2, ClaimStepUsers
    <2> QED
      BY <2>1, <2>3 DEF UInv, Usable, OwnKeyInSecret, GrantedSoFar, GrantedIsUsable
  <1>4. ASSUME NEW c \in Claims, SyncClaim(c)  PROVE Usable'
    BY <1>4, UQuiet, SameObjects DEF SyncClaim
  <1>5. ASSUME NEW s \in Secrets, SyncSecret(s)  PROVE Usable'
    <2>1. /\ UNCHANGED <<users, secret, policies, access, pc, cur, victim>>
          /\ \A t \in Secrets : seenSecret'[t] \in {seenSecret[t], secret[t]}
      BY <1>5 DEF SyncSecret, UInv, AInv, TypeOK
    <2>2. OwnKeyInSecret'  BY <2>1, SecretsKnown DEF UInv, Usable, OwnKeyInSecret
    <2> QED  BY <2>1, <2>2 DEF UInv, Usable, GrantedSoFar, GrantedIsUsable
  <1> QED  BY <1>1, <1>2, <1>3, <1>4, <1>5

LEMMA UStep == SeparateKeys /\ SeparateSecrets /\ UInv /\ [Next]_vars => UInv'
  <1> SUFFICES ASSUME SeparateKeys, SeparateSecrets, UInv, [Next]_vars PROVE UInv'  OBVIOUS
  <1>0. AInv'  BY AStep DEF UInv
  <1>1. CASE WorkerStep  BY <1>0, <1>1, UGrantStep, URevokeStep DEF WorkerStep, UInv
  <1>2. CASE \E a \in Accesses : Start(a) \/ CreateAccess(a) \/ DeleteAccess(a)
    BY <1>0, <1>2, UStart, UUsersStep DEF UInv
  <1>3. CASE \/ Crash \/ EditClass
             \/ \E c \in Claims : ClaimMoves(c) \/ DeleteClaim(c) \/ SyncClaim(c)
             \/ \E s \in Secrets : SyncSecret(s)
    BY <1>0, <1>3, UOtherStep DEF UInv
  <1>4. CASE UNCHANGED vars
    BY <1>0, <1>4, UQuiet, SameObjects DEF vars, UInv
  <1> QED  BY <1>1, <1>2, <1>3, <1>4 DEF Next

LEMMA UInit == Init => UInv
  <1> SUFFICES ASSUME Init PROVE UInv  OBVIOUS
  <1>1. AInv  BY AInit
  <1> QED
    BY <1>1, SecretsKnown
    DEF UInv, Usable, OwnKeyInSecret, GrantedSoFar, GrantedIsUsable, Init, LifeInit

(* What a granting pass has made stays until it ends, and a revoking pass  *)
(* takes away nobody else's user or Secret.                                *)
THEOREM UsableHolds == SeparateKeys /\ SeparateSecrets => (Spec => []UInv)
  <1> SUFFICES ASSUME SeparateKeys, SeparateSecrets PROVE Spec => []UInv  OBVIOUS
  <1>1. Init => UInv  BY UInit
  <1>2. UInv /\ [Next]_vars => UInv'  BY UStep
  <1> QED  BY <1>1, <1>2, PTL DEF Spec

(* accessGranted can be relied on: as long as the BucketAccess is not      *)
(* deleted its user, policy and Secret are there, whatever becomes of the  *)
(* claim and of the other BucketAccesses, with every failure, crash and    *)
(* stale cache the controller meets.                                       *)
THEOREM GrantedUsable == SeparateKeys /\ SeparateSecrets => (Spec => []GrantedIsUsable)
  <1>1. UInv => GrantedIsUsable  BY DEF UInv, Usable
  <1> QED  BY <1>1, UsableHolds, PTL
-----------------------------------------------------------------------------
(* Nothing of a BucketAccess is left behind.                               *)

LEMMA CalmBack ==
    ASSUME AInv, [Next]_vars
    PROVE  Calm' => Calm
  <1>1. disturbed' = disturbed \/ \E kind : Disturb(kind)
    BY DEF Next, vars, WorkerStep, Start, Crash, EditClass, CreateAccess, DeleteAccess, ClaimMoves,
           DeleteClaim, SyncClaim, SyncSecret, ReconcileNothing, ReconcileDeletion, ReconcileGrant,
           ReadClaim, Provider, AddUser, AddPolicy, WriteSecret, UpdateStatus, CallReturns,
           FindClaim, FindKey, RemoveAccessUser, RemovePolicy, DeleteSecret, RemoveFinalizer
  <1>2. disturbed \in Seq(Disturbances)  BY DEF AInv, TypeOK
  <1> QED  BY <1>1, <1>2, DisturbNotes, CalmStays

(* A step that leaves what is made and what is seen alone, and lets go of  *)
(* no BucketAccess.                                                        *)
LEMMA CQuiet ==
    ASSUME CInv, Calm' => Calm, UNCHANGED <<lifeVars, seen, secret, policies>>,
           \A a \in Accesses : Held(a) => Held(a)',
           pc' \in {"idle", "readClaim", "findClaim"} \/ UNCHANGED <<pc, cur, target>>
    PROVE  Cleaned'
  BY DEF CInv, Cleaned, OneBucketEach, SeenIsThere, TracesAreHeld, RevokedSoFar, Traces, TheClaim

LEMMA SameHeld ==
    ASSUME UNCHANGED access
    PROVE  \A a \in Accesses : Held(a) => Held(a)'
  BY DEF Held

LEMMA CStart ==
    ASSUME CInv, Calm' => Calm, NEW a \in Accesses, Start(a)
    PROVE  Cleaned'
  <1>1. AInv  BY DEF CInv, UInv
  <1>2. CASE ReconcileNothing(a) \/ ReconcileDeletion(a)
    BY <1>2, CQuiet, SameHeld DEF ReconcileNothing, ReconcileDeletion
  <1>3. CASE ReconcileGrant(a)
    <2>1. access[a] \in AccessObject  BY <1>1, <1>3 DEF AInv, TypeOK, ReconcileGrant
    <2>2. access' = [access EXCEPT ![a] = WithFinalizer(access[a])]
      BY <1>3 DEF ReconcileGrant
    <2>3. \A b \in Accesses : Held(b) => Held(b)'
      BY <1>1, <2>1, <2>2, AccessTypes, NoneIsNoAccess DEF Held, AInv, TypeOK
    <2> QED  BY <1>3, <2>3, CQuiet DEF ReconcileGrant
  <1> QED  BY <1>2, <1>3 DEF Start

(* Traces that come are those of the BucketAccess the pass holds.          *)
LEMMA CGrantStep ==
    ASSUME CInv, Calm' => Calm, SeparateKeys, SeparateSecrets,
           ReadClaim \/ Provider \/ AddUser \/ AddPolicy \/ WriteSecret \/ UpdateStatus
    PROVE  Cleaned'
  <1>0. /\ AInv /\ cur \in Accesses /\ TheUser = KeyOf[cur] /\ TheSecret = SecretOf[cur]
        /\ loc \in AccessObject /\ TheSecret \in Secrets /\ TheClaim \in Claims /\ TheClaim = ClaimOf[cur]
    BY InHandOK
    DEF CInv, UInv, ReadClaim, Provider, AddUser, AddPolicy, WriteSecret, UpdateStatus, TheUser,
        TheSecret, TheClaim
  <1>00. pc \in GrantSteps => Held(cur)  BY <1>0 DEF AInv, PassHolds
  <1>1. CASE ReadClaim
    <2>1. CASE Await  BY <1>1, <2>1, CQuiet, SameHeld DEF ReadClaim, Await, Return
    <2>2. CASE /\ Ready(seen[TheClaim]) /\ pc' = "provider" /\ target' = seen[TheClaim].given
               /\ cur' = cur
      <3>1. target' = BucketOf[TheClaim] /\ seen[TheClaim].there
        BY <1>0, <2>2 DEF Ready, CInv, Cleaned, OneBucketEach
      <3> QED
        BY <1>1, <2>2, <3>1
        DEF ReadClaim, CInv, Cleaned, OneBucketEach, SeenIsThere, TracesAreHeld, RevokedSoFar,
            Traces, TheClaim, Held
    <2> QED  BY <1>1, <2>1, <2>2 DEF ReadClaim
  <1>2. CASE Provider
    <2>1. CASE Retry  BY <1>2, <2>1, CQuiet, SameHeld DEF Provider, Retry, Return
    <2>2. CASE Goto(IF pc = "provider" THEN "addUser" ELSE "removeUser")
      BY <1>2, <2>2
      DEF Provider, Goto, CInv, Cleaned, OneBucketEach, SeenIsThere, TracesAreHeld, RevokedSoFar,
          Traces, TheClaim, Held
    <2> QED  BY <1>2, <2>1, <2>2 DEF Provider
  <1>3. CASE AddUser
    <2>1. /\ users' = users \/ users' = users \cup {KeyOf[cur]}
          /\ pc = "addUser"
          /\ UNCHANGED <<life, given, seen, policies, access, secret>>
          /\ pc' = "idle" \/ (pc' = "addPolicy" /\ UNCHANGED <<cur, target>>)
      <3>1. PICK applied \in BOOLEAN : /\ users' = IF applied THEN users \cup {TheUser} ELSE users
                                       /\ CallReturns(applied, "addPolicy")
        BY <1>3 DEF AddUser
      <3> QED  BY <1>0, <1>3, <3>1 DEF AddUser, CallReturns, Goto, Retry, Return
    <2>2. \A a \in Accesses : Traces(a)' => Traces(a) \/ a = cur
      BY <1>0, <2>1 DEF Traces, SeparateKeys
    <2>3. OneBucketEach' /\ SeenIsThere' /\ RevokedSoFar'
      BY <2>1 DEF CInv, Cleaned, OneBucketEach, SeenIsThere, RevokedSoFar, TheClaim
    <2>4. TracesAreHeld'
      BY <1>0, <1>00, <2>1, <2>2 DEF CInv, Cleaned, TracesAreHeld, TheClaim, Held
    <2> QED  BY <2>3, <2>4 DEF Cleaned
  <1>4. CASE AddPolicy
    <2>1. /\ policies' = policies \/ policies' = policies \cup {<<target, cur>>}
          /\ pc = "addPolicy" /\ UNCHANGED <<life, given, users, seen, access, secret>>
          /\ pc' = "idle" \/ (pc' = "writeSecret" /\ UNCHANGED <<cur, target>>)
      <3>1. PICK applied \in BOOLEAN :
                /\ policies' = IF applied THEN policies \cup {ThePolicy} ELSE policies
                /\ CallReturns(applied, "writeSecret")
        BY <1>4 DEF AddPolicy
      <3> QED  BY <1>4, <3>1 DEF AddPolicy, CallReturns, Goto, Retry, Return, ThePolicy
    <2>2. \A a \in Accesses : Traces(a)' => Traces(a) \/ a = cur
      BY <2>1 DEF Traces
    <2>3. OneBucketEach' /\ SeenIsThere' /\ RevokedSoFar'
      BY <1>0, <2>1 DEF CInv, Cleaned, OneBucketEach, SeenIsThere, RevokedSoFar, TheClaim
    <2>4. TracesAreHeld'
      BY <1>0, <1>00, <2>1, <2>2 DEF CInv, Cleaned, TracesAreHeld, TheClaim, Held
    <2> QED  BY <2>3, <2>4 DEF Cleaned
  <1>5. CASE WriteSecret
    <2>1. /\ pc = "writeSecret" /\ UNCHANGED <<life, given, users, seen, access, policies>>
          /\ secret' = secret \/ secret' = [secret EXCEPT ![SecretOf[cur]] = KeyOf[cur]]
          /\ pc' = "idle" \/ (pc' = "updateStatus" /\ UNCHANGED <<cur, target>>)
      BY <1>0, <1>5 DEF WriteSecret, CallReturns, Goto, Retry, Return
    <2>2. \A a \in Accesses : Traces(a)' => Traces(a) \/ a = cur
      BY <1>0, <2>1, SecretsKnown DEF Traces, SeparateSecrets, AInv, TypeOK
    <2>3. OneBucketEach' /\ SeenIsThere' /\ RevokedSoFar'
      BY <2>1 DEF CInv, Cleaned, OneBucketEach, SeenIsThere, RevokedSoFar, TheClaim
    <2>4. TracesAreHeld'
      BY <1>0, <1>00, <2>1, <2>2 DEF CInv, Cleaned, TracesAreHeld, TheClaim, Held
    <2> QED  BY <2>3, <2>4 DEF Cleaned
  <1>6. CASE UpdateStatus
    <2>1. CASE Retry /\ UNCHANGED access
      BY <1>6, <2>1, CQuiet, SameHeld DEF UpdateStatus, Retry, Return
    <2>2. CASE WriteAccess(cur, [loc EXCEPT !.granted = TRUE]) /\ Return
      <3> DEFINE o == [loc EXCEPT !.granted = TRUE]
      <3>1. o \in AccessObject /\ o.finalizer /\ o # None
        BY <1>0, <1>6, AccessTypes, NoneIsNoAccess DEF AInv, PassHolds, UpdateStatus
      <3>2. access' = [access EXCEPT ![cur] = o]  BY <2>2 DEF WriteAccess
      <3> HIDE DEF o
      <3>3. \A a \in Accesses : Held(a) => Held(a)'  BY <1>0, <3>1, <3>2 DEF Held, AInv, TypeOK
      <3> QED  BY <1>6, <2>2, <3>3, CQuiet DEF UpdateStatus, Return
    <2> QED  BY <1>6, <2>1, <2>2 DEF UpdateStatus
  <1> QED  BY <1>1, <1>2, <1>3, <1>4, <1>5, <1>6

(* The finalizer goes when the user, the policies and the Secret are gone: *)
(* if the claim was found they have been removed in this pass, and if it   *)
(* was not, none had been made.                                            *)
LEMMA CRevokeStep ==
    ASSUME CInv, Calm' => Calm, SeparateKeys, SeparateSecrets,
           FindClaim \/ FindKey \/ RemoveAccessUser \/ RemovePolicy \/ DeleteSecret \/ RemoveFinalizer
    PROVE  Cleaned'
  <1>0. /\ AInv /\ cur \in Accesses /\ TheUser = KeyOf[cur] /\ TheSecret = SecretOf[cur]
        /\ TheSecret \in Secrets /\ TheClaim \in Claims /\ TheClaim = ClaimOf[cur]
        /\ KeyOf[cur] # None /\ disturbed \in Seq(Disturbances)
    BY InHandOK
    DEF CInv, UInv, AInv, TypeOK, FindClaim, FindKey, RemoveAccessUser, RemovePolicy, DeleteSecret,
        RemoveFinalizer, TheUser, TheSecret, TheClaim
  <1>1. CASE FindClaim
    <2>0. /\ pc = "findClaim" /\ cur' = cur
          /\ UNCHANGED <<life, given, users, seen, secret, policies, access>>
      BY <1>1 DEF FindClaim, Goto
    <2>1. CASE ~seen[TheClaim].there /\ pc' = "removeFinalizer"
      <3>1. Calm => ~Traces(cur)
        BY <1>0, <2>1 DEF CInv, Cleaned, TracesAreHeld
      <3>2. \A p \in policies : p \in Names \X Accesses  BY <1>0 DEF AInv, TypeOK, PolicyId
      <3>3. RevokedSoFar'
        BY <2>0, <2>1, <3>1 DEF CInv, Cleaned, RevokedSoFar, Traces
      <3> QED
        BY <2>0, <2>1, <3>3
        DEF CInv, Cleaned, OneBucketEach, SeenIsThere, TracesAreHeld, Traces, TheClaim, Held
    <2>2. CASE pc' = "findKey" /\ target' = IF seen[TheClaim].given # None THEN seen[TheClaim].given
                                                                        ELSE BucketOf[TheClaim]
      <3>1. target' = BucketOf[TheClaim]
        BY <1>0, <2>2 DEF CInv, Cleaned, OneBucketEach
      <3> QED
        BY <2>0, <2>2, <3>1
        DEF CInv, Cleaned, OneBucketEach, SeenIsThere, TracesAreHeld, RevokedSoFar, Traces,
            TheClaim, Held
    <2> QED  BY <1>1, <2>1, <2>2 DEF FindClaim, Goto
  <1>2. CASE FindKey
    BY <1>2
    DEF FindKey, CInv, Cleaned, OneBucketEach, SeenIsThere, TracesAreHeld, RevokedSoFar, Traces,
        TheClaim, Held
  <1>3. CASE RemoveAccessUser
    <2>1. victim = KeyOf[cur]  BY <1>3 DEF RemoveAccessUser, CInv, UInv, Usable, OwnKeyInSecret
    <2>2. /\ UNCHANGED <<life, given, seen, policies, access, secret, cur, target>>
          /\ pc = "removeUser" /\ pc' = "removePolicy" /\ users' \subseteq users
          /\ users' = users \ {KeyOf[cur]} \/ Disturb("revokeFault")
      BY <1>3, <2>1 DEF RemoveAccessUser, Goto
    <2>3. Calm' => KeyOf[cur] \notin users'  BY <1>0, <2>2, DisturbNotes
    <2> QED
      BY <2>2, <2>3
      DEF CInv, Cleaned, OneBucketEach, SeenIsThere, TracesAreHeld, RevokedSoFar, Traces,
          TheClaim, Held
  <1>4. CASE RemovePolicy
    <2>1. /\ UNCHANGED <<life, given, users, seen, access, secret, cur, target>>
          /\ pc = "removePolicy" /\ pc' = "deleteSecret" /\ policies' \subseteq policies
          /\ policies' = policies \ {<<target, cur>>} \/ Disturb("revokeFault")
      BY <1>4 DEF RemovePolicy, Goto, ThePolicy
    <2>2. \A n \in Names : <<n, cur>> \in policies => n = target
      BY <1>0, <2>1 DEF CInv, Cleaned, OneBucketEach
    <2>3. Calm' => \A n \in Names : <<n, cur>> \notin policies'
      BY <1>0, <2>1, <2>2, DisturbNotes
    <2> QED
      BY <2>1, <2>3
      DEF CInv, Cleaned, OneBucketEach, SeenIsThere, TracesAreHeld, RevokedSoFar, Traces,
          TheClaim, Held
  <1>5. CASE DeleteSecret
    <2>1. /\ UNCHANGED <<life, given, users, seen, access, policies, cur, target>>
          /\ pc = "deleteSecret" /\ pc' = "removeFinalizer"
          /\ \/ secret' = [secret EXCEPT ![SecretOf[cur]] = None]
             \/ Disturb("revokeFault") /\ secret' = secret
      BY <1>0, <1>5 DEF DeleteSecret, Goto
    <2>2. Calm' => secret'[SecretOf[cur]] # KeyOf[cur]
      BY <1>0, <2>1, DisturbNotes DEF AInv, TypeOK
    <2>3. \A a \in Accesses : Traces(a)' => Traces(a)
      <3>1. \A a \in Accesses : KeyOf[a] # None  BY AccessAssumption
      <3>2. \A a \in Accesses : secret'[SecretOf[a]] \in {secret[SecretOf[a]], None}
        BY <1>0, <2>1, SecretsKnown DEF AInv, TypeOK
      <3> QED  BY <2>1, <3>1, <3>2 DEF Traces
    <2>4. TracesAreHeld'  BY <2>1, <2>3 DEF CInv, Cleaned, TracesAreHeld, TheClaim, Held
    <2> QED
      BY <2>1, <2>2, <2>4
      DEF CInv, Cleaned, OneBucketEach, SeenIsThere, RevokedSoFar, TheClaim
  <1>6. CASE RemoveFinalizer
    <2>1. CASE Retry /\ UNCHANGED access
      BY <1>6, <2>1, CQuiet, SameHeld DEF RemoveFinalizer, Retry, Return
    <2>2. CASE WriteAccess(cur, None) /\ Return
      <3>1. /\ pc = "removeFinalizer" /\ pc' = "idle"
            /\ UNCHANGED <<life, given, users, seen, secret, policies>>
        BY <1>6, <2>2 DEF RemoveFinalizer, Return
      <3>2. \A a \in Accesses : Held(a) /\ a # cur => Held(a)'
        BY <1>0, <2>2 DEF WriteAccess, Held, AInv, TypeOK
      <3>3. Calm => ~Traces(cur)  BY <3>1 DEF CInv, Cleaned, RevokedSoFar, Traces
      <3>4. \A a \in Accesses : Traces(a)' => Traces(a)  BY <3>1 DEF Traces
      <3>5. TracesAreHeld'  BY <3>1, <3>2, <3>3, <3>4 DEF CInv, Cleaned, TracesAreHeld
      <3> QED
        BY <3>1, <3>5 DEF CInv, Cleaned, OneBucketEach, SeenIsThere, RevokedSoFar
    <2> QED  BY <1>6, <2>1, <2>2 DEF RemoveFinalizer
  <1> QED  BY <1>1, <1>2, <1>3, <1>4, <1>5, <1>6

LEMMA CUsersStep ==
    ASSUME CInv, Calm' => Calm, NEW a \in Accesses, CreateAccess(a) \/ DeleteAccess(a)
    PROVE  Cleaned'
  <1>0. AInv  BY DEF CInv, UInv
  <1>1. CASE CreateAccess(a)
    <2>1. \A b \in Accesses : Held(b) => Held(b)'
      BY <1>0, <1>1 DEF CreateAccess, WriteAccess, Held, AInv, TypeOK
    <2> QED  BY <1>1, <2>1, CQuiet DEF CreateAccess
  <1>2. CASE DeleteAccess(a)
    <2> DEFINE o == IF access[a].finalizer THEN [access[a] EXCEPT !.deleting = TRUE] ELSE None
    <2>1. access[a] \in AccessObject /\ access' = [access EXCEPT ![a] = o]
      BY <1>0, <1>2 DEF DeleteAccess, WriteAccess, AInv, TypeOK
    <2>2. access[a].finalizer => o # None /\ o.finalizer  BY <2>1, AccessTypes, NoneIsNoAccess
    <2> HIDE DEF o
    <2>3. \A b \in Accesses : Held(b) => Held(b)'  BY <1>0, <2>1, <2>2 DEF Held, AInv, TypeOK
    <2> QED  BY <1>2, <2>3, CQuiet DEF DeleteAccess
  <1> QED  BY <1>1, <1>2

(* No claim that is not doomed goes away, and none is doomed but by being  *)
(* deleted.                                                                *)
LEMMA ClaimStepLives ==
    ASSUME AInv, NEW c \in Claims, ClaimStep(c)
    PROVE  /\ life[c] # "doomed" =>
                 life'[c] # "doomed" /\ (life[c] # "absent" => life'[c] # "absent")
           /\ given'[c] \in {given[c], BucketOf[c], None}
           /\ \A d \in Claims \ {c} : given'[d] = given[d]
  <1>1. life \in [Claims -> Stages] /\ given \in [Claims -> Names \cup {None}]  BY DEF AInv, TypeOK
  <1> QED
    BY <1>1
    DEF ClaimStep, Create, Adopt, MakeBucket, MakeUser, Bind, Delete, RemoveUser, RemoveBucket,
        Vanish, Become

LEMMA COtherStep ==
    ASSUME CInv, Calm' => Calm, SeparateKeys, SeparateSecrets,
           \/ Crash \/ EditClass
           \/ \E c \in Claims : ClaimMoves(c) \/ DeleteClaim(c) \/ SyncClaim(c)
           \/ \E s \in Secrets : SyncSecret(s)
    PROVE  Cleaned'
  <1>0. AInv /\ disturbed \in Seq(Disturbances) /\ cur \in Accesses  BY DEF CInv, UInv, AInv, TypeOK
  <1>1. CASE Crash  BY <1>1, CQuiet, SameHeld DEF Crash, Return
  <1>2. CASE EditClass  BY <1>2, CQuiet, SameHeld DEF EditClass
  <1>3. ASSUME NEW c \in Claims, ClaimMoves(c)  PROVE Cleaned'
    <2>1. UNCHANGED Others /\ ClaimStep(c)  BY <1>3 DEF ClaimMoves
    <2>2. \A a \in Accesses : KeyOf[a] \in users' <=> KeyOf[a] \in users
      BY <1>0, <2>1, ClaimStepUsers DEF SeparateKeys
    <2>3. OneBucketEach'
      BY <1>0, <2>1, ClaimStepLives DEF CInv, Cleaned, OneBucketEach, TheClaim
    <2>4. SeenIsThere'
      BY <1>0, <2>1, ClaimStepLives, ClaimStepUsers DEF CInv, Cleaned, SeenIsThere
    <2>5. TracesAreHeld' /\ RevokedSoFar'
      BY <1>0, <2>1, <2>2 DEF CInv, Cleaned, TracesAreHeld, RevokedSoFar, Traces, TheClaim, Held
    <2> QED  BY <2>3, <2>4, <2>5 DEF Cleaned
  <1>4. ASSUME NEW c \in Claims, DeleteClaim(c)  PROVE Cleaned'
    <2>1. UNCHANGED <<Others, given>> /\ ~Calm'  BY <1>0, <1>4, DisturbNotes DEF DeleteClaim, Delete
    <2> QED
      BY <2>1 DEF CInv, Cleaned, OneBucketEach, SeenIsThere, TracesAreHeld, RevokedSoFar, TheClaim
  <1>5. ASSUME NEW c \in Claims, SyncClaim(c)  PROVE Cleaned'
    <2>1. /\ \A d \in Claims : seen'[d] = seen[d] \/ (d = c /\ seen'[d] = ViewOf(c))
          /\ UNCHANGED <<lifeVars, secret, policies, access, pc, cur, target>>
      BY <1>0, <1>5 DEF SyncClaim, AInv, TypeOK
    <2>2. ViewOf(c).given = given[c] /\ (ViewOf(c).there <=> life[c] # "absent")  BY DEF ViewOf
    <2>3. Calm => \A d \in Claims : seen[d].there => seen'[d].there
      BY <2>1, <2>2 DEF CInv, Cleaned, SeenIsThere
    <2>4. OneBucketEach'
      BY <2>1, <2>2 DEF CInv, Cleaned, OneBucketEach, TheClaim
    <2>5. SeenIsThere'  BY <2>1, <2>2 DEF CInv, Cleaned, SeenIsThere
    <2>6. TracesAreHeld'
      <3>1. pc # "idle" => TheClaim \in Claims  BY <1>0, InHandOK
      <3> QED
        BY <2>1, <2>3, <3>1 DEF CInv, Cleaned, TracesAreHeld, Traces, TheClaim, Held
    <2>7. RevokedSoFar'  BY <2>1 DEF CInv, Cleaned, RevokedSoFar
    <2> QED  BY <2>4, <2>5, <2>6, <2>7 DEF Cleaned
  <1>6. ASSUME NEW s \in Secrets, SyncSecret(s)  PROVE Cleaned'
    BY <1>6, CQuiet, SameHeld DEF SyncSecret
  <1> QED  BY <1>1, <1>2, <1>3, <1>4, <1>5, <1>6

LEMMA CStep == SeparateKeys /\ SeparateSecrets /\ CInv /\ [Next]_vars => CInv'
  <1> SUFFICES ASSUME SeparateKeys, SeparateSecrets, CInv, [Next]_vars PROVE CInv'  OBVIOUS
  <1>0. UInv' /\ (Calm' => Calm)  BY UStep, CalmBack DEF CInv, UInv
  <1>1. CASE WorkerStep  BY <1>0, <1>1, CGrantStep, CRevokeStep DEF WorkerStep, CInv
  <1>2. CASE \E a \in Accesses : Start(a) \/ CreateAccess(a) \/ DeleteAccess(a)
    BY <1>0, <1>2, CStart, CUsersStep DEF CInv
  <1>3. CASE \/ Crash \/ EditClass
             \/ \E c \in Claims : ClaimMoves(c) \/ DeleteClaim(c) \/ SyncClaim(c)
             \/ \E s \in Secrets : SyncSecret(s)
    BY <1>0, <1>3, COtherStep DEF CInv
  <1>4. CASE UNCHANGED vars
    BY <1>0, <1>4, CQuiet, SameHeld DEF vars, CInv
  <1> QED  BY <1>1, <1>2, <1>3, <1>4 DEF Next

LEMMA CInit == SeparateKeys /\ SeparateSecrets /\ Init => CInv
  <1> SUFFICES ASSUME Init PROVE CInv  OBVIOUS
  <1>1. UInv  BY UInit
  <1>2. \A a \in Accesses : ~Traces(a)
    BY SecretsKnown, AccessAssumption DEF Traces, Init, LifeInit
  <1>3. \A c \in Claims : seen[c].given = None /\ ~seen[c].there /\ given[c] = None /\ life[c] = "absent"
    BY DEF Init, LifeInit, ViewOf
  <1>4. pc = "idle" /\ policies = {}  BY DEF Init
  <1> QED
    BY <1>1, <1>2, <1>3, <1>4
    DEF CInv, Cleaned, OneBucketEach, SeenIsThere, TracesAreHeld, RevokedSoFar

(* What is made for a BucketAccess is removed before its finalizer is.     *)
THEOREM CleanedHolds == SeparateKeys /\ SeparateSecrets => (Spec => []CInv)
  <1> SUFFICES ASSUME SeparateKeys, SeparateSecrets PROVE Spec => []CInv  OBVIOUS
  <1>1. Init => CInv  BY CInit
  <1>2. CInv /\ [Next]_vars => CInv'  BY CStep
  <1> QED  BY <1>1, <1>2, PTL DEF Spec

(* A user, policy or Secret of a BucketAccess exists only while the object *)
(* does, with the finalizer that will have it removed, unless a revocation *)
(* has failed or a claim has been deleted.                                 *)
THEOREM NoOrphans == SeparateKeys /\ SeparateSecrets => (Spec => []NoOrphanAccess)
  <1>1. CInv => NoOrphanAccess
    BY DEF CInv, Cleaned, TracesAreHeld, NoOrphanAccess, Calm, Traces
  <1> QED  BY <1>1, CleanedHolds, PTL
=============================================================================
