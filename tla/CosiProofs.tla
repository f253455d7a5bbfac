------------------------------ MODULE CosiProofs ------------------------------
(***************************************************************************)
(* Theorems about CosiDriver, for every set of Buckets, BucketAccesses,    *)
(* names and keys, any number of requests at once, and all bounds.         *)
(*                                                                         *)
(* Typing and RemovedOnRequest need nothing else.  The others are about    *)
(* objects that do not get in each other's way: DistinctIds for buckets,   *)
(* DistinctGrants for users.                                               *)
(***************************************************************************)
EXTENDS CosiDriver, SequenceTheorems, TLAPS

(* No two Buckets have names that differ only in case.                     *)
DistinctIds == \A b, d \in Buckets : IdOf[b] = IdOf[d] => b = d

(* No two BucketAccesses share a user, whether the key is derived from the *)
(* name (accessKeyForAccount keeps twelve characters) or given.            *)
DistinctGrants ==
    \A a, d \in Accesses :
        GrantedKey(a) = GrantedKey(d) \/ RevokedKey(a) = GrantedKey(d) => a = d

(* No BucketAccess names a key in its parameters, which a revocation does  *)
(* not see.                                                                *)
DerivedKeys == \A a \in Accesses : AccessParams[a].existing = None

CreateSteps == {"makeBucket", "setQuota", "setRules", "setReplication"}
DeleteSteps == {"readBucket", "deleteBucket"}
AllowSteps  == {"addUser", "addPolicy", "setPolicy"}
RevokeSteps == {"removeUser", "removePolicy"}

Active(s) == rpc[s] # None
Awaited(s) == Active(s) /\ ~rpc[s].cancelled

(* What a request is about, and at which point in the life of its object   *)
(* it may be handled.  A request that has been given up may be handled     *)
(* later than that.                                                        *)
CreateFits(s) ==
    /\ Object(s) \in Buckets /\ Bucket(s) = IdOf[Object(s)] /\ rpc[s].step \in CreateSteps
    /\ Awaited(s) => bucketObj[Object(s)].stage \in {"wanted", "doomed"} /\ bucketObj[Object(s)].id = None
DeleteFits(s) ==
    /\ Object(s) \in Buckets /\ Bucket(s) = IdOf[Object(s)] /\ rpc[s].step \in DeleteSteps
    /\ bucketObj[Object(s)].stage \in {"doomed", "gone"} /\ bucketObj[Object(s)].id # None
    /\ rpc[s].step = "deleteBucket" => Params[Object(s)].policy = "Delete"
GrantFits(s) ==
    /\ Object(s) \in Accesses /\ Bucket(s) = IdOf[BucketOf[Object(s)]] /\ rpc[s].step \in AllowSteps
    /\ bucketObj[BucketOf[Object(s)]].id # None
    /\ Awaited(s) => accessObj[Object(s)].stage \in {"wanted", "doomed"} /\ accessObj[Object(s)].account = None
RevokeFits(s) ==
    /\ Object(s) \in Accesses /\ Bucket(s) = IdOf[BucketOf[Object(s)]] /\ rpc[s].step \in RevokeSteps
    /\ accessObj[Object(s)].stage \in {"doomed", "gone"} /\ accessObj[Object(s)].account # None

Fits(s) ==
    /\ rpc[s].op = "create" => CreateFits(s)
    /\ rpc[s].op = "delete" => DeleteFits(s)
    /\ rpc[s].op = "grant"  => GrantFits(s)
    /\ rpc[s].op = "revoke" => RevokeFits(s)

RequestsFit == \A s \in Slots : Active(s) => Fits(s)

OneWaiter ==
    \A s, t \in Slots : Awaited(s) /\ Awaited(t) /\ Object(s) = Object(t) => s = t

(* Identifiers are given once and are not taken back.                      *)
Identifiers ==
    /\ \A b \in Buckets :
          /\ bucketObj[b].id \in {None, IdOf[b]}
          /\ bucketObj[b].stage \in {"absent", "wanted"} => bucketObj[b].id = None
          /\ bucketObj[b].stage \in {"ready", "gone"} => bucketObj[b].id # None
    /\ \A a \in Accesses :
          /\ accessObj[a].stage \in {"absent", "wanted"} => accessObj[a].account = None
          /\ accessObj[a].stage \in {"ready", "gone"} => accessObj[a].account # None
          /\ accessObj[a].account # None => bucketObj[BucketOf[a]].id # None

ObjectTypes ==
    /\ bucketObj \in [Buckets -> [stage : Stages, id : Names \cup {None}]]
    /\ accessObj \in [Accesses -> [stage : Stages, account : Accesses \cup {None}]]
    /\ rpc \in [Slots -> Request \cup {None}]

BackendTypes ==
    /\ made \subseteq Names /\ quotas \subseteq made /\ ruled \subseteq made
    /\ mirrored \subseteq made
    /\ users \subseteq Keys
    /\ policies \in [PolicyId -> {"ReadWrite", "ReadOnly", None}]
    /\ attached \in [Keys -> PolicyId \cup {None}]
    /\ disturbed \in Seq(Disturbances)

Requests == ObjectTypes /\ RequestsFit /\ OneWaiter /\ Identifiers
BInv == Requests /\ BackendTypes
-----------------------------------------------------------------------------
USE DEF minioVars, Active, Awaited, Object, Bucket

LEMMA TypeParts == TypeOK <=> ObjectTypes /\ BackendTypes
  BY DEF TypeOK, ObjectTypes, BackendTypes

LEMMA NameIsId ==
    ASSUME NEW b \in Buckets
    PROVE  BackendName(b) = IdOf[b] /\ IdOf[b] \in Names /\ IdOf[b] # None
  BY CosiAssumption DEF BackendName, SpecBucketName

LEMMA KeyTypes ==
    ASSUME NEW a \in Accesses
    PROVE  /\ GrantedKey(a) \in Keys /\ RevokedKey(a) \in Keys
           /\ AccessParams[a].type \in {"ReadWrite", "ReadOnly"} /\ BucketOf[a] \in Buckets
  BY CosiAssumption DEF GrantedKey, RevokedKey, GrantParams

LEMMA RequestTypes ==
    ASSUME Requests, NEW s \in Slots, Active(s)
    PROVE  /\ rpc[s] \in Request /\ rpc[s].op \in Ops /\ rpc[s].step \in Steps
           /\ rpc[s].cancelled \in BOOLEAN /\ Bucket(s) \in Names /\ Fits(s)
  BY DEF Requests, ObjectTypes, Request, RequestsFit

(* A step of a request tells which one it is.                              *)
LEMMA OpOfStep ==
    ASSUME Requests, NEW s \in Slots, Active(s)
    PROVE  /\ rpc[s].step \in CreateSteps => rpc[s].op = "create" /\ CreateFits(s)
           /\ rpc[s].step \in DeleteSteps => rpc[s].op = "delete" /\ DeleteFits(s)
           /\ rpc[s].step \in AllowSteps => rpc[s].op = "grant" /\ GrantFits(s)
           /\ rpc[s].step \in RevokeSteps => rpc[s].op = "revoke" /\ RevokeFits(s)
  <1>1. rpc[s].op \in Ops /\ Fits(s)  BY RequestTypes
  <1> QED
    BY <1>1
    DEF Fits, CreateFits, DeleteFits, GrantFits, RevokeFits, CreateSteps, DeleteSteps, AllowSteps,
        RevokeSteps, Ops
-----------------------------------------------------------------------------
(* The three ways a step of a handler ends.                                *)

Moves(s, next) ==
    Awaited(s) /\ rpc' = [rpc EXCEPT ![s].step = next] /\ UNCHANGED <<bucketObj, accessObj>>
Answers(s) == Awaited(s) /\ End(s) /\ Answer(s)

LEMMA ProceedShape ==
    ASSUME NEW s \in Slots, Active(s), NEW applied \in BOOLEAN, NEW next, Proceed(s, applied, next)
    PROVE  \/ Fail(s)
           \/ applied /\ next = "OK" /\ Answers(s)
           \/ applied /\ next # "OK" /\ Moves(s, next)
  BY DEF Proceed, Moves, Answers

LEMMA NextOrEndShape ==
    ASSUME Requests, NEW s \in Slots, Active(s), NEW next, NextOrEnd(s, next)
    PROVE  \/ Fail(s) /\ rpc[s].cancelled
           \/ next = "OK" /\ Answers(s)
           \/ next # "OK" /\ Moves(s, next)
  BY DEF NextOrEnd, Moves, Answers

LEMMA EndOthers ==
    ASSUME Requests, NEW s \in Slots, End(s)
    PROVE  rpc' \in [Slots -> Request \cup {None}] /\ rpc'[s] = None
           /\ \A t \in Slots \ {s} : rpc'[t] = rpc[t]
  BY DEF End, Requests, ObjectTypes

LEMMA FailFits ==
    ASSUME Requests, NEW s \in Slots, Fail(s)
    PROVE  Requests'
  <1>1. /\ rpc' \in [Slots -> Request \cup {None}] /\ rpc'[s] = None
        /\ \A t \in Slots \ {s} : rpc'[t] = rpc[t]
    BY EndOthers DEF Fail
  <1>2. UNCHANGED <<bucketObj, accessObj>>  BY DEF Fail
  <1>3. ObjectTypes' /\ Identifiers'  BY <1>1, <1>2 DEF Requests, ObjectTypes, Identifiers
  <1>4. RequestsFit'
    BY <1>1, <1>2 DEF Requests, RequestsFit, Fits, CreateFits, DeleteFits, GrantFits, RevokeFits
  <1>5. OneWaiter'  BY <1>1 DEF Requests, OneWaiter
  <1> QED  BY <1>3, <1>4, <1>5 DEF Requests

LEMMA MovesTo ==
    ASSUME Requests, NEW s \in Slots, NEW next \in Steps, Moves(s, next)
    PROVE  /\ rpc' \in [Slots -> Request \cup {None}] /\ rpc'[s].step = next
           /\ rpc'[s].op = rpc[s].op /\ rpc'[s].object = rpc[s].object /\ rpc'[s].name = rpc[s].name
           /\ rpc'[s].cancelled = rpc[s].cancelled /\ rpc'[s] \in Request
           /\ \A t \in Slots \ {s} : rpc'[t] = rpc[t]
  <1>1. rpc[s] \in Request  BY RequestTypes DEF Moves
  <1>2. rpc' = [rpc EXCEPT ![s] = [rpc[s] EXCEPT !.step = next]]  BY DEF Moves
  <1>3. [rpc[s] EXCEPT !.step = next] \in Request  BY <1>1 DEF Request
  <1> QED  BY <1>1, <1>2, <1>3 DEF Requests, ObjectTypes, Request

LEMMA MovesFits ==
    ASSUME Requests, NEW s \in Slots, NEW next \in Steps, Moves(s, next),
           rpc[s].op = "create" => next \in CreateSteps,
           rpc[s].op = "delete" => next \in DeleteSteps,
           next = "deleteBucket" => Params[Object(s)].policy = "Delete",
           rpc[s].op = "grant"  => next \in AllowSteps,
           rpc[s].op = "revoke" => next \in RevokeSteps
    PROVE  Requests'
  <1>0. Awaited(s) /\ UNCHANGED <<bucketObj, accessObj>>  BY DEF Moves
  <1>1. /\ rpc' \in [Slots -> Request \cup {None}] /\ rpc'[s].step = next
        /\ rpc'[s].op = rpc[s].op /\ rpc'[s].object = rpc[s].object /\ rpc'[s].name = rpc[s].name
        /\ rpc'[s].cancelled = rpc[s].cancelled
        /\ \A t \in Slots \ {s} : rpc'[t] = rpc[t]
    BY MovesTo
  <1>2. ObjectTypes' /\ Identifiers'  BY <1>0, <1>1 DEF Requests, ObjectTypes, Identifiers
  <1>3. Fits(s)'
    BY <1>0, <1>1, RequestTypes DEF Fits, CreateFits, DeleteFits, GrantFits, RevokeFits
  <1>4. \A t \in Slots \ {s} : Active(t)' => Fits(t)'
    BY <1>0, <1>1 DEF Requests, RequestsFit, Fits, CreateFits, DeleteFits, GrantFits, RevokeFits
  <1>5. OneWaiter'  BY <1>0, <1>1 DEF Requests, OneWaiter
  <1> QED  BY <1>2, <1>3, <1>4, <1>5 DEF Requests, RequestsFit

(* What the sidecar writes into the object that an answer is about.        *)
LEMMA AnswerSays ==
    ASSUME Requests, NEW s \in Slots, Answers(s)
    PROVE  LET o == Object(s)
           IN  /\ rpc[s].op = "create" =>
                     /\ accessObj' = accessObj
                     /\ \A b \in Buckets : b # o => bucketObj'[b] = bucketObj[b]
                     /\ bucketObj'[o].id = IdOf[o]
                     /\ bucketObj'[o].stage = IF bucketObj[o].stage = "wanted" THEN "ready" ELSE "doomed"
               /\ rpc[s].op = "delete" =>
                     /\ accessObj' = accessObj
                     /\ \A b \in Buckets : b # o => bucketObj'[b] = bucketObj[b]
                     /\ bucketObj'[o].id = IdOf[o] /\ bucketObj'[o].stage = "gone"
               /\ rpc[s].op = "grant" =>
                     /\ bucketObj' = bucketObj
                     /\ \A a \in Accesses : a # o => accessObj'[a] = accessObj[a]
                     /\ accessObj'[o].account = o
                     /\ accessObj'[o].stage = IF accessObj[o].stage = "wanted" THEN "ready" ELSE "doomed"
               /\ rpc[s].op = "revoke" =>
                     /\ bucketObj' = bucketObj
                     /\ \A a \in Accesses : a # o => accessObj'[a] = accessObj[a]
                     /\ accessObj'[o].account = o /\ accessObj'[o].stage = "gone"
  <1>1. /\ rpc[s].op \in Ops /\ Fits(s) /\ Answer(s) /\ ObjectTypes
    BY RequestTypes DEF Answers, Requests
  <1>2. CASE rpc[s].op = "create"
    BY <1>1, <1>2 DEF Answer, SetBucket, ObjectTypes, Fits, CreateFits
  <1>3. CASE rpc[s].op = "delete"
    BY <1>1, <1>3 DEF Answer, SetBucket, ObjectTypes, Fits, DeleteFits
  <1>4. CASE rpc[s].op = "grant"
    BY <1>1, <1>4 DEF Answer, SetAccess, ObjectTypes, Fits, GrantFits
  <1>5. CASE rpc[s].op = "revoke"
    BY <1>1, <1>5 DEF Answer, SetAccess, ObjectTypes, Fits, RevokeFits
  <1> QED  BY <1>1, <1>2, <1>3, <1>4, <1>5 DEF Ops

LEMMA AnswerTypes ==
    ASSUME Requests, NEW s \in Slots, Answers(s)
    PROVE  ObjectTypes'
  <1>1. rpc[s].op \in Ops /\ Fits(s) /\ Answer(s) /\ ObjectTypes /\ Bucket(s) \in Names
    BY RequestTypes DEF Answers, Requests
  <1>2. rpc' \in [Slots -> Request \cup {None}]  BY EndOthers DEF Answers
  <1>3. CASE rpc[s].op = "create"
    BY <1>1, <1>2, <1>3 DEF Answer, SetBucket, ObjectTypes, Fits, CreateFits, Stages
  <1>4. CASE rpc[s].op = "delete"
    BY <1>1, <1>2, <1>4 DEF Answer, SetBucket, ObjectTypes, Fits, DeleteFits, Stages
  <1>5. CASE rpc[s].op = "grant"
    BY <1>1, <1>2, <1>5 DEF Answer, SetAccess, ObjectTypes, Fits, GrantFits, Stages
  <1>6. CASE rpc[s].op = "revoke"
    BY <1>1, <1>2, <1>6 DEF Answer, SetAccess, ObjectTypes, Fits, RevokeFits, Stages
  <1> QED  BY <1>1, <1>3, <1>4, <1>5, <1>6 DEF Ops

(* The answer ends the wait for the object; whatever is still running for  *)
(* it has been given up.                                                   *)
LEMMA AnswerFits ==
    ASSUME Requests, NEW s \in Slots, Answers(s)
    PROVE  Requests'
  <1> DEFINE o == Object(s)
  <1>0. ObjectTypes'  BY AnswerTypes
  <1>1. rpc'[s] = None /\ \A t \in Slots \ {s} : rpc'[t] = rpc[t]  BY EndOthers DEF Answers
  <1>2. OneWaiter'  BY <1>1 DEF Requests, OneWaiter
  <1>3. \A t \in Slots : t # s /\ Awaited(t) => Object(t) # o
    BY DEF Requests, OneWaiter, Answers
  <1>4. rpc[s].op \in Ops /\ Fits(s) /\ Awaited(s)  BY RequestTypes DEF Answers
  <1>5. CASE rpc[s].op = "create"
    <2>1. /\ accessObj' = accessObj
          /\ \A b \in Buckets : b # o => bucketObj'[b] = bucketObj[b]
          /\ bucketObj'[o].id = IdOf[o]
          /\ bucketObj'[o].stage = IF bucketObj[o].stage = "wanted" THEN "ready" ELSE "doomed"
      BY <1>5, AnswerSays
    <2>2. o \in Buckets /\ bucketObj[o].id = None /\ IdOf[o] # None /\ bucketObj[o].stage # "gone"
      BY <1>4, <1>5, NameIsId DEF Fits, CreateFits
    <2> HIDE DEF o
    <2>3. Identifiers'  BY <2>1, <2>2, KeyTypes DEF Requests, Identifiers
    <2>4. ASSUME NEW t \in Slots, Active(t)'  PROVE Fits(t)'
      <3>1. t # s /\ rpc'[t] = rpc[t] /\ Active(t) /\ Fits(t)
        BY <1>1, <2>4 DEF Requests, RequestsFit
      <3>2. (rpc[t].op = "create" => CreateFits(t)')
        BY <1>3, <2>1, <2>2, <3>1 DEF Fits, CreateFits
      <3>3. (rpc[t].op = "delete" => DeleteFits(t)')
        BY <2>1, <2>2, <3>1 DEF Fits, DeleteFits
      <3>4. (rpc[t].op = "grant" => GrantFits(t)')
        BY <2>1, <2>2, <3>1, KeyTypes DEF Fits, GrantFits
      <3>5. (rpc[t].op = "revoke" => RevokeFits(t)')
        BY <2>1, <2>2, <3>1 DEF Fits, RevokeFits
      <3> QED  BY <3>1, <3>2, <3>3, <3>4, <3>5 DEF Fits
    <2> QED  BY <1>0, <1>2, <2>3, <2>4 DEF Requests, RequestsFit
  <1>6. CASE rpc[s].op = "delete"
    <2>1. /\ accessObj' = accessObj
          /\ \A b \in Buckets : b # o => bucketObj'[b] = bucketObj[b]
          /\ bucketObj'[o].id = IdOf[o] /\ bucketObj'[o].stage = "gone"
      BY <1>6, AnswerSays
    <2>2. o \in Buckets /\ bucketObj[o].id # None /\ IdOf[o] # None
      BY <1>4, <1>6, NameIsId DEF Fits, DeleteFits
    <2> HIDE DEF o
    <2>3. Identifiers'  BY <2>1, <2>2, KeyTypes DEF Requests, Identifiers
    <2>4. ASSUME NEW t \in Slots, Active(t)'  PROVE Fits(t)'
      <3>1. t # s /\ rpc'[t] = rpc[t] /\ Active(t) /\ Fits(t)
        BY <1>1, <2>4 DEF Requests, RequestsFit
      <3>2. (rpc[t].op = "create" => CreateFits(t)')
        BY <1>3, <2>1, <2>2, <3>1 DEF Fits, CreateFits
      <3>3. (rpc[t].op = "delete" => DeleteFits(t)')
        BY <2>1, <2>2, <3>1 DEF Fits, DeleteFits
      <3>4. (rpc[t].op = "grant" => GrantFits(t)')
        BY <2>1, <2>2, <3>1, KeyTypes DEF Fits, GrantFits
      <3>5. (rpc[t].op = "revoke" => RevokeFits(t)')
        BY <2>1, <2>2, <3>1 DEF Fits, RevokeFits
      <3> QED  BY <3>1, <3>2, <3>3, <3>4, <3>5 DEF Fits
    <2> QED  BY <1>0, <1>2, <2>3, <2>4 DEF Requests, RequestsFit
  <1>7. CASE rpc[s].op \in {"grant", "revoke"}
    <2>1. /\ bucketObj' = bucketObj
          /\ \A a \in Accesses : a # o => accessObj'[a] = accessObj[a]
          /\ accessObj'[o].account = o
          /\ accessObj'[o].stage \in {"ready", "doomed", "gone"}
          /\ rpc[s].op = "revoke" => accessObj'[o].stage = "gone"
      BY <1>7, AnswerSays
    <2>2. /\ o \in Accesses /\ bucketObj[BucketOf[o]].id # None
          /\ rpc[s].op = "grant" => accessObj[o].account = None
      BY <1>4, <1>7 DEF Fits, GrantFits, RevokeFits, Requests, Identifiers
    <2>3. accessObj'[o].account # None
      BY <2>1, <2>2, CosiAssumption
    <2> HIDE DEF o
    <2>4. Identifiers'  BY <2>1, <2>2, <2>3, KeyTypes DEF Requests, Identifiers
    <2>5. ASSUME NEW t \in Slots, Active(t)'  PROVE Fits(t)'
      <3>1. t # s /\ rpc'[t] = rpc[t] /\ Active(t) /\ Fits(t)
        BY <1>1, <2>5 DEF Requests, RequestsFit
      <3>2. (rpc[t].op = "create" => CreateFits(t)') /\ (rpc[t].op = "delete" => DeleteFits(t)')
        BY <2>1, <3>1 DEF Fits, CreateFits, DeleteFits
      <3>3. (rpc[t].op = "grant" => GrantFits(t)')
        BY <1>3, <2>1, <2>2, <3>1 DEF Fits, GrantFits
      <3>4. (rpc[t].op = "revoke" => RevokeFits(t)')
        BY <1>7, <2>1, <2>2, <2>3, <3>1 DEF Fits, RevokeFits
      <3> QED  BY <3>1, <3>2, <3>3, <3>4 DEF Fits
    <2> QED  BY <1>0, <1>2, <2>4, <2>5 DEF Requests, RequestsFit
  <1> QED  BY <1>4, <1>5, <1>6, <1>7 DEF Ops

(* A step of a handler, whatever becomes of the request.                   *)
LEMMA HandleFits ==
    ASSUME Requests, NEW s \in Slots, Handle(s)
    PROVE  Requests'
  <1>0. Active(s)
    BY DEF Handle, MakeBucket, SetQuota, SetRules, SetReplication, ReadBucket, DeleteBucket, AddUser,
           AddPolicy, SetPolicy, RemoveUser, RemovePolicy, At
  <1>1. CASE Fail(s)  BY <1>1, FailFits
  <1>2. CASE Answers(s)  BY <1>2, AnswerFits
  <1>3. CASE MakeBucket(s) \/ SetQuota(s) \/ SetRules(s)
    <2>1. rpc[s].op = "create" /\ rpc[s].step \in CreateSteps
      BY <1>0, <1>3, OpOfStep DEF MakeBucket, SetQuota, SetRules, At, CreateSteps
    <2>2. PICK next \in CreateSteps \cup {"OK"} :
             Fail(s) \/ (next = "OK" /\ Answers(s)) \/ (next # "OK" /\ Moves(s, next))
      <3>1. /\ AfterBucket(Object(s)) \in CreateSteps \cup {"OK"}
            /\ AfterQuota(Object(s)) \in CreateSteps \cup {"OK"}
            /\ AfterRules(Object(s)) \in CreateSteps \cup {"OK"}
        BY DEF AfterBucket, AfterQuota, AfterRules, CreateSteps
      <3>2. \/ Fail(s)
            \/ \E applied \in BOOLEAN : \/ Proceed(s, applied, AfterBucket(Object(s)))
                                        \/ Proceed(s, applied, AfterQuota(Object(s)))
                                        \/ Proceed(s, applied, AfterRules(Object(s)))
        BY <1>3 DEF MakeBucket, SetQuota, SetRules
      <3> QED  BY <1>0, <3>1, <3>2, ProceedShape
    <2>3. next # "OK" => next \in Steps  BY DEF CreateSteps, Steps
    <2> QED  BY <1>1, <1>2, <2>1, <2>2, <2>3, MovesFits DEF CreateSteps
  <1>4. CASE SetReplication(s)
    BY <1>0, <1>1, <1>2, <1>4, NextOrEndShape DEF SetReplication
  <1>5. CASE ReadBucket(s)
    <2>1. rpc[s].op = "delete"  BY <1>0, <1>5, OpOfStep DEF ReadBucket, At, DeleteSteps
    <2>2. CASE Answers(s) \/ Fail(s)  BY <1>1, <1>2, <2>2
    <2>3. CASE Deletes(Params[Object(s)].policy) /\ Moves(s, "deleteBucket")
      BY <2>1, <2>3, MovesFits DEF Deletes, DeleteSteps, Steps
    <2> QED  BY <1>0, <1>5, <2>2, <2>3 DEF ReadBucket, Moves, Answers
  <1>6. CASE DeleteBucket(s)
    BY <1>0, <1>1, <1>2, <1>6, ProceedShape DEF DeleteBucket
  <1>7. CASE AddUser(s) \/ AddPolicy(s)
    <2>1. rpc[s].op = "grant"
      BY <1>0, <1>7, OpOfStep DEF AddUser, AddPolicy, At, AllowSteps
    <2>2. Fail(s) \/ Moves(s, "addPolicy") \/ Moves(s, "setPolicy")
      BY <1>0, <1>7, ProceedShape DEF AddUser, AddPolicy
    <2>3. "addPolicy" \in Steps /\ "setPolicy" \in Steps  BY DEF Steps
    <2> QED  BY <1>1, <2>1, <2>2, <2>3, MovesFits DEF AllowSteps
  <1>8. CASE SetPolicy(s)
    BY <1>0, <1>1, <1>2, <1>8, ProceedShape DEF SetPolicy
  <1>9. CASE RemoveUser(s)
    <2>1. rpc[s].op = "revoke"  BY <1>0, <1>9, OpOfStep DEF RemoveUser, At, RevokeSteps
    <2>2. Fail(s) \/ Moves(s, "removePolicy")
      BY <1>0, <1>9, NextOrEndShape DEF RemoveUser
    <2>3. "removePolicy" \in Steps  BY DEF Steps
    <2> QED  BY <1>1, <2>1, <2>2, <2>3, MovesFits DEF RevokeSteps
  <1>10. CASE RemovePolicy(s)
    BY <1>0, <1>1, <1>2, <1>10, NextOrEndShape DEF RemovePolicy
  <1> QED  BY <1>3, <1>4, <1>5, <1>6, <1>7, <1>8, <1>9, <1>10 DEF Handle

(* A new request, for an object that nobody waits for.                     *)
LEMMA AskIs ==
    ASSUME Requests, NEW s \in Slots, NEW op \in Ops, NEW o \in Buckets \cup Accesses,
           NEW name \in Names, NEW step \in Steps, Ask(s, op, o, name, step)
    PROVE  /\ ObjectTypes' /\ OneWaiter' /\ UNCHANGED <<bucketObj, accessObj, minioVars, disturbed>>
           /\ rpc'[s].op = op /\ rpc'[s].object = o /\ rpc'[s].name = name /\ rpc'[s].step = step
           /\ ~rpc'[s].cancelled /\ rpc[s] = None
           /\ \A t \in Slots \ {s} : rpc'[t] = rpc[t]
  <1> DEFINE r == [op |-> op, object |-> o, name |-> name, step |-> step, cancelled |-> FALSE]
  <1>1. r \in Request  BY DEF Request
  <1>2. /\ r.op = op /\ r.object = o /\ r.name = name /\ r.step = step /\ ~r.cancelled  OBVIOUS
  <1>3. rpc' = [rpc EXCEPT ![s] = r] /\ rpc[s] = None /\ ~Waiting(o)
        /\ UNCHANGED <<bucketObj, accessObj, minioVars, disturbed>>
    BY DEF Ask
  <1> HIDE DEF r
  <1>4. rpc'[s] = r /\ \A t \in Slots \ {s} : rpc'[t] = rpc[t]
    BY <1>3 DEF Requests, ObjectTypes
  <1>5. ObjectTypes'  BY <1>1, <1>3 DEF Requests, ObjectTypes
  <1>6. OneWaiter'
    BY <1>2, <1>3, <1>4 DEF Requests, OneWaiter, Waiting
  <1> QED  BY <1>2, <1>3, <1>4, <1>5, <1>6

LEMMA AskFits ==
    ASSUME Requests, NEW s \in Slots, NEW op \in Ops, NEW o \in Buckets \cup Accesses,
           NEW name \in Names, NEW step \in Steps, Ask(s, op, o, name, step), Fits(s)'
    PROVE  Requests'
  <1>1. /\ ObjectTypes' /\ OneWaiter' /\ UNCHANGED <<bucketObj, accessObj>>
        /\ \A t \in Slots \ {s} : rpc'[t] = rpc[t]
    BY AskIs
  <1>2. \A t \in Slots \ {s} : Active(t)' => Fits(t)'
    BY <1>1 DEF Requests, RequestsFit, Fits, CreateFits, DeleteFits, GrantFits, RevokeFits
  <1> QED  BY <1>1, <1>2 DEF Requests, RequestsFit, Identifiers

LEMMA AsksFit ==
    ASSUME Requests, NEW s \in Slots,
           \/ \E b \in Buckets : AskCreate(s, b) \/ AskDelete(s, b)
           \/ \E a \in Accesses : AskGrant(s, a) \/ AskRevoke(s, a)
    PROVE  Requests'
  <1> USE DEF Ops, Steps, Fits
  <1>1. ASSUME NEW b \in Buckets, AskCreate(s, b)  PROVE Requests'
    <2>1. /\ bucketObj[b].stage = "wanted" /\ bucketObj[b].id = None /\ IdOf[b] \in Names
          /\ Ask(s, "create", b, IdOf[b], "makeBucket")
      BY <1>1, NameIsId DEF AskCreate, Requests, Identifiers
    <2>2. Fits(s)'
      BY <2>1, AskIs DEF CreateFits, CreateSteps
    <2> QED  BY <2>1, <2>2, AskFits
  <1>2. ASSUME NEW b \in Buckets, AskDelete(s, b)  PROVE Requests'
    <2>1. /\ bucketObj[b].stage = "doomed" /\ bucketObj[b].id # None /\ IdOf[b] \in Names
          /\ Ask(s, "delete", b, IdOf[b], "readBucket")
      BY <1>2, NameIsId DEF AskDelete, Identified, Requests, Identifiers
    <2>2. Fits(s)'
      BY <2>1, AskIs DEF DeleteFits, DeleteSteps
    <2> QED  BY <2>1, <2>2, AskFits
  <1>3. ASSUME NEW a \in Accesses, AskGrant(s, a)  PROVE Requests'
    <2>1. /\ BucketOf[a] \in Buckets /\ accessObj[a].stage = "wanted"
          /\ bucketObj[BucketOf[a]].stage = "ready"
          /\ Ask(s, "grant", a, bucketObj[BucketOf[a]].id, "addUser")
      BY <1>3, KeyTypes DEF AskGrant
    <2>2. /\ accessObj[a].account = None /\ bucketObj[BucketOf[a]].id # None
          /\ bucketObj[BucketOf[a]].id = IdOf[BucketOf[a]] /\ IdOf[BucketOf[a]] \in Names
      BY <2>1, NameIsId DEF Requests, Identifiers
    <2>3. Fits(s)'
      BY <2>1, <2>2, AskIs DEF GrantFits, AllowSteps
    <2> QED  BY <2>1, <2>2, <2>3, AskFits
  <1>4. ASSUME NEW a \in Accesses, AskRevoke(s, a)  PROVE Requests'
    <2>1. /\ BucketOf[a] \in Buckets /\ accessObj[a].stage = "doomed" /\ accessObj[a].account # None
          /\ Ask(s, "revoke", a, bucketObj[BucketOf[a]].id, "removeUser")
      BY <1>4, KeyTypes DEF AskRevoke, Identified
    <2>2. bucketObj[BucketOf[a]].id = IdOf[BucketOf[a]] /\ IdOf[BucketOf[a]] \in Names
      BY <2>1, NameIsId DEF Requests, Identifiers
    <2>3. Fits(s)'
      BY <2>1, <2>2, AskIs DEF RevokeFits, RevokeSteps
    <2> QED  BY <2>1, <2>2, <2>3, AskFits
  <1> QED  BY <1>1, <1>2, <1>3, <1>4

LEMMA GiveUpIs ==
    ASSUME Requests, NEW s \in Slots, GiveUp(s)
    PROVE  /\ Awaited(s) /\ UNCHANGED <<bucketObj, accessObj, minioVars>> /\ Disturb("timeout")
           /\ rpc' \in [Slots -> Request \cup {None}] /\ rpc'[s].step = rpc[s].step
           /\ rpc'[s].op = rpc[s].op /\ rpc'[s].object = rpc[s].object /\ rpc'[s].name = rpc[s].name
           /\ rpc'[s].cancelled /\ \A t \in Slots \ {s} : rpc'[t] = rpc[t]
  <1>0. Awaited(s) /\ UNCHANGED <<bucketObj, accessObj, minioVars>> /\ Disturb("timeout")  BY DEF GiveUp
  <1>1. rpc[s] \in Request  BY <1>0, RequestTypes
  <1>2. rpc' = [rpc EXCEPT ![s] = [rpc[s] EXCEPT !.cancelled = TRUE]]  BY DEF GiveUp
  <1>3. [rpc[s] EXCEPT !.cancelled = TRUE] \in Request  BY <1>1 DEF Request
  <1> QED  BY <1>0, <1>1, <1>2, <1>3 DEF Requests, ObjectTypes, Request

LEMMA GiveUpFits ==
    ASSUME Requests, NEW s \in Slots, GiveUp(s)
    PROVE  Requests'
  <1>1. /\ Awaited(s) /\ UNCHANGED <<bucketObj, accessObj>>
        /\ rpc' \in [Slots -> Request \cup {None}] /\ rpc'[s].step = rpc[s].step
        /\ rpc'[s].op = rpc[s].op /\ rpc'[s].object = rpc[s].object /\ rpc'[s].name = rpc[s].name
        /\ rpc'[s].cancelled /\ \A t \in Slots \ {s} : rpc'[t] = rpc[t]
    BY GiveUpIs
  <1>2. ObjectTypes' /\ Identifiers'  BY <1>1 DEF Requests, ObjectTypes, Identifiers
  <1>3. Fits(s)'
    BY <1>1, RequestTypes DEF Fits, CreateFits, DeleteFits, GrantFits, RevokeFits
  <1>4. \A t \in Slots \ {s} : Active(t)' => Fits(t)'
    BY <1>1 DEF Requests, RequestsFit, Fits, CreateFits, DeleteFits, GrantFits, RevokeFits
  <1>5. OneWaiter'  BY <1>1 DEF Requests, OneWaiter
  <1> QED  BY <1>2, <1>3, <1>4, <1>5 DEF Requests, RequestsFit

(* Users want and delete objects.                                          *)
LEMMA WantDoomIs ==
    ASSUME Requests, NEW o \in Buckets \cup Accesses, Want(o) \/ Doom(o)
    PROVE  /\ UNCHANGED <<rpc, minioVars, disturbed>> /\ ObjectTypes'
           /\ \A b \in Buckets :
                 /\ bucketObj'[b].id = bucketObj[b].id
                 /\ \/ bucketObj'[b].stage = bucketObj[b].stage
                    \/ bucketObj[b].stage = "absent" /\ bucketObj'[b].stage = "wanted"
                    \/ bucketObj[b].stage \in {"wanted", "ready"} /\ bucketObj'[b].stage = "doomed"
           /\ \A a \in Accesses :
                 /\ accessObj'[a].account = accessObj[a].account
                 /\ \/ accessObj'[a].stage = accessObj[a].stage
                    \/ accessObj[a].stage = "absent" /\ accessObj'[a].stage = "wanted"
                    \/ accessObj[a].stage \in {"wanted", "ready"} /\ accessObj'[a].stage = "doomed"
  <1>1. ObjectTypes /\ Identifiers  BY DEF Requests
  <1>2. CASE Want(o)
    BY <1>1, <1>2 DEF Want, SetBucket, SetAccess, ObjectTypes, Identifiers, Stages
  <1>3. CASE Doom(o)
    BY <1>1, <1>3 DEF Doom, SetBucket, SetAccess, ObjectTypes, Identifiers, Stages
  <1> QED  BY <1>2, <1>3

LEMMA WantDoomFits ==
    ASSUME Requests, NEW o \in Buckets \cup Accesses, Want(o) \/ Doom(o)
    PROVE  Requests'
  <1> DEFINE Later == 
        /\ UNCHANGED rpc
        /\ \A b \in Buckets :
                 /\ bucketObj'[b].id = bucketObj[b].id
                 /\ \/ bucketObj'[b].stage = bucketObj[b].stage
                    \/ bucketObj[b].stage = "absent" /\ bucketObj'[b].stage = "wanted"
                    \/ bucketObj[b].stage \in {"wanted", "ready"} /\ bucketObj'[b].stage = "doomed"
        /\ \A a \in Accesses :
                 /\ accessObj'[a].account = accessObj[a].account
                 /\ \/ accessObj'[a].stage = accessObj[a].stage
                    \/ accessObj[a].stage = "absent" /\ accessObj'[a].stage = "wanted"
                    \/ accessObj[a].stage \in {"wanted", "ready"} /\ accessObj'[a].stage = "doomed"
  <1>1. ObjectTypes' /\ Later  BY WantDoomIs
  <1>2. Identifiers'  BY <1>1, KeyTypes DEF Requests, Identifiers
  <1>3. OneWaiter'  BY <1>1 DEF Requests, OneWaiter
  <1>4. ASSUME NEW t \in Slots, Active(t)'  PROVE Fits(t)'
    <2>1. Active(t) /\ Fits(t)  BY <1>1, <1>4 DEF Requests, RequestsFit
    <2>2. rpc[t].op = "create" => CreateFits(t)'  BY <1>1, <2>1 DEF Fits, CreateFits
    <2>3. rpc[t].op = "delete" => DeleteFits(t)'  BY <1>1, <2>1 DEF Fits, DeleteFits
    <2>4. rpc[t].op = "grant" => GrantFits(t)'  BY <1>1, <2>1, KeyTypes DEF Fits, GrantFits
    <2>5. rpc[t].op = "revoke" => RevokeFits(t)'  BY <1>1, <2>1 DEF Fits, RevokeFits
    <2> QED  BY <1>1, <2>2, <2>3, <2>4, <2>5 DEF Fits
  <1> QED  BY <1>1, <1>2, <1>3, <1>4 DEF Requests, RequestsFit
-----------------------------------------------------------------------------
(* MinIO's side, step by step.                                             *)

LEMMA DisturbNotes ==
    ASSUME disturbed \in Seq(Disturbances), NEW kind, Disturb(kind)
    PROVE  /\ disturbed' \in Seq(Disturbances) /\ Happened(kind)'
           /\ \A k : Happened(k) => Happened(k)'
  <1>1. disturbed' = Append(disturbed, kind) /\ kind \in Disturbances  BY DEF Disturb
  <1>2. /\ disturbed' \in Seq(Disturbances) /\ Len(disturbed') = Len(disturbed) + 1
        /\ \A i \in 1 .. Len(disturbed) : disturbed'[i] = disturbed[i]
        /\ disturbed'[Len(disturbed) + 1] = kind
    BY <1>1, AppendProperties
  <1>3. /\ Len(disturbed) \in Nat /\ DOMAIN disturbed = 1 .. Len(disturbed)
        /\ DOMAIN disturbed' = 1 .. Len(disturbed) + 1
    BY <1>2, LenProperties
  <1> QED  BY <1>2, <1>3 DEF Happened

(* What is noted stays noted.                                              *)
LEMMA NotesStay ==
    ASSUME BInv, [Next]_vars
    PROVE  disturbed' \in Seq(Disturbances) /\ \A k : Happened(k) => Happened(k)'
  <1>1. disturbed' = disturbed \/ \E kind : Disturb(kind)
    BY DEF Next, vars, Handle, GiveUp, AskCreate, AskDelete, AskGrant, AskRevoke, Ask, Want, Doom,
           MakeBucket, SetQuota, SetRules, SetReplication, ReadBucket, DeleteBucket, AddUser, AddPolicy,
           SetPolicy, RemoveUser, RemovePolicy, Proceed
  <1>2. disturbed \in Seq(Disturbances)  BY DEF BInv, BackendTypes
  <1> QED  BY <1>1, <1>2, DisturbNotes DEF Happened

LEMMA HandleTypes ==
    ASSUME BInv, NEW s \in Slots, Handle(s), disturbed' \in Seq(Disturbances)
    PROVE  BackendTypes'
  <1> USE DEF BackendTypes
  <1>0. BackendTypes /\ Requests  BY DEF BInv
  <1>1. CASE MakeBucket(s) \/ SetQuota(s) \/ SetRules(s) \/ SetReplication(s) \/ DeleteBucket(s)
    <2>1. Active(s)  BY <1>1 DEF MakeBucket, SetQuota, SetRules, SetReplication, DeleteBucket, At
    <2>2. Bucket(s) \in Names  BY <1>0, <2>1, RequestTypes
    <2> QED  BY <1>0, <1>1, <2>2 DEF MakeBucket, SetQuota, SetRules, SetReplication, DeleteBucket
  <1>2. CASE ReadBucket(s)  BY <1>0, <1>2 DEF ReadBucket
  <1>3. CASE AddUser(s) \/ AddPolicy(s) \/ SetPolicy(s)
    <2>1. Active(s) /\ rpc[s].step \in AllowSteps
      BY <1>3 DEF AddUser, AddPolicy, SetPolicy, At, AllowSteps
    <2>2. Object(s) \in Accesses /\ Bucket(s) \in Names
      BY <1>0, <2>1, RequestTypes, OpOfStep DEF GrantFits
    <2>3. /\ GrantedKey(Object(s)) \in Keys /\ ThePolicy(s) \in PolicyId
          /\ AccessParams[Object(s)].type \in {"ReadWrite", "ReadOnly"}
      BY <2>2, KeyTypes DEF ThePolicy, PolicyId
    <2>4. CASE AddUser(s)  BY <1>0, <2>3, <2>4 DEF AddUser
    <2>5. CASE AddPolicy(s)  BY <1>0, <2>3, <2>5 DEF AddPolicy
    <2>6. CASE SetPolicy(s)  BY <1>0, <2>3, <2>6 DEF SetPolicy
    <2> QED  BY <1>3, <2>4, <2>5, <2>6
  <1>4. CASE RemoveUser(s) \/ RemovePolicy(s)
    <2>1. Active(s) /\ rpc[s].step \in RevokeSteps
      BY <1>4 DEF RemoveUser, RemovePolicy, At, RevokeSteps
    <2>2. Object(s) \in Accesses /\ Bucket(s) \in Names
      BY <1>0, <2>1, RequestTypes, OpOfStep DEF RevokeFits
    <2>3. RevokedKey(Object(s)) \in Keys /\ ThePolicy(s) \in PolicyId
      BY <2>2, KeyTypes DEF ThePolicy, PolicyId
    <2>4. CASE RemoveUser(s)  BY <1>0, <2>3, <2>4 DEF RemoveUser
    <2>5. CASE RemovePolicy(s)  BY <1>0, <2>3, <2>5 DEF RemovePolicy
    <2> QED  BY <1>4, <2>4, <2>5
  <1> QED  BY <1>1, <1>2, <1>3, <1>4 DEF Handle

LEMMA BInit == Init => BInv
  <1> SUFFICES ASSUME Init PROVE BInv  OBVIOUS
  <1>1. ObjectTypes  BY DEF Init, ObjectTypes, Stages
  <1>2. BackendTypes  BY EmptySeq DEF Init, BackendTypes, PolicyId
  <1>3. RequestsFit /\ OneWaiter  BY DEF Init, RequestsFit, OneWaiter
  <1>4. Identifiers  BY KeyTypes DEF Init, Identifiers
  <1> QED  BY <1>1, <1>2, <1>3, <1>4 DEF BInv, Requests

LEMMA BStep == BInv /\ [Next]_vars => BInv'
  <1> SUFFICES ASSUME BInv, [Next]_vars PROVE BInv'  OBVIOUS
  <1>0. Requests /\ BackendTypes /\ disturbed' \in Seq(Disturbances)  BY NotesStay DEF BInv
  <1>1. ASSUME NEW s \in Slots, Handle(s)  PROVE BInv'
    BY <1>0, <1>1, HandleFits, HandleTypes DEF BInv
  <1>2. ASSUME NEW s \in Slots, GiveUp(s)  PROVE BInv'
    <2>1. Requests' /\ UNCHANGED minioVars  BY <1>0, <1>2, GiveUpFits, GiveUpIs
    <2> QED  BY <1>0, <2>1 DEF BInv, BackendTypes
  <1>3. ASSUME NEW s \in Slots, \/ \E b \in Buckets : AskCreate(s, b) \/ AskDelete(s, b)
                                \/ \E a \in Accesses : AskGrant(s, a) \/ AskRevoke(s, a)
        PROVE  BInv'
    <2>1. Requests'  BY <1>0, <1>3, AsksFit
    <2>2. UNCHANGED minioVars  BY <1>3 DEF AskCreate, AskDelete, AskGrant, AskRevoke, Ask
    <2> QED  BY <1>0, <2>1, <2>2 DEF BInv, BackendTypes
  <1>4. ASSUME NEW o \in Buckets \cup Accesses, Want(o) \/ Doom(o)  PROVE BInv'
    <2>1. Requests' /\ UNCHANGED minioVars  BY <1>0, <1>4, WantDoomFits, WantDoomIs
    <2> QED  BY <1>0, <2>1 DEF BInv, BackendTypes
  <1>5. CASE UNCHANGED vars
    <2>1. Requests'
      BY <1>0, <1>5
      DEF vars, Requests, ObjectTypes, RequestsFit, OneWaiter, Identifiers, Fits, CreateFits,
          DeleteFits, GrantFits, RevokeFits
    <2> QED  BY <1>0, <1>5, <2>1 DEF vars, BInv, BackendTypes
  <1> QED  BY <1>1, <1>2, <1>3, <1>4, <1>5 DEF Next

(* At most one request per object is waited for, and each one is handled   *)
(* at a time in its object's life that it was made for.                    *)
THEOREM RequestsInOrder == Spec => []BInv
  <1>1. Init => BInv  BY BInit
  <1>2. BInv /\ [Next]_vars => BInv'  BY BStep
  <1> QED  BY <1>1, <1>2, PTL DEF Spec

(* Every variable of the driver, the sidecar and MinIO keeps its type, and *)
(* settings exist only for buckets that do.                                *)
THEOREM CosiTypeCorrect == Spec => []TypeOK
  <1>1. BInv => TypeOK  BY TypeParts DEF BInv, Requests
  <1> QED  BY <1>1, RequestsInOrder, PTL

LEMMA OnlyDeleteRemoves ==
    ASSUME BInv, [Next]_vars, NEW n \in made, n \notin made'
    PROVE  \E s \in Slots : DeleteBucket(s) /\ n = Bucket(s)
  <1>1. \A s \in Slots : GiveUp(s) => made' = made  BY DEF GiveUp
  <1>2. \A s \in Slots : Handle(s) => (made \subseteq made' \/ DeleteBucket(s))
    BY DEF Handle, MakeBucket, SetQuota, SetRules, SetReplication, ReadBucket, AddUser, AddPolicy,
           SetPolicy, RemoveUser, RemovePolicy
  <1>3. PICK s \in Slots : DeleteBucket(s)
    BY <1>1, <1>2 DEF Next, vars, AskCreate, AskDelete, AskGrant, AskRevoke, Ask, Want, Doom
  <1> QED  BY <1>3 DEF DeleteBucket

(* A backend bucket is removed only for a Bucket that was deleted and      *)
(* whose policy says Delete, whatever fails, is given up and still runs,   *)
(* or is asked for again.                                                  *)
THEOREM RemovedOnlyOnRequest == Spec => RemovedOnRequest
  <1>1. ASSUME BInv, [Next]_vars
        PROVE  [\A n \in Names : n \in made /\ n \notin made' =>
                 \E b \in Buckets : /\ BackendName(b) = n /\ Params[b].policy = "Delete"
                                    /\ bucketObj[b].stage \in {"doomed", "gone"}]_vars
    <2> SUFFICES ASSUME NEW n \in Names, n \in made, n \notin made'
                 PROVE  \E b \in Buckets : /\ BackendName(b) = n /\ Params[b].policy = "Delete"
                                           /\ bucketObj[b].stage \in {"doomed", "gone"}
      OBVIOUS
    <2>1. PICK s \in Slots : DeleteBucket(s) /\ n = Bucket(s)  BY <1>1, OnlyDeleteRemoves
    <2>2. rpc[s].step = "deleteBucket" /\ DeleteFits(s)
      BY <1>1, <2>1, OpOfStep DEF DeleteBucket, At, DeleteSteps, BInv
    <2> QED  BY <2>1, <2>2, NameIsId DEF DeleteFits
  <1> QED  BY <1>1, RequestsInOrder, PTL DEF Spec, RemovedOnRequest
-----------------------------------------------------------------------------
(* A Bucket that is ready is configured.                                   *)

(* What has been done for a Bucket when a request gets to a step, or is    *)
(* answered OK.                                                            *)
Done(b, step) ==
    /\ step # "makeBucket" => IdOf[b] \in made
    /\ step \in {"setRules", "setReplication", "OK"} /\ Params[b].quota = "set" => IdOf[b] \in quotas
    /\ step \in {"setReplication", "OK"} /\ Params[b].rules => IdOf[b] \in ruled

Creating(s) == Awaited(s) /\ rpc[s].op = "create"

Configured ==
    /\ \A b \in Buckets : bucketObj[b].stage = "ready" => Done(b, "OK")
    /\ \A s \in Slots : Creating(s) => Done(Object(s), rpc[s].step)

(* Requests of other slots are as they were.                               *)
LEMMA HandleShape ==
    ASSUME Requests, NEW s \in Slots, Handle(s)
    PROVE  /\ Active(s) /\ \A t \in Slots \ {s} : rpc'[t] = rpc[t]
           /\ Fail(s) \/ Answers(s) \/ \E next \in Steps : Moves(s, next)
  <1>0. Active(s)
    BY DEF Handle, MakeBucket, SetQuota, SetRules, SetReplication, ReadBucket, DeleteBucket, AddUser,
           AddPolicy, SetPolicy, RemoveUser, RemovePolicy, At
  <1>1. Fail(s) \/ Answers(s) \/ \E next \in Steps : Moves(s, next)
    <2>1. /\ AfterBucket(Object(s)) \in Steps \cup {"OK"} /\ AfterQuota(Object(s)) \in Steps \cup {"OK"}
          /\ AfterRules(Object(s)) \in Steps \cup {"OK"}
          /\ {"addPolicy", "setPolicy", "removePolicy", "deleteBucket"} \subseteq Steps
      BY DEF AfterBucket, AfterQuota, AfterRules, Steps
    <2>2. CASE \E applied \in BOOLEAN, next \in Steps \cup {"OK"} : Proceed(s, applied, next)
      BY <1>0, <2>2, ProceedShape
    <2>3. CASE \E next \in Steps \cup {"OK"} : NextOrEnd(s, next)
      BY <1>0, <2>3, NextOrEndShape
    <2>4. CASE ReadBucket(s)
      BY <1>0, <2>1, <2>4 DEF ReadBucket, Moves, Answers
    <2>5. \/ ReadBucket(s) \/ Fail(s)
          \/ \E applied \in BOOLEAN, next \in Steps \cup {"OK"} : Proceed(s, applied, next)
          \/ \E next \in Steps \cup {"OK"} : NextOrEnd(s, next)
      BY <2>1
      DEF Handle, MakeBucket, SetQuota, SetRules, SetReplication, DeleteBucket, AddUser,
          AddPolicy, SetPolicy, RemoveUser, RemovePolicy
    <2> QED  BY <2>2, <2>3, <2>4, <2>5
  <1>2. \A t \in Slots \ {s} : rpc'[t] = rpc[t]
    BY <1>1, EndOthers, MovesTo DEF Fail, Answers
  <1> QED  BY <1>0, <1>1, <1>2

LEMMA SettingsStay ==
    ASSUME [Next]_vars
    PROVE  quotas \cap made' \subseteq quotas' /\ ruled \cap made' \subseteq ruled'
  BY DEF Next, vars, Handle, GiveUp, AskCreate, AskDelete, AskGrant, AskRevoke, Ask, Want, Doom,
         MakeBucket, SetQuota, SetRules, SetReplication, ReadBucket, DeleteBucket, AddUser, AddPolicy,
         SetPolicy, RemoveUser, RemovePolicy

(* Nothing is taken from a Bucket that is not deleted: what is removed is  *)
(* the bucket of another one, which has another name.                      *)
LEMMA DoneStays ==
    ASSUME BInv, [Next]_vars, DistinctIds, NEW b \in Buckets, NEW step, Done(b, step),
           bucketObj[b].stage = "ready" \/ bucketObj[b].id = None
    PROVE  Done(b, step)'
  <1>1. IdOf[b] \in made => IdOf[b] \in made'
    <2> SUFFICES ASSUME IdOf[b] \in made, IdOf[b] \notin made' PROVE FALSE  OBVIOUS
    <2>1. PICK s \in Slots : DeleteBucket(s) /\ IdOf[b] = Bucket(s)  BY OnlyDeleteRemoves
    <2>2. DeleteFits(s)
      BY <2>1, OpOfStep DEF DeleteBucket, At, DeleteSteps, BInv
    <2>3. Object(s) = b  BY <2>1, <2>2 DEF DeleteFits, DistinctIds
    <2> QED  BY <2>2, <2>3 DEF DeleteFits
  <1>2. quotas \cap made' \subseteq quotas' /\ ruled \cap made' \subseteq ruled'  BY SettingsStay
  <1>3. quotas \subseteq made /\ ruled \subseteq made  BY DEF BInv, BackendTypes
  <1> QED  BY <1>1, <1>2, <1>3 DEF Done

(* So a step only has to account for what it newly reports or goes on to.  *)
LEMMA ConfiguredFrom ==
    ASSUME BInv, [Next]_vars, DistinctIds, Configured,
           \A b \in Buckets : bucketObj'[b].stage = "ready" =>
               bucketObj[b].stage = "ready" \/ Done(b, "OK")',
           \A t \in Slots : Creating(t)' =>
               \/ Creating(t) /\ rpc'[t].object = rpc[t].object /\ rpc'[t].step = rpc[t].step
               \/ Done(Object(t), rpc[t].step)'
    PROVE  Configured'
  <1>1. ASSUME NEW b \in Buckets, bucketObj'[b].stage = "ready"  PROVE Done(b, "OK")'
    BY <1>1, DoneStays DEF Configured
  <1>2. ASSUME NEW t \in Slots, Creating(t)'  PROVE Done(Object(t), rpc[t].step)'
    <2>1. CASE Creating(t) /\ rpc'[t].object = rpc[t].object /\ rpc'[t].step = rpc[t].step
      <3>1. CreateFits(t)  BY <2>1, RequestTypes DEF BInv, Creating, Fits
      <3>2. Done(rpc[t].object, rpc[t].step)  BY <2>1 DEF Configured
      <3>3. Done(rpc[t].object, rpc[t].step)'
        <4> DEFINE b == rpc[t].object
                   step == rpc[t].step
        <4>1. b' = b /\ step' = step  BY <2>1
        <4>2. Done(b, step) /\ b \in Buckets /\ bucketObj[b].id = None
          BY <2>1, <3>1, <3>2 DEF CreateFits, Creating
        <4> HIDE DEF b, step
        <4>3. \A d \in Buckets, st \in {step} : Done(d, st) /\ bucketObj[d].id = None =>
                 /\ st # "makeBucket" => IdOf[d] \in made'
                 /\ st \in {"setRules", "setReplication", "OK"} /\ Params[d].quota = "set" => IdOf[d] \in quotas'
                 /\ st \in {"setReplication", "OK"} /\ Params[d].rules => IdOf[d] \in ruled'
          BY DoneStays DEF Done
        <4> QED  BY <4>1, <4>2, <4>3 DEF Done, b, step
      <3> QED  BY <3>3
    <2> QED  BY <1>2, <2>1
  <1> QED  BY <1>1, <1>2 DEF Configured

(* The steps of a creation do what the next one relies on.                 *)
LEMMA CreateProgress ==
    ASSUME BInv, Configured, NEW s \in Slots, Handle(s), Creating(s), NEW b, b = Object(s)
    PROVE  \/ Fail(s)
           \/ Answers(s) /\ Done(b, "OK")'
           \/ \E next \in Steps : Moves(s, next) /\ Done(b, next)'
  <1>0. /\ CreateFits(s) /\ b \in Buckets /\ Bucket(s) = IdOf[b] /\ rpc[s].step \in CreateSteps
        /\ Done(b, rpc[s].step) /\ "OK" \notin Steps /\ Requests /\ Active(s)
    BY RequestTypes DEF BInv, Creating, Fits, CreateFits, Configured, Steps
  <1>1. /\ AfterBucket(b) \in Steps \cup {"OK"} /\ AfterQuota(b) \in Steps \cup {"OK"}
        /\ AfterRules(b) \in Steps \cup {"OK"}
    BY DEF AfterBucket, AfterQuota, AfterRules, Steps
  <1>2. CASE MakeBucket(s)
    <2>1. PICK applied \in BOOLEAN : /\ made' = IF applied THEN made \cup {Bucket(s)} ELSE made
                                     /\ Proceed(s, applied, AfterBucket(b))
      BY <1>2 DEF MakeBucket
    <2>2. applied => Done(b, AfterBucket(b))'
      BY <1>0, <2>1 DEF Done, AfterBucket, AfterQuota, AfterRules
    <2> QED  BY <1>0, <1>1, <2>1, <2>2, ProceedShape
  <1>3. CASE SetQuota(s)
    <2>1. CASE Fail(s)  BY <2>1
    <2>2. CASE \E applied \in BOOLEAN : /\ quotas' = IF applied THEN quotas \cup {Bucket(s)} ELSE quotas
                                        /\ Proceed(s, applied, AfterQuota(b))
      <3>1. PICK applied \in BOOLEAN : /\ quotas' = IF applied THEN quotas \cup {Bucket(s)} ELSE quotas
                                       /\ Proceed(s, applied, AfterQuota(b))
        BY <2>2
      <3>2. rpc[s].step = "setQuota" /\ made' = made  BY <1>3 DEF SetQuota, At
      <3>3. applied => Done(b, AfterQuota(b))'
        BY <1>0, <3>1, <3>2 DEF Done, AfterQuota, AfterRules
      <3> QED  BY <1>0, <1>1, <3>1, <3>3, ProceedShape
    <2> QED  BY <1>3, <2>1, <2>2 DEF SetQuota
  <1>4. CASE SetRules(s)
    <2>1. CASE Fail(s)  BY <2>1
    <2>2. CASE \E applied \in BOOLEAN : /\ ruled' = IF applied THEN ruled \cup {Bucket(s)} ELSE ruled
                                        /\ Proceed(s, applied, AfterRules(b))
      <3>1. PICK applied \in BOOLEAN : /\ ruled' = IF applied THEN ruled \cup {Bucket(s)} ELSE ruled
                                       /\ Proceed(s, applied, AfterRules(b))
        BY <2>2
      <3>2. rpc[s].step = "setRules" /\ UNCHANGED <<made, quotas>>  BY <1>4 DEF SetRules, At
      <3>3. applied => Done(b, AfterRules(b))'
        BY <1>0, <3>1, <3>2 DEF Done, AfterRules
      <3> QED  BY <1>0, <1>1, <3>1, <3>3, ProceedShape
    <2> QED  BY <1>4, <2>1, <2>2 DEF SetRules
  <1>5. CASE SetReplication(s)
    <2>1. rpc[s].step = "setReplication" /\ UNCHANGED <<made, quotas, ruled>> /\ NextOrEnd(s, "OK")
      BY <1>5 DEF SetReplication, At
    <2>2. Done(b, "OK")'  BY <1>0, <2>1 DEF Done
    <2> QED  BY <1>0, <2>1, <2>2, NextOrEndShape
  <1> QED
    BY <1>0, <1>2, <1>3, <1>4, <1>5
    DEF Handle, ReadBucket, DeleteBucket, AddUser, AddPolicy, SetPolicy, RemoveUser, RemovePolicy, At,
        CreateSteps

LEMMA NextIs ==
    ASSUME Requests, [Next]_vars
    PROVE  \/ \E s \in Slots : Handle(s) \/ GiveUp(s)
           \/ \E s \in Slots, op \in Ops, o \in Buckets \cup Accesses, name \in Names, step \in Steps :
                 /\ Ask(s, op, o, name, step)
                 /\ op = "create" => step = "makeBucket"
                 /\ op = "grant"  => step = "addUser"
                 /\ op = "revoke" => step = "removeUser"
           \/ \E o \in Buckets \cup Accesses : Want(o) \/ Doom(o)
           \/ UNCHANGED vars
  <1> USE DEF Ops, Steps
  <1>1. ASSUME NEW s \in Slots, NEW b \in Buckets, AskCreate(s, b)
        PROVE  IdOf[b] \in Names /\ Ask(s, "create", b, IdOf[b], "makeBucket")
    BY <1>1, NameIsId DEF AskCreate
  <1>2. ASSUME NEW s \in Slots, NEW b \in Buckets, AskDelete(s, b)
        PROVE  IdOf[b] \in Names /\ Ask(s, "delete", b, IdOf[b], "readBucket")
    BY <1>2, NameIsId DEF AskDelete, Identified, Requests, Identifiers
  <1>3. ASSUME NEW s \in Slots, NEW a \in Accesses, AskGrant(s, a)
        PROVE  IdOf[BucketOf[a]] \in Names /\ Ask(s, "grant", a, IdOf[BucketOf[a]], "addUser")
    BY <1>3, NameIsId, KeyTypes DEF AskGrant, Requests, Identifiers
  <1>4. ASSUME NEW s \in Slots, NEW a \in Accesses, AskRevoke(s, a)
        PROVE  IdOf[BucketOf[a]] \in Names /\ Ask(s, "revoke", a, IdOf[BucketOf[a]], "removeUser")
    BY <1>4, NameIsId, KeyTypes DEF AskRevoke, Identified, Requests, Identifiers
  <1>5. ASSUME NEW s \in Slots, \/ \E b \in Buckets : AskCreate(s, b) \/ AskDelete(s, b)
                                \/ \E a \in Accesses : AskGrant(s, a) \/ AskRevoke(s, a)
        PROVE  \E op \in Ops, o \in Buckets \cup Accesses, name \in Names, step \in Steps :
                 /\ Ask(s, op, o, name, step)
                 /\ op = "create" => step = "makeBucket"
                 /\ op = "grant"  => step = "addUser"
                 /\ op = "revoke" => step = "removeUser"
    BY <1>1, <1>2, <1>3, <1>4, <1>5
  <1> QED  BY <1>5 DEF Next

LEMMA ConfiguredStep ==
    ASSUME BInv, [Next]_vars, DistinctIds, Configured
    PROVE  Configured'
  <1>0. Requests  BY DEF BInv
  <1>1. ASSUME NEW s \in Slots, Handle(s)  PROVE Configured'
    <2>0. Active(s) /\ \A t \in Slots \ {s} : rpc'[t] = rpc[t]  BY <1>0, <1>1, HandleShape
    <2>1. CASE Fail(s)
      <3>1. rpc'[s] = None /\ UNCHANGED bucketObj  BY <1>0, <2>1, EndOthers DEF Fail
      <3> QED  BY <2>0, <3>1, ConfiguredFrom DEF Creating
    <2>2. ASSUME Answers(s), \A b : b = Object(s) /\ Creating(s) => Done(b, "OK")'
          PROVE  Configured'
      <3>1. rpc'[s] = None /\ Awaited(s)  BY <1>0, <2>2, EndOthers DEF Answers
      <3>2. rpc[s].op \in Ops  BY <1>0, <2>0, RequestTypes
      <3>3. \A b \in Buckets : bucketObj'[b].stage = "ready" =>
                bucketObj[b].stage = "ready" \/ (rpc[s].op = "create" /\ b = Object(s))
        BY <1>0, <2>2, <3>2, AnswerSays DEF Ops
      <3>4. \A b \in Buckets : bucketObj'[b].stage = "ready" =>
                bucketObj[b].stage = "ready" \/ Done(b, "OK")'
        BY <2>2, <3>1, <3>3 DEF Creating
      <3> QED  BY <2>0, <3>1, <3>4, ConfiguredFrom DEF Creating
    <2>3. ASSUME NEW next \in Steps, Moves(s, next), \A b : b = Object(s) /\ Creating(s) => Done(b, next)'
          PROVE  Configured'
      <3>1. UNCHANGED bucketObj  BY <2>3 DEF Moves
      <3>2. /\ rpc'[s].step = next /\ rpc'[s].op = rpc[s].op /\ rpc'[s].object = rpc[s].object
            /\ rpc'[s].cancelled = rpc[s].cancelled /\ Awaited(s)
        BY <1>0, <2>3, MovesTo DEF Moves
      <3>3. Creating(s)' => Done(Object(s), rpc[s].step)'
        BY <2>3, <3>2 DEF Creating, Done
      <3> QED  BY <2>0, <3>1, <3>3, ConfiguredFrom DEF Creating
    <2>4. CASE Creating(s)
      BY <1>1, <2>1, <2>2, <2>3, <2>4, CreateProgress
    <2>5. CASE ~Creating(s)
      BY <1>0, <1>1, <2>1, <2>2, <2>3, <2>5, HandleShape
    <2> QED  BY <2>4, <2>5
  <1>2. ASSUME NEW s \in Slots, GiveUp(s)  PROVE Configured'
    <2>1. UNCHANGED bucketObj /\ rpc'[s].cancelled /\ \A t \in Slots \ {s} : rpc'[t] = rpc[t]
      BY <1>0, <1>2, GiveUpIs
    <2> QED  BY <2>1, ConfiguredFrom DEF Creating
  <1>3. ASSUME NEW s \in Slots, NEW op \in Ops, NEW o \in Buckets \cup Accesses, NEW name \in Names,
               NEW step \in Steps, Ask(s, op, o, name, step), op = "create" => step = "makeBucket"
        PROVE  Configured'
    <2>1. /\ UNCHANGED bucketObj /\ \A t \in Slots \ {s} : rpc'[t] = rpc[t]
          /\ rpc'[s].op = op /\ rpc'[s].step = step
      BY <1>0, <1>3, AskIs
    <2>2. Creating(s)' => Done(Object(s), rpc[s].step)'
      BY <1>3, <2>1 DEF Creating, Done
    <2> QED  BY <2>1, <2>2, ConfiguredFrom DEF Creating
  <1>4. ASSUME NEW o \in Buckets \cup Accesses, Want(o) \/ Doom(o)  PROVE Configured'
    BY <1>0, <1>4, WantDoomIs, ConfiguredFrom DEF Creating
  <1>5. CASE UNCHANGED vars
    BY <1>5, ConfiguredFrom DEF Creating, vars
  <1> QED  BY <1>0, <1>1, <1>2, <1>3, <1>4, <1>5, NextIs

(* A Bucket that is reported ready has its backend bucket, with the quota  *)
(* and rules asked for, also when earlier requests for it were given up    *)
(* and are still being handled beside others.                              *)
THEOREM ReadyConfigured == DistinctIds => (Spec => []ReadyIsConfigured)
  <1> SUFFICES ASSUME DistinctIds PROVE Spec => []ReadyIsConfigured  OBVIOUS
  <1>1. Init => BInv /\ Configured
    BY BInit DEF Init, Configured, Creating
  <1>2. BInv /\ Configured /\ [Next]_vars => (BInv /\ Configured)'
    BY BStep, ConfiguredStep
  <1>3. BInv /\ Configured => ReadyIsConfigured
    BY NameIsId DEF BInv, Requests, Identifiers, Configured, ReadyIsConfigured, Done
  <1> QED  BY <1>1, <1>2, <1>3, PTL DEF Spec
-----------------------------------------------------------------------------
(* Credentials that were handed out work.                                  *)

PolicyOf(a) == <<IdOf[BucketOf[a]], a>>

(* What has been done for a BucketAccess when a request gets to a step, or *)
(* is answered OK.                                                         *)
Given(a, step) ==
    /\ step \in {"addPolicy", "setPolicy", "OK"} => GrantedKey(a) \in users
    /\ step \in {"setPolicy", "OK"} => policies[PolicyOf(a)] = AccessParams[a].type
    /\ step = "OK" => attached[GrantedKey(a)] = PolicyOf(a)

Granting(s) == Awaited(s) /\ rpc[s].op = "grant"

Granted ==
    /\ \A a \in Accesses : accessObj[a].stage = "ready" => Given(a, "OK")
    /\ \A s \in Slots : Granting(s) => Given(Object(s), rpc[s].step)

LEMMA PolicyOfType ==
    ASSUME NEW a \in Accesses
    PROVE  PolicyOf(a) \in PolicyId /\ \A d \in Accesses : PolicyOf(d) = PolicyOf(a) => d = a
  BY NameIsId, KeyTypes DEF PolicyOf, PolicyId

(* Which request a step on users and policies is of.                       *)
LEMMA UserSteps ==
    ASSUME BInv, NEW s \in Slots
    PROVE  /\ AddUser(s) \/ AddPolicy(s) \/ SetPolicy(s) =>
                 /\ rpc[s].op = "grant" /\ GrantFits(s) /\ Object(s) \in Accesses
                 /\ ThePolicy(s) = PolicyOf(Object(s))
           /\ RemoveUser(s) \/ RemovePolicy(s) =>
                 /\ rpc[s].op = "revoke" /\ RevokeFits(s) /\ Object(s) \in Accesses
                 /\ ThePolicy(s) = PolicyOf(Object(s))
  <1>1. Requests  BY DEF BInv
  <1>2. ASSUME AddUser(s) \/ AddPolicy(s) \/ SetPolicy(s)
        PROVE  rpc[s].op = "grant" /\ GrantFits(s)
    BY <1>1, <1>2, OpOfStep DEF AddUser, AddPolicy, SetPolicy, At, AllowSteps
  <1>3. ASSUME RemoveUser(s) \/ RemovePolicy(s)
        PROVE  rpc[s].op = "revoke" /\ RevokeFits(s)
    BY <1>1, <1>3, OpOfStep DEF RemoveUser, RemovePolicy, At, RevokeSteps
  <1> QED  BY <1>2, <1>3 DEF GrantFits, RevokeFits, ThePolicy, PolicyOf

(* Nothing is taken from a BucketAccess that is not deleted: what is       *)
(* revoked or attached is another's.                                       *)
LEMMA GivenStays ==
    ASSUME BInv, [Next]_vars, DistinctGrants, NEW a \in Accesses, NEW step, Given(a, step),
           accessObj[a].stage = "ready" \/ accessObj[a].account = None
    PROVE  Given(a, step)'
  <1>0. /\ users \subseteq Keys /\ policies \in [PolicyId -> {"ReadWrite", "ReadOnly", None}]
        /\ attached \in [Keys -> PolicyId \cup {None}] /\ GrantedKey(a) \in Keys /\ PolicyOf(a) \in PolicyId
    BY KeyTypes, PolicyOfType DEF BInv, BackendTypes
  <1>1. CASE UNCHANGED <<users, policies, attached>>  BY <1>1 DEF Given
  <1>2. ASSUME NEW s \in Slots, AddUser(s)  PROVE Given(a, step)'
    BY <1>2 DEF AddUser, Given
  <1>3. ASSUME NEW s \in Slots, AddPolicy(s)  PROVE Given(a, step)'
    <2>1. /\ UNCHANGED <<users, attached>> /\ Object(s) \in Accesses /\ PolicyOf(Object(s)) \in PolicyId
          /\ \/ policies' = policies
             \/ policies' = [policies EXCEPT ![PolicyOf(Object(s))] = AccessParams[Object(s)].type]
      BY <1>3, UserSteps, PolicyOfType DEF AddPolicy
    <2>2. PolicyOf(Object(s)) = PolicyOf(a) => Object(s) = a  BY <2>1, PolicyOfType
    <2> QED  BY <1>0, <2>1, <2>2 DEF Given
  <1>4. ASSUME NEW s \in Slots, SetPolicy(s)  PROVE Given(a, step)'
    <2>1. /\ UNCHANGED <<users, policies>> /\ Object(s) \in Accesses /\ GrantedKey(Object(s)) \in Keys
          /\ \/ attached' = attached
             \/ attached' = [attached EXCEPT ![GrantedKey(Object(s))] = PolicyOf(Object(s))]
      BY <1>4, UserSteps, KeyTypes DEF SetPolicy
    <2>2. GrantedKey(Object(s)) = GrantedKey(a) => Object(s) = a  BY <2>1 DEF DistinctGrants
    <2> QED  BY <1>0, <2>1, <2>2 DEF Given
  <1>5. ASSUME NEW s \in Slots, RemoveUser(s)  PROVE Given(a, step)'
    <2>1. /\ policies' = policies /\ Object(s) \in Accesses /\ Object(s) # a
          /\ \/ UNCHANGED <<users, attached>>
             \/ /\ users' = users \ {RevokedKey(Object(s))}
                /\ attached' = [attached EXCEPT ![RevokedKey(Object(s))] = None]
      BY <1>5, UserSteps DEF RemoveUser, RevokeFits
    <2>2. RevokedKey(Object(s)) # GrantedKey(a)  BY <2>1 DEF DistinctGrants
    <2> QED  BY <1>0, <2>1, <2>2 DEF Given
  <1>6. ASSUME NEW s \in Slots, RemovePolicy(s)  PROVE Given(a, step)'
    <2>1. /\ UNCHANGED <<users, attached>> /\ Object(s) \in Accesses /\ Object(s) # a
          /\ \/ policies' = policies
             \/ policies' = [policies EXCEPT ![PolicyOf(Object(s))] = None]
      BY <1>6, UserSteps DEF RemovePolicy, RevokeFits
    <2>2. PolicyOf(Object(s)) # PolicyOf(a)  BY <2>1, PolicyOfType
    <2> QED  BY <1>0, <2>1, <2>2 DEF Given
  <1> QED
    BY <1>1, <1>2, <1>3, <1>4, <1>5, <1>6
    DEF Next, vars, Handle, GiveUp, AskCreate, AskDelete, AskGrant, AskRevoke, Ask, Want, Doom,
        MakeBucket, SetQuota, SetRules, SetReplication, ReadBucket, DeleteBucket

LEMMA GrantedFrom ==
    ASSUME BInv, [Next]_vars, DistinctGrants, Granted,
           \A a \in Accesses : accessObj'[a].stage = "ready" =>
               accessObj[a].stage = "ready" \/ Given(a, "OK")',
           \A t \in Slots : Granting(t)' =>
               \/ Granting(t) /\ rpc'[t].object = rpc[t].object /\ rpc'[t].step = rpc[t].step
               \/ Given(Object(t), rpc[t].step)'
    PROVE  Granted'
  <1>1. ASSUME NEW a \in Accesses, accessObj'[a].stage = "ready"  PROVE Given(a, "OK")'
    BY <1>1, GivenStays DEF Granted
  <1>2. ASSUME NEW t \in Slots, Granting(t)'  PROVE Given(Object(t), rpc[t].step)'
    <2>1. CASE Granting(t) /\ rpc'[t].object = rpc[t].object /\ rpc'[t].step = rpc[t].step
      <3>1. GrantFits(t)  BY <2>1, RequestTypes DEF BInv, Granting, Fits
      <3>2. Given(rpc[t].object, rpc[t].step)  BY <2>1 DEF Granted
      <3>3. rpc[t].object \in Accesses /\ accessObj[rpc[t].object].account = None
        BY <2>1, <3>1 DEF GrantFits, Granting
      <3>4. \A a, st : a = rpc[t].object /\ st = rpc[t].step => Given(a, st)'
        BY <3>2, <3>3, GivenStays
      <3> QED  BY <2>1, <3>4 DEF Given, PolicyOf, GrantedKey
    <2> QED  BY <1>2, <2>1
  <1> QED  BY <1>1, <1>2 DEF Granted

(* The steps of a grant do what the next one relies on.                    *)
LEMMA GrantProgress ==
    ASSUME BInv, Granted, NEW s \in Slots, Handle(s), Granting(s), NEW a, a = Object(s)
    PROVE  \/ Fail(s)
           \/ Answers(s) /\ Given(a, "OK")'
           \/ \E next \in Steps : Moves(s, next) /\ Given(a, next)'
  <1>0. /\ GrantFits(s) /\ a \in Accesses /\ rpc[s].step \in AllowSteps
        /\ Given(a, rpc[s].step) /\ {"addPolicy", "setPolicy"} \subseteq Steps /\ Requests /\ Active(s)
        /\ GrantedKey(a) \in Keys /\ PolicyOf(a) \in PolicyId
    BY RequestTypes, KeyTypes, PolicyOfType DEF BInv, Granting, Fits, GrantFits, Granted, Steps
  <1>1. CASE AddUser(s)
    <2>1. PICK applied \in BOOLEAN : /\ users' = IF applied THEN users \cup {GrantedKey(a)} ELSE users
                                     /\ Proceed(s, applied, "addPolicy")
      BY <1>1 DEF AddUser
    <2>2. applied => Given(a, "addPolicy")'  BY <2>1 DEF Given
    <2> QED  BY <1>0, <2>1, <2>2, ProceedShape
  <1>2. CASE AddPolicy(s)
    <2>0. ThePolicy(s) = PolicyOf(a) /\ rpc[s].step = "addPolicy" /\ users' = users
      BY <1>2, UserSteps DEF AddPolicy, At
    <2>1. PICK applied \in BOOLEAN :
             /\ policies' = IF applied THEN [policies EXCEPT ![PolicyOf(a)] = AccessParams[a].type]
                                       ELSE policies
             /\ Proceed(s, applied, "setPolicy")
      BY <1>2, <2>0 DEF AddPolicy
    <2>2. applied => Given(a, "setPolicy")'
      BY <1>0, <2>0, <2>1 DEF Given, BInv, BackendTypes
    <2> QED  BY <1>0, <2>1, <2>2, ProceedShape
  <1>3. CASE SetPolicy(s)
    <2>0. ThePolicy(s) = PolicyOf(a) /\ rpc[s].step = "setPolicy" /\ UNCHANGED <<users, policies>>
      BY <1>3, UserSteps DEF SetPolicy, At
    <2>1. CASE Fail(s)  BY <2>1
    <2>2. CASE \E applied \in BOOLEAN :
                 /\ attached' = IF applied THEN [attached EXCEPT ![GrantedKey(a)] = PolicyOf(a)]
                                           ELSE attached
                 /\ Proceed(s, applied, "OK")
      <3>1. PICK applied \in BOOLEAN :
                 /\ attached' = IF applied THEN [attached EXCEPT ![GrantedKey(a)] = PolicyOf(a)]
                                           ELSE attached
                 /\ Proceed(s, applied, "OK")
        BY <2>2
      <3>2. applied => Given(a, "OK")'
        BY <1>0, <2>0, <3>1 DEF Given, BInv, BackendTypes
      <3> QED  BY <1>0, <3>1, <3>2, ProceedShape
    <2> QED  BY <1>3, <2>0, <2>1, <2>2 DEF SetPolicy
  <1> QED
    BY <1>0, <1>1, <1>2, <1>3
    DEF Handle, MakeBucket, SetQuota, SetRules, SetReplication, ReadBucket, DeleteBucket, RemoveUser,
        RemovePolicy, At, AllowSteps

LEMMA GrantedStep ==
    ASSUME BInv, [Next]_vars, DistinctGrants, Granted
    PROVE  Granted'
  <1>0. Requests  BY DEF BInv
  <1>1. ASSUME NEW s \in Slots, Handle(s)  PROVE Granted'
    <2>0. Active(s) /\ \A t \in Slots \ {s} : rpc'[t] = rpc[t]  BY <1>0, <1>1, HandleShape
    <2>1. CASE Fail(s)
      <3>1. rpc'[s] = None /\ UNCHANGED accessObj  BY <1>0, <2>1, EndOthers DEF Fail
      <3> QED  BY <2>0, <3>1, GrantedFrom DEF Granting
    <2>2. ASSUME Answers(s), \A a : a = Object(s) /\ Granting(s) => Given(a, "OK")'
          PROVE  Granted'
      <3>1. rpc'[s] = None /\ Awaited(s)  BY <1>0, <2>2, EndOthers DEF Answers
      <3>2. rpc[s].op \in Ops  BY <1>0, <2>0, RequestTypes
      <3>3. \A a \in Accesses : accessObj'[a].stage = "ready" =>
                accessObj[a].stage = "ready" \/ (rpc[s].op = "grant" /\ a = Object(s))
        BY <1>0, <2>2, <3>2, AnswerSays DEF Ops
      <3>4. \A a \in Accesses : accessObj'[a].stage = "ready" =>
                accessObj[a].stage = "ready" \/ Given(a, "OK")'
        BY <2>2, <3>1, <3>3 DEF Granting
      <3> QED  BY <2>0, <3>1, <3>4, GrantedFrom DEF Granting
    <2>3. ASSUME NEW next \in Steps, Moves(s, next), \A a : a = Object(s) /\ Granting(s) => Given(a, next)'
          PROVE  Granted'
      <3>1. UNCHANGED accessObj  BY <2>3 DEF Moves
      <3>2. /\ rpc'[s].step = next /\ rpc'[s].op = rpc[s].op /\ rpc'[s].object = rpc[s].object
            /\ rpc'[s].cancelled = rpc[s].cancelled /\ Awaited(s)
        BY <1>0, <2>3, MovesTo DEF Moves
      <3>3. Granting(s)' => Given(Object(s), rpc[s].step)'
        BY <2>3, <3>2 DEF Granting, Given, PolicyOf, GrantedKey
      <3> QED  BY <2>0, <3>1, <3>3, GrantedFrom DEF Granting
    <2>4. CASE Granting(s)
      BY <1>1, <2>1, <2>2, <2>3, <2>4, GrantProgress
    <2>5. CASE ~Granting(s)
      BY <1>0, <1>1, <2>1, <2>2, <2>3, <2>5, HandleShape
    <2> QED  BY <2>4, <2>5
  <1>2. ASSUME NEW s \in Slots, GiveUp(s)  PROVE Granted'
    <2>1. UNCHANGED accessObj /\ rpc'[s].cancelled /\ \A t \in Slots \ {s} : rpc'[t] = rpc[t]
      BY <1>0, <1>2, GiveUpIs
    <2> QED  BY <2>1, GrantedFrom DEF Granting
  <1>3. ASSUME NEW s \in Slots, NEW op \in Ops, NEW o \in Buckets \cup Accesses, NEW name \in Names,
               NEW step \in Steps, Ask(s, op, o, name, step), op = "grant" => step = "addUser"
        PROVE  Granted'
    <2>1. /\ UNCHANGED accessObj /\ \A t \in Slots \ {s} : rpc'[t] = rpc[t]
          /\ rpc'[s].op = op /\ rpc'[s].step = step
      BY <1>0, <1>3, AskIs
    <2>2. Granting(s)' => Given(Object(s), rpc[s].step)'
      BY <1>3, <2>1 DEF Granting, Given
    <2> QED  BY <2>1, <2>2, GrantedFrom DEF Granting
  <1>4. ASSUME NEW o \in Buckets \cup Accesses, Want(o) \/ Doom(o)  PROVE Granted'
    BY <1>0, <1>4, WantDoomIs, GrantedFrom DEF Granting
  <1>5. CASE UNCHANGED vars
    BY <1>5, GrantedFrom DEF Granting, vars
  <1> QED  BY <1>0, <1>1, <1>2, <1>3, <1>4, <1>5, NextIs

(* The credentials a BucketAccess was answered with work, with the access  *)
(* asked for, until it is deleted, beside any number of other requests.    *)
THEOREM GrantsWork == DistinctGrants => (Spec => []GrantedWorks)
  <1> SUFFICES ASSUME DistinctGrants PROVE Spec => []GrantedWorks  OBVIOUS
  <1>1. Init => BInv /\ Granted
    BY BInit DEF Init, Granted, Granting
  <1>2. BInv /\ Granted /\ [Next]_vars => (BInv /\ Granted)'
    BY BStep, GrantedStep
  <1>3. BInv /\ Granted => GrantedWorks
    BY NameIsId, KeyTypes DEF Granted, GrantedWorks, Given, PolicyOf
  <1> QED  BY <1>1, <1>2, <1>3, PTL DEF Spec
-----------------------------------------------------------------------------
(* Nothing is left behind when no request is given up.                     *)

AllAwaited == ~Happened("timeout") => \A s \in Slots : Active(s) => Awaited(s)

LEMMA AwaitedStep ==
    ASSUME BInv, [Next]_vars, AllAwaited
    PROVE  AllAwaited'
  <1> SUFFICES ASSUME ~Happened("timeout")', NEW t \in Slots, Active(t)'  PROVE Awaited(t)'
    BY DEF AllAwaited
  <1>0. Requests /\ \A s \in Slots : Active(s) => Awaited(s)  BY NotesStay DEF AllAwaited, BInv
  <1>1. ASSUME NEW s \in Slots, Handle(s)  PROVE Awaited(t)'
    <2>1. /\ \A u \in Slots \ {s} : rpc'[u] = rpc[u]
          /\ Fail(s) \/ Answers(s) \/ \E next \in Steps : Moves(s, next)
      BY <1>0, <1>1, HandleShape
    <2>2. t = s => \E next \in Steps : Moves(s, next)
      BY <1>0, <2>1, EndOthers DEF Fail, Answers
    <2>3. t = s => rpc'[s].cancelled = rpc[s].cancelled /\ Awaited(s)
      BY <1>0, <2>2, MovesTo DEF Moves
    <2> QED  BY <1>0, <2>1, <2>3
  <1>2. ASSUME NEW s \in Slots, GiveUp(s)  PROVE Awaited(t)'
    BY <1>0, <1>2, GiveUpIs, DisturbNotes DEF BInv, BackendTypes
  <1>3. ASSUME NEW s \in Slots, NEW op \in Ops, NEW o \in Buckets \cup Accesses, NEW name \in Names,
               NEW step \in Steps, Ask(s, op, o, name, step)
        PROVE  Awaited(t)'
    BY <1>0, <1>3, AskIs
  <1>4. ASSUME NEW o \in Buckets \cup Accesses, Want(o) \/ Doom(o)  PROVE Awaited(t)'
    BY <1>0, <1>4, WantDoomIs
  <1>5. CASE UNCHANGED vars  BY <1>0, <1>5 DEF vars
  <1> QED  BY <1>0, <1>1, <1>2, <1>3, <1>4, <1>5, NextIs

(* Stages change only by an answer or by a user.                           *)
LEMMA NewlyGone ==
    ASSUME BInv, [Next]_vars
    PROVE  /\ \A b \in Buckets : bucketObj'[b].stage = "gone" =>
                 \/ bucketObj[b].stage = "gone"
                 \/ \E s \in Slots : Handle(s) /\ Answers(s) /\ rpc[s].op = "delete" /\ Object(s) = b
           /\ \A a \in Accesses : accessObj'[a].stage = "gone" =>
                 \/ accessObj[a].stage = "gone"
                 \/ \E s \in Slots : Handle(s) /\ Answers(s) /\ rpc[s].op = "revoke" /\ Object(s) = a
  <1> DEFINE Goal ==
         /\ \A b \in Buckets : bucketObj'[b].stage = "gone" =>
                 \/ bucketObj[b].stage = "gone"
                 \/ \E s \in Slots : Handle(s) /\ Answers(s) /\ rpc[s].op = "delete" /\ Object(s) = b
         /\ \A a \in Accesses : accessObj'[a].stage = "gone" =>
                 \/ accessObj[a].stage = "gone"
                 \/ \E s \in Slots : Handle(s) /\ Answers(s) /\ rpc[s].op = "revoke" /\ Object(s) = a
  <1>0. Requests  BY DEF BInv
  <1>1. CASE UNCHANGED <<bucketObj, accessObj>>  BY <1>1
  <1>2. ASSUME NEW s \in Slots, Handle(s)  PROVE Goal
    <2>1. Active(s) /\ (Fail(s) \/ Answers(s) \/ \E next \in Steps : Moves(s, next))
      BY <1>0, <1>2, HandleShape
    <2>2. CASE Answers(s)
      <3>1. rpc[s].op \in Ops  BY <1>0, <2>1, RequestTypes
      <3> QED  BY <1>0, <1>2, <2>2, <3>1, AnswerSays DEF Ops
    <2> QED  BY <1>1, <2>1, <2>2 DEF Fail, Moves
  <1>3. ASSUME NEW o \in Buckets \cup Accesses, Want(o) \/ Doom(o)  PROVE Goal
    BY <1>0, <1>3, WantDoomIs
  <1>4. ASSUME NEW s \in Slots, GiveUp(s)  PROVE Goal
    BY <1>1, <1>4 DEF GiveUp
  <1>5. ASSUME NEW s \in Slots, NEW op \in Ops, NEW o \in Buckets \cup Accesses, NEW name \in Names,
               NEW step \in Steps, Ask(s, op, o, name, step)
        PROVE  Goal
    BY <1>1, <1>5 DEF Ask
  <1>6. CASE UNCHANGED vars  BY <1>1, <1>6 DEF vars
  <1> QED  BY <1>0, <1>2, <1>3, <1>4, <1>5, <1>6, NextIs

BucketsCleaned ==
    ~Happened("unreadable") /\ ~Happened("timeout") =>
    \A b \in Buckets :
        bucketObj[b].stage = "gone" /\ Params[b].policy = "Delete" => IdOf[b] \notin made

LEMMA BucketsCleanedStep ==
    ASSUME BInv, [Next]_vars, DistinctIds, AllAwaited, BucketsCleaned
    PROVE  BucketsCleaned'
  <1> SUFFICES ASSUME ~Happened("unreadable")', ~Happened("timeout")', NEW b \in Buckets,
                      bucketObj'[b].stage = "gone", Params[b].policy = "Delete"
               PROVE  IdOf[b] \notin made'
    BY DEF BucketsCleaned
  <1>0. /\ ~Happened("unreadable") /\ ~Happened("timeout") /\ Requests /\ disturbed \in Seq(Disturbances)
        /\ \A s \in Slots : Active(s) => Awaited(s)
    BY NotesStay DEF AllAwaited, BInv, BackendTypes
  <1>1. CASE bucketObj[b].stage = "gone"
    <2>1. IdOf[b] \notin made  BY <1>0, <1>1 DEF BucketsCleaned
    <2>2. ASSUME NEW s \in Slots, MakeBucket(s)  PROVE IdOf[b] \notin made'
      <3>1. CreateFits(s) /\ Awaited(s)
        BY <1>0, <2>2, OpOfStep DEF MakeBucket, At, CreateSteps
      <3>2. Bucket(s) # IdOf[b]  BY <1>1, <3>1 DEF CreateFits, DistinctIds
      <3> QED  BY <2>1, <2>2, <3>2 DEF MakeBucket
    <2>3. made' \subseteq made \/ \E s \in Slots : MakeBucket(s)
      BY DEF Next, vars, Handle, GiveUp, AskCreate, AskDelete, AskGrant, AskRevoke, Ask, Want, Doom,
             SetQuota, SetRules, SetReplication, ReadBucket, DeleteBucket, AddUser, AddPolicy,
             SetPolicy, RemoveUser, RemovePolicy
    <2> QED  BY <2>1, <2>2, <2>3
  <1>2. CASE bucketObj[b].stage # "gone"
    <2>1. PICK s \in Slots : Handle(s) /\ Answers(s) /\ rpc[s].op = "delete" /\ Object(s) = b
      BY <1>2, NewlyGone
    <2>2. DeleteFits(s) /\ Active(s)
      BY <1>0, <2>1, RequestTypes DEF Answers, Fits
    <2>3. ReadBucket(s) \/ DeleteBucket(s)
      BY <2>1, <2>2
      DEF Handle, MakeBucket, SetQuota, SetRules, SetReplication, AddUser, AddPolicy, SetPolicy,
          RemoveUser, RemovePolicy, At, DeleteFits, DeleteSteps
    <2>4. CASE ReadBucket(s)
      <3>1. ~Disturb("unreadable")  BY <1>0, DisturbNotes
      <3>2. Awaited(s) /\ Deletes(Params[b].policy)  BY <2>1 DEF Answers, Deletes
      <3>3. UNCHANGED bucketObj  BY <2>1, <2>4, <3>1, <3>2 DEF ReadBucket
      <3> QED  BY <1>2, <3>3
    <2>5. CASE DeleteBucket(s)
      <3>1. PICK applied \in BOOLEAN : /\ made' = IF applied THEN made \ {Bucket(s)} ELSE made
                                       /\ Proceed(s, applied, "OK")
        BY <2>5 DEF DeleteBucket
      <3>2. applied \/ UNCHANGED bucketObj  BY <2>2, <3>1, ProceedShape DEF Fail
      <3> QED  BY <1>2, <2>1, <2>2, <3>1, <3>2 DEF DeleteFits
    <2> QED  BY <2>3, <2>4, <2>5
  <1> QED  BY <1>1, <1>2

(* When a Bucket with the policy Delete is gone its backend bucket is too, *)
(* whatever failed, unless the Bucket could not be read or a request was   *)
(* given up.                                                               *)
THEOREM NoOrphanBuckets == DistinctIds => (Spec => []NoOrphanBucket)
  <1> SUFFICES ASSUME DistinctIds PROVE Spec => []NoOrphanBucket  OBVIOUS
  <1> DEFINE I == BInv /\ AllAwaited /\ BucketsCleaned
  <1>1. Init => I  BY BInit DEF Init, AllAwaited, BucketsCleaned
  <1>2. I /\ [Next]_vars => I'  BY BStep, AwaitedStep, BucketsCleanedStep
  <1>3. I => NoOrphanBucket  BY NameIsId DEF BucketsCleaned, NoOrphanBucket
  <1> HIDE DEF I
  <1> QED  BY <1>1, <1>2, <1>3, PTL DEF Spec

GrantsCleaned ==
    ~Happened("revokeFault") /\ ~Happened("timeout") =>
    /\ \A a \in Accesses : accessObj[a].stage = "gone" =>
          GrantedKey(a) \notin users /\ policies[PolicyOf(a)] = None
    /\ \A s \in Slots : Active(s) /\ rpc[s].step = "removePolicy" => GrantedKey(Object(s)) \notin users

(* The policies of a BucketAccess are those for the bucket of its Bucket.  *)
OwnPolicies ==
    \A a \in Accesses, n \in Names : policies[<<n, a>>] # None => n = IdOf[BucketOf[a]]

LEMMA OwnPoliciesStep ==
    ASSUME BInv, [Next]_vars, OwnPolicies
    PROVE  OwnPolicies'
  <1>0. policies \in [PolicyId -> {"ReadWrite", "ReadOnly", None}]  BY DEF BInv, BackendTypes
  <1>1. CASE UNCHANGED policies  BY <1>1 DEF OwnPolicies
  <1>2. ASSUME NEW s \in Slots, NEW v, Object(s) \in Accesses, PolicyOf(Object(s)) \in PolicyId,
               policies' = [policies EXCEPT ![PolicyOf(Object(s))] = v]
        PROVE  OwnPolicies'
    BY <1>0, <1>2 DEF OwnPolicies, PolicyOf, PolicyId
  <1>3. ASSUME NEW s \in Slots, AddPolicy(s) \/ RemovePolicy(s)  PROVE OwnPolicies'
    <2>1. Object(s) \in Accesses /\ ThePolicy(s) = PolicyOf(Object(s)) /\ PolicyOf(Object(s)) \in PolicyId
      BY <1>3, UserSteps, PolicyOfType
    <2> QED  BY <1>1, <1>2, <1>3, <2>1 DEF AddPolicy, RemovePolicy
  <1> QED
    BY <1>1, <1>3
    DEF Next, vars, Handle, GiveUp, AskCreate, AskDelete, AskGrant, AskRevoke, Ask, Want, Doom,
        MakeBucket, SetQuota, SetRules, SetReplication, ReadBucket, DeleteBucket, AddUser, SetPolicy,
        RemoveUser

(* Once there has been an answer to a grant, no other is being handled.    *)
LEMMA NotGrantedAgain ==
    ASSUME BInv, [Next]_vars, DistinctGrants, \A s \in Slots : Active(s) => Awaited(s),
           NEW a \in Accesses, accessObj[a].account # None
    PROVE  /\ GrantedKey(a) \notin users => GrantedKey(a) \notin users'
           /\ policies[PolicyOf(a)] = None => policies'[PolicyOf(a)] = None
  <1>0. /\ policies \in [PolicyId -> {"ReadWrite", "ReadOnly", None}] /\ PolicyOf(a) \in PolicyId
    BY PolicyOfType DEF BInv, BackendTypes
  <1>1. ASSUME NEW s \in Slots, AddUser(s) \/ AddPolicy(s)
        PROVE  Object(s) \in Accesses /\ Object(s) # a /\ ThePolicy(s) = PolicyOf(Object(s))
    BY <1>1, UserSteps DEF AddUser, AddPolicy, At, GrantFits
  <1>2. ASSUME NEW s \in Slots, AddUser(s)
        PROVE  policies' = policies /\ (GrantedKey(a) \notin users => GrantedKey(a) \notin users')
    <2>1. GrantedKey(Object(s)) # GrantedKey(a)  BY <1>1, <1>2 DEF DistinctGrants
    <2> QED  BY <1>2, <2>1 DEF AddUser
  <1>3. ASSUME NEW s \in Slots, AddPolicy(s)
        PROVE  users' = users /\ policies'[PolicyOf(a)] = policies[PolicyOf(a)]
    <2>1. PolicyOf(Object(s)) # PolicyOf(a)  BY <1>1, <1>3, PolicyOfType
    <2>2. \/ policies' = policies
          \/ policies' = [policies EXCEPT ![PolicyOf(Object(s))] = AccessParams[Object(s)].type]
      BY <1>1, <1>3 DEF AddPolicy
    <2>3. PolicyOf(Object(s)) \in PolicyId /\ users' = users  BY <1>1, <1>3, PolicyOfType DEF AddPolicy
    <2> QED  BY <1>0, <2>1, <2>2, <2>3
  <1>4. \/ \E s \in Slots : AddUser(s) \/ AddPolicy(s) \/ RemovePolicy(s)
        \/ policies' = policies /\ users' \subseteq users
    BY DEF Next, vars, Handle, GiveUp, AskCreate, AskDelete, AskGrant, AskRevoke, Ask, Want, Doom,
           MakeBucket, SetQuota, SetRules, SetReplication, ReadBucket, DeleteBucket, SetPolicy, RemoveUser
  <1>5. ASSUME NEW s \in Slots, RemovePolicy(s)
        PROVE  users' = users /\ (policies[PolicyOf(a)] = None => policies'[PolicyOf(a)] = None)
    BY <1>0, <1>5 DEF RemovePolicy
  <1> QED  BY <1>2, <1>3, <1>4, <1>5

LEMMA GrantsCleanedStep ==
    ASSUME BInv, [Next]_vars, DistinctGrants, DerivedKeys, AllAwaited, GrantsCleaned
    PROVE  GrantsCleaned'
  <1> SUFFICES ASSUME ~Happened("revokeFault")', ~Happened("timeout")'
               PROVE  /\ \A a \in Accesses : accessObj'[a].stage = "gone" =>
                            GrantedKey(a) \notin users' /\ policies'[PolicyOf(a)] = None
                      /\ \A s \in Slots : Active(s)' /\ rpc'[s].step = "removePolicy" =>
                            GrantedKey(Object(s)') \notin users'
    BY DEF GrantsCleaned, GrantedKey, PolicyOf
  <1>0. /\ ~Happened("revokeFault") /\ ~Happened("timeout") /\ Requests
        /\ disturbed \in Seq(Disturbances) /\ ~Disturb("revokeFault")
        /\ \A s \in Slots : Active(s) => Awaited(s)
        /\ policies \in [PolicyId -> {"ReadWrite", "ReadOnly", None}]
    BY NotesStay, DisturbNotes DEF AllAwaited, BInv, BackendTypes
  <1>00. \A a \in Accesses : RevokedKey(a) = GrantedKey(a)
    BY DEF DerivedKeys, RevokedKey, GrantedKey
  <1>1. ASSUME NEW a \in Accesses, accessObj'[a].stage = "gone"
        PROVE  GrantedKey(a) \notin users' /\ policies'[PolicyOf(a)] = None
    <2>1. CASE accessObj[a].stage = "gone"
      <3>1. accessObj[a].account # None  BY <1>0, <2>1 DEF Requests, Identifiers
      <3>2. GrantedKey(a) \notin users /\ policies[PolicyOf(a)] = None
        BY <1>0, <2>1 DEF GrantsCleaned
      <3> QED  BY <1>0, <3>1, <3>2, NotGrantedAgain
    <2>2. CASE accessObj[a].stage # "gone"
      <3>1. PICK s \in Slots : Handle(s) /\ Answers(s) /\ rpc[s].op = "revoke" /\ Object(s) = a
        BY <1>1, <2>2, NewlyGone
      <3>2. RevokeFits(s) /\ Awaited(s)
        BY <1>0, <3>1, RequestTypes DEF Answers, Fits
      <3>3. RemoveUser(s) \/ RemovePolicy(s)
        BY <3>1, <3>2
        DEF Handle, MakeBucket, SetQuota, SetRules, SetReplication, ReadBucket, DeleteBucket, AddUser,
            AddPolicy, SetPolicy, At, RevokeFits, RevokeSteps
      <3>4. CASE RemoveUser(s)
        <4>1. UNCHANGED accessObj
          BY <1>0, <3>2, <3>4, NextOrEndShape DEF RemoveUser, Fail, Moves
        <4> QED  BY <1>1, <2>2, <4>1
      <3>5. CASE RemovePolicy(s)
        <4>1. /\ ThePolicy(s) = PolicyOf(a) /\ PolicyOf(a) \in PolicyId /\ users' = users
              /\ rpc[s].step = "removePolicy"
          BY <3>1, <3>5, UserSteps, PolicyOfType DEF RemovePolicy, At
        <4>2. policies' = [policies EXCEPT ![PolicyOf(a)] = None]
          BY <1>0, <3>2, <3>5, <4>1 DEF RemovePolicy
        <4>3. GrantedKey(a) \notin users  BY <1>0, <3>1, <3>2, <4>1 DEF GrantsCleaned
        <4> QED  BY <1>0, <4>1, <4>2, <4>3
      <3> QED  BY <3>3, <3>4, <3>5
    <2> QED  BY <2>1, <2>2
  <1>2. ASSUME NEW t \in Slots, Active(t)', rpc'[t].step = "removePolicy"
        PROVE  GrantedKey(Object(t)') \notin users'
    <2>1. CASE Active(t) /\ rpc[t].step = "removePolicy" /\ rpc'[t].object = rpc[t].object
      <3>1. GrantedKey(Object(t)) \notin users  BY <1>0, <2>1 DEF GrantsCleaned
      <3>2. RevokeFits(t)  BY <1>0, <2>1, OpOfStep DEF RevokeSteps
      <3>3. Object(t) \in Accesses /\ accessObj[Object(t)].account # None  BY <3>2 DEF RevokeFits
      <3> QED  BY <1>0, <2>1, <3>1, <3>3, NotGrantedAgain
    <2>2. CASE RemoveUser(t)
      <3>1. /\ Object(t) \in Accesses /\ Active(t)
            /\ (Fail(t) \/ Moves(t, "removePolicy"))
        BY <1>0, <2>2, UserSteps, NextOrEndShape DEF RemoveUser, At
      <3>2. Moves(t, "removePolicy") /\ "removePolicy" \in Steps
        BY <1>0, <1>2, <3>1, EndOthers DEF Fail, Steps
      <3>3. rpc'[t].object = rpc[t].object  BY <1>0, <3>2, MovesTo
      <3>4. users' = users \ {RevokedKey(Object(t))}
        BY <1>0, <2>2, <3>1 DEF RemoveUser
      <3> QED  BY <1>00, <3>1, <3>3, <3>4
    <2>3. \/ Active(t) /\ rpc[t].step = "removePolicy" /\ rpc'[t].object = rpc[t].object
          \/ RemoveUser(t)
      <3>1. CASE rpc'[t] = rpc[t]  BY <1>2, <3>1
      <3>2. ASSUME NEW s \in Slots, Handle(s), rpc'[t] # rpc[t]  PROVE RemoveUser(t)
        <4>1. t = s /\ Active(s)  BY <1>0, <3>2, HandleShape
        <4>2. ~Fail(s) /\ ~Answers(s)  BY <1>0, <1>2, <4>1, EndOthers DEF Fail, Answers
        <4>3. AfterBucket(Object(s)) # "removePolicy" /\ AfterQuota(Object(s)) # "removePolicy"
              /\ AfterRules(Object(s)) # "removePolicy" /\ {"addPolicy", "setPolicy", "deleteBucket"} \subseteq Steps
              /\ (AfterBucket(Object(s)) # "OK" => AfterBucket(Object(s)) \in Steps)
              /\ (AfterQuota(Object(s)) # "OK" => AfterQuota(Object(s)) \in Steps)
              /\ (AfterRules(Object(s)) # "OK" => AfterRules(Object(s)) \in Steps)
          BY DEF AfterBucket, AfterQuota, AfterRules, Steps
        <4>4. \A next \in Steps : Moves(s, next) => next = "removePolicy"
          BY <1>0, <1>2, <4>1, MovesTo
        <4>5. \A applied \in BOOLEAN, next \in Steps \ {"removePolicy"} : ~Proceed(s, applied, next)
          BY <4>1, <4>2, <4>4, ProceedShape
        <4>6. \A applied \in BOOLEAN : ~Proceed(s, applied, "OK")
          BY <4>1, <4>2, ProceedShape
        <4>7. ~NextOrEnd(s, "OK")  BY <1>0, <4>1, <4>2, NextOrEndShape
        <4>8. ~MakeBucket(s)  BY <4>3, <4>5, <4>6 DEF MakeBucket
        <4>9. ~SetQuota(s) /\ ~SetRules(s)  BY <4>2, <4>3, <4>5, <4>6 DEF SetQuota, SetRules
        <4>10. ~ReadBucket(s)
          BY <4>1, <4>2, <4>3, <4>4 DEF ReadBucket, Moves, Answers
        <4>11. ~AddUser(s) /\ ~AddPolicy(s)  BY <4>3, <4>5 DEF AddUser, AddPolicy
        <4> QED
          BY <3>2, <4>1, <4>2, <4>6, <4>7, <4>8, <4>9, <4>10, <4>11
          DEF Handle, SetReplication, DeleteBucket, SetPolicy, RemovePolicy
      <3>3. ASSUME NEW s \in Slots, GiveUp(s), rpc'[t] # rpc[t]
            PROVE  Active(t) /\ rpc[t].step = "removePolicy" /\ rpc'[t].object = rpc[t].object
        BY <1>0, <1>2, <3>3, GiveUpIs
      <3>4. ASSUME NEW s \in Slots, NEW op \in Ops, NEW o \in Buckets \cup Accesses, NEW name \in Names,
                   NEW step \in Steps, Ask(s, op, o, name, step)
            PROVE  rpc'[t] = rpc[t] \/ step = "removePolicy"
        BY <1>0, <1>2, <3>4, AskIs
      <3>5. ASSUME NEW s \in Slots, \/ \E b \in Buckets : AskCreate(s, b) \/ AskDelete(s, b)
                                    \/ \E a \in Accesses : AskGrant(s, a) \/ AskRevoke(s, a)
            PROVE  rpc'[t] = rpc[t]
        <4>1. ASSUME NEW op, NEW o, NEW name, NEW step, step # "removePolicy", Ask(s, op, o, name, step)
              PROVE  rpc'[t] = rpc[t]
          <5>1. rpc' = [rpc EXCEPT ![s] = [op |-> op, object |-> o, name |-> name, step |-> step,
                                           cancelled |-> FALSE]]
            BY <4>1 DEF Ask
          <5> QED  BY <1>0, <1>2, <4>1, <5>1 DEF Requests, ObjectTypes
        <4>2. CASE \E b \in Buckets : AskCreate(s, b)  BY <4>1, <4>2 DEF AskCreate
        <4>3. CASE \E b \in Buckets : AskDelete(s, b)  BY <4>1, <4>3 DEF AskDelete
        <4>4. CASE \E a \in Accesses : AskGrant(s, a)  BY <4>1, <4>4 DEF AskGrant
        <4>5. CASE \E a \in Accesses : AskRevoke(s, a)  BY <4>1, <4>5 DEF AskRevoke
        <4> QED  BY <3>5, <4>2, <4>3, <4>4, <4>5
      <3>6. ASSUME NEW o \in Buckets \cup Accesses, Want(o) \/ Doom(o)  PROVE rpc'[t] = rpc[t]
        BY <1>0, <3>6, WantDoomIs
      <3> QED  BY <3>1, <3>2, <3>3, <3>5, <3>6 DEF Next, vars
    <2> QED  BY <2>1, <2>2, <2>3
  <1> QED  BY <1>1, <1>2

(* When a BucketAccess is gone so are its user and its policy, whatever    *)
(* failed, unless a revocation failed, which is only logged, or a request  *)
(* was given up.                                                           *)
THEOREM NoOrphanGrants == DistinctGrants /\ DerivedKeys => (Spec => []NoOrphanGrant)
  <1> SUFFICES ASSUME DistinctGrants, DerivedKeys PROVE Spec => []NoOrphanGrant  OBVIOUS
  <1> DEFINE I == BInv /\ AllAwaited /\ OwnPolicies /\ GrantsCleaned
  <1>1. Init => I
    <2> SUFFICES ASSUME Init PROVE I  OBVIOUS
    <2>1. OwnPolicies  BY DEF Init, OwnPolicies, PolicyId
    <2> QED  BY <2>1, BInit DEF Init, AllAwaited, GrantsCleaned
  <1>2. I /\ [Next]_vars => I'  BY BStep, AwaitedStep, OwnPoliciesStep, GrantsCleanedStep
  <1>3. I => NoOrphanGrant
    BY DEF OwnPolicies, GrantsCleaned, NoOrphanGrant, PolicyOf
  <1> HIDE DEF I
  <1> QED  BY <1>1, <1>2, <1>3, PTL DEF Spec
=============================================================================
