--------------------------- MODULE ResolverProofs ---------------------------
(***************************************************************************)
(* That the resolver's caches are safe to share, for any number of         *)
(* workers, classes, objects and versions.                                 *)
(***************************************************************************)
EXTENDS ProviderResolver, TLAPS

(* Every entry is what its key and its versions say.                       *)
CacheSound ==
    \A k \in CacheKeys : cache[k] # None =>
        cache[k].client = [secret |-> k.secret, ver |-> cache[k].rv[1],
                           policy |-> k.policy, docVer |-> cache[k].rv[2]]

(* Versions are handed out in order, and the informers are behind.         *)
Ordered ==
    \A o \in Objects :
        /\ objects[o] # None => objects[o].ver \in 1..clock
        /\ seen[o] # None => seen[o].ver \in 1..clock
        /\ objects[o] # None /\ seen[o] # None => seen[o].ver <= objects[o].ver

(* Whatever may still be read of o is of version v or later.               *)
NotBelow(o, v) ==
    /\ v <= clock
    /\ objects[o] # None => objects[o].ver >= v
    /\ seen[o] # None => seen[o].ver >= v

(* What a call has read, or will read, is not older than what it could     *)
(* have read at its start.                                                 *)
SecretKept(w) ==
    /\ pc[w] # "idle" => SecretRef(class[w]) \in Objects /\ Kind(class[w]) # "unsupported"
    /\ pc[w] = "readSecret" => NotBelow(SecretRef(class[w]), floor[w].secret)
    /\ pc[w] \in {"readPolicy", "lookup"} => cred[w] > 0 /\ cred[w] >= floor[w].secret

DocKept(w) ==
    /\ PolicyRef(class[w]) \notin PolicyRefs /\ pc[w] # "idle" => floor[w].doc = 0
    /\ PolicyRef(class[w]) \in PolicyRefs /\ pc[w] \in {"readSecret", "readPolicy"} =>
          NotBelow(PolicyRef(class[w]).object, floor[w].doc)
    /\ pc[w] = "lookup" => PolicyRef(class[w]) # Incomplete /\ doc[w] >= floor[w].doc

AnswerKept(w) ==
    Answered(w) =>
        /\ Kind(class[w]) # "unsupported"
        /\ (answer[w].secret \in Objects /\ answer[w].ver > 0)
           \/ (Kind(class[w]) = "MinIO" /\ SecretRef(class[w]) = None)
        /\ answer[w].secret = SecretRef(class[w]) /\ answer[w].ver >= floor[w].secret
        /\ PolicyRef(class[w]) # Incomplete
        /\ answer[w].policy = PolicyRef(class[w]) /\ answer[w].docVer >= floor[w].doc

CallsKept == \A w \in Workers : SecretKept(w) /\ DocKept(w) /\ AnswerKept(w)

IInv == TypeOK /\ CacheSound /\ Ordered /\ CallsKept
-----------------------------------------------------------------------------
(* What a class refers to, and the key of its entry.                       *)
LEMMA Refs ==
    ASSUME NEW k \in Classes
    PROVE  /\ SecretRef(k) \in SecretRefs
           /\ PolicyRef(k) \in PolicyRefs \cup {None, Incomplete}
           /\ PolicyRef(k) \in PolicyRefs => PolicyRef(k).object \in Objects
           /\ CacheKey(k) \in CacheKeys
           /\ CacheKey(k).secret = SecretRef(k) /\ CacheKey(k).policy = PolicyRef(k)
<1>1. k \in ClassType
  BY ResolverAssumption
<1>2. SecretRef(k) \in SecretRefs
  BY <1>1 DEF ClassType, SecretRef
<1>3. PolicyRef(k) \in PolicyRefs \cup {None, Incomplete}
  BY <1>1 DEF ClassType, PolicyRef
<1>4. PolicyRef(k) \in PolicyRefs => PolicyRef(k).object \in Objects
  BY DEF PolicyRefs
<1>5. CacheKey(k) \in CacheKeys
  BY DEF CacheKeys
<1>6. CacheKey(k).secret = SecretRef(k) /\ CacheKey(k).policy = PolicyRef(k)
  BY DEF CacheKey
<1> QED BY <1>2, <1>3, <1>4, <1>5, <1>6

(* What an informer holds at the start of a call is a floor for it.        *)
LEMMA Floors ==
    ASSUME IInv, NEW k \in Classes
    PROVE  /\ FloorOf(k) \in Floor
           /\ SecretRef(k) \in Objects => NotBelow(SecretRef(k), FloorOf(k).secret)
           /\ PolicyRef(k) \in PolicyRefs => NotBelow(PolicyRef(k).object, FloorOf(k).doc)
           /\ PolicyRef(k) \notin PolicyRefs => FloorOf(k).doc = 0
           /\ SecretRef(k) \notin Objects => FloorOf(k).secret = 0
<1>1. ASSUME NEW o PROVE /\ VersionOf(o) \in Version
                         /\ o \in Objects => NotBelow(o, VersionOf(o))
                         /\ o \notin Objects => VersionOf(o) = 0
  BY ResolverAssumption DEF IInv, TypeOK, Ordered, VersionOf, NotBelow, Version, Stored
<1>2. 0 \in Version
  BY ResolverAssumption DEF Version
<1>3. PolicyRef(k) \in PolicyRefs => PolicyRef(k).object \in Objects
  BY Refs
<1> HIDE DEF VersionOf, NotBelow
<1> QED BY <1>1, <1>2, <1>3 DEF FloorOf, Floor

(* The invariant holds when nothing has been called or created.            *)
LEMMA InitIInv == Init => IInv
<1> SUFFICES ASSUME Init PROVE IInv
  OBVIOUS
<1>1. 0 \in Version
  BY ResolverAssumption DEF Version
<1>2. TypeOK
  BY <1>1, ResolverAssumption DEF Init, TypeOK, Steps, Floor
<1>3. CacheSound /\ Ordered
  BY DEF Init, CacheSound, Ordered
<1>4. CallsKept
  BY DEF Init, CallsKept, SecretKept, DocKept, AnswerKept, Answered
<1> QED BY <1>2, <1>3, <1>4 DEF IInv

(* The calls in progress do not mind changes that keep their floors.       *)
LEMMA CallsUndisturbed ==
    ASSUME IInv, UNCHANGED callVars,
           \A x \in Objects, v \in Version : NotBelow(x, v) => NotBelow(x, v)'
    PROVE  CallsKept'
<1> SUFFICES ASSUME NEW w \in Workers PROVE SecretKept(w)' /\ DocKept(w)' /\ AnswerKept(w)'
  BY DEF CallsKept
<1>1. SecretKept(w) /\ DocKept(w) /\ AnswerKept(w)
  BY DEF IInv, CallsKept
<1>2. class[w] \in Classes /\ floor[w].secret \in Version /\ floor[w].doc \in Version
  BY DEF IInv, TypeOK, Floor
<1>3. SecretKept(w)'
  BY <1>1, <1>2 DEF SecretKept, callVars
<1>4. DocKept(w)'
  BY <1>1, <1>2, Refs DEF DocKept, callVars
<1>5. AnswerKept(w)'
  BY <1>1 DEF AnswerKept, Answered, callVars
<1> QED BY <1>3, <1>4, <1>5

(* A write gives an object a version above every floor.                    *)
LEMMA WriteStep ==
    ASSUME IInv, NEW o \in Objects, NEW ok \in BOOLEAN, WriteObject(o, ok)
    PROVE  IInv'
<1> USE DEF WriteObject, callVars
<1>1. clock + 1 \in Version /\ clock \in Nat
  BY ResolverAssumption DEF IInv, TypeOK, Version
<1>2. TypeOK'
  BY <1>1, ResolverAssumption DEF IInv, TypeOK, Stored
<1>3. CacheSound'
  BY DEF IInv, CacheSound
<1>4. Ordered'
  BY <1>1 DEF IInv, TypeOK, Ordered, Stored, Version
<1>5. ASSUME NEW x \in Objects, NEW v \in Version, NotBelow(x, v)
      PROVE  NotBelow(x, v)'
  BY <1>1, <1>5 DEF IInv, TypeOK, NotBelow, Version
<1>6. CallsKept'
  BY <1>5, CallsUndisturbed DEF callVars
<1> QED BY <1>2, <1>3, <1>4, <1>6 DEF IInv

LEMMA DeleteStep ==
    ASSUME IInv, NEW o \in Objects, DeleteObject(o)
    PROVE  IInv'
<1> USE DEF DeleteObject, callVars
<1>1. TypeOK'
  BY DEF IInv, TypeOK
<1>2. CacheSound' /\ Ordered'
  BY DEF IInv, TypeOK, CacheSound, Ordered
<1>3. ASSUME NEW x \in Objects, NEW v \in Version, NotBelow(x, v)
      PROVE  NotBelow(x, v)'
  BY <1>3 DEF IInv, TypeOK, NotBelow
<1>4. CallsKept'
  BY <1>3, CallsUndisturbed
<1> QED BY <1>1, <1>2, <1>4 DEF IInv

(* An informer only moves forward.                                         *)
LEMMA SyncStep ==
    ASSUME IInv, NEW o \in Objects, Sync(o)
    PROVE  IInv'
<1> USE DEF Sync, callVars
<1>1. TypeOK'
  BY DEF IInv, TypeOK
<1>2. CacheSound'
  BY DEF IInv, CacheSound
<1>3. Ordered'
  BY DEF IInv, TypeOK, Ordered, Stored, Version
<1>4. ASSUME NEW x \in Objects, NEW v \in Version, NotBelow(x, v)
      PROVE  NotBelow(x, v)'
  BY <1>4 DEF IInv, TypeOK, NotBelow
<1>5. CallsKept'
  BY <1>4, CallsUndisturbed
<1> QED BY <1>1, <1>2, <1>3, <1>5 DEF IInv

(* A step of one call leaves the others alone.                             *)
LEMMA OtherCalls ==
    ASSUME IInv, NEW w \in Workers, NEW x \in Workers, x # w,
           UNCHANGED objectVars,
           pc'[x] = pc[x], class'[x] = class[x], cred'[x] = cred[x], doc'[x] = doc[x],
           floor'[x] = floor[x], answer'[x] = answer[x]
    PROVE  SecretKept(x)' /\ DocKept(x)' /\ AnswerKept(x)'
<1>1. SecretKept(x) /\ DocKept(x) /\ AnswerKept(x)
  BY DEF IInv, CallsKept
<1>2. ASSUME NEW o, NEW v PROVE NotBelow(o, v)' <=> NotBelow(o, v)
  BY DEF NotBelow, objectVars
<1>3. SecretKept(x)'
  BY <1>1, <1>2 DEF SecretKept
<1>4. DocKept(x)'
  BY <1>1, <1>2 DEF DocKept
<1>5. AnswerKept(x)'
  BY <1>1 DEF AnswerKept, Answered
<1> QED BY <1>3, <1>4, <1>5

LEMMA CallStep ==
    ASSUME IInv, NEW w \in Workers, NEW k \in Classes, Call(w, k)
    PROVE  IInv'
<1>1. /\ UNCHANGED <<clock, objects, seen, cache>>
      /\ pc' \in [Workers -> Steps] /\ class' = [class EXCEPT ![w] = k]
      /\ cred' \in [Workers -> Version] /\ doc' \in [Workers -> Version]
      /\ floor' = [floor EXCEPT ![w] = FloorOf(k)]
      /\ answer' \in [Workers -> Client \cup {None, Failed}]
      /\ \A x \in Workers \ {w} : /\ pc'[x] = pc[x] /\ answer'[x] = answer[x]
                                    /\ cred'[x] = cred[x] /\ doc'[x] = doc[x]
  <2>1. 0 \in Version
    BY ResolverAssumption DEF Version
  <2>2. DefaultMinio \in Client
    BY <2>1 DEF DefaultMinio, Client
  <2> QED BY <2>1, <2>2 DEF IInv, TypeOK, Call, Return, Goto, Steps, objectVars
<1>2. \/ pc'[w] = "idle" /\ answer'[w] = Failed
      \/ /\ pc'[w] = "idle" /\ answer'[w] = DefaultMinio
         /\ Kind(k) = "MinIO" /\ SecretRef(k) = None
      \/ /\ pc'[w] = "readSecret" /\ answer'[w] = None
         /\ Kind(k) # "unsupported" /\ SecretRef(k) \in Objects
  BY DEF IInv, TypeOK, Call, Return, Goto
<1>3. class'[w] = k /\ floor'[w] = FloorOf(k)
  BY <1>1 DEF IInv, TypeOK
<1>4. /\ FloorOf(k) \in Floor
      /\ SecretRef(k) \in Objects => NotBelow(SecretRef(k), FloorOf(k).secret)
      /\ PolicyRef(k) \in PolicyRefs => NotBelow(PolicyRef(k).object, FloorOf(k).doc)
      /\ PolicyRef(k) \notin PolicyRefs => FloorOf(k).doc = 0
      /\ SecretRef(k) \notin Objects => FloorOf(k).secret = 0
  BY Floors
<1>5. TypeOK'
  BY <1>1, <1>2, <1>4 DEF IInv, TypeOK
<1>6. CacheSound' /\ Ordered'
  BY <1>1 DEF IInv, CacheSound, Ordered
<1>7. ASSUME NEW o, NEW v PROVE NotBelow(o, v)' <=> NotBelow(o, v)
  BY <1>1 DEF NotBelow
<1>8. SecretKept(w)'
  BY <1>2, <1>3, <1>4, <1>7 DEF SecretKept
<1>9. DocKept(w)'
  BY <1>2, <1>3, <1>4, <1>7 DEF DocKept
<1>10. AnswerKept(w)'
  <2>1. Kind(k) = "MinIO" => PolicyRef(k) = None
    BY DEF PolicyRef
  <2>2. None \notin PolicyRefs /\ None \notin Objects /\ None # Incomplete
    BY ResolverAssumption
  <2> QED BY <1>2, <1>3, <1>4, <2>1, <2>2 DEF AnswerKept, Answered, DefaultMinio
<1>11. CallsKept'
  <2> SUFFICES ASSUME NEW x \in Workers PROVE SecretKept(x)' /\ DocKept(x)' /\ AnswerKept(x)'
    BY DEF CallsKept
  <2>1. CASE x = w
    BY <2>1, <1>8, <1>9, <1>10
  <2>2. CASE x # w
    BY <2>2, <1>1, OtherCalls DEF IInv, TypeOK, objectVars
  <2> QED BY <2>1, <2>2
<1> QED BY <1>5, <1>6, <1>11 DEF IInv

LEMMA ReadSecretStep ==
    ASSUME IInv, NEW w \in Workers, ReadSecret(w)
    PROVE  IInv'
<1> DEFINE o == SecretRef(class[w])
<1>1. o \in Objects /\ NotBelow(o, floor[w].secret) /\ Kind(class[w]) # "unsupported"
  BY DEF IInv, CallsKept, SecretKept, ReadSecret
<1>2. seen[o] # None => seen[o].ver \in Version /\ seen[o].ver > 0
  BY <1>1 DEF IInv, TypeOK, Ordered, Stored, Version
<1> HIDE DEF o
<1>3. /\ UNCHANGED <<clock, objects, seen, cache, class, floor>>
      /\ pc' \in [Workers -> Steps]
      /\ cred' \in [Workers -> Version] /\ doc' \in [Workers -> Version]
      /\ answer' \in [Workers -> Client \cup {None, Failed}]
      /\ \A x \in Workers \ {w} : /\ pc'[x] = pc[x] /\ answer'[x] = answer[x]
                                    /\ cred'[x] = cred[x] /\ doc'[x] = doc[x]
  <2>1. 0 \in Version
    BY ResolverAssumption DEF Version
  <2> QED BY <1>1, <1>2, <2>1
          DEF IInv, TypeOK, ReadSecret, Return, Goto, Steps, objectVars, Readable, o
<1>4. \/ pc'[w] = "idle" /\ answer'[w] = Failed
      \/ pc'[w] = "readPolicy" /\ seen[o] # None /\ cred'[w] = seen[o].ver
  BY DEF IInv, TypeOK, ReadSecret, Return, Goto, Readable, o
<1>5. TypeOK'
  BY <1>3, <1>4 DEF IInv, TypeOK
<1>6. CacheSound' /\ Ordered'
  BY <1>3 DEF IInv, CacheSound, Ordered
<1>7. ASSUME NEW p, NEW v PROVE NotBelow(p, v)' <=> NotBelow(p, v)
  BY <1>3 DEF NotBelow
<1>8. SecretKept(w)'
  BY <1>1, <1>2, <1>3, <1>4 DEF SecretKept, NotBelow, o
<1>9. DocKept(w)'
  BY <1>3, <1>4, <1>7 DEF DocKept, IInv, CallsKept, ReadSecret
<1>10. AnswerKept(w)'
  BY <1>4 DEF AnswerKept, Answered
<1>11. CallsKept'
  <2> SUFFICES ASSUME NEW x \in Workers PROVE SecretKept(x)' /\ DocKept(x)' /\ AnswerKept(x)'
    BY DEF CallsKept
  <2>1. CASE x = w
    BY <2>1, <1>8, <1>9, <1>10
  <2>2. CASE x # w
    BY <2>2, <1>3, OtherCalls DEF objectVars
  <2> QED BY <2>1, <2>2
<1> QED BY <1>5, <1>6, <1>11 DEF IInv

LEMMA ReadPolicyStep ==
    ASSUME IInv, NEW w \in Workers, ReadPolicy(w)
    PROVE  IInv'
<1> DEFINE p == PolicyRef(class[w])
<1>1. class[w] \in Classes /\ pc[w] = "readPolicy"
  BY DEF IInv, TypeOK, ReadPolicy
<1>2. p \in PolicyRefs \cup {None, Incomplete} /\ (p \in PolicyRefs => p.object \in Objects)
  BY <1>1, Refs
<1>3. /\ p \in PolicyRefs => NotBelow(p.object, floor[w].doc)
      /\ p \notin PolicyRefs => floor[w].doc = 0
      /\ cred[w] >= floor[w].secret
      /\ SecretRef(class[w]) \in Objects /\ Kind(class[w]) # "unsupported"
  BY <1>1 DEF IInv, CallsKept, DocKept, SecretKept
<1>4. p \in PolicyRefs /\ seen[p.object] # None =>
        seen[p.object].ver \in Version /\ seen[p.object].ver > 0
  BY <1>2 DEF IInv, TypeOK, Ordered, Stored, Version
<1>5. None \notin PolicyRefs /\ Incomplete \notin PolicyRefs /\ None # Incomplete
  BY ResolverAssumption
<1> HIDE DEF p
<1>6. /\ UNCHANGED <<clock, objects, seen, cache, class, floor>>
      /\ pc' \in [Workers -> Steps]
      /\ cred' \in [Workers -> Version] /\ doc' \in [Workers -> Version]
      /\ answer' \in [Workers -> Client \cup {None, Failed}]
      /\ \A x \in Workers \ {w} : /\ pc'[x] = pc[x] /\ answer'[x] = answer[x]
                                    /\ cred'[x] = cred[x] /\ doc'[x] = doc[x]
  <2>1. 0 \in Version
    BY ResolverAssumption DEF Version
  <2> QED BY <1>2, <1>4, <2>1
          DEF IInv, TypeOK, ReadPolicy, Return, Goto, Steps, objectVars, Readable, p
<1>7. \/ pc'[w] = "idle" /\ answer'[w] = Failed
      \/ pc'[w] = "lookup" /\ p = None /\ cred'[w] = cred[w] /\ doc'[w] = doc[w]
      \/ /\ pc'[w] = "lookup" /\ p \in PolicyRefs /\ seen[p.object] # None
         /\ cred'[w] = cred[w] /\ doc'[w] = seen[p.object].ver
  BY DEF IInv, TypeOK, ReadPolicy, Return, Goto, Readable, NoDocument, p
<1>8. cred[w] > 0
  BY <1>1 DEF IInv, CallsKept, SecretKept
<1>9. TypeOK'
  BY <1>3, <1>4, <1>6, <1>7, <1>8 DEF IInv, TypeOK, p
<1>10. CacheSound' /\ Ordered'
  BY <1>6 DEF IInv, CacheSound, Ordered
<1>11. SecretKept(w)'
  BY <1>3, <1>6, <1>7, <1>8 DEF SecretKept
<1>12. DocKept(w)'
  <2>1. doc[w] \in Nat
    BY DEF IInv, TypeOK, Version
  <2> QED BY <2>1, <1>3, <1>5, <1>6, <1>7 DEF DocKept, NotBelow, p
<1>13. AnswerKept(w)'
  BY <1>7 DEF AnswerKept, Answered
<1>14. CallsKept'
  <2> SUFFICES ASSUME NEW x \in Workers PROVE SecretKept(x)' /\ DocKept(x)' /\ AnswerKept(x)'
    BY DEF CallsKept
  <2>1. CASE x = w
    BY <2>1, <1>11, <1>12, <1>13
  <2>2. CASE x # w
    BY <2>2, <1>6, OtherCalls DEF objectVars
  <2> QED BY <2>1, <2>2
<1> QED BY <1>9, <1>10, <1>14 DEF IInv

(* Whether the entry is taken or made anew, the client is what the call    *)
(* itself has read.                                                        *)
LEMMA LookupStep ==
    ASSUME IInv, NEW w \in Workers, Lookup(w)
    PROVE  IInv'
<1> DEFINE key == CacheKey(class[w])
<1>1. /\ pc[w] = "lookup" /\ class[w] \in Classes
      /\ cred[w] \in Version /\ doc[w] \in Version
  BY DEF IInv, TypeOK, Lookup
<1>2. /\ key \in CacheKeys /\ key.secret = SecretRef(class[w]) /\ key.policy = PolicyRef(class[w])
      /\ PolicyRef(class[w]) \in PolicyRefs \cup {None, Incomplete}
  BY <1>1, Refs
<1>3. /\ SecretRef(class[w]) \in Objects /\ Kind(class[w]) # "unsupported"
      /\ PolicyRef(class[w]) # Incomplete
      /\ cred[w] > 0 /\ cred[w] >= floor[w].secret /\ doc[w] >= floor[w].doc
  BY <1>1 DEF IInv, TypeOK, CallsKept, SecretKept, DocKept
<1>4. NewClient(w) \in Client
  BY <1>1, <1>2, <1>3 DEF NewClient, Client
<1>5. Hit(cache[key], <<cred[w], doc[w]>>) => cache[key].client = NewClient(w)
  BY <1>1, <1>2 DEF IInv, CacheSound, Hit, NewClient
<1> HIDE DEF key
<1>6. /\ UNCHANGED <<clock, objects, seen, class, floor>>
      /\ pc' = [pc EXCEPT ![w] = "idle"]
      /\ cred' \in [Workers -> Version] /\ doc' \in [Workers -> Version]
      /\ answer' \in [Workers -> Client \cup {None, Failed}]
      /\ answer'[w] \in {NewClient(w), Failed}
      /\ \A x \in Workers \ {w} : /\ pc'[x] = pc[x] /\ answer'[x] = answer[x]
                                    /\ cred'[x] = cred[x] /\ doc'[x] = doc[x]
      /\ \/ cache' = cache
         \/ cache' = [cache EXCEPT ![key] = [rv |-> <<cred[w], doc[w]>>, client |-> NewClient(w)]]
  <2>1. 0 \in Version
    BY ResolverAssumption DEF Version
  <2>2. /\ UNCHANGED <<clock, objects, seen, class, floor>>
        /\ pc' = [pc EXCEPT ![w] = "idle"]
        /\ cred' = [cred EXCEPT ![w] = 0] /\ doc' = [doc EXCEPT ![w] = 0]
    BY DEF Lookup, Return, Goto, objectVars
  <2>3. \/ answer' = [answer EXCEPT ![w] = NewClient(w)] \/ answer' = [answer EXCEPT ![w] = Failed]
    BY <1>5 DEF Lookup, Return, key
  <2>4. \/ cache' = cache
        \/ cache' = [cache EXCEPT ![key] = [rv |-> <<cred[w], doc[w]>>, client |-> NewClient(w)]]
    BY DEF Lookup, key
  <2> HIDE DEF NewClient
  <2> QED BY <1>4, <2>1, <2>2, <2>3, <2>4 DEF IInv, TypeOK
<1>7. pc' \in [Workers -> Steps] /\ pc'[w] = "idle"
  BY <1>6 DEF IInv, TypeOK, Steps
<1>8. cache' \in [CacheKeys -> Entry \cup {None}]
  <2>1. [rv |-> <<cred[w], doc[w]>>, client |-> NewClient(w)] \in Entry
    BY <1>1, <1>4 DEF Entry
  <2> QED BY <2>1, <1>2, <1>6 DEF IInv, TypeOK
<1>9. TypeOK'
  BY <1>6, <1>7, <1>8 DEF IInv, TypeOK
<1>10. Ordered'
  BY <1>6 DEF IInv, Ordered
<1>11. CacheSound'
  <2> SUFFICES ASSUME NEW k \in CacheKeys, cache'[k] # None
               PROVE  cache'[k].client = [secret |-> k.secret, ver |-> cache'[k].rv[1],
                                          policy |-> k.policy, docVer |-> cache'[k].rv[2]]
    BY DEF CacheSound
  <2>1. CASE cache'[k] = cache[k]
    BY <2>1 DEF IInv, CacheSound
  <2>2. CASE k = key /\ cache'[k] = [rv |-> <<cred[w], doc[w]>>, client |-> NewClient(w)]
    BY <2>2, <1>2 DEF NewClient
  <2>3. cache'[k] = cache[k] \/ (k = key /\ cache'[k] = [rv |-> <<cred[w], doc[w]>>, client |-> NewClient(w)])
    BY <1>2, <1>6 DEF IInv, TypeOK
  <2> QED BY <2>1, <2>2, <2>3
<1>12. SecretKept(w)' /\ DocKept(w)'
  BY <1>7 DEF SecretKept, DocKept
<1>13. AnswerKept(w)'
  BY <1>3, <1>6 DEF AnswerKept, Answered, NewClient
<1>14. CallsKept'
  <2> SUFFICES ASSUME NEW x \in Workers PROVE SecretKept(x)' /\ DocKept(x)' /\ AnswerKept(x)'
    BY DEF CallsKept
  <2>1. CASE x = w
    BY <2>1, <1>12, <1>13
  <2>2. CASE x # w
    BY <2>2, <1>6, OtherCalls DEF objectVars
  <2> QED BY <2>1, <2>2
<1> QED BY <1>9, <1>10, <1>11, <1>14 DEF IInv
-----------------------------------------------------------------------------
(* The invariant is inductive.                                             *)
THEOREM ResolverInvariance == Spec => []IInv
<1>1. Init => IInv
  BY InitIInv
<1>2. IInv /\ [Next]_vars => IInv'
  <2> SUFFICES ASSUME IInv, [Next]_vars PROVE IInv'
    OBVIOUS
  <2>1. CASE UNCHANGED vars
    BY <2>1 DEF vars, objectVars, callVars, IInv, TypeOK, CacheSound, Ordered, CallsKept,
                SecretKept, DocKept, AnswerKept, Answered, NotBelow
  <2>2. CASE Next
    BY <2>2, CallStep, ReadSecretStep, ReadPolicyStep, LookupStep, WriteStep, DeleteStep, SyncStep
       DEF Next
  <2> QED BY <2>1, <2>2
<1> QED BY <1>1, <1>2, PTL DEF Spec

(* The resolver's state keeps its type, and a call that needs a policy     *)
(* document looks for a client only when it has one.                       *)
THEOREM ResolverTypeCorrect == Spec => []TypeOK
<1>1. IInv => TypeOK
  BY DEF IInv
<1> QED BY <1>1, ResolverInvariance, PTL

(* Sharing the caches between workers and classes never hands a worker a   *)
(* client of another class.                                                *)
THEOREM ResolverGivesItsOwn == Spec => []ClientOfItsClass
<1>1. IInv => ClientOfItsClass
  BY DEF IInv, CallsKept, AnswerKept, ClientOfItsClass
<1> QED BY <1>1, ResolverInvariance, PTL

(* No interleaving of calls with rotations of the Secret or the document   *)
(* hands out a client older than what its caller could have read.          *)
THEOREM ResolverNeverStale == Spec => []NeverStale
<1>1. IInv => NeverStale
  BY DEF IInv, CallsKept, AnswerKept, NeverStale
<1> QED BY <1>1, ResolverInvariance, PTL

(* A class that is not in order never gets a client, and only a class that *)
(* leaves the choice to the operator gets the default one.                 *)
THEOREM ResolverNoStandIn == Spec => []NoStandIn
<1>1. IInv => NoStandIn
  <2> SUFFICES ASSUME IInv, NEW w \in Workers, Answered(w)
               PROVE  LET k == class[w]
                      IN  /\ k.backend # "other"
                          /\ k.backend = "aws" => k.policy # Incomplete
                          /\ \/ answer[w].secret \in Objects /\ answer[w].ver > 0
                             \/ k.backend # "aws" /\ k.minioRef = None
    BY DEF NoStandIn
  <2>1. AnswerKept(w) /\ class[w] \in ClassType
    BY ResolverAssumption DEF IInv, CallsKept, TypeOK
  <2> QED BY <2>1 DEF AnswerKept, Kind, SecretRef, PolicyRef, ClassType
<1> QED BY <1>1, ResolverInvariance, PTL
=============================================================================
