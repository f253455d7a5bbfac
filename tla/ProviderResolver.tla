-------------------------- MODULE ProviderResolver --------------------------
(***************************************************************************)
(* ProviderForClass, called by the workers of both controllers at once.    *)
(* It reads the credentials Secret and, for AWS, a policy document from    *)
(* informer caches, without a lock, and then takes a client from a map     *)
(* guarded by a mutex, where clients are kept under the names of what they *)
(* were made from, with the resource versions they were made from.  Every  *)
(* object has versions of its own, which only grow.                        *)
(*                                                                         *)
(* A client is what it was made from: the Secret, the document, and the    *)
(* version of each.                                                        *)
(***************************************************************************)
EXTENDS Integers

CONSTANTS
    Workers,      \* the controllers' workers
    Objects,      \* namespaced names of Secrets and ConfigMaps
    Fields,       \* keys of the data of a policy object
    Classes,      \* the BucketClasses a worker may call with, as records
    None,         \* an absent reference, object, entry or answer
    Incomplete,   \* a reference that lacks a namespace or key, or is of no known kind
    Failed,       \* an error answer
    MaxVersion    \* bound: resource versions handed out

PolicyRefs == [object : Objects, field : Fields]
SecretRefs == Objects \cup {None, Incomplete}

(* backend is trimmed and in lower case.                                   *)
ClassType == [backend  : {"", "minio", "aws", "other"},
              minioRef : SecretRefs,
              awsRef   : SecretRefs,
              policy   : PolicyRefs \cup {None, Incomplete}]

ASSUME ResolverAssumption ==
    /\ Classes \subseteq ClassType
    /\ MaxVersion \in Nat
    /\ None # Incomplete /\ None # Failed
    /\ None \notin Objects /\ Incomplete \notin Objects
    /\ None \notin PolicyRefs /\ Incomplete \notin PolicyRefs

VARIABLES
    clock,     \* resource versions handed out so far
    objects,   \* API server: [Objects -> Stored or None]
    seen,      \* the informer caches' copies
    cache,     \* r.cache and r.awsCache: [CacheKeys -> Entry or None]
    pc,        \* each worker's next step
    class,     \* the class it called with
    cred,      \* the version of the Secret it has read
    doc,       \* the version of the policy document it has read
    floor,     \* history: what the informer caches held when it called
    answer     \* the client it was given last, Failed, or None

objectVars == <<clock, objects, seen>>
callVars   == <<pc, class, cred, doc, floor, answer>>
vars == <<objectVars, cache, callVars>>

Version == 0..MaxVersion

(* An object parses as a configuration or a policy, or does not.           *)
Stored == [ver : Version, ok : BOOLEAN]
Client == [secret : Objects \cup {None}, ver : Version,
           policy : PolicyRefs \cup {None}, docVer : Version]
Entry  == [rv : Version \X Version, client : Client]
Steps  == {"idle", "readSecret", "readPolicy", "lookup"}

(* Versions of what a class refers to, for the history.                    *)
Floor == [secret : Version, doc : Version]

DefaultMinio == [secret |-> None, ver |-> 0, policy |-> None, docVer |-> 0]
-----------------------------------------------------------------------------
(* KindForBucketClass, and what a class refers to.                         *)

(* A plausible slip: everything but AWS is taken for MinIO.                *)
KindOrMinio(k) == IF k.backend = "aws" THEN "AWS" ELSE "MinIO"

Kind(k) == CASE k.backend \in {"", "minio"} -> "MinIO"
             [] k.backend = "aws"           -> "AWS"
             [] OTHER                       -> "unsupported"

SecretRef(k) == IF Kind(k) = "AWS" THEN k.awsRef ELSE k.minioRef
PolicyRef(k) == IF Kind(k) = "AWS" THEN k.policy ELSE None

(* A plausible slip: the key of the AWS cache has the policy object but    *)
(* not the field of it.                                                    *)
CacheKeyWithoutField(k) ==
    [kind |-> Kind(k), secret |-> SecretRef(k),
     policy |-> IF PolicyRef(k) \in PolicyRefs THEN PolicyRef(k).object ELSE PolicyRef(k)]

(* MinIO and AWS have a map each.                                          *)
CacheKey(k) == [kind |-> Kind(k), secret |-> SecretRef(k), policy |-> PolicyRef(k)]

CacheKeys == {CacheKey(k) : k \in Classes}

VersionOf(o) == IF o \in Objects /\ seen[o] # None THEN seen[o].ver ELSE 0

FloorOf(k) ==
    [secret |-> VersionOf(SecretRef(k)),
     doc    |-> IF PolicyRef(k) \in PolicyRefs THEN VersionOf(PolicyRef(k).object) ELSE 0]
-----------------------------------------------------------------------------
Init ==
    /\ clock = 0
    /\ objects = [o \in Objects |-> None] /\ seen = objects
    /\ cache = [k \in CacheKeys |-> None]
    /\ pc = [w \in Workers |-> "idle"] /\ class \in [Workers -> Classes]
    /\ cred = [w \in Workers |-> 0] /\ doc = [w \in Workers |-> 0]
    /\ floor = [w \in Workers |-> [secret |-> 0, doc |-> 0]]
    /\ answer = [w \in Workers |-> None]

Goto(w, step) == pc' = [pc EXCEPT ![w] = step]

(* The call ends, and with it what it has read.                            *)
Return(w, a) ==
    /\ Goto(w, "idle") /\ answer' = [answer EXCEPT ![w] = a]
    /\ cred' = [cred EXCEPT ![w] = 0] /\ doc' = [doc EXCEPT ![w] = 0]

(* ProviderForClass: answers that need no Secret, or the first read.       *)
Call(w, k) ==
    /\ pc[w] = "idle"
    /\ class' = [class EXCEPT ![w] = k]
    /\ floor' = [floor EXCEPT ![w] = FloorOf(k)]
    /\ \/ Kind(k) = "unsupported" /\ Return(w, Failed)
       \/ Kind(k) = "MinIO" /\ SecretRef(k) = None /\ Return(w, DefaultMinio)
       \/ Kind(k) = "AWS" /\ SecretRef(k) = None /\ Return(w, Failed)
       \/ Kind(k) # "unsupported" /\ SecretRef(k) = Incomplete /\ Return(w, Failed)
       \/ /\ Kind(k) # "unsupported" /\ SecretRef(k) \in Objects
          /\ Goto(w, "readSecret") /\ answer' = [answer EXCEPT ![w] = None]
          /\ UNCHANGED <<cred, doc>>
    /\ UNCHANGED <<objectVars, cache>>

Readable(o) == seen[o] # None /\ seen[o].ok

(* Client.Get and ConfigFromSecretData.                                    *)
ReadSecret(w) ==
    /\ pc[w] = "readSecret"
    /\ LET o == SecretRef(class[w])
       IN  \/ /\ Readable(o)
              /\ cred' = [cred EXCEPT ![w] = seen[o].ver]
              /\ Goto(w, "readPolicy") /\ UNCHANGED <<doc, answer>>
           \/ ~Readable(o) /\ Return(w, Failed)
    /\ UNCHANGED <<objectVars, cache, class, floor>>

(* A plausible slip: a document that cannot be read counts as none.        *)
NoDocumentLenient(p) == p = None \/ (p \in PolicyRefs /\ ~Readable(p.object))

NoDocument(p) == p = None

ReadPolicy(w) ==
    /\ pc[w] = "readPolicy"
    /\ LET p == PolicyRef(class[w])
       IN  \/ NoDocument(p) /\ Goto(w, "lookup") /\ UNCHANGED <<cred, doc, answer>>
           \/ /\ p \in PolicyRefs /\ Readable(p.object)
              /\ doc' = [doc EXCEPT ![w] = seen[p.object].ver]
              /\ Goto(w, "lookup") /\ UNCHANGED <<cred, answer>>
           \/ /\ p = Incomplete \/ (p \in PolicyRefs /\ ~Readable(p.object))
              /\ Return(w, Failed)
    /\ UNCHANGED <<objectVars, cache, class, floor>>

NewClient(w) ==
    [secret |-> SecretRef(class[w]), ver |-> cred[w],
     policy |-> PolicyRef(class[w]), docVer |-> doc[w]]

(* A plausible slip: an entry is used whatever it was made from.           *)
HitAnyVersion(e, rv) == e # None

Hit(e, rv) == e # None /\ e.rv = rv

(* Under the mutex: take the entry, or make a client and keep it.  Making  *)
(* one may fail.                                                           *)
Lookup(w) ==
    /\ pc[w] = "lookup"
    /\ LET k  == CacheKey(class[w])
           rv == <<cred[w], doc[w]>>
       IN  \/ Hit(cache[k], rv) /\ Return(w, cache[k].client) /\ UNCHANGED cache
           \/ /\ ~Hit(cache[k], rv)
              /\ cache' = [cache EXCEPT ![k] = [rv |-> rv, client |-> NewClient(w)]]
              /\ Return(w, NewClient(w))
           \/ ~Hit(cache[k], rv) /\ Return(w, Failed) /\ UNCHANGED cache
    /\ UNCHANGED <<objectVars, class, floor>>
-----------------------------------------------------------------------------
(* Administrators, and the informers.                                      *)

WriteObject(o, ok) ==
    /\ clock < MaxVersion
    /\ clock' = clock + 1
    /\ objects' = [objects EXCEPT ![o] = [ver |-> clock + 1, ok |-> ok]]
    /\ UNCHANGED <<seen, cache, callVars>>

DeleteObject(o) ==
    /\ objects[o] # None
    /\ objects' = [objects EXCEPT ![o] = None]
    /\ UNCHANGED <<clock, seen, cache, callVars>>

Sync(o) ==
    /\ seen[o] # objects[o]
    /\ seen' = [seen EXCEPT ![o] = objects[o]]
    /\ UNCHANGED <<clock, objects, cache, callVars>>

Next ==
    \/ \E w \in Workers :
          \/ \E k \in Classes : Call(w, k)
          \/ ReadSecret(w) \/ ReadPolicy(w) \/ Lookup(w)
    \/ \E o \in Objects :
          \/ \E ok \in BOOLEAN : WriteObject(o, ok)
          \/ DeleteObject(o) \/ Sync(o)

Spec == Init /\ [][Next]_vars
-----------------------------------------------------------------------------
(* Correctness.                                                            *)

TypeOK ==
    /\ clock \in Version
    /\ objects \in [Objects -> Stored \cup {None}]
    /\ seen \in [Objects -> Stored \cup {None}]
    /\ cache \in [CacheKeys -> Entry \cup {None}]
    /\ pc \in [Workers -> Steps] /\ class \in [Workers -> Classes]
    /\ cred \in [Workers -> Version] /\ doc \in [Workers -> Version]
    /\ floor \in [Workers -> Floor]
    /\ answer \in [Workers -> Client \cup {None, Failed}]
    /\ \A w \in Workers :
          pc[w] = "lookup" => cred[w] > 0 /\ (PolicyRef(class[w]) # None => doc[w] > 0)

Answered(w) == pc[w] = "idle" /\ answer[w] \notin {None, Failed}

(* The client a worker is given is made from the Secret and the document   *)
(* its own class names, whatever classes share them and whoever filled the *)
(* cache.                                                                  *)
ClientOfItsClass ==
    \A w \in Workers :
        Answered(w) => /\ answer[w].secret = SecretRef(class[w])
                       /\ answer[w].policy = PolicyRef(class[w])

(* No default stands in for what a class asks for: the operator's own      *)
(* MinIO answers only classes that leave backend and Secret to it, and a   *)
(* class that is not in order gets no client at all.                       *)
NoStandIn ==
    \A w \in Workers :
        LET k == class[w]
        IN  Answered(w) => /\ k.backend # "other"
                           /\ k.backend = "aws" => k.policy # Incomplete
                           /\ \/ answer[w].secret \in Objects /\ answer[w].ver > 0
                              \/ k.backend # "aws" /\ k.minioRef = None

(* A client is never older than what the worker could have read when it    *)
(* called, although a slower call of the other worker may have put an      *)
(* older client into the cache since: rotated credentials are not used     *)
(* again.                                                                  *)
NeverStale ==
    \A w \in Workers :
        Answered(w) => /\ answer[w].ver >= floor[w].secret
                       /\ answer[w].docVer >= floor[w].doc
=============================================================================
