--------------------------- MODULE ClaimLifecycle ---------------------------
(***************************************************************************)
(* What the BucketClaim controller promises, without how it works: no      *)
(* worker, caches, queue, retries or generations, only the life of each    *)
(* claim and the buckets and users that come and go with it.               *)
(*                                                                         *)
(* A claim is held from the moment it has the finalizer.  Buckets and      *)
(* users come into being only for a claim that is held, bound or doomed    *)
(* (deleted, but not yet gone); they are never taken from a claim that is  *)
(* held or bound, although a stale copy may have the controller finalize a *)
(* claim once more when it is already gone; a claim becomes bound only to  *)
(* a bucket that exists, when there is a user for it, and from bound it    *)
(* only goes to its doom.                                                  *)
(*                                                                         *)
(* BucketClaimController implements this specification;                    *)
(* BucketAccessController takes it for the claims it works with.           *)
(***************************************************************************)
CONSTANTS Claims, Names, Keys, None

VARIABLES
    life,    \* [Claims -> Stages]
    given,   \* the bucket in the status of each claim, or None
    made,    \* buckets that exist
    users    \* users that exist

lifeVars == <<life, given, made, users>>

Stages == {"absent", "new", "held", "bound", "doomed"}

Guarded(c) == life[c] \in {"held", "bound", "doomed"}
Living(c)  == life[c] \in {"held", "bound"}

LifeInit ==
    /\ life = [c \in Claims |-> "absent"]
    /\ given = [c \in Claims |-> None]
    /\ made = {} /\ users = {}

Become(c, stage) == life' = [life EXCEPT ![c] = stage]

Create(c) == life[c] = "absent" /\ Become(c, "new") /\ UNCHANGED <<given, made, users>>

Adopt(c) == life[c] = "new" /\ Become(c, "held") /\ UNCHANGED <<given, made, users>>

MakeBucket(c, n) ==
    /\ Guarded(c)
    /\ made' = made \cup {n}
    /\ UNCHANGED <<life, given, users>>

MakeUser(c, k) ==
    /\ Guarded(c)
    /\ users' = users \cup {k}
    /\ UNCHANGED <<life, given, made>>

(* The claim's status is written; a claim deleted meanwhile stays doomed.  *)
Bind(c, n, k) ==
    /\ Guarded(c)
    /\ n \in made /\ k \in users
    /\ Become(c, IF life[c] = "doomed" THEN "doomed" ELSE "bound")
    /\ given' = [given EXCEPT ![c] = n]
    /\ UNCHANGED <<made, users>>

Delete(c) ==
    /\ \/ life[c] = "new" /\ Become(c, "absent")
       \/ Living(c) /\ Become(c, "doomed")
    /\ UNCHANGED <<given, made, users>>

RemoveUser(c, k) ==
    /\ ~Living(c)
    /\ users' = users \ {k}
    /\ UNCHANGED <<life, given, made>>

RemoveBucket(c, n) ==
    /\ ~Living(c)
    /\ made' = made \ {n}
    /\ UNCHANGED <<life, given, users>>

Vanish(c) ==
    /\ life[c] = "doomed" /\ Become(c, "absent")
    /\ given' = [given EXCEPT ![c] = None]
    /\ UNCHANGED <<made, users>>

LifeNext ==
    \E c \in Claims :
        \/ Create(c) \/ Adopt(c) \/ Delete(c) \/ Vanish(c)
        \/ \E n \in Names : MakeBucket(c, n) \/ RemoveBucket(c, n)
        \/ \E k \in Keys : MakeUser(c, k) \/ RemoveUser(c, k)
        \/ \E n \in Names, k \in Keys : Bind(c, n, k)

(* What the controller is to implement: LifeSpec of this module under the  *)
(* mapping in ClaimRefinement.                                             *)
LifeSpec == LifeInit /\ [][LifeNext]_lifeVars
=============================================================================
