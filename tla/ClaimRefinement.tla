--------------------------- MODULE ClaimRefinement ---------------------------
(***************************************************************************)
(* BucketClaimController implements ClaimLifecycle: the stage of a claim   *)
(* is read off the object the API server holds, buckets and users are      *)
(* those in MinIO.                                                         *)
(***************************************************************************)
EXTENDS BucketClaimController

(* A claim with a deletion timestamp is doomed, one without the finalizer  *)
(* new; Bound and held claims differ in the phase of their status.         *)
StageOf(o) ==
    IF o = None THEN "absent"
    ELSE IF o.deleting THEN "doomed"
    ELSE IF ~o.finalizer THEN "new"
    ELSE IF o.phase = "Bound" THEN "bound"
    ELSE "held"

GivenOf(o) == IF o = None THEN None ELSE o.bucketName

Lifecycle == INSTANCE ClaimLifecycle WITH
    life  <- [c \in Claims |-> StageOf(claim[c])],
    given <- [c \in Claims |-> GivenOf(claim[c])],
    made  <- {n \in Names : bucket[n].exists},
    users <- {k \in Keys : user[k].secret # None}

(* Whatever interleaving of users, caches, faults and crashes: every step  *)
(* of the controller is a step of the lifecycle or changes nothing of it.  *)
ImplementsLifecycle == Lifecycle!LifeSpec
=============================================================================
