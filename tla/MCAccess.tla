------------------------------ MODULE MCAccess ------------------------------
(***************************************************************************)
(* A small instance of BucketAccessController: a claim and a BucketAccess  *)
(* of it, each with its own user.  GrantedIsUsable and NoOrphanAccess are  *)
(* claimed for distinct keys only; UserGoesWithAnOwner is proved for all.  *)
(***************************************************************************)
EXTENDS BucketAccessController

CONSTANTS c1, a1

ToTheClaim == [a \in Accesses |-> c1]
OneBucket  == [c \in Claims |-> "data"]
OwnSecrets == [a \in Accesses |-> "s1"]
OwnKeys    == [x \in Claims \cup Accesses |-> IF x = c1 THEN "kc" ELSE "k1"]
=============================================================================
