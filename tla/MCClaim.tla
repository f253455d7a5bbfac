------------------------------ MODULE MCClaim ------------------------------
(***************************************************************************)
(* Small instances of BucketClaimController.  "DATA" is a bucket name that *)
(* is not in canonical form; its canonical form is "data".                 *)
(***************************************************************************)
EXTENDS ClaimRefinement, TLC

CONSTANTS c1, c2

MCNames == {"data", "DATA", "ns-c1", "ns-c2"}
MCCanon == [n \in MCNames |-> IF n = "DATA" THEN "data" ELSE n]
MCDefaultName == [c \in Claims |-> IF c = c1 THEN "ns-c1" ELSE "ns-c2"]

(* Access keys keep the first 12 characters of the account: claims whose   *)
(* names agree that far share one.                                         *)
DistinctKeys == [c \in Claims |-> IF c = c1 THEN "k1" ELSE "k2"]
SharedKeys   == [c \in Claims |-> "k1"]

SpecOf(k, name, quota) ==
    [className |-> k, bucketName |-> name, quota |-> quota, rules |-> 0,
     replicate |-> FALSE, accessType |-> "ReadWrite"]

(* Two generations of a claim that differ in everything but the name, the  *)
(* class included.                                                         *)
EditedSpecs ==
    {[SpecOf("std", None, 1) EXCEPT !.rules = 1, !.replicate = TRUE],
     [SpecOf("keep", None, 2) EXCEPT !.accessType = "ReadOnly"]}
QuotaSpecs  == {SpecOf("std", None, 1), SpecOf("std", None, 2)}
PlainSpec   == {SpecOf("std", None, 0)}
UpperSpecs  == {SpecOf("std", "DATA", 0), SpecOf("std", "data", 0)}

StdClass == [driver |-> "k8s-s3-bucket-operator", deletionPolicy |-> "Delete",
             provider |-> "ok", bucketName |-> None]
OneClass   == [k \in Classes |-> StdClass]
TwoClasses == [k \in Classes |-> IF k = "std" THEN StdClass
                                 ELSE [StdClass EXCEPT !.deletionPolicy = "Retain"]]
NoClasses  == [k \in Classes |-> None]

(* What an administrator may do to a class: a trouble that is retried and  *)
(* one that is not; all troubles, and a change of the deletion policy.     *)
ClassWith(provider) == [StdClass EXCEPT !.provider = provider]
SomeVersions == {StdClass, None, ClassWith("unsupported")}
AllVersions  == SomeVersions
    \cup {ClassWith(p) : p \in {"secretNotFound", "invalid", "awsInvalid"}}
    \cup {[StdClass EXCEPT !.driver = "other"], [StdClass EXCEPT !.deletionPolicy = "Retain"]}
NoVersions == {}
=============================================================================
