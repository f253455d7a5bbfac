----------------------------- MODULE MCResolver -----------------------------
(***************************************************************************)
(* A small instance of ProviderResolver: classes that share a Secret and a *)
(* policy object, and classes that cannot be resolved.                     *)
(***************************************************************************)
EXTENDS ProviderResolver, TLC

CONSTANTS w1, w2

Plain == [backend |-> "", minioRef |-> None, awsRef |-> None, policy |-> None]
Minio == [Plain EXCEPT !.backend = "minio", !.minioRef = "secret"]
Aws(p) == [Plain EXCEPT !.backend = "aws", !.awsRef = "secret", !.policy = p]
Field(f) == [object |-> "policies", field |-> f]

(* Classes that share the Secret and the policy object, and ones that are  *)
(* incomplete or unsupported.                                              *)
MCClasses == {Plain, Minio, Aws(None), Aws(Field("f1")), Aws(Field("f2")), Aws(Incomplete),
              [Plain EXCEPT !.backend = "other"], [Plain EXCEPT !.backend = "aws"],
              [Plain EXCEPT !.minioRef = Incomplete]}

Symmetry == Permutations(Workers)
=============================================================================
