------------------------------- MODULE MCAws -------------------------------
(***************************************************************************)
(* Small instances of AwsProvider.                                         *)
(***************************************************************************)
EXTENDS AwsProvider, TLC

CONSTANTS c1, k1, k2, k3, k4

OwnUsers == [c \in Claims |-> "u1"]

SpecOf(b, a, r) == [bucket |-> b, access |-> a, rules |-> r]
OneSpec     == {SpecOf("b1", "ReadWrite", "Enabled")}
SafetySpecs == {SpecOf("b1", "ReadWrite", "none"), SpecOf("b2", "ReadWrite", "none"),
                SpecOf("theirs", "ReadOnly", "none")}

NoDoc    == [kind |-> "none", st |-> <<>>]
TeamDoc  == [kind |-> "array", st |-> <<"AllowTeam">>]
Defaults == [block |-> NoText, acls |-> NoText, tls |-> NoText, enc |-> NoText,
             kms |-> NoText, doc |-> NoDoc]

DefaultParams == {Defaults}
(* Protections turned off and left on, values that are not supported, and  *)
(* the policy document with and without the guardrail.                     *)
SomeParams    == {Defaults,
                  [Defaults EXCEPT !.enc = "AES256"],
                  [Defaults EXCEPT !.enc = "SSE-KMS"],
                  [Defaults EXCEPT !.enc = "none", !.acls = "false"],
                  [Defaults EXCEPT !.block = "false", !.doc.kind = "noStatement"],
                  [Defaults EXCEPT !.doc = TeamDoc],
                  [Defaults EXCEPT !.tls = "false", !.doc = TeamDoc]}
RepairedParams == {Defaults, [Defaults EXCEPT !.doc.kind = "garbage"],
                   [Defaults EXCEPT !.doc.kind = "object"]}

(* Failures: anywhere; or up to the writing of the Secret and after the    *)
(* revocation.                                                             *)
Everywhere   == (Steps \ {"idle", "flags"}) \cup {"class", "secret"}
BeforeSecret == (SecuritySteps \ {"flags"}) \cup GrantSteps
                \cup {"createBucket", "lifecycle", "class", "deleteBucket", "removeFinalizer"}

KeySymmetry == Permutations(KeyIds)
=============================================================================
