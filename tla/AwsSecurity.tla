----------------------------- MODULE AwsSecurity -----------------------------
(***************************************************************************)
(* How the AWS provider reads the security parameters of a BucketClass and *)
(* merges the policy document of its bucketPolicyRef with the built-in     *)
(* guardrail.  Pure operators; AwsProvider uses them step by step.         *)
(*                                                                         *)
(* A parameter's text is one of a few representatives: NoText is an absent *)
(* key, "blank" white space, "junk" what strconv.ParseBool refuses.        *)
(***************************************************************************)
EXTENDS Sequences

NoText == "absent"

BoolTexts == {NoText, "blank", "true", "false", "junk"}
EncTexts  == {NoText, "blank", "none", "SSE-S3", "sse-s3", "SSE-KMS", "AES256"}
ArnTexts  == {NoText, "blank", "arn"}

(* A policy document: none given, not JSON, without a Statement, with a    *)
(* single object as Statement, or with an array of statements.             *)
DocKinds == {"none", "garbage", "noStatement", "object", "array"}
Deny     == "DenyInsecureTransport"

(* A plausible slip: what is not said is off.                              *)
ParamBoolOff(text, def) ==
    CASE text \in {NoText, "blank", "false"} -> "off"
      [] text = "true" -> "on"
      [] text = "junk" -> "invalid"

(* paramBool: "on", "off" or an error.                                     *)
ParamBool(text, def) ==
    CASE text \in {NoText, "blank"} -> def
      [] text = "true"  -> "on"
      [] text = "false" -> "off"
      [] text = "junk"  -> "invalid"

ParamString(text, def) == IF text \in {NoText, "blank"} THEN def ELSE text

(* strings.ToUpper of the encryption's name.                               *)
Upper(text) == CASE text = "none" -> "NONE" [] text = "sse-s3" -> "SSE-S3" [] OTHER -> text

(* getStatements: a document whose Statement is no array is refused.       *)
Readable(doc) == doc.kind \in {"noStatement", "array"}

(* A plausible slip: the user's statements take the place of the guardrail. *)
MergeOverriding(base, doc) == IF doc.kind = "array" THEN doc.st ELSE base

(* mergePolicyDocuments of a document that can be read, or of none: the    *)
(* built-in statements first, then the user's.                             *)
Merge(base, doc) == IF doc.kind = "array" THEN base \o doc.st ELSE base

BaseStatements(tls) == IF tls = "on" THEN <<Deny>> ELSE <<>>
-----------------------------------------------------------------------------
(* What ConfigureBucketSecurity makes of the parameters of a class.        *)
Block(p)      == ParamBool(p.block, "on")
DisableAcls(p) == ParamBool(p.acls, "on")
TlsOnly(p)    == ParamBool(p.tls, "on")
Encryption(p) == Upper(ParamString(p.enc, "SSE-S3"))

(* The three flags are read before the first call.                         *)
FlagsValid(p) == "invalid" \notin {Block(p), DisableAcls(p), TlsOnly(p)}

(* A plausible slip: what is written is sent.                              *)
EncryptionUnchecked(p) == TRUE

EncryptionValid(p) ==
    \/ Encryption(p) \in {"NONE", "SSE-S3"}
    \/ Encryption(p) = "SSE-KMS" /\ ParamString(p.kms, "") # ""

HasPolicy(p)   == TlsOnly(p) = "on" \/ p.doc.kind # "none"

(* Neither the merge nor S3, which wants at least one statement, objects.  *)
PolicyValid(p) ==
    /\ p.doc.kind = "none" \/ Readable(p.doc)
    /\ TlsOnly(p) = "on" \/ p.doc.kind # "noStatement"
=============================================================================
