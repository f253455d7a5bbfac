------------------------ MODULE ErrorClassification ------------------------
(***************************************************************************)
(* How a failed backend call is judged: the error is raised by the         *)
(* transport or by MinIO, is wrapped on its way up, and in the end the     *)
(* controller asks IsTransientMinioError and the COSI driver grpcErr.      *)
(*                                                                         *)
(* An error is the sequence of its layers, the outermost first.  A layer   *)
(* is a net.Error of some kind or none, and its own words contain one of   *)
(* the transient phrases or do not.  The wrappers' words are not only the  *)
(* operator's: they quote the bucket, the user or the policy, which are    *)
(* named by users.                                                         *)
(***************************************************************************)
EXTENDS Sequences, FiniteSetsExt

CONSTANT MaxDepth   \* bound: layers of an error

(* "plain" is a net.Error that is neither a timeout nor temporary, as the  *)
(* *url.Error around a refused connection.                                 *)
NetKinds == {"none", "timeout", "temporary", "plain"}
Origins  == {"transport", "client", "provisioning"}
Layer    == [from : Origins, net : NetKinds, phrase : BOOLEAN]

VARIABLE err   \* the error so far, <<>> while there is none

(* A plausible slip: only the outermost layer is asked what it is.         *)
FirstNetOutermost(e) == IF e[1].net # "none" THEN e[1].net ELSE "none"

(* errors.As: the first layer that is a net.Error.                         *)
FirstNet(e) ==
    LET nets == {i \in DOMAIN e : e[i].net # "none"}
    IN  IF nets = {} THEN "none" ELSE e[Min(nets)].net

(* A net.Error decides by itself; the text counts only if there is none.   *)
IsTransientMinioError(e) ==
    /\ e # <<>>
    /\ \/ FirstNet(e) \in {"timeout", "temporary"}
       \/ FirstNet(e) = "none" /\ \E i \in DOMAIN e : e[i].phrase

(* A plausible slip: only errors of the provisioning library are told      *)
(* apart.                                                                  *)
GrpcErrProvisioningOnly(e) ==
    IF e = <<>> THEN "OK"
    ELSE IF e[1].from = "provisioning" /\ IsTransientMinioError(e) THEN "Unavailable" ELSE "Internal"

(* The driver's code for an error: that of the ProvisioningError in it, if *)
(* there is one, which is what is left from its layer on.                  *)
GrpcErr(e) ==
    LET ps == {i \in DOMAIN e : e[i].from = "provisioning"}
        judged == IF ps = {} THEN e ELSE SubSeq(e, Min(ps), Len(e))
    IN  IF e = <<>> THEN "OK" ELSE IF IsTransientMinioError(judged) THEN "Unavailable" ELSE "Internal"
-----------------------------------------------------------------------------
Init == err = <<>>

(* The transport's layers, such as a syscall.Errno in a net.OpError in a   *)
(* url.Error; or the answer of MinIO, which is no net.Error.               *)
Raise(net, phrase) ==
    /\ Len(err) < MaxDepth /\ \A i \in DOMAIN err : err[i].from = "transport"
    /\ err' = <<[from |-> "transport", net |-> net, phrase |-> phrase]>> \o err

(* fmt.Errorf with %w in the client.  Most of its texts name the bucket,   *)
(* the user or the policy, and a name may contain a phrase.                *)
WrapInClient(phrase) ==
    /\ err # <<>> /\ err[1].from = "transport"
    /\ err' = <<[from |-> "client", net |-> "none", phrase |-> phrase]>> \o err

(* ProvisioningError with its Unwrap; its text names the bucket.           *)
WrapInProvisioning(phrase) ==
    /\ err # <<>> /\ err[1].from # "provisioning"
    /\ err' = <<[from |-> "provisioning", net |-> "none", phrase |-> phrase]>> \o err

Handled == err' = <<>> /\ err # <<>>

Next ==
    \/ \E net \in NetKinds, phrase \in BOOLEAN : Raise(net, phrase)
    \/ \E phrase \in BOOLEAN : WrapInClient(phrase) \/ WrapInProvisioning(phrase)
    \/ Handled

Spec == Init /\ [][Next]_err
-----------------------------------------------------------------------------
Wraps == err # <<>> /\ err' # <<>> /\ err'[1].from # "transport"

(* The operator's wrapping makes no transient error permanent, so what is  *)
(* worth a quick retry stays so all the way up; and it does not touch the  *)
(* verdict on a net.Error, whatever the names in the text.  All that       *)
(* wrapping can do is to make a permanent error that is judged by its text *)
(* look transient: a bucket called "temporary-uploads" does.               *)
WrappingOnlySoftens ==
    [][ Wraps =>
          /\ IsTransientMinioError(err) => IsTransientMinioError(err')
          /\ FirstNet(err) # "none" => (IsTransientMinioError(err') <=> IsTransientMinioError(err)) ]_err

(* The COSI driver calls Unavailable exactly what the controller calls     *)
(* transient.                                                              *)
DriverAgreesWithController ==
    err # <<>> => (GrpcErr(err) = "Unavailable" <=> IsTransientMinioError(err))
=============================================================================
