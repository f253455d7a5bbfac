----------------------------- MODULE ErrorProofs -----------------------------
(***************************************************************************)
(* Theorems about ErrorClassification, for errors of any depth.            *)
(***************************************************************************)
EXTENDS ErrorClassification, SequenceTheorems, WellFoundedInduction, TLAPS

LEMMA MinIsLeast ==
    ASSUME NEW S \in SUBSET Nat, S # {}
    PROVE  Min(S) \in S /\ \A y \in S : Min(S) <= y
  <1> DEFINE R == {ss \in Nat \X Nat : ss[1] < ss[2]}
  <1>1. IsWellFoundedOn(R, Nat)  BY NatLessThanWellFounded DEF OpToRel
  <1>2. PICK x \in S : \A y \in S : ~(<<y, x>> \in R)  BY <1>1, WFMin
  <1>3. ASSUME NEW y \in S PROVE x <= y
    <2>1. x \in Nat /\ y \in Nat /\ <<y, x>> \in Nat \X Nat  OBVIOUS
    <2>2. <<y, x>> \notin R  BY <1>2
    <2>3. ~(y < x)  BY <2>1, <2>2
    <2> QED  BY <2>1, <2>3
  <1> QED  BY <1>3 DEF Min

(* The first net.Error of an error, by its place.                          *)
Nets(e) == {i \in DOMAIN e : e[i].net # "none"}

LEMMA LayersOf ==
    ASSUME NEW e \in Seq(Layer)
    PROVE  /\ Len(e) \in Nat /\ DOMAIN e = 1 .. Len(e)
           /\ \A i \in 1 .. Len(e) : e[i] \in Layer
           /\ Nets(e) \subseteq 1 .. Len(e) /\ Nets(e) \in SUBSET Nat
           /\ e # <<>> => Len(e) >= 1
  <1>1. Len(e) \in Nat /\ DOMAIN e = 1 .. Len(e) /\ e \in [1 .. Len(e) -> Layer]
    BY LenProperties
  <1>2. e # <<>> => Len(e) >= 1  BY EmptySeq
  <1> QED  BY <1>1, <1>2 DEF Nets

(* One more layer on the outside.                                          *)
LEMMA Wrapped ==
    ASSUME NEW e \in Seq(Layer), NEW l \in Layer
    PROVE  /\ <<l>> \o e \in Seq(Layer) /\ Len(<<l>> \o e) = Len(e) + 1
           /\ DOMAIN (<<l>> \o e) = 1 .. Len(e) + 1
           /\ (<<l>> \o e)[1] = l
           /\ \A i \in 1 .. Len(e) : (<<l>> \o e)[i + 1] = e[i]
  <1>1. <<l>> \in Seq(Layer) /\ Len(<<l>>) = 1 /\ <<l>>[1] = l  OBVIOUS
  <1>2. Len(e) \in Nat  BY LenProperties
  <1>3. /\ <<l>> \o e \in Seq(Layer) /\ Len(<<l>> \o e) = 1 + Len(e)
        /\ \A i \in 1 .. 1 + Len(e) : (<<l>> \o e)[i] = IF i <= 1 THEN <<l>>[i] ELSE e[i - 1]
    BY <1>1, ConcatProperties
  <1>4. DOMAIN (<<l>> \o e) = 1 .. Len(<<l>> \o e)  BY <1>3, LenProperties
  <1>5. ASSUME NEW i \in 1 .. Len(e) PROVE (<<l>> \o e)[i + 1] = e[i]
    <2>1. i + 1 \in 1 .. 1 + Len(e) /\ ~(i + 1 <= 1) /\ (i + 1) - 1 = i  BY <1>2
    <2> QED  BY <1>3, <2>1
  <1> QED  BY <1>1, <1>2, <1>3, <1>4, <1>5

(* A layer that is no net.Error leaves the net.Error that decides, and no  *)
(* layer takes a phrase away.                                              *)
LEMMA WrappingKeepsFirstNet ==
    ASSUME NEW e \in Seq(Layer), NEW l \in Layer, l.net = "none"
    PROVE  FirstNet(<<l>> \o e) = FirstNet(e)
  <1> DEFINE w == <<l>> \o e
  <1>1. /\ w \in Seq(Layer) /\ DOMAIN w = 1 .. Len(e) + 1 /\ w[1] = l
        /\ \A i \in 1 .. Len(e) : w[i + 1] = e[i]
    BY Wrapped
  <1>2. /\ Len(e) \in Nat /\ DOMAIN e = 1 .. Len(e) /\ Nets(e) \in SUBSET Nat
        /\ Nets(w) \in SUBSET Nat /\ Nets(e) \subseteq 1 .. Len(e)
    BY <1>1, LayersOf
  <1> HIDE DEF w
  <1>3. \A i \in Nets(e) : i + 1 \in Nets(w)
    BY <1>1, <1>2 DEF Nets
  <1>4. \A j \in Nets(w) : j - 1 \in Nets(e)
    <2>1. ASSUME NEW j \in Nets(w) PROVE j - 1 \in Nets(e)
      <3>1. j \in 1 .. Len(e) + 1 /\ w[j].net # "none"  BY <1>1 DEF Nets
      <3>2. j # 1  BY <1>1, <3>1
      <3>3. j - 1 \in 1 .. Len(e) /\ (j - 1) + 1 = j  BY <1>2, <3>1, <3>2
      <3>4. w[j] = e[j - 1]  BY <1>1, <3>3
      <3> QED  BY <1>2, <3>1, <3>3, <3>4 DEF Nets
    <2> QED  BY <2>1
  <1>5. CASE Nets(e) = {}
    <2>1. Nets(w) = {}  BY <1>4, <1>5
    <2> QED  BY <1>5, <2>1 DEF FirstNet, Nets, w
  <1>6. CASE Nets(e) # {}
    <2>1. Nets(w) # {}  BY <1>3, <1>6
    <2>2. Min(Nets(e)) \in Nets(e) /\ \A y \in Nets(e) : Min(Nets(e)) <= y
      BY <1>2, <1>6, MinIsLeast
    <2>3. Min(Nets(w)) \in Nets(w) /\ \A y \in Nets(w) : Min(Nets(w)) <= y
      BY <1>2, <2>1, MinIsLeast
    <2>4. Min(Nets(w)) = Min(Nets(e)) + 1
      <3>1. Min(Nets(w)) <= Min(Nets(e)) + 1  BY <1>3, <2>2, <2>3
      <3>2. Min(Nets(e)) <= Min(Nets(w)) - 1  BY <1>4, <2>2, <2>3
      <3>3. Min(Nets(e)) \in Nat /\ Min(Nets(w)) \in Nat  BY <1>2, <2>2, <2>3
      <3> QED  BY <3>1, <3>2, <3>3
    <2>5. w[Min(Nets(w))] = e[Min(Nets(e))]  BY <1>1, <1>2, <2>2, <2>4
    <2>6. FirstNet(e) = e[Min(Nets(e))].net  BY <1>6 DEF FirstNet, Nets
    <2>7. FirstNet(w) = w[Min(Nets(w))].net  BY <2>1 DEF FirstNet, Nets
    <2> QED  BY <2>5, <2>6, <2>7 DEF w
  <1> QED  BY <1>5, <1>6

LEMMA WrappingKeepsPhrases ==
    ASSUME NEW e \in Seq(Layer), NEW l \in Layer, NEW i \in DOMAIN e, e[i].phrase
    PROVE  \E j \in DOMAIN (<<l>> \o e) : (<<l>> \o e)[j].phrase
  <1> DEFINE w == <<l>> \o e
  <1>1. DOMAIN w = 1 .. Len(e) + 1 /\ \A k \in 1 .. Len(e) : w[k + 1] = e[k]  BY Wrapped
  <1>2. Len(e) \in Nat /\ DOMAIN e = 1 .. Len(e)  BY LayersOf
  <1> HIDE DEF w
  <1>3. i + 1 \in DOMAIN w /\ w[i + 1] = e[i]  BY <1>1, <1>2
  <1>4. \E j \in DOMAIN w : w[j].phrase  BY <1>3
  <1> QED  BY <1>4 DEF w
-----------------------------------------------------------------------------
(* A ProvisioningError is the outermost layer, if there is one.            *)
WrappedOnce == \A i \in DOMAIN err : err[i].from = "provisioning" => i = 1
EInv == err \in Seq(Layer) /\ WrappedOnce

LEMMA OuterLayers ==
    /\ \A net \in NetKinds, phrase \in BOOLEAN :
          [from |-> "transport", net |-> net, phrase |-> phrase] \in Layer
    /\ \A phrase \in BOOLEAN :
          /\ [from |-> "client", net |-> "none", phrase |-> phrase] \in Layer
          /\ [from |-> "provisioning", net |-> "none", phrase |-> phrase] \in Layer
  BY DEF Layer, Origins, NetKinds

LEMMA WrapOnce ==
    ASSUME EInv, NEW l \in Layer, err' = <<l>> \o err,
           err # <<>> => err[1].from # "provisioning"
    PROVE  EInv'
  <1>1. /\ err' \in Seq(Layer) /\ DOMAIN err' = 1 .. Len(err) + 1
        /\ \A i \in 1 .. Len(err) : err'[i + 1] = err[i]
    BY Wrapped DEF EInv
  <1>2. Len(err) \in Nat /\ DOMAIN err = 1 .. Len(err) /\ (err = <<>> => Len(err) = 0)
    BY LayersOf, EmptySeq DEF EInv
  <1>3. ASSUME NEW i \in DOMAIN err', i # 1 PROVE err'[i].from # "provisioning"
    <2>1. i - 1 \in DOMAIN err /\ (i - 1) + 1 = i  BY <1>1, <1>2, <1>3
    <2>2. err'[i] = err[i - 1]  BY <1>1, <1>2, <2>1
    <2> QED  BY <1>2, <2>1, <2>2 DEF EInv, WrappedOnce
  <1> QED  BY <1>1, <1>3 DEF EInv, WrappedOnce

(* Every error is a chain of layers, and a ProvisioningError is never      *)
(* below another layer: the provisioning library wraps last.               *)
THEOREM WrappedOnceHolds == Spec => []EInv
  <1>1. Init => EInv
    BY EmptySeq DEF Init, EInv, WrappedOnce
  <1>2. ASSUME EInv, Next PROVE EInv'
    <2>1. ASSUME NEW net \in NetKinds, NEW phrase \in BOOLEAN, Raise(net, phrase) PROVE EInv'
      <3>1. err # <<>> => 1 \in DOMAIN err  BY <1>2, LayersOf DEF EInv
      <3> QED  BY <1>2, <2>1, <3>1, OuterLayers, WrapOnce DEF Raise
    <2>2. ASSUME NEW phrase \in BOOLEAN, WrapInClient(phrase)  PROVE EInv'
      BY <1>2, <2>2, OuterLayers, WrapOnce DEF WrapInClient
    <2>3. ASSUME NEW phrase \in BOOLEAN, WrapInProvisioning(phrase)  PROVE EInv'
      BY <1>2, <2>3, OuterLayers, WrapOnce DEF WrapInProvisioning
    <2>4. CASE Handled  BY <2>4, EmptySeq DEF Handled, EInv, WrappedOnce
    <2> QED  BY <1>2, <2>1, <2>2, <2>3, <2>4 DEF Next
  <1>3. ASSUME EInv, UNCHANGED err PROVE EInv'  BY <1>3 DEF EInv, WrappedOnce
  <1> QED  BY <1>1, <1>2, <1>3, PTL DEF Spec

(* The controller and the COSI driver never disagree about an error,       *)
(* however deep it was wrapped: what grpcErr finds inside is the whole     *)
(* error, for only the outermost layer is a ProvisioningError.             *)
THEOREM DriverAgrees == Spec => []DriverAgreesWithController
  <1>1. ASSUME EInv, err # <<>>
        PROVE  GrpcErr(err) = "Unavailable" <=> IsTransientMinioError(err)
    <2> DEFINE ps == {i \in DOMAIN err : err[i].from = "provisioning"}
               judged == IF ps = {} THEN err ELSE SubSeq(err, Min(ps), Len(err))
    <2>1. judged = err
      <3>1. CASE ps = {}  BY <3>1
      <3>2. CASE ps # {}
        <4>1. ps = {1}  BY <1>1, <3>2 DEF EInv, WrappedOnce
        <4>2. Min({1}) = 1  BY MinIsLeast
        <4>3. SubSeq(err, 1, Len(err)) = err  BY <1>1, SubSeqFull DEF EInv
        <4> QED  BY <3>2, <4>1, <4>2, <4>3
      <3> QED  BY <3>1, <3>2
    <2>2. GrpcErr(err) = IF IsTransientMinioError(judged) THEN "Unavailable" ELSE "Internal"
      BY <1>1 DEF GrpcErr
    <2> HIDE DEF judged
    <2> QED  BY <2>1, <2>2
  <1>2. EInv => DriverAgreesWithController  BY <1>1 DEF DriverAgreesWithController
  <1> QED  BY <1>2, WrappedOnceHolds, PTL

(* No wrapping turns a transient error permanent, and none changes the     *)
(* verdict on a net.Error, whatever names it puts into the text.           *)
THEOREM VerdictOnlySoftens == Spec => WrappingOnlySoftens
  <1> DEFINE Softens == IsTransientMinioError(err) => IsTransientMinioError(err')
             Keeps   == FirstNet(err) # "none"
                        => (IsTransientMinioError(err') <=> IsTransientMinioError(err))
  <1>1. ASSUME EInv, Next, Wraps  PROVE Softens /\ Keeps
    <2>1. ASSUME NEW l \in Layer, err' = <<l>> \o err, l.net = "none"  PROVE Softens /\ Keeps
      <3>1. FirstNet(err') = FirstNet(err)  BY <1>1, <2>1, WrappingKeepsFirstNet DEF EInv
      <3>2. (\E i \in DOMAIN err : err[i].phrase) => (\E i \in DOMAIN err' : err'[i].phrase)
        BY <1>1, <2>1, WrappingKeepsPhrases DEF EInv
      <3>3. err # <<>> /\ err' # <<>>  BY <1>1 DEF Wraps
      <3> QED  BY <3>1, <3>2, <3>3 DEF IsTransientMinioError
    <2>2. ASSUME NEW phrase \in BOOLEAN, WrapInClient(phrase) \/ WrapInProvisioning(phrase)
          PROVE  Softens /\ Keeps
      BY <2>1, <2>2, OuterLayers DEF WrapInClient, WrapInProvisioning
    <2>3. ASSUME NEW net \in NetKinds, NEW phrase \in BOOLEAN, Raise(net, phrase) PROVE FALSE
      <3>1. err'[1].from = "transport"
        BY <1>1, <2>3, OuterLayers, Wrapped DEF Raise, EInv
      <3> QED  BY <1>1, <3>1 DEF Wraps
    <2>4. CASE Handled  BY <1>1, <2>4 DEF Handled, Wraps
    <2> QED  BY <1>1, <2>2, <2>3, <2>4 DEF Next
  <1>2. EInv /\ [Next]_err => [Wraps => Softens /\ Keeps]_err  BY <1>1
  <1> QED  BY <1>2, WrappedOnceHolds, PTL DEF Spec, WrappingOnlySoftens
=============================================================================
