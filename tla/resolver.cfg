SPECIFICATION Spec
SYMMETRY Symmetry
INVARIANTS TypeOK ClientOfItsClass NeverStale NoStandIn
CONSTANTS
    w1 = w1  w2 = w2
    None = None  Incomplete = Incomplete  Failed = Failed
    Workers = {w1, w2}
    Objects = {"secret", "policies"}
    Fields = {"f1", "f2"}
    Classes <- MCClasses
    MaxVersion = 2
