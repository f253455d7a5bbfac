SPECIFICATION Spec
INVARIANTS TypeOK ReadyIsConfigured GrantedWorks NoOrphanGrant NoOrphanBucket
PROPERTY RemovedOnRequest
SYMMETRY Symmetry
CONSTANTS
    b1 = b1  b2 = b2  a1 = a1  a2 = a2  s1 = s1  s2 = s2
    None = None
    Names = {"n1", "n2"}
    Keys = {"k1", "k2"}
    IdOf <- MCIds
    KeyOf <- MCKeys
    BucketOf <- OneBucket
    Buckets = {b1, b2}
    Accesses = {a1, a2}
    Params <- MCParams
    AccessParams <- MCAccess
    Slots = {s1, s2}
    Disturbances = {"fault", "revokeFault", "unreadable", "timeout"}
    MaxDisturbances = 2
CHECK_DEADLOCK FALSE
