SPECIFICATION FairSpec
INVARIANTS TypeOK GrantedIsUsable NoOrphanAccess
PROPERTIES  EventuallyGranted EventuallyGone
CONSTANTS
    c1 = c1  a1 = a1
    None = None
    Claims = {c1}
    Names = {"data"}
    Keys = {"kc", "k1"}
    BucketOf <- OneBucket
    DeletionPolicy = "Delete"
    Accesses = {a1}
    ClaimOf <- ToTheClaim
    SecretOf <- OwnSecrets
    KeyOf <- OwnKeys
    Disturbances = {"fault", "revokeFault", "crash", "class", "deleteClaim"}
    MaxDisturbances = 2
    MaxUid = 2
CHECK_DEADLOCK FALSE
