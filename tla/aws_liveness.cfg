SPECIFICATION FairSpec
CHECK_DEADLOCK FALSE
INVARIANT NoOrphanIamUser
PROPERTIES EventuallyBound EventuallyDeleted
CONSTANTS
    c1 = c1
    k1 = k1  k2 = k2  k3 = k3  k4 = k4
    NoKey = NoKey  NoClaim = NoClaim
    Users = {"u1"}
    Names = {"b1"}
    Claims = {c1}
    UserOf <- OwnUsers
    KeyIds = {k1, k2, k3, k4}
    Specs <- OneSpec
    Statements = {"AllowTeam"}
    Params <- RepairedParams
    InitParams <- DefaultParams
    ForeignNames = {}
    DeletionPolicy = "Delete"
    FailAt <- BeforeSecret
    MaxFailures = 3
    MaxGen = 1
    MaxUid = 2
