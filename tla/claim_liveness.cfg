SPECIFICATION FairSpec
PROPERTIES EventuallyBound EventuallyRepaired EventuallyDeleted
CONSTANTS
    c1 = c1  c2 = c2
    None = None  Custom = Custom
    Claims = {c1}
    Classes = {"std"}
    Names <- MCNames
    Canon <- MCCanon
    DefaultName <- MCDefaultName
    Keys = {"k1", "k2"}
    KeyOf <- DistinctKeys
    Specs <- QuotaSpecs
    InitClass <- NoClasses
    ClassVersions <- SomeVersions
    EnableCOSI = FALSE
    Disturbances = {"fault", "crash", "class"}
    MaxDisturbances = 2
    MaxGen = 2
    MaxUid = 1
