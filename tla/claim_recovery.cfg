SPECIFICATION Spec
INVARIANTS NoOrphanUser BoundIsUsable
PROPERTY NoOrphanBucket
CONSTANTS
    c1 = c1  c2 = c2
    None = None  Custom = Custom
    Claims = {c1}
    Classes = {"std", "keep"}
    Names <- MCNames
    Canon <- MCCanon
    DefaultName <- MCDefaultName
    Keys = {"k1", "k2"}
    KeyOf <- DistinctKeys
    Specs <- EditedSpecs
    InitClass <- TwoClasses
    ClassVersions <- NoVersions
    EnableCOSI = TRUE
    Disturbances = {"fault", "crash"}
    MaxDisturbances = 2
    MaxGen = 2
    MaxUid = 1
