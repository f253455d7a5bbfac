SPECIFICATION Spec
INVARIANT TypeOK
PROPERTIES EffectsUnderFinalizer BucketRemovedOnRequest BoundIsStable ImplementsLifecycle
CONSTANTS
    c1 = c1  c2 = c2
    None = None  Custom = Custom
    Claims = {c1}
    Classes = {"std"}
    Names <- MCNames
    Canon <- MCCanon
    DefaultName <- MCDefaultName
    Keys = {"k1", "k2"}
    KeyOf <- DistinctKeys
    Specs <- UpperSpecs
    InitClass <- OneClass
    ClassVersions <- AllVersions
    EnableCOSI = FALSE
    Disturbances = {"fault", "revokeFault", "crash", "class", "secret"}
    MaxDisturbances = 1
    MaxGen = 2
    MaxUid = 2
