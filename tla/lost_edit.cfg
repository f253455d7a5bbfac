SPECIFICATION Spec
INVARIANT ObservedMeansProvisioned
CONSTANTS
    c1 = c1  c2 = c2
    None = None  Custom = Custom
    Claims = {c1}
    Classes = {"std"}
    Names <- MCNames
    Canon <- MCCanon
    DefaultName <- MCDefaultName
    Keys = {"k1", "k2"}
    KeyOf <- DistinctKeys
    Specs <- QuotaSpecs
    InitClass <- OneClass
    ClassVersions <- NoVersions
    EnableCOSI = FALSE
    Disturbances = {}
    MaxDisturbances = 0
    MaxGen = 2
    MaxUid = 1
