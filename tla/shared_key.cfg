SPECIFICATION Spec
INVARIANT BoundIsUsable
CONSTANTS
    c1 = c1  c2 = c2
    None = None  Custom = Custom
    Claims = {c1, c2}
    Classes = {"std"}
    Names <- MCNames
    Canon <- MCCanon
    DefaultName <- MCDefaultName
    Keys = {"k1", "k2"}
    KeyOf <- SharedKeys
    Specs <- PlainSpec
    InitClass <- OneClass
    ClassVersions <- NoVersions
    EnableCOSI = FALSE
    Disturbances = {}
    MaxDisturbances = 0
    MaxGen = 1
    MaxUid = 1
