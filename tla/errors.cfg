SPECIFICATION Spec
INVARIANT DriverAgreesWithController
PROPERTY WrappingOnlySoftens
CONSTANT MaxDepth = 3
