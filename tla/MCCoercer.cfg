CONSTANTS
    Basic = {"s", "i", "h"}
    MaxArrayDepth = 3
    MaxStructDepth = 3
    MaxSignatureLength = 8
    MaxMessageDepth = 6
    MaxWraps = 3
    Declared <- MCDeclared
SPECIFICATION CoercerSpec
CHECK_DEADLOCK FALSE
INVARIANTS
    WrittenAsDeclared
    NestsWithinLimit
    RefusedAsDeepRightly
    EchoIsReusable
