SPECIFICATION InferenceSpec
CONSTANTS
    IntValues = 64
    SizeValues = 512
    ByteValues = 4
    One = 2
    Files <- MCFiles
    DataSize = 5
    Samples <- MCSamples
INVARIANTS
    InferenceTypeOK
    NoDoubleFree
    CleanupFreesTheRest
    AccessesFit
    VerdictIsOfData
    ConversionIsFaithful
