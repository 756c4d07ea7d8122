SPECIFICATION Spec
CONSTANTS
    Texts <- MCTexts
    ByteTexts <- MCByteTexts
    ExtentLimit = 12
    MaxBytes = 5
INVARIANTS
    InductiveInv
    ReadsBack
    ReadsInBounds
    EmptyMeansEmpty
\* A bytes object, or a str that has all it can get, does not change any more.
CHECK_DEADLOCK FALSE
