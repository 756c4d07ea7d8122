SPECIFICATION Spec
CONSTANTS
    Texts <- NoTexts
    ByteTexts <- Letters
    ExtentLimit = 12
    MaxBytes = 6
INVARIANT
    ShowsItsBytes
\* A bytes object, or a str that has all it can get, does not change any more.
CHECK_DEADLOCK FALSE
