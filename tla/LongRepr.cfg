SPECIFICATION Spec
CONSTANTS
    BASE = 128
    DECIMAL_SHIFT = 2
    DECIMAL_BASE = 100
    WORD = 12800
    Ints <- MCInts
INVARIANTS
    InductiveInv
    PrintsTheNumber
