SPECIFICATION Spec
CONSTANTS
    Threads = {t1, t2}
    Texts <- MCTexts
    Keys <- MCKeys
    Width = 2
    Height = 2
    MaxCalls = 3
SYMMETRY MCSymmetry
CHECK_DEADLOCK FALSE
INVARIANTS
    TypeOK
    OnScreen
    Clean
