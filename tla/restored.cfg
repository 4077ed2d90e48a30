SPECIFICATION Spec
CONSTANTS
    IntMax = 127
    Nil = Nil
    EncBlockSize = 32
    Plains <- ShortPlains
    GenKeys <- TwoKeys
    Deadlines = {100, 300}
    Orgs = {1, 2}
    Codes <- NoConnection
INVARIANTS RestoredKey
CHECK_DEADLOCK FALSE
