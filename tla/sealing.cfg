SPECIFICATION Spec
CONSTANTS
    IntMax = 127
    Nil = Nil
    EncBlockSize = 32
    Plains <- AllPlains
    GenKeys <- TwoKeys
    Deadlines = {100, 300}
    Orgs = {1, 2}
    Codes <- NoConnection
INVARIANTS TypeOK RoundsInvert ReaderRecovers SealedWhole ThrewAtBounds RestoredRecord
CHECK_DEADLOCK FALSE
