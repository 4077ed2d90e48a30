SPECIFICATION CellSpec
CONSTANTS
    Rows <- TwoRows
    Indices <- SomeIndices
    Addresses = {a1, a2, a3}
    NULL = NULL
    NoAnswer = NoAnswer
    Texts <- SomeTexts
    CellIndices <- BothCells
    MaxForgotten = 1
SYMMETRY AnyAddress
INVARIANTS TypeOK NoDanglingPointer NoNodeLost MemoryOwned CellsHoldRows WordKeeps
PROPERTIES IsRowList
