SPECIFICATION Spec
CONSTANTS
    BlockLen = 4
    WordLen = 1
    ByteBits = 4
    DigestLen = 3
    FileBuf = 6
    Pieces = {0, 1, 2, 3, 5, 9}
    KeyLens = {0, 3, 4, 5}
    MaxLen = 70
    Nil = Nil
INVARIANTS TypeOK Absorbed DigestOfMessage
