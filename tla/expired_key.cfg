SPECIFICATION Spec
CONSTANTS
    f1 = f1
    f2 = f2
    Clients = {c1}
    Texts = {long}
    Short = {}
    Orgs = {o1}
    Admins = {a1}
    Files = {f1}
    Dirs = {d1}
    Selections <- OneFile
    Deadlines = {1}
    MaxTime = 2
    Codes <- NoCodes
    MaxFaults = 0
    UniqueMd5 = FALSE
    Env = {}
    Nil = Nil
INVARIANTS EveryRecordOpensCipher
