SPECIFICATION FairSpec
CONSTANTS
    f1 = f1
    f2 = f2
    Clients = {c1}
    Texts = {long}
    Short = {}
    Orgs = {o1}
    Admins = {a1}
    Files = {f1, f2}
    Dirs = {d1}
    Selections <- AnySelection
    Deadlines = {1}
    MaxTime = 1
    Codes <- AllCodes
    MaxFaults = 1
    UniqueMd5 = FALSE
    Env = {"fileError", "crash"}
    Nil = Nil
INVARIANTS TypeOK PathsAligned BatchPrefixReported
PROPERTIES BatchEnds ImplementsLedger
