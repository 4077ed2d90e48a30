SPECIFICATION ReadySpec
CONSTANTS
    f1 = f1
    f2 = f2
    Clients = {c1, c2}
    Texts = {long, tiny}
    Short = {tiny}
    Orgs = {o1}
    Admins = {a1}
    Files = {f1}
    Dirs = {d1}
    Selections <- OneFile
    Deadlines = {1}
    MaxTime = 2
    Codes <- AllCodes
    MaxFaults = 1
    UniqueMd5 = FALSE
    Env = {}
    Nil = Nil
INVARIANTS ReportedRecorded RecordKeyOpensCipher IInv
