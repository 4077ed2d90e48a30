SPECIFICATION ReadyFairSpec
CONSTANTS
    f1 = f1
    f2 = f2
    Clients = {c1}
    Texts = {long, tiny}
    Short = {tiny}
    Orgs = {o1}
    Admins = {a1}
    Files = {f1, f2}
    Dirs = {d1}
    Selections <- BothFiles
    Deadlines = {1}
    MaxTime = 1
    Codes <- NoCodes
    MaxFaults = 0
    UniqueMd5 = FALSE
    Env = {"edit"}
    Nil = Nil
INVARIANTS OneRecordPerCipher RecordDigestsPlain
PROPERTIES BatchCompletes
