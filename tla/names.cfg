SPECIFICATION ChoosingSpec
CONSTANTS
    f1 = f1
    f2 = f2
    Clients = {c1, c2}
    Texts = {long}
    Short = {}
    Orgs = {o1, o2}
    Admins = {a1}
    Files = {f1}
    Dirs = {d1}
    Selections <- OneFile
    Deadlines = {1}
    MaxTime = 1
    Codes <- AllCodes
    MaxFaults = 2
    UniqueMd5 = TRUE
    Env = {}
    Nil = Nil
INVARIANTS ReportedNamed BatchForOrgShown
