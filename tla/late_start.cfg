SPECIFICATION FairSpec
CONSTANTS
    f1 = f1
    f2 = f2
    Clients = {c1}
    Texts = {long}
    Short = {}
    Orgs = {o1}
    Admins = {a1}
    Files = {f1, f2}
    Dirs = {d1}
    Selections <- OneFile
    Deadlines = {1, 2}
    MaxTime = 2
    Codes <- NoCodes
    MaxFaults = 0
    UniqueMd5 = FALSE
    Env = {}
    Nil = Nil
PROPERTIES BatchStartsBeforeDeadline
