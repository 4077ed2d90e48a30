SPECIFICATION Spec
CONSTANTS
    s1 = s1
    s2 = s2
    long = long
    word = word
    amy = amy
    Amy = Amy
    bob = bob
    Nil = Nil
    Servers = {s1, s2}
    Values <- AllValues
    MaxConn = 2
    MaxFaults = 1
    ConfFiles <- SomeFiles
    Cut <- CutLong
    Names = {amy, Amy, bob}
    Passwords = {"x", "y"}
    Ids = {1, 2}
    Fold <- CaseFolded
    Accounts <- BothAccounts
    Records <- SomeRecords
    FileNames = {1, 2}
    Times = {1, 2}
    MaxWrites = 1
INVARIANTS TypeOK ConnectionsAccounted LoggedInRight ServerOfLastAttempt ListShowsRecords
