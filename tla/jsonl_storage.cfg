SPECIFICATION Spec
CONSTANTS
    e1 = e1 t1 = t1 d1 = d1 d2 = d2 a = a b = b
    Main = Main None = None
    Entries = {e1}
    Tasks = {t1}
    Docs = {d1, d2}
    Values = {a, b}
    Commits <- MCCommits
    MaxCommits = 4
    MaxFaults = 2
    MaxCrashes = 3
INVARIANTS
    NeverCorrupt
    FilesHoldCommits
    OpenIsClean
PROPERTY StoreSpec
