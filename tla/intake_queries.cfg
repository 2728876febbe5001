SPECIFICATION SpecQueries
CONSTANTS
    r1 = r1 r2 = r2 k1 = k1 k2 = k2 prj = prj doc = doc exe = exe alpha = alpha beta = beta
    Blank = Blank None = None
    Readers = {reader}
    Keys = {k1, k2}
    Projects = {prj}
    Names = {doc, exe}
    AllowedNames = {doc}
    Contents <- MCContents
    Size <- MCSize
    Requests <- MCRequests
    Workers = {w1}
    Commands <- MCCommands
    MaxFilesPerBatch = 2
    MaxFileBytes = 1
    MaxBatchBytes = 2
    ChunkBytes = 1
    MaxFaults = 1
    MaxCrashes = 0
    MaxDecays = 1
INVARIANTS
    ViewsOK
    SettledAnswerComplete
    FoundFileAnswered
PROPERTIES
    DownloadIntact
