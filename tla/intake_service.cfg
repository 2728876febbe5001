SPECIFICATION FairSpec
CONSTANTS
    r1 = r1 r2 = r2 r3 = r3 w1 = w1 w2 = w2 k1 = k1 k2 = k2 prj = prj prj2 = prj2
    doc = doc exe = exe alpha = alpha beta = beta huge = huge hollow = hollow
    Blank = Blank None = None
    Keys = {k1, k2}
    Projects = {prj, prj2}
    Names <- MCNames
    AllowedNames <- MCAllowed
    Contents <- MCContents
    Size <- MCSize
    Requests <- MCRequests2
    Workers = {w1}
    Commands <- ServiceCommands
    MaxFilesPerBatch = 3
    MaxFileBytes = 3
    MaxBatchBytes = 4
    ChunkBytes = 2
    MaxFaults = 1
    MaxCrashes = 1
    MaxDecays = 1
PROPERTIES
    ServiceSpec
    EveryRequestEnds
    EveryBatchSettles
