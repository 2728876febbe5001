SPECIFICATION Spec
CONSTANTS
    u1 = u1 u2 = u2 u3 = u3 x = x y = y z = z
    Uploads = {u1, u2, u3}
    Contents = {x, y, z}
    Refused = {z}
    FilesIn <- MCFilesIn
    PageSize = 3
INVARIANTS
    TypeOK
    SequentialUseAgrees
PROPERTIES
    AnswerShowsUpload
    UploadingEnds
