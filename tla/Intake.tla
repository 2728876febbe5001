------------------------------- MODULE Intake -------------------------------
(***************************************************************************)
(* POST /api/v1/intake/batches of the File Router backend: the intake      *)
(* orchestrator, the content-addressed original file store it streams      *)
(* uploads into and the SQLite file registry it records them in.           *)
(*                                                                         *)
(* A request is an asyncio task.  It owns its worker's event loop from one *)
(* suspension point to the next, so a registry call (synchronous           *)
(* SQLAlchemy) never interleaves with another task of that worker, while   *)
(* the file-system steps run in worker threads and interleave freely.  One *)
(* action is one step another process, thread or crash can come between.   *)
(***************************************************************************)
EXTENDS Integers, Sequences, FiniteSets

CONSTANTS
    Requests,          \* HTTP requests; also the uuid4 batch ids they would create
    Workers,           \* server processes, each with one event loop
    Keys, Projects,    \* idempotency keys, project ids
    Names,             \* display names of uploads
    AllowedNames,      \* the names whose extension the settings allow
    Contents, Size,    \* upload contents (equal iff their SHA-256 are) and byte counts
    Commands,          \* the multipart requests that clients may send
    Blank,             \* an empty or missing header or form field
    None,
    MaxFilesPerBatch, MaxFileBytes, MaxBatchBytes, ChunkBytes,
    MaxFaults,         \* bound: failing registry or storage calls
    MaxCrashes,        \* bound: killed workers
    MaxDecays          \* bound: originals lost or damaged behind the server's back

Upload == [name : Names, content : Contents]
Command == [key : Keys \cup {Blank}, project : Projects \cup {Blank}, files : Seq(Upload)]

ASSUME CommandsAssumption == Commands \subseteq Command /\ Commands # {}
ASSUME SizeAssumption == Size \in [Contents -> Nat]
ASSUME LimitsAssumption ==
    /\ MaxFilesPerBatch \in Nat /\ MaxFileBytes \in Nat /\ MaxBatchBytes \in Nat
    /\ ChunkBytes \in Nat \ {0}
    /\ MaxFaults \in Nat /\ MaxCrashes \in Nat /\ MaxDecays \in Nat
ASSUME BlankAssumption == Blank \notin Keys \cup Projects

VARIABLES
    originals,   \* originals/sha256: what the disk holds under each content's address
    staging,     \* the .upload files in staging, by file id
    dirs,        \* the batch directories in staging
    decayed,     \* contents whose original was lost or damaged and not restored since
    batches,     \* table ingest_batches, by batch id
    files,       \* table file_records
    blobs,       \* table original_blobs, its sha256 column
    loop,        \* the request that runs on each worker's event loop
    cmd, host,   \* the command of each request and the worker that serves it
    pc,          \* where each request is
    cur,         \* the upload of the command it is at
    local,       \* its other local variables
    answer,      \* the HTTP response it was given
    faults, crashes

diskVars == <<originals, staging, dirs, decayed>>
registryVars == <<batches, files, blobs>>
taskVars == <<pc, cur, local, answer>>
budgetVars == <<faults, crashes>>
vars == <<diskVars, registryVars, loop, cmd, host, taskVars, budgetVars>>

-----------------------------------------------------------------------------
(* Types.                                                                  *)

FileId == Requests \X (Nat \ {0})
FailureCode == {"unsupported-extension", "batch-too-large", "file-too-large", "empty-file",
                "integrity-conflict", "storage-unavailable"}

\* The hash of what a retry has to repeat: the form fields and the file names, not the bytes.
Fingerprint(c) ==
    [project |-> c.project, names |-> [i \in DOMAIN c.files |-> c.files[i].name]]

BatchStatus == {"receiving", "completed", "partial", "failed"}
BatchRow == [key : Keys, fingerprint : {Fingerprint(c) : c \in Commands}, status : BatchStatus,
             total : Nat, registered : Nat, failed : Nat]
FileRow == [id : FileId, batch : Requests, content : Contents \cup {None},
            status : {"registered", "failed"}, code : FailureCode \cup {None}]
Duplicate == [id : FileId, of : FileId, content : Contents]

OnLoop == {"lookup", "replay", "create", "next", "register", "insert", "reuse",
           "record", "complete", "answer"}
InThread == {"open", "write", "promote", "tidy", "discard", "sweep", "unwind"}
Local == [written : Nat, consumed : Nat, registered : Nat, failed : Nat,
          duplicates : SUBSET Duplicate, failure : FailureCode \cup {None},
          target : Requests \cup {None}]

Problem(code) == [status |-> code]
Answer == {Problem(code) : code \in {"rejected", "idempotency-conflict", "internal-error"}}
            \cup [status : {"created"}, batch : Requests, row : BatchRow,
                  files : SUBSET FileRow, duplicates : SUBSET Duplicate]

\* None is no value of anything it stands in for.
ASSUME NoneAssumption ==
    /\ None \notin Requests \cup Contents \cup FailureCode \cup FileId
    /\ None \notin BatchRow /\ None \notin Answer

TypeOK ==
    /\ originals \in [Contents -> {"absent", "intact", "damaged"}]
    /\ staging \subseteq FileId
    /\ dirs \subseteq Requests
    /\ decayed \subseteq Contents
    /\ batches \in [Requests -> BatchRow \cup {None}]
    /\ files \subseteq FileRow
    /\ blobs \subseteq Contents
    /\ loop \in [Workers -> Requests \cup {None}]
    /\ cmd \in [Requests -> Commands]
    /\ host \in [Requests -> Workers]
    /\ pc \in [Requests -> {"new", "done", "lost"} \cup OnLoop \cup InThread]
    /\ cur \in [Requests -> Nat \ {0}]
    /\ local \in [Requests -> Local]
    /\ answer \in [Requests -> Answer \cup {None}]
    /\ faults \in Nat /\ crashes \in Nat

Init ==
    /\ originals = [c \in Contents |-> "absent"]
    /\ staging = {} /\ dirs = {} /\ decayed = {}
    /\ batches = [b \in Requests |-> None]
    /\ files = {} /\ blobs = {}
    /\ loop = [w \in Workers |-> None]
    /\ cmd \in [Requests -> Commands]
    /\ host \in [Requests -> Workers]
    /\ pc = [r \in Requests |-> "new"]
    /\ cur = [r \in Requests |-> 1]
    /\ local = [r \in Requests |-> [written |-> 0, consumed |-> 0, registered |-> 0, failed |-> 0,
                                    duplicates |-> {}, failure |-> None, target |-> None]]
    /\ answer = [r \in Requests |-> None]
    /\ faults = 0 /\ crashes = 0

-----------------------------------------------------------------------------
(* Helpers.                                                                *)

CanRun(r) == loop[host[r]] \in {None, r}
Hold(r) == loop' = [loop EXCEPT ![host[r]] = r]
Suspend(r) == loop' = [loop EXCEPT ![host[r]] = None]
Goto(r, label) == pc' = [pc EXCEPT ![r] = label]

Return(r, a) ==
    /\ answer' = [answer EXCEPT ![r] = a]
    /\ Goto(r, "done")
    /\ Suspend(r)
    /\ UNCHANGED <<cur, local>>

TheUpload(r) == cmd[r].files[cur[r]]
TheContent(r) == TheUpload(r).content
TheFileId(r) == <<r, cur[r]>>

Registered == {f \in files : f.status = "registered"}

\* Mutant: records of batches still being received are not looked at.
OwnersInSettledBatches(c) ==
    {f \in Registered : f.content = c /\ batches[f.batch].status # "receiving"}

Owners(c) == {f \in Registered : f.content = c}
FilesOf(b) == {f \in files : f.batch = b}

\* Mutant: the duplicates of this call are forgotten.
CreatedWithoutDuplicates(b, duplicates) ==
    [status |-> "created", batch |-> b, row |-> batches[b], files |-> FilesOf(b), duplicates |-> {}]

\* The body of a 201: what get_batch_detail reads, and the duplicates this call met.
Created(b, duplicates) ==
    [status |-> "created", batch |-> b, row |-> batches[b],
     files |-> FilesOf(b), duplicates |-> duplicates]

\* Mutant: one byte too many.
RemainingPlusOne(r) ==
    IF local[r].consumed <= MaxBatchBytes THEN MaxBatchBytes + 1 - local[r].consumed ELSE 0

Remaining(r) == IF local[r].consumed < MaxBatchBytes THEN MaxBatchBytes - local[r].consumed ELSE 0
Limit(r) == IF Remaining(r) < MaxFileBytes THEN Remaining(r) ELSE MaxFileBytes

\* Mutant: the translation of the store's code is lost.
OversizeAsFile(r) == "file-too-large"

OversizeCode(r) == IF Remaining(r) < MaxFileBytes THEN "batch-too-large" ELSE "file-too-large"

\* Mutants: nothing registered is still "partial"; anything registered is "completed"; a batch that
\* registered nothing is not closed.
SummaryNeverFailed(registered, total) == IF registered = total THEN "completed" ELSE "partial"
SummaryOfSuccess(registered, total) == IF registered > 0 THEN "completed" ELSE "failed"
SummaryLeftOpen(registered, total) ==
    IF registered = total THEN "completed" ELSE IF registered = 0 THEN "receiving" ELSE "partial"

Summary(registered, total) ==
    IF registered = total THEN "completed" ELSE IF registered = 0 THEN "failed" ELSE "partial"

\* _process_file is about to record the current upload as failed with this code.
FailWith(r, code, label) ==
    /\ local' = [local EXCEPT ![r].failure = code]
    /\ Goto(r, label)
    /\ UNCHANGED <<cur, answer>>

-----------------------------------------------------------------------------
(* The orchestrator, up to its loop over the uploads.                      *)

Rejected(c) ==
    \/ c.key = Blank \/ c.project = Blank
    \/ c.files = << >> \/ Len(c.files) > MaxFilesPerBatch

Receive(r) ==
    /\ pc[r] = "new" /\ loop[host[r]] = None
    /\ IF Rejected(cmd[r])
         THEN Return(r, Problem("rejected"))
         ELSE Goto(r, "lookup") /\ Hold(r) /\ UNCHANGED <<cur, local, answer>>
    /\ UNCHANGED <<diskVars, registryVars, cmd, host, budgetVars>>

BatchesWith(key) == {b \in Requests : batches[b] # None /\ batches[b].key = key}

LookupKey(r) ==
    /\ pc[r] = "lookup" /\ CanRun(r)
    /\ \/ /\ BatchesWith(cmd[r].key) = {}
          /\ Goto(r, "create") /\ Hold(r) /\ UNCHANGED <<cur, local, answer>>
       \/ \E b \in BatchesWith(cmd[r].key) :
            IF batches[b].fingerprint = Fingerprint(cmd[r])
              THEN /\ local' = [local EXCEPT ![r].target = b]
                   /\ Goto(r, "replay") /\ Hold(r) /\ UNCHANGED <<cur, answer>>
              ELSE Return(r, Problem("idempotency-conflict"))
    /\ UNCHANGED <<diskVars, registryVars, cmd, host, budgetVars>>

\* A retry is answered with the batch its key names, in whatever state that batch is.
Replay(r) ==
    /\ pc[r] = "replay" /\ CanRun(r)
    /\ LET b == local[r].target IN
         Return(r, IF batches[b] = None THEN Problem("internal-error") ELSE Created(b, {}))
    /\ UNCHANGED <<diskVars, registryVars, cmd, host, budgetVars>>

\* Mutant: the index on idempotency_key is not unique.
CreateWithoutIndex(r) ==
    /\ pc[r] = "create" /\ CanRun(r)
    /\ batches' = [batches EXCEPT ![r] =
         [key |-> cmd[r].key, fingerprint |-> Fingerprint(cmd[r]), status |-> "receiving",
          total |-> Len(cmd[r].files), registered |-> 0, failed |-> 0]]
    /\ local' = [local EXCEPT ![r].target = r]
    /\ Goto(r, "next") /\ Hold(r)
    /\ UNCHANGED <<diskVars, files, blobs, cmd, host, cur, answer, budgetVars>>

CreateBatch(r) ==
    /\ pc[r] = "create" /\ CanRun(r)
    /\ IF BatchesWith(cmd[r].key) # {}       \* the unique index on idempotency_key
         THEN Return(r, Problem("idempotency-conflict")) /\ UNCHANGED batches
         ELSE /\ batches' = [batches EXCEPT ![r] =
                   [key |-> cmd[r].key, fingerprint |-> Fingerprint(cmd[r]), status |-> "receiving",
                    total |-> Len(cmd[r].files), registered |-> 0, failed |-> 0]]
              /\ local' = [local EXCEPT ![r].target = r]
              /\ Goto(r, "next") /\ Hold(r) /\ UNCHANGED <<cur, answer>>
    /\ UNCHANGED <<diskVars, files, blobs, cmd, host, budgetVars>>

-----------------------------------------------------------------------------
(* One upload: admission, staging, promotion.                              *)

Admit(r) ==
    /\ pc[r] = "next" /\ CanRun(r) /\ cur[r] <= Len(cmd[r].files)
    /\ \/ /\ TheUpload(r).name \notin AllowedNames
          /\ FailWith(r, "unsupported-extension", "record") /\ Hold(r) /\ UNCHANGED dirs
       \/ /\ TheUpload(r).name \in AllowedNames /\ Remaining(r) = 0
          /\ FailWith(r, "batch-too-large", "record") /\ Hold(r) /\ UNCHANGED dirs
       \/ /\ TheUpload(r).name \in AllowedNames /\ Remaining(r) > 0
          /\ dirs' = dirs \cup {r}
          /\ Goto(r, "open") /\ Suspend(r) /\ UNCHANGED <<cur, local, answer>>
    /\ UNCHANGED <<originals, staging, decayed, registryVars, cmd, host, budgetVars>>

OpenStaging(r) ==
    /\ pc[r] = "open"
    /\ staging' = staging \cup {TheFileId(r)}
    /\ local' = [local EXCEPT ![r].written = 0]
    /\ Goto(r, "write")
    /\ UNCHANGED <<originals, dirs, decayed, registryVars, loop, cmd, host, cur, answer, budgetVars>>

\* Reads one chunk; writes it unless it would pass the limit.
WriteChunk(r) ==
    /\ pc[r] = "write" /\ local[r].written < Size[TheContent(r)]
    /\ LET read == local[r].written + ChunkBytes
           size == IF read < Size[TheContent(r)] THEN read ELSE Size[TheContent(r)]
       IN IF size > Limit(r)
            THEN FailWith(r, OversizeCode(r), "discard")
            ELSE /\ local' = [local EXCEPT ![r].written = size]
                 /\ UNCHANGED <<pc, cur, answer>>
    /\ UNCHANGED <<diskVars, registryVars, loop, cmd, host, budgetVars>>

EndOfUpload(r) ==
    /\ pc[r] = "write" /\ local[r].written = Size[TheContent(r)]
    /\ IF local[r].written = 0
         THEN FailWith(r, "empty-file", "discard")
         ELSE Goto(r, "promote") /\ UNCHANGED <<cur, local, answer>>
    /\ UNCHANGED <<diskVars, registryVars, loop, cmd, host, budgetVars>>

\* os.link creates the original or finds it there; a found one must have the right size.
Promote(r) ==
    /\ pc[r] = "promote"
    /\ LET c == TheContent(r) IN
         \/ /\ originals[c] = "absent"
            /\ originals' = [originals EXCEPT ![c] = "intact"]
            /\ decayed' = decayed \ {c}
            /\ Goto(r, "tidy") /\ UNCHANGED <<cur, local, answer>>
         \/ /\ originals[c] = "intact"
            /\ Goto(r, "tidy") /\ UNCHANGED <<originals, decayed, cur, local, answer>>
         \/ /\ originals[c] = "damaged"
            /\ FailWith(r, "integrity-conflict", "discard") /\ UNCHANGED <<originals, decayed>>
    /\ UNCHANGED <<staging, dirs, registryVars, loop, cmd, host, budgetVars>>

\* The temporary name is unlinked: the upload is now in originals only.
Tidy(r) ==
    /\ pc[r] = "tidy"
    /\ staging' = staging \ {TheFileId(r)}
    /\ Goto(r, "register")
    /\ UNCHANGED <<originals, dirs, decayed, registryVars, loop, cmd, host,
                   cur, local, answer, budgetVars>>

\* Mutant: a failed store() takes the original away as well.
DiscardOriginal(r) ==
    /\ pc[r] = "discard"
    /\ staging' = staging \ {TheFileId(r)}
    /\ originals' = [originals EXCEPT ![TheContent(r)] = "absent"]
    /\ Goto(r, "record")
    /\ UNCHANGED <<dirs, decayed, registryVars, loop, cmd, host, cur, local, answer, budgetVars>>

\* store() failed: its except clause unlinks the temporary file.
Discard(r) ==
    /\ pc[r] = "discard"
    /\ staging' = staging \ {TheFileId(r)}
    /\ Goto(r, "record")
    /\ UNCHANGED <<originals, dirs, decayed, registryVars, loop, cmd, host,
                   cur, local, answer, budgetVars>>

-----------------------------------------------------------------------------
(* One upload: its record.                                                 *)

\* register_file looks for the row of the blob ...
RegisterRead(r) ==
    /\ pc[r] = "register" /\ CanRun(r) /\ Hold(r)
    /\ Goto(r, IF TheContent(r) \in blobs THEN "reuse" ELSE "insert")
    /\ UNCHANGED <<diskVars, registryVars, cmd, host, cur, local, answer, budgetVars>>

\* ... and then inserts it if it was missing, which takes the write lock of the database: the
\* primary key refuses a row that another worker has committed in between.  A content that has
\* a record makes the upload a duplicate, which is counted as failed and leaves no record.
RegisterWrite(r) ==
    /\ pc[r] \in {"insert", "reuse"} /\ CanRun(r) /\ Hold(r)
    /\ LET c == TheContent(r) IN
         \/ /\ pc[r] = "insert" /\ c \in blobs
            /\ FailWith(r, "storage-unavailable", "record") /\ UNCHANGED <<blobs, files>>
         \/ /\ pc[r] = "reuse" \/ c \notin blobs
            /\ blobs' = blobs \cup {c}
            /\ \/ /\ Owners(c) = {}
                  /\ files' = files \cup {[id |-> TheFileId(r), batch |-> r, content |-> c,
                                           status |-> "registered", code |-> None]}
                  /\ local' = [local EXCEPT ![r].consumed = @ + Size[c],
                                            ![r].registered = @ + 1]
               \/ \E f \in Owners(c) :
                     /\ local' = [local EXCEPT
                          ![r].duplicates = @ \cup {[id |-> TheFileId(r), of |-> f.id, content |-> c]},
                          ![r].consumed = @ + Size[c], ![r].failed = @ + 1]
                     /\ UNCHANGED files
            /\ cur' = [cur EXCEPT ![r] = @ + 1]
            /\ Goto(r, "next") /\ UNCHANGED answer
    /\ UNCHANGED <<diskVars, batches, cmd, host, budgetVars>>

\* Mutant: a failed upload is tried again instead of being recorded.
TryAgain(r) ==
    /\ pc[r] = "record" /\ CanRun(r) /\ Hold(r)
    /\ local' = [local EXCEPT ![r].failure = None]
    /\ Goto(r, "next")
    /\ UNCHANGED <<diskVars, registryVars, cmd, host, cur, answer, budgetVars>>

\* _record_failure, and back to the loop with no bytes consumed.
RecordFailure(r) ==
    /\ pc[r] = "record" /\ CanRun(r) /\ Hold(r)
    /\ files' = files \cup {[id |-> TheFileId(r), batch |-> r, content |-> None,
                             status |-> "failed", code |-> local[r].failure]}
    /\ local' = [local EXCEPT ![r].failed = @ + 1, ![r].failure = None]
    /\ cur' = [cur EXCEPT ![r] = @ + 1]
    /\ Goto(r, "next")
    /\ UNCHANGED <<diskVars, batches, blobs, cmd, host, answer, budgetVars>>

-----------------------------------------------------------------------------
(* The end of the batch.                                                   *)

LeaveLoop(r) ==
    /\ pc[r] = "next" /\ CanRun(r) /\ cur[r] > Len(cmd[r].files)
    /\ \/ r \in dirs /\ Goto(r, "sweep") /\ Suspend(r)
       \/ r \notin dirs /\ Goto(r, "complete") /\ Hold(r)
    /\ UNCHANGED <<diskVars, registryVars, cmd, host, cur, local, answer, budgetVars>>

\* Mutant: only a batch that registered something cleans up.
SweptAfterSuccess(r) == IF local[r].registered = 0 THEN dirs ELSE dirs \ {r}

\* cleanup_batch in the finally clause: rmdir refuses a directory that is not empty.
Swept(r) == IF \E i \in DOMAIN cmd[r].files : <<r, i>> \in staging THEN dirs ELSE dirs \ {r}

Sweep(r) ==
    /\ pc[r] = "sweep"
    /\ dirs' = Swept(r)
    /\ Goto(r, "complete")
    /\ UNCHANGED <<originals, staging, decayed, registryVars, loop, cmd, host,
                   cur, local, answer, budgetVars>>

\* The same finally clause when _record_failure raised: the exception goes on to a 500.
Unwind(r) ==
    /\ pc[r] = "unwind" /\ CanRun(r)
    /\ dirs' = Swept(r)
    /\ Return(r, Problem("internal-error"))
    /\ UNCHANGED <<originals, staging, decayed, registryVars, cmd, host, budgetVars>>

CompleteBatch(r) ==
    /\ pc[r] = "complete" /\ CanRun(r) /\ Hold(r)
    /\ batches' = [batches EXCEPT ![r] =
         [@ EXCEPT !.status = Summary(local[r].registered, Len(cmd[r].files)),
                   !.registered = local[r].registered, !.failed = local[r].failed]]
    /\ Goto(r, "answer")
    /\ UNCHANGED <<diskVars, files, blobs, cmd, host, cur, local, answer, budgetVars>>

\* Mutant: a batch that registered nothing is taken for a batch of duplicates.
NothingRegistered(r) == local[r].duplicates # {} /\ local[r].registered = 0

OnlyDuplicates(r) == local[r].duplicates # {} /\ FilesOf(r) = {}

DeleteEmptyBatch(b) == batches' = [batches EXCEPT ![b] = None]

\* The 201; a batch of duplicates only leaves no row behind.
AnswerBatch(r) ==
    /\ pc[r] = "answer" /\ CanRun(r)
    /\ Return(r, Created(r, local[r].duplicates))
    /\ IF OnlyDuplicates(r) THEN DeleteEmptyBatch(r) ELSE UNCHANGED batches
    /\ UNCHANGED <<diskVars, files, blobs, cmd, host, budgetVars>>

-----------------------------------------------------------------------------
(* What goes wrong: failing calls, killed workers, disks.                  *)

\* A SQLAlchemy call raises and its transaction is rolled back.
RegistryFault(r) ==
    /\ faults < MaxFaults /\ faults' = faults + 1
    /\ CanRun(r)
    /\ \/ /\ pc[r] \in {"lookup", "replay", "create", "complete", "answer"}
          /\ Return(r, Problem("internal-error"))
       \/ /\ pc[r] \in {"register", "insert", "reuse"}
          /\ FailWith(r, "storage-unavailable", "record") /\ Hold(r)
       \/ /\ pc[r] = "record" /\ r \in dirs
          /\ Goto(r, "unwind") /\ Suspend(r) /\ UNCHANGED <<cur, local, answer>>
       \/ /\ pc[r] = "record" /\ r \notin dirs
          /\ Return(r, Problem("internal-error"))
    /\ UNCHANGED <<diskVars, registryVars, cmd, host, crashes>>

\* A file-system call raises OSError; one inside store()'s except clause leaves the file behind.
StorageFault(r) ==
    /\ faults < MaxFaults /\ faults' = faults + 1
    /\ \/ /\ pc[r] \in {"open", "write", "promote", "tidy"}
          /\ FailWith(r, "storage-unavailable", "discard") /\ UNCHANGED loop
       \/ /\ pc[r] = "discard"
          /\ FailWith(r, "storage-unavailable", "record") /\ UNCHANGED loop
       \/ /\ pc[r] = "next" /\ CanRun(r) /\ cur[r] <= Len(cmd[r].files)
          /\ TheUpload(r).name \in AllowedNames /\ Remaining(r) > 0
          /\ FailWith(r, "storage-unavailable", "record") /\ Hold(r)
       \/ /\ pc[r] = "sweep"
          /\ Goto(r, "complete") /\ UNCHANGED <<loop, cur, local, answer>>
       \/ /\ pc[r] = "unwind" /\ CanRun(r)
          /\ Return(r, Problem("internal-error"))
    /\ UNCHANGED <<diskVars, registryVars, cmd, host, crashes>>

\* A worker is killed: its tasks and threads stop where they are.  The next start-up creates the
\* directories and migrates the schema; it looks at no batch and no staging file.
Crash(w) ==
    /\ crashes < MaxCrashes /\ crashes' = crashes + 1
    /\ pc' = [r \in Requests |-> IF host[r] = w /\ pc[r] \notin {"new", "done"} THEN "lost" ELSE pc[r]]
    /\ loop' = [loop EXCEPT ![w] = None]
    /\ UNCHANGED <<diskVars, registryVars, cmd, host, cur, local, answer, faults>>

\* Someone else removes or truncates an original.
Decay(c) ==
    /\ originals[c] = "intact" /\ Cardinality(decayed) < MaxDecays
    /\ \E left \in {"absent", "damaged"} : originals' = [originals EXCEPT ![c] = left]
    /\ decayed' = decayed \cup {c}
    /\ UNCHANGED <<staging, dirs, registryVars, loop, cmd, host, taskVars, budgetVars>>

\* Every request has been dealt with.
Idle ==
    /\ \A r \in Requests : pc[r] \in {"done", "lost"}
    /\ UNCHANGED vars

Step(r) ==
    \/ Receive(r) \/ LookupKey(r) \/ Replay(r) \/ CreateBatch(r)
    \/ Admit(r) \/ OpenStaging(r) \/ WriteChunk(r) \/ EndOfUpload(r)
    \/ Promote(r) \/ Tidy(r) \/ Discard(r)
    \/ RegisterRead(r) \/ RegisterWrite(r) \/ RecordFailure(r)
    \/ LeaveLoop(r) \/ Sweep(r) \/ Unwind(r) \/ CompleteBatch(r) \/ AnswerBatch(r)

Next ==
    \/ \E r \in Requests : Step(r) \/ RegistryFault(r) \/ StorageFault(r)
    \/ \E w \in Workers : Crash(w)
    \/ \E c \in Contents : Decay(c)
    \/ Idle

Spec == Init /\ [][Next]_vars

\* The event loop runs every ready task and the thread pool every call: a request that can go
\* on does.  Clients need not send, and nothing has to fail.
FairSpec == Spec /\ \A r \in Requests : WF_vars(pc[r] # "new" /\ Step(r))

=============================================================================
