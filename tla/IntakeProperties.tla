-------------------------- MODULE IntakeProperties --------------------------
(***************************************************************************)
(* What has to hold of Intake: safety, liveness, what the documents say,   *)
(* and the inductive invariant behind the proofs.  TypeOK is in Intake.    *)
(***************************************************************************)
EXTENDS Intake

IsCreated(a) == a # None /\ a.status = "created"
Settled(b) == batches[b] # None /\ batches[b].status # "receiving"
FailedRows(b) == {f \in FilesOf(b) : f.status = "failed"}
UploadOf(f) == cmd[f.id[1]].files[f.id[2]]

\* h[1] + ... + h[n].
SumTo(h, n) == LET sum[i \in Nat] == IF i = 0 THEN 0 ELSE sum[i - 1] + h[i] IN sum[n]

\* The bytes that the uploads of r before the i-th spent of the batch's allowance: the
\* registered ones and the duplicates.
Accepted(r, i) ==
    \/ \E f \in FilesOf(r) : f.status = "registered" /\ f.id = <<r, i>>
    \/ \E d \in local[r].duplicates : d.id = <<r, i>>
BytesOf(r, i) == Size[cmd[r].files[i].content]
Spent(r) == [i \in DOMAIN cmd[r].files |-> IF Accepted(r, i) THEN BytesOf(r, i) ELSE 0]
AcceptedBefore(r, i) == SumTo(Spent(r), i - 1)

\* A registered record can be downloaded: its blob row exists, and so does its original unless
\* someone outside the server damaged it.  No concurrent upload of the same content, failed
\* registration or crash takes the original away (promotion and its rollback in store).
RegisteredReadable ==
    \A f \in Registered :
        /\ f.content \in blobs
        /\ originals[f.content] = "intact" \/ f.content \in decayed

\* Two records never stand for the same content, however many workers upload it at once
\* (register_file, the primary key of original_blobs; backend/README.md:29).  The specification
\* of the first phase still keeps one record per submission: see section 7 of the README.
UniqueContent ==
    \A f, g \in Registered : f.content = g.content => f.id = g.id

\* Two live batches never carry the same idempotency key (create_batch's unique index).
LiveKeyUnique ==
    \A a, b \in Requests :
        batches[a] # None /\ batches[b] # None /\ batches[a].key = batches[b].key => a = b

\* A batch that left "receiving" counts what it holds: its records, the duplicates its request
\* met, and nothing else; its status is the one those counts call for (complete_batch).
SettledSummary ==
    \A b \in Requests : Settled(b) =>
        LET row == batches[b]
            registered == Cardinality(FilesOf(b) \ FailedRows(b))
            rejected == Cardinality(FailedRows(b)) + Cardinality(local[b].duplicates)
        IN /\ row.registered = registered /\ row.failed = rejected
           /\ row.total = registered + rejected
           /\ row.status = "completed" <=> rejected = 0
           /\ row.status = "failed" <=> registered = 0

\* The 201 of the request that made a batch reports every upload exactly once, as a record or
\* as a duplicate (execute, replace(detail, duplicates)).
FirstAnswerComplete ==
    \A r \in Requests : IsCreated(answer[r]) /\ answer[r].batch = r =>
        LET recorded == {f.id : f \in answer[r].files}
            rejected == {d.id : d \in answer[r].duplicates}
        IN /\ recorded \cup rejected = {<<r, i>> : i \in DOMAIN cmd[r].files}
           /\ recorded \cap rejected = {}
           /\ Cardinality(answer[r].files) + Cardinality(answer[r].duplicates)
                = Len(cmd[r].files)

\* A 201 that lists records about a settled batch stays true: neither a retry, nor a later
\* batch, nor a crash changes or removes the batch or its records (complete_batch,
\* delete_empty_batch).
AnswerStands ==
    \A r \in Requests :
        IsCreated(answer[r]) /\ answer[r].row.status # "receiving" /\ answer[r].files # {} =>
            /\ batches[answer[r].batch] = answer[r].row
            /\ FilesOf(answer[r].batch) = answer[r].files

\* Two 201s for one key name the same batch, unless one of the batches held no record (it met
\* duplicates only, or had not recorded anything when it was read).
RetryAgrees ==
    \A r, s \in Requests :
        /\ IsCreated(answer[r]) /\ IsCreated(answer[s])
        /\ cmd[r].key = cmd[s].key
        /\ answer[r].files # {} /\ answer[s].files # {}
        => answer[r].batch = answer[s].batch

\* A batch never takes in more bytes than it may, duplicates included, and no upload more than
\* a file may (remaining_batch_bytes, effective_limit, the chunk loop of store).
WithinBudget ==
    /\ \A r \in Requests : AcceptedBefore(r, Len(cmd[r].files) + 1) <= MaxBatchBytes
    /\ \A f \in Registered : Size[f.content] \in 1..MaxFileBytes /\ UploadOf(f).name \in AllowedNames

SeveralWorkers == \E v, w \in Workers : v # w

\* What a code says of the upload it is given to, when the batch has spent so much.
ReasonHolds(code, upload, spent) ==
    /\ code = "unsupported-extension" <=> upload.name \notin AllowedNames
    /\ code = "empty-file" => Size[upload.content] = 0
    /\ code = "file-too-large" => Size[upload.content] > MaxFileBytes
    /\ code = "batch-too-large" => spent + Size[upload.content] > MaxBatchBytes \/ spent = MaxBatchBytes
    /\ code = "storage-unavailable" => faults > 0 \/ SeveralWorkers

\* The code recorded for a failed upload is the reason it failed: the limit it names was really
\* passed, given what the earlier uploads of the batch had spent (_process_file's except).
FailureCodeTruth ==
    \A f \in files : f.status = "failed" =>
        ReasonHolds(f.code, UploadOf(f), AcceptedBefore(f.id[1], f.id[2]))

\* What answered requests left in staging: a file, or the directory of a request that left no file.
LeftBehind ==
    {id \in staging : pc[id[1]] = "done"}
        \cup {<<r, 0>> : r \in {q \in dirs : pc[q] = "done" /\ \A id \in staging : id[1] # q}}

\* Everything an answered request leaves in staging took a failing call of its own: no failure on
\* the way leaks a second file, and without one nothing stays (store's except clause,
\* cleanup_batch in the finally clause).
StagingReclaimed == Cardinality(LeftBehind) <= faults

\* Once its loop has started, a request is answered, or its worker dies.
EveryRequestEnds == \A r \in Requests : pc[r] = "lookup" ~> pc[r] \in {"done", "lost"}

\* A batch does not stay "receiving", unless a call failed or a worker died under it.
EveryBatchSettles ==
    \A b \in Requests :
        (batches[b] # None /\ batches[b].status = "receiving")
            ~> (batches[b] = None \/ Settled(b) \/ faults > 0 \/ pc[b] = "lost")

\* Doc: "相同键重试时返回首次请求结果，不创建新批次" (a retry with the same key returns the result of
\* the first request and makes no new batch): all the 201s for one key and one command name the
\* same batch.
RetryReturnsFirstBatch ==
    \A r, s \in Requests :
        IsCreated(answer[r]) /\ IsCreated(answer[s]) /\ cmd[r] = cmd[s]
            => answer[r].batch = answer[s].batch

-----------------------------------------------------------------------------
(* Why TypeOK, RegisteredReadable, UniqueContent and LiveKeyUnique hold:   *)
(* an invariant that every step preserves.                                 *)

AtUpload == {"open", "write", "promote", "tidy", "discard", "register", "insert", "reuse", "record"}
InBatch == AtUpload \cup {"next", "sweep", "unwind", "complete", "answer"}

\* A request past the checks passed them; one at an upload has that upload, one in a batch has
\* its row, one that replays knows which batch.
LocatedAt(r) ==
    /\ pc[r] \in OnLoop \cup InThread => ~ Rejected(cmd[r])
    /\ pc[r] \in AtUpload => cur[r] \in DOMAIN cmd[r].files
    /\ pc[r] \in InBatch => batches[r] # None
    /\ pc[r] = "replay" => local[r].target # None

Located == \A r \in Requests : LocatedAt(r)

\* The bytes are in originals before the record is written, and stay there.
Kept(c) == originals[c] = "intact" \/ c \in decayed
AfterPromotion == {"tidy", "register", "insert", "reuse"}

Promoted == \A r \in Requests : pc[r] \in AfterPromotion => Kept(TheContent(r))

\* A blob row and the registered record of its content come together.
BlobsOwned == \A c \in Contents : c \in blobs <=> Owners(c) # {}

RegistryInv ==
    /\ TypeOK /\ Located /\ Promoted /\ BlobsOwned
    /\ RegisteredReadable /\ UniqueContent /\ LiveKeyUnique

-----------------------------------------------------------------------------
(* Why the answers hold: a request keeps a ledger of its verdicts, and     *)
(* what a 201 said of a batch stays so.                                    *)

Unbegun == {"new", "lookup", "replay", "create"}
Uploads(r) == Len(cmd[r].files)
RegisteredRows(b) == FilesOf(b) \ FailedRows(b)

\* Every upload before cur has one verdict, a record or a duplicate, and the counters count them.
VerdictsAt(r) ==
    /\ \A f \in FilesOf(r) : f.id[1] = r /\ f.id[2] < cur[r]
    /\ \A d \in local[r].duplicates : d.id[1] = r /\ d.id[2] < cur[r]
    /\ \A f, g \in FilesOf(r) : f.id = g.id => f = g
    /\ \A d, e \in local[r].duplicates : d.id = e.id => d = e
    /\ \A f \in FilesOf(r), d \in local[r].duplicates : f.id # d.id
    /\ \A i \in 1..(cur[r] - 1) : \/ \E f \in FilesOf(r) : f.id = <<r, i>>
                                  \/ \E d \in local[r].duplicates : d.id = <<r, i>>

CountsAt(r) ==
    /\ IsFiniteSet(RegisteredRows(r)) /\ IsFiniteSet(FailedRows(r)) /\ IsFiniteSet(local[r].duplicates)
    /\ local[r].registered = Cardinality(RegisteredRows(r))
    /\ local[r].failed = Cardinality(FailedRows(r)) + Cardinality(local[r].duplicates)
    /\ local[r].registered + local[r].failed = cur[r] - 1

\* The row of a batch is there from create_batch to the 201, and for good once a record names it;
\* it is settled by complete_batch, after the last upload.
RowAt(r) ==
    /\ pc[r] \in Unbegun => batches[r] = None /\ cur[r] = 1
    /\ pc[r] = "next" => cur[r] <= Uploads(r) + 1
    /\ pc[r] \in {"sweep", "complete", "answer"} => cur[r] = Uploads(r) + 1
    /\ pc[r] \in InBatch => (Settled(r) <=> pc[r] = "answer")
    /\ FilesOf(r) # {} => batches[r] # None
    /\ batches[r] # None =>
        batches[r].key = cmd[r].key /\ batches[r].total = Uploads(r) /\ Uploads(r) > 0
    /\ Settled(r) =>
        /\ cur[r] = Uploads(r) + 1
        /\ batches[r].registered = local[r].registered /\ batches[r].failed = local[r].failed
        /\ batches[r].status = Summary(local[r].registered, Uploads(r))

Ledger == \A r \in Requests : VerdictsAt(r) /\ CountsAt(r) /\ RowAt(r)

\* A 201 speaks of the request's own batch or of one that the key names.
AnswerAt(r) ==
    /\ pc[r] = "replay" => local[r].target # r /\ cmd[local[r].target].key = cmd[r].key
    /\ answer[r] # None => pc[r] = "done"
    /\ IsCreated(answer[r]) =>
        /\ cmd[answer[r].batch].key = cmd[r].key
        /\ answer[r].files \subseteq FilesOf(answer[r].batch)
        /\ answer[r].batch = r =>
            /\ cur[r] = Uploads(r) + 1
            /\ answer[r].files = FilesOf(r) /\ answer[r].duplicates = local[r].duplicates

Answers == \A r \in Requests : AnswerAt(r)

\* Between opening a staging file and unlinking it a request uses it; a killed one may have been.
StagingSteps == {"write", "promote", "tidy", "discard"}
InUse(id) == pc[id[1]] = "lost" \/ (pc[id[1]] \in StagingSteps /\ id[2] = cur[id[1]])
PastSweep == {"complete", "answer", "done"}

\* What nobody will remove any more.
Debris ==
    {id \in staging : ~ InUse(id)}
        \cup {<<r, 0>> : r \in {q \in dirs : pc[q] \in PastSweep /\ \A id \in staging : id[1] # q}}

StagingInv ==
    /\ IsFiniteSet(Debris) /\ Cardinality(Debris) <= faults
    /\ \A r \in dirs : pc[r] \notin Unbegun

-----------------------------------------------------------------------------
(* Why WithinBudget and FailureCodeTruth hold: what a request has consumed *)
(* is what its accepted uploads spent, and the next is held to the rest.   *)

ConsumedAt(r) ==
    /\ cur[r] <= Uploads(r) + 1
    /\ local[r].consumed = AcceptedBefore(r, cur[r]) /\ local[r].consumed <= MaxBatchBytes

\* The upload a request is at has an allowed name and fits the limit; or its code is true.
UploadAt(r) ==
    /\ pc[r] \in AtUpload \ {"record"} => TheUpload(r).name \in AllowedNames
    /\ pc[r] = "write" => local[r].written <= Limit(r) /\ local[r].written <= Size[TheContent(r)]
    /\ pc[r] \in {"promote"} \cup AfterPromotion => Size[TheContent(r)] \in 1..Limit(r)
    /\ pc[r] \in {"discard", "record"} =>
        /\ local[r].failure # None
        /\ ReasonHolds(local[r].failure, TheUpload(r), local[r].consumed)

\* Between register_file's read and its insert the worker runs no other request: a blob row that
\* comes in between comes from another worker.
InsertAt(r) ==
    pc[r] = "insert" => /\ loop[host[r]] = r
                        /\ TheContent(r) \in blobs => SeveralWorkers

RecordsFit ==
    \A f \in Registered : Size[f.content] \in 1..MaxFileBytes /\ UploadOf(f).name \in AllowedNames

BudgetInv ==
    /\ \A r \in Requests : ConsumedAt(r) /\ UploadAt(r) /\ InsertAt(r)
    /\ RecordsFit /\ FailureCodeTruth

=============================================================================
