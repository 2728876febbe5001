---------------------------- MODULE IntakeQueries ----------------------------
(***************************************************************************)
(* The query API of the File Router beside its intake: GET of a batch, of  *)
(* a file and of a file's content.                                         *)
(*                                                                         *)
(* These handlers are plain functions, which FastAPI runs in its thread    *)
(* pool: intake goes on between any two of their statements.  SQLite gives *)
(* them no snapshot either, because pysqlite opens a transaction only at   *)
(* the first INSERT, UPDATE or DELETE.                                     *)
(***************************************************************************)
EXTENDS IntakeProperties

CONSTANT Readers           \* clients; each makes one query at a time

ASSUME NoFileAssumption == None \notin FileRow

VARIABLES view             \* what the query of each reader has read so far

queryVars == <<vars, view>>

NoQuery == [at |-> "idle", batch |-> None, row |-> None, file |-> None, files |-> {}, outcome |-> None]

Outcome == {"found", "not-found", "missing", "served", "damaged", "broken"}
View ==
    [at : {"idle", "batch", "owner", "blob", "ownerToSend", "blobToSend", "check", "send", "answered"},
     batch : Requests \cup {None}, row : BatchRow \cup {None}, file : FileRow \cup {None},
     files : SUBSET FileRow, outcome : Outcome \cup {None}]

\* Every query keeps to its kind; one that asks the disk has an address to ask for.
ViewsOK ==
    /\ view \in [Readers -> View]
    /\ \A q \in Readers : view[q].at \in {"check", "send"} => view[q].file.content \in Contents

InitQueries == Init /\ view = [q \in Readers |-> NoQuery]

Advance(q, v) == view' = [view EXCEPT ![q] = v]
Answered(q, outcome) == Advance(q, [view[q] EXCEPT !.at = "answered", !.outcome = outcome])

-----------------------------------------------------------------------------
(* GET /intake/batches/{batch_id}: the row, then its files.                *)

\* Mutant: the files are selected before the row.
GetBatchFilesFirst(q) ==
    \/ /\ view[q].at = "idle"
       /\ \E b \in Requests :
             Advance(q, [view[q] EXCEPT !.at = "batch", !.batch = b, !.files = FilesOf(b)])
    \/ /\ view[q].at = "batch"
       /\ IF batches[view[q].batch] = None
            THEN Answered(q, "not-found")
            ELSE Advance(q, [view[q] EXCEPT !.at = "answered", !.outcome = "found",
                                            !.row = batches[view[q].batch]])

GetBatch(q) ==
    \/ /\ view[q].at = "idle"
       /\ \E b \in Requests :
            IF batches[b] = None
              THEN Advance(q, [view[q] EXCEPT !.at = "answered", !.batch = b, !.outcome = "not-found"])
              ELSE Advance(q, [view[q] EXCEPT !.at = "batch", !.batch = b, !.row = batches[b]])
    \/ /\ view[q].at = "batch"
       /\ Advance(q, [view[q] EXCEPT !.at = "answered", !.outcome = "found",
                                     !.files = FilesOf(view[q].batch)])

-----------------------------------------------------------------------------
(* get_file_detail: the file, its batch, its blob; then the handler.       *)

\* The first statement of GET /files/{file_id} and of GET /files/{file_id}/content.
FindFile(q) ==
    /\ view[q].at = "idle"
    /\ \E f \in files, next \in {"owner", "ownerToSend"} :
         Advance(q, [view[q] EXCEPT !.at = next, !.file = f])

FindOwner(q) ==
    /\ view[q].at \in {"owner", "ownerToSend"}
    /\ IF batches[view[q].file.batch] = None
         THEN Answered(q, "not-found")
         ELSE Advance(q, [view[q] EXCEPT !.at = IF @ = "owner" THEN "blob" ELSE "blobToSend",
                                         !.row = batches[view[q].file.batch]])

\* The blob of the file, if it has one; GET then looks whether its original is there.
FindBlob(q) ==
    /\ view[q].at = "blob"
    /\ LET c == view[q].file.content IN
         Answered(q, IF c \in blobs /\ originals[c] = "absent" THEN "missing" ELSE "found")

\* Mutant: a file without a blob is looked for as well.
FindAnythingToSend(q) ==
    /\ view[q].at = "blobToSend"
    /\ Advance(q, [view[q] EXCEPT !.at = "check"])

\* A download wants a registered file with a blob ...
FindBlobToSend(q) ==
    /\ view[q].at = "blobToSend"
    /\ IF view[q].file.status = "registered" /\ view[q].file.content \in blobs
         THEN Advance(q, [view[q] EXCEPT !.at = "check"])
         ELSE Answered(q, "not-found")

\* ... and an original; it is only opened when the response is sent.
CheckOriginal(q) ==
    /\ view[q].at = "check"
    /\ IF originals[view[q].file.content] = "absent"
         THEN Answered(q, "not-found")
         ELSE Advance(q, [view[q] EXCEPT !.at = "send"])

SendOriginal(q) ==
    /\ view[q].at = "send"
    /\ Answered(q, CASE originals[view[q].file.content] = "intact" -> "served"
                     [] originals[view[q].file.content] = "damaged" -> "damaged"
                     [] originals[view[q].file.content] = "absent" -> "broken")

\* The client is done with the answer.
Forget(q) ==
    /\ view[q].at = "answered"
    /\ Advance(q, NoQuery)

Query(q) ==
    \/ GetBatch(q)
    \/ FindFile(q) \/ FindOwner(q) \/ FindBlob(q)
    \/ FindBlobToSend(q) \/ CheckOriginal(q) \/ SendOriginal(q)
    \/ Forget(q)

NextQueries ==
    \/ Next /\ UNCHANGED view
    \/ \E q \in Readers : Query(q) /\ UNCHANGED vars

SpecQueries == InitQueries /\ [][NextQueries]_queryVars

-----------------------------------------------------------------------------
(* Properties.                                                             *)

\* A GET that reports a batch as settled reports every record of it: the batch is read before
\* its files, so nothing can be recorded in it after the row was seen (get_batch_detail).
SettledAnswerComplete ==
    \A q \in Readers :
        LET v == view[q] IN
        v.at = "answered" /\ v.outcome = "found" /\ v.batch # None /\ v.row.status # "receiving"
            => v.files = FilesOf(v.batch)

\* A file that a query has found can be answered: its batch is not withdrawn before the second
\* statement (get_file_detail against delete_empty_batch).
FoundFileAnswered ==
    \A q \in Readers :
        view[q].file # None /\ view[q].at \notin {"owner", "ownerToSend"} => view[q].row # None

\* A download of a registered file is refused, or cut short after the check, only when someone
\* outside the server harmed the original: no upload takes it away in between (download_file).
DownloadIntact ==
    [][\A q \in Readers :
         /\ view[q].at \in {"blobToSend", "check", "send"} /\ view'[q].at = "answered"
         /\ view[q].file.status = "registered" /\ view'[q].outcome # "served"
         => view[q].file.content \in decayed]_queryVars

-----------------------------------------------------------------------------
(* Why: what a query has read stays true while it goes on.                 *)

\* The request that made the batch records nothing any more.
Ended(b) == pc[b] \in {"answer", "done", "lost"}

FileSteps == {"owner", "blob", "ownerToSend", "blobToSend", "check", "send"}

\* A query knows a batch or a file, never both; a file it knows is still a record, with its row once
\* that was read; a batch that it saw settled gets no more records.
Knows(v) ==
    /\ v.at = "idle" => v = NoQuery
    /\ v.at = "batch" => v.batch # None
    /\ v.at \in FileSteps => v.file # None
    /\ v.file # None => v.file \in files /\ v.batch = None
    /\ v.file # None /\ v.at \notin {"owner", "ownerToSend"} => v.row # None
    /\ v.batch # None /\ (v.at = "batch" \/ v.outcome = "found") => v.row # None
    /\ v.at \in {"check", "send"} => v.file \in Registered
    /\ v.batch # None /\ v.row # None /\ v.row.status # "receiving" =>
        Ended(v.batch) /\ (v.at = "answered" => v.files = FilesOf(v.batch))

QueryInv == view \in [Readers -> View] /\ \A q \in Readers : Knows(view[q])

=============================================================================
