-------------------------- MODULE IntakeAnswerProofs --------------------------
(***************************************************************************)
(* Proofs about what intake answers: the ledger each request keeps of its  *)
(* uploads, what a 201 says, what stays in staging, that the endpoint      *)
(* implements IntakeService, that the bytes a batch's accepted uploads     *)
(* spend never pass its allowance, and that the code of a failed upload is *)
(* the reason it failed.                                                   *)
(***************************************************************************)
EXTENDS IntakeProofs, IntakeRefinement, FiniteSetTheorems, SequenceTheorems, WellFoundedInduction

-----------------------------------------------------------------------------
(* What one step does to a request's ledger.                               *)

\* The verdicts and the counters of a request stay as they are.
SameLedger(r) ==
    /\ cmd' = cmd /\ cur'[r] = cur[r] /\ FilesOf(r)' = FilesOf(r)
    /\ local'[r].duplicates = local[r].duplicates
    /\ local'[r].registered = local[r].registered /\ local'[r].failed = local[r].failed

\* The upload at cur gets a record ...
NewRecord(r) ==
    \E f \in FileRow :
        /\ f.id = TheFileId(r) /\ f.batch = r
        /\ FilesOf(r)' = FilesOf(r) \cup {f} /\ local'[r].duplicates = local[r].duplicates
        /\ \/ /\ f.status = "registered"
              /\ local'[r].registered = local[r].registered + 1 /\ local'[r].failed = local[r].failed
           \/ /\ f.status = "failed"
              /\ local'[r].registered = local[r].registered /\ local'[r].failed = local[r].failed + 1

\* ... or is found to be a duplicate.
NewDuplicate(r) ==
    \E d \in Duplicate :
        /\ d.id = TheFileId(r)
        /\ FilesOf(r)' = FilesOf(r) /\ local'[r].duplicates = local[r].duplicates \cup {d}
        /\ local'[r].registered = local[r].registered /\ local'[r].failed = local[r].failed + 1

NewVerdict(r) ==
    /\ pc[r] \in AtUpload /\ pc'[r] = "next" /\ cmd' = cmd /\ batches' = batches
    /\ cur'[r] = cur[r] + 1
    /\ NewRecord(r) \/ NewDuplicate(r)

\* A record goes into the batch of its request: no other batch changes.
LEMMA RecordsKept ==
    ASSUME TypeOK, NEW r \in Requests, NEW q \in Requests \ {r},
           Step(r) \/ RegistryFault(r) \/ StorageFault(r)
    PROVE  FilesOf(q)' = FilesOf(q) /\ answer'[q] = answer[q]
<1> USE DEF registryVars, diskVars, taskVars, budgetVars
<1>1. ASSUME UNCHANGED files PROVE FilesOf(q)' = FilesOf(q)
  BY <1>1 DEF FilesOf
<1>2. ASSUME NEW row, row.batch = r, files' = files \cup {row} PROVE FilesOf(q)' = FilesOf(q)
  BY <1>2 DEF FilesOf
<1>3. CASE RegisterWrite(r)
  <2>1. UNCHANGED files \/ \E row : row.batch = r /\ files' = files \cup {row}
    BY <1>3 DEF RegisterWrite
  <2> QED BY <1>1, <1>2, <1>3, <2>1 DEF RegisterWrite, FailWith
<1>4. CASE RecordFailure(r)
  <2>1. \E row : row.batch = r /\ files' = files \cup {row}
    BY <1>4 DEF RecordFailure
  <2> QED BY <1>2, <1>4, <2>1 DEF RecordFailure
<1>5. CASE Step(r) /\ ~ RegisterWrite(r) /\ ~ RecordFailure(r)
  <2>1. UNCHANGED files
    BY <1>5 DEF Step, Receive, LookupKey, Replay, CreateBatch, Admit, OpenStaging, WriteChunk,
       EndOfUpload, Promote, Tidy, Discard, RegisterRead, LeaveLoop, Sweep, Unwind, CompleteBatch,
       AnswerBatch
  <2>2. answer'[q] = answer[q]
    BY <1>5 DEF TypeOK, Step, Receive, LookupKey, Replay, CreateBatch, Admit, OpenStaging, WriteChunk,
       EndOfUpload, Promote, Tidy, Discard, RegisterRead, LeaveLoop, Sweep, Unwind, CompleteBatch,
       AnswerBatch, Return, FailWith
  <2> QED BY <1>1, <2>1, <2>2
<1>6. CASE RegistryFault(r) \/ StorageFault(r)
  <2>1. UNCHANGED files
    BY <1>6 DEF RegistryFault, StorageFault
  <2>2. answer'[q] = answer[q]
    BY <1>6 DEF TypeOK, RegistryFault, StorageFault, Return, FailWith
  <2> QED BY <1>1, <2>1, <2>2
<1> QED BY <1>3, <1>4, <1>5, <1>6

\* register_file either fails, or records the upload, or finds the record of its content.
LEMMA WriteVerdict ==
    ASSUME TypeOK, Located, NEW r \in Requests, RegisterWrite(r)
    PROVE  (SameLedger(r) /\ pc'[r] = "record") \/ NewVerdict(r)
<1> USE DEF registryVars, diskVars
<1>1. TheContent(r) \in Contents /\ TheFileId(r) \in FileId /\ pc[r] \in AtUpload
  BY AtUploadType DEF RegisterWrite, AtUpload
<1>2. local[r] \in Local /\ cur[r] \in Nat /\ cmd' = cmd /\ batches' = batches
  BY DEF TypeOK, RegisterWrite
<1>3. CASE FailWith(r, "storage-unavailable", "record") /\ UNCHANGED <<blobs, files>>
  BY <1>2, <1>3 DEF SameLedger, FailWith, Goto, TypeOK, Local, FilesOf
<1>4. ASSUME cur' = [cur EXCEPT ![r] = @ + 1], Goto(r, "next"), NewRecord(r) \/ NewDuplicate(r)
      PROVE  NewVerdict(r)
  BY <1>1, <1>2, <1>4 DEF NewVerdict, Goto, TypeOK
<1>5. ASSUME files' = files \cup {[id |-> TheFileId(r), batch |-> r, content |-> TheContent(r),
                                  status |-> "registered", code |-> None]},
             local' = [local EXCEPT ![r].consumed = @ + Size[TheContent(r)],
                                    ![r].registered = @ + 1]
      PROVE  NewRecord(r)
  <2> DEFINE f == [id |-> TheFileId(r), batch |-> r, content |-> TheContent(r),
                   status |-> "registered", code |-> None]
  <2>1. f \in FileRow
    BY <1>1 DEF FileRow
  <2>2. FilesOf(r)' = FilesOf(r) \cup {f}
    BY <1>5 DEF FilesOf
  <2>3. /\ local'[r].duplicates = local[r].duplicates
        /\ local'[r].registered = local[r].registered + 1 /\ local'[r].failed = local[r].failed
    BY <1>5 DEF TypeOK, Local
  <2>4. f.id = TheFileId(r) /\ f.batch = r /\ f.status = "registered"
    OBVIOUS
  <2> HIDE DEF f
  <2> QED BY <2>1, <2>2, <2>3, <2>4 DEF NewRecord
<1>6. ASSUME NEW o \in Owners(TheContent(r)), UNCHANGED files,
             local' = [local EXCEPT
                   ![r].duplicates = @ \cup {[id |-> TheFileId(r), of |-> o.id, content |-> TheContent(r)]},
                   ![r].consumed = @ + Size[TheContent(r)], ![r].failed = @ + 1]
      PROVE  NewDuplicate(r)
  <2> DEFINE d == [id |-> TheFileId(r), of |-> o.id, content |-> TheContent(r)]
  <2>1. d \in Duplicate
    BY <1>1 DEF Duplicate, Owners, Registered, TypeOK, FileRow
  <2>2. FilesOf(r)' = FilesOf(r)
    BY <1>6 DEF FilesOf
  <2>3. /\ local'[r].duplicates = local[r].duplicates \cup {d}
        /\ local'[r].registered = local[r].registered /\ local'[r].failed = local[r].failed + 1
    BY <1>6 DEF TypeOK, Local
  <2>4. d.id = TheFileId(r)
    OBVIOUS
  <2> HIDE DEF d
  <2> QED BY <2>1, <2>2, <2>3, <2>4 DEF NewDuplicate
<1> QED BY <1>3, <1>4, <1>5, <1>6 DEF RegisterWrite

\* _record_failure gives the upload a failed record.
LEMMA FailureVerdict ==
    ASSUME TypeOK, Located, NEW r \in Requests, RecordFailure(r)
    PROVE  NewVerdict(r)
<1> USE DEF registryVars, diskVars
<1> DEFINE f == [id |-> TheFileId(r), batch |-> r, content |-> None, status |-> "failed",
                 code |-> local[r].failure]
<1>1. TheFileId(r) \in FileId /\ pc[r] \in AtUpload
  BY AtUploadType DEF RecordFailure, AtUpload
<1>2. f \in FileRow
  BY <1>1 DEF FileRow, TypeOK, Local
<1>3. FilesOf(r)' = FilesOf(r) \cup {f}
  BY DEF FilesOf, RecordFailure
<1>4. /\ local'[r].duplicates = local[r].duplicates
      /\ local'[r].registered = local[r].registered /\ local'[r].failed = local[r].failed + 1
  BY DEF TypeOK, Local, RecordFailure
<1>5. f.id = TheFileId(r) /\ f.batch = r /\ f.status = "failed"
  OBVIOUS
<1>6. /\ cmd' = cmd /\ batches' = batches /\ cur'[r] = cur[r] + 1 /\ pc'[r] = "next"
  BY DEF RecordFailure, TypeOK, Goto
<1> HIDE DEF f
<1> QED BY <1>1, <1>2, <1>3, <1>4, <1>5, <1>6 DEF NewVerdict, NewRecord

\* Every other step leaves the verdicts of its request alone.
LEMMA QuietStep ==
    ASSUME TypeOK, NEW r \in Requests,
           \/ Step(r) /\ ~ RegisterWrite(r) /\ ~ RecordFailure(r)
           \/ RegistryFault(r) \/ StorageFault(r)
    PROVE  SameLedger(r)
<1> USE DEF registryVars, diskVars, taskVars, budgetVars
<1>1. UNCHANGED <<files, cmd>> /\ cur'[r] = cur[r]
  BY DEF Step, Receive, LookupKey, Replay, CreateBatch, Admit, OpenStaging, WriteChunk,
     EndOfUpload, Promote, Tidy, Discard, RegisterRead, LeaveLoop, Sweep, Unwind, CompleteBatch,
     AnswerBatch, RegistryFault, StorageFault, Return, FailWith
<1>2. FilesOf(r)' = FilesOf(r)
  BY <1>1 DEF FilesOf
<1>3. local[r] \in Local
  BY DEF TypeOK
<1>4. \/ local' = local
      \/ \E b : local' = [local EXCEPT ![r].target = b]
      \/ \E n : local' = [local EXCEPT ![r].written = n]
      \/ \E code : local' = [local EXCEPT ![r].failure = code]
  BY DEF Step, Receive, LookupKey, Replay, CreateBatch, Admit, OpenStaging, WriteChunk,
     EndOfUpload, Promote, Tidy, Discard, RegisterRead, LeaveLoop, Sweep, Unwind, CompleteBatch,
     AnswerBatch, RegistryFault, StorageFault, Return, FailWith
<1>5. /\ local'[r].duplicates = local[r].duplicates
      /\ local'[r].registered = local[r].registered /\ local'[r].failed = local[r].failed
  BY <1>3, <1>4 DEF TypeOK, Local
<1> QED BY <1>1, <1>2, <1>5 DEF SameLedger

\* The files of a batch that did not change are still what they were.
LEMMA LedgerKept ==
    ASSUME NEW r, SameLedger(r), VerdictsAt(r), CountsAt(r)
    PROVE  VerdictsAt(r)' /\ CountsAt(r)'
<1>1. FailedRows(r)' = FailedRows(r) /\ RegisteredRows(r)' = RegisteredRows(r)
  BY DEF SameLedger, FailedRows, RegisteredRows
<1> QED BY <1>1 DEF SameLedger, VerdictsAt, CountsAt

\* What the verdicts say of the one upload that has none yet.
LEMMA NoVerdictYet ==
    ASSUME TypeOK, NEW r \in Requests, VerdictsAt(r)
    PROVE  /\ \A f \in FilesOf(r) : f.id # TheFileId(r) /\ f.id # <<r, cur[r]>>
           /\ \A d \in local[r].duplicates : d.id # TheFileId(r) /\ d.id # <<r, cur[r]>>
<1>1. cur[r] \in Nat
  BY DEF TypeOK
<1>2. \A f \in FilesOf(r) : f.id[2] # cur[r]
  <2>1. \A f \in FilesOf(r) : f.id[2] \in Nat
    BY DEF TypeOK, FilesOf, FileRow, FileId
  <2> QED BY <1>1, <2>1 DEF VerdictsAt
<1>3. \A d \in local[r].duplicates : d.id[2] # cur[r]
  <2>1. \A d \in local[r].duplicates : d.id[2] \in Nat
    BY DEF TypeOK, Local, Duplicate, FileId
  <2> QED BY <1>1, <2>1 DEF VerdictsAt
<1>4. <<r, cur[r]>>[2] = cur[r]
  OBVIOUS
<1> QED BY <1>2, <1>3, <1>4 DEF TheFileId

\* A verdict is added for the upload that had none, and it is counted.
LEMMA LedgerGrows ==
    ASSUME TypeOK, NEW r \in Requests, NewVerdict(r), VerdictsAt(r), CountsAt(r)
    PROVE  VerdictsAt(r)' /\ CountsAt(r)'
<1>1. /\ cur[r] \in Nat \ {0} /\ cur'[r] = cur[r] + 1 /\ local[r] \in Local
      /\ local[r].registered \in Nat /\ local[r].failed \in Nat
  BY DEF TypeOK, NewVerdict, Local
<1>2. \A i \in 1..(cur'[r] - 1) : i \in 1..(cur[r] - 1) \/ i = cur[r]
  BY <1>1
<1>3. \A n : n \in Nat /\ n < cur[r] => n < cur'[r]
  BY <1>1
<1>4. /\ \A f \in FilesOf(r) : f.id[2] \in Nat
      /\ \A d \in local[r].duplicates : d.id[2] \in Nat
  BY DEF TypeOK, FilesOf, FileRow, FileId, Local, Duplicate
<1>5. \A x : x = <<r, cur[r]>> => x[1] = r /\ x[2] = cur[r] /\ x[2] < cur'[r]
  BY <1>1
<1>6. CASE NewRecord(r)
  <2>1. PICK f \in FileRow :
          /\ f.id = TheFileId(r) /\ f.batch = r
          /\ FilesOf(r)' = FilesOf(r) \cup {f} /\ local'[r].duplicates = local[r].duplicates
          /\ \/ /\ f.status = "registered"
                /\ local'[r].registered = local[r].registered + 1 /\ local'[r].failed = local[r].failed
             \/ /\ f.status = "failed"
                /\ local'[r].registered = local[r].registered /\ local'[r].failed = local[r].failed + 1
    BY <1>6 DEF NewRecord
  <2>2. f.id = <<r, cur[r]>> /\ f.id[1] = r /\ f.id[2] < cur'[r] /\ f \notin FilesOf(r)
    BY <1>5, <2>1, NoVerdictYet DEF TheFileId
  <2>3. VerdictsAt(r)'
    <3>1. \A g \in FilesOf(r) : g.id[1] = r /\ g.id[2] < cur'[r]
      BY <1>3, <1>4 DEF VerdictsAt
    <3>2. \A d \in local[r].duplicates : d.id[1] = r /\ d.id[2] < cur'[r]
      BY <1>3, <1>4 DEF VerdictsAt
    <3>3. \A g \in FilesOf(r) : g.id # f.id
      BY <2>2, NoVerdictYet
    <3>4. \A d \in local[r].duplicates : d.id # f.id
      BY <2>2, NoVerdictYet
    <3>5. \A i \in 1..(cur'[r] - 1) : \/ \E g \in FilesOf(r) \cup {f} : g.id = <<r, i>>
                                      \/ \E d \in local[r].duplicates : d.id = <<r, i>>
      BY <1>2, <2>2 DEF VerdictsAt
    <3> QED BY <2>1, <2>2, <3>1, <3>2, <3>3, <3>4, <3>5, Zenon DEF VerdictsAt
  <2>4. CASE f.status = "registered"
    <3>1. RegisteredRows(r)' = RegisteredRows(r) \cup {f} /\ FailedRows(r)' = FailedRows(r)
      BY <2>1, <2>4 DEF RegisteredRows, FailedRows
    <3>2. f \notin RegisteredRows(r)
      BY <2>2 DEF RegisteredRows
    <3>3. /\ IsFiniteSet(RegisteredRows(r) \cup {f})
          /\ Cardinality(RegisteredRows(r) \cup {f}) = Cardinality(RegisteredRows(r)) + 1
      BY <3>2, FS_AddElement DEF CountsAt
    <3>4. local'[r].registered = local[r].registered + 1 /\ local'[r].failed = local[r].failed
      BY <2>1, <2>4
    <3>5. local'[r].registered + local'[r].failed = cur'[r] - 1
      BY <1>1, <3>4 DEF CountsAt
    <3> QED BY <2>1, <2>3, <3>1, <3>3, <3>4, <3>5 DEF CountsAt
  <2>5. CASE f.status = "failed"
    <3>1. RegisteredRows(r)' = RegisteredRows(r) /\ FailedRows(r)' = FailedRows(r) \cup {f}
      BY <2>1, <2>2, <2>5 DEF RegisteredRows, FailedRows
    <3>2. f \notin FailedRows(r)
      BY <2>2 DEF FailedRows
    <3>3. /\ IsFiniteSet(FailedRows(r) \cup {f})
          /\ Cardinality(FailedRows(r) \cup {f}) = Cardinality(FailedRows(r)) + 1
      BY <3>2, FS_AddElement DEF CountsAt
    <3>4. local'[r].registered = local[r].registered /\ local'[r].failed = local[r].failed + 1
      BY <2>1, <2>5
    <3>5. local'[r].registered + local'[r].failed = cur'[r] - 1
      BY <1>1, <3>4 DEF CountsAt
    <3>6. Cardinality(FailedRows(r)) \in Nat /\ Cardinality(local[r].duplicates) \in Nat
      BY FS_CardinalityType DEF CountsAt
    <3>7. local'[r].failed = Cardinality(FailedRows(r)') + Cardinality(local'[r].duplicates)
      BY <2>1, <3>1, <3>3, <3>4, <3>6 DEF CountsAt
    <3> QED BY <2>1, <2>3, <3>1, <3>3, <3>4, <3>5, <3>7 DEF CountsAt
  <2> QED BY <2>1, <2>4, <2>5
<1>7. CASE NewDuplicate(r)
  <2>1. PICK d \in Duplicate :
          /\ d.id = TheFileId(r)
          /\ FilesOf(r)' = FilesOf(r) /\ local'[r].duplicates = local[r].duplicates \cup {d}
          /\ local'[r].registered = local[r].registered /\ local'[r].failed = local[r].failed + 1
    BY <1>7 DEF NewDuplicate
  <2>2. d.id = <<r, cur[r]>> /\ d.id[1] = r /\ d.id[2] < cur'[r] /\ d \notin local[r].duplicates
    BY <1>5, <2>1, NoVerdictYet DEF TheFileId
  <2>3. VerdictsAt(r)'
    <3>1. \A g \in FilesOf(r) : g.id[1] = r /\ g.id[2] < cur'[r]
      BY <1>3, <1>4 DEF VerdictsAt
    <3>2. \A e \in local[r].duplicates : e.id[1] = r /\ e.id[2] < cur'[r]
      BY <1>3, <1>4 DEF VerdictsAt
    <3>3. \A g \in FilesOf(r) : g.id # d.id
      BY <2>2, NoVerdictYet
    <3>4. \A e \in local[r].duplicates : e.id # d.id
      BY <2>2, NoVerdictYet
    <3>5. \A i \in 1..(cur'[r] - 1) : \/ \E g \in FilesOf(r) : g.id = <<r, i>>
                                      \/ \E e \in local[r].duplicates \cup {d} : e.id = <<r, i>>
      BY <1>2, <2>2 DEF VerdictsAt
    <3>6. \A e \in local[r].duplicates \cup {d} : e.id[1] = r /\ e.id[2] < cur'[r]
      BY <2>2, <3>2
    <3>7. \A e, x \in local[r].duplicates \cup {d} : e.id = x.id => e = x
      BY <3>4, Zenon DEF VerdictsAt
    <3>8. \A f \in FilesOf(r), e \in local[r].duplicates \cup {d} : f.id # e.id
      BY <3>3 DEF VerdictsAt
    <3>9. \A f, g \in FilesOf(r) : f.id = g.id => f = g
      BY DEF VerdictsAt
    <3>10. FilesOf(r)' = FilesOf(r) /\ local'[r].duplicates = local[r].duplicates \cup {d}
      BY <2>1
    <3> HIDE <2>1, <2>2
    <3> QED BY <3>1, <3>5, <3>6, <3>7, <3>8, <3>9, <3>10, SMTT(30) DEF VerdictsAt
  <2>4. CountsAt(r)'
    <3>1. RegisteredRows(r)' = RegisteredRows(r) /\ FailedRows(r)' = FailedRows(r)
      BY <2>1 DEF RegisteredRows, FailedRows
    <3>2. /\ IsFiniteSet(local[r].duplicates \cup {d})
          /\ Cardinality(local[r].duplicates \cup {d}) = Cardinality(local[r].duplicates) + 1
      BY <2>2, FS_AddElement DEF CountsAt
    <3>3. Cardinality(FailedRows(r)) \in Nat /\ Cardinality(local[r].duplicates) \in Nat
      BY FS_CardinalityType DEF CountsAt
    <3>4. local'[r].registered + local'[r].failed = cur'[r] - 1
      BY <1>1, <2>1 DEF CountsAt
    <3>5. local'[r].failed = Cardinality(FailedRows(r)') + Cardinality(local'[r].duplicates)
      BY <2>1, <3>1, <3>2, <3>3 DEF CountsAt
    <3> QED BY <2>1, <3>1, <3>2, <3>4, <3>5 DEF CountsAt
  <2> QED BY <2>3, <2>4
<1> QED BY <1>6, <1>7 DEF NewVerdict

-----------------------------------------------------------------------------
(* The row of a batch.                                                     *)

\* Where labels are, as far as rows are concerned.
LEMMA RowLabels ==
    /\ Unbegun \cap InBatch = {} /\ {"done", "lost"} \cap (Unbegun \cup InBatch) = {}
    /\ {"next", "sweep", "complete", "answer"} \cap Unbegun = {}
    /\ {"next", "sweep", "complete", "answer"} \cap AtUpload = {}
    /\ AtUpload \subseteq InBatch \ {"answer"}
BY DEF Unbegun, AtUpload, InBatch

\* Moving on within the batch, before it or out of it leaves what the row says alone.
LEMMA RowMove ==
    ASSUME NEW r, SameLedger(r), RowAt(r), batches'[r] = batches[r],
           \/ pc'[r] = pc[r] \/ pc'[r] \in {"done", "lost"}
           \/ pc[r] \in Unbegun /\ pc'[r] \in Unbegun
           \/ /\ pc[r] \in InBatch \ {"answer"} /\ pc'[r] \in InBatch \ {"answer"}
              /\ pc'[r] = "next" => cur[r] <= Uploads(r) + 1
              /\ pc'[r] \in {"sweep", "complete"} => cur[r] = Uploads(r) + 1
    PROVE  RowAt(r)'
<1>1. Uploads(r)' = Uploads(r) /\ (Settled(r)' <=> Settled(r))
  BY DEF SameLedger, Uploads, Settled
<1>2. CASE pc'[r] = pc[r]
  BY <1>1, <1>2 DEF SameLedger, RowAt
<1>3. CASE pc'[r] \in {"done", "lost"}
  BY <1>1, <1>3, RowLabels DEF SameLedger, RowAt
<1>4. CASE pc[r] \in Unbegun /\ pc'[r] \in Unbegun
  BY <1>1, <1>4, RowLabels DEF SameLedger, RowAt
<1>5. CASE /\ pc[r] \in InBatch \ {"answer"} /\ pc'[r] \in InBatch \ {"answer"}
           /\ pc'[r] = "next" => cur[r] <= Uploads(r) + 1
           /\ pc'[r] \in {"sweep", "complete"} => cur[r] = Uploads(r) + 1
  BY <1>1, <1>5, RowLabels DEF SameLedger, RowAt
<1> QED BY <1>2, <1>3, <1>4, <1>5

\* A verdict moves cur on, at most past the last upload.
LEMMA RowVerdict ==
    ASSUME TypeOK, Located, NEW r \in Requests, NewVerdict(r), RowAt(r)
    PROVE  RowAt(r)'
<1>1. Uploads(r)' = Uploads(r) /\ batches' = batches /\ (Settled(r)' <=> Settled(r))
  BY DEF NewVerdict, Uploads, Settled
<1>2. pc[r] \in InBatch /\ pc[r] # "answer" /\ pc'[r] = "next" /\ batches[r] # None
  BY RowLabels DEF NewVerdict, Located, LocatedAt
<1>3. ~ Settled(r)
  BY <1>2 DEF RowAt
<1>4. cur'[r] <= Uploads(r) + 1
  <2>1. cmd[r] \in Commands /\ cur[r] \in DOMAIN cmd[r].files
    BY DEF TypeOK, Located, LocatedAt, NewVerdict
  <2>2. Len(cmd[r].files) \in Nat /\ cur[r] \in 1..Len(cmd[r].files)
    BY <2>1, CommandType
  <2> QED BY <2>2 DEF NewVerdict, Uploads
<1>5. cmd' = cmd
  BY DEF NewVerdict
<1> QED BY <1>1, <1>2, <1>3, <1>4, <1>5, RowLabels DEF RowAt

\* create_batch opens the batch with a row of its command.
LEMMA RowCreated ==
    ASSUME TypeOK, Located, NEW r \in Requests, CreateBatch(r), VerdictsAt(r), RowAt(r)
    PROVE  RowAt(r)'
<1> USE DEF registryVars, diskVars
<1>1. SameLedger(r)
  BY QuietStep DEF Step, CreateBatch, RegisterWrite, RecordFailure
<1>2. CASE BatchesWith(cmd[r].key) # {}
  <2>1. pc'[r] = "done" /\ batches' = batches
    BY <1>2 DEF CreateBatch, Return, Goto, TypeOK
  <2> QED BY <1>1, <2>1, RowMove
<1>3. CASE BatchesWith(cmd[r].key) = {}
  <2> DEFINE row == [key |-> cmd[r].key, fingerprint |-> Fingerprint(cmd[r]), status |-> "receiving",
                     total |-> Len(cmd[r].files), registered |-> 0, failed |-> 0]
  <2>1. batches'[r] = row /\ pc'[r] = "next"
    BY <1>3 DEF CreateBatch, TypeOK, Goto
  <2>2. row \in BatchRow /\ row # None
    BY NewRowType, NoneAssumption DEF NoneAssumption, CreateBatch
  <2>3. row.status = "receiving" /\ row.key = cmd[r].key /\ row.total = Uploads(r)
    BY DEF Uploads
  <2>4. ~ Settled(r)'
    BY <2>1, <2>3 DEF Settled
  <2>5. cur'[r] = 1 /\ cmd' = cmd /\ Uploads(r)' = Uploads(r)
    BY <1>1 DEF SameLedger, CreateBatch, RowAt, Unbegun, Uploads
  <2>6. Uploads(r) \in Nat /\ Uploads(r) > 0
    <3>1. cmd[r] \in Commands /\ cmd[r].files # << >>
      BY DEF TypeOK, CreateBatch, Located, LocatedAt, OnLoop, Rejected
    <3>2. cmd[r].files \in Seq(Upload) /\ Len(cmd[r].files) \in Nat
      BY <3>1, CommandType
    <3>3. Len(cmd[r].files) > 0
      BY <3>1, <3>2, EmptySeq
    <3> QED BY <3>2, <3>3 DEF Uploads
  <2>7. "next" \notin Unbegun
    BY DEF Unbegun
  <2> HIDE DEF row
  <2> QED BY <2>1, <2>2, <2>3, <2>4, <2>5, <2>6, <2>7 DEF RowAt
<1> QED BY <1>2, <1>3

\* complete_batch settles the row with the counters.
LEMMA RowCompleted ==
    ASSUME TypeOK, Located, NEW r \in Requests, CompleteBatch(r), RowAt(r)
    PROVE  RowAt(r)'
<1> USE DEF registryVars, diskVars
<1>1. SameLedger(r)
  BY QuietStep DEF Step, CompleteBatch, RegisterWrite, RecordFailure
<1>2. pc[r] = "complete" /\ pc'[r] = "answer"
  BY DEF CompleteBatch, Goto, TypeOK
<1>3. batches[r] \in BatchRow /\ batches[r] # None /\ ~ Settled(r)
  BY <1>2, RowLabels DEF Located, LocatedAt, RowAt, InBatch, TypeOK
<1>4. batches'[r] = [batches[r] EXCEPT !.status = Summary(local[r].registered, Len(cmd[r].files)),
                       !.registered = local[r].registered, !.failed = local[r].failed]
  BY DEF CompleteBatch, TypeOK
<1>5. /\ batches'[r].status = Summary(local[r].registered, Uploads(r))
      /\ batches'[r].registered = local[r].registered /\ batches'[r].failed = local[r].failed
      /\ batches'[r].key = batches[r].key /\ batches'[r].total = batches[r].total
  BY <1>3, <1>4 DEF BatchRow, Uploads
<1>6. batches'[r] # None
  BY <1>2, <1>4, SettledRowType, NoneAssumption DEF NoneAssumption
<1>7. batches'[r].status # "receiving"
  BY <1>5 DEF Summary
<1>8. Settled(r)'
  BY <1>6, <1>7 DEF Settled
<1>9. Uploads(r)' = Uploads(r) /\ cur'[r] = Uploads(r) + 1
  BY <1>1, <1>2 DEF SameLedger, Uploads, RowAt
<1>10. "answer" \notin Unbegun
  BY DEF Unbegun
<1> QED BY <1>1, <1>2, <1>3, <1>5, <1>6, <1>8, <1>9, <1>10 DEF SameLedger, RowAt

\* The 201 withdraws a row that no record names.
LEMMA RowAnswered ==
    ASSUME TypeOK, Located, NEW r \in Requests, AnswerBatch(r), RowAt(r)
    PROVE  RowAt(r)'
<1> USE DEF registryVars, diskVars
<1>1. SameLedger(r)
  BY QuietStep DEF Step, AnswerBatch, RegisterWrite, RecordFailure
<1>2. pc'[r] = "done"
  BY DEF AnswerBatch, Return, Goto, TypeOK
<1>3. CASE batches' = batches
  BY <1>1, <1>2, <1>3, RowMove
<1>4. CASE OnlyDuplicates(r) /\ DeleteEmptyBatch(r)
  <2>1. batches'[r] = None /\ FilesOf(r)' = {}
    BY <1>1, <1>4 DEF DeleteEmptyBatch, OnlyDuplicates, SameLedger, TypeOK
  <2>2. ~ Settled(r)'
    BY <2>1 DEF Settled
  <2> QED BY <1>2, <2>1, <2>2, RowLabels DEF RowAt
<1> QED BY <1>3, <1>4 DEF AnswerBatch

\* The other steps of a request move it on from where it is.
LEMMA RowQuiet ==
    ASSUME TypeOK, Located, NEW r \in Requests, RowAt(r),
           \/ /\ Step(r) /\ ~ RegisterWrite(r) /\ ~ RecordFailure(r)
              /\ ~ CreateBatch(r) /\ ~ CompleteBatch(r) /\ ~ AnswerBatch(r)
           \/ RegistryFault(r) \/ StorageFault(r)
    PROVE  RowAt(r)'
<1> USE DEF registryVars, diskVars, taskVars, budgetVars
<1>1. SameLedger(r)
  BY QuietStep
<1>2. batches' = batches
  BY DEF Step, Receive, LookupKey, Replay, Admit, OpenStaging, WriteChunk, EndOfUpload, Promote, Tidy,
     Discard, RegisterRead, LeaveLoop, Sweep, Unwind, RegistryFault, StorageFault
<1>3. ASSUME NEW label, Goto(r, label) PROVE pc'[r] = label
  BY <1>3 DEF Goto, TypeOK
<1>4. ASSUME NEW label \in {"done", "lost"}, Goto(r, label) PROVE RowAt(r)'
  BY <1>1, <1>2, <1>3, <1>4, RowMove
<1>5. ASSUME NEW a, Return(r, a) PROVE RowAt(r)'
  BY <1>4, <1>5 DEF Return
<1>6. ASSUME NEW label \in Unbegun, Goto(r, label), pc[r] \in Unbegun PROVE RowAt(r)'
  BY <1>1, <1>2, <1>3, <1>6, RowMove
<1>7. ASSUME NEW label \in AtUpload \cup {"unwind"}, Goto(r, label), pc[r] \in InBatch \ {"answer"}
      PROVE  RowAt(r)'
  <2>1. pc'[r] \in InBatch \ {"answer"} /\ pc'[r] \notin {"next", "sweep", "complete"}
    BY <1>3, <1>7 DEF InBatch, AtUpload
  <2> QED BY <1>1, <1>2, <1>7, <2>1, RowMove
<1>8. ASSUME UNCHANGED pc PROVE RowAt(r)'
  BY <1>1, <1>2, <1>8, RowMove
<1>9. ASSUME NEW label \in {"sweep", "complete"}, Goto(r, label), pc[r] \in InBatch \ {"answer"},
             cur[r] = Uploads(r) + 1
      PROVE  RowAt(r)'
  <2>1. pc'[r] \in InBatch \ {"answer"} /\ pc'[r] # "next"
    BY <1>3, <1>9 DEF InBatch
  <2> QED BY <1>1, <1>2, <1>9, <2>1, RowMove
<1>10. CASE Receive(r) \/ LookupKey(r) \/ Replay(r) \/ Unwind(r)
  <2>1. {"lookup", "create", "replay"} \subseteq Unbegun /\ {"new", "lookup"} \subseteq Unbegun
    BY DEF Unbegun
  <2> QED BY <1>5, <1>6, <1>10, <2>1 DEF Receive, LookupKey, Replay, Unwind
<1>11. CASE Admit(r) \/ OpenStaging(r) \/ WriteChunk(r) \/ EndOfUpload(r) \/ Promote(r) \/ Tidy(r)
         \/ Discard(r) \/ RegisterRead(r)
  <2>1. pc[r] \in InBatch \ {"answer"}
    BY <1>11 DEF Admit, OpenStaging, WriteChunk, EndOfUpload, Promote, Tidy, Discard, RegisterRead,
       InBatch, AtUpload
  <2>2. UNCHANGED pc \/ \E label \in AtUpload : Goto(r, label)
    BY <1>11 DEF Admit, OpenStaging, WriteChunk, EndOfUpload, Promote, Tidy, Discard, RegisterRead,
       FailWith, AtUpload
  <2> QED BY <1>7, <1>8, <2>1, <2>2
<1>12. CASE LeaveLoop(r)
  <2>1. pc[r] = "next" /\ cur[r] > Len(cmd[r].files) /\ (Goto(r, "sweep") \/ Goto(r, "complete"))
    BY <1>12 DEF LeaveLoop
  <2>2. cur[r] \in Nat /\ Uploads(r) \in Nat /\ cur[r] <= Uploads(r) + 1
    BY <2>1, CommandType DEF TypeOK, Uploads, RowAt
  <2>3. cur[r] = Uploads(r) + 1
    BY <2>1, <2>2 DEF Uploads
  <2>4. pc[r] \in InBatch \ {"answer"}
    BY <2>1 DEF InBatch
  <2> QED BY <1>9, <2>1, <2>3, <2>4
<1>13. CASE Sweep(r)
  BY <1>9, <1>13 DEF Sweep, InBatch, RowAt
<1>14. CASE RegistryFault(r)
  <2>1. ASSUME pc[r] \in {"register", "insert", "reuse", "record"}
        PROVE  pc[r] \in InBatch \ {"answer"} /\ "record" \in AtUpload
    BY <2>1 DEF InBatch, AtUpload
  <2> QED BY <1>5, <1>7, <1>14, <2>1 DEF RegistryFault, FailWith
<1>15. CASE StorageFault(r)
  <2>1. ASSUME pc[r] \in {"open", "write", "promote", "tidy", "discard", "next", "sweep"}
        PROVE  pc[r] \in InBatch \ {"answer"} /\ {"discard", "record"} \subseteq AtUpload
    BY <2>1 DEF InBatch, AtUpload
  <2>2. pc[r] = "sweep" => cur[r] = Uploads(r) + 1
    BY DEF RowAt
  <2> QED BY <1>5, <1>7, <1>9, <1>15, <2>1, <2>2 DEF StorageFault, FailWith
<1> QED BY <1>10, <1>11, <1>12, <1>13, <1>14, <1>15 DEF Step

-----------------------------------------------------------------------------
(* The ledger is kept.                                                     *)

LedgerAt(r) == VerdictsAt(r) /\ CountsAt(r) /\ RowAt(r)

\* A request that does not move keeps its ledger.
LEMMA LedgerFrame ==
    ASSUME NEW q, LedgerAt(q), cmd' = cmd, cur'[q] = cur[q], local'[q] = local[q],
           batches'[q] = batches[q], FilesOf(q)' = FilesOf(q),
           pc'[q] = pc[q] \/ pc'[q] \in {"done", "lost"}
    PROVE  LedgerAt(q)'
<1>1. SameLedger(q)
  BY DEF SameLedger
<1> QED BY <1>1, LedgerKept, RowMove DEF LedgerAt

\* Every step, also a failing one, keeps every request's ledger.
LEMMA LedgerStep == TypeOK /\ Located /\ Ledger /\ [Next]_vars => Ledger'
<1> SUFFICES ASSUME TypeOK, Located, Ledger, [Next]_vars, NEW q \in Requests PROVE LedgerAt(q)'
  BY DEF Ledger, LedgerAt
<1>1. LedgerAt(q)
  BY DEF Ledger, LedgerAt
<1>2. ASSUME NEW r \in Requests, Step(r) PROVE LedgerAt(q)'
  <2>1. CASE q # r
    <3>1. q \in Requests \ {r}
      BY <2>1
    <3> QED BY <1>1, <1>2, <3>1, RowsKept, RecordsKept, LedgerFrame
  <2>2. CASE q = r /\ RegisterWrite(q)
    <3>1. CASE SameLedger(q) /\ pc'[q] = "record"
      <4>1. batches' = batches /\ pc[q] \in InBatch \ {"answer"} /\ pc'[q] \in InBatch \ {"answer"}
        BY <2>2, <3>1 DEF RegisterWrite, registryVars, InBatch, AtUpload
      <4>2. RowAt(q)'
        BY <1>1, <3>1, <4>1, RowMove DEF LedgerAt
      <4> QED BY <1>1, <3>1, <4>2, LedgerKept DEF LedgerAt
    <3>2. CASE NewVerdict(q)
      BY <1>1, <3>2, LedgerGrows, RowVerdict DEF LedgerAt
    <3> QED BY <2>2, <3>1, <3>2, WriteVerdict
  <2>3. CASE q = r /\ RecordFailure(q)
    BY <1>1, <2>3, FailureVerdict, LedgerGrows, RowVerdict DEF LedgerAt
  <2>4. CASE q = r /\ ~ RegisterWrite(q) /\ ~ RecordFailure(q)
    <3>1. VerdictsAt(q)' /\ CountsAt(q)'
      BY <1>1, <1>2, <2>4, QuietStep, LedgerKept DEF LedgerAt
    <3>2. RowAt(q)'
      BY <1>1, <1>2, <2>4, RowCreated, RowCompleted, RowAnswered, RowQuiet DEF LedgerAt
    <3> QED BY <3>1, <3>2 DEF LedgerAt
  <2> QED BY <2>1, <2>2, <2>3, <2>4
<1>3. ASSUME NEW r \in Requests, RegistryFault(r) \/ StorageFault(r) PROVE LedgerAt(q)'
  <2>1. CASE q # r
    <3>1. q \in Requests \ {r}
      BY <2>1
    <3>2. cmd' = cmd /\ cur' = cur /\ batches' = batches /\ pc'[q] = pc[q] /\ local'[q] = local[q]
      BY <1>3, <2>1 DEF RegistryFault, StorageFault, Return, FailWith, Goto, TypeOK, registryVars
    <3> QED BY <1>1, <1>3, <3>1, <3>2, RecordsKept, LedgerFrame
  <2>2. CASE q = r
    BY <1>1, <1>3, <2>2, QuietStep, LedgerKept, RowQuiet DEF LedgerAt
  <2> QED BY <2>1, <2>2
<1>4. ASSUME NEW w \in Workers, Crash(w) PROVE LedgerAt(q)'
  <2>1. /\ cmd' = cmd /\ cur' = cur /\ local' = local /\ batches' = batches /\ files' = files
        /\ pc'[q] = pc[q] \/ pc'[q] = "lost"
    BY <1>4 DEF Crash, registryVars
  <2> QED BY <1>1, <2>1, LedgerFrame DEF FilesOf
<1>5. ASSUME \/ \E c \in Contents : Decay(c)
             \/ UNCHANGED vars
      PROVE  LedgerAt(q)'
  <2>1. UNCHANGED <<cmd, cur, local, batches, files, pc>>
    BY <1>5 DEF Decay, vars, registryVars, taskVars
  <2> QED BY <1>1, <2>1, LedgerFrame DEF FilesOf
<1> QED BY <1>2, <1>3, <1>4, <1>5 DEF Next, Idle

\* Before anything is sent, every ledger is empty.
LEMMA LedgerInit == Init => Ledger
<1> SUFFICES ASSUME Init, NEW r \in Requests PROVE LedgerAt(r)
  BY DEF Ledger, LedgerAt
<1>1. /\ FilesOf(r) = {} /\ FailedRows(r) = {} /\ RegisteredRows(r) = {}
      /\ local[r].duplicates = {} /\ local[r].registered = 0 /\ local[r].failed = 0 /\ cur[r] = 1
  BY DEF Init, FilesOf, FailedRows, RegisteredRows
<1>2. batches[r] = None /\ pc[r] = "new" /\ ~ Settled(r)
  BY DEF Init, Settled
<1>3. VerdictsAt(r) /\ CountsAt(r)
  BY <1>1, FS_EmptySet DEF VerdictsAt, CountsAt
<1>4. RowAt(r)
  BY <1>1, <1>2, RowLabels DEF RowAt, InBatch, AtUpload
<1> QED BY <1>3, <1>4 DEF LedgerAt

\* Every upload before the one a request is at has exactly one verdict, the counters count the
\* verdicts, and the batch's row agrees with them (execute, register_file, complete_batch).
THEOREM LedgerAlways == Spec => []Ledger
<1>1. TypeOK /\ Located /\ Ledger /\ [Next]_vars => Ledger'
  BY LedgerStep
<1> QED BY TypingInvariant, LedgerInit, <1>1, PTL DEF Spec

\* What a ledger says of a settled batch.
LEMMA LedgerSettles == TypeOK /\ Ledger => SettledSummary
<1> SUFFICES ASSUME TypeOK, Ledger, NEW b \in Requests, Settled(b)
             PROVE  LET row == batches[b]
                        registered == Cardinality(FilesOf(b) \ FailedRows(b))
                        rejected == Cardinality(FailedRows(b)) + Cardinality(local[b].duplicates)
                    IN /\ row.registered = registered /\ row.failed = rejected
                       /\ row.total = registered + rejected
                       /\ row.status = "completed" <=> rejected = 0
                       /\ row.status = "failed" <=> registered = 0
  BY DEF SettledSummary
<1>1. local[b].registered \in Nat /\ local[b].failed \in Nat /\ cur[b] \in Nat
  BY DEF TypeOK, Local
<1>2. Uploads(b) \in Nat
  BY CommandType DEF TypeOK, Uploads
<1>3. /\ local[b].registered = Cardinality(FilesOf(b) \ FailedRows(b))
      /\ local[b].failed = Cardinality(FailedRows(b)) + Cardinality(local[b].duplicates)
      /\ local[b].registered + local[b].failed = cur[b] - 1
  BY DEF Ledger, CountsAt, RegisteredRows
<1>4. /\ cur[b] = Uploads(b) + 1 /\ batches[b].total = Uploads(b) /\ Uploads(b) > 0
      /\ batches[b].registered = local[b].registered /\ batches[b].failed = local[b].failed
      /\ batches[b].status = Summary(local[b].registered, Uploads(b))
  BY DEF Ledger, RowAt, Settled
<1>5. Uploads(b) = local[b].registered + local[b].failed
  BY <1>1, <1>2, <1>3, <1>4
<1>6. /\ batches[b].status = "completed" <=> local[b].failed = 0
      /\ batches[b].status = "failed" <=> local[b].registered = 0
  BY <1>1, <1>4, <1>5 DEF Summary
<1> QED BY <1>3, <1>4, <1>5, <1>6

\* A settled batch counts what it holds and its status is the one the counts call for, however
\* many requests, workers, failures and crashes (complete_batch).
THEOREM SummaryAlways == Spec => []SettledSummary
<1>1. TypeOK /\ Ledger => SettledSummary
  BY LedgerSettles
<1> QED BY TypeCorrect, LedgerAlways, <1>1, PTL

-----------------------------------------------------------------------------
(* What a 201 says.                                                        *)

\* A request is answered once, and a 201 reports the tables as they are then: the retry's, or the
\* batch's own.
LEMMA AnswerChange ==
    ASSUME TypeOK, Located, [Next]_vars, NEW r \in Requests
    PROVE  \/ answer'[r] = answer[r]
           \/ pc'[r] = "done" /\ answer'[r] # None /\ ~ IsCreated(answer'[r])
           \/ /\ Replay(r) /\ local[r].target \in Requests /\ batches[local[r].target] # None
              /\ pc'[r] = "done" /\ answer'[r] = Created(local[r].target, {})
           \/ AnswerBatch(r) /\ pc'[r] = "done" /\ answer'[r] = Created(r, local[r].duplicates)
<1> USE DEF registryVars, diskVars, taskVars, budgetVars
<1>1. ASSUME NEW q \in Requests \ {r}, Step(q) \/ RegistryFault(q) \/ StorageFault(q)
      PROVE  answer'[r] = answer[r]
  <2>1. r \in Requests \ {q}
    BY <1>1
  <2> QED BY <1>1, <2>1, RecordsKept
<1>2. ASSUME NEW a, Return(r, a) PROVE answer'[r] = a /\ pc'[r] = "done"
  BY <1>2 DEF Return, Goto, TypeOK
<1>3. ASSUME NEW code \in {"rejected", "idempotency-conflict", "internal-error"},
             Return(r, Problem(code))
      PROVE  pc'[r] = "done" /\ answer'[r] # None /\ ~ IsCreated(answer'[r])
  <2>1. Problem(code) # None
    BY AnswerType, NoneAssumption DEF NoneAssumption
  <2> QED BY <1>2, <1>3, <2>1 DEF IsCreated, Problem
<1>4. CASE Replay(r)
  <2>1. local[r].target \in Requests
    BY <1>4 DEF Replay, Located, LocatedAt, TypeOK, Local
  <2> QED BY <1>2, <1>3, <1>4, <2>1 DEF Replay
<1>5. CASE AnswerBatch(r)
  BY <1>2, <1>5 DEF AnswerBatch
<1>6. CASE Step(r) /\ ~ Replay(r) /\ ~ AnswerBatch(r)
  <2>1. UNCHANGED answer
          \/ \E code \in {"rejected", "idempotency-conflict", "internal-error"} : Return(r, Problem(code))
    BY <1>6 DEF Step, Receive, LookupKey, CreateBatch, Admit, OpenStaging, WriteChunk, EndOfUpload,
       Promote, Tidy, Discard, RegisterRead, RegisterWrite, RecordFailure, LeaveLoop, Sweep, Unwind,
       CompleteBatch, FailWith
  <2> QED BY <1>3, <2>1
<1>7. CASE RegistryFault(r) \/ StorageFault(r)
  BY <1>3, <1>7 DEF RegistryFault, StorageFault, FailWith
<1>8. ASSUME (\E w \in Workers : Crash(w)) \/ (\E c \in Contents : Decay(c)) \/ UNCHANGED vars
      PROVE  answer' = answer
  BY <1>8 DEF Crash, Decay, vars
<1> QED BY <1>1, <1>4, <1>5, <1>6, <1>7, <1>8 DEF Next, Idle

\* No record is ever removed, and no command changes.
LEMMA OnlyMore ==
    ASSUME TypeOK, Located, [Next]_vars
    PROVE  /\ files \subseteq files' /\ cmd' = cmd
           /\ \A b \in Requests : FilesOf(b) \subseteq FilesOf(b)'
<1> USE DEF registryVars, diskVars, taskVars, budgetVars
<1>1. ASSUME NEW r \in Requests, Step(r) PROVE files \subseteq files' /\ cmd' = cmd
  BY <1>1 DEF Step, Receive, LookupKey, Replay, CreateBatch, Admit, OpenStaging, WriteChunk,
     EndOfUpload, Promote, Tidy, Discard, RegisterRead, RegisterWrite, RecordFailure, LeaveLoop,
     Sweep, Unwind, CompleteBatch, AnswerBatch
<1>2. ASSUME NEW r \in Requests, RegistryFault(r) \/ StorageFault(r) PROVE UNCHANGED <<files, cmd>>
  BY <1>2 DEF RegistryFault, StorageFault
<1>3. ASSUME (\E w \in Workers : Crash(w)) \/ (\E c \in Contents : Decay(c)) \/ UNCHANGED vars
      PROVE  UNCHANGED <<files, cmd>>
  BY <1>3 DEF Crash, Decay, vars
<1>4. files \subseteq files' /\ cmd' = cmd
  BY <1>1, <1>2, <1>3 DEF Next, Idle
<1> QED BY <1>4 DEF FilesOf

\* Once a batch is settled and holds a record, no step changes its row or its records.
LEMMA SettledStands ==
    ASSUME TypeOK, Located, Ledger, [Next]_vars, NEW b \in Requests, Settled(b), FilesOf(b) # {}
    PROVE  batches'[b] = batches[b] /\ FilesOf(b)' = FilesOf(b)
<1> USE DEF registryVars, diskVars, taskVars, budgetVars
<1>1. RowAt(b) /\ batches[b] # None
  BY DEF Ledger, Settled
<1>2. pc[b] \notin Unbegun /\ (pc[b] \in InBatch => pc[b] = "answer")
  BY <1>1 DEF RowAt
<1>3. ASSUME UNCHANGED <<batches, files>> PROVE batches'[b] = batches[b] /\ FilesOf(b)' = FilesOf(b)
  BY <1>3 DEF FilesOf
<1>4. ASSUME NEW r \in Requests, Step(r) PROVE batches'[b] = batches[b] /\ FilesOf(b)' = FilesOf(b)
  <2>1. CASE r # b
    <3>1. b \in Requests \ {r}
      BY <2>1
    <3> QED BY <1>4, <3>1, RowsKept, RecordsKept
  <2>2. CASE r = b /\ AnswerBatch(b)
    BY <1>3, <2>2 DEF AnswerBatch, OnlyDuplicates
  <2>3. CASE r = b /\ ~ AnswerBatch(b)
    <3>1. ~ CreateBatch(b)
      BY <1>2 DEF CreateBatch, Unbegun
    <3>2. ~ CompleteBatch(b) /\ ~ RegisterWrite(b) /\ ~ RecordFailure(b)
      BY <1>2 DEF CompleteBatch, RegisterWrite, RecordFailure, InBatch, AtUpload
    <3>3. UNCHANGED <<batches, files>>
      BY <1>4, <2>3, <3>1, <3>2 DEF Step, Receive, LookupKey, Replay, Admit, OpenStaging, WriteChunk,
         EndOfUpload, Promote, Tidy, Discard, RegisterRead, LeaveLoop, Sweep, Unwind
    <3> QED BY <1>3, <3>3
  <2> QED BY <2>1, <2>2, <2>3
<1>5. ASSUME NEW r \in Requests, RegistryFault(r) \/ StorageFault(r) PROVE UNCHANGED <<batches, files>>
  BY <1>5 DEF RegistryFault, StorageFault
<1>6. ASSUME (\E w \in Workers : Crash(w)) \/ (\E c \in Contents : Decay(c)) \/ UNCHANGED vars
      PROVE  UNCHANGED <<batches, files>>
  BY <1>6 DEF Crash, Decay, vars
<1> QED BY <1>3, <1>4, <1>5, <1>6 DEF Next, Idle

\* A request that was answered has ended: nothing of it changes any more, except that other
\* requests' steps are possible.
LEMMA DoneStays ==
    ASSUME TypeOK, Located, [Next]_vars, NEW r \in Requests, pc[r] = "done"
    PROVE  /\ pc'[r] = "done" /\ cur'[r] = cur[r] /\ local'[r] = local[r]
           /\ FilesOf(r)' = FilesOf(r) /\ answer'[r] = answer[r]
<1> USE DEF registryVars, diskVars, taskVars, budgetVars
<1>1. ASSUME NEW q \in Requests, Step(q) PROVE q # r
  BY <1>1 DEF Step, Receive, LookupKey, Replay, CreateBatch, Admit, OpenStaging, WriteChunk,
     EndOfUpload, Promote, Tidy, Discard, RegisterRead, RegisterWrite, RecordFailure, LeaveLoop,
     Sweep, Unwind, CompleteBatch, AnswerBatch
<1>2. ASSUME NEW q \in Requests, RegistryFault(q) \/ StorageFault(q) PROVE q # r
  BY <1>2 DEF RegistryFault, StorageFault
<1>3. ASSUME NEW q \in Requests, Step(q)
      PROVE  /\ pc'[r] = "done" /\ cur'[r] = cur[r] /\ local'[r] = local[r]
             /\ FilesOf(r)' = FilesOf(r) /\ answer'[r] = answer[r]
  <2>1. r \in Requests \ {q}
    BY <1>1, <1>3
  <2> QED BY <1>3, <2>1, RowsKept, RecordsKept
<1>4. ASSUME NEW q \in Requests, RegistryFault(q) \/ StorageFault(q)
      PROVE  /\ pc'[r] = "done" /\ cur'[r] = cur[r] /\ local'[r] = local[r]
             /\ FilesOf(r)' = FilesOf(r) /\ answer'[r] = answer[r]
  <2>1. r \in Requests \ {q}
    BY <1>2, <1>4
  <2>2. pc'[r] = pc[r] /\ cur' = cur /\ local'[r] = local[r]
    BY <1>4, <2>1 DEF RegistryFault, StorageFault, Return, FailWith, Goto, TypeOK
  <2> QED BY <1>4, <2>1, <2>2, RecordsKept
<1>5. ASSUME (\E w \in Workers : Crash(w)) \/ (\E c \in Contents : Decay(c)) \/ UNCHANGED vars
      PROVE  pc'[r] = "done" /\ UNCHANGED <<cur, local, files, answer>>
  BY <1>5 DEF Crash, Decay, vars
<1> QED BY <1>3, <1>4, <1>5 DEF Next, Idle, FilesOf

\* What a retry found: a batch of its key that is not its own.
LEMMA ReplayStep ==
    ASSUME TypeOK, Located, Ledger, Answers, [Next]_vars, NEW r \in Requests, pc'[r] = "replay"
    PROVE  local'[r].target # r /\ cmd[local'[r].target].key = cmd[r].key
<1> USE DEF registryVars, diskVars, taskVars, budgetVars
<1>1. ASSUME pc[r] = "replay", local'[r] = local[r]
      PROVE  local'[r].target # r /\ cmd[local'[r].target].key = cmd[r].key
  BY <1>1 DEF Answers, AnswerAt
<1>2. ASSUME NEW q \in Requests \ {r}, Step(q)
      PROVE  local'[r].target # r /\ cmd[local'[r].target].key = cmd[r].key
  <2>1. r \in Requests \ {q}
    BY <1>2
  <2> QED BY <1>1, <1>2, <2>1, RowsKept
<1>3. CASE LookupKey(r)
  <2>1. PICK b \in BatchesWith(cmd[r].key) : local' = [local EXCEPT ![r].target = b]
    <3>1. ASSUME NEW label \in {"create", "done"}, Goto(r, label) PROVE FALSE
      BY <3>1 DEF Goto, TypeOK
    <3> QED BY <1>3, <3>1 DEF LookupKey, Return
  <2>2. b \in Requests /\ batches[b] # None /\ batches[b].key = cmd[r].key
    BY <2>1 DEF BatchesWith
  <2>3. local'[r].target = b
    BY <2>1 DEF TypeOK, Local
  <2>4. b # r
    BY <1>3, <2>2 DEF LookupKey, Ledger, RowAt, Unbegun
  <2>5. batches[b].key = cmd[b].key
    BY <2>2 DEF Ledger, RowAt
  <2> QED BY <2>2, <2>3, <2>4, <2>5
<1>4. ASSUME Step(r), ~ LookupKey(r) PROVE FALSE
  BY <1>4, ZenonT(60) DEF Step, Receive, Replay, CreateBatch, Admit, OpenStaging, WriteChunk,
     EndOfUpload, Promote, Tidy, Discard, RegisterRead, RegisterWrite, RecordFailure, LeaveLoop,
     Sweep, Unwind, CompleteBatch, AnswerBatch, FailWith, Return, Goto, TypeOK
<1>5. ASSUME NEW q \in Requests, RegistryFault(q) \/ StorageFault(q)
      PROVE  pc[r] = "replay" /\ local'[r] = local[r]
  BY <1>5 DEF RegistryFault, StorageFault, Return, FailWith, Goto, TypeOK
<1>6. ASSUME (\E w \in Workers : Crash(w)) \/ (\E c \in Contents : Decay(c)) \/ UNCHANGED vars
      PROVE  pc[r] = "replay" /\ local' = local
  BY <1>6 DEF Crash, Decay, vars
<1> QED BY <1>1, <1>2, <1>3, <1>4, <1>5, <1>6 DEF Next, Idle

\* A 201 names a batch.
LEMMA CreatedType ==
    ASSUME TypeOK, NEW r \in Requests, IsCreated(answer[r])
    PROVE  /\ answer[r].batch \in Requests /\ answer[r].row \in BatchRow
           /\ answer[r].files \subseteq FileRow
<1>1. answer[r] \in Answer /\ answer[r].status = "created"
  BY DEF TypeOK, IsCreated
<1>2. \A code \in {"rejected", "idempotency-conflict", "internal-error"} : answer[r] # Problem(code)
  BY <1>1 DEF Problem
<1> QED BY <1>1, <1>2 DEF Answer

\* What has to be said of a batch that a new or an old 201 names.
LEMMA AnswerFrom ==
    ASSUME NEW r \in Requests, NEW b \in Requests, cmd' = cmd, pc'[r] = "done", answer'[r].batch = b,
           cmd[b].key = cmd[r].key, answer'[r].files \subseteq FilesOf(b)',
           b = r => /\ cur'[r] = Uploads(r)' + 1
                    /\ answer'[r].files = FilesOf(r)' /\ answer'[r].duplicates = local'[r].duplicates
    PROVE  AnswerAt(r)'
<1>1. {f \in files : f.batch = answer[r].batch}' = FilesOf(b)'
  BY DEF FilesOf
<1>2. (answer[r].files \subseteq FilesOf(answer[r].batch))'
  BY <1>1 DEF FilesOf
<1> QED BY <1>2 DEF AnswerAt

\* Every step keeps what the answers say.
LEMMA AnswerStep == TypeOK /\ Located /\ Ledger /\ Answers /\ [Next]_vars => Answers'
<1> SUFFICES ASSUME TypeOK, Located, Ledger, Answers, [Next]_vars, NEW r \in Requests
             PROVE  AnswerAt(r)'
  BY DEF Answers
<1>1. AnswerAt(r) /\ cmd' = cmd
  BY OnlyMore DEF Answers
<1>2. (pc[r] = "replay" => local[r].target # r /\ cmd[local[r].target].key = cmd[r].key)'
  BY <1>1, ReplayStep
<1>3. CASE answer'[r] = answer[r]
  <2>1. CASE answer[r] = None
    BY <1>2, <1>3, <2>1 DEF AnswerAt, IsCreated
  <2>2. CASE answer[r] # None
    <3>1. /\ pc'[r] = "done" /\ cur'[r] = cur[r] /\ local'[r] = local[r]
          /\ FilesOf(r)' = FilesOf(r)
      BY <1>1, <2>2, DoneStays DEF AnswerAt
    <3>2. Uploads(r)' = Uploads(r)
      BY <1>1 DEF Uploads
    <3>3. CASE ~ IsCreated(answer[r])
      BY <1>2, <1>3, <3>1, <3>3 DEF AnswerAt, IsCreated
    <3>4. CASE IsCreated(answer[r])
      <4>1. PICK b \in Requests : b = answer[r].batch
        BY <3>4, CreatedType
      <4>2. answer[r].files \subseteq FilesOf(b)'
        BY <1>1, <3>4, <4>1, OnlyMore DEF AnswerAt
      <4>3. cmd[b].key = cmd[r].key
        BY <1>1, <3>4, <4>1 DEF AnswerAt
      <4>4. b = r => /\ cur[r] = Uploads(r) + 1
                     /\ answer[r].files = FilesOf(r) /\ answer[r].duplicates = local[r].duplicates
        BY <1>1, <3>4, <4>1 DEF AnswerAt
      <4> QED BY <1>1, <1>3, <3>1, <3>2, <4>1, <4>2, <4>3, <4>4, AnswerFrom
    <3> QED BY <3>3, <3>4
  <2> QED BY <2>1, <2>2
<1>4. CASE pc'[r] = "done" /\ answer'[r] # None /\ ~ IsCreated(answer'[r])
  BY <1>2, <1>4 DEF AnswerAt, IsCreated
<1>5. ASSUME Replay(r), local[r].target \in Requests, pc'[r] = "done",
             answer'[r] = Created(local[r].target, {})
      PROVE  AnswerAt(r)'
  <2>0. PICK b \in Requests : b = local[r].target
    BY <1>5
  <2>1. b # r /\ cmd[b].key = cmd[r].key
    BY <1>1, <1>5, <2>0 DEF Replay, AnswerAt
  <2>2. answer'[r].batch = b /\ answer'[r].files = FilesOf(b)
    BY <1>5, <2>0 DEF Created
  <2>3. FilesOf(b) \subseteq FilesOf(b)'
    BY <1>5, OnlyMore
  <2> QED BY <1>1, <1>5, <2>1, <2>2, <2>3, AnswerFrom
<1>6. ASSUME AnswerBatch(r), pc'[r] = "done", answer'[r] = Created(r, local[r].duplicates)
      PROVE  AnswerAt(r)'
  <2>1. answer'[r].batch = r /\ answer'[r].files = FilesOf(r) /\ answer'[r].duplicates = local[r].duplicates
    BY <1>6 DEF Created
  <2>2. FilesOf(r)' = FilesOf(r) /\ local' = local /\ cur' = cur
    BY <1>6 DEF AnswerBatch, Return, FilesOf
  <2>3. cur[r] = Uploads(r) + 1 /\ Uploads(r)' = Uploads(r)
    BY <1>1, <1>6 DEF AnswerBatch, Ledger, RowAt, Uploads
  <2> QED BY <1>1, <1>6, <2>1, <2>2, <2>3, AnswerFrom
<1> QED BY <1>3, <1>4, <1>5, <1>6, AnswerChange

\* No request is answered at first.
LEMMA AnswerInit == Init => Answers
BY DEF Init, Answers, AnswerAt, IsCreated

\* The request's ledger and its 201 together, through every step.
LEMMA AnswersKept == Spec => [](TypeOK /\ Located /\ Ledger /\ Answers)
<1>1. Init => Answers
  BY AnswerInit
<1>2. TypeOK /\ Located /\ Ledger /\ Answers /\ [Next]_vars => Answers'
  BY AnswerStep
<1> QED BY TypingInvariant, LedgerAlways, <1>1, <1>2, PTL DEF Spec

\* Records and failed records of a batch partition it.
LEMMA RowsCounted ==
    ASSUME NEW r, CountsAt(r)
    PROVE  Cardinality(FilesOf(r)) = Cardinality(RegisteredRows(r)) + Cardinality(FailedRows(r))
<1>1. RegisteredRows(r) \cup FailedRows(r) = FilesOf(r) /\ RegisteredRows(r) \cap FailedRows(r) = {}
  BY DEF RegisteredRows, FailedRows
<1>2. /\ IsFiniteSet(RegisteredRows(r)) /\ IsFiniteSet(FailedRows(r))
      /\ Cardinality(RegisteredRows(r)) \in Nat /\ Cardinality(FailedRows(r)) \in Nat
  BY FS_CardinalityType DEF CountsAt
<1>3. Cardinality(RegisteredRows(r) \cup FailedRows(r)) =
        Cardinality(RegisteredRows(r)) + Cardinality(FailedRows(r))
          - Cardinality(RegisteredRows(r) \cap FailedRows(r))
  BY <1>2, FS_Union
<1>4. Cardinality(RegisteredRows(r) \cap FailedRows(r)) = 0
  BY <1>1, FS_EmptySet
<1> QED BY <1>1, <1>2, <1>3, <1>4

\* A ledger that has come to its end covers the command.
LEMMA LedgerCovers ==
    ASSUME TypeOK, NEW r \in Requests, VerdictsAt(r), CountsAt(r), cur[r] = Uploads(r) + 1
    PROVE  /\ {f.id : f \in FilesOf(r)} \cup {d.id : d \in local[r].duplicates}
                = {<<r, i>> : i \in DOMAIN cmd[r].files}
           /\ {f.id : f \in FilesOf(r)} \cap {d.id : d \in local[r].duplicates} = {}
           /\ Cardinality(FilesOf(r)) + Cardinality(local[r].duplicates) = Len(cmd[r].files)
<1>1. Uploads(r) \in Nat /\ DOMAIN cmd[r].files = 1..(cur[r] - 1)
  BY CommandType DEF TypeOK, Uploads
<1>2. \A x \in FileId : x[1] = r /\ x[2] < cur[r] => x[2] \in 1..(cur[r] - 1) /\ x = <<r, x[2]>>
  BY <1>1 DEF FileId
<1>3. /\ \A f \in FilesOf(r) : f.id \in FileId
      /\ \A d \in local[r].duplicates : d.id \in FileId
  BY DEF TypeOK, FilesOf, FileRow, Local, Duplicate
<1>4. \A f \in FilesOf(r) : f.id \in {<<r, i>> : i \in DOMAIN cmd[r].files}
  BY <1>1, <1>2, <1>3 DEF VerdictsAt
<1>5. \A d \in local[r].duplicates : d.id \in {<<r, i>> : i \in DOMAIN cmd[r].files}
  BY <1>1, <1>2, <1>3 DEF VerdictsAt
<1>6. \A i \in DOMAIN cmd[r].files :
         <<r, i>> \in {f.id : f \in FilesOf(r)} \cup {d.id : d \in local[r].duplicates}
  <2> SUFFICES ASSUME NEW i \in 1..(cur[r] - 1)
               PROVE  <<r, i>> \in {f.id : f \in FilesOf(r)} \cup {d.id : d \in local[r].duplicates}
    BY <1>1
  <2>1. \/ \E f \in FilesOf(r) : f.id = <<r, i>>
        \/ \E d \in local[r].duplicates : d.id = <<r, i>>
    BY DEF VerdictsAt
  <2> QED BY <2>1
<1>7. {f.id : f \in FilesOf(r)} \cap {d.id : d \in local[r].duplicates} = {}
  BY DEF VerdictsAt
<1>8. /\ local[r].registered = Cardinality(RegisteredRows(r))
      /\ local[r].failed = Cardinality(FailedRows(r)) + Cardinality(local[r].duplicates)
      /\ local[r].registered + local[r].failed = cur[r] - 1
      /\ Cardinality(RegisteredRows(r)) \in Nat /\ Cardinality(FailedRows(r)) \in Nat
      /\ Cardinality(local[r].duplicates) \in Nat
  BY FS_CardinalityType DEF CountsAt
<1>9. Cardinality(FilesOf(r)) + Cardinality(local[r].duplicates) = Len(cmd[r].files)
  BY <1>1, <1>8, RowsCounted DEF Uploads
<1>10. {f.id : f \in FilesOf(r)} \cup {d.id : d \in local[r].duplicates}
          = {<<r, i>> : i \in DOMAIN cmd[r].files}
  <2> HIDE <1>8, <1>9
  <2> QED BY <1>4, <1>5, <1>6
<1> QED BY <1>7, <1>9, <1>10

\* The 201 of the request that made a batch reports every upload exactly once, as a record or as a
\* duplicate, whatever the other workers registered meanwhile (execute).
THEOREM FirstAnswerAlways == Spec => []FirstAnswerComplete
<1>1. TypeOK /\ Ledger /\ Answers => FirstAnswerComplete
  <2> SUFFICES ASSUME TypeOK, Ledger, Answers, NEW r \in Requests, IsCreated(answer[r]), answer[r].batch = r
               PROVE  LET recorded == {f.id : f \in answer[r].files}
                          rejected == {d.id : d \in answer[r].duplicates}
                      IN /\ recorded \cup rejected = {<<r, i>> : i \in DOMAIN cmd[r].files}
                         /\ recorded \cap rejected = {}
                         /\ Cardinality(answer[r].files) + Cardinality(answer[r].duplicates)
                              = Len(cmd[r].files)
    BY DEF FirstAnswerComplete
  <2>1. /\ cur[r] = Uploads(r) + 1
        /\ answer[r].files = FilesOf(r) /\ answer[r].duplicates = local[r].duplicates
    BY DEF Answers, AnswerAt
  <2>2. VerdictsAt(r) /\ CountsAt(r)
    BY DEF Ledger
  <2> QED BY <2>1, <2>2, LedgerCovers
<1> QED BY AnswersKept, <1>1, PTL

\* A 201 that lists records about a settled batch is true of every later state, too
\* (complete_batch, delete_empty_batch).
LEMMA StandsStep == TypeOK /\ Located /\ Ledger /\ Answers /\ AnswerStands /\ [Next]_vars => AnswerStands'
<1> SUFFICES ASSUME TypeOK, Located, Ledger, Answers, AnswerStands, [Next]_vars, NEW r \in Requests,
                    IsCreated(answer'[r]), answer'[r].row.status # "receiving", answer'[r].files # {}
             PROVE  /\ batches'[answer'[r].batch] = answer'[r].row
                    /\ {f \in files' : f.batch = answer'[r].batch} = answer'[r].files
  BY DEF AnswerStands, IsCreated, FilesOf
<1>1. ASSUME NEW b \in Requests, answer'[r].batch = b, batches'[b] = answer'[r].row,
             FilesOf(b)' = answer'[r].files
      PROVE  /\ batches'[answer'[r].batch] = answer'[r].row
             /\ {f \in files' : f.batch = answer'[r].batch} = answer'[r].files
  BY <1>1 DEF FilesOf
<1>2. CASE answer'[r] = answer[r]
  <2>1. PICK b \in Requests : b = answer[r].batch
    BY <1>2, CreatedType
  <2>2. batches[b] = answer[r].row /\ FilesOf(b) = answer[r].files
    BY <1>2, <2>1 DEF AnswerStands
  <2>3. batches[b] # None
    <3>1. answer[r].row \in BatchRow
      BY <1>2, CreatedType
    <3> QED BY <2>2, <3>1, NoneAssumption DEF NoneAssumption
  <2>4. Settled(b) /\ FilesOf(b) # {}
    BY <1>2, <2>2, <2>3 DEF Settled
  <2> QED BY <1>1, <1>2, <2>1, <2>2, <2>4, SettledStands
<1>3. ASSUME Replay(r), local[r].target \in Requests, answer'[r] = Created(local[r].target, {})
      PROVE  /\ batches'[answer'[r].batch] = answer'[r].row
             /\ {f \in files' : f.batch = answer'[r].batch} = answer'[r].files
  BY <1>3 DEF Replay, Created, FilesOf, registryVars
<1>4. ASSUME AnswerBatch(r), answer'[r] = Created(r, local[r].duplicates)
      PROVE  /\ batches'[answer'[r].batch] = answer'[r].row
             /\ {f \in files' : f.batch = answer'[r].batch} = answer'[r].files
  <2>1. ~ OnlyDuplicates(r)
    BY <1>4 DEF Created, OnlyDuplicates
  <2> QED BY <1>4, <2>1 DEF AnswerBatch, Created, FilesOf
<1> QED BY <1>2, <1>3, <1>4, AnswerChange

\* Neither a retry, nor a later batch, nor a crash changes or removes the batch or the records that
\* a 201 listed (complete_batch, delete_empty_batch).
THEOREM AnswerStandsAlways == Spec => []AnswerStands
<1>1. Init => AnswerStands
  BY DEF Init, AnswerStands, IsCreated
<1>2. TypeOK /\ Located /\ Ledger /\ Answers /\ AnswerStands /\ [Next]_vars => AnswerStands'
  BY StandsStep
<1> QED BY AnswersKept, <1>1, <1>2, PTL DEF Spec

\* Two 201s for one key that list records name the same batch: a batch that holds a record keeps
\* its row, and with it the key (create_batch, get_batch_by_idempotency_key).
THEOREM RetryAgreesAlways == Spec => []RetryAgrees
<1>1. TypeOK /\ Ledger /\ Answers /\ LiveKeyUnique => RetryAgrees
  <2> SUFFICES ASSUME TypeOK, Ledger, Answers, LiveKeyUnique, NEW r \in Requests, NEW s \in Requests,
                      IsCreated(answer[r]), IsCreated(answer[s]), cmd[r].key = cmd[s].key,
                      answer[r].files # {}, answer[s].files # {}
               PROVE  answer[r].batch = answer[s].batch
    BY DEF RetryAgrees
  <2>1. ASSUME NEW q \in Requests, IsCreated(answer[q]), answer[q].files # {}
        PROVE  /\ answer[q].batch \in Requests /\ batches[answer[q].batch] # None
               /\ batches[answer[q].batch].key = cmd[q].key
    <3>1. PICK b \in Requests : b = answer[q].batch
      BY <2>1, CreatedType
    <3>2. cmd[b].key = cmd[q].key /\ FilesOf(b) # {}
      BY <2>1, <3>1 DEF Answers, AnswerAt
    <3>3. batches[b] # None /\ batches[b].key = cmd[b].key
      BY <3>2 DEF Ledger, RowAt
    <3> QED BY <3>1, <3>2, <3>3
  <2> QED BY <2>1 DEF LiveKeyUnique
<1> QED BY AnswersKept, KeysAlwaysUnique, <1>1, PTL

-----------------------------------------------------------------------------
(* What stays in staging.                                                  *)

LeftFile(r, i) == <<r, i>> \in staging /\ ~ InUse(<<r, i>>)
LeftDir(r) == r \in dirs /\ pc[r] \in PastSweep /\ \A id \in staging : id[1] # r

\* The debris is the files and the directories that are left.
LEMMA DebrisParts ==
    ASSUME TypeOK
    PROVE  /\ \A x \in Debris : \/ \E r \in Requests, i \in Nat : x = <<r, i>> /\ LeftFile(r, i)
                                \/ \E r \in Requests : x = <<r, 0>> /\ LeftDir(r)
           /\ \A r \in Requests, i \in Nat : LeftFile(r, i) => <<r, i>> \in Debris
           /\ \A r \in Requests : LeftDir(r) => <<r, 0>> \in Debris
<1>1. \A id \in staging : \E r \in Requests, i \in Nat : id = <<r, i>>
  BY DEF TypeOK, FileId
<1>2. dirs \subseteq Requests
  BY DEF TypeOK
<1> QED BY <1>1, <1>2 DEF Debris, LeftFile, LeftDir

\* A step writes and unlinks staging files of its own request only, and its own directory.
LEMMA StagingOfOthers ==
    ASSUME TypeOK, NEW r \in Requests, NEW q \in Requests \ {r},
           Step(r) \/ RegistryFault(r) \/ StorageFault(r)
    PROVE  /\ \A i : <<q, i>> \in staging' <=> <<q, i>> \in staging
           /\ (\A id \in staging' : id[1] # q) <=> (\A id \in staging : id[1] # q)
           /\ q \in dirs' <=> q \in dirs
           /\ pc'[q] = pc[q] /\ cur'[q] = cur[q]
<1> USE DEF registryVars, diskVars, taskVars, budgetVars
<1>1. \A i, j : <<q, i>> # <<r, j>>
  OBVIOUS
<1>2. \/ staging' = staging \/ staging' = staging \cup {<<r, cur[r]>>} \/ staging' = staging \ {<<r, cur[r]>>}
  BY DEF Step, Receive, LookupKey, Replay, CreateBatch, Admit, OpenStaging, WriteChunk,
     EndOfUpload, Promote, Tidy, Discard, RegisterRead, RegisterWrite, RecordFailure, LeaveLoop,
     Sweep, Unwind, CompleteBatch, AnswerBatch, TheFileId, RegistryFault, StorageFault
<1>3. dirs' = dirs \/ dirs' = dirs \cup {r} \/ dirs' = dirs \ {r}
  BY DEF Step, Receive, LookupKey, Replay, CreateBatch, Admit, OpenStaging, WriteChunk,
     EndOfUpload, Promote, Tidy, Discard, RegisterRead, RegisterWrite, RecordFailure, LeaveLoop,
     Sweep, Unwind, CompleteBatch, AnswerBatch, Swept, RegistryFault, StorageFault
<1>4. pc'[q] = pc[q] /\ cur'[q] = cur[q]
  <2>1. ASSUME NEW l, Goto(r, l) PROVE pc'[q] = pc[q]
    BY <2>1 DEF Goto, TypeOK
  <2>2. ASSUME NEW a, Return(r, a) PROVE pc'[q] = pc[q] /\ cur' = cur
    BY <2>1, <2>2 DEF Return
  <2>3. ASSUME NEW c, NEW l, FailWith(r, c, l) PROVE pc'[q] = pc[q] /\ cur' = cur
    BY <2>1, <2>3 DEF FailWith
  <2>4. CASE RegistryFault(r) \/ StorageFault(r)
    BY <2>1, <2>2, <2>3, <2>4 DEF RegistryFault, StorageFault
  <2>5. CASE Step(r)
    BY <2>1, <2>2, <2>3, <2>5 DEF Step, Receive, LookupKey, Replay, CreateBatch, Admit, OpenStaging,
       WriteChunk, EndOfUpload, Promote, Tidy, Discard, RegisterRead, RegisterWrite, RecordFailure,
       LeaveLoop, Sweep, Unwind, CompleteBatch, AnswerBatch, TypeOK
  <2> QED BY <2>4, <2>5
<1>5. \A i : <<q, i>> \in staging' <=> <<q, i>> \in staging
  BY <1>1, <1>2
<1>6. (\A id \in staging' : id[1] # q) <=> (\A id \in staging : id[1] # q)
  BY <1>2
<1> QED BY <1>3, <1>4, <1>5, <1>6

\* What others left is not touched.
LEMMA DebrisOfOthers ==
    ASSUME TypeOK, NEW r \in Requests, NEW q \in Requests \ {r},
           Step(r) \/ RegistryFault(r) \/ StorageFault(r)
    PROVE  /\ \A i \in Nat : LeftFile(q, i)' => LeftFile(q, i)
           /\ LeftDir(q)' => LeftDir(q)
  BY StagingOfOthers DEF LeftFile, LeftDir, InUse

\* A step that fails nowhere leaves nothing: it unlinks the file it was using, and a directory
\* without files is gone with the sweep.
LEMMA StepLeavesNothing ==
    ASSUME TypeOK, Located, NEW r \in Requests, Step(r), r \in dirs => pc[r] \notin Unbegun
    PROVE  /\ \A i \in Nat : LeftFile(r, i)' => LeftFile(r, i)
           /\ LeftDir(r)' => LeftDir(r)
           /\ r \in dirs' => pc'[r] \notin Unbegun
<1> USE DEF registryVars, diskVars, taskVars, budgetVars
<1>1. ASSUME NEW label, Goto(r, label) PROVE pc'[r] = label
  BY <1>1 DEF Goto, TypeOK
<1>2. ASSUME NEW a, Return(r, a) PROVE pc'[r] = "done" /\ cur' = cur
  BY <1>1, <1>2 DEF Return
<1>3. ASSUME pc[r] \notin StagingSteps, pc[r] # "lost", staging' = staging
      PROVE  \A i \in Nat : LeftFile(r, i)' => LeftFile(r, i)
  BY <1>3 DEF LeftFile, InUse
<1>4. CASE Receive(r) \/ LookupKey(r) \/ Replay(r) \/ CreateBatch(r)
  <2>1. pc[r] \in Unbegun /\ UNCHANGED <<staging, dirs>>
    BY <1>4 DEF Receive, LookupKey, Replay, CreateBatch, Unbegun
  <2> QED BY <1>3, <2>1 DEF Unbegun, StagingSteps, LeftDir
<1>5. CASE CompleteBatch(r) \/ AnswerBatch(r)
  <2>1. pc[r] \in {"complete", "answer"} /\ UNCHANGED <<staging, dirs>>
    BY <1>5 DEF CompleteBatch, AnswerBatch
  <2>2. pc'[r] \in {"answer", "done"}
    BY <1>1, <1>2, <1>5 DEF CompleteBatch, AnswerBatch
  <2> QED BY <1>3, <2>1, <2>2 DEF Unbegun, StagingSteps, LeftDir, PastSweep
<1>6. CASE Admit(r)
  <2>1. pc[r] = "next" /\ UNCHANGED staging
    BY <1>6 DEF Admit
  <2>2. pc'[r] \in {"open", "record"}
    BY <1>1, <1>6 DEF Admit, FailWith
  <2> QED BY <1>3, <2>1, <2>2 DEF StagingSteps, PastSweep, LeftDir, Unbegun
<1>7. CASE OpenStaging(r)
  <2>1. pc[r] = "open" /\ staging' = staging \cup {<<r, cur[r]>>} /\ cur' = cur
    BY <1>7 DEF OpenStaging, TheFileId
  <2>2. pc'[r] = "write"
    BY <1>1, <1>7 DEF OpenStaging
  <2> QED BY <2>1, <2>2 DEF StagingSteps, PastSweep, LeftDir, LeftFile, InUse, Unbegun
<1>8. CASE WriteChunk(r) \/ EndOfUpload(r) \/ Promote(r)
  <2>1. UNCHANGED <<staging, cur>> /\ pc[r] \in StagingSteps
    BY <1>8 DEF WriteChunk, EndOfUpload, Promote, FailWith, StagingSteps
  <2>2. pc'[r] \in {"write", "discard", "promote", "tidy"}
    BY <1>1, <1>8 DEF WriteChunk, EndOfUpload, Promote, FailWith
  <2> QED BY <2>1, <2>2 DEF StagingSteps, PastSweep, LeftDir, LeftFile, InUse, Unbegun
<1>9. CASE Tidy(r) \/ Discard(r)
  <2>1. staging' = staging \ {<<r, cur[r]>>} /\ pc[r] \in StagingSteps
    BY <1>9 DEF Tidy, Discard, TheFileId, StagingSteps
  <2>2. pc'[r] \in {"register", "record"}
    BY <1>1, <1>9 DEF Tidy, Discard
  <2>3. \A i \in Nat : <<r, i>> \in staging' => <<r, i>> \in staging /\ i # cur[r]
    BY <2>1
  <2>4. \A i \in Nat : LeftFile(r, i)' => LeftFile(r, i)
    BY <2>1, <2>3 DEF LeftFile, InUse, StagingSteps
  <2> QED BY <2>2, <2>4 DEF PastSweep, LeftDir, Unbegun
<1>10. CASE RegisterRead(r) \/ RegisterWrite(r) \/ RecordFailure(r)
  <2>1. pc[r] \in {"register", "insert", "reuse", "record"} /\ UNCHANGED staging
    BY <1>10 DEF RegisterRead, RegisterWrite, RecordFailure
  <2>2. pc'[r] \in {"reuse", "insert", "record", "next"}
    BY <1>1, <1>10 DEF RegisterRead, RegisterWrite, RecordFailure, FailWith
  <2> QED BY <1>3, <2>1, <2>2 DEF StagingSteps, PastSweep, LeftDir, Unbegun
<1>11. CASE LeaveLoop(r)
  <2>1. pc[r] = "next" /\ UNCHANGED <<staging, dirs>>
    BY <1>11 DEF LeaveLoop
  <2>2. pc'[r] = "sweep" \/ (r \notin dirs /\ pc'[r] = "complete")
    BY <1>1, <1>11 DEF LeaveLoop
  <2> QED BY <1>3, <2>1, <2>2 DEF StagingSteps, PastSweep, LeftDir, Unbegun
<1>12. CASE Sweep(r) \/ Unwind(r)
  <2>1. pc[r] \in {"sweep", "unwind"} /\ UNCHANGED staging /\ dirs' = Swept(r)
    BY <1>12 DEF Sweep, Unwind
  <2>2. r \in dirs' => \E i : <<r, i>> \in staging'
    BY <2>1 DEF Swept
  <2>3. ~ LeftDir(r)'
    BY <2>2 DEF LeftDir
  <2>4. pc'[r] \in {"complete", "done"}
    BY <1>1, <1>2, <1>12 DEF Sweep, Unwind
  <2> QED BY <1>3, <2>1, <2>3, <2>4 DEF StagingSteps, Unbegun
<1> QED BY <1>4, <1>5, <1>6, <1>7, <1>8, <1>9, <1>10, <1>11, <1>12 DEF Step

\* A failing call leaves one thing at most: the file its clean-up could not unlink, or the
\* directory its sweep could not remove.
LEMMA FaultLeavesOne ==
    ASSUME TypeOK, Located, NEW r \in Requests, RegistryFault(r) \/ StorageFault(r),
           r \in dirs => pc[r] \notin Unbegun
    PROVE  /\ \A i \in Nat : LeftFile(r, i)' => LeftFile(r, i) \/ (i = cur[r] /\ pc[r] = "discard")
           /\ LeftDir(r)' => LeftDir(r) \/ pc[r] \in {"sweep", "unwind"}
           /\ r \in dirs' => pc'[r] \notin Unbegun
           /\ faults' = faults + 1
<1> USE DEF registryVars, diskVars, taskVars, budgetVars
<1>1. ASSUME NEW label, Goto(r, label) PROVE pc'[r] = label
  BY <1>1 DEF Goto, TypeOK
<1>2. ASSUME NEW a, Return(r, a) PROVE pc'[r] = "done" /\ cur' = cur
  BY <1>1, <1>2 DEF Return
<1>3. ASSUME NEW c, NEW l, FailWith(r, c, l) PROVE pc'[r] = l /\ cur' = cur
  BY <1>1, <1>3 DEF FailWith
<1>4. UNCHANGED <<staging, dirs>> /\ faults' = faults + 1
  BY DEF RegistryFault, StorageFault
<1>5. CASE RegistryFault(r)
  <2>1. \/ pc[r] \in Unbegun /\ pc'[r] = "done"
        \/ pc[r] \in {"complete", "answer"} /\ pc'[r] = "done"
        \/ pc[r] \in {"register", "insert", "reuse"} /\ pc'[r] = "record"
        \/ pc[r] = "record" /\ pc'[r] = "unwind"
        \/ pc[r] = "record" /\ pc'[r] = "done" /\ r \notin dirs
    BY <1>1, <1>2, <1>3, <1>5 DEF RegistryFault, Unbegun
  <2> QED BY <1>4, <2>1 DEF LeftFile, LeftDir, InUse, StagingSteps, PastSweep, Unbegun
<1>6. CASE StorageFault(r)
  <2>1. /\ cur' = cur
        /\ \/ pc[r] \in {"open", "write", "promote", "tidy"} /\ pc'[r] = "discard"
           \/ pc[r] = "discard" /\ pc'[r] = "record"
           \/ pc[r] = "next" /\ pc'[r] = "record"
           \/ pc[r] = "sweep" /\ pc'[r] = "complete"
           \/ pc[r] = "unwind" /\ pc'[r] = "done"
    BY <1>1, <1>2, <1>3, <1>6 DEF StorageFault
  <2> QED BY <1>4, <2>1 DEF LeftFile, LeftDir, InUse, StagingSteps, PastSweep, Unbegun
<1> QED BY <1>4, <1>5, <1>6

\* The debris does not grow, or grows by one thing with one failing call.
LEMMA DebrisStep ==
    ASSUME TypeOK, TypeOK', Located, \A r \in dirs : pc[r] \notin Unbegun, [Next]_vars
    PROVE  /\ \/ Debris' \subseteq Debris /\ faults' = faults
              \/ faults' = faults + 1 /\ \E x : Debris' \subseteq Debris \cup {x}
           /\ \A r \in dirs' : pc'[r] \notin Unbegun
<1> DEFINE Same(q) == /\ \A i \in Nat : LeftFile(q, i)' => LeftFile(q, i)
                      /\ LeftDir(q)' => LeftDir(q)
<1>1. dirs' \subseteq Requests
  BY DEF TypeOK
<1>2. \A x \in Debris' : \/ \E q \in Requests, i \in Nat : x = <<q, i>> /\ LeftFile(q, i)'
                         \/ \E q \in Requests : x = <<q, 0>> /\ LeftDir(q)'
  <2>1. \A id \in staging' : \E q \in Requests, i \in Nat : id = <<q, i>>
    BY DEF TypeOK, FileId
  <2> QED BY <1>1, <2>1 DEF Debris, LeftFile, LeftDir
<1>3. ASSUME \A q \in Requests : Same(q)
      PROVE  Debris' \subseteq Debris
  <2>1. ASSUME NEW x \in Debris'
        PROVE  x \in Debris
    <3>1. \/ \E q \in Requests, i \in Nat : x = <<q, i>> /\ LeftFile(q, i)'
          \/ \E q \in Requests : x = <<q, 0>> /\ LeftDir(q)'
      BY <1>2, <2>1
    <3> QED BY <1>3, <3>1, DebrisParts
  <2> QED BY <2>1
<1>4. ASSUME NEW r \in Requests, Step(r)
      PROVE  /\ Debris' \subseteq Debris /\ faults' = faults
             /\ \A q \in dirs' : pc'[q] \notin Unbegun
  <2>1. faults' = faults
    BY <1>4 DEF Step, Receive, LookupKey, Replay, CreateBatch, Admit, OpenStaging, WriteChunk,
       EndOfUpload, Promote, Tidy, Discard, RegisterRead, RegisterWrite, RecordFailure, LeaveLoop,
       Sweep, Unwind, CompleteBatch, AnswerBatch, budgetVars
  <2>2. Same(r) /\ (r \in dirs' => pc'[r] \notin Unbegun)
    BY <1>4, StepLeavesNothing
  <2>3. ASSUME NEW q \in Requests \ {r}
        PROVE  Same(q) /\ (q \in dirs' => pc'[q] \notin Unbegun)
    BY <1>4, <2>3, DebrisOfOthers, StagingOfOthers
  <2>4. \A q \in Requests : Same(q) /\ (q \in dirs' => pc'[q] \notin Unbegun)
    <3> HIDE DEF Same
    <3> QED BY <2>2, <2>3
  <2> QED BY <1>1, <1>3, <2>1, <2>4
<1>5. ASSUME NEW r \in Requests, RegistryFault(r) \/ StorageFault(r)
      PROVE  /\ faults' = faults + 1 /\ \E x : Debris' \subseteq Debris \cup {x}
             /\ \A q \in dirs' : pc'[q] \notin Unbegun
  <2>1. /\ \A i \in Nat : LeftFile(r, i)' => LeftFile(r, i) \/ (i = cur[r] /\ pc[r] = "discard")
        /\ LeftDir(r)' => LeftDir(r) \/ pc[r] \in {"sweep", "unwind"}
        /\ r \in dirs' => pc'[r] \notin Unbegun
        /\ faults' = faults + 1
    BY <1>5, FaultLeavesOne
  <2>2. ASSUME NEW q \in Requests \ {r}
        PROVE  Same(q) /\ (q \in dirs' => pc'[q] \notin Unbegun)
    BY <1>5, <2>2, DebrisOfOthers, StagingOfOthers
  <2> DEFINE more == IF pc[r] = "discard" THEN <<r, cur[r]>> ELSE <<r, 0>>
  <2>3. ASSUME NEW x \in Debris'
        PROVE  x \in Debris \cup {more}
    <3>1. \/ \E q \in Requests, i \in Nat : x = <<q, i>> /\ LeftFile(q, i)'
          \/ \E q \in Requests : x = <<q, 0>> /\ LeftDir(q)'
      BY <1>2, <2>3
    <3>2. \/ \E q \in Requests, i \in Nat : x = <<q, i>> /\ LeftFile(q, i)
          \/ \E q \in Requests : x = <<q, 0>> /\ LeftDir(q)
          \/ x = more
      BY <2>1, <2>2, <3>1
    <3> QED BY <3>2, DebrisParts
  <2> QED BY <1>1, <2>1, <2>2, <2>3
<1>6. ASSUME NEW w \in Workers, Crash(w)
      PROVE  /\ Debris' \subseteq Debris /\ faults' = faults
             /\ \A q \in dirs' : pc'[q] \notin Unbegun
  <2>1. UNCHANGED <<staging, dirs, cur, faults>>
        /\ \A q \in Requests : pc'[q] \in {pc[q], "lost"}
    BY <1>6 DEF Crash, diskVars
  <2>2. \A q \in Requests : Same(q)
    BY <2>1 DEF LeftFile, LeftDir, InUse, PastSweep
  <2> QED BY <1>1, <1>3, <2>1, <2>2 DEF Unbegun
<1>7. ASSUME (\E c \in Contents : Decay(c)) \/ UNCHANGED vars
      PROVE  /\ Debris' \subseteq Debris /\ faults' = faults
             /\ \A q \in dirs' : pc'[q] \notin Unbegun
  <2>1. UNCHANGED <<staging, dirs, cur, faults, pc>>
    BY <1>7 DEF Decay, vars, diskVars, taskVars, budgetVars
  <2>2. \A q \in Requests : Same(q)
    BY <2>1 DEF LeftFile, LeftDir, InUse
  <2> QED BY <1>3, <2>1, <2>2
<1> HIDE DEF Same
<1> QED BY <1>4, <1>5, <1>6, <1>7 DEF Next, Idle

\* So it never has more members than calls have failed.
LEMMA StagingStep == TypeOK /\ TypeOK' /\ Located /\ StagingInv /\ [Next]_vars => StagingInv'
<1> SUFFICES ASSUME TypeOK, TypeOK', Located, StagingInv, [Next]_vars
             PROVE  StagingInv'
  OBVIOUS
<1>1. /\ IsFiniteSet(Debris) /\ Cardinality(Debris) <= faults
      /\ \A r \in dirs : pc[r] \notin Unbegun
  BY DEF StagingInv
<1>2. Cardinality(Debris) \in Nat /\ faults \in Nat
  BY <1>1, FS_CardinalityType DEF TypeOK
<1>3. \A r \in dirs' : pc'[r] \notin Unbegun
  BY <1>1, DebrisStep
<1>4. CASE Debris' \subseteq Debris /\ faults' = faults
  <2>1. IsFiniteSet(Debris') /\ Cardinality(Debris') <= Cardinality(Debris)
    BY <1>1, <1>4, FS_Subset
  <2>2. Cardinality(Debris') \in Nat
    BY <2>1, FS_CardinalityType
  <2> QED BY <1>1, <1>2, <1>3, <1>4, <2>1, <2>2 DEF StagingInv
<1>5. ASSUME NEW x, Debris' \subseteq Debris \cup {x}, faults' = faults + 1
      PROVE  StagingInv'
  <2>1. /\ IsFiniteSet(Debris \cup {x})
        /\ Cardinality(Debris \cup {x}) = IF x \in Debris THEN Cardinality(Debris)
                                                          ELSE Cardinality(Debris) + 1
    BY <1>1, FS_AddElement
  <2>2. IsFiniteSet(Debris') /\ Cardinality(Debris') <= Cardinality(Debris \cup {x})
    BY <1>5, <2>1, FS_Subset
  <2>3. Cardinality(Debris') \in Nat
    BY <2>2, FS_CardinalityType
  <2>4. Cardinality(Debris') <= faults'
    BY <1>1, <1>2, <1>5, <2>1, <2>2, <2>3
  <2> QED BY <1>3, <2>2, <2>4 DEF StagingInv
<1> QED BY <1>1, <1>4, <1>5, DebrisStep

\* Everything an answered request leaves in staging took a failing call of its own, however many
\* requests, uploads, failures and kills there were (store's except clause, cleanup_batch).
THEOREM StagingAlwaysReclaimed == Spec => []StagingReclaimed
<1>1. Init => StagingInv
  <2> SUFFICES ASSUME Init PROVE StagingInv
    OBVIOUS
  <2>1. Debris = {} /\ dirs = {} /\ faults = 0
    BY DEF Init, Debris
  <2> QED BY <2>1, FS_EmptySet DEF StagingInv
<1>2. TypeOK /\ TypeOK' /\ Located /\ StagingInv /\ [Next]_vars => StagingInv'
  BY StagingStep
<1>3. TypeOK /\ StagingInv => StagingReclaimed
  <2> SUFFICES ASSUME TypeOK, StagingInv PROVE Cardinality(LeftBehind) <= faults
    BY DEF StagingReclaimed
  <2>1. LeftBehind \subseteq Debris
    BY DEF LeftBehind, Debris, InUse, PastSweep, StagingSteps
  <2>2. IsFiniteSet(Debris) /\ Cardinality(Debris) <= faults /\ faults \in Nat
    BY DEF StagingInv, TypeOK
  <2>3. IsFiniteSet(LeftBehind) /\ Cardinality(LeftBehind) <= Cardinality(Debris)
    BY <2>1, <2>2, FS_Subset
  <2> QED BY <2>2, <2>3, FS_CardinalityType
<1> QED BY TypingInvariant, <1>1, <1>2, <1>3, PTL DEF Spec

-----------------------------------------------------------------------------
(* Intake implements IntakeService.                                        *)

RefinementInv == RegistryInv /\ Ledger /\ Answers

\* Everything the refinement rests on holds throughout.
LEMMA RefinementAlways == Spec => []RefinementInv
<1>1. RegistryInv /\ Ledger /\ Answers => RefinementInv
  BY DEF RefinementInv
<1> QED BY <1>1, RegistryInvariant, AnswersKept, PTL

\* The owner of a content is its one registered record.
LEMMA OwnerFacts ==
    ASSUME RefinementInv, NEW c \in Contents
    PROVE  /\ Owners(c) = {} <=> OwnerId(c) = None
           /\ \A f \in Owners(c) : OwnerId(c) = f.id
           /\ OwnerId(c) # None => \E f \in Owners(c) : OwnerId(c) = f.id
           /\ OwnerId(c) \in FileId \cup {None}
<1>1. \A f \in Owners(c) : f \in Registered /\ f.content = c /\ f.id \in FileId
  BY DEF RefinementInv, RegistryInv, TypeOK, FileRow, Owners, Registered
<1>2. \A f, g \in Owners(c) : f.id = g.id
  BY <1>1 DEF RefinementInv, RegistryInv, UniqueContent
<1>3. \A f \in Owners(c) : OwnerId(c) = f.id
  BY <1>2, Zenon DEF OwnerId
<1>4. Owners(c) = {} => OwnerId(c) = None
  BY DEF OwnerId
<1>5. None \notin FileId
  BY NoneAssumption DEF NoneAssumption
<1> QED BY <1>1, <1>3, <1>4, <1>5

\* A batch holds a file in the service when it has a registered record, and a refused one when it
\* has a failed record.
LEMMA HeldFacts ==
    ASSUME RefinementInv, NEW b \in Requests
    PROVE  /\ {c \in Contents : OwnerIds[c] # None /\ OwnerIds[c][1] = b} = {} <=> RegisteredRows(b) = {}
           /\ {id \in RefusedIds : id[1] = b} = {} <=> FailedRows(b) = {}
<1>1. \A f \in files : f \in FileRow /\ f.batch \in Requests /\ f.id[1] = f.batch
  <2>1. \A f \in files : f \in FileRow /\ f.batch \in Requests
    BY DEF RefinementInv, RegistryInv, TypeOK, FileRow
  <2>2. \A f \in files : f \in FilesOf(f.batch)
    BY DEF FilesOf
  <2> QED BY <2>1, <2>2 DEF RefinementInv, Ledger, VerdictsAt
<1>2. \A f \in files : f.status = "registered" <=> f.status # "failed"
  BY <1>1 DEF FileRow
<1>3. ASSUME NEW c \in Contents, OwnerIds[c] # None, OwnerIds[c][1] = b PROVE RegisteredRows(b) # {}
  <2>1. PICK f \in Owners(c) : OwnerId(c) = f.id
    BY <1>3, OwnerFacts DEF OwnerIds
  <2>2. f \in files /\ f.status = "registered" /\ f.id[1] = b
    BY <1>3, <2>1 DEF Owners, Registered, OwnerIds
  <2> QED BY <1>1, <1>2, <2>2 DEF RegisteredRows, FailedRows, FilesOf
<1>4. ASSUME NEW f \in RegisteredRows(b)
      PROVE  \E c \in Contents : OwnerIds[c] # None /\ OwnerIds[c][1] = b
  <2>1. f \in Registered /\ f.batch = b /\ f.id[1] = b
    BY <1>1, <1>2, <1>4 DEF RegisteredRows, FailedRows, FilesOf, Registered
  <2>2. f.content \in Contents
    BY <2>1 DEF RefinementInv, RegistryInv, RegisteredReadable, TypeOK
  <2>3. f \in Owners(f.content)
    BY <2>1 DEF Owners
  <2>4. OwnerId(f.content) = f.id /\ OwnerId(f.content) # None
    BY <2>2, <2>3, OwnerFacts
  <2> QED BY <2>1, <2>2, <2>4 DEF OwnerIds
<1>5. ASSUME NEW id \in RefusedIds, id[1] = b PROVE FailedRows(b) # {}
  <2>1. PICK f \in files : f.status = "failed" /\ f.id = id
    BY <1>5 DEF RefusedIds
  <2> QED BY <1>1, <1>5, <2>1 DEF FailedRows, FilesOf
<1>6. ASSUME NEW f \in FailedRows(b) PROVE \E id \in RefusedIds : id[1] = b
  BY <1>1, <1>6 DEF FailedRows, FilesOf, RefusedIds
<1> QED BY <1>3, <1>4, <1>5, <1>6

\* A batch's life moves only with its row, or with the 201 that withdraws it.
LEMMA LifeKept ==
    ASSUME RefinementInv, [Next]_vars, NEW b \in Requests, batches'[b] = batches[b]
    PROVE  Life(b)' = Life(b)
<1>1. TypeOK /\ Located /\ AnswerAt(b)
  BY DEF RefinementInv, RegistryInv, Answers
<1>2. CASE batches[b] # None
  BY <1>2 DEF Life
<1>3. CASE answer'[b] = answer[b]
  BY <1>3 DEF Life, Withdrawn
<1>4. CASE batches[b] = None /\ answer'[b] # answer[b]
  <2>1. answer[b] = None
    BY <1>1, <1>4, DoneStays DEF AnswerAt
  <2>2. Life(b) = "unknown"
    BY <1>4, <2>1 DEF Life, Withdrawn
  <2>3. CASE ~ IsCreated(answer'[b])
    BY <1>4, <2>2, <2>3 DEF Life, Withdrawn, IsCreated
  <2>4. CASE Replay(b) /\ answer'[b] = Created(local[b].target, {})
    <3>1. answer'[b].batch # b
      BY <1>1, <2>4 DEF Replay, AnswerAt, Created
    <3> QED BY <1>4, <2>2, <3>1 DEF Life, Withdrawn
  <2>5. ~ AnswerBatch(b)
    BY <1>1, <1>4 DEF AnswerBatch, Located, LocatedAt, InBatch
  <2> QED BY <1>1, <1>4, <2>3, <2>4, <2>5, AnswerChange
<1> QED BY <1>2, <1>3, <1>4

\* What the service stores grows by the content that is promoted; damage does not take from it.
LEMMA StoredStep ==
    ASSUME RefinementInv, [Next]_vars
    PROVE  \/ StoredContents' = StoredContents
           \/ \E r \in Requests : /\ Promote(r) /\ TheContent(r) \in Contents
                                  /\ StoredContents' = StoredContents \cup {TheContent(r)}
<1> USE DEF registryVars, diskVars, taskVars, budgetVars
<1>1. TypeOK /\ Located
  BY DEF RefinementInv, RegistryInv
<1>2. ASSUME UNCHANGED <<originals, decayed>> PROVE StoredContents' = StoredContents
  BY <1>2 DEF StoredContents
<1>3. ASSUME NEW r \in Requests, Promote(r)
      PROVE  /\ TheContent(r) \in Contents
             /\ StoredContents' = StoredContents \/ StoredContents' = StoredContents \cup {TheContent(r)}
  <2>1. TheContent(r) \in Contents
    BY <1>1, <1>3, AtUploadType DEF Promote, AtUpload
  <2>2. CASE originals' = [originals EXCEPT ![TheContent(r)] = "intact"] /\ decayed' = decayed \ {TheContent(r)}
    BY <1>1, <2>1, <2>2 DEF StoredContents, TypeOK
  <2>3. CASE UNCHANGED <<originals, decayed>>
    BY <1>2, <2>1, <2>3
  <2>4. \/ originals' = [originals EXCEPT ![TheContent(r)] = "intact"] /\ decayed' = decayed \ {TheContent(r)}
        \/ UNCHANGED <<originals, decayed>>
    BY <1>3 DEF Promote
  <2> QED BY <2>1, <2>2, <2>3, <2>4
<1>4. ASSUME NEW r \in Requests, Step(r), ~ Promote(r) PROVE UNCHANGED <<originals, decayed>>
  BY <1>4 DEF Step, Receive, LookupKey, Replay, CreateBatch, Admit, OpenStaging, WriteChunk, EndOfUpload,
     Tidy, Discard, RegisterRead, RegisterWrite, RecordFailure, LeaveLoop, Sweep, Unwind, CompleteBatch,
     AnswerBatch
<1>5. ASSUME NEW c \in Contents, Decay(c) PROVE StoredContents' = StoredContents
  <2>1. originals[c] = "intact" /\ decayed' = decayed \cup {c}
    BY <1>5 DEF Decay
  <2>2. \A d \in Contents \ {c} : originals'[d] = originals[d]
    BY <1>1, <1>5 DEF Decay, TypeOK
  <2> QED BY <2>1, <2>2 DEF StoredContents
<1>6. ASSUME NEW r \in Requests, RegistryFault(r) \/ StorageFault(r) PROVE UNCHANGED <<originals, decayed>>
  BY <1>6 DEF RegistryFault, StorageFault
<1>7. ASSUME (\E w \in Workers : Crash(w)) \/ UNCHANGED vars PROVE UNCHANGED <<originals, decayed>>
  BY <1>7 DEF Crash, vars
<1> QED BY <1>2, <1>3, <1>4, <1>5, <1>6, <1>7 DEF Next, Idle

\* A content with the same owners has the same owner id.
LEMMA OwnerKept ==
    ASSUME NEW c, Owners(c)' = Owners(c)
    PROVE  OwnerId(c)' = OwnerId(c)
<1> DEFINE IdOf(S) == IF S = {} THEN None ELSE (CHOOSE f \in S : TRUE).id
<1>1. OwnerId(c) = IdOf(Owners(c))
  BY DEF OwnerId
<1>2. OwnerId(c)' = IdOf(Owners(c)')
  BY DEF OwnerId
<1> HIDE DEF IdOf
<1> QED BY <1>1, <1>2

\* Owners and refused files change by the records of register_file and _record_failure only.
LEMMA TablesKept ==
    ASSUME UNCHANGED files
    PROVE  OwnerIds' = OwnerIds /\ RefusedIds' = RefusedIds
<1>1. Registered' = Registered
  BY DEF Registered
<1>2. \A c \in Contents : Owners(c)' = Owners(c)
  BY <1>1 DEF Owners
<1>3. \A c \in Contents : OwnerId(c)' = OwnerId(c)
  BY <1>2, OwnerKept
<1> QED BY <1>3 DEF OwnerIds, RefusedIds

\* While rows stay, lives stay.
LEMMA LivesKept ==
    ASSUME RefinementInv, [Next]_vars, UNCHANGED batches
    PROVE  Lives' = Lives
<1>1. \A b \in Requests : Life(b)' = Life(b)
  BY LifeKept
<1> QED BY <1>1 DEF Lives

\* One life changes when one row does.
LEMMA LifeMoves ==
    ASSUME RefinementInv, NEW r \in Requests, Step(r), NEW new, Life(r)' = new
    PROVE  Lives' = [Lives EXCEPT ![r] = new]
<1>1. ASSUME NEW b \in Requests \ {r} PROVE Life(b)' = Life(b)
  <2>1. batches'[b] = batches[b]
    BY RowsKept DEF RefinementInv, RegistryInv
  <2>2. [Next]_vars
    BY DEF Next
  <2> QED BY <2>1, <2>2, LifeKept
<1> QED BY <1>1 DEF Lives

\* create_batch opens a batch.
LEMMA OpensBatch ==
    ASSUME RefinementInv, NEW r \in Requests, CreateBatch(r), batches' # batches
    PROVE  Service!Open(r)
<1> USE DEF registryVars, diskVars
<1>1. TypeOK /\ Located /\ AnswerAt(r) /\ RowAt(r) /\ Step(r)
  BY DEF RefinementInv, RegistryInv, Answers, Ledger, Step
<1>2. batches[r] = None /\ answer[r] = None
  BY <1>1 DEF CreateBatch, RowAt, AnswerAt, Unbegun
<1>3. Life(r) = "unknown"
  BY <1>2 DEF Life, Withdrawn
<1>4. batches' = [batches EXCEPT ![r] =
          [key |-> cmd[r].key, fingerprint |-> Fingerprint(cmd[r]), status |-> "receiving",
           total |-> Len(cmd[r].files), registered |-> 0, failed |-> 0]]
  BY DEF CreateBatch
<1>5. batches'[r].status = "receiving" /\ batches'[r] # None
  BY <1>1, <1>4, NewRowType, NoneAssumption DEF NoneAssumption, CreateBatch, TypeOK
<1>6. Life(r)' = "receiving"
  BY <1>5 DEF Life
<1>7. Lives' = [Lives EXCEPT ![r] = "receiving"] /\ Lives[r] = "unknown"
  BY <1>1, <1>3, <1>6, LifeMoves DEF Lives
<1>8. StoredContents' = StoredContents /\ OwnerIds' = OwnerIds /\ RefusedIds' = RefusedIds
  BY TablesKept DEF CreateBatch, StoredContents
<1> QED BY <1>7, <1>8 DEF Service!Open

\* The first record of a content is its owner, and no other content's.
LEMMA OwnerRecorded ==
    ASSUME NEW c \in Contents, NEW row, row.content = c, Owners(c) = {},
           Registered' = Registered \cup {row}
    PROVE  OwnerIds' = [OwnerIds EXCEPT ![c] = row.id]
<1>1. Owners(c)' = {row}
  BY DEF Owners
<1>2. ASSUME NEW d \in Contents \ {c} PROVE Owners(d)' = Owners(d)
  BY DEF Owners
<1>3. OwnerId(c)' = row.id
  BY <1>1 DEF OwnerId
<1>4. ASSUME NEW d \in Contents \ {c} PROVE OwnerId(d)' = OwnerId(d)
  BY <1>2, <1>4, OwnerKept
<1>5. OwnerIds' = [d \in Contents |-> OwnerId(d)']
  BY DEF OwnerIds
<1> QED BY <1>3, <1>4, <1>5 DEF OwnerIds

\* The upload at hand is one of a file id of the service that no record carries yet.
LEMMA NewFileId ==
    ASSUME RefinementInv, NEW r \in Requests, pc[r] \in AtUpload
    PROVE  /\ TheFileId(r) \in Service!FileIds /\ TheFileId(r)[1] = r
           /\ \A f \in files : f.id # TheFileId(r)
           /\ Lives[r] = "receiving"
<1>1. TypeOK /\ Located /\ LedgerAt(r)
  BY DEF RefinementInv, RegistryInv, Ledger, LedgerAt
<1>2. TheFileId(r) \in Requests \X (1..MaxFilesPerBatch) /\ TheFileId(r)[1] = r
  <2>1. cmd[r] \in Commands /\ cur[r] \in DOMAIN cmd[r].files /\ ~ Rejected(cmd[r])
    BY <1>1, Labels DEF TypeOK, Located, LocatedAt
  <2>2. cur[r] \in 1..Len(cmd[r].files) /\ Len(cmd[r].files) \in Nat /\ ~ Len(cmd[r].files) > MaxFilesPerBatch
    BY <2>1, CommandType DEF Rejected
  <2>3. cur[r] \in 1..MaxFilesPerBatch
    BY <2>2, LimitsAssumption DEF LimitsAssumption
  <2> QED BY <2>3 DEF TheFileId
<1>3. \A f \in files : f.id = TheFileId(r) => f \in FilesOf(r)
  <2>1. \A f \in files : f \in FilesOf(f.batch) /\ f.batch \in Requests
    BY <1>1 DEF FilesOf, TypeOK, FileRow
  <2>2. \A f \in files : f.id[1] = f.batch
    BY <2>1 DEF RefinementInv, Ledger, VerdictsAt
  <2> QED BY <1>2, <2>2 DEF FilesOf
<1>4. \A f \in files : f.id # TheFileId(r)
  BY <1>1, <1>3, NoVerdictYet DEF LedgerAt
<1>5. batches[r] # None /\ ~ Settled(r)
  BY <1>1, RowLabels DEF LedgerAt, RowAt, Located, LocatedAt
<1>6. Lives[r] = "receiving"
  BY <1>5 DEF Settled, Lives, Life
<1> QED BY <1>2, <1>4, <1>6 DEF Service!FileIds

\* register_file registers the file of a stored content that had none, in a batch being received.
LEMMA RegistersFile ==
    ASSUME RefinementInv, NEW r \in Requests, RegisterWrite(r), files' # files
    PROVE  \E c \in Contents : Service!Register(r, c)
<1> USE DEF registryVars, diskVars
<1>1. TypeOK /\ Located /\ Promoted /\ [Next]_vars
  BY DEF RefinementInv, RegistryInv, Next, Step
<1>2. pc[r] \in AtUpload /\ pc[r] \in AfterPromotion
  BY DEF RegisterWrite, AtUpload, AfterPromotion
<1>3. PICK c \in Contents : c = TheContent(r)
  BY <1>1, <1>2, AtUploadType
<1>4. PICK id \in Service!FileIds : id = TheFileId(r)
  BY <1>2, NewFileId
<1>5. id[1] = r /\ (\A f \in files : f.id # id) /\ Lives[r] = "receiving"
  BY <1>2, <1>4, NewFileId
<1>6. c \in StoredContents
  BY <1>1, <1>2, <1>3 DEF Promoted, Kept, StoredContents
<1>7. PICK row : /\ row.id = id /\ row.content = c /\ row.status = "registered"
                 /\ files' = files \cup {row}
  <2> DEFINE new == [id |-> TheFileId(r), batch |-> r, content |-> TheContent(r),
                     status |-> "registered", code |-> None]
  <2>1. files' = files \cup {new}
    BY DEF RegisterWrite
  <2>2. new.id = id /\ new.content = c /\ new.status = "registered"
    BY <1>3, <1>4
  <2> HIDE DEF new
  <2> QED BY <2>1, <2>2
<1>8. Owners(c) = {}
  BY <1>3 DEF RegisterWrite
<1>9. OwnerIds[c] = None
  BY <1>8, OwnerFacts DEF OwnerIds
<1>10. OwnerIds' = [OwnerIds EXCEPT ![c] = id]
  <2>1. Registered' = Registered \cup {row}
    BY <1>7 DEF Registered
  <2> QED BY <1>7, <1>8, <2>1, OwnerRecorded
<1>11. id \notin RefusedIds
  BY <1>5 DEF RefusedIds
<1>12. RefusedIds' = RefusedIds
  BY <1>7 DEF RefusedIds
<1>13. Lives' = Lives
  BY <1>1, LivesKept DEF RegisterWrite
<1>14. StoredContents' = StoredContents
  BY DEF RegisterWrite, StoredContents
<1>15. Service!Register(r, c)
  BY <1>5, <1>6, <1>9, <1>10, <1>11, <1>12, <1>13, <1>14 DEF Service!Register
<1> QED BY <1>15

\* _record_failure refuses a file of a batch being received.
LEMMA RefusesFile ==
    ASSUME RefinementInv, NEW r \in Requests, RecordFailure(r)
    PROVE  Service!Refuse(r)
<1> USE DEF registryVars, diskVars
<1>1. TypeOK /\ [Next]_vars
  BY DEF RefinementInv, RegistryInv, Next, Step
<1>2. pc[r] \in AtUpload
  BY DEF RecordFailure, AtUpload
<1>3. PICK id \in Service!FileIds : id = TheFileId(r)
  BY <1>2, NewFileId
<1>4. id[1] = r /\ (\A f \in files : f.id # id) /\ Lives[r] = "receiving"
  BY <1>2, <1>3, NewFileId
<1>5. PICK row : row.id = id /\ row.status = "failed" /\ files' = files \cup {row}
  <2> DEFINE new == [id |-> TheFileId(r), batch |-> r, content |-> None, status |-> "failed",
                     code |-> local[r].failure]
  <2>1. files' = files \cup {new}
    BY DEF RecordFailure
  <2>2. new.id = id /\ new.status = "failed"
    BY <1>3
  <2> HIDE DEF new
  <2> QED BY <2>1, <2>2
<1>6. \A c \in Contents : OwnerIds[c] # id
  <2> SUFFICES ASSUME NEW c \in Contents, OwnerIds[c] = id PROVE FALSE
    OBVIOUS
  <2>1. OwnerId(c) # None
    <3>1. id \in FileId
      BY <1>1, <1>2, <1>3, AtUploadType DEF RefinementInv, RegistryInv
    <3> QED BY <3>1, NoneAssumption DEF NoneAssumption, OwnerIds
  <2>2. PICK f \in Owners(c) : OwnerId(c) = f.id
    BY <2>1, OwnerFacts
  <2> QED BY <1>4, <2>2 DEF OwnerIds, Owners, Registered
<1>7. RefusedIds' = RefusedIds \cup {id}
  BY <1>5 DEF RefusedIds
<1>8. OwnerIds' = OwnerIds
  <2>1. Registered' = Registered
    BY <1>5 DEF Registered
  <2>2. \A c \in Contents : Owners(c)' = Owners(c)
    BY <2>1 DEF Owners
  <2>3. \A c \in Contents : OwnerId(c)' = OwnerId(c)
    BY <2>2, OwnerKept
  <2> QED BY <2>3 DEF OwnerIds
<1>9. Lives' = Lives /\ StoredContents' = StoredContents
  BY <1>1, LivesKept DEF RecordFailure, StoredContents
<1> QED BY <1>4, <1>6, <1>7, <1>8, <1>9 DEF Service!Refuse

\* complete_batch settles its batch with the verdict its records call for.
LEMMA SettlesBatch ==
    ASSUME RefinementInv, NEW r \in Requests, CompleteBatch(r)
    PROVE  Service!Settle(r)
<1> USE DEF registryVars, diskVars
<1>1. TypeOK /\ Located /\ Step(r) /\ RowAt(r) /\ CountsAt(r) /\ pc[r] = "complete"
  BY DEF RefinementInv, RegistryInv, Ledger, Step, CompleteBatch
<1>2. batches[r] \in BatchRow /\ batches[r] # None /\ ~ Settled(r) /\ Uploads(r) > 0 /\ cur[r] = Uploads(r) + 1
  BY <1>1, RowLabels DEF Located, LocatedAt, RowAt, InBatch, TypeOK
<1>3. Lives[r] = "receiving"
  BY <1>2 DEF Settled, Lives, Life
<1> DEFINE verdict == Summary(local[r].registered, Uploads(r))
<1>4. batches'[r] = [batches[r] EXCEPT !.status = verdict, !.registered = local[r].registered,
                                       !.failed = local[r].failed]
  BY <1>1 DEF CompleteBatch, TypeOK, Uploads
<1>5. batches'[r].status = verdict /\ batches'[r] # None
  <2>1. batches'[r] \in BatchRow
    BY <1>1, <1>4, SettledRowType DEF Uploads
  <2>2. batches'[r].status = verdict
    BY <1>2, <1>4 DEF BatchRow
  <2> QED BY <2>1, <2>2, NoneAssumption DEF NoneAssumption
<1>6. Lives' = [Lives EXCEPT ![r] = verdict]
  <2>1. Life(r)' = batches'[r].status
    BY <1>5 DEF Life
  <2> QED BY <1>1, <1>5, <2>1, LifeMoves
<1>7. /\ verdict \in Service!Verdicts
      /\ verdict = "completed" => FailedRows(r) = {}
      /\ verdict = "failed" <=> RegisteredRows(r) = {}
  <2>1. /\ Cardinality(RegisteredRows(r)) \in Nat /\ Cardinality(FailedRows(r)) \in Nat
        /\ Cardinality(local[r].duplicates) \in Nat
    BY <1>1, FS_CardinalityType DEF CountsAt
  <2>2. /\ Cardinality(RegisteredRows(r)) = 0 <=> RegisteredRows(r) = {}
        /\ Cardinality(FailedRows(r)) = 0 <=> FailedRows(r) = {}
    BY <1>1, FS_EmptySet DEF CountsAt
  <2>3. /\ local[r].registered = Cardinality(RegisteredRows(r))
        /\ Cardinality(RegisteredRows(r)) + Cardinality(FailedRows(r)) + Cardinality(local[r].duplicates)
             = cur[r] - 1
    BY <1>1, <2>1 DEF CountsAt
  <2>4. Uploads(r) \in Nat
    BY <1>1, CommandType DEF TypeOK, Uploads
  <2>5. /\ local[r].registered = Uploads(r) => Cardinality(FailedRows(r)) = 0
        /\ local[r].registered = 0 <=> Cardinality(RegisteredRows(r)) = 0
    BY <1>2, <2>1, <2>3, <2>4
  <2>6. Uploads(r) # 0
    BY <1>2, <2>4
  <2>7. /\ verdict = "completed" <=> local[r].registered = Uploads(r)
        /\ verdict = "failed" <=> local[r].registered = 0
        /\ verdict \in {"completed", "partial", "failed"}
    BY <2>6 DEF Summary
  <2> QED BY <2>2, <2>5, <2>7 DEF Service!Verdicts
<1>8. /\ FailedRows(r) = {} => Service!Refused(r) = {}
      /\ Service!Held(r) = {} <=> RegisteredRows(r) = {}
  BY HeldFacts DEF Service!Refused, Service!Held
<1>9. StoredContents' = StoredContents /\ OwnerIds' = OwnerIds /\ RefusedIds' = RefusedIds
  BY TablesKept DEF CompleteBatch, StoredContents
<1> HIDE DEF verdict
<1> QED BY <1>3, <1>6, <1>7, <1>8, <1>9 DEF Service!Settle

\* delete_empty_batch withdraws a batch that holds nothing.
LEMMA WithdrawsBatch ==
    ASSUME RefinementInv, NEW r \in Requests, AnswerBatch(r), batches' # batches
    PROVE  Service!Withdraw(r)
<1> USE DEF registryVars, diskVars
<1>1. TypeOK /\ Located /\ Step(r) /\ RowAt(r) /\ CountsAt(r) /\ pc[r] = "answer"
  BY DEF RefinementInv, RegistryInv, Ledger, Step, AnswerBatch
<1>2. FilesOf(r) = {} /\ batches' = [batches EXCEPT ![r] = None]
  BY DEF AnswerBatch, OnlyDuplicates, DeleteEmptyBatch
<1>3. Settled(r)
  BY <1>1, RowLabels DEF RowAt, InBatch
<1>4. Lives[r] \in Service!Verdicts
  <2>1. batches[r] \in BatchRow /\ batches[r] # None /\ batches[r].status # "receiving"
    BY <1>1, <1>3 DEF TypeOK, Settled
  <2> QED BY <2>1 DEF BatchRow, BatchStatus, Lives, Life, Service!Verdicts
<1>5. Service!Held(r) = {} /\ Service!Refused(r) = {}
  <2>1. RegisteredRows(r) = {} /\ FailedRows(r) = {}
    BY <1>2 DEF RegisteredRows, FailedRows
  <2> QED BY <2>1, HeldFacts DEF Service!Refused, Service!Held
<1>6. answer'[r] = Created(r, local[r].duplicates) /\ answer'[r] # None
  <2>1. batches[r] # None /\ local[r].duplicates \in SUBSET Duplicate
    BY <1>1, <1>3 DEF Settled, TypeOK, Local
  <2>2. Created(r, local[r].duplicates) \in Answer
    BY <1>1, <2>1, AnswerType
  <2>3. answer'[r] = Created(r, local[r].duplicates)
    BY <1>1 DEF AnswerBatch, Return, TypeOK
  <2> QED BY <2>2, <2>3, NoneAssumption DEF NoneAssumption
<1>7. answer'[r].status = "created" /\ answer'[r].batch = r
  BY <1>6 DEF Created
<1>8. batches'[r] = None
  BY <1>1, <1>2 DEF TypeOK
<1>9. Life(r)' = "withdrawn"
  BY <1>6, <1>7, <1>8 DEF Life, Withdrawn
<1>10. Lives' = [Lives EXCEPT ![r] = "withdrawn"]
  BY <1>1, <1>9, LifeMoves
<1>11. StoredContents' = StoredContents /\ OwnerIds' = OwnerIds /\ RefusedIds' = RefusedIds
  BY TablesKept DEF AnswerBatch, StoredContents
<1> QED BY <1>4, <1>5, <1>10, <1>11 DEF Service!Withdraw

\* Every step of intake is a step of the service or leaves it as it is.
LEMMA ServiceStep ==
    ASSUME RefinementInv, [Next]_vars
    PROVE  [Service!Next]_(Service!svars)
<1> USE DEF registryVars, diskVars, taskVars, budgetVars
<1>1. CASE \E r \in Requests : CreateBatch(r) /\ batches' # batches
  BY <1>1, OpensBatch DEF Service!Next
<1>2. CASE \E r \in Requests : RegisterWrite(r) /\ files' # files
  BY <1>2, RegistersFile DEF Service!Next
<1>3. CASE \E r \in Requests : RecordFailure(r)
  BY <1>3, RefusesFile DEF Service!Next
<1>4. CASE \E r \in Requests : CompleteBatch(r)
  BY <1>4, SettlesBatch DEF Service!Next
<1>5. CASE \E r \in Requests : AnswerBatch(r) /\ batches' # batches
  BY <1>5, WithdrawsBatch DEF Service!Next
<1>6. CASE UNCHANGED <<files, batches>>
  <2>1. OwnerIds' = OwnerIds /\ RefusedIds' = RefusedIds /\ Lives' = Lives
    BY <1>6, TablesKept, LivesKept
  <2>2. CASE StoredContents' = StoredContents
    BY <2>1, <2>2 DEF Service!svars
  <2>3. CASE \E c \in Contents : StoredContents' = StoredContents \cup {c}
    BY <2>1, <2>3 DEF Service!Next, Service!Store
  <2> QED BY <2>2, <2>3, StoredStep
<1>7. \/ \E r \in Requests : \/ CreateBatch(r) /\ batches' # batches
                             \/ RegisterWrite(r) /\ files' # files
                             \/ RecordFailure(r) \/ CompleteBatch(r)
                             \/ AnswerBatch(r) /\ batches' # batches
      \/ UNCHANGED <<files, batches>>
  <2>1. ASSUME NEW r \in Requests, RegisterWrite(r) PROVE UNCHANGED batches
    BY <2>1 DEF RegisterWrite
  <2>2. ASSUME NEW r \in Requests, CreateBatch(r) \/ AnswerBatch(r) PROVE UNCHANGED files
    BY <2>2 DEF CreateBatch, AnswerBatch
  <2>3. ASSUME NEW r \in Requests, Step(r), ~ RegisterWrite(r), ~ RecordFailure(r), ~ CreateBatch(r),
               ~ CompleteBatch(r), ~ AnswerBatch(r)
        PROVE  UNCHANGED <<files, batches>>
    BY <2>3 DEF Step, Receive, LookupKey, Replay, Admit, OpenStaging, WriteChunk, EndOfUpload, Promote,
       Tidy, Discard, RegisterRead, LeaveLoop, Sweep, Unwind
  <2>4. ASSUME NEW r \in Requests, RegistryFault(r) \/ StorageFault(r) PROVE UNCHANGED <<files, batches>>
    BY <2>4 DEF RegistryFault, StorageFault
  <2>5. ASSUME (\E w \in Workers : Crash(w)) \/ (\E c \in Contents : Decay(c)) \/ UNCHANGED vars
        PROVE  UNCHANGED <<files, batches>>
    BY <2>5 DEF Crash, Decay, vars
  <2> QED BY <2>1, <2>2, <2>3, <2>4, <2>5 DEF Next, Idle
<1> QED BY <1>1, <1>2, <1>3, <1>4, <1>5, <1>6, <1>7

\* Empty tables are the service before its first request.
LEMMA ServiceInit == Init => Service!Init
<1> SUFFICES ASSUME Init PROVE Service!Init
  OBVIOUS
<1>1. StoredContents = {} /\ RefusedIds = {}
  BY DEF Init, StoredContents, RefusedIds
<1>2. \A c \in Contents : OwnerId(c) = None
  BY DEF Init, OwnerId, Owners, Registered
<1>3. \A b \in Requests : Life(b) = "unknown"
  BY DEF Init, Life, Withdrawn
<1> QED BY <1>1, <1>2, <1>3 DEF Service!Init, OwnerIds, Lives

\* The intake endpoint implements IntakeService: whatever the requests of any number of workers do
\* at once, fail at or die at, a content is owned once and for good, a batch is received, settled
\* and stays so, and only a batch that holds nothing is withdrawn (execute, register_file,
\* complete_batch, delete_empty_batch).
THEOREM ImplementsService == Spec => ServiceSpec
<1>1. RefinementInv /\ [Next]_vars => [Service!Next]_(Service!svars)
  BY ServiceStep
<1> QED BY ServiceInit, RefinementAlways, <1>1, PTL DEF Spec, ServiceSpec, Service!Spec

-----------------------------------------------------------------------------
(* SumTo.  The library's induction takes an operator, so each induction    *)
(* here is over a set of counterexamples and its least element.            *)

\* Every set of numbers that has an element has a least one.
LEMMA LeastNumber ==
    ASSUME NEW T, T \subseteq Nat, T # {}
    PROVE  \E n \in T : \A m \in T : ~ (m < n)
<1>1. PICK n \in T : \A m \in T : <<m, n>> \notin OpToRel(<, Nat)
  BY WFMin, NatLessThanWellFounded
<1>2. \A m \in T : <<m, n>> \in OpToRel(<, Nat) <=> m < n
  BY DEF OpToRel
<1>3. QED
  BY <1>1, <1>2

\* p holds the sums of h up to n.
SumsUpTo(p, h, n) == p = [i \in 0..n |-> IF i = 0 THEN 0 ELSE p[i - 1] + h[i]]

\* There are such sums, however far.
LEMMA SumsExist ==
    ASSUME NEW h, NEW n \in Nat
    PROVE  \E p : SumsUpTo(p, h, n)
<1> DEFINE T == {m \in Nat : ~ \E p : SumsUpTo(p, h, m)}
<1> SUFFICES ASSUME T # {}
             PROVE  FALSE
  OBVIOUS
<1>1. PICK m \in T : \A k \in T : ~ (k < m)
  <2>1. T \subseteq Nat
    OBVIOUS
  <2> HIDE DEF T
  <2>2. QED
    BY <2>1, LeastNumber
<1>2. CASE m = 0
  <2>1. SumsUpTo([i \in 0..0 |-> 0], h, 0)
    BY DEF SumsUpTo
  <2>2. QED
    BY <1>1, <1>2, <2>1
<1>3. CASE m # 0
  <2>1. m \in Nat /\ m - 1 \in Nat /\ m - 1 < m
    BY <1>3
  <2>2. PICK p : SumsUpTo(p, h, m - 1)
    BY <1>1, <2>1
  <2>3. PICK q : q = [i \in 0..m |-> IF i = m THEN p[m - 1] + h[m] ELSE p[i]]
    OBVIOUS
  <2>4. ASSUME NEW i \in 0..m
        PROVE  q[i] = IF i = 0 THEN 0 ELSE q[i - 1] + h[i]
    <3>1. CASE i = m
      <4>1. q[m] = p[m - 1] + h[m] /\ q[m - 1] = p[m - 1]
        BY <2>1, <2>3
      <4>2. QED
        BY <3>1, <4>1, <1>3
    <3>2. CASE i # m
      <4>1. i \in 0..(m - 1) /\ q[i] = p[i] /\ (i # 0 => q[i - 1] = p[i - 1])
        BY <2>1, <2>3, <3>2
      <4>2. p[i] = IF i = 0 THEN 0 ELSE p[i - 1] + h[i]
        BY <2>2, <4>1 DEF SumsUpTo
      <4>3. QED
        BY <4>1, <4>2
    <3>3. QED
      BY <3>1, <3>2
  <2>5. SumsUpTo(q, h, m)
    BY <2>3, <2>4 DEF SumsUpTo
  <2>6. QED
    BY <1>1, <2>5
<1>4. QED
  BY <1>2, <1>3

\* They are the same where both go.
LEMMA SumsAgree ==
    ASSUME NEW h, NEW n \in Nat, NEW m \in Nat, n <= m, NEW p, NEW q,
           SumsUpTo(p, h, n), SumsUpTo(q, h, m)
    PROVE  \A i \in 0..n : p[i] = q[i]
<1> DEFINE T == {i \in 0..n : p[i] # q[i]}
<1> SUFFICES ASSUME T # {}
             PROVE  FALSE
  OBVIOUS
<1>1. PICK i \in T : \A k \in T : ~ (k < i)
  <2>1. T \subseteq Nat
    OBVIOUS
  <2> HIDE DEF T
  <2>2. QED
    BY <2>1, LeastNumber
<1>2. i \in 0..n /\ i \in 0..m /\ p[i] # q[i]
  OBVIOUS
<1>3. /\ p[i] = IF i = 0 THEN 0 ELSE p[i - 1] + h[i]
      /\ q[i] = IF i = 0 THEN 0 ELSE q[i - 1] + h[i]
  BY <1>2 DEF SumsUpTo
<1>4. i # 0
  BY <1>2, <1>3
<1>5. i - 1 \in 0..n /\ i - 1 < i
  BY <1>2, <1>4
<1>6. p[i - 1] = q[i - 1]
  BY <1>1, <1>5
<1>7. QED
  BY <1>2, <1>3, <1>4, <1>6

\* SumTo starts at 0 and adds one number at a time.
LEMMA SumToSteps ==
    ASSUME NEW h
    PROVE  /\ SumTo(h, 0) = 0
           /\ \A n \in Nat : SumTo(h, n + 1) = SumTo(h, n) + h[n + 1]
<1> DEFINE P(j) == CHOOSE p : SumsUpTo(p, h, j)
           g == [j \in Nat |-> P(j)[j]]
           IsSum(s) == s = [i \in Nat |-> IF i = 0 THEN 0 ELSE s[i - 1] + h[i]]
           sum == CHOOSE s : IsSum(s)
<1>1. \A j \in Nat : SumsUpTo(P(j), h, j)
  BY SumsExist
<1>2. ASSUME NEW j \in Nat
      PROVE  g[j] = IF j = 0 THEN 0 ELSE g[j - 1] + h[j]
  <2> HIDE DEF P
  <2>1. P(j)[j] = IF j = 0 THEN 0 ELSE P(j)[j - 1] + h[j]
    BY <1>1 DEF SumsUpTo
  <2>2. ASSUME j # 0
        PROVE  P(j - 1)[j - 1] = P(j)[j - 1]
    <3>1. j - 1 \in Nat /\ j - 1 <= j /\ j - 1 \in 0..(j - 1)
      BY <2>2
    <3>2. SumsUpTo(P(j - 1), h, j - 1) /\ SumsUpTo(P(j), h, j)
      BY <1>1, <3>1
    <3>3. \A i \in 0..(j - 1) : P(j - 1)[i] = P(j)[i]
      BY <3>1, <3>2, SumsAgree
    <3>4. QED
      BY <3>1, <3>3
  <2>3. j # 0 => g[j - 1] = P(j - 1)[j - 1]
    OBVIOUS
  <2>4. QED
    BY <2>1, <2>2, <2>3
<1>3. IsSum(g)
  <2>1. g = [i \in Nat |-> g[i]]
    OBVIOUS
  <2> HIDE DEF g
  <2>2. QED
    BY <1>2, <2>1
<1>4. IsSum(sum)
  <2> HIDE DEF g, IsSum
  <2>1. QED
    BY <1>3
<1>5. \A n \in Nat : SumTo(h, n) = sum[n]
  BY DEF SumTo
<1>6. \A n \in Nat : sum[n] = IF n = 0 THEN 0 ELSE sum[n - 1] + h[n]
  <2> HIDE DEF sum
  <2>1. QED
    BY <1>4
<1>7. SumTo(h, 0) = 0
  <2> HIDE DEF sum
  <2>1. QED
    BY <1>5, <1>6
<1>8. ASSUME NEW n \in Nat
      PROVE  SumTo(h, n + 1) = SumTo(h, n) + h[n + 1]
  <2> HIDE DEF sum
  <2>1. n + 1 \in Nat /\ n + 1 # 0 /\ (n + 1) - 1 = n
    OBVIOUS
  <2>2. sum[n + 1] = sum[n] + h[n + 1]
    BY <1>6, <2>1
  <2>3. QED
    BY <1>5, <2>1, <2>2
<1>9. QED
  BY <1>7, <1>8

\* Numbers that agree have the same sum.
LEMMA SumToSame ==
    ASSUME NEW g, NEW h, NEW n \in Nat, \A i \in 1..n : g[i] = h[i]
    PROVE  SumTo(g, n) = SumTo(h, n)
<1> DEFINE T == {i \in 0..n : SumTo(g, i) # SumTo(h, i)}
<1> SUFFICES ASSUME T # {}
             PROVE  FALSE
  OBVIOUS
<1>1. PICK i \in T : \A k \in T : ~ (k < i)
  <2>1. T \subseteq Nat
    OBVIOUS
  <2> HIDE DEF T
  <2>2. QED
    BY <2>1, LeastNumber
<1>2. i # 0
  BY SumToSteps
<1>3. i - 1 \in 0..n /\ i - 1 \in Nat /\ i - 1 < i /\ (i - 1) + 1 = i /\ i \in 1..n
  BY <1>2
<1>4. SumTo(g, i - 1) = SumTo(h, i - 1)
  BY <1>1, <1>3
<1>5. SumTo(g, i) = SumTo(g, i - 1) + g[i] /\ SumTo(h, i) = SumTo(h, i - 1) + h[i]
  BY <1>3, SumToSteps
<1>6. QED
  BY <1>3, <1>4, <1>5

\* The sum of natural numbers is one.
LEMMA SumToType ==
    ASSUME NEW h, NEW n \in Nat, \A i \in 1..n : h[i] \in Nat
    PROVE  SumTo(h, n) \in Nat
<1> DEFINE T == {i \in 0..n : SumTo(h, i) \notin Nat}
<1> SUFFICES ASSUME T # {}
             PROVE  FALSE
  OBVIOUS
<1>1. PICK i \in T : \A k \in T : ~ (k < i)
  <2>1. T \subseteq Nat
    OBVIOUS
  <2> HIDE DEF T
  <2>2. QED
    BY <2>1, LeastNumber
<1>2. i # 0
  BY SumToSteps
<1>3. i - 1 \in 0..n /\ i - 1 \in Nat /\ i - 1 < i /\ (i - 1) + 1 = i /\ i \in 1..n
  BY <1>2
<1>4. SumTo(h, i - 1) \in Nat
  BY <1>1, <1>3
<1>5. SumTo(h, i) = SumTo(h, i - 1) + h[i]
  BY <1>3, SumToSteps
<1>6. QED
  BY <1>3, <1>4, <1>5

\* Nothing is added where there are only zeroes.
LEMMA SumToTail ==
    ASSUME NEW h, NEW m \in Nat, NEW n \in Nat, m <= n,
           \A i \in 1..m : h[i] \in Nat, \A i \in (m + 1)..n : h[i] = 0
    PROVE  SumTo(h, n) = SumTo(h, m)
<1> DEFINE T == {i \in m..n : SumTo(h, i) # SumTo(h, m)}
<1> SUFFICES ASSUME T # {}
             PROVE  FALSE
  OBVIOUS
<1>1. PICK i \in T : \A k \in T : ~ (k < i)
  <2>1. T \subseteq Nat
    OBVIOUS
  <2> HIDE DEF T
  <2>2. QED
    BY <2>1, LeastNumber
<1>2. i # m
  OBVIOUS
<1>3. i - 1 \in m..n /\ i - 1 \in Nat /\ i - 1 < i /\ (i - 1) + 1 = i /\ i \in (m + 1)..n
  BY <1>2
<1>4. SumTo(h, i - 1) = SumTo(h, m)
  BY <1>1, <1>3
<1>5. SumTo(h, i) = SumTo(h, i - 1) + h[i]
  BY <1>3, SumToSteps
<1>6. h[i] = 0 /\ SumTo(h, m) \in Nat
  BY <1>3, SumToType
<1>7. QED
  BY <1>3, <1>4, <1>5, <1>6

-----------------------------------------------------------------------------
(* What one step does to what a request has spent.                         *)

\* The request stays at its upload and spends nothing ...
Waits(q) ==
    /\ cmd' = cmd /\ cur'[q] = cur[q] /\ local'[q].consumed = local[q].consumed
    /\ \A j \in Nat : Accepted(q, j)' <=> Accepted(q, j)

\* ... or leaves it without having spent anything ...
Refuses(q) ==
    /\ cmd' = cmd /\ cur'[q] = cur[q] + 1 /\ local'[q].consumed = local[q].consumed
    /\ RecordFailure(q)
    /\ \A j \in Nat : Accepted(q, j)' <=> Accepted(q, j)

\* ... or spends its bytes.
Accepts(q) ==
    /\ cmd' = cmd /\ cur'[q] = cur[q] + 1 /\ local'[q].consumed = local[q].consumed + Size[TheContent(q)]
    /\ RegisterWrite(q) /\ TheContent(q) \in Contents
    /\ \A j \in Nat : Accepted(q, j)' <=> Accepted(q, j) \/ j = cur[q]

\* What is accepted is in the records and the duplicates of the batch.
LEMMA SameAccepted ==
    ASSUME NEW q, FilesOf(q)' = FilesOf(q), local'[q].duplicates = local[q].duplicates
    PROVE  \A j \in Nat : Accepted(q, j)' <=> Accepted(q, j)
BY DEF Accepted

\* A failed call of register_file, and every step that is not about a record.
LEMMA QuietWaits ==
    ASSUME TypeOK, Located, NEW q \in Requests,
           \/ Step(q) /\ ~ RegisterWrite(q) /\ ~ RecordFailure(q)
           \/ RegistryFault(q) \/ StorageFault(q)
           \/ RegisterWrite(q) /\ FailWith(q, "storage-unavailable", "record") /\ UNCHANGED files
    PROVE  Waits(q)
<1> USE DEF registryVars, diskVars, taskVars, budgetVars
<1>1. UNCHANGED <<files, cmd>> /\ cur'[q] = cur[q]
  BY DEF Step, Receive, LookupKey, Replay, CreateBatch, Admit, OpenStaging, WriteChunk,
     EndOfUpload, Promote, Tidy, Discard, RegisterRead, LeaveLoop, Sweep, Unwind, CompleteBatch,
     AnswerBatch, RegistryFault, StorageFault, Return, FailWith, RegisterWrite
<1>2. FilesOf(q)' = FilesOf(q)
  BY <1>1 DEF FilesOf
<1>3. local[q] \in Local
  BY DEF TypeOK
<1>4. \/ local' = local
      \/ \E b : local' = [local EXCEPT ![q].target = b]
      \/ \E n : local' = [local EXCEPT ![q].written = n]
      \/ \E code : local' = [local EXCEPT ![q].failure = code]
  BY DEF Step, Receive, LookupKey, Replay, CreateBatch, Admit, OpenStaging, WriteChunk,
     EndOfUpload, Promote, Tidy, Discard, RegisterRead, LeaveLoop, Sweep, Unwind, CompleteBatch,
     AnswerBatch, RegistryFault, StorageFault, Return, FailWith
<1>5. local'[q].duplicates = local[q].duplicates /\ local'[q].consumed = local[q].consumed
  BY <1>3, <1>4 DEF TypeOK, Local
<1> QED BY <1>1, <1>2, <1>5, SameAccepted DEF Waits

\* register_file fails, or accepts the upload.
LEMMA WriteSpends ==
    ASSUME TypeOK, Located, NEW q \in Requests, RegisterWrite(q)
    PROVE  Waits(q) \/ Accepts(q)
<1> USE DEF registryVars, diskVars
<1> DEFINE c == TheContent(q)
<1>1. c \in Contents /\ TheFileId(q) = <<q, cur[q]>>
  BY AtUploadType DEF RegisterWrite, AtUpload, TheFileId
<1>2. local[q] \in Local /\ cur[q] \in Nat /\ cmd' = cmd
  BY DEF TypeOK, RegisterWrite
<1>3. CASE FailWith(q, "storage-unavailable", "record") /\ UNCHANGED <<blobs, files>>
  BY <1>3, QuietWaits
<1>4. ASSUME cur' = [cur EXCEPT ![q] = @ + 1],
             local'[q].consumed = local[q].consumed + Size[c],
             \A j \in Nat : Accepted(q, j)' <=> Accepted(q, j) \/ j = cur[q]
      PROVE  Accepts(q)
  BY <1>1, <1>2, <1>4 DEF Accepts, TypeOK
<1>5. ASSUME files' = files \cup {[id |-> TheFileId(q), batch |-> q, content |-> c,
                                  status |-> "registered", code |-> None]},
             local' = [local EXCEPT ![q].consumed = @ + Size[c], ![q].registered = @ + 1]
      PROVE  /\ local'[q].consumed = local[q].consumed + Size[c]
             /\ \A j \in Nat : Accepted(q, j)' <=> Accepted(q, j) \/ j = cur[q]
  <2> DEFINE f == [id |-> TheFileId(q), batch |-> q, content |-> c, status |-> "registered", code |-> None]
  <2>1. FilesOf(q)' = FilesOf(q) \cup {f}
    BY <1>5 DEF FilesOf
  <2>2. /\ local'[q].duplicates = local[q].duplicates
        /\ local'[q].consumed = local[q].consumed + Size[c]
    BY <1>2, <1>5 DEF TypeOK, Local
  <2>3. f.id = <<q, cur[q]>> /\ f.status = "registered"
    BY <1>1
  <2>4. \A j \in Nat : f.id = <<q, j>> <=> j = cur[q]
    BY <2>3, <1>2
  <2> HIDE DEF f
  <2> QED BY <2>1, <2>2, <2>3, <2>4 DEF Accepted
<1>6. ASSUME NEW o \in Owners(c), UNCHANGED files,
             local' = [local EXCEPT
                   ![q].duplicates = @ \cup {[id |-> TheFileId(q), of |-> o.id, content |-> c]},
                   ![q].consumed = @ + Size[c], ![q].failed = @ + 1]
      PROVE  /\ local'[q].consumed = local[q].consumed + Size[c]
             /\ \A j \in Nat : Accepted(q, j)' <=> Accepted(q, j) \/ j = cur[q]
  <2> DEFINE d == [id |-> TheFileId(q), of |-> o.id, content |-> c]
  <2>1. FilesOf(q)' = FilesOf(q)
    BY <1>6 DEF FilesOf
  <2>2. /\ local'[q].duplicates = local[q].duplicates \cup {d}
        /\ local'[q].consumed = local[q].consumed + Size[c]
    BY <1>2, <1>6 DEF TypeOK, Local
  <2>3. d.id = <<q, cur[q]>>
    BY <1>1
  <2>4. \A j \in Nat : d.id = <<q, j>> <=> j = cur[q]
    BY <2>3, <1>2
  <2> HIDE DEF d
  <2> QED BY <2>1, <2>2, <2>3, <2>4 DEF Accepted
<1> QED BY <1>3, <1>4, <1>5, <1>6 DEF RegisterWrite

\* A failed record spends nothing.
LEMMA FailureSpends ==
    ASSUME TypeOK, Located, NEW q \in Requests, RecordFailure(q)
    PROVE  Refuses(q)
<1> USE DEF registryVars, diskVars
<1> DEFINE f == [id |-> TheFileId(q), batch |-> q, content |-> None, status |-> "failed",
                 code |-> local[q].failure]
<1>1. FilesOf(q)' = FilesOf(q) \cup {f}
  BY DEF FilesOf, RecordFailure
<1>2. local'[q].duplicates = local[q].duplicates /\ local'[q].consumed = local[q].consumed
  BY DEF TypeOK, Local, RecordFailure
<1>3. f.status # "registered"
  OBVIOUS
<1>4. cmd' = cmd /\ cur'[q] = cur[q] + 1
  BY DEF RecordFailure, TypeOK
<1>5. \A j \in Nat : Accepted(q, j)' <=> Accepted(q, j)
  <2> HIDE DEF f
  <2> QED BY <1>1, <1>2, <1>3 DEF Accepted
<1> QED BY <1>2, <1>4, <1>5 DEF Refuses

\* The steps of other requests, crashes and disks do not spend for this one.
LEMMA SpendingStep ==
    ASSUME TypeOK, Located, [Next]_vars, NEW q \in Requests
    PROVE  Waits(q) \/ Refuses(q) \/ Accepts(q)
<1>1. ASSUME FilesOf(q)' = FilesOf(q), cmd' = cmd, cur'[q] = cur[q], local'[q] = local[q]
      PROVE  Waits(q)
  BY <1>1, SameAccepted DEF Waits
<1>2. ASSUME NEW r \in Requests \ {q}, Step(r) PROVE Waits(q)
  <2>1. q \in Requests \ {r} /\ r \in Requests
    BY <1>2
  <2> QED BY <1>1, <1>2, <2>1, RowsKept, RecordsKept
<1>3. ASSUME NEW r \in Requests \ {q}, RegistryFault(r) \/ StorageFault(r) PROVE Waits(q)
  <2>1. q \in Requests \ {r} /\ r \in Requests
    BY <1>3
  <2>2. cmd' = cmd /\ cur' = cur /\ local'[q] = local[q]
    BY <1>3, <2>1 DEF RegistryFault, StorageFault, Return, FailWith, Goto, TypeOK
  <2> QED BY <1>1, <1>3, <2>1, <2>2, RecordsKept
<1>4. CASE Step(q) \/ RegistryFault(q) \/ StorageFault(q)
  BY <1>4, QuietWaits, WriteSpends, FailureSpends
<1>5. CASE \/ \E w \in Workers : Crash(w)
           \/ \E c \in Contents : Decay(c)
           \/ UNCHANGED vars
  <2>1. UNCHANGED <<cmd, cur, local, files>>
    BY <1>5 DEF Crash, Decay, vars, registryVars, taskVars
  <2> QED BY <1>1, <2>1 DEF FilesOf
<1> QED BY <1>2, <1>3, <1>4, <1>5 DEF Next, Idle

\* What each upload spent is a number of bytes.
LEMMA SpentType ==
    ASSUME TypeOK, NEW q \in Requests
    PROVE  /\ Uploads(q) \in Nat /\ DOMAIN cmd[q].files = 1..Uploads(q)
           /\ \A j \in 1..Uploads(q) :
                /\ BytesOf(q, j) \in Nat /\ Spent(q)[j] \in Nat
                /\ Spent(q)[j] = IF Accepted(q, j) THEN BytesOf(q, j) ELSE 0
<1>1. cmd[q] \in Commands
  BY DEF TypeOK
<1>2. Uploads(q) \in Nat /\ DOMAIN cmd[q].files = 1..Uploads(q)
  BY <1>1, CommandType DEF Uploads
<1>3. ASSUME NEW j \in 1..Uploads(q)
      PROVE  BytesOf(q, j) \in Nat
  BY <1>1, <1>2, CommandType, SizeAssumption DEF BytesOf
<1>4. \A j \in 1..Uploads(q) : Spent(q)[j] = IF Accepted(q, j) THEN BytesOf(q, j) ELSE 0
  BY <1>2 DEF Spent
<1> QED BY <1>2, <1>3, <1>4

\* What the uploads before the one a request is at spent is settled.
LEMMA SpentStays ==
    ASSUME TypeOK, TypeOK', NEW q \in Requests, cur[q] <= Uploads(q) + 1,
           Waits(q) \/ Refuses(q) \/ Accepts(q), NEW i \in 1..cur[q]
    PROVE  AcceptedBefore(q, i)' = AcceptedBefore(q, i)
<1>1. cmd' = cmd /\ cur[q] \in Nat /\ i - 1 \in Nat
  BY DEF TypeOK, Waits, Refuses, Accepts
<1>2. \A j \in Nat : j # cur[q] => (Accepted(q, j)' <=> Accepted(q, j))
  BY DEF Waits, Refuses, Accepts
<1>3. \A j \in 1..(i - 1) : j \in 1..Uploads(q) /\ j # cur[q] /\ j \in Nat
  BY <1>1, SpentType
<1>4. Uploads(q)' = Uploads(q) /\ \A j : BytesOf(q, j)' = BytesOf(q, j)
  BY <1>1 DEF Uploads, BytesOf
<1>5. ASSUME NEW j \in 1..(i - 1)
      PROVE  Spent(q)'[j] = Spent(q)[j]
  <2>1. Spent(q)[j] = IF Accepted(q, j) THEN BytesOf(q, j) ELSE 0
    BY <1>3, SpentType
  <2>2. Spent(q)'[j] = IF Accepted(q, j)' THEN BytesOf(q, j) ELSE 0
    <3>1. DOMAIN cmd[q].files = 1..Uploads(q)
      BY SpentType
    <3>2. j \in DOMAIN cmd'[q].files
      BY <1>1, <1>3, <3>1
    <3>3. Spent(q)'[j] = IF Accepted(q, j)' THEN BytesOf(q, j)' ELSE 0
      BY <3>2 DEF Spent
    <3> QED BY <1>4, <3>3
  <2> QED BY <1>2, <1>3, <2>1, <2>2
<1>6. SumTo(Spent(q)', i - 1) = SumTo(Spent(q), i - 1)
  BY <1>1, <1>5, SumToSame
<1> QED BY <1>6 DEF AcceptedBefore

\* The upload a request is at is not accepted yet.
LEMMA NotYetAccepted ==
    ASSUME TypeOK, NEW q \in Requests, VerdictsAt(q), NEW k, k = cur[q]
    PROVE  ~ Accepted(q, k)
BY NoVerdictYet DEF Accepted

\* What a request consumed follows what it spent.
LEMMA ConsumedStep ==
    ASSUME TypeOK, TypeOK', Located, NEW q \in Requests, ConsumedAt(q), UploadAt(q), VerdictsAt(q),
           Waits(q) \/ Refuses(q) \/ Accepts(q)
    PROVE  ConsumedAt(q)'
<1> PICK k : k = cur[q]
  OBVIOUS
<1>1. /\ k \in Nat \ {0} /\ cmd' = cmd /\ local[q].consumed \in Nat
      /\ Uploads(q)' = Uploads(q) /\ Uploads(q) \in Nat /\ MaxBatchBytes \in Nat
      /\ k <= Uploads(q) + 1 /\ local[q].consumed = AcceptedBefore(q, k)
      /\ local[q].consumed <= MaxBatchBytes
  BY SpentType, LimitsAssumption DEF TypeOK, Local, Waits, Refuses, Accepts, Uploads, ConsumedAt
<1>2. SumTo(Spent(q)', k - 1) = local[q].consumed
  <2>1. k \in 1..cur[q]
    BY <1>1
  <2>2. AcceptedBefore(q, k)' = AcceptedBefore(q, k)
    BY <1>1, <2>1, SpentStays
  <2> QED BY <1>1, <2>2 DEF AcceptedBefore
<1>3. ASSUME cur'[q] <= Uploads(q) + 1, local'[q].consumed = SumTo(Spent(q)', cur'[q] - 1),
             local'[q].consumed <= MaxBatchBytes
      PROVE  ConsumedAt(q)'
  BY <1>1, <1>3 DEF ConsumedAt, AcceptedBefore
<1>4. CASE Waits(q)
  BY <1>1, <1>2, <1>3, <1>4 DEF Waits
<1>5. CASE Refuses(q) \/ Accepts(q)
  <2>1. pc[q] \in AtUpload
    BY <1>5 DEF Refuses, Accepts, RecordFailure, RegisterWrite, AtUpload
  <2>2. k \in 1..Uploads(q) /\ k - 1 \in Nat /\ (k - 1) + 1 = k /\ cur'[q] = k + 1 /\ (k + 1) - 1 = k
    BY <1>1, <1>5, <2>1, SpentType DEF Located, LocatedAt, Refuses, Accepts
  <2>3. SumTo(Spent(q)', k) = local[q].consumed + Spent(q)'[k]
    <3>1. SumTo(Spent(q)', (k - 1) + 1) = SumTo(Spent(q)', k - 1) + Spent(q)'[(k - 1) + 1]
      BY <2>2, SumToSteps
    <3> QED BY <1>2, <2>2, <3>1
  <2>4. Spent(q)'[k] = IF Accepted(q, k)' THEN BytesOf(q, k) ELSE 0
    <3>1. k \in DOMAIN cmd'[q].files
      BY <1>1, <2>2, SpentType
    <3>2. Spent(q)'[k] = IF Accepted(q, k)' THEN BytesOf(q, k)' ELSE 0
      BY <3>1 DEF Spent
    <3>3. BytesOf(q, k)' = BytesOf(q, k)
      BY <1>1 DEF BytesOf
    <3> QED BY <3>2, <3>3
  <2>5. BytesOf(q, k) = Size[TheContent(q)] /\ BytesOf(q, k) \in Nat
    BY <2>2, SpentType DEF BytesOf, TheContent, TheUpload
  <2>6. CASE Refuses(q)
    <3>1. ~ Accepted(q, k)'
      BY <1>1, <2>6, NotYetAccepted DEF Refuses
    <3>2. SumTo(Spent(q)', k) = local[q].consumed
      BY <1>1, <2>3, <2>4, <3>1
    <3> QED BY <1>1, <1>3, <2>2, <2>6, <3>2 DEF Refuses
  <2>7. CASE Accepts(q)
    <3>1. Accepted(q, k)'
      BY <1>1, <2>7 DEF Accepts
    <3>2. SumTo(Spent(q)', k) = local'[q].consumed
      BY <2>3, <2>4, <2>5, <2>7, <3>1 DEF Accepts
    <3>3. Size[TheContent(q)] \in 1..Limit(q)
      BY <2>7 DEF UploadAt, Accepts, RegisterWrite, AfterPromotion
    <3>4. local'[q].consumed <= MaxBatchBytes
      BY <1>1, <2>5, <2>7, <3>3, LimitsAssumption DEF Limit, Remaining, Accepts
    <3> QED BY <1>1, <1>3, <2>2, <3>2, <3>4
  <2> QED BY <1>5, <2>6, <2>7
<1> QED BY <1>4, <1>5

-----------------------------------------------------------------------------
(* The upload a request is at.                                             *)

\* A code that is set is a true one.
LEMMA CodeSet ==
    ASSUME TypeOK, NEW r \in Requests, NEW code \in FailureCode, NEW label \in {"discard", "record"},
           FailWith(r, code, label), cmd' = cmd,
           code = "unsupported-extension" <=> TheUpload(r).name \notin AllowedNames,
           label = "discard" => TheUpload(r).name \in AllowedNames,
           code = "empty-file" => Size[TheContent(r)] = 0,
           code = "file-too-large" => Size[TheContent(r)] > MaxFileBytes,
           code = "batch-too-large" => \/ local[r].consumed + Size[TheContent(r)] > MaxBatchBytes
                                       \/ local[r].consumed = MaxBatchBytes,
           code = "storage-unavailable" => faults' > 0 \/ SeveralWorkers
    PROVE  UploadAt(r)'
<1>1. /\ pc'[r] = label /\ cur' = cur /\ local[r] \in Local
      /\ local'[r].failure = code /\ local'[r].consumed = local[r].consumed
  BY DEF FailWith, Goto, TypeOK, Local
<1>2. TheUpload(r)' = TheUpload(r) /\ TheContent(r)' = TheContent(r)
  BY <1>1 DEF TheUpload, TheContent
<1>3. /\ pc'[r] \in AtUpload \ {"record"} => label = "discard"
      /\ pc'[r] # "write"
      /\ pc'[r] \notin {"promote"} \cup AfterPromotion
  BY <1>1 DEF AtUpload, AfterPromotion
<1>4. local'[r].failure # None
  BY <1>1, NoneAssumption
<1>5. ReasonHolds(local[r].failure, TheUpload(r), local[r].consumed)'
  BY <1>1, <1>2 DEF ReasonHolds, TheContent
<1> QED BY <1>2, <1>3, <1>4, <1>5 DEF UploadAt

\* What is true of an upload stays true while the request is at it, whatever else happens.
LEMMA UploadFrame ==
    ASSUME TypeOK, TypeOK', NEW q, cmd' = cmd, UploadAt(q), faults' >= faults,
           cur'[q] = cur[q], local'[q] = local[q],
           pc'[q] = pc[q] \/ pc'[q] \in {"done", "lost"}
    PROVE  UploadAt(q)'
<1>1. TheUpload(q)' = TheUpload(q) /\ TheContent(q)' = TheContent(q) /\ Limit(q)' = Limit(q)
  BY DEF TheUpload, TheContent, Limit, Remaining
<1>2. CASE pc'[q] = pc[q]
  <2>1. faults \in Nat /\ faults' \in Nat
    BY DEF TypeOK
  <2>2. ReasonHolds(local[q].failure, TheUpload(q), local[q].consumed)
          => ReasonHolds(local[q].failure, TheUpload(q), local[q].consumed)'
    BY <1>1, <2>1 DEF ReasonHolds, TheContent
  <2> QED BY <1>1, <1>2, <2>2 DEF UploadAt
<1>3. CASE pc'[q] \in {"done", "lost"}
  BY <1>3 DEF UploadAt, AtUpload, AfterPromotion
<1> QED BY <1>2, <1>3

\* Which labels say nothing of an upload.
LEMMA NotAtUpload ==
    ASSUME NEW q, pc'[q] \notin AtUpload
    PROVE  UploadAt(q)'
BY DEF UploadAt, AtUpload, AfterPromotion

\* An upload that goes on to its next label keeps its name and its limit.
LEMMA UploadMoves ==
    ASSUME TypeOK, NEW r \in Requests, cmd' = cmd, cur'[r] = cur[r],
           local'[r].consumed = local[r].consumed,
           pc'[r] \in AtUpload \ {"discard", "record"}, TheUpload(r).name \in AllowedNames,
           pc'[r] = "write" => local'[r].written <= Limit(r) /\ local'[r].written <= Size[TheContent(r)],
           pc'[r] \in {"promote"} \cup AfterPromotion => Size[TheContent(r)] \in 1..Limit(r)
    PROVE  UploadAt(r)'
<1>1. TheUpload(r)' = TheUpload(r) /\ TheContent(r)' = TheContent(r) /\ Limit(r)' = Limit(r)
  BY DEF TheUpload, TheContent, Limit, Remaining
<1> QED BY <1>1 DEF UploadAt

\* The sizes and limits are numbers of bytes.
LEMMA Bytes ==
    ASSUME TypeOK, Located, NEW r \in Requests
    PROVE  /\ local[r].consumed \in Nat /\ local[r].written \in Nat
           /\ Remaining(r) \in Nat /\ Limit(r) \in Nat /\ Limit(r) <= MaxFileBytes
           /\ MaxBatchBytes \in Nat /\ MaxFileBytes \in Nat /\ ChunkBytes \in Nat \ {0}
           /\ pc[r] \in AtUpload => Size[TheContent(r)] \in Nat
<1>1. /\ local[r].consumed \in Nat /\ local[r].written \in Nat
      /\ MaxBatchBytes \in Nat /\ MaxFileBytes \in Nat /\ ChunkBytes \in Nat \ {0}
  BY LimitsAssumption DEF TypeOK, Local
<1>2. Remaining(r) \in Nat /\ Limit(r) \in Nat /\ Limit(r) <= MaxFileBytes
  BY <1>1 DEF Remaining, Limit
<1>3. pc[r] \in AtUpload => Size[TheContent(r)] \in Nat
  BY AtUploadType, SizeAssumption
<1> QED BY <1>1, <1>2, <1>3

\* A step of the request: what it does to its upload.
LEMMA UploadOwn ==
    ASSUME TypeOK, Located, NEW r \in Requests, Step(r), ConsumedAt(r), UploadAt(r), InsertAt(r)
    PROVE  UploadAt(r)'
<1> USE DEF registryVars, diskVars, taskVars, budgetVars
<1>0. /\ cmd' = cmd /\ local[r] \in Local /\ pc \in [Requests -> {"new", "done", "lost"} \cup OnLoop \cup InThread]
      /\ local \in [Requests -> Local] /\ cur \in [Requests -> Nat \ {0}]
      /\ local[r].consumed <= MaxBatchBytes
  BY RowsKept DEF TypeOK, ConsumedAt
<1>1. CASE Receive(r) \/ LookupKey(r) \/ Replay(r) \/ CreateBatch(r) \/ LeaveLoop(r) \/ Sweep(r)
           \/ Unwind(r) \/ CompleteBatch(r) \/ AnswerBatch(r)
  <2>1. pc'[r] \in {"done", "lookup", "create", "replay", "next", "sweep", "complete", "answer"}
    BY <1>0, <1>1 DEF Receive, LookupKey, Replay, CreateBatch, LeaveLoop, Sweep, Unwind, CompleteBatch,
       AnswerBatch, Return, Goto
  <2> QED BY <2>1, NotAtUpload DEF AtUpload
<1>2. CASE Admit(r)
  <2>1. CASE TheUpload(r).name \notin AllowedNames /\ FailWith(r, "unsupported-extension", "record")
    BY <1>0, <2>1, CodeSet DEF FailureCode
  <2>2. CASE /\ TheUpload(r).name \in AllowedNames /\ Remaining(r) = 0
             /\ FailWith(r, "batch-too-large", "record")
    <3>1. local[r].consumed = MaxBatchBytes
      BY <1>0, <2>2, Bytes DEF Remaining
    <3> QED BY <1>0, <2>2, <3>1, CodeSet DEF FailureCode
  <2>3. CASE TheUpload(r).name \in AllowedNames /\ Goto(r, "open") /\ UNCHANGED <<cur, local, answer>>
    <3>1. pc'[r] = "open"
      BY <1>0, <2>3 DEF Goto
    <3> QED BY <1>0, <2>3, <3>1, UploadMoves DEF AtUpload, AfterPromotion
  <2> QED BY <1>2, <2>1, <2>2, <2>3 DEF Admit
<1>3. CASE OpenStaging(r)
  <2>1. pc[r] = "open" /\ pc'[r] = "write" /\ cur' = cur
    BY <1>0, <1>3 DEF OpenStaging, Goto
  <2>2. local'[r].written = 0 /\ local'[r].consumed = local[r].consumed
    BY <1>0, <1>3 DEF OpenStaging, Local
  <2>3. TheUpload(r).name \in AllowedNames
    BY <2>1 DEF UploadAt, AtUpload
  <2>4. Limit(r) \in Nat /\ Size[TheContent(r)] \in Nat
    BY <2>1, Bytes DEF AtUpload
  <2>5. 0 <= Limit(r) /\ 0 <= Size[TheContent(r)]
    BY <2>4
  <2> QED BY <1>0, <2>1, <2>2, <2>3, <2>5, UploadMoves DEF AtUpload, AfterPromotion
<1>4. CASE WriteChunk(r)
  <2> DEFINE read == local[r].written + ChunkBytes
             size == IF read < Size[TheContent(r)] THEN read ELSE Size[TheContent(r)]
  <2>1. pc[r] = "write" /\ TheUpload(r).name \in AllowedNames
    BY <1>4 DEF WriteChunk, UploadAt, AtUpload
  <2>2. /\ Size[TheContent(r)] \in Nat /\ size \in Nat /\ size <= Size[TheContent(r)]
        /\ Limit(r) \in Nat /\ Remaining(r) \in Nat
    BY <2>1, Bytes DEF AtUpload
  <2>3. CASE size > Limit(r) /\ FailWith(r, OversizeCode(r), "discard")
    <3>1. Size[TheContent(r)] > Limit(r)
      BY <2>2, <2>3
    <3>2. CASE Remaining(r) < MaxFileBytes
      <4>1. OversizeCode(r) = "batch-too-large" /\ Size[TheContent(r)] > Remaining(r)
        BY <3>1, <3>2 DEF OversizeCode, Limit
      <4>2. local[r].consumed + Size[TheContent(r)] > MaxBatchBytes
        BY <1>0, <2>2, <4>1, Bytes DEF Remaining
      <4> QED BY <1>0, <2>1, <2>3, <4>1, <4>2, CodeSet DEF FailureCode
    <3>3. CASE ~ (Remaining(r) < MaxFileBytes)
      <4>1. OversizeCode(r) = "file-too-large" /\ Size[TheContent(r)] > MaxFileBytes
        BY <3>1, <3>3 DEF OversizeCode, Limit
      <4> QED BY <1>0, <2>1, <2>3, <4>1, CodeSet DEF FailureCode
    <3> QED BY <3>2, <3>3
  <2>4. CASE ~ (size > Limit(r)) /\ local' = [local EXCEPT ![r].written = size]
             /\ UNCHANGED <<pc, cur, answer>>
    <3>1. local'[r].written = size /\ local'[r].consumed = local[r].consumed
      <4> HIDE DEF size
      <4> QED BY <1>0, <2>4 DEF Local
    <3>2. size <= Limit(r)
      BY <2>2, <2>4
    <3>3. pc'[r] = "write" /\ cur' = cur
      BY <2>1, <2>4
    <3>4. "write" \in AtUpload \ {"discard", "record"} /\ "write" \notin {"promote"} \cup AfterPromotion
      BY DEF AtUpload, AfterPromotion
    <3> QED BY <1>0, <2>1, <2>2, <3>1, <3>2, <3>3, <3>4, UploadMoves
  <2> QED BY <1>4, <2>3, <2>4 DEF WriteChunk
<1>5. CASE EndOfUpload(r)
  <2>1. /\ pc[r] = "write" /\ TheUpload(r).name \in AllowedNames
        /\ local[r].written = Size[TheContent(r)] /\ local[r].written <= Limit(r)
    BY <1>5 DEF EndOfUpload, UploadAt, AtUpload
  <2>2. CASE local[r].written = 0 /\ FailWith(r, "empty-file", "discard")
    BY <1>0, <2>1, <2>2, CodeSet DEF FailureCode
  <2>3. CASE local[r].written # 0 /\ Goto(r, "promote") /\ UNCHANGED <<cur, local, answer>>
    <3>1. pc'[r] = "promote"
      BY <1>0, <2>3 DEF Goto
    <3>2. Size[TheContent(r)] \in 1..Limit(r)
      BY <2>1, <2>3, Bytes
    <3> QED BY <1>0, <2>1, <2>3, <3>1, <3>2, UploadMoves DEF AtUpload, AfterPromotion
  <2> QED BY <1>5, <2>2, <2>3 DEF EndOfUpload
<1>6. CASE Promote(r)
  <2>1. /\ pc[r] = "promote" /\ TheUpload(r).name \in AllowedNames
        /\ Size[TheContent(r)] \in 1..Limit(r)
    BY <1>6 DEF Promote, UploadAt, AtUpload
  <2>2. CASE Goto(r, "tidy") /\ UNCHANGED <<cur, local>>
    <3>1. pc'[r] = "tidy"
      BY <1>0, <2>2 DEF Goto
    <3> QED BY <1>0, <2>1, <2>2, <3>1, UploadMoves DEF AtUpload, AfterPromotion
  <2>3. CASE FailWith(r, "integrity-conflict", "discard")
    BY <1>0, <2>1, <2>3, CodeSet DEF FailureCode
  <2> QED BY <1>6, <2>2, <2>3 DEF Promote
<1>7. CASE Tidy(r) \/ RegisterRead(r)
  <2>1. /\ pc[r] \in {"tidy", "register"} /\ pc'[r] \in {"register", "reuse", "insert"}
        /\ UNCHANGED <<cur, local>>
    BY <1>0, <1>7 DEF Tidy, RegisterRead, Goto
  <2>2. TheUpload(r).name \in AllowedNames /\ Size[TheContent(r)] \in 1..Limit(r)
    BY <2>1 DEF UploadAt, AtUpload, AfterPromotion
  <2> QED BY <1>0, <2>1, <2>2, UploadMoves DEF AtUpload, AfterPromotion
<1>8. CASE Discard(r)
  <2>1. /\ pc[r] = "discard" /\ pc'[r] = "record" /\ UNCHANGED <<cur, local, faults>>
    BY <1>0, <1>8 DEF Discard, Goto
  <2>2. TheUpload(r)' = TheUpload(r)
    BY <1>0, <2>1 DEF TheUpload
  <2>3. ReasonHolds(local[r].failure, TheUpload(r), local[r].consumed)'
    BY <2>1, <2>2 DEF UploadAt, ReasonHolds
  <2> QED BY <2>1, <2>3 DEF UploadAt, AtUpload, AfterPromotion
<1>9. CASE RegisterWrite(r)
  <2>1. CASE pc[r] = "insert" /\ TheContent(r) \in blobs /\ FailWith(r, "storage-unavailable", "record")
    <3>1. SeveralWorkers /\ TheUpload(r).name \in AllowedNames
      BY <2>1 DEF InsertAt, UploadAt, AtUpload
    <3> QED BY <1>0, <2>1, <3>1, CodeSet DEF FailureCode
  <2>2. CASE pc'[r] = "next"
    BY <2>2, NotAtUpload DEF AtUpload
  <2> QED BY <1>0, <1>9, <2>1, <2>2 DEF RegisterWrite, Goto
<1>10. CASE RecordFailure(r)
  <2>1. pc'[r] = "next"
    BY <1>0, <1>10 DEF RecordFailure, Goto
  <2> QED BY <2>1, NotAtUpload DEF AtUpload
<1> QED BY <1>1, <1>2, <1>3, <1>4, <1>5, <1>6, <1>7, <1>8, <1>9, <1>10 DEF Step

\* A failing call of the request: its code is what happened.
LEMMA UploadFault ==
    ASSUME TypeOK, Located, NEW r \in Requests, RegistryFault(r) \/ StorageFault(r), UploadAt(r)
    PROVE  UploadAt(r)'
<1>1. /\ cmd' = cmd /\ pc \in [Requests -> {"new", "done", "lost"} \cup OnLoop \cup InThread]
      /\ faults' > 0
  BY DEF RegistryFault, StorageFault, TypeOK
<1>2. ASSUME NEW label \in {"discard", "record"}, FailWith(r, "storage-unavailable", label),
             TheUpload(r).name \in AllowedNames
      PROVE  UploadAt(r)'
  BY <1>1, <1>2, CodeSet DEF FailureCode
<1>3. CASE RegistryFault(r)
  <2>1. \/ pc'[r] \in {"done", "unwind"}
        \/ pc[r] \in {"register", "insert", "reuse"} /\ FailWith(r, "storage-unavailable", "record")
    BY <1>1, <1>3 DEF RegistryFault, Return, Goto
  <2> QED BY <1>2, <2>1, NotAtUpload DEF UploadAt, AtUpload
<1>4. CASE StorageFault(r)
  <2>1. \/ pc'[r] \in {"done", "complete"}
        \/ pc[r] \in {"open", "write", "promote", "tidy"} /\ FailWith(r, "storage-unavailable", "discard")
        \/ pc[r] = "discard" /\ FailWith(r, "storage-unavailable", "record")
        \/ TheUpload(r).name \in AllowedNames /\ FailWith(r, "storage-unavailable", "record")
    BY <1>1, <1>4 DEF StorageFault, Return, Goto
  <2> QED BY <1>2, <2>1, NotAtUpload DEF UploadAt, AtUpload
<1> QED BY <1>3, <1>4

\* A step of its own course counts no fault.
LEMMA NoFaultCounted ==
    ASSUME NEW r \in Requests, Step(r)
    PROVE  faults' = faults
<1> USE DEF budgetVars
<1>1. CASE Receive(r) \/ LookupKey(r) \/ Replay(r) \/ CreateBatch(r) \/ Admit(r) \/ OpenStaging(r)
           \/ WriteChunk(r) \/ EndOfUpload(r) \/ Promote(r) \/ Tidy(r) \/ Discard(r)
  BY <1>1 DEF Receive, LookupKey, Replay, CreateBatch, Admit, OpenStaging, WriteChunk, EndOfUpload,
     Promote, Tidy, Discard
<1>2. CASE RegisterRead(r) \/ RegisterWrite(r) \/ RecordFailure(r) \/ LeaveLoop(r) \/ Sweep(r)
           \/ Unwind(r) \/ CompleteBatch(r) \/ AnswerBatch(r)
  BY <1>2 DEF RegisterRead, RegisterWrite, RecordFailure, LeaveLoop, Sweep, Unwind, CompleteBatch,
     AnswerBatch
<1> QED BY <1>1, <1>2 DEF Step

\* What is true of the upload a request is at stays true.
LEMMA UploadStep ==
    ASSUME TypeOK, TypeOK', Located, [Next]_vars, NEW q \in Requests,
           ConsumedAt(q), UploadAt(q), InsertAt(q)
    PROVE  UploadAt(q)'
<1> USE DEF registryVars, diskVars, taskVars, budgetVars
<1>1. ASSUME NEW r \in Requests \ {q}, Step(r) PROVE UploadAt(q)'
  <2>1. q \in Requests \ {r} /\ r \in Requests
    BY <1>1
  <2>2. faults' = faults
    BY <1>1, NoFaultCounted
  <2>3. faults' >= faults
    BY <2>2 DEF TypeOK
  <2> QED BY <1>1, <2>1, <2>3, RowsKept, UploadFrame
<1>2. ASSUME NEW r \in Requests \ {q}, RegistryFault(r) \/ StorageFault(r) PROVE UploadAt(q)'
  <2>1. /\ cmd' = cmd /\ cur' = cur /\ local'[q] = local[q] /\ pc'[q] = pc[q]
        /\ faults' >= faults
    BY <1>2 DEF RegistryFault, StorageFault, Return, FailWith, Goto, TypeOK
  <2> QED BY <1>2, <2>1, UploadFrame
<1>3. CASE Step(q)
  BY <1>3, UploadOwn
<1>4. CASE RegistryFault(q) \/ StorageFault(q)
  BY <1>4, UploadFault
<1>5. ASSUME NEW w \in Workers, Crash(w) PROVE UploadAt(q)'
  <2>1. UNCHANGED <<cmd, cur, local, faults>> /\ (pc'[q] = pc[q] \/ pc'[q] = "lost")
    BY <1>5 DEF Crash
  <2>2. faults' >= faults
    BY <2>1 DEF TypeOK
  <2> QED BY <2>1, <2>2, UploadFrame
<1>6. CASE (\E c \in Contents : Decay(c)) \/ UNCHANGED vars
  <2>1. UNCHANGED <<cmd, cur, local, pc, faults>>
    BY <1>6 DEF Decay, vars
  <2>2. faults' >= faults
    BY <2>1 DEF TypeOK
  <2> QED BY <2>1, <2>2, UploadFrame
<1> QED BY <1>1, <1>2, <1>3, <1>4, <1>5, <1>6 DEF Next, Idle

-----------------------------------------------------------------------------
(* The event loop between register_file's read and its insert.             *)

\* A step touches the loop of its own worker only, when that runs no other request; and only
\* register_file, on that loop, adds a row of a blob.
LEMMA LoopTouched ==
    ASSUME TypeOK, NEW r \in Requests, Step(r) \/ RegistryFault(r) \/ StorageFault(r)
    PROVE  /\ host' = host
           /\ \/ UNCHANGED <<loop, blobs>>
              \/ CanRun(r) /\ \E x : loop' = [loop EXCEPT ![host[r]] = x]
<1> USE DEF registryVars, diskVars, taskVars, budgetVars
<1>1. CASE OpenStaging(r) \/ WriteChunk(r) \/ EndOfUpload(r) \/ Promote(r) \/ Tidy(r) \/ Discard(r)
           \/ Sweep(r)
  BY <1>1 DEF OpenStaging, WriteChunk, EndOfUpload, Promote, Tidy, Discard, Sweep
<1>2. CASE Receive(r) \/ LookupKey(r) \/ Replay(r) \/ CreateBatch(r) \/ Admit(r) \/ RegisterRead(r)
           \/ RegisterWrite(r) \/ RecordFailure(r) \/ LeaveLoop(r) \/ Unwind(r) \/ CompleteBatch(r)
           \/ AnswerBatch(r)
  BY <1>2 DEF Receive, LookupKey, Replay, CreateBatch, Admit, RegisterRead, RegisterWrite,
     RecordFailure, LeaveLoop, Unwind, CompleteBatch, AnswerBatch, CanRun, Hold, Suspend, Return
<1>3. CASE RegistryFault(r)
  BY <1>3 DEF RegistryFault, CanRun, Hold, Suspend, Return
<1>4. CASE StorageFault(r)
  BY <1>4 DEF StorageFault, CanRun, Hold, Suspend, Return
<1> QED BY <1>1, <1>2, <1>3, <1>4 DEF Step

\* Another request's step does not come between the two, unless it runs on another worker.
LEMMA InsertFrame ==
    ASSUME TypeOK, Located, NEW q \in Requests, NEW r \in Requests \ {q}, InsertAt(q),
           Step(r) \/ RegistryFault(r) \/ StorageFault(r), cmd' = cmd, cur'[q] = cur[q], pc'[q] = pc[q]
    PROVE  InsertAt(q)'
<1> SUFFICES ASSUME pc[q] = "insert"
             PROVE  loop'[host[q]] = q /\ (TheContent(q) \in blobs' => SeveralWorkers)
  <2>1. host' = host
    BY LoopTouched
  <2> QED BY <2>1 DEF InsertAt, TheContent, TheUpload, SeveralWorkers
<1>1. /\ loop[host[q]] = q /\ (TheContent(q) \in blobs => SeveralWorkers)
      /\ loop \in [Workers -> Requests \cup {None}] /\ host[q] \in Workers /\ host[r] \in Workers
      /\ q # None
  BY NoneAssumption DEF InsertAt, TypeOK
<1>2. CASE UNCHANGED <<loop, blobs>>
  BY <1>1, <1>2
<1>3. CASE CanRun(r) /\ \E x : loop' = [loop EXCEPT ![host[r]] = x]
  <2>1. host[r] # host[q]
    BY <1>1, <1>3 DEF CanRun
  <2>2. loop'[host[q]] = loop[host[q]]
    BY <1>1, <1>3, <2>1
  <2> QED BY <1>1, <2>1, <2>2 DEF SeveralWorkers
<1> QED BY <1>2, <1>3, LoopTouched

\* A worker runs one request from the read to the insert.
LEMMA InsertStep ==
    ASSUME TypeOK, Located, [Next]_vars, NEW q \in Requests, InsertAt(q)
    PROVE  InsertAt(q)'
<1> USE DEF registryVars, diskVars, taskVars, budgetVars
<1>1. ASSUME NEW r \in Requests \ {q}, Step(r) PROVE InsertAt(q)'
  <2>1. q \in Requests \ {r} /\ r \in Requests
    BY <1>1
  <2> QED BY <1>1, <2>1, RowsKept, InsertFrame
<1>2. ASSUME NEW r \in Requests \ {q}, RegistryFault(r) \/ StorageFault(r) PROVE InsertAt(q)'
  <2>1. /\ cmd' = cmd /\ cur' = cur /\ pc'[q] = pc[q]
    BY <1>2 DEF RegistryFault, StorageFault, Return, FailWith, Goto, TypeOK
  <2> QED BY <1>2, <2>1, InsertFrame
<1>3. ASSUME pc'[q] # "insert" PROVE InsertAt(q)'
  BY <1>3 DEF InsertAt
<1>4. CASE RegisterRead(q)
  <2>1. CASE TheContent(q) \in blobs
    <3>1. pc'[q] = "reuse"
      BY <1>4, <2>1 DEF RegisterRead, Goto, TypeOK
    <3> QED BY <1>3, <3>1
  <2>2. CASE TheContent(q) \notin blobs
    <3>1. TheContent(q)' = TheContent(q) /\ blobs' = blobs /\ host' = host
      BY <1>4 DEF RegisterRead, TheContent, TheUpload
    <3>2. loop'[host[q]] = q
      BY <1>4 DEF RegisterRead, Hold, TypeOK
    <3> QED BY <2>2, <3>1, <3>2 DEF InsertAt
  <2> QED BY <2>1, <2>2
<1>5. CASE Step(q) /\ ~ RegisterRead(q)
  <2>1. CASE WriteChunk(q)
    <3>1. pc'[q] \in {"write", "discard"}
      BY <2>1 DEF WriteChunk, FailWith, Goto, TypeOK
    <3> QED BY <1>3, <3>1
  <2>2. CASE ~ WriteChunk(q)
    <3>1. pc'[q] # "insert"
      BY <1>5, <2>2 DEF Step, Receive, LookupKey, Replay, CreateBatch, Admit, OpenStaging, EndOfUpload,
         Promote, Tidy, Discard, RegisterWrite, RecordFailure, LeaveLoop, Sweep, Unwind, CompleteBatch,
         AnswerBatch, FailWith, Return, Goto, TypeOK
    <3> QED BY <1>3, <3>1
  <2> QED BY <2>1, <2>2
<1>6. CASE RegistryFault(q) \/ StorageFault(q)
  <2>1. pc'[q] # "insert"
    BY <1>6 DEF RegistryFault, StorageFault, FailWith, Return, Goto, TypeOK
  <2> QED BY <1>3, <2>1
<1>7. ASSUME NEW w \in Workers, Crash(w) PROVE InsertAt(q)'
  <2>1. CASE pc'[q] # "insert"
    BY <1>3, <2>1
  <2>2. CASE pc'[q] = "insert"
    <3>1. pc[q] = "insert" /\ host[q] # w /\ UNCHANGED <<cmd, cur, blobs, host>>
      BY <1>7, <2>2 DEF Crash
    <3>2. loop'[host[q]] = loop[host[q]] /\ TheContent(q)' = TheContent(q)
      BY <1>7, <3>1 DEF Crash, TypeOK, TheContent, TheUpload
    <3> QED BY <3>1, <3>2 DEF InsertAt, SeveralWorkers
  <2> QED BY <2>1, <2>2
<1>8. CASE (\E c \in Contents : Decay(c)) \/ UNCHANGED vars
  <2>1. UNCHANGED <<cmd, cur, pc, blobs, host, loop>>
    BY <1>8 DEF Decay, vars
  <2> QED BY <2>1 DEF InsertAt, TheContent, TheUpload, SeveralWorkers
<1> QED BY <1>1, <1>2, <1>4, <1>5, <1>6, <1>7, <1>8 DEF Next, Idle

-----------------------------------------------------------------------------
(* The records.                                                            *)

\* A record with a failure is written by _record_failure.
LEMMA FailuresRecorded ==
    ASSUME TypeOK, [Next]_vars, NEW f \in files', f.status = "failed", f \notin files
    PROVE  \E r \in Requests : /\ RecordFailure(r) /\ f.id = TheFileId(r)
                               /\ f.code = local[r].failure
<1> USE DEF registryVars, diskVars, taskVars, budgetVars
<1>1. ASSUME NEW r \in Requests, Step(r), ~ RegisterWrite(r), ~ RecordFailure(r) PROVE UNCHANGED files
  BY <1>1 DEF Step, Receive, LookupKey, Replay, CreateBatch, Admit, OpenStaging, WriteChunk,
     EndOfUpload, Promote, Tidy, Discard, RegisterRead, LeaveLoop, Sweep, Unwind, CompleteBatch,
     AnswerBatch
<1>2. ASSUME NEW r \in Requests, RegisterWrite(r) PROVE FALSE
  <2> DEFINE new == [id |-> TheFileId(r), batch |-> r, content |-> TheContent(r),
                     status |-> "registered", code |-> None]
  <2>1. UNCHANGED files \/ files' = files \cup {new}
    BY <1>2 DEF RegisterWrite
  <2> QED BY <2>1
<1>3. ASSUME NEW r \in Requests, RecordFailure(r)
      PROVE  f.id = TheFileId(r) /\ f.code = local[r].failure
  BY <1>3 DEF RecordFailure
<1>4. ASSUME \/ \E r \in Requests : RegistryFault(r) \/ StorageFault(r)
             \/ \E w \in Workers : Crash(w)
             \/ \E c \in Contents : Decay(c)
             \/ UNCHANGED vars
      PROVE  UNCHANGED files
  BY <1>4 DEF RegistryFault, StorageFault, Crash, Decay, vars
<1> QED BY <1>1, <1>2, <1>3, <1>4 DEF Next, Idle

\* What was registered fits, and a new record is of an upload that does.
LEMMA FitStep ==
    ASSUME RegistryInv, [Next]_vars, RecordsFit, \A r \in Requests : UploadAt(r)
    PROVE  RecordsFit'
<1>1. TypeOK /\ Located /\ BlobsOwned /\ cmd' = cmd
  BY OnlyMore DEF RegistryInv
<1>2. \A f : UploadOf(f)' = UploadOf(f)
  BY <1>1 DEF UploadOf
<1>3. CASE Registered' = Registered
  BY <1>2, <1>3 DEF RecordsFit
<1>4. ASSUME NEW r \in Requests, TheContent(r) \in Contents, Registers(r) PROVE RecordsFit'
  <2> DEFINE new == [id |-> TheFileId(r), batch |-> r, content |-> TheContent(r),
                     status |-> "registered", code |-> None]
  <2>1. Size[TheContent(r)] \in 1..Limit(r) /\ TheUpload(r).name \in AllowedNames
    BY <1>4 DEF Registers, UploadAt, AfterPromotion, AtUpload
  <2>2. Size[TheContent(r)] \in 1..MaxFileBytes
    BY <1>1, <2>1, Bytes
  <2>3. new.id = <<r, cur[r]>> /\ new.content = TheContent(r)
    BY DEF TheFileId
  <2>4. UploadOf(new) = TheUpload(r)
    BY <2>3 DEF UploadOf, TheUpload
  <2>5. Registered' = Registered \cup {new}
    BY <1>4 DEF Registers
  <2> HIDE DEF new
  <2> QED BY <1>2, <2>1, <2>2, <2>3, <2>4, <2>5 DEF RecordsFit
<1> QED BY <1>1, <1>3, <1>4, RegistryChange

\* A recorded reason stays the reason, and a new one is the code of the upload.
LEMMA TruthStep ==
    ASSUME TypeOK, TypeOK', Located, Ledger, [Next]_vars, FailureCodeTruth,
           \A r \in Requests : ConsumedAt(r) /\ UploadAt(r)
    PROVE  FailureCodeTruth'
<1> SUFFICES ASSUME NEW f \in files', f.status = "failed"
             PROVE  ReasonHolds(f.code, UploadOf(f), AcceptedBefore(f.id[1], f.id[2]))'
  BY DEF FailureCodeTruth
<1>1. cmd' = cmd /\ faults' >= faults /\ faults \in Nat /\ faults' \in Nat
  <2>1. \A r \in Requests : Step(r) => faults' = faults
    BY NoFaultCounted
  <2>2. \A r \in Requests : RegistryFault(r) \/ StorageFault(r) => faults' = faults + 1
    BY DEF RegistryFault, StorageFault
  <2>3. (\E w \in Workers : Crash(w)) \/ (\E c \in Contents : Decay(c)) \/ UNCHANGED vars => faults' = faults
    BY DEF Crash, Decay, vars, budgetVars
  <2>4. faults' = faults \/ faults' = faults + 1
    BY <2>1, <2>2, <2>3 DEF Next, Idle
  <2> QED BY <2>4, OnlyMore DEF TypeOK
<1>2. UploadOf(f)' = UploadOf(f)
  BY <1>1 DEF UploadOf
<1>3. ASSUME NEW q \in Requests, NEW i \in 1..cur[q], f.id = <<q, i>>,
             ReasonHolds(f.code, UploadOf(f), AcceptedBefore(q, i))
      PROVE  ReasonHolds(f.code, UploadOf(f), AcceptedBefore(f.id[1], f.id[2]))'
  <2>1. cur[q] <= Uploads(q) + 1
    BY DEF ConsumedAt
  <2>2. AcceptedBefore(q, i)' = AcceptedBefore(q, i)
    BY <1>3, <2>1, SpendingStep, SpentStays
  <2>3. f.id[1] = q /\ f.id[2] = i
    BY <1>3
  <2>4. AcceptedBefore(f.id[1], f.id[2])' = AcceptedBefore(q, i)
    BY <2>2, <2>3
  <2> QED BY <1>1, <1>2, <1>3, <2>4 DEF ReasonHolds
<1>4. CASE f \in files
  <2>1. f.batch \in Requests /\ f \in FilesOf(f.batch) /\ f.id \in FileId
    BY <1>4 DEF TypeOK, FileRow, FilesOf
  <2>2. PICK q \in Requests, i \in Nat \ {0} : f.id = <<q, i>>
    BY <2>1 DEF FileId
  <2>3. f.id[1] = f.batch /\ f.id[2] < cur[f.batch]
    BY <2>1 DEF Ledger, VerdictsAt
  <2>4. q = f.batch /\ i < cur[q] /\ cur[q] \in Nat
    BY <2>2, <2>3 DEF TypeOK
  <2>5. i \in 1..cur[q]
    BY <2>4
  <2>6. ReasonHolds(f.code, UploadOf(f), AcceptedBefore(q, i))
    <3>1. f.id[1] = q /\ f.id[2] = i
      BY <2>2
    <3> QED BY <1>4, <3>1 DEF FailureCodeTruth
  <2> QED BY <1>3, <2>2, <2>5, <2>6
<1>5. CASE f \notin files
  <2>1. PICK q \in Requests : /\ RecordFailure(q) /\ f.id = TheFileId(q) /\ f.code = local[q].failure
    BY <1>5, FailuresRecorded
  <2>2. PICK i : i = cur[q]
    OBVIOUS
  <2>3. f.id = <<q, i>> /\ i \in 1..cur[q] /\ UploadOf(f) = TheUpload(q)
    BY <2>1, <2>2 DEF TheFileId, UploadOf, TheUpload, TypeOK
  <2>4. ReasonHolds(f.code, UploadOf(f), AcceptedBefore(q, i))
    <3>1. ReasonHolds(local[q].failure, TheUpload(q), local[q].consumed)
      BY <2>1 DEF UploadAt, RecordFailure
    <3>2. local[q].consumed = AcceptedBefore(q, i)
      BY <2>2 DEF ConsumedAt
    <3> QED BY <2>1, <2>3, <3>1, <3>2
  <2> QED BY <1>3, <2>3, <2>4
<1> QED BY <1>4, <1>5

-----------------------------------------------------------------------------
(* The budget is kept.                                                     *)

\* Every step, also a failing one, keeps the invariant.
LEMMA BudgetStep == RegistryInv /\ Ledger /\ BudgetInv /\ [Next]_vars => BudgetInv'
<1> SUFFICES ASSUME RegistryInv, Ledger, BudgetInv, [Next]_vars PROVE BudgetInv'
  OBVIOUS
<1>1. /\ TypeOK /\ Located /\ RecordsFit /\ FailureCodeTruth
      /\ \A r \in Requests : ConsumedAt(r) /\ UploadAt(r) /\ InsertAt(r) /\ VerdictsAt(r)
  BY DEF RegistryInv, BudgetInv, Ledger
<1>2. TypeOK'
  BY <1>1, TypeStep
<1>3. ASSUME NEW q \in Requests PROVE ConsumedAt(q)' /\ UploadAt(q)' /\ InsertAt(q)'
  BY <1>1, <1>2, SpendingStep, ConsumedStep, UploadStep, InsertStep
<1>4. RecordsFit' /\ FailureCodeTruth'
  BY <1>1, <1>2, FitStep, TruthStep
<1> QED BY <1>3, <1>4 DEF BudgetInv

\* Before anything is sent, nothing is spent.
LEMMA BudgetInit == Init => BudgetInv
<1> SUFFICES ASSUME Init PROVE BudgetInv
  OBVIOUS
<1>1. TypeOK /\ files = {} /\ Registered = {}
  BY TypeInit DEF Init, Registered
<1>2. ASSUME NEW r \in Requests PROVE ConsumedAt(r) /\ UploadAt(r) /\ InsertAt(r)
  <2>1. cur[r] = 1 /\ local[r].consumed = 0 /\ pc[r] = "new"
    BY DEF Init
  <2>2. AcceptedBefore(r, cur[r]) = 0
    BY <2>1, SumToSteps DEF AcceptedBefore
  <2>3. 1 <= Uploads(r) + 1 /\ 0 <= MaxBatchBytes
    BY <1>1, SpentType, LimitsAssumption
  <2>4. ConsumedAt(r)
    BY <2>1, <2>2, <2>3 DEF ConsumedAt
  <2> QED BY <2>1, <2>4 DEF UploadAt, InsertAt, AtUpload, AfterPromotion
<1> QED BY <1>1, <1>2 DEF BudgetInv, RecordsFit, FailureCodeTruth

\* A request has consumed what its accepted uploads spent and its next upload is held to the rest;
\* what is recorded fits, and the failures have their reasons (execute, _process_file, store).
THEOREM BudgetAlways == Spec => []BudgetInv
<1>1. RegistryInv /\ Ledger /\ BudgetInv /\ [Next]_vars => BudgetInv'
  BY BudgetStep
<1> QED BY RegistryInvariant, LedgerAlways, BudgetInit, <1>1, PTL DEF Spec

\* A batch never takes in more bytes than it may, and no upload more than a file may, nor one
\* whose extension is not allowed (remaining_batch_bytes, effective_limit).
THEOREM WithinBudgetAlways == Spec => []WithinBudget
<1>1. TypeOK /\ Ledger /\ BudgetInv => WithinBudget
  <2> SUFFICES ASSUME TypeOK, Ledger, BudgetInv, NEW r \in Requests
               PROVE  AcceptedBefore(r, Len(cmd[r].files) + 1) <= MaxBatchBytes
    BY DEF WithinBudget, BudgetInv, RecordsFit
  <2> DEFINE m == cur[r] - 1
  <2>1. /\ cur[r] \in Nat \ {0} /\ cur[r] <= Uploads(r) + 1 /\ Uploads(r) \in Nat
        /\ local[r].consumed = SumTo(Spent(r), m) /\ local[r].consumed <= MaxBatchBytes
    BY SpentType DEF TypeOK, BudgetInv, ConsumedAt, AcceptedBefore
  <2>2. m \in Nat /\ m <= Uploads(r) /\ (Uploads(r) + 1) - 1 = Uploads(r)
    BY <2>1
  <2>3. \A j \in 1..m : Spent(r)[j] \in Nat
    BY <2>1, <2>2, SpentType
  <2>4. ASSUME NEW j \in (m + 1)..Uploads(r)
        PROVE  Spent(r)[j] = 0
    <3>1. j \in 1..Uploads(r) /\ j >= cur[r]
      BY <2>1
    <3>2. ~ Accepted(r, j)
      <4>1. VerdictsAt(r)
        BY DEF Ledger
      <4>2. \A f \in FilesOf(r) : f.id # <<r, j>>
        BY <2>1, <3>1, <4>1 DEF VerdictsAt
      <4>3. \A d \in local[r].duplicates : d.id # <<r, j>>
        BY <2>1, <3>1, <4>1 DEF VerdictsAt
      <4> QED BY <4>2, <4>3 DEF Accepted
    <3> QED BY <3>1, <3>2, SpentType
  <2>5. SumTo(Spent(r), Uploads(r)) = SumTo(Spent(r), m)
    <3> HIDE DEF m
    <3> QED BY <2>1, <2>2, <2>3, <2>4, SumToTail
  <2>6. AcceptedBefore(r, Uploads(r) + 1) = SumTo(Spent(r), Uploads(r))
    BY <2>2 DEF AcceptedBefore
  <2> QED BY <2>1, <2>5, <2>6 DEF Uploads
<1> QED BY TypeCorrect, LedgerAlways, BudgetAlways, <1>1, PTL

\* The code of a failed upload is the reason it failed: the limit it names was passed, given what
\* the batch had spent before it (_process_file's except, the translation of the store's code).
THEOREM FailureCodesAlwaysTrue == Spec => []FailureCodeTruth
<1>1. BudgetInv => FailureCodeTruth
  BY DEF BudgetInv
<1> QED BY BudgetAlways, <1>1, PTL

=============================================================================
