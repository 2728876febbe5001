---------------------------- MODULE IntakeProofs ----------------------------
(***************************************************************************)
(* Proofs about Intake, for every number of requests, workers, contents    *)
(* and uploads.                                                            *)
(***************************************************************************)
EXTENDS IntakeProperties, TLAPS

-----------------------------------------------------------------------------
(* Types.                                                                  *)

\* What a command is made of.
LEMMA CommandType ==
    ASSUME NEW c \in Commands
    PROVE  /\ c.key \in Keys \cup {Blank} /\ c.project \in Projects \cup {Blank}
           /\ c.files \in Seq(Upload) /\ Len(c.files) \in Nat
           /\ DOMAIN c.files = 1..Len(c.files)
           /\ \A i \in DOMAIN c.files : c.files[i] \in Upload /\ c.files[i].content \in Contents
<1>1. /\ c.key \in Keys \cup {Blank} /\ c.project \in Projects \cup {Blank}
      /\ c.files \in Seq(Upload)
  BY CommandsAssumption DEF CommandsAssumption, Command
<1>2. Len(c.files) \in Nat /\ DOMAIN c.files = 1..Len(c.files)
  BY <1>1
<1>3. \A i \in DOMAIN c.files : c.files[i] \in Upload
  BY <1>1, <1>2
<1> QED BY <1>1, <1>2, <1>3 DEF Upload

\* FailWith sets one code and moves on.
LEMMA FailWithType ==
    ASSUME TypeOK, NEW r \in Requests, NEW code \in FailureCode,
           NEW label \in OnLoop \cup InThread, FailWith(r, code, label)
    PROVE  /\ local' \in [Requests -> Local]
           /\ pc' \in [Requests -> {"new", "done", "lost"} \cup OnLoop \cup InThread]
           /\ UNCHANGED <<cur, answer>>
BY ZenonT(60) DEF TypeOK, FailWith, Goto, Local

\* Return answers the request and ends it.
LEMMA ReturnType ==
    ASSUME TypeOK, NEW r \in Requests, NEW a \in Answer, Return(r, a)
    PROVE  /\ answer' \in [Requests -> Answer \cup {None}]
           /\ pc' \in [Requests -> {"new", "done", "lost"} \cup OnLoop \cup InThread]
           /\ loop' \in [Workers -> Requests \cup {None}]
           /\ UNCHANGED <<cur, local>>
BY DEF TypeOK, Return, Goto, Suspend

\* A problem and the body of a 201 are answers.
LEMMA AnswerType ==
    /\ \A code \in {"rejected", "idempotency-conflict", "internal-error"} : Problem(code) \in Answer
    /\ TypeOK => \A b \in Requests, d \in SUBSET Duplicate :
                    batches[b] # None => Created(b, d) \in Answer
<1>1. \A code \in {"rejected", "idempotency-conflict", "internal-error"} : Problem(code) \in Answer
  BY DEF Answer
<1>2. ASSUME TypeOK, NEW b \in Requests, NEW d \in SUBSET Duplicate, batches[b] # None
      PROVE  Created(b, d) \in Answer
  BY <1>2 DEF TypeOK, Created, FilesOf, Answer
<1> QED BY <1>1, <1>2

\* A request that is at an upload has one.
LEMMA AtUploadType ==
    ASSUME TypeOK, Located, NEW r \in Requests, pc[r] \in AtUpload
    PROVE  TheUpload(r) \in Upload /\ TheContent(r) \in Contents /\ TheFileId(r) \in FileId
<1>1. cmd[r] \in Commands /\ cur[r] \in DOMAIN cmd[r].files /\ cur[r] \in Nat \ {0}
  BY DEF TypeOK, Located, LocatedAt
<1> QED BY <1>1, CommandType DEF TheUpload, TheContent, TheFileId, FileId

\* The row that create_batch adds ...
LEMMA NewRowType ==
    ASSUME TypeOK, Located, NEW r \in Requests, pc[r] = "create"
    PROVE  [key |-> cmd[r].key, fingerprint |-> Fingerprint(cmd[r]), status |-> "receiving",
            total |-> Len(cmd[r].files), registered |-> 0, failed |-> 0] \in BatchRow
<1>1. cmd[r] \in Commands /\ cmd[r].key \in Keys /\ Len(cmd[r].files) \in Nat
  BY CommandType DEF Located, LocatedAt, Rejected, OnLoop, TypeOK
<1> QED BY <1>1 DEF BatchRow, BatchStatus

\* ... and what complete_batch makes of it.
LEMMA SettledRowType ==
    ASSUME TypeOK, Located, NEW r \in Requests, pc[r] = "complete"
    PROVE  [batches[r] EXCEPT !.status = Summary(local[r].registered, Len(cmd[r].files)),
               !.registered = local[r].registered, !.failed = local[r].failed] \in BatchRow
<1>1. batches[r] \in BatchRow /\ local[r].registered \in Nat /\ local[r].failed \in Nat
  BY DEF Located, LocatedAt, InBatch, TypeOK, Local
<1>2. Summary(local[r].registered, Len(cmd[r].files)) \in BatchStatus
  BY DEF Summary, BatchStatus
<1> QED BY <1>1, <1>2 DEF BatchRow

\* Every database and disk the server starts on is well typed.
LEMMA TypeInit == Init => TypeOK
<1> SUFFICES ASSUME Init PROVE TypeOK
  OBVIOUS
<1>1. [written |-> 0, consumed |-> 0, registered |-> 0, failed |-> 0,
       duplicates |-> {}, failure |-> None, target |-> None] \in Local
  BY DEF Local
<1> QED BY <1>1 DEF Init, TypeOK

\* No step leaves the types; Located gives the row that complete_batch and the answer write to.
LEMMA TypeStep == TypeOK /\ Located /\ [Next]_vars => TypeOK'
<1> SUFFICES ASSUME TypeOK, Located, [Next]_vars PROVE TypeOK'
  OBVIOUS
<1> USE DEF registryVars, diskVars, taskVars, budgetVars
<1>a. ASSUME NEW r \in Requests, Step(r) PROVE TypeOK'
  <2>1. CASE Receive(r)
    <3>1. CASE Rejected(cmd[r])
      BY <2>1, <3>1, ReturnType, AnswerType DEF Receive, TypeOK
    <3>2. CASE ~ Rejected(cmd[r])
      BY <2>1, <3>2 DEF Receive, TypeOK, Goto, Hold, OnLoop
    <3> QED BY <3>1, <3>2
  <2>2. CASE LookupKey(r)
    <3>1. CASE BatchesWith(cmd[r].key) = {} /\ Goto(r, "create") /\ Hold(r) /\ UNCHANGED <<cur, local, answer>>
      BY <2>2, <3>1 DEF LookupKey, TypeOK, Goto, Hold, OnLoop
    <3>2. ASSUME NEW b \in Requests, local' = [local EXCEPT ![r].target = b],
                 Goto(r, "replay"), Hold(r), UNCHANGED <<cur, answer>>
          PROVE  TypeOK'
      BY <2>2, <3>2, SMTT(30) DEF LookupKey, TypeOK, Goto, Hold, OnLoop, Local
    <3>3. CASE Return(r, Problem("idempotency-conflict"))
      BY <2>2, <3>3, ReturnType, AnswerType DEF LookupKey, TypeOK
    <3> QED BY <2>2, <3>1, <3>2, <3>3 DEF LookupKey, BatchesWith
  <2>3. CASE Replay(r)
    <3>1. local[r].target \in Requests
      BY <2>3 DEF Replay, Located, LocatedAt, TypeOK, Local
    <3>2. (IF batches[local[r].target] = None THEN Problem("internal-error")
             ELSE Created(local[r].target, {})) \in Answer
      BY <3>1, AnswerType
    <3> QED BY <2>3, <3>2, ReturnType DEF Replay, TypeOK
  <2>4. CASE CreateBatch(r)
    <3>1. CASE BatchesWith(cmd[r].key) # {}
      BY <2>4, <3>1, ReturnType, AnswerType DEF CreateBatch, TypeOK
    <3>2. CASE BatchesWith(cmd[r].key) = {}
      <4>1. pc[r] = "create"
        BY <2>4 DEF CreateBatch
      <4>2. [key |-> cmd[r].key, fingerprint |-> Fingerprint(cmd[r]), status |-> "receiving",
             total |-> Len(cmd[r].files), registered |-> 0, failed |-> 0] \in BatchRow
        BY <4>1, NewRowType
      <4>3. local' = [local EXCEPT ![r].target = r]
        BY <2>4, <3>2 DEF CreateBatch
      <4>4. local' \in [Requests -> Local]
        BY <4>3, SMTT(30) DEF TypeOK, Local
      <4> QED BY <2>4, <3>2, <4>2, <4>4, ZenonT(60) DEF CreateBatch, TypeOK, Goto, Hold, OnLoop
    <3> QED BY <3>1, <3>2
  <2>5. CASE Admit(r)
    <3>1. ASSUME NEW code \in {"unsupported-extension", "batch-too-large"},
                 FailWith(r, code, "record"), Hold(r), UNCHANGED dirs
          PROVE  TypeOK'
      <4>1. code \in FailureCode /\ "record" \in OnLoop \cup InThread
        BY DEF FailureCode, OnLoop
      <4> QED BY <2>5, <3>1, <4>1, FailWithType DEF Admit, TypeOK, Hold
    <3>2. CASE /\ dirs' = dirs \cup {r} /\ Goto(r, "open") /\ Suspend(r)
               /\ UNCHANGED <<cur, local, answer>>
      BY <2>5, <3>2 DEF Admit, TypeOK, Goto, Suspend, InThread
    <3> QED BY <2>5, <3>1, <3>2 DEF Admit
  <2>6. CASE OpenStaging(r)
    <3>1. TheFileId(r) \in FileId
      BY <2>6, AtUploadType DEF OpenStaging, AtUpload
    <3>2. local' \in [Requests -> Local]
      BY <2>6 DEF OpenStaging, TypeOK, Local
    <3> QED BY <2>6, <3>1, <3>2 DEF OpenStaging, TypeOK, Goto, InThread
  <2>7. CASE WriteChunk(r)
    <3>1. Size[TheContent(r)] \in Nat /\ local[r].written + ChunkBytes \in Nat
      BY <2>7, AtUploadType, SizeAssumption, LimitsAssumption
        DEF WriteChunk, AtUpload, SizeAssumption, LimitsAssumption, TypeOK, Local
    <3>2. ASSUME FailWith(r, OversizeCode(r), "discard") PROVE TypeOK'
      <4>1. OversizeCode(r) \in FailureCode /\ "discard" \in OnLoop \cup InThread
        BY DEF OversizeCode, FailureCode, InThread
      <4> QED BY <2>7, <3>2, <4>1, FailWithType DEF WriteChunk, TypeOK
    <3>3. ASSUME NEW size \in Nat, local' = [local EXCEPT ![r].written = size],
                 UNCHANGED <<pc, cur, answer>>
          PROVE  TypeOK'
      BY <2>7, <3>3 DEF WriteChunk, TypeOK, Local
    <3> QED BY <2>7, <3>1, <3>2, <3>3 DEF WriteChunk
  <2>8. CASE EndOfUpload(r)
    <3>1. ASSUME FailWith(r, "empty-file", "discard") PROVE TypeOK'
      <4>1. "empty-file" \in FailureCode /\ "discard" \in OnLoop \cup InThread
        BY DEF FailureCode, InThread
      <4> QED BY <2>8, <3>1, <4>1, FailWithType DEF EndOfUpload, TypeOK
    <3>2. CASE Goto(r, "promote") /\ UNCHANGED <<cur, local, answer>>
      BY <2>8, <3>2 DEF EndOfUpload, TypeOK, Goto, InThread
    <3> QED BY <2>8, <3>1, <3>2 DEF EndOfUpload
  <2>9. CASE Promote(r)
    <3>1. ASSUME FailWith(r, "integrity-conflict", "discard"), UNCHANGED <<originals, decayed>>
          PROVE TypeOK'
      <4>1. "integrity-conflict" \in FailureCode /\ "discard" \in OnLoop \cup InThread
        BY DEF FailureCode, InThread
      <4> QED BY <2>9, <3>1, <4>1, FailWithType DEF Promote, TypeOK
    <3>2. ASSUME NEW c \in Contents,
                 \/ originals' = [originals EXCEPT ![c] = "intact"] /\ decayed' = decayed \ {c}
                 \/ UNCHANGED <<originals, decayed>>,
                 Goto(r, "tidy"), UNCHANGED <<cur, local, answer>>
          PROVE  TypeOK'
      BY <2>9, <3>2 DEF Promote, TypeOK, Goto, InThread
    <3>3. TheContent(r) \in Contents
      BY <2>9, AtUploadType DEF Promote, AtUpload
    <3> QED BY <2>9, <3>1, <3>2, <3>3 DEF Promote
  <2>10. CASE Tidy(r) \/ Discard(r)
    BY <2>10 DEF Tidy, Discard, TypeOK, Goto, OnLoop
  <2>11. CASE RegisterRead(r)
    BY <2>11 DEF RegisterRead, TypeOK, Goto, Hold, OnLoop
  <2>12. CASE RegisterWrite(r)
    <3>1. /\ TheContent(r) \in Contents /\ TheFileId(r) \in FileId
          /\ Size[TheContent(r)] \in Nat
      BY <2>12, AtUploadType, SizeAssumption DEF RegisterWrite, AtUpload, SizeAssumption
    <3>2. ASSUME FailWith(r, "storage-unavailable", "record"), UNCHANGED <<blobs, files>>
          PROVE  TypeOK'
      <4>1. "storage-unavailable" \in FailureCode /\ "record" \in OnLoop \cup InThread
        BY DEF FailureCode, OnLoop
      <4> QED BY <2>12, <3>2, <4>1, FailWithType DEF RegisterWrite, TypeOK, Hold
    <3>3. ASSUME blobs' = blobs \cup {TheContent(r)}, files' \subseteq FileRow,
                 local' \in [Requests -> Local],
                 cur' = [cur EXCEPT ![r] = @ + 1], Goto(r, "next"), UNCHANGED answer
          PROVE  TypeOK'
      <4>1. cur' \in [Requests -> Nat \ {0}]
        BY <3>3 DEF TypeOK
      <4>2. blobs' \subseteq Contents
        BY <3>1, <3>3 DEF TypeOK
      <4> QED BY <2>12, <3>3, <4>1, <4>2 DEF RegisterWrite, TypeOK, Goto, Hold, OnLoop
    <3>4. ASSUME files' = files \cup {[id |-> TheFileId(r), batch |-> r, content |-> TheContent(r),
                                      status |-> "registered", code |-> None]}
          PROVE  files' \subseteq FileRow
      BY <3>1, <3>4 DEF FileRow, TypeOK
    <3>5. ASSUME local' = [local EXCEPT ![r].consumed = @ + Size[TheContent(r)],
                                            ![r].registered = @ + 1]
          PROVE  local' \in [Requests -> Local]
      BY <3>1, <3>5 DEF TypeOK, Local
    <3>6. ASSUME NEW f \in Owners(TheContent(r)),
                 local' = [local EXCEPT
                   ![r].duplicates = @ \cup {[id |-> TheFileId(r), of |-> f.id, content |-> TheContent(r)]},
                   ![r].consumed = @ + Size[TheContent(r)], ![r].failed = @ + 1]
          PROVE  local' \in [Requests -> Local]
      <4>1. f.id \in FileId
        BY <3>6 DEF Owners, Registered, TypeOK, FileRow
      <4>2. [id |-> TheFileId(r), of |-> f.id, content |-> TheContent(r)] \in Duplicate
        BY <3>1, <4>1 DEF Duplicate
      <4> QED BY <3>1, <3>6, <4>2 DEF TypeOK, Local
    <3>7. files \subseteq FileRow
      BY DEF TypeOK
    <3> QED BY <2>12, <3>2, <3>3, <3>4, <3>5, <3>6, <3>7 DEF RegisterWrite
  <2>13. CASE RecordFailure(r)
    <3>1. [id |-> TheFileId(r), batch |-> r, content |-> None, status |-> "failed",
           code |-> local[r].failure] \in FileRow
      BY <2>13, AtUploadType DEF RecordFailure, AtUpload, FileRow, TypeOK, Local
    <3>2. local' \in [Requests -> Local]
      <4>1. local[r] \in Local /\ local[r].failed + 1 \in Nat
        BY DEF TypeOK, Local
      <4>2. [local[r] EXCEPT !.failed = local[r].failed + 1, !.failure = None] \in Local
        BY <4>1 DEF Local
      <4>3. local' = [local EXCEPT ![r] =
                        [local[r] EXCEPT !.failed = local[r].failed + 1, !.failure = None]]
        BY <2>13, <4>1 DEF RecordFailure, TypeOK, Local
      <4> QED BY <4>2, <4>3 DEF TypeOK
    <3>3. cur' \in [Requests -> Nat \ {0}]
      BY <2>13 DEF RecordFailure, TypeOK
    <3> QED BY <2>13, <3>1, <3>2, <3>3 DEF RecordFailure, TypeOK, Goto, Hold, OnLoop
  <2>14. CASE LeaveLoop(r)
    <3>1. CASE Goto(r, "sweep") /\ Suspend(r)
      BY <2>14, <3>1 DEF LeaveLoop, TypeOK, Goto, Suspend, InThread
    <3>2. CASE Goto(r, "complete") /\ Hold(r)
      BY <2>14, <3>2 DEF LeaveLoop, TypeOK, Goto, Hold, OnLoop
    <3> QED BY <2>14, <3>1, <3>2 DEF LeaveLoop
  <2>15. CASE Sweep(r)
    BY <2>15 DEF Sweep, Swept, TypeOK, Goto, OnLoop
  <2>16. CASE Unwind(r)
    BY <2>16, ReturnType, AnswerType DEF Unwind, Swept, TypeOK
  <2>17. CASE CompleteBatch(r)
    <3>1. pc[r] = "complete"
      BY <2>17 DEF CompleteBatch
    <3> QED BY <2>17, <3>1, SettledRowType DEF CompleteBatch, TypeOK, Goto, Hold, OnLoop
  <2>18. CASE AnswerBatch(r)
    <3>1. batches[r] # None /\ local[r].duplicates \in SUBSET Duplicate
      BY <2>18 DEF AnswerBatch, Located, LocatedAt, InBatch, TypeOK, Local
    <3>2. Created(r, local[r].duplicates) \in Answer
      BY <3>1, AnswerType
    <3> QED BY <2>18, <3>2, ReturnType DEF AnswerBatch, DeleteEmptyBatch, TypeOK
  <2> QED BY <1>a, <2>1, <2>2, <2>3, <2>4, <2>5, <2>6, <2>7, <2>8, <2>9, <2>10, <2>11, <2>12,
             <2>13, <2>14, <2>15, <2>16, <2>17, <2>18 DEF Step
<1>b. ASSUME NEW r \in Requests, RegistryFault(r) PROVE TypeOK'
  <2>1. CASE Return(r, Problem("internal-error"))
    BY <1>b, <2>1, ReturnType, AnswerType DEF RegistryFault, TypeOK
  <2>2. CASE FailWith(r, "storage-unavailable", "record") /\ Hold(r)
    <3>1. "storage-unavailable" \in FailureCode /\ "record" \in OnLoop \cup InThread
      BY DEF FailureCode, OnLoop
    <3> QED BY <1>b, <2>2, <3>1, FailWithType DEF RegistryFault, TypeOK, Hold
  <2>3. CASE Goto(r, "unwind") /\ Suspend(r) /\ UNCHANGED <<cur, local, answer>>
    BY <1>b, <2>3 DEF RegistryFault, TypeOK, Goto, Suspend, InThread
  <2> QED BY <1>b, <2>1, <2>2, <2>3 DEF RegistryFault
<1>c. ASSUME NEW r \in Requests, StorageFault(r) PROVE TypeOK'
  <2>1. ASSUME NEW label \in {"discard", "record"}, FailWith(r, "storage-unavailable", label),
               UNCHANGED loop \/ Hold(r)
        PROVE  TypeOK'
    <3>1. "storage-unavailable" \in FailureCode /\ label \in OnLoop \cup InThread
      BY DEF FailureCode, OnLoop, InThread
    <3>2. /\ local' \in [Requests -> Local] /\ UNCHANGED <<cur, answer>>
          /\ pc' \in [Requests -> {"new", "done", "lost"} \cup OnLoop \cup InThread]
      BY <2>1, <3>1, FailWithType
    <3>3. loop' \in [Workers -> Requests \cup {None}]
      BY <2>1 DEF TypeOK, Hold
    <3>4. UNCHANGED <<diskVars, registryVars, cmd, host, crashes>> /\ faults' = faults + 1
      BY <1>c DEF StorageFault
    <3> QED BY <3>2, <3>3, <3>4 DEF TypeOK
  <2>2. CASE Goto(r, "complete") /\ UNCHANGED <<loop, cur, local, answer>>
    BY <1>c, <2>2 DEF StorageFault, TypeOK, Goto, OnLoop
  <2>3. CASE Return(r, Problem("internal-error"))
    BY <1>c, <2>3, ReturnType, AnswerType DEF StorageFault, TypeOK
  <2> QED BY <1>c, <2>1, <2>2, <2>3 DEF StorageFault
<1>d. ASSUME NEW w \in Workers, Crash(w) PROVE TypeOK'
  BY <1>d DEF Crash, TypeOK
<1>e. ASSUME NEW c \in Contents, Decay(c) PROVE TypeOK'
  BY <1>e DEF Decay, TypeOK
<1>f. CASE UNCHANGED vars
  BY <1>f DEF vars, TypeOK
<1> QED BY <1>a, <1>b, <1>c, <1>d, <1>e, <1>f DEF Next, Idle

-----------------------------------------------------------------------------
(* Where a request is.                                                     *)

\* No step takes a row away from a request that is still in its batch, nor changes a command.
LEMMA RowsKept ==
    ASSUME TypeOK, Located, NEW r \in Requests, Step(r)
    PROVE  /\ cmd' = cmd
           /\ \A q \in Requests \ {r} : /\ pc'[q] = pc[q] /\ cur'[q] = cur[q]
                                        /\ batches'[q] = batches[q]
                                        /\ local'[q] = local[q]
<1> USE DEF registryVars, diskVars, taskVars, budgetVars
<1>1. cmd' = cmd
  BY DEF Step, Receive, LookupKey, Replay, CreateBatch, Admit, OpenStaging, WriteChunk, EndOfUpload,
     Promote, Tidy, Discard, RegisterRead, RegisterWrite, RecordFailure, LeaveLoop, Sweep, Unwind,
     CompleteBatch, AnswerBatch, DeleteEmptyBatch
<1>2. ASSUME NEW q \in Requests \ {r} PROVE pc'[q] = pc[q]
  BY <1>2 DEF TypeOK, Step, Receive, LookupKey, Replay, CreateBatch, Admit, OpenStaging, WriteChunk,
     EndOfUpload, Promote, Tidy, Discard, RegisterRead, RegisterWrite, RecordFailure, LeaveLoop,
     Sweep, Unwind, CompleteBatch, AnswerBatch, Goto, FailWith, Return
<1>3. ASSUME NEW q \in Requests \ {r} PROVE cur'[q] = cur[q]
  BY <1>3 DEF TypeOK, Step, Receive, LookupKey, Replay, CreateBatch, Admit, OpenStaging, WriteChunk,
     EndOfUpload, Promote, Tidy, Discard, RegisterRead, RegisterWrite, RecordFailure, LeaveLoop,
     Sweep, Unwind, CompleteBatch, AnswerBatch, FailWith, Return
<1>4. ASSUME NEW q \in Requests \ {r} PROVE batches'[q] = batches[q]
  BY <1>4 DEF TypeOK, Step, Receive, LookupKey, Replay, CreateBatch, Admit, OpenStaging, WriteChunk,
     EndOfUpload, Promote, Tidy, Discard, RegisterRead, RegisterWrite, RecordFailure, LeaveLoop,
     Sweep, Unwind, CompleteBatch, AnswerBatch, DeleteEmptyBatch
<1>5. ASSUME NEW q \in Requests \ {r} PROVE local'[q] = local[q]
  BY <1>5 DEF TypeOK, Step, Receive, LookupKey, Replay, CreateBatch, Admit, OpenStaging, WriteChunk,
     EndOfUpload, Promote, Tidy, Discard, RegisterRead, RegisterWrite, RecordFailure, LeaveLoop,
     Sweep, Unwind, CompleteBatch, AnswerBatch, FailWith, Return
<1> QED BY <1>1, <1>2, <1>3, <1>4, <1>5

\* Which labels are where.
LEMMA Labels ==
    /\ {"done", "lost", "new"} \cap (OnLoop \cup InThread \cup AtUpload \cup InBatch \cup {"replay"}) = {}
    /\ AtUpload \subseteq InBatch /\ InBatch \subseteq OnLoop \cup InThread
    /\ {"lookup", "replay", "create"} \cap InBatch = {} /\ {"lookup", "replay", "create"} \subseteq OnLoop
    /\ {"next", "sweep", "unwind", "complete", "answer"} \subseteq InBatch \ AtUpload
    /\ "replay" \notin InBatch
BY DEF AtUpload, InBatch, OnLoop, InThread

\* What a request has to show to go to a label.
LEMMA LocatedMove ==
    ASSUME TypeOK, NEW r \in Requests, NEW label, Goto(r, label), cmd' = cmd,
           label \in OnLoop \cup InThread => ~ Rejected(cmd[r]),
           label \in AtUpload => cur'[r] \in DOMAIN cmd[r].files,
           label \in InBatch => batches'[r] # None,
           label = "replay" => local'[r].target # None
    PROVE  LocatedAt(r)'
<1>1. pc'[r] = label
  BY DEF TypeOK, Goto
<1>2. Rejected(cmd[r])' <=> Rejected(cmd[r])
  BY DEF Rejected
<1> QED BY <1>1, <1>2 DEF LocatedAt

\* No request is anywhere yet.
LEMMA LocatedInit == Init => Located
BY Labels DEF Init, Located, LocatedAt

\* A request moves on only with the upload and the row it speaks of (execute, _process_file).
LEMMA LocatedStep == TypeOK /\ Located /\ [Next]_vars => Located'
<1> SUFFICES ASSUME TypeOK, Located, [Next]_vars PROVE Located'
  OBVIOUS
<1> USE DEF registryVars, diskVars, taskVars, budgetVars
<1>a. ASSUME NEW r \in Requests, Step(r) PROVE Located'
  <2>1. ASSUME NEW q \in Requests \ {r} PROVE LocatedAt(q)'
    BY <1>a, <2>1, RowsKept DEF Located, LocatedAt, Rejected
  <2>2. ASSUME LocatedAt(r)' PROVE Located'
    BY <2>1, <2>2 DEF Located
  <2>3. cmd' = cmd /\ LocatedAt(r)
    BY <1>a, RowsKept DEF Located
  <2>4. ASSUME NEW a, Return(r, a) PROVE LocatedAt(r)'
    BY <2>3, <2>4, Labels, LocatedMove DEF Return
  <2>5. CASE Receive(r)
    <3>1. ASSUME ~ Rejected(cmd[r]), Goto(r, "lookup") PROVE LocatedAt(r)'
      BY <2>3, <3>1, Labels, LocatedMove
    <3> QED BY <2>2, <2>4, <2>5, <3>1 DEF Receive
  <2>6. CASE LookupKey(r)
    <3>1. ~ Rejected(cmd[r])
      BY <2>3, <2>6, Labels DEF LookupKey, LocatedAt
    <3>2. ASSUME Goto(r, "create") PROVE LocatedAt(r)'
      BY <2>3, <3>1, <3>2, Labels, LocatedMove
    <3>3. ASSUME NEW b \in Requests, local' = [local EXCEPT ![r].target = b], Goto(r, "replay")
          PROVE  LocatedAt(r)'
      <4>1. local'[r].target # None
        BY <3>3, NoneAssumption DEF NoneAssumption, TypeOK, Local
      <4> QED BY <2>3, <3>1, <3>3, <4>1, Labels, LocatedMove
    <3> QED BY <2>2, <2>4, <2>6, <3>2, <3>3 DEF LookupKey, BatchesWith
  <2>7. CASE Replay(r)
    BY <2>2, <2>4, <2>7 DEF Replay
  <2>8. CASE CreateBatch(r)
    <3>1. ~ Rejected(cmd[r])
      BY <2>3, <2>8, Labels DEF CreateBatch, LocatedAt
    <3>2. ASSUME Goto(r, "next"), batches'[r] # None PROVE LocatedAt(r)'
      BY <2>3, <3>1, <3>2, Labels, LocatedMove
    <3>3. ASSUME NEW row \in BatchRow, batches' = [batches EXCEPT ![r] = row], Goto(r, "next")
          PROVE  LocatedAt(r)'
      BY <3>2, <3>3, NoneAssumption DEF NoneAssumption, TypeOK
    <3> QED BY <2>2, <2>4, <2>8, <3>3, NewRowType DEF CreateBatch
  <2>9. CASE Admit(r)
    <3>1. ASSUME NEW label \in {"record", "open"}, Goto(r, label), batches' = batches, cur' = cur
          PROVE  LocatedAt(r)'
      <4>1. ~ Rejected(cmd[r]) /\ batches[r] # None /\ label \in InThread \cup OnLoop
        BY <2>3, <2>9, Labels DEF Admit, LocatedAt, InThread, OnLoop
      <4>2. cur[r] \in DOMAIN cmd[r].files
        BY <2>9, CommandType DEF Admit, TypeOK
      <4> QED BY <2>3, <3>1, <4>1, <4>2, Labels, LocatedMove
    <3> QED BY <2>2, <2>9, <3>1 DEF Admit, FailWith
  <2>10. CASE OpenStaging(r) \/ WriteChunk(r) \/ EndOfUpload(r) \/ Promote(r) \/ Tidy(r) \/ Discard(r)
              \/ RegisterRead(r)
    <3>1. ~ Rejected(cmd[r]) /\ batches[r] # None /\ cur[r] \in DOMAIN cmd[r].files
          /\ pc[r] \in AtUpload
      BY <2>3, <2>10, Labels DEF OpenStaging, WriteChunk, EndOfUpload, Promote, Tidy, Discard,
         RegisterRead, LocatedAt, AtUpload
    <3>2. batches' = batches /\ cur' = cur
      BY <2>10 DEF OpenStaging, WriteChunk, EndOfUpload, Promote, Tidy, Discard, RegisterRead, FailWith
    <3>3. ASSUME NEW label \in AtUpload, Goto(r, label) PROVE LocatedAt(r)'
      BY <2>3, <3>1, <3>2, <3>3, Labels, LocatedMove
    <3>4. ASSUME UNCHANGED pc PROVE LocatedAt(r)'
      BY <2>3, <3>1, <3>2, <3>4, Labels DEF LocatedAt, Rejected
    <3> QED BY <2>2, <2>10, <3>3, <3>4 DEF OpenStaging, WriteChunk, EndOfUpload, Promote, Tidy, Discard,
               RegisterRead, FailWith, AtUpload
  <2>11. CASE RegisterWrite(r) \/ RecordFailure(r)
    <3>1. ~ Rejected(cmd[r]) /\ batches[r] # None /\ cur[r] \in DOMAIN cmd[r].files
      BY <2>3, <2>11, Labels DEF RegisterWrite, RecordFailure, LocatedAt, AtUpload
    <3>2. batches' = batches
      BY <2>11 DEF RegisterWrite, RecordFailure
    <3>3. ASSUME Goto(r, "next") PROVE LocatedAt(r)'
      BY <2>3, <3>1, <3>2, <3>3, Labels, LocatedMove
    <3>4. ASSUME Goto(r, "record"), cur' = cur PROVE LocatedAt(r)'
      <4>1. "record" \in AtUpload
        BY DEF AtUpload
      <4> QED BY <2>3, <3>1, <3>2, <3>4, <4>1, Labels, LocatedMove
    <3> QED BY <2>2, <2>11, <3>3, <3>4 DEF RegisterWrite, RecordFailure, FailWith
  <2>12. CASE LeaveLoop(r) \/ Sweep(r)
    <3>1. ~ Rejected(cmd[r]) /\ batches[r] # None
      BY <2>3, <2>12, Labels DEF LeaveLoop, Sweep, LocatedAt
    <3>2. ASSUME NEW label \in {"sweep", "complete"}, Goto(r, label), batches' = batches
          PROVE  LocatedAt(r)'
      BY <2>3, <3>1, <3>2, Labels, LocatedMove
    <3> QED BY <2>2, <2>12, <3>2 DEF LeaveLoop, Sweep
  <2>13. CASE CompleteBatch(r)
    <3>1. ~ Rejected(cmd[r]) /\ Goto(r, "answer")
      BY <2>3, <2>13, Labels DEF CompleteBatch, LocatedAt
    <3>2. batches'[r] # None
      <4>1. pc[r] = "complete" /\ batches \in [Requests -> BatchRow \cup {None}]
        BY <2>13 DEF CompleteBatch, TypeOK
      <4>2. batches'[r] \in BatchRow
        BY <2>13, <4>1, SettledRowType DEF CompleteBatch
      <4> QED BY <4>2, NoneAssumption DEF NoneAssumption
    <3> QED BY <2>2, <2>3, <3>1, <3>2, Labels, LocatedMove
  <2>14. CASE Unwind(r) \/ AnswerBatch(r)
    BY <2>2, <2>4, <2>14 DEF Unwind, AnswerBatch
  <2> QED BY <1>a, <2>5, <2>6, <2>7, <2>8, <2>9, <2>10, <2>11, <2>12, <2>13, <2>14 DEF Step
<1>b. ASSUME NEW r \in Requests, RegistryFault(r) \/ StorageFault(r) PROVE Located'
  <2>1. ASSUME NEW q \in Requests \ {r} PROVE LocatedAt(q)'
    <3>1. pc'[q] = pc[q] /\ cur'[q] = cur[q] /\ local'[q] = local[q] /\ batches' = batches /\ cmd' = cmd
      BY <1>b, <2>1 DEF TypeOK, RegistryFault, StorageFault, Goto, Return, FailWith
    <3> QED BY <3>1 DEF Located, LocatedAt, Rejected
  <2>2. cmd' = cmd /\ batches' = batches /\ LocatedAt(r)
    BY <1>b DEF RegistryFault, StorageFault, Located
  <2>3. ASSUME NEW a, Return(r, a) PROVE LocatedAt(r)'
    BY <2>2, <2>3, Labels, LocatedMove DEF Return
  <2>4. ASSUME NEW code, NEW label \in {"discard", "record"}, FailWith(r, code, label),
               cur[r] \in DOMAIN cmd[r].files, pc[r] \in InBatch
        PROVE  LocatedAt(r)'
    <3>1. label \in AtUpload
      BY DEF AtUpload
    <3> QED BY <2>2, <2>4, <3>1, Labels, LocatedMove DEF FailWith, LocatedAt
  <2>5. ASSUME NEW label \in {"unwind", "complete"}, Goto(r, label), pc[r] \in InBatch
        PROVE  LocatedAt(r)'
    BY <2>2, <2>5, Labels, LocatedMove DEF LocatedAt
  <2>6. CASE RegistryFault(r)
    <3>1. pc[r] \in {"register", "insert", "reuse"} =>
             cur[r] \in DOMAIN cmd[r].files /\ pc[r] \in InBatch
      BY <2>2 DEF LocatedAt, AtUpload, InBatch
    <3>2. pc[r] = "record" => pc[r] \in InBatch
      BY DEF AtUpload, InBatch
    <3>3. LocatedAt(r)'
      BY <2>3, <2>4, <2>5, <2>6, <3>1, <3>2 DEF RegistryFault
    <3> QED BY <2>1, <3>3 DEF Located
  <2>7. CASE StorageFault(r)
    <3>1. pc[r] \in {"open", "write", "promote", "tidy", "discard"} =>
             cur[r] \in DOMAIN cmd[r].files /\ pc[r] \in InBatch
      BY <2>2 DEF LocatedAt, AtUpload, InBatch
    <3>2. pc[r] \in {"next", "sweep"} => pc[r] \in InBatch
      BY DEF InBatch
    <3>3. cur[r] <= Len(cmd[r].files) => cur[r] \in DOMAIN cmd[r].files
      BY CommandType DEF TypeOK
    <3>4. LocatedAt(r)'
      BY <2>3, <2>4, <2>5, <2>7, <3>1, <3>2, <3>3 DEF StorageFault
    <3> QED BY <2>1, <3>4 DEF Located
  <2> QED BY <1>b, <2>6, <2>7
<1>c. ASSUME NEW w \in Workers, Crash(w) PROVE Located'
  <2>1. \A r \in Requests : pc'[r] = pc[r] \/ pc'[r] = "lost"
    BY <1>c DEF Crash
  <2>2. UNCHANGED <<cmd, cur, local, batches>>
    BY <1>c DEF Crash
  <2> QED BY <2>1, <2>2, Labels DEF Located, LocatedAt, Rejected
<1>d. ASSUME NEW c \in Contents, Decay(c) PROVE Located'
  BY <1>d DEF Decay, Located, LocatedAt, Rejected
<1>e. CASE UNCHANGED vars
  BY <1>e DEF vars, Located, LocatedAt, Rejected
<1> QED BY <1>a, <1>b, <1>c, <1>d, <1>e DEF Next, Idle

\* Requests stay within their command and their batch's life, and every variable within its type.
LEMMA TypingInvariant == Spec => [](TypeOK /\ Located)
<1>1. Init => TypeOK /\ Located
  BY TypeInit, LocatedInit
<1>2. TypeOK /\ Located /\ [Next]_vars => (TypeOK /\ Located)'
  BY TypeStep, LocatedStep
<1> QED BY <1>1, <1>2, PTL DEF Spec

\* Every variable keeps to its type: an answered batch has a row to report, and what is written
\* to the tables and sent to clients is a row and an answer (the handlers of Intake).
THEOREM TypeCorrect == Spec => []TypeOK
BY TypingInvariant, PTL

-----------------------------------------------------------------------------
(* Registered records are readable and unique.                             *)

\* What is kept stays kept: nothing in the server takes an intact original away.
LEMMA KeptStep ==
    ASSUME TypeOK, Located, [Next]_vars, NEW c \in Contents, Kept(c)
    PROVE  Kept(c)'
<1> USE DEF registryVars, diskVars, taskVars, budgetVars
<1>1. ASSUME UNCHANGED <<originals, decayed>> PROVE Kept(c)'
  BY <1>1 DEF Kept
<1>2. ASSUME NEW r \in Requests, Step(r) PROVE Kept(c)'
  <2>1. CASE Promote(r)
    <3>1. TheContent(r) \in Contents
      BY <2>1, AtUploadType DEF Promote, AtUpload
    <3> QED BY <2>1, <3>1 DEF Promote, Kept, TypeOK
  <2>2. CASE ~ Promote(r)
    <3>1. UNCHANGED <<originals, decayed>>
      BY <1>2, <2>2 DEF Step, Receive, LookupKey, Replay, CreateBatch, Admit, OpenStaging, WriteChunk,
         EndOfUpload, Tidy, Discard, RegisterRead, RegisterWrite, RecordFailure, LeaveLoop, Sweep,
         Unwind, CompleteBatch, AnswerBatch, DeleteEmptyBatch
    <3> QED BY <1>1, <3>1
  <2> QED BY <2>1, <2>2
<1>3. ASSUME NEW r \in Requests, RegistryFault(r) \/ StorageFault(r) PROVE Kept(c)'
  BY <1>1, <1>3 DEF RegistryFault, StorageFault
<1>4. ASSUME NEW w \in Workers, Crash(w) PROVE Kept(c)'
  BY <1>1, <1>4 DEF Crash
<1>5. ASSUME NEW d \in Contents, Decay(d) PROVE Kept(c)'
  BY <1>5 DEF Decay, Kept, TypeOK
<1>6. CASE UNCHANGED vars
  BY <1>1, <1>6 DEF vars
<1> QED BY <1>2, <1>3, <1>4, <1>5, <1>6 DEF Next, Idle

\* From _promote to the commit no step of another request takes the original away.
LEMMA PromotedStep == TypeOK /\ Located /\ Promoted /\ [Next]_vars => Promoted'
<1> SUFFICES ASSUME TypeOK, Located, Promoted, [Next]_vars,
                    NEW q \in Requests, pc'[q] \in AfterPromotion
             PROVE  Kept(TheContent(q))'
  BY DEF Promoted
<1> USE DEF registryVars, diskVars, taskVars, budgetVars
<1>1. ASSUME pc[q] \in AfterPromotion, cur'[q] = cur[q], cmd' = cmd PROVE Kept(TheContent(q))'
  <2>1. TheContent(q) \in Contents /\ Kept(TheContent(q))
    BY <1>1, AtUploadType DEF Promoted, AfterPromotion, AtUpload
  <2>2. TheContent(q)' = TheContent(q)
    BY <1>1 DEF TheContent, TheUpload
  <2> QED BY <2>1, <2>2, KeptStep DEF Kept
<1>2. ASSUME NEW r \in Requests, Step(r) PROVE Kept(TheContent(q))'
  <2>1. CASE r # q
    BY <1>1, <1>2, <2>1, RowsKept
  <2>2. CASE r = q /\ Promote(q)
    <3>1. TheContent(q) \in Contents
      BY <2>2, AtUploadType DEF Promote, AtUpload
    <3>2. TheContent(q)' = TheContent(q)
      BY <2>2 DEF Promote, FailWith, TheContent, TheUpload
    <3>3. pc'[q] # "discard"
      BY DEF AfterPromotion
    <3>4. originals'[TheContent(q)] = "intact"
      BY <2>2, <3>1, <3>3 DEF Promote, FailWith, Goto, TypeOK
    <3> QED BY <3>2, <3>4 DEF Kept
  <2>3. CASE r = q /\ ~ Promote(q)
    <3>1. Tidy(q) \/ RegisterRead(q)
      BY <1>2, <2>3, ZenonT(60) DEF Step, Receive, LookupKey, Replay, CreateBatch, Admit, OpenStaging,
         WriteChunk, EndOfUpload, Discard, RegisterWrite, RecordFailure, LeaveLoop, Sweep, Unwind,
         CompleteBatch, AnswerBatch, Goto, FailWith, Return, AfterPromotion, TypeOK
    <3>2. pc[q] \in AfterPromotion /\ cur'[q] = cur[q] /\ cmd' = cmd
      BY <3>1 DEF Tidy, RegisterRead, AfterPromotion
    <3> QED BY <1>1, <3>2
  <2> QED BY <2>1, <2>2, <2>3
<1>3. ASSUME NEW r \in Requests, RegistryFault(r) \/ StorageFault(r) PROVE Kept(TheContent(q))'
  <2>1. pc[q] \in AfterPromotion /\ cur'[q] = cur[q] /\ cmd' = cmd
    BY <1>3 DEF RegistryFault, StorageFault, AfterPromotion, FailWith, Return, Goto, TypeOK
  <2> QED BY <1>1, <2>1
<1>4. ASSUME NEW w \in Workers, Crash(w) PROVE Kept(TheContent(q))'
  <2>1. pc[q] \in AfterPromotion /\ cur'[q] = cur[q] /\ cmd' = cmd
    BY <1>4 DEF Crash, AfterPromotion
  <2> QED BY <1>1, <2>1
<1>5. ASSUME NEW c \in Contents, Decay(c) PROVE Kept(TheContent(q))'
  BY <1>1, <1>5 DEF Decay
<1>6. CASE UNCHANGED vars
  BY <1>1, <1>6 DEF vars
<1> QED BY <1>2, <1>3, <1>4, <1>5, <1>6 DEF Next, Idle

\* The registered records and the blob rows change together, by one record of a content that had
\* none.
Registers(r) ==
    /\ pc[r] \in AfterPromotion /\ Owners(TheContent(r)) = {}
    /\ blobs' = blobs \cup {TheContent(r)}
    /\ Registered' = Registered \cup {[id |-> TheFileId(r), batch |-> r, content |-> TheContent(r),
                                       status |-> "registered", code |-> None]}

\* A step leaves registered records and blob rows as they are, or is the insert of register_file.
LEMMA RegistryChange ==
    ASSUME TypeOK, Located, BlobsOwned, [Next]_vars
    PROVE  \/ Registered' = Registered /\ blobs' = blobs
           \/ \E r \in Requests : TheContent(r) \in Contents /\ Registers(r)
<1> USE DEF registryVars, diskVars, taskVars, budgetVars
<1>1. ASSUME UNCHANGED <<files, blobs>> PROVE Registered' = Registered /\ blobs' = blobs
  BY <1>1 DEF Registered
<1>2. ASSUME NEW r \in Requests, RegisterWrite(r)
      PROVE  \/ Registered' = Registered /\ blobs' = blobs
             \/ TheContent(r) \in Contents /\ Registers(r)
  <2>1. TheContent(r) \in Contents /\ pc[r] \in AfterPromotion
    BY <1>2, AtUploadType DEF RegisterWrite, AtUpload, AfterPromotion
  <2>2. CASE UNCHANGED <<files, blobs>>
    BY <1>1, <2>2
  <2>3. CASE blobs' = blobs \cup {TheContent(r)} /\ UNCHANGED files /\ Owners(TheContent(r)) # {}
    BY <2>1, <2>3 DEF BlobsOwned, Registered
  <2>4. CASE /\ blobs' = blobs \cup {TheContent(r)} /\ Owners(TheContent(r)) = {}
             /\ files' = files \cup {[id |-> TheFileId(r), batch |-> r, content |-> TheContent(r),
                                     status |-> "registered", code |-> None]}
    BY <2>1, <2>4 DEF Registered, Registers
  <2> QED BY <1>2, <2>2, <2>3, <2>4 DEF RegisterWrite
<1>3. ASSUME NEW r \in Requests, RecordFailure(r) PROVE Registered' = Registered /\ blobs' = blobs
  BY <1>3 DEF RecordFailure, Registered
<1>4. ASSUME NEW r \in Requests, Step(r), ~ RegisterWrite(r), ~ RecordFailure(r)
      PROVE  UNCHANGED <<files, blobs>>
  BY <1>4 DEF Step, Receive, LookupKey, Replay, CreateBatch, Admit, OpenStaging, WriteChunk,
     EndOfUpload, Promote, Tidy, Discard, RegisterRead, LeaveLoop, Sweep, Unwind, CompleteBatch,
     AnswerBatch
<1>5. ASSUME \/ \E r \in Requests : RegistryFault(r) \/ StorageFault(r)
             \/ \E w \in Workers : Crash(w)
             \/ \E c \in Contents : Decay(c)
             \/ UNCHANGED vars
      PROVE  UNCHANGED <<files, blobs>>
  BY <1>5 DEF RegistryFault, StorageFault, Crash, Decay, vars
<1> QED BY <1>1, <1>2, <1>3, <1>4, <1>5 DEF Next, Idle

-----------------------------------------------------------------------------
(* Idempotency keys.                                                       *)

\* create_batch alone inserts keys, behind the unique index.
LEMMA KeyStep == TypeOK /\ Located /\ LiveKeyUnique /\ [Next]_vars => LiveKeyUnique'
<1> SUFFICES ASSUME TypeOK, Located, LiveKeyUnique, [Next]_vars PROVE LiveKeyUnique'
  OBVIOUS
<1> USE DEF registryVars, diskVars, taskVars, budgetVars
<1>1. ASSUME \A b \in Requests : batches'[b] # None =>
                batches[b] # None /\ batches'[b].key = batches[b].key
      PROVE  LiveKeyUnique'
  BY <1>1 DEF LiveKeyUnique
<1>2. ASSUME UNCHANGED batches PROVE LiveKeyUnique'
  BY <1>2 DEF LiveKeyUnique
<1>3. ASSUME NEW r \in Requests, CreateBatch(r) PROVE LiveKeyUnique'
  <2>1. CASE BatchesWith(cmd[r].key) # {}
    BY <1>2, <1>3, <2>1 DEF CreateBatch
  <2>2. CASE BatchesWith(cmd[r].key) = {}
    <3>1. \A b \in Requests : batches[b] # None => batches[b].key # cmd[r].key
      BY <2>2 DEF BatchesWith
    <3>2. batches'[r].key = cmd[r].key /\ \A b \in Requests \ {r} : batches'[b] = batches[b]
      BY <1>3, <2>2 DEF CreateBatch, TypeOK
    <3> QED BY <3>1, <3>2 DEF LiveKeyUnique
  <2> QED BY <2>1, <2>2
<1>4. ASSUME NEW r \in Requests, CompleteBatch(r) PROVE LiveKeyUnique'
  <2>1. batches[r] \in BatchRow /\ batches[r] # None
    BY <1>4 DEF CompleteBatch, Located, LocatedAt, InBatch, TypeOK
  <2>2. batches'[r].key = batches[r].key
    BY <1>4, <2>1 DEF CompleteBatch, TypeOK, BatchRow
  <2>3. \A b \in Requests \ {r} : batches'[b] = batches[b]
    BY <1>4 DEF CompleteBatch, TypeOK
  <2> QED BY <1>1, <2>1, <2>2, <2>3
<1>5. ASSUME NEW r \in Requests, AnswerBatch(r) PROVE LiveKeyUnique'
  <2>1. \A b \in Requests : batches'[b] = batches[b] \/ batches'[b] = None
    BY <1>5 DEF AnswerBatch, DeleteEmptyBatch, TypeOK
  <2> QED BY <1>1, <2>1
<1>6. ASSUME NEW r \in Requests, Step(r), ~ CreateBatch(r), ~ CompleteBatch(r), ~ AnswerBatch(r)
      PROVE  UNCHANGED batches
  BY <1>6 DEF Step, Receive, LookupKey, Replay, Admit, OpenStaging, WriteChunk, EndOfUpload, Promote,
     Tidy, Discard, RegisterRead, RegisterWrite, RecordFailure, LeaveLoop, Sweep, Unwind
<1>7. ASSUME \/ \E r \in Requests : RegistryFault(r) \/ StorageFault(r)
             \/ \E w \in Workers : Crash(w)
             \/ \E c \in Contents : Decay(c)
             \/ UNCHANGED vars
      PROVE  UNCHANGED batches
  BY <1>7 DEF RegistryFault, StorageFault, Crash, Decay, vars
<1> QED BY <1>2, <1>3, <1>4, <1>5, <1>6, <1>7 DEF Next, Idle

-----------------------------------------------------------------------------
(* The registry as a whole.                                                *)

\* Every step of intake, also a failing one, keeps the invariant of the registry.
LEMMA RegistryStep == RegistryInv /\ [Next]_vars => RegistryInv'
<1> SUFFICES ASSUME RegistryInv, [Next]_vars PROVE RegistryInv'
  OBVIOUS
<1>1. /\ TypeOK /\ Located /\ Promoted /\ BlobsOwned
      /\ RegisteredReadable /\ UniqueContent /\ LiveKeyUnique
  BY DEF RegistryInv
<1>2. TypeOK' /\ Located' /\ Promoted' /\ LiveKeyUnique'
  BY <1>1, TypeStep, LocatedStep, PromotedStep, KeyStep
<1>3. \A f \in Registered : f.content \in Contents /\ Kept(f.content)
  <2>1. blobs \subseteq Contents
    BY <1>1 DEF TypeOK
  <2> QED BY <1>1, <2>1 DEF RegisteredReadable, Kept
<1>4. ASSUME NEW c \in Contents, Kept(c) PROVE originals'[c] = "intact" \/ c \in decayed'
  BY <1>1, <1>4, KeptStep DEF Kept
<1>5. \A f \in Registered : originals'[f.content] = "intact" \/ f.content \in decayed'
  BY <1>3, <1>4
<1>6. CASE Registered' = Registered /\ blobs' = blobs
  <2>1. BlobsOwned' /\ UniqueContent'
    BY <1>1, <1>6 DEF BlobsOwned, Owners, UniqueContent
  <2>2. RegisteredReadable'
    BY <1>1, <1>5, <1>6 DEF RegisteredReadable, Kept
  <2> QED BY <1>2, <2>1, <2>2 DEF RegistryInv
<1>7. ASSUME NEW r \in Requests, TheContent(r) \in Contents, Registers(r) PROVE RegistryInv'
  <2> DEFINE new == [id |-> TheFileId(r), batch |-> r, content |-> TheContent(r),
                     status |-> "registered", code |-> None]
  <2>1. Registered' = Registered \cup {new} /\ blobs' = blobs \cup {new.content}
    BY <1>7 DEF Registers
  <2>2. \A f \in Registered : f.content # new.content
    BY <1>7 DEF Registers, Owners
  <2>3. originals'[new.content] = "intact" \/ new.content \in decayed'
    BY <1>1, <1>7, <1>4 DEF Registers, Promoted
  <2>4. RegisteredReadable'
    <3> HIDE DEF new
    <3> QED BY <1>1, <1>5, <2>1, <2>3 DEF RegisteredReadable
  <2>5. UniqueContent'
    BY <1>1, <2>1, <2>2 DEF UniqueContent
  <2>6. BlobsOwned'
    BY <1>1, <2>1 DEF BlobsOwned, Owners
  <2> QED BY <1>2, <2>4, <2>5, <2>6 DEF RegistryInv
<1> QED BY <1>1, <1>6, <1>7, RegistryChange

\* An empty registry satisfies it.
LEMMA RegistryInit == Init => RegistryInv
BY TypeInit, LocatedInit DEF Init, RegistryInv, Promoted, AfterPromotion, BlobsOwned, Owners, Registered,
   RegisteredReadable, UniqueContent, LiveKeyUnique

\* The invariant behind the two theorems below: the bytes are kept before the record is written,
\* and blob rows and registered records come together.
THEOREM RegistryInvariant == Spec => []RegistryInv
<1>1. RegistryInv /\ [Next]_vars => RegistryInv'
  BY RegistryStep
<1> QED BY RegistryInit, <1>1, PTL DEF Spec

\* A registered record always has its blob row and its original, whatever uploads, failures and
\* crashes go on around it (store's promotion before register_file's commit).
THEOREM ReadableAlways == Spec => []RegisteredReadable
<1>1. RegistryInv => RegisteredReadable
  BY DEF RegistryInv
<1> QED BY RegistryInvariant, <1>1, PTL

\* No content is ever registered twice, by any number of workers (original_blobs' primary key).
THEOREM UniqueAlways == Spec => []UniqueContent
<1>1. RegistryInv => UniqueContent
  BY DEF RegistryInv
<1> QED BY RegistryInvariant, <1>1, PTL

\* Two live batches never share an idempotency key, for any number of workers and requests, with
\* rows withdrawn and keys used again in between (create_batch, delete_empty_batch).
THEOREM KeysAlwaysUnique == Spec => []LiveKeyUnique
<1>1. RegistryInv => LiveKeyUnique
  BY DEF RegistryInv
<1> QED BY RegistryInvariant, <1>1, PTL

=============================================================================
