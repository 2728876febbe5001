----------------------------- MODULE QueryProofs -----------------------------
(***************************************************************************)
(* Proofs about IntakeQueries: what a query read stays true, whatever the  *)
(* intake requests of any number of workers do between its statements.     *)
(***************************************************************************)
EXTENDS IntakeQueries, IntakeAnswerProofs

-----------------------------------------------------------------------------
(* What intake leaves alone.                                               *)

\* What the tables satisfy, with or without queries beside them.
TablesInv == TypeOK /\ Located /\ RegistryInv /\ Ledger

\* Queries change no table, and intake keeps them as IntakeProofs and IntakeAnswerProofs say.
LEMMA TablesStep == TablesInv /\ [Next]_vars => TablesInv'
<1> SUFFICES ASSUME TablesInv, [Next]_vars PROVE TablesInv'
  OBVIOUS
<1>1. RegistryInv'
  BY RegistryStep DEF TablesInv
<1>2. Ledger'
  BY LedgerStep DEF TablesInv
<1> QED BY <1>1, <1>2 DEF TablesInv, RegistryInv

\* A batch whose request ended gets no more records.
LEMMA EndedStays ==
    ASSUME TypeOK, Located, [Next]_vars, NEW b \in Requests, Ended(b)
    PROVE  Ended(b)' /\ FilesOf(b)' = FilesOf(b)
<1> USE DEF registryVars, diskVars, taskVars, budgetVars
<1>1. ASSUME UNCHANGED files PROVE FilesOf(b)' = FilesOf(b)
  BY <1>1 DEF FilesOf
<1>2. ASSUME NEW r \in Requests \ {b}, Step(r) \/ RegistryFault(r) \/ StorageFault(r)
      PROVE  Ended(b)' /\ FilesOf(b)' = FilesOf(b)
  <2>1. b \in Requests \ {r}
    BY <1>2
  <2>2. FilesOf(b)' = FilesOf(b)
    BY <1>2, <2>1, RecordsKept
  <2>3. pc'[b] = pc[b]
    <3>1. CASE Step(r)
      BY <2>1, <3>1, RowsKept
    <3>2. CASE RegistryFault(r) \/ StorageFault(r)
      BY <2>1, <3>2 DEF RegistryFault, StorageFault, Goto, FailWith, Return, TypeOK
    <3> QED BY <1>2, <3>1, <3>2
  <2> QED BY <2>2, <2>3 DEF Ended
<1>3. CASE AnswerBatch(b)
  BY <1>1, <1>3 DEF AnswerBatch, Return, Goto, Ended, TypeOK
<1>4. CASE RegistryFault(b)
  BY <1>1, <1>4 DEF RegistryFault, Return, Goto, Ended, TypeOK
<1>5. ~ StorageFault(b)
  BY DEF StorageFault, Ended
<1>6. ASSUME Step(b) PROVE AnswerBatch(b)
  BY <1>6 DEF Step, Receive, LookupKey, Replay, CreateBatch, Admit, OpenStaging, WriteChunk,
     EndOfUpload, Promote, Tidy, Discard, RegisterRead, RegisterWrite, RecordFailure, LeaveLoop,
     Sweep, Unwind, CompleteBatch, Ended
<1>7. CASE \E w \in Workers : Crash(w)
  BY <1>1, <1>7 DEF Crash, Ended
<1>8. CASE (\E c \in Contents : Decay(c)) \/ UNCHANGED vars
  BY <1>1, <1>8 DEF Decay, vars, Ended
<1> QED BY <1>2, <1>3, <1>4, <1>5, <1>6, <1>7, <1>8 DEF Next, Idle

\* The request of a batch that is settled has ended, as far as its records go.
LEMMA SettledEnded ==
    ASSUME TypeOK, Ledger, NEW b \in Requests, Settled(b)
    PROVE  Ended(b)
<1>1. RowAt(b) /\ batches[b] # None
  BY DEF Ledger, Settled
<1>2. pc[b] \notin Unbegun /\ (pc[b] \in InBatch => pc[b] = "answer")
  BY <1>1 DEF RowAt
<1>3. pc[b] \in {"new", "done", "lost"} \cup OnLoop \cup InThread
  BY DEF TypeOK
<1> QED BY <1>2, <1>3 DEF Ended, Unbegun, InBatch, AtUpload, OnLoop, InThread

\* Every record has the row of its batch.
LEMMA RecordHasRow ==
    ASSUME TypeOK, Ledger, NEW f \in files
    PROVE  f \in FileRow /\ f.batch \in Requests /\ batches[f.batch] # None
<1>1. f \in FileRow /\ f.batch \in Requests
  BY DEF TypeOK, FileRow
<1>2. f \in FilesOf(f.batch)
  BY DEF FilesOf
<1> QED BY <1>1, <1>2 DEF Ledger, RowAt

\* A registered record has its blob row, and an original unless someone else harmed it.
LEMMA RegisteredFacts ==
    ASSUME TypeOK, RegistryInv, NEW f \in Registered
    PROVE  f.content \in blobs /\ f.content \in Contents /\ Kept(f.content)
BY DEF RegistryInv, RegisteredReadable, TypeOK, Kept

-----------------------------------------------------------------------------
(* What a query knows.                                                     *)

\* What a query knows stays true through the steps of intake ...
LEMMA KnowsStep ==
    ASSUME TablesInv, [Next]_vars, NEW v \in View, Knows(v)
    PROVE  Knows(v)'
<1>1. TypeOK /\ Located
  BY DEF TablesInv
<1>2. files \subseteq files' /\ Registered \subseteq Registered'
  BY <1>1, OnlyMore DEF Registered
<1>3. v.batch \in Requests \cup {None}
  BY DEF View
<1>4. ASSUME v.batch # None, v.row # None, v.row.status # "receiving"
      PROVE  Ended(v.batch)' /\ FilesOf(v.batch)' = FilesOf(v.batch)
  BY <1>1, <1>3, <1>4, EndedStays DEF Knows
<1> QED BY <1>2, <1>4, ZenonT(60) DEF Knows

\* ... and through those of other queries.
LEMMA KnowsQuiet ==
    ASSUME UNCHANGED vars, NEW v
    PROVE  Knows(v)' <=> Knows(v)
BY DEF Knows, vars, registryVars, taskVars, Registered, FilesOf, Ended

\* Only the query that takes a step changes.
LEMMA OneQuery ==
    ASSUME QueryInv, NEW q \in Readers, NEW v \in View, Advance(q, v), UNCHANGED vars, Knows(v)
    PROVE  QueryInv'
<1>1. view' \in [Readers -> View] /\ view'[q] = v /\ \A p \in Readers \ {q} : view'[p] = view[p]
  BY DEF Advance, QueryInv
<1>2. ASSUME NEW p \in Readers, NEW w, w = view'[p], Knows(w) PROVE Knows(view[p])'
  <2>1. Knows(w)'
    BY <1>2, KnowsQuiet
  <2> QED BY <1>2, <2>1 DEF Knows, FilesOf, Ended
<1>3. \A p \in Readers : Knows(view[p])'
  BY <1>1, <1>2 DEF QueryInv
<1> QED BY <1>1, <1>3 DEF QueryInv

\* The first statements, of a batch ...
LEMMA BatchQuery ==
    ASSUME TablesInv, QueryInv, NEW q \in Readers, GetBatch(q), UNCHANGED vars
    PROVE  QueryInv'
<1> DEFINE v == view[q]
<1>1. v \in View /\ Knows(v) /\ TypeOK /\ Ledger
  BY DEF QueryInv, TablesInv
<1>2. NoQuery \in View
  BY DEF NoQuery, View
<1>3. ASSUME NEW b \in Requests, v.at = "idle", batches[b] = None,
             Advance(q, [v EXCEPT !.at = "answered", !.batch = b, !.outcome = "not-found"])
      PROVE  QueryInv'
  <2> DEFINE w == [v EXCEPT !.at = "answered", !.batch = b, !.outcome = "not-found"]
  <2>1. v = NoQuery
    BY <1>1, <1>3 DEF Knows
  <2>2. w \in View
    BY <1>1 DEF View, Outcome
  <2>3. w.at = "answered" /\ w.file = None /\ w.row = None /\ w.outcome = "not-found"
    BY <2>1 DEF NoQuery
  <2>4. Knows(w)
    <3> HIDE DEF w
    <3> QED BY <2>3 DEF Knows, FileSteps
  <2> QED BY <1>3, <2>2, <2>4, OneQuery
<1>4. ASSUME NEW b \in Requests, v.at = "idle", batches[b] # None,
             Advance(q, [v EXCEPT !.at = "batch", !.batch = b, !.row = batches[b]])
      PROVE  QueryInv'
  <2> DEFINE w == [v EXCEPT !.at = "batch", !.batch = b, !.row = batches[b]]
  <2>1. v = NoQuery
    BY <1>1, <1>4 DEF Knows
  <2>2. w \in View
    BY <1>1 DEF View, TypeOK
  <2>3. w.at = "batch" /\ w.file = None /\ w.row = batches[b] /\ w.outcome = None /\ w.batch = b
    BY <2>1 DEF NoQuery
  <2>4. batches[b].status # "receiving" => Ended(b)
    BY <1>1, <1>4, SettledEnded DEF Settled
  <2>5. b # None
    BY NoneAssumption DEF NoneAssumption
  <2>6. Knows(w)
    <3> HIDE DEF w
    <3> QED BY <1>4, <2>3, <2>4, <2>5 DEF Knows, FileSteps
  <2> QED BY <1>4, <2>2, <2>6, OneQuery
<1>5. ASSUME v.at = "batch",
             Advance(q, [v EXCEPT !.at = "answered", !.outcome = "found", !.files = FilesOf(v.batch)])
      PROVE  QueryInv'
  <2> DEFINE w == [v EXCEPT !.at = "answered", !.outcome = "found", !.files = FilesOf(v.batch)]
  <2>1. w \in View
    BY <1>1 DEF View, Outcome, FilesOf, TypeOK
  <2>2. /\ w.at = "answered" /\ w.file = v.file /\ w.row = v.row /\ w.outcome = "found"
        /\ w.batch = v.batch /\ w.files = FilesOf(v.batch)
    BY <1>1 DEF View
  <2>3. v.file = None /\ v.row # None
    BY <1>1, <1>5 DEF Knows
  <2>4. Knows(w)
    <3> HIDE DEF w
    <3> QED BY <1>1, <1>5, <2>2, <2>3 DEF Knows, FileSteps
  <2> QED BY <1>5, <2>1, <2>4, OneQuery
<1> QED BY <1>3, <1>4, <1>5 DEF GetBatch

\* ... and of a file; the second finds the row of its batch.
LEMMA FileQuery ==
    ASSUME TablesInv, QueryInv, NEW q \in Readers, FindFile(q) \/ FindOwner(q), UNCHANGED vars
    PROVE  QueryInv'
<1> DEFINE v == view[q]
<1>1. v \in View /\ Knows(v) /\ TypeOK /\ Ledger
  BY DEF QueryInv, TablesInv
<1>2. ASSUME v.at = "idle", NEW f \in files, NEW next \in {"owner", "ownerToSend"},
             Advance(q, [v EXCEPT !.at = next, !.file = f])
      PROVE  QueryInv'
  <2> DEFINE w == [v EXCEPT !.at = next, !.file = f]
  <2>1. v = NoQuery
    BY <1>1, <1>2 DEF Knows
  <2>2. w \in View
    BY <1>1, RecordHasRow DEF View
  <2>3. w.at = next /\ w.file = f /\ w.batch = None
    BY <2>1 DEF NoQuery
  <2>4. f # None
    BY <1>1, RecordHasRow, NoFileAssumption DEF NoFileAssumption
  <2>5. Knows(w)
    <3> HIDE DEF w
    <3> QED BY <2>3, <2>4 DEF Knows, FileSteps
  <2> QED BY <1>2, <2>2, <2>5, OneQuery
<1>3. ASSUME v.at \in {"owner", "ownerToSend"},
             Advance(q, [v EXCEPT !.at = IF @ = "owner" THEN "blob" ELSE "blobToSend",
                                  !.row = batches[v.file.batch]])
      PROVE  QueryInv'
  <2> DEFINE w == [v EXCEPT !.at = IF @ = "owner" THEN "blob" ELSE "blobToSend",
                            !.row = batches[v.file.batch]]
  <2>1. v.file # None /\ v.file \in files /\ v.batch = None
    BY <1>1, <1>3 DEF Knows, FileSteps
  <2>2. batches[v.file.batch] # None /\ v.file.batch \in Requests
    BY <1>1, <2>1, RecordHasRow
  <2>3. w \in View
    BY <1>1, <2>2 DEF View, TypeOK
  <2>4. /\ w.at \in {"blob", "blobToSend"} /\ w.file = v.file /\ w.batch = None
        /\ w.row = batches[v.file.batch]
    BY <1>1, <2>1 DEF View
  <2>5. Knows(w)
    <3> HIDE DEF w
    <3> QED BY <1>1, <1>3, <2>1, <2>2, <2>4 DEF Knows, FileSteps
  <2> QED BY <1>3, <2>3, <2>5, OneQuery
<1>4. ASSUME v.at \in {"owner", "ownerToSend"}, batches[v.file.batch] = None PROVE FALSE
  <2>1. v.file # None /\ v.file \in files
    BY <1>1, <1>4 DEF Knows, FileSteps
  <2> QED BY <1>1, <1>4, <2>1, RecordHasRow
<1> QED BY <1>2, <1>3, <1>4 DEF FindFile, FindOwner

\* The later statements about a file answer the query, or go on with a registered record.
LEMMA ContentQuery ==
    ASSUME TablesInv, QueryInv, NEW q \in Readers, UNCHANGED vars,
           \/ FindBlob(q) \/ FindBlobToSend(q) \/ CheckOriginal(q) \/ SendOriginal(q)
    PROVE  QueryInv'
<1> DEFINE v == view[q]
<1>1. v \in View /\ Knows(v)
  BY DEF QueryInv
<1>2. /\ v.at \in FileSteps /\ v.at \notin {"owner", "ownerToSend"}
      /\ v.file # None /\ v.file \in files /\ v.batch = None /\ v.row # None
  <2>1. v.at \in FileSteps /\ v.at \notin {"owner", "ownerToSend"}
    BY DEF FindBlob, FindBlobToSend, CheckOriginal, SendOriginal, FileSteps
  <2> QED BY <1>1, <2>1 DEF Knows
<1>3. ASSUME NEW outcome \in Outcome, Answered(q, outcome) PROVE QueryInv'
  <2> DEFINE w == [v EXCEPT !.at = "answered", !.outcome = outcome]
  <2>1. w \in View
    BY <1>1 DEF View
  <2>2. w.at = "answered" /\ w.file = v.file /\ w.batch = None /\ w.row = v.row
    BY <1>1, <1>2 DEF View
  <2>3. Knows(w)
    <3> HIDE DEF w
    <3> QED BY <1>2, <2>2 DEF Knows, FileSteps
  <2> QED BY <1>3, <2>1, <2>3, OneQuery DEF Answered
<1>4. ASSUME NEW next \in {"check", "send"}, v.file \in Registered, Advance(q, [v EXCEPT !.at = next])
      PROVE  QueryInv'
  <2> DEFINE w == [v EXCEPT !.at = next]
  <2>1. w \in View
    BY <1>1 DEF View
  <2>2. w.at = next /\ w.file = v.file /\ w.batch = None /\ w.row = v.row
    BY <1>1, <1>2 DEF View
  <2>3. Knows(w)
    <3> HIDE DEF w
    <3> QED BY <1>2, <1>4, <2>2 DEF Knows, FileSteps
  <2> QED BY <1>4, <2>1, <2>3, OneQuery
<1>5. CASE FindBlob(q)
  BY <1>3, <1>5 DEF FindBlob, Outcome
<1>6. CASE FindBlobToSend(q)
  BY <1>2, <1>3, <1>4, <1>6 DEF FindBlobToSend, Outcome, Registered
<1>7. CASE CheckOriginal(q)
  <2>1. v.file \in Registered
    BY <1>1, <1>7 DEF CheckOriginal, Knows
  <2> QED BY <1>3, <1>4, <1>7, <2>1 DEF CheckOriginal, Outcome
<1>8. CASE SendOriginal(q)
  <2>1. originals[v.file.content] \in {"absent", "intact", "damaged"}
    <3>1. v.file \in Registered /\ TypeOK /\ RegistryInv
      BY <1>1, <1>8 DEF SendOriginal, Knows, TablesInv
    <3> QED BY <3>1, RegisteredFacts DEF TypeOK
  <2>2. PICK outcome \in Outcome : Answered(q, outcome)
    BY <1>8, <2>1 DEF SendOriginal, Outcome
  <2> QED BY <1>3, <2>2
<1> QED BY <1>5, <1>6, <1>7, <1>8

\* No statement of a query, and nothing that happens between two of them, makes what it read wrong.
LEMMA QueryStep == TablesInv /\ QueryInv /\ [NextQueries]_queryVars => QueryInv'
<1> SUFFICES ASSUME TablesInv, QueryInv, [NextQueries]_queryVars PROVE QueryInv'
  OBVIOUS
<1>1. CASE Next /\ UNCHANGED view
  <2>1. \A p \in Readers : Knows(view[p])'
    <3> SUFFICES ASSUME NEW p \in Readers PROVE Knows(view[p])'
      OBVIOUS
    <3>1. PICK v \in View : v = view[p] /\ v = view'[p]
      BY <1>1 DEF QueryInv
    <3>2. Knows(v)'
      BY <1>1, <3>1, KnowsStep DEF QueryInv
    <3> QED BY <3>1, <3>2 DEF Knows, FilesOf, Ended
  <2> QED BY <1>1, <2>1 DEF QueryInv
<1>2. ASSUME NEW q \in Readers, Forget(q), UNCHANGED vars PROVE QueryInv'
  <2>1. NoQuery \in View
    BY DEF NoQuery, View
  <2>2. Knows(NoQuery)
    BY DEF NoQuery, Knows, FileSteps
  <2> QED BY <1>2, <2>1, <2>2, OneQuery DEF Forget
<1>3. CASE UNCHANGED queryVars
  <2>1. UNCHANGED <<vars, view>>
    BY <1>3 DEF queryVars
  <2>2. \A p \in Readers : Knows(view[p])'
    BY <2>1 DEF QueryInv, Knows, vars, registryVars, taskVars, Registered, FilesOf, Ended
  <2> QED BY <2>1, <2>2 DEF QueryInv
<1>4. ASSUME NEW q \in Readers, Query(q), UNCHANGED vars PROVE QueryInv'
  BY <1>2, <1>4, BatchQuery, FileQuery, ContentQuery DEF Query
<1> QED BY <1>1, <1>3, <1>4 DEF NextQueries

\* The invariant of the queries beside intake.
LEMMA QueriesKeep == SpecQueries => [](TablesInv /\ QueryInv)
<1>1. InitQueries => TablesInv /\ QueryInv
  <2> SUFFICES ASSUME InitQueries PROVE TablesInv /\ QueryInv
    OBVIOUS
  <2>1. TablesInv
    BY RegistryInit, LedgerInit DEF InitQueries, TablesInv, RegistryInv
  <2>2. NoQuery \in View /\ Knows(NoQuery)
    BY DEF NoQuery, View, Knows, FileSteps
  <2>3. \A q \in Readers : view[q] = NoQuery
    BY DEF InitQueries
  <2>4. \A q \in Readers : Knows(view[q])
    BY <2>2, <2>3
  <2> QED BY <2>1, <2>2, <2>4 DEF InitQueries, QueryInv
<1>2. TablesInv /\ [NextQueries]_queryVars => TablesInv'
  <2>1. [NextQueries]_queryVars => [Next]_vars
    BY DEF NextQueries, queryVars
  <2> QED BY <2>1, TablesStep
<1> QED BY <1>1, <1>2, QueryStep, PTL DEF SpecQueries

-----------------------------------------------------------------------------
(* What a client of the query API may rely on.                             *)

\* A query keeps to its kind, and asks the disk only for the address of a content.
THEOREM ViewsAlwaysOK == SpecQueries => []ViewsOK
<1>1. TablesInv /\ QueryInv => ViewsOK
  BY RegisteredFacts DEF TablesInv, QueryInv, Knows, ViewsOK
<1> QED BY <1>1, QueriesKeep, PTL

\* A GET that reports a batch as settled reports all its records: the row is read first, and the
\* request that settled it records nothing afterwards (get_batch_detail beside execute).
THEOREM SettledAnswersComplete == SpecQueries => []SettledAnswerComplete
<1>1. QueryInv => SettledAnswerComplete
  BY DEF QueryInv, Knows, SettledAnswerComplete
<1> QED BY <1>1, QueriesKeep, PTL

\* A file that was found is answered: no batch that holds a record loses its row between the
\* statements of get_file_detail (delete_empty_batch).
THEOREM FoundFilesAnswered == SpecQueries => []FoundFileAnswered
<1>1. QueryInv => FoundFileAnswered
  BY DEF QueryInv, Knows, FoundFileAnswered
<1> QED BY <1>1, QueriesKeep, PTL

\* A download of a registered file fails only where someone outside the server harmed the original,
\* at its check, or between the check and the sending (download_file).
THEOREM DownloadsIntact == SpecQueries => DownloadIntact
<1>1. ASSUME TablesInv, QueryInv, [NextQueries]_queryVars, NEW q \in Readers,
             view[q].at \in {"blobToSend", "check", "send"}, view'[q].at = "answered",
             view[q].file.status = "registered", view'[q].outcome # "served"
      PROVE  view[q].file.content \in decayed
  <2> DEFINE v == view[q]
  <2>1. v \in View /\ Knows(v) /\ TypeOK /\ RegistryInv
    BY <1>1 DEF QueryInv, TablesInv
  <2>2. v.file \in Registered
    BY <1>1, <2>1 DEF Knows, FileSteps, Registered
  <2>3. /\ v.file.content \in blobs /\ v.file.content \in Contents
        /\ originals[v.file.content] = "intact" \/ v.file.content \in decayed
    BY <2>1, <2>2, RegisteredFacts DEF Kept
  <2>4. Query(q) /\ ~ GetBatch(q) /\ ~ FindFile(q) /\ ~ FindOwner(q) /\ ~ FindBlob(q) /\ ~ Forget(q)
    <3>1. view' # view
      BY <1>1
    <3>2. PICK p \in Readers : Query(p)
      BY <1>1, <3>1 DEF NextQueries, queryVars
    <3>3. \A r \in Readers : r # p => view'[r] = view[r]
      BY <1>1, <3>2 DEF Query, GetBatch, FindFile, FindOwner, FindBlob, FindBlobToSend, CheckOriginal,
         SendOriginal, Forget, Answered, Advance, QueryInv
    <3>4. p = q
      BY <1>1, <3>3
    <3> QED BY <1>1, <3>2, <3>4 DEF GetBatch, FindFile, FindOwner, FindBlob, Forget
  <2>5. CASE FindBlobToSend(q)
    BY <1>1, <2>1, <2>3, <2>5 DEF FindBlobToSend, Advance, View, QueryInv
  <2>6. CASE CheckOriginal(q)
    BY <1>1, <2>1, <2>3, <2>6 DEF CheckOriginal, Advance, View, QueryInv
  <2>7. CASE SendOriginal(q)
    <3>1. CASE originals[v.file.content] = "intact"
      BY <1>1, <2>1, <2>7, <3>1 DEF SendOriginal, Answered, Advance, View, QueryInv
    <3> QED BY <2>3, <3>1
  <2> QED BY <2>4, <2>5, <2>6, <2>7 DEF Query
<1>2. TablesInv /\ QueryInv /\ [NextQueries]_queryVars =>
        [\A q \in Readers :
            /\ view[q].at \in {"blobToSend", "check", "send"} /\ view'[q].at = "answered"
            /\ view[q].file.status = "registered" /\ view'[q].outcome # "served"
            => view[q].file.content \in decayed]_queryVars
  BY <1>1
<1> QED BY <1>2, QueriesKeep, PTL DEF SpecQueries, DownloadIntact

=============================================================================
