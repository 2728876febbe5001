---------------------------- MODULE FrontendFiles ----------------------------
(***************************************************************************)
(* The file list of the File Router's web page (App.tsx): it is replaced   *)
(* as a whole when the answer to the initial refresh or to an upload       *)
(* arrives, and several of these can be under way at once.                 *)
(***************************************************************************)
EXTENDS Integers, Sequences, FiniteSets

CONSTANTS
    Uploads,       \* selections of files the user drops on the page
    FilesIn,       \* the contents of each selection, in order
    Contents,
    Refused,       \* contents the server records as failed
    PageSize       \* the first page of the list: limit=200

ASSUME FilesInAssumption == FilesIn \in [Uploads -> Seq(Contents)] /\ PageSize \in Nat \ {0}
ASSUME RefreshAssumption == "refresh" \notin Uploads

VARIABLES
    records,   \* the server's file records, oldest first
    call,      \* where addFiles is for each upload; "new" before the user drops it
    refresh,   \* where the initial refresh is
    duplicates,\* the duplicates in the answer to each upload
    listing,   \* the list in the answer to each call; of the refresh under "refresh"
    shown,     \* the rows on the page
    mixed,     \* ghost: calls were under way at the same time
    broken     \* ghost: a call failed

vars == <<records, call, refresh, duplicates, listing, shown, mixed, broken>>

FileId == Uploads \X (Nat \ {0})
Record == [id : FileId, content : Contents, state : {"registered", "failed"}]
LocalRow == [id : FileId, kind : {"local"}, state : {"uploading", "failed"}]
ServerRow == [id : FileId, kind : {"record", "duplicate"}, state : {"registered", "failed"}]

Calls == {"new", "posting", "lost", "posted", "listing", "listed", "done", "failed"}

UnderWay(u) == call[u] \in {"posting", "posted", "listing", "listed"}

\* Types; and a row is "uploading" only while its upload is under way.
TypeOK ==
    /\ records \in Seq(Record)
    /\ call \in [Uploads -> Calls]
    /\ refresh \in {"listing", "listed", "done", "failed"}
    /\ duplicates \in [Uploads -> SUBSET FileId]
    /\ listing \in [Uploads \cup {"refresh"} -> SUBSET Record]
    /\ shown \subseteq LocalRow \cup ServerRow
    /\ mixed \in BOOLEAN /\ broken \in BOOLEAN
    /\ \A row \in shown : row.state = "uploading" => UnderWay(row.id[1])

Init ==
    /\ records = << >>
    /\ call = [u \in Uploads |-> "new"]
    /\ refresh = "listing"
    /\ duplicates = [u \in Uploads |-> {}]
    /\ listing = [c \in Uploads \cup {"refresh"} |-> {}]
    /\ shown = {}
    /\ mixed = FALSE /\ broken = FALSE

Ids(u) == {<<u, i>> : i \in DOMAIN FilesIn[u]}
Local(id, state) == [id |-> id, kind |-> "local", state |-> state]
LocalIds(u) == {row \in shown : row.kind = "local" /\ row.id \in Ids(u)}

Busy == refresh \in {"listing", "listed"} \/ \E u \in Uploads : UnderWay(u)

-----------------------------------------------------------------------------
(* The server, as the page sees it.                                        *)

Owned(c, done) == \E i \in DOMAIN done : done[i].content = c /\ done[i].state = "registered"

\* One file after the other: a record, or a duplicate of a registered one.
Take(u, done, i) ==
    LET c == FilesIn[u][i]
        entry(state) == [id |-> <<u, i>>, content |-> c, state |-> state]
    IN CASE c \in Refused -> Append(done, entry("failed"))
         [] c \notin Refused /\ Owned(c, done) -> done
         [] OTHER -> Append(done, entry("registered"))

Taken(u) ==
    LET after[i \in Nat] == IF i = 0 THEN records ELSE Take(u, after[i - 1], i)
    IN  after[Len(FilesIn[u])]

RecordedIds(list) == {list[i].id : i \in DOMAIN list}

\* The newest PageSize records.
FirstPage ==
    {records[i] : i \in {j \in DOMAIN records : j > Len(records) - PageSize}}

\* The server goes on when the page has given up.
Intake(u) ==
    /\ call[u] \in {"posting", "lost"}
    /\ records' = Taken(u)
    /\ duplicates' = [duplicates EXCEPT ![u] = Ids(u) \ RecordedIds(records')]
    /\ call' = [call EXCEPT ![u] = IF @ = "lost" THEN "failed" ELSE "posted"]
    /\ UNCHANGED <<refresh, listing, shown, mixed, broken>>

List(u) ==
    /\ call[u] = "listing"
    /\ listing' = [listing EXCEPT ![u] = FirstPage]
    /\ call' = [call EXCEPT ![u] = "listed"]
    /\ UNCHANGED <<records, refresh, duplicates, shown, mixed, broken>>

ListForRefresh ==
    /\ refresh = "listing"
    /\ listing' = [listing EXCEPT !["refresh"] = FirstPage]
    /\ refresh' = "listed"
    /\ UNCHANGED <<records, call, duplicates, shown, mixed, broken>>

-----------------------------------------------------------------------------
(* The page.                                                               *)

ToViewFile(record, kind) == [id |-> record.id, kind |-> kind, state |-> record.state]
DuplicateRow(id) == [id |-> id, kind |-> "duplicate", state |-> "registered"]

\* addFiles begins: its rows are put in front and the upload is sent.
AddFiles(u) ==
    /\ call[u] = "new"
    /\ shown' = shown \cup {Local(id, "uploading") : id \in Ids(u)}
    /\ call' = [call EXCEPT ![u] = "posting"]
    /\ mixed' = (mixed \/ Busy)
    /\ UNCHANGED <<records, refresh, duplicates, listing, broken>>

\* Mutant: the list is asked for beside the upload, not after it.
UploadedWithList(u) ==
    /\ call[u] = "posting"
    /\ listing' = [listing EXCEPT ![u] = FirstPage]
    /\ records' = Taken(u)
    /\ duplicates' = [duplicates EXCEPT ![u] = Ids(u) \ RecordedIds(records')]
    /\ call' = [call EXCEPT ![u] = "listed"]
    /\ UNCHANGED <<refresh, shown, mixed, broken>>

\* uploadFiles has its answer; the list is asked for.
Uploaded(u) ==
    /\ call[u] = "posted"
    /\ call' = [call EXCEPT ![u] = "listing"]
    /\ UNCHANGED <<records, refresh, duplicates, listing, shown, mixed, broken>>

\* Mutant: the rows of the answer are added to those on the page.
ListAdded(u) ==
    /\ call[u] = "listed"
    /\ shown' = shown \cup {DuplicateRow(id) : id \in duplicates[u]}
                      \cup {ToViewFile(r, "record") : r \in listing[u]}
    /\ call' = [call EXCEPT ![u] = "done"]
    /\ UNCHANGED <<records, refresh, duplicates, listing, mixed, broken>>

\* The list is here: it replaces whatever the page shows by now.
Listed(u) ==
    /\ call[u] = "listed"
    /\ shown' = {DuplicateRow(id) : id \in duplicates[u]}
                    \cup {ToViewFile(r, "record") : r \in listing[u]}
    /\ call' = [call EXCEPT ![u] = "done"]
    /\ UNCHANGED <<records, refresh, duplicates, listing, mixed, broken>>

\* Mutant: a failing list is not caught.
FailedPosting(u) ==
    /\ UnderWay(u)
    /\ shown' = IF call[u] \in {"posting", "posted"}
                  THEN (shown \ LocalIds(u)) \cup {Local(row.id, "failed") : row \in LocalIds(u)}
                  ELSE shown
    /\ call' = [call EXCEPT ![u] = "failed"]
    /\ broken' = TRUE
    /\ UNCHANGED <<records, refresh, duplicates, listing, mixed>>

\* Either fetch fails, before or after the server did its part: the rows of this upload that are
\* still there are marked as failed.
Failed(u) ==
    /\ UnderWay(u)
    /\ shown' = (shown \ LocalIds(u)) \cup {Local(row.id, "failed") : row \in LocalIds(u)}
    /\ call' = [call EXCEPT ![u] = IF @ = "posting" THEN "lost" ELSE "failed"]
    /\ broken' = TRUE
    /\ UNCHANGED <<records, refresh, duplicates, listing, mixed>>

\* The initial refresh arrives, or fails and empties the page.
Refreshed ==
    /\ \/ /\ refresh = "listed" /\ refresh' = "done"
          /\ shown' = {ToViewFile(r, "record") : r \in listing["refresh"]}
          /\ UNCHANGED broken
       \/ /\ refresh \in {"listing", "listed"} /\ refresh' = "failed"
          /\ shown' = {} /\ broken' = TRUE
    /\ UNCHANGED <<records, call, duplicates, listing, mixed>>

\* Reset: rows of duplicates are taken off the page.
ResetDuplicates ==
    /\ \E row \in shown : row.kind = "duplicate"
    /\ shown' = {row \in shown : row.kind # "duplicate"}
    /\ UNCHANGED <<records, call, refresh, duplicates, listing, mixed, broken>>

Idle == ~ Busy /\ (\A u \in Uploads : call[u] # "new") /\ UNCHANGED vars

Step(u) == Intake(u) \/ Uploaded(u) \/ List(u) \/ Listed(u) \/ Failed(u)

Next ==
    \/ \E u \in Uploads : AddFiles(u) \/ Step(u)
    \/ ListForRefresh \/ Refreshed \/ ResetDuplicates \/ Idle

\* A fetch that was sent is answered or fails in the end.
Spec == Init /\ [][Next]_vars /\ (\A u \in Uploads : WF_vars(Step(u))) /\ WF_vars(ListForRefresh \/ Refreshed)

-----------------------------------------------------------------------------
(* Properties.                                                             *)

\* When an upload's answer reaches the page, the page shows every file of it: as a record, unless
\* newer ones fill the first page, or as a duplicate (addFiles lists after it uploaded).
AnswerShowsUpload ==
    [][\A u \in Uploads : call[u] = "listed" /\ call'[u] = "done" =>
         \A id \in Ids(u) :
             \/ \E row \in shown' : row.id = id /\ row.kind # "local"
             \/ Cardinality(listing[u]) = PageSize]_vars

\* A page whose calls never overlapped nor failed shows, at rest, the server's newest records
\* and of other rows only duplicates.
SequentialUseAgrees ==
    ~ mixed /\ ~ broken /\ ~ Busy =>
        {row \in shown : row.kind # "duplicate"} = {ToViewFile(r, "record") : r \in FirstPage}

\* No row stays "uploading": its upload's answer replaces it or its failure marks it, also when
\* other answers arrive in between.
UploadingEnds ==
    \A u \in Uploads :
        (\E row \in shown : row.id \in Ids(u) /\ row.state = "uploading")
            ~> ~ \E row \in shown : row.id \in Ids(u) /\ row.state = "uploading"

\* Doc: "重复上传项只保留在当前前端状态中 ... “Reset 去重”由前端直接移除这些临时项" (duplicates are kept in
\* the page's state only, and Reset removes them): a duplicate on the page leaves it by Reset.
DuplicatesStayUntilReset ==
    [][\A row \in shown : row.kind = "duplicate" => row \in shown' \/ ResetDuplicates]_vars

-----------------------------------------------------------------------------
(* Why TypeOK, SequentialUseAgrees and AnswerShowsUpload hold: an          *)
(* invariant that every step preserves.                                    *)

\* A record comes from an upload that the server took, and there is one of an id.
RecordsInv ==
    /\ \A i, j \in DOMAIN records : records[i].id = records[j].id => i = j
    /\ \A i \in DOMAIN records : call[records[i].id[1]] \notin {"new", "posting", "lost"}

\* The rows an upload put on the page are of its files.
LocalRowsInv == \A row \in shown : row.kind = "local" => row.id \in Ids(row.id[1])

\* Once the server took an upload, each file of it has a record or is a duplicate; in the list
\* that was asked for then, the record is there or the page is full.
AnsweredAt(u) ==
    /\ call[u] \in {"posted", "listing"} => Ids(u) \subseteq duplicates[u] \cup RecordedIds(records)
    /\ call[u] = "listed" => \A id \in Ids(u) :
         \/ id \in duplicates[u] \/ \E r \in listing[u] : r.id = id
         \/ Cardinality(listing[u]) = PageSize

\* As long as nothing overlapped or failed, at most one call is under way, and a list that is
\* there but not yet shown is still the server's.
SequentialInv ==
    ~ mixed /\ ~ broken =>
        /\ refresh # "failed" /\ \A u \in Uploads : call[u] \notin {"lost", "failed"}
        /\ refresh # "done" => \A u \in Uploads : call[u] = "new"
        /\ \A u, v \in Uploads : UnderWay(u) /\ UnderWay(v) => u = v
        /\ \A u \in Uploads : call[u] = "listed" => listing[u] = FirstPage
        /\ refresh = "listed" => listing["refresh"] = FirstPage

PageInv ==
    /\ TypeOK /\ RecordsInv /\ LocalRowsInv
    /\ \A u \in Uploads : AnsweredAt(u)
    /\ SequentialInv /\ SequentialUseAgrees

=============================================================================
