----------------------------- MODULE Migrations -----------------------------
(***************************************************************************)
(* The schema migrations the File Router backend runs at start-up, from a  *)
(* database of revision 0002, in which one content may have many records,  *)
(* to revision 0005, in which it has one.                                  *)
(*                                                                         *)
(* Alembic commits after every revision.  pysqlite opens a transaction at  *)
(* the first INSERT, UPDATE or DELETE, so a DDL statement before that is   *)
(* durable at once; a kill can come between any two statements.            *)
(***************************************************************************)
EXTENDS Integers, FiniteSets

CONSTANTS
    OldFiles,      \* rows of file_records that earlier versions can have written
    OldBatches,    \* the batch ids of ingest_batches at revision 0002
    None,
    MaxKills       \* bound: start-ups killed half-way

VARIABLES
    old,           \* the rows of file_records at revision 0002
    db,            \* what is committed
    draft,         \* what the connection of the running start-up sees
    open,          \* it is in a transaction
    at,            \* where the start-up is
    groups,        \* the duplicated contents 0003 has still to clean
    kills

vars == <<old, db, draft, open, at, groups, kills>>

Old == [revision |-> 2, files |-> old, batches |-> OldBatches,
        columns |-> {"hidden"}, unique |-> FALSE]

\* A record that is a duplicate refers to a record of the same content.
Consistent(rows) ==
    \A f \in rows : f.duplicateOf # None =>
        \E g \in rows : g.id = f.duplicateOf /\ g.content = f.content

Init ==
    /\ old \in {rows \in SUBSET OldFiles : Consistent(rows)}
    /\ db = Old /\ draft = Old /\ open = FALSE
    /\ at = "down" /\ groups = {} /\ kills = 0

-----------------------------------------------------------------------------
(* Statements.                                                             *)

\* Mutant: a DDL statement commits the transaction it is in, as pysqlite did before Python 3.6.
DdlCommits(d) == draft' = d /\ db' = d /\ open' = FALSE

\* A DDL statement: durable at once outside a transaction.
Ddl(d) == draft' = d /\ db' = (IF open THEN db ELSE d) /\ UNCHANGED open

\* An UPDATE or DELETE: opens a transaction.
Dml(d) == draft' = d /\ open' = TRUE /\ UNCHANGED db

Raise == at' = "failed" /\ UNCHANGED <<db, draft, open>>
Go(label) == at' = label

\* Where the upgrade from a revision starts.
FirstStep(revision) ==
    CASE revision = 2 -> "add" [] revision = 3 -> "dropHidden" [] revision = 4 -> "batches"
      [] revision = 5 -> "up"

Older(f, g) == f.time < g.time \/ (f.time = g.time /\ f.id < g.id)

Group(d, c) == {f \in d.files : f.content = c}

DuplicatedContents(d) == {f.content : f \in {g \in d.files : g.content # None
                                                    /\ Cardinality(Group(d, g.content)) > 1}}

\* Mutant: the newest record of a group is kept.
CanonicalNewest(group) == CHOOSE f \in group : \A g \in group \ {f} : Older(g, f)

Canonical(group) == CHOOSE f \in group : \A g \in group \ {f} : Older(f, g)

-----------------------------------------------------------------------------
(* The revisions.                                                          *)

Start ==
    /\ at \in {"down", "failed"}
    /\ draft' = db /\ open' = FALSE
    /\ Go(FirstStep(db.revision))
    /\ UNCHANGED <<old, db, groups, kills>>

\* 0003 adds its column and fetches the contents that have several records.
AddDetectedColumn ==
    /\ at = "add"
    /\ IF "detected" \in draft.columns
         THEN Raise /\ UNCHANGED groups
         ELSE /\ Ddl([draft EXCEPT !.columns = @ \cup {"detected"}]) /\ Go("clean")
              /\ groups' = DuplicatedContents(draft)
    /\ UNCHANGED <<old, kills>>

\* 0003, one group of records that share their content.
CleanGroup ==
    /\ at = "clean"
    /\ \E c \in groups :
         LET group == Group(draft, c) IN
         /\ Dml([draft EXCEPT !.files = (@ \ group) \cup {[Canonical(group) EXCEPT !.duplicateOf = None]}])
         /\ groups' = groups \ {c}
    /\ UNCHANGED <<old, at, kills>>

GroupsCleaned ==
    /\ at = "clean" /\ groups = {}
    /\ Go("index") /\ UNCHANGED <<old, db, draft, open, groups, kills>>

CreateUniqueIndex ==
    /\ at = "index"
    /\ IF DuplicatedContents(draft) # {}
         THEN Raise
         ELSE Ddl([draft EXCEPT !.unique = TRUE]) /\ Go("version")
    /\ UNCHANGED <<old, groups, kills>>

\* Mutant: the same column is dropped twice.
DropDetectedTwice ==
    /\ \/ /\ at = "dropHidden"
          /\ Ddl([draft EXCEPT !.columns = @ \ {"detected"}]) /\ Go("dropDetected")
       \/ /\ at = "dropDetected"
          /\ IF "detected" \notin draft.columns THEN Raise ELSE Go("version") /\ UNCHANGED <<db, draft, open>>
    /\ UNCHANGED <<old, groups, kills>>

\* 0004.
DropColumns ==
    /\ \/ /\ at = "dropHidden"
          /\ IF "hidden" \notin draft.columns
               THEN Raise
               ELSE Ddl([draft EXCEPT !.columns = @ \ {"hidden"}]) /\ Go("dropDetected")
       \/ /\ at = "dropDetected"
          /\ IF "detected" \notin draft.columns
               THEN Raise
               ELSE Ddl([draft EXCEPT !.columns = @ \ {"detected"}]) /\ Go("version")
    /\ UNCHANGED <<old, groups, kills>>

EmptyBatches(d) == {b \in d.batches : ~ \E f \in d.files : f.batch = b}

\* 0005.
DeleteEmptyBatches ==
    /\ at = "batches"
    /\ Dml([draft EXCEPT !.batches = @ \ EmptyBatches(draft)])
    /\ Go("version") /\ UNCHANGED <<old, groups, kills>>

\* Mutant: the revision is on record before its rows are.
VersionFirst ==
    /\ at = "version"
    /\ draft' = [draft EXCEPT !.revision = @ + 1]
    /\ db' = [db EXCEPT !.revision = @ + 1, !.columns = draft.columns]
    /\ Go(FirstStep(draft'.revision))
    /\ UNCHANGED <<old, open, groups, kills>>

\* Alembic records the revision and commits what it did.
RecordRevision ==
    /\ at = "version"
    /\ draft' = [draft EXCEPT !.revision = @ + 1]
    /\ db' = draft' /\ open' = FALSE
    /\ Go(FirstStep(draft'.revision))
    /\ UNCHANGED <<old, groups, kills>>

\* The process is killed: an open transaction is rolled back.
Kill ==
    /\ at \notin {"down", "up", "failed"} /\ kills < MaxKills
    /\ kills' = kills + 1
    /\ draft' = db /\ open' = FALSE /\ groups' = {} /\ Go("down")
    /\ UNCHANGED <<old, db>>

\* A server that is up stays up; one that failed may be left alone.
Rest == at \in {"up", "failed"} /\ UNCHANGED vars

Next ==
    \/ Start \/ AddDetectedColumn \/ CleanGroup \/ GroupsCleaned \/ CreateUniqueIndex
    \/ DropColumns \/ DeleteEmptyBatches \/ RecordRevision \/ Kill \/ Rest

Spec == Init /\ [][Next]_vars

-----------------------------------------------------------------------------
(* Properties.                                                             *)

\* No revision and no kill loses what was taken in first: of every content the oldest record
\* stays, with its batch, and so does every record of a failed upload (0003's ordering by
\* created_at and file_id, 0005's NOT EXISTS).
FirstRecordKept ==
    /\ \A f \in old : f.content = None => f \in db.files
    /\ \A c \in {f.content : f \in old} \ {None} :
         \E kept \in db.files :
             kept.content = c /\ \A f \in old : f.content = c /\ f.id # kept.id => Older(kept, f)
    /\ \A f \in db.files : f.batch \in db.batches

\* A server that is up has the database its code expects: one record per content under the
\* unique index, no empty batch, no record that refers to a deleted one.
HeadIsCurrent ==
    at = "up" =>
        /\ db.revision = 5 /\ db.unique /\ db.columns = {}
        /\ DuplicatedContents(db) = {} /\ EmptyBatches(db) = {}
        /\ \A f \in db.files : f.duplicateOf # None => \E g \in db.files : g.id = f.duplicateOf

\* The upgrade fails only where a kill has separated a column from the revision that adds or
\* drops it: rows are in a transaction, columns are not.
FailureIsCutDdl ==
    at = "failed" =>
        /\ kills > 0
        /\ db.columns # (IF db.revision = 2 THEN {"hidden"} ELSE {"hidden", "detected"})

\* What is committed under a revision is exactly what the revisions up to it make of the old rows,
\* whatever start-ups were killed: never a part of what one does to the rows, and nothing else
\* (0003 to 0005 and Alembic's commit per revision).
RevisionsWhole ==
    LET sharing(f) == {g \in old \ {f} : g.content = f.content /\ f.content # None}
        first == {f \in old : \A g \in sharing(f) : Older(f, g)}
        cleaned == {IF sharing(f) = {} THEN f ELSE [f EXCEPT !.duplicateOf = None] : f \in first}
    IN /\ db.files = IF db.revision = 2 THEN old ELSE cleaned
       /\ db.batches = IF db.revision < 5 THEN OldBatches ELSE {f.batch : f \in cleaned}

-----------------------------------------------------------------------------
(* Why these hold.                                                         *)

FileRow ==
    [id : {f.id : f \in OldFiles}, batch : OldBatches, content : {f.content : f \in OldFiles},
     time : {f.time : f \in OldFiles}, duplicateOf : {f.duplicateOf : f \in OldFiles} \cup {None}]

Database ==
    [revision : 2..5, files : SUBSET FileRow, batches : SUBSET OldBatches,
     columns : SUBSET {"hidden", "detected"}, unique : BOOLEAN]

Labels == {"down", "failed", "add", "clean", "index", "dropHidden", "dropDetected", "batches", "version", "up"}

TypeOK ==
    /\ old \subseteq OldFiles
    /\ db \in Database /\ draft \in Database /\ IsFiniteSet(db.files) /\ IsFiniteSet(draft.files)
    /\ open \in BOOLEAN /\ at \in Labels /\ kills \in Nat

\* What 0003 leaves of the records of a content.
Kept(c) == [Canonical(Group(Old, c)) EXCEPT !.duplicateOf = None]

\* A content has the records it had, or 0003 has left it one of several.
GroupsKept(d) ==
    /\ \A f \in old :
         \/ Group(d, f.content) = Group(Old, f.content)
         \/ /\ f.content # None /\ Cardinality(Group(Old, f.content)) > 1
            /\ Group(d, f.content) = {Kept(f.content)}
    /\ \A f \in d.files : /\ f.batch \in d.batches
                          /\ \E g \in old : g.id = f.id /\ g.content = f.content

OnePerContent(d) == \A f, g \in d.files : f.content = g.content /\ f.content # None => f = g

\* What a transaction has not committed is rows and the index: columns and revisions are durable.
OpenInv ==
    /\ ~open => db = draft
    /\ open => at \in {"clean", "index", "version"}
    /\ db.revision = draft.revision /\ db.columns = draft.columns

\* Where the start-up is tells the revision it came from ...
RevisionInv ==
    /\ at \in {"add", "clean", "index"} => db.revision = 2
    /\ at \in {"dropHidden", "dropDetected"} => db.revision = 3
    /\ at = "batches" => db.revision = 4
    /\ at = "up" <=> db.revision = 5
    /\ at = "failed" => db.revision \in {2, 3}

\* ... and the columns there are, but for those of a revision that was cut.
ColumnsInv ==
    /\ db.revision = 2 => /\ "hidden" \in db.columns
                          /\ at \in {"clean", "index", "version"} => "detected" \in db.columns
                          /\ at = "failed" => "detected" \in db.columns
    /\ db.revision = 3 => /\ "hidden" \in db.columns => "detected" \in db.columns
                          /\ at = "dropDetected" => db.columns = {"detected"}
                          /\ at = "version" => db.columns = {}
                          /\ at = "failed" => "hidden" \notin db.columns
    /\ db.revision >= 4 => db.columns = {}
    /\ kills = 0 => /\ at # "failed"
                    /\ at \in {"down", "add"} => db.revision = 2 /\ db.columns = {"hidden"}
                    /\ at = "dropHidden" => db.columns = {"hidden", "detected"}

\* A revision is on record only after its rows are as it wants them.
RowsInv ==
    /\ at = "index" => OnePerContent(draft)
    /\ at = "version" => OnePerContent(draft) /\ draft.unique
    /\ db.revision >= 3 => OnePerContent(db) /\ db.unique /\ OnePerContent(draft) /\ draft.unique
    /\ at = "version" /\ db.revision = 4 => EmptyBatches(draft) = {}
    /\ at = "up" => EmptyBatches(db) = {}

\* What 0003 has still to clean is what is still duplicated.
GroupsInv ==
    /\ at = "clean" => groups = DuplicatedContents(draft)
    /\ at # "clean" => groups = {}

\* Rows are committed with their revision: files with 0003, batches with 0005.
CommitInv ==
    /\ db.revision = 2 => db.files = old
    /\ db.revision <= 3 => draft.batches = OldBatches
    /\ db.revision <= 4 => db.batches = OldBatches

UpgradeInv ==
    /\ TypeOK /\ Consistent(old)
    /\ GroupsKept(db) /\ GroupsKept(draft)
    /\ OpenInv /\ RevisionInv /\ ColumnsInv /\ RowsInv /\ GroupsInv /\ CommitInv

=============================================================================
