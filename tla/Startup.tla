------------------------------ MODULE Startup ------------------------------
(***************************************************************************)
(* A start-up of the File Router backend: the database is upgraded, then   *)
(* the server serves it, and a client walks through the list of its files  *)
(* while others upload.                                                    *)
(***************************************************************************)
EXTENDS Pagination

CONSTANTS OldFiles, OldBatches, MaxKills

VARIABLES old, db, draft, open, phase, groups, kills

databaseVars == <<old, db, draft, open, phase, groups, kills>>

Migrate == INSTANCE Migrations WITH at <- phase

\* file_id is the primary key of file_records, batch_id a foreign key to ingest_batches.
ASSUME OldFilesAssumption ==
    /\ IsFiniteSet(OldFiles) /\ OldFiles \subseteq Migrate!FileRow
    /\ \A f \in OldFiles : [id |-> f.id, time |-> f.time] \in Row
    /\ \A f, g \in OldFiles : f.id = g.id => f = g

InitStartup == Migrate!Init /\ Init /\ \A f \in OldFiles : f.time <= now

\* upgrade_database has returned: the application begins to serve what it finds.
Serve == rows' = {[id |-> f.id, time |-> f.time] : f \in db'.files}

UpgradeStep ==
    /\ Migrate!Next /\ phase # "up"
    /\ IF phase' = "up"
         THEN Serve /\ UNCHANGED <<coming, now, at, cursor, given, start, twice>>
         ELSE UNCHANGED vars

\* Ids of files are uuids: a new row never has the id of an old one.
ServeStep ==
    /\ phase = "up" /\ Next /\ UNCHANGED databaseVars
    /\ \A r \in coming', f \in OldFiles : r.id # f.id

NextStartup == UpgradeStep \/ ServeStep

SpecStartup == InitStartup /\ [][NextStartup]_<<vars, databaseVars>>

-----------------------------------------------------------------------------
(* Properties.                                                             *)

\* The oldest record of a content and the records of failed uploads survive every upgrade (0003).
FirstRecordKept == Migrate!FirstRecordKept

\* A server that serves has the schema and rows its code expects (0003 to 0005).
HeadIsCurrent == Migrate!HeadIsCurrent

\* An upgrade raises only where a kill cut a revision behind one of its DDL statements.
FailureIsCutDdl == Migrate!FailureIsCutDdl

\* What is committed under a revision is what it makes of the old rows, wholly (0003 to 0005).
RevisionsWhole == Migrate!RevisionsWhole

\* After an upgrade the list shows each old content under one record only, and shows it in full
\* (0003 against list_files; section 7 of the README has the document that asks for both records).
OldContentsOnce ==
    phase = "up" /\ at = "end" =>
        \A c \in {f.content : f \in old} \ {None} :
            Cardinality({r \in given : \E f \in old : f.content = c /\ f.id = r.id}) = 1

-----------------------------------------------------------------------------
(* Why OldContentsOnce and, for a server that has just come up, NothingTwice and NothingSkipped hold. *)

IsOldId(id) == \E f \in OldFiles : f.id = id

RowOf(f) == [id |-> f.id, time |-> f.time]

\* Nothing is listed before the server is up; then every record of the upgraded database is, and
\* no other row has an id of one that was there before.
ListInv ==
    /\ phase # "up" => rows = {} /\ coming = {} /\ at = "first"
    /\ phase = "up" =>
        /\ \A f \in db.files : RowOf(f) \in rows /\ (at # "first" => RowOf(f) \in start)
        /\ \A r \in rows : IsOldId(r.id) => \E f \in db.files : r = RowOf(f)
        /\ \A r \in coming : ~ IsOldId(r.id)

StartupInv == Migrate!UpgradeInv /\ WalkInv /\ ListInv

=============================================================================
