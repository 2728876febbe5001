---------------------------- MODULE JsonlStorage ----------------------------
(***************************************************************************)
(* JsonlStorage of pi-durable: a commit is a line in main.jsonl that       *)
(* refers to records in one sidecar file per live task and per document.   *)
(* The records are appended first, the line last; opening the directory    *)
(* reads the lines back, cuts off what no line refers to, and refuses the  *)
(* directory as corrupt when a line refers to a record that is not there.  *)
(*                                                                         *)
(* One owner at a time uses the directory and commits one after the other  *)
(* (README.md:28).  The process can die between any two file operations    *)
(* and within an append, a file operation can fail having done all, part   *)
(* or none of its work, and, when every opening asks for fsync, the        *)
(* machine can fail too.                                                   *)
(***************************************************************************)
EXTENDS Integers, Sequences

CONSTANTS
    Entries, Tasks, Docs,  \* ids of the records, tasks and documents
    Values,                \* contents
    Commits,               \* the lists of writes the owner may commit
    MaxCommits,            \* bound on the lines of main.jsonl
    MaxFaults,             \* bound on failing file operations
    MaxCrashes,            \* bound on crashes and power failures
    Main, None

\* A sidecar belongs to one task or one document; its id names it.
Files == Tasks \cup Docs

Write ==
    [type : {"entry"}, id : Entries, value : Values]
    \cup [type : {"task", "terminal"}, id : Tasks, value : Values]
    \cup [type : {"create", "change"}, id : Docs, value : Values]
    \cup [type : {"retire"}, id : Docs, value : {None}]

ASSUME IdsAssumption ==
    /\ Entries \cap Files = {} /\ Tasks \cap Docs = {}
    /\ Main \notin Files
    /\ None \notin Values
ASSUME CommitsAssumption == Commits \subseteq Seq(Write)
ASSUME BoundsAssumption == MaxCommits \in Nat /\ MaxFaults \in Nat /\ MaxCrashes \in Nat

VARIABLES
    main,      \* the complete lines of main.jsonl
    side,      \* the complete records of each sidecar
    torn,      \* the files that end in an incomplete line
    kept,      \* how many records of each sidecar a power failure cannot take
    fsync,     \* the option every opening of the directory uses
    phase,     \* where the owner is: see TypeOK
    todo,      \* the sidecars the running loop has not come to
    pending,   \* the commit being written
    written,   \* the positions in it whose records are on file
    memory,    \* MemoryStorage: the commits applied; its tables are a fold of them
    committed, \* ghost: the commits whose line was appended and not lost since
    faults, crashes

disk == <<main, side, torn, kept>>
budget == <<faults, crashes>>
vars == <<disk, fsync, phase, todo, pending, written, memory, committed, budget>>

Record == [seq : Nat, ordinal : Nat, value : Values]
Reference == [type : {"task", "create", "change"}, id : Files, ordinal : Nat]
Marker == [seq : Nat, writes : Seq(Reference \cup Write)]
Commit == [seq : Nat, writes : Commits]

TypeOK ==
    /\ main \in Seq(Marker)
    /\ side \in [Files -> Seq(Record)]
    /\ torn \subseteq Files \cup {Main}
    /\ kept \in [Files -> Nat]
    /\ fsync \in BOOLEAN
    /\ phase \in {"closed", "reading", "trimming", "open", "appending", "applying", "poisoned", "corrupt"}
    /\ todo \subseteq Files
    /\ pending \in Commit \cup {None}
    /\ written \subseteq Nat
    /\ memory \in Seq(Commit) /\ committed \in Seq(Commit)
    /\ faults \in 0..MaxFaults /\ crashes \in 0..MaxCrashes

Init ==
    /\ main = <<>> /\ side = [f \in Files |-> <<>>] /\ torn = {} /\ kept = [f \in Files |-> 0]
    /\ fsync \in BOOLEAN
    /\ phase = "closed" /\ todo = {} /\ pending = None /\ written = {} /\ memory = <<>>
    /\ committed = <<>>
    /\ faults = 0 /\ crashes = 0

-----------------------------------------------------------------------------
(* MemoryStorage: which commits it accepts after those it holds.           *)

Has(log, type, id) ==
    \E k \in DOMAIN log : \E i \in DOMAIN log[k].writes :
        log[k].writes[i].type = type /\ log[k].writes[i].id = id

IsContent(w) == w.type \in {"create", "change"}

\* prepareCommit: checkGlobalIds, prepareDocumentActions and checkDocumentActions.
Admissible(log, ws) ==
    /\ \A i, j \in DOMAIN ws :
         i # j /\ ws[i].id = ws[j].id =>
             /\ ws[i].type # "entry"
             /\ ~(IsContent(ws[i]) /\ IsContent(ws[j]))
             /\ ~(ws[i].type = "retire" /\ ws[j].type = "retire")
    /\ \A i \in DOMAIN ws :
         /\ ws[i].type \in {"entry", "create"} => ~Has(log, ws[i].type, ws[i].id)
         /\ ws[i].type \in {"change", "retire"} =>
              /\ ~Has(log, "retire", ws[i].id)
              /\ \/ Has(log, "create", ws[i].id)
                 \/ \E j \in DOMAIN ws : ws[j].type = "create" /\ ws[j].id = ws[i].id

NextSeq(log) == IF log = <<>> THEN 1 ELSE log[Len(log)].seq + 1

-----------------------------------------------------------------------------
(* How a commit is laid out.                                               *)

\* Live tasks and document contents go to sidecars, all else stays in the line.
IsSide(w) == w.type \in {"task", "create", "change"}

\* encodeCommit, the line: a sidecar write leaves a reference.  The ordinal of a record is the
\* number of sidecar writes before it; its position in the commit orders the records alike.
MarkerOf(commit) ==
    [seq |-> commit.seq,
     writes |-> [i \in DOMAIN commit.writes |->
         LET w == commit.writes[i]
         IN  IF IsSide(w) THEN [type |-> w.type, id |-> w.id, ordinal |-> i] ELSE w]]

SideWrites(ws) == {i \in DOMAIN ws : IsSide(ws[i])}
SideFiles(ws) == {ws[i].id : i \in SideWrites(ws)}

\* Sidecars are written in the order in which the commit first mentions them, each whole.
Mentions(ws, f) == {i \in SideWrites(ws) : ws[i].id = f}
MentionedBefore(ws, f, g) == \E i \in Mentions(ws, f) : \A j \in Mentions(ws, g) : i < j
Precedes(ws, i, j) ==
    IF ws[i].id = ws[j].id THEN i < j ELSE MentionedBefore(ws, ws[i].id, ws[j].id)

Unwritten == SideWrites(pending.writes) \ written
IsNext(i) == i \in Unwritten /\ \A j \in Unwritten \ {i} : Precedes(pending.writes, i, j)

\* A line appended to an incomplete one makes a line that cannot be parsed.
Malformed == [seq |-> 0, ordinal |-> 0, value |-> None]
RecordLine(f, record) == IF f \in torn THEN Malformed ELSE record
MarkerLine(marker) == IF Main \in torn THEN [seq |-> 0, writes |-> <<>>] ELSE marker

\* The file the owner is appending to.
InFlight ==
    IF phase # "appending" THEN {}
    ELSE IF Unwritten # {} THEN {pending.writes[i].id : i \in {j \in Unwritten : IsNext(j)}}
    ELSE IF todo = {} THEN {Main} ELSE {}

-----------------------------------------------------------------------------
(* commit()                                                                *)

\* Rejected by prepareCommit, a commit leaves everything as it was.
Prepare(ws) ==
    /\ phase = "open" /\ Len(main) < MaxCommits
    /\ Admissible(memory, ws)
    /\ phase' = "appending"
    /\ pending' = [seq |-> NextSeq(memory), writes |-> ws]
    /\ written' = {}
    /\ todo' = IF fsync THEN SideFiles(ws) ELSE {}
    /\ UNCHANGED <<disk, fsync, memory, committed, budget>>

\* One record of one appendFile.
AppendRecord ==
    /\ phase = "appending"
    /\ \E i \in Unwritten :
         /\ IsNext(i)
         /\ LET w == pending.writes[i]
                record == [seq |-> pending.seq, ordinal |-> i, value |-> w.value]
            IN  /\ side' = [side EXCEPT ![w.id] = Append(@, RecordLine(w.id, record))]
                /\ torn' = torn \ {w.id}
         /\ written' = written \cup {i}
    /\ UNCHANGED <<main, kept, fsync, phase, todo, pending, memory, committed, budget>>

\* Mutant: the sidecar is taken off the list and not flushed.
SkipFlush(f) ==
    /\ phase = "appending" /\ Unwritten = {} /\ f \in todo
    /\ todo' = todo \ {f}
    /\ UNCHANGED <<disk, fsync, phase, pending, written, memory, committed, budget>>

Flush(f) ==
    /\ phase = "appending" /\ Unwritten = {}
    /\ f \in todo /\ \A g \in todo \ {f} : MentionedBefore(pending.writes, f, g)
    /\ kept' = [kept EXCEPT ![f] = Len(side[f])]
    /\ todo' = todo \ {f}
    /\ UNCHANGED <<main, side, torn, fsync, phase, pending, written, memory, committed, budget>>

\* Mutant: the line goes out before the sidecars are flushed.
AppendMarkerFirst ==
    /\ phase = "appending" /\ Unwritten = {}
    /\ main' = Append(main, MarkerLine(MarkerOf(pending))) /\ torn' = torn \ {Main}
    /\ committed' = Append(committed, pending)
    /\ phase' = "applying" /\ todo' = {}
    /\ UNCHANGED <<side, kept, fsync, pending, written, memory, budget>>

AppendMarker ==
    /\ phase = "appending" /\ Unwritten = {} /\ todo = {}
    /\ main' = Append(main, MarkerLine(MarkerOf(pending))) /\ torn' = torn \ {Main}
    /\ committed' = Append(committed, pending)
    /\ phase' = "applying"
    /\ UNCHANGED <<side, kept, fsync, todo, pending, written, memory, budget>>

\* The append of the line has returned: apply() and the answer to the caller.
Apply ==
    /\ phase = "applying"
    /\ memory' = Append(memory, pending)
    /\ phase' = "open" /\ pending' = None /\ written' = {}
    /\ UNCHANGED <<disk, fsync, todo, committed, budget>>

\* Mutant: a failed append is reported and the store stays usable.
FailAndGoOn ==
    /\ phase \in {"appending", "applying"} /\ faults < MaxFaults
    /\ torn' \in {torn, torn \cup InFlight}
    /\ phase' = "open" /\ todo' = {} /\ pending' = None /\ written' = {}
    /\ faults' = faults + 1
    /\ UNCHANGED <<main, side, kept, fsync, memory, committed, crashes>>

\* An append or a flush reports an error, whatever it has done: poison().
Fail ==
    /\ phase \in {"appending", "applying"} /\ faults < MaxFaults
    /\ torn' \in {torn, torn \cup InFlight}
    /\ phase' = "poisoned" /\ todo' = {} /\ pending' = None /\ written' = {}
    /\ faults' = faults + 1
    /\ UNCHANGED <<main, side, kept, fsync, memory, committed, crashes>>

-----------------------------------------------------------------------------
(* open(): recover().                                                      *)

Found(f, seq, ordinal) ==
    {p \in DOMAIN side[f] : side[f][p].seq = seq /\ side[f][p].ordinal = ordinal}

\* recordByKey keeps the last record of a key.
RecordValue(f, seq, ordinal) ==
    LET found == Found(f, seq, ordinal)
    IN  IF found = {} THEN None ELSE side[f][CHOOSE p \in found : \A q \in found : q <= p].value

Decoded(marker) ==
    [seq |-> marker.seq,
     writes |-> [i \in DOMAIN marker.writes |->
         LET op == marker.writes[i]
         IN  IF IsSide(op)
             THEN [type |-> op.type, id |-> op.id, value |-> RecordValue(op.id, marker.seq, op.ordinal)]
             ELSE op]]

\* The commits the two kinds of files hold together.
OnDisk == [k \in DOMAIN main |-> Decoded(main[k])]

Refers(marker, f, ordinal) ==
    \E i \in DOMAIN marker.writes :
        IsSide(marker.writes[i]) /\ marker.writes[i].id = f /\ marker.writes[i].ordinal = ordinal

Confirmed(f, record) == \E k \in DOMAIN main : main[k].seq = record.seq /\ Refers(main[k], f, record.ordinal)

MainInOrder == \A k \in DOMAIN main : main[k].seq >= 1 /\ (k > 1 => main[k - 1].seq < main[k].seq)

Before(r, s) == r.seq < s.seq \/ (r.seq = s.seq /\ r.ordinal < s.ordinal)
SideInOrder(f) ==
    \A p \in DOMAIN side[f] : side[f][p].seq >= 1 /\ (p > 1 => Before(side[f][p - 1], side[f][p]))

\* confirmRecord finds every record, none twice, and MemoryStorage accepts every commit again.
Replayable ==
    /\ \A k \in DOMAIN main : \A i, j \in DOMAIN main[k].writes :
         LET op == main[k].writes[i] other == main[k].writes[j]
         IN  /\ IsSide(op) => Found(op.id, main[k].seq, op.ordinal) # {}
             /\ i # j /\ IsSide(op) /\ IsSide(other) /\ op.id = other.id => op.ordinal # other.ordinal
    /\ \A k \in DOMAIN main : Admissible(SubSeq(OnDisk, 1, k - 1), OnDisk[k].writes)

\* readLines of main.jsonl: an incomplete last line is cut off, every other one is parsed.
ReadMain ==
    /\ phase = "closed"
    /\ torn' = torn \ {Main}
    /\ IF MainInOrder THEN phase' = "reading" /\ todo' = Files ELSE phase' = "corrupt" /\ todo' = {}
    /\ UNCHANGED <<main, side, kept, fsync, pending, written, memory, committed, budget>>

\* readLines of one sidecar after the other.
ReadSide(f) ==
    /\ phase = "reading" /\ f \in todo
    /\ torn' = torn \ {f}
    /\ IF SideInOrder(f) THEN todo' = todo \ {f} /\ phase' = phase ELSE todo' = {} /\ phase' = "corrupt"
    /\ UNCHANGED <<main, side, kept, fsync, pending, written, memory, committed, budget>>

Replay ==
    /\ phase = "reading" /\ todo = {}
    /\ IF Replayable
       THEN memory' = OnDisk /\ phase' = "trimming" /\ todo' = Files
       ELSE memory' = memory /\ phase' = "corrupt" /\ todo' = todo
    /\ UNCHANGED <<disk, fsync, pending, written, committed, budget>>

Unconfirmed(f) == {p \in DOMAIN side[f] : ~Confirmed(f, side[f][p])}
UnconfirmedIsTail(f) == \A p \in Unconfirmed(f), q \in DOMAIN side[f] : p < q => q \in Unconfirmed(f)

Least(a, b) == IF a <= b THEN a ELSE b

\* Mutant: the records no line refers to are left where they are.
LeaveTail(f) ==
    /\ phase = "trimming" /\ f \in todo
    /\ todo' = todo \ {f}
    /\ UNCHANGED <<disk, fsync, phase, pending, written, memory, committed, budget>>

\* truncateFile at the first record no line refers to.
Trim(f) ==
    /\ phase = "trimming" /\ f \in todo
    /\ IF UnconfirmedIsTail(f)
       THEN /\ \E n \in 0..Len(side[f]) :
                 /\ Unconfirmed(f) = (n + 1)..Len(side[f])
                 /\ side' = [side EXCEPT ![f] = SubSeq(@, 1, n)]
                 /\ kept' = [kept EXCEPT ![f] = Least(@, n)]
            /\ todo' = todo \ {f} /\ phase' = phase
       ELSE UNCHANGED <<side, kept>> /\ todo' = {} /\ phase' = "corrupt"
    /\ UNCHANGED <<main, torn, fsync, pending, written, memory, committed, budget>>

Opened ==
    /\ phase = "trimming" /\ todo = {}
    /\ phase' = "open"
    /\ UNCHANGED <<disk, fsync, todo, pending, written, memory, committed, budget>>

\* A file operation of recover() reports an error; opening can be tried again.
OpenFails ==
    /\ phase \in {"reading", "trimming"} /\ faults < MaxFaults
    /\ phase' = "closed" /\ todo' = {} /\ memory' = <<>>
    /\ faults' = faults + 1
    /\ UNCHANGED <<disk, fsync, pending, written, committed, crashes>>

Close ==
    /\ phase \in {"open", "poisoned"}
    /\ phase' = "closed" /\ memory' = <<>>
    /\ UNCHANGED <<disk, fsync, todo, pending, written, committed, budget>>

-----------------------------------------------------------------------------
(* Failures of the process and of the machine.                             *)

Stopped ==
    /\ crashes < MaxCrashes /\ crashes' = crashes + 1
    /\ phase' = "closed" /\ todo' = {} /\ pending' = None /\ written' = {} /\ memory' = <<>>
    /\ UNCHANGED <<fsync, faults>>

\* What was handed to the system stays; an append may have been cut short.
Crash ==
    /\ phase \notin {"closed", "corrupt"}
    /\ torn' \in {torn, torn \cup InFlight}
    /\ Stopped
    /\ UNCHANGED <<main, side, kept, committed>>

\* Every file keeps some of its lines, a flushed sidecar those it had then; what stays is safe.
PowerFailure ==
    /\ fsync /\ phase # "corrupt"
    /\ \E lines \in 0..Len(main), records \in [Files -> UNION {kept[f]..Len(side[f]) : f \in Files}] :
         /\ \A f \in Files : records[f] \in kept[f]..Len(side[f])
         /\ main' = SubSeq(main, 1, lines) /\ committed' = SubSeq(committed, 1, lines)
         /\ side' = [f \in Files |-> SubSeq(side[f], 1, records[f])]
         /\ kept' = records
         /\ torn' \in SUBSET (torn \cup InFlight
                \cup {f \in Files : records[f] < Len(side[f])}
                \cup (IF lines < Len(main) THEN {Main} ELSE {}))
    /\ Stopped

-----------------------------------------------------------------------------

Next ==
    \/ \E ws \in Commits : Prepare(ws)
    \/ AppendRecord \/ AppendMarker \/ Apply \/ Fail
    \/ ReadMain \/ Replay \/ Opened \/ OpenFails \/ Close
    \/ \E f \in Files : Flush(f) \/ ReadSide(f) \/ Trim(f)
    \/ Crash \/ PowerFailure

Spec == Init /\ [][Next]_vars

=============================================================================
