-------------------------- MODULE JsonlProperties ---------------------------
(***************************************************************************)
(* What the JSONL storage promises: opening never fails for what a crash   *)
(* left behind, it finds what was committed, and the directory is then     *)
(* clean again.                                                            *)
(***************************************************************************)
EXTENDS JsonlStorage

\* No crash, failed operation or power failure leaves a directory that recover() refuses as
\* corrupt: a line of main.jsonl never overtakes its records, and a reused sequence number never
\* meets the records of the commit that had it before.
NeverCorrupt == phase # "corrupt"

\* At any moment the two kinds of files together hold the commits whose line was appended, each
\* whole and with the contents it was given: what is cut off, left over or written again by
\* recover() and by commits with the same number never shows through.
FilesHoldCommits == OnDisk = committed

\* While the store is open, reads answer from what an opening would find, no file ends in an
\* incomplete line, and no sidecar holds a record that no commit refers to.
OpenIsClean ==
    phase = "open" =>
        /\ memory = committed
        /\ torn = {}
        /\ \A f \in Files : Unconfirmed(f) = {}

Usable == phase \in {"open", "appending", "applying"}

Store == INSTANCE DurableStore WITH
    readable <- Usable,
    view <- IF Usable THEN memory ELSE <<>>,
    mayLose <- fsync

\* The storage implements DurableStore: a commit takes effect with its line, is read only when
\* the line is written, and is there as a whole, or not at all, at the next opening.
StoreSpec == Store!Spec

-----------------------------------------------------------------------------
(* The inductive invariant behind them, in two parts: what is true of the  *)
(* files whatever the owner does, and what its phases add to that.         *)

\* Line k is the line of commit k.
LinesMatch ==
    /\ Len(main) = Len(committed)
    /\ \A k \in 1..Len(main) : main[k] = MarkerOf(committed[k]) /\ committed[k].seq = k

\* Every commit was admissible after those before it.
History == \A k \in 1..Len(committed) : Admissible(SubSeq(committed, 1, k - 1), committed[k].writes)

Sorted ==
    \A f \in Files : \A p, q \in 1..Len(side[f]) : p < q => Before(side[f][p], side[f][q])

\* Every record a line refers to is on file, with the content of its commit.
Present ==
    \A k \in 1..Len(committed) : \A i \in SideWrites(committed[k].writes) :
        LET w == committed[k].writes[i]
        IN  \E p \in 1..Len(side[w.id]) : side[w.id][p] = [seq |-> k, ordinal |-> i, value |-> w.value]

\* A record whose number is that of a line is one the line refers to.
Known ==
    \A f \in Files : \A p \in 1..Len(side[f]) :
        /\ side[f][p].seq >= 1
        /\ side[f][p].seq <= Len(committed) =>
             side[f][p].ordinal \in Mentions(committed[side[f][p].seq].writes, f)

\* What a line refers to is safe from a power failure.
Safe ==
    /\ \A f \in Files : kept[f] <= Len(side[f])
    /\ fsync => \A f \in Files : \A p \in 1..Len(side[f]) :
         side[f][p].seq <= Len(committed) => p <= kept[f]

DiskInv == LinesMatch /\ History /\ Sorted /\ Present /\ Known /\ Safe

NoTail(f) == \A p \in 1..Len(side[f]) : side[f][p].seq <= Len(committed)

\* The commit being written: its records are the only ones beyond the last line.
Writing ==
    /\ pending \in Commit /\ pending.seq = Len(committed) + 1
    /\ Admissible(committed, pending.writes)
    /\ written \subseteq SideWrites(pending.writes)
    /\ \A f \in Files : \A p \in 1..Len(side[f]) :
         side[f][p].seq > Len(committed) =>
             /\ side[f][p].seq = pending.seq
             /\ side[f][p].ordinal \in written \cap Mentions(pending.writes, f)
    /\ \A i \in written :
         LET w == pending.writes[i]
         IN  \E p \in 1..Len(side[w.id]) :
                 side[w.id][p] = [seq |-> pending.seq, ordinal |-> i, value |-> w.value]
    /\ \A i \in Unwritten, j \in written : pending.writes[i].id = pending.writes[j].id => j < i
    /\ Unwritten # {} /\ fsync => SideFiles(pending.writes) \subseteq todo
    /\ fsync => \A f \in SideFiles(pending.writes) \ todo : kept[f] = Len(side[f])

PhaseInv ==
    /\ phase # "corrupt"
    /\ phase = "reading" => Main \notin torn /\ torn \subseteq todo
    /\ phase \in {"trimming", "open", "appending", "applying"} => torn = {}
    /\ phase \in {"trimming", "open", "appending"} => memory = committed
    /\ phase = "trimming" => \A f \in Files \ todo : NoTail(f)
    /\ phase \in {"open", "applying"} => \A f \in Files : NoTail(f)
    /\ phase \in {"open", "applying"} => todo = {}
    /\ phase = "appending" => Writing
    /\ phase = "applying" => pending \in Commit /\ committed = Append(memory, pending)

Ind == TypeOK /\ DiskInv /\ PhaseInv

=============================================================================
