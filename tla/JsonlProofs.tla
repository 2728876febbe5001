----------------------------- MODULE JsonlProofs -----------------------------
(***************************************************************************)
(* Proofs about JsonlStorage, for any tasks, documents, commits and        *)
(* number of failures.                                                     *)
(***************************************************************************)
EXTENDS JsonlProperties, SequenceTheorems, TLAPS

\* A write that goes to a sidecar names the sidecar and has a content.
LEMMA SideWriteType ==
    ASSUME NEW c \in Commit, NEW i \in SideWrites(c.writes)
    PROVE  /\ i \in 1..Len(c.writes)
           /\ c.writes[i] \in Write /\ IsSide(c.writes[i])
           /\ c.writes[i].type \in {"task", "create", "change"}
           /\ c.writes[i].id \in Files /\ c.writes[i].value \in Values
<1>1. c.writes \in Seq(Write)
  BY CommitsAssumption DEF Commit, CommitsAssumption
<1>2. i \in 1..Len(c.writes) /\ c.writes[i] \in Write /\ IsSide(c.writes[i])
  BY <1>1 DEF SideWrites
<1>3. QED
  BY <1>2 DEF Write, IsSide, Files

\* The line of a commit has its writes in their places, with references for the sidecar writes.
LEMMA LineOfCommit ==
    ASSUME NEW c \in Commit
    PROVE  /\ c.writes \in Seq(Write) /\ c.writes \in Commits
           /\ MarkerOf(c).seq = c.seq
           /\ DOMAIN MarkerOf(c).writes = 1..Len(c.writes)
           /\ \A i \in 1..Len(c.writes) :
                /\ IsSide(MarkerOf(c).writes[i]) <=> IsSide(c.writes[i])
                /\ IsSide(c.writes[i]) =>
                     MarkerOf(c).writes[i] = [type |-> c.writes[i].type, id |-> c.writes[i].id, ordinal |-> i]
                /\ ~IsSide(c.writes[i]) => MarkerOf(c).writes[i] = c.writes[i]
<1>1. c.writes \in Seq(Write) /\ c.writes \in Commits
  BY CommitsAssumption DEF Commit, CommitsAssumption
<1>2. QED
  BY <1>1 DEF MarkerOf, IsSide

\* A write that has no sidecar stands in the line as it is (encodeCommit).
LEMMA PlainWriteInLine ==
    ASSUME NEW c \in Commit, NEW i \in 1..Len(c.writes), ~IsSide(c.writes[i])
    PROVE  MarkerOf(c).writes[i] = c.writes[i]
  BY LineOfCommit DEF MarkerOf

\* The line of a commit refers to each of its sidecar records (encodeCommit).
LEMMA LineRefers ==
    ASSUME NEW c \in Commit, NEW i \in SideWrites(c.writes)
    PROVE  Refers(MarkerOf(c), c.writes[i].id, i)
<1>1. i \in 1..Len(c.writes) /\ IsSide(c.writes[i])
  BY SideWriteType
<1>2. /\ i \in DOMAIN MarkerOf(c).writes /\ IsSide(MarkerOf(c).writes[i])
      /\ MarkerOf(c).writes[i] = [type |-> c.writes[i].type, id |-> c.writes[i].id, ordinal |-> i]
  BY <1>1, LineOfCommit
<1>3. QED
  BY <1>2 DEF Refers

\* What encodeCommit makes of a commit is a line.
LEMMA LineType ==
    ASSUME NEW c \in Commit
    PROVE  MarkerOf(c) \in Marker
<1>1. c.writes \in Seq(Write) /\ c.seq \in Nat
  BY CommitsAssumption DEF Commit, CommitsAssumption
<1>2. ASSUME NEW i \in 1..Len(c.writes)
      PROVE  MarkerOf(c).writes[i] \in Reference \cup Write
  <2>1. CASE IsSide(c.writes[i])
    <3>1. i \in SideWrites(c.writes)
      BY <2>1, <1>1 DEF SideWrites
    <3>2. c.writes[i].id \in Files /\ c.writes[i].type \in {"task", "create", "change"} /\ i \in Nat
      BY <3>1, SideWriteType
    <3>3. MarkerOf(c).writes[i] = [type |-> c.writes[i].type, id |-> c.writes[i].id, ordinal |-> i]
      BY <2>1, LineOfCommit
    <3>4. QED
      BY <3>2, <3>3 DEF Reference
  <2>2. CASE ~IsSide(c.writes[i])
    BY <2>2, <1>1, PlainWriteInLine
  <2>3. QED
    BY <2>1, <2>2
<1>3. MarkerOf(c).writes = [i \in 1..Len(c.writes) |-> MarkerOf(c).writes[i]]
  BY <1>1 DEF MarkerOf
<1>4. MarkerOf(c).writes \in Seq(Reference \cup Write)
  BY <1>1, <1>2, <1>3, IsASeq
<1>5. QED
  BY <1>1, <1>4 DEF MarkerOf, Marker

\* Records on file have numbers to compare.
LEMMA RecordType ==
    ASSUME TypeOK, NEW f \in Files
    PROVE  /\ side[f] \in Seq(Record)
           /\ \A p \in 1..Len(side[f]) : side[f][p].seq \in Nat /\ side[f][p].ordinal \in Nat
<1>1. side[f] \in Seq(Record)
  BY DEF TypeOK
<1>2. \A p \in 1..Len(side[f]) : side[f][p] \in Record
  BY <1>1
<1>3. \A r \in Record : r.seq \in Nat /\ r.ordinal \in Nat
  BY DEF Record
<1>4. QED
  BY <1>1, <1>2, <1>3, Zenon

\* No two records of a sidecar have the same number and ordinal.
LEMMA OneRecordPerKey ==
    ASSUME TypeOK, Sorted, NEW f \in Files, NEW p \in 1..Len(side[f])
    PROVE  Found(f, side[f][p].seq, side[f][p].ordinal) = {p}
<1>1. side[f] \in Seq(Record)
  BY RecordType
<1>2. \A q \in 1..Len(side[f]) : side[f][q].seq \in Nat /\ side[f][q].ordinal \in Nat
  BY RecordType
<1>3. ASSUME NEW q \in 1..Len(side[f]), side[f][q].seq = side[f][p].seq, side[f][q].ordinal = side[f][p].ordinal
      PROVE  q = p
  BY <1>2, <1>3 DEF Sorted, Before
<1>4. QED
  BY <1>1, <1>3 DEF Found

\* What recover() decodes is what was committed.
LEMMA DecodesCommits ==
    ASSUME TypeOK, DiskInv
    PROVE  OnDisk = committed
<1> USE DEF DiskInv
<1>1. /\ committed \in Seq(Commit) /\ main \in Seq(Marker)
      /\ Len(main) = Len(committed)
  BY DEF TypeOK, LinesMatch
<1>2. ASSUME NEW k \in 1..Len(main)
      PROVE  Decoded(main[k]) = committed[k]
  <2> DEFINE c == committed[k]
             m == main[k]
  <2>1. c \in Commit /\ m = MarkerOf(c) /\ c.seq = k /\ m.seq = k
    BY <1>1, LineOfCommit DEF LinesMatch
  <2>2. c.writes \in Seq(Write) /\ c.writes \in Commits
    BY <2>1, CommitsAssumption DEF Commit, CommitsAssumption
  <2>3. ASSUME NEW i \in 1..Len(c.writes)
        PROVE  Decoded(m).writes[i] = c.writes[i]
    <3>1. CASE IsSide(c.writes[i])
      <4> DEFINE w == c.writes[i]
      <4>1. i \in SideWrites(c.writes)
        BY <3>1, <2>2 DEF SideWrites
      <4>2. w.id \in Files /\ w \in Write /\ w.type \in {"task", "create", "change"}
        BY <4>1, <2>1, SideWriteType
      <4>3. PICK p \in 1..Len(side[w.id]) :
                side[w.id][p] = [seq |-> k, ordinal |-> i, value |-> w.value]
        BY <4>1, <1>1 DEF Present
      <4>4. Found(w.id, k, i) = {p}
        <5>1. side[w.id][p].seq = k /\ side[w.id][p].ordinal = i
          BY <4>3
        <5>2. Found(w.id, side[w.id][p].seq, side[w.id][p].ordinal) = {p}
          BY <4>2, OneRecordPerKey
        <5>3. QED
          BY <5>1, <5>2
      <4>5. RecordValue(w.id, k, i) = w.value
        <5>1. Found(w.id, k, i) # {}
          BY <4>4
        <5>2. (CHOOSE q \in Found(w.id, k, i) : \A r \in Found(w.id, k, i) : r <= q) = p
          BY <4>4, <4>3
        <5>3. side[w.id][p].value = w.value
          BY <4>3
        <5>4. QED
          BY <5>1, <5>2, <5>3 DEF RecordValue
      <4>6. IsSide(m.writes[i]) /\ m.writes[i] = [type |-> w.type, id |-> w.id, ordinal |-> i]
            /\ i \in DOMAIN m.writes
        BY <2>1, <2>2, <3>1, LineOfCommit
      <4>7. Decoded(m).writes[i] = [type |-> w.type, id |-> w.id, value |-> w.value]
        BY <4>5, <4>6, <2>1, SMTT(30) DEF Decoded
      <4>8. QED
        BY <4>7, <4>2 DEF Write
    <3>2. CASE ~IsSide(c.writes[i])
      <4>1. m.writes[i] = c.writes[i] /\ i \in DOMAIN m.writes /\ ~IsSide(m.writes[i])
        BY <3>2, <2>1, LineOfCommit, PlainWriteInLine
      <4>2. QED
        BY <4>1 DEF Decoded
    <3>3. QED
      BY <3>1, <3>2
  <2>4. DOMAIN Decoded(m).writes = 1..Len(c.writes)
    BY <2>1, <2>2, LineOfCommit DEF Decoded
  <2>5. Decoded(m).writes = c.writes
    <3>1. Decoded(m).writes = [i \in 1..Len(c.writes) |-> Decoded(m).writes[i]]
      BY <2>4 DEF Decoded
    <3>2. c.writes = [i \in 1..Len(c.writes) |-> c.writes[i]]
      BY <2>2
    <3>3. QED
      BY <3>1, <3>2, <2>3, Zenon
  <2>6. Decoded(m).seq = c.seq
    BY <2>1 DEF Decoded
  <2>7. Decoded(m) = [seq |-> Decoded(m).seq, writes |-> Decoded(m).writes]
    BY DEF Decoded
  <2>8. QED
    BY <2>1, <2>5, <2>6, <2>7 DEF Commit
<1>3. OnDisk = [k \in 1..Len(main) |-> committed[k]]
  BY <1>1, <1>2 DEF OnDisk
<1>4. QED
  BY <1>1, <1>3

\* The confirmed records of a sidecar are those with the number of a line.
LEMMA ConfirmedByNumber ==
    ASSUME TypeOK, DiskInv, NEW f \in Files, NEW p \in 1..Len(side[f])
    PROVE  Confirmed(f, side[f][p]) <=> side[f][p].seq <= Len(committed)
<1> USE DEF DiskInv
<1> DEFINE r == side[f][p]
<1>1. /\ committed \in Seq(Commit) /\ main \in Seq(Marker)
      /\ Len(main) = Len(committed)
      /\ r.seq \in Nat /\ r.ordinal \in Nat /\ r.seq >= 1
  BY RecordType DEF TypeOK, LinesMatch, Known
<1>2. \A k \in 1..Len(main) : main[k].seq = k
  BY <1>1, LineOfCommit DEF LinesMatch
<1>3. ASSUME r.seq <= Len(committed)
      PROVE  Confirmed(f, r)
  <2>1. r.seq \in 1..Len(main) /\ r.seq \in DOMAIN main /\ committed[r.seq] \in Commit
    BY <1>1, <1>3
  <2>2. r.ordinal \in Mentions(committed[r.seq].writes, f)
    BY <1>3 DEF Known
  <2>3. r.ordinal \in SideWrites(committed[r.seq].writes) /\ committed[r.seq].writes[r.ordinal].id = f
    BY <2>2 DEF Mentions
  <2>5. Refers(main[r.seq], f, r.ordinal)
    BY <2>1, <2>3, LineRefers DEF LinesMatch
  <2>6. QED
    BY <2>1, <2>5, <1>2 DEF Confirmed
<1>4. ASSUME Confirmed(f, r)
      PROVE  r.seq <= Len(committed)
  BY <1>1, <1>2, <1>4 DEF Confirmed
<1>5. QED
  BY <1>3, <1>4

\* None of the checks of recover() fails.
LEMMA RecoveryAccepts ==
    ASSUME TypeOK, DiskInv
    PROVE  /\ MainInOrder /\ Replayable
           /\ \A f \in Files : SideInOrder(f) /\ UnconfirmedIsTail(f)
<1> USE DEF DiskInv
<1>1. /\ committed \in Seq(Commit) /\ main \in Seq(Marker)
      /\ Len(main) = Len(committed)
      /\ \A k \in 1..Len(main) : /\ main[k] = MarkerOf(committed[k]) /\ committed[k] \in Commit
                                 /\ committed[k].seq = k /\ main[k].seq = k
  BY LineOfCommit DEF TypeOK, LinesMatch
<1>2. MainInOrder
  BY <1>1 DEF MainInOrder
<1>3. ASSUME NEW f \in Files
      PROVE  SideInOrder(f) /\ UnconfirmedIsTail(f)
  <2>1. side[f] \in Seq(Record)
    BY RecordType
  <2>2. \A p \in 1..Len(side[f]) : side[f][p].seq \in Nat /\ side[f][p].ordinal \in Nat
    BY RecordType
  <2>3. SideInOrder(f)
    BY <2>1, <2>2 DEF SideInOrder, Sorted, Known
  <2>4. \A p \in 1..Len(side[f]) : p \in Unconfirmed(f) <=> side[f][p].seq > Len(committed)
    BY <2>1, <2>2, <1>1, ConfirmedByNumber DEF Unconfirmed
  <2>5. Unconfirmed(f) \subseteq 1..Len(side[f])
    BY <2>1 DEF Unconfirmed
  <2>6. UnconfirmedIsTail(f)
    <3>1. ASSUME NEW p \in Unconfirmed(f), NEW q \in 1..Len(side[f]), p < q
          PROVE  q \in Unconfirmed(f)
      <4>1. p \in 1..Len(side[f]) /\ side[f][p].seq > Len(committed)
        BY <2>4, <2>5
      <4>2. side[f][p].seq <= side[f][q].seq
        BY <4>1, <3>1, <2>2 DEF Sorted, Before
      <4>3. Len(committed) \in Nat
        BY <1>1
      <4>4. QED
        BY <4>1, <4>2, <4>3, <2>2, <2>4
    <3>2. QED
      BY <3>1, <2>1 DEF UnconfirmedIsTail
  <2>7. QED
    BY <2>3, <2>6
<1>4. Replayable
  <2>1. ASSUME NEW k \in 1..Len(main), NEW i \in DOMAIN main[k].writes, IsSide(main[k].writes[i])
        PROVE  /\ Found(main[k].writes[i].id, main[k].seq, main[k].writes[i].ordinal) # {}
               /\ main[k].writes[i].ordinal = i
    <3> DEFINE w == committed[k].writes[i]
    <3>1. /\ i \in DOMAIN committed[k].writes /\ IsSide(w)
          /\ main[k].writes[i] = [type |-> w.type, id |-> w.id, ordinal |-> i]
      BY <1>1, <2>1, LineOfCommit
    <3>2. i \in SideWrites(committed[k].writes)
      BY <3>1 DEF SideWrites
    <3>3. PICK p \in 1..Len(side[w.id]) : side[w.id][p] = [seq |-> k, ordinal |-> i, value |-> w.value]
      BY <3>2, <1>1 DEF Present
    <3>4. w.id \in Files
      BY <3>2, <1>1, SideWriteType
    <3>5. Found(w.id, k, i) # {}
      <4>1. p \in DOMAIN side[w.id]
        BY <3>3, <3>4, RecordType, LenProperties
      <4>2. side[w.id][p].seq = k /\ side[w.id][p].ordinal = i
        BY <3>3
      <4>3. QED
        BY <4>1, <4>2 DEF Found
    <3>6. main[k].writes[i].id = w.id /\ main[k].writes[i].ordinal = i
      BY <3>1
    <3>7. main[k].seq = k
      BY <1>1
    <3>8. QED
      BY <3>5, <3>6, <3>7, Zenon
  <2>2. \A k \in DOMAIN main : Admissible(SubSeq(OnDisk, 1, k - 1), OnDisk[k].writes)
    BY <1>1, DecodesCommits DEF History
  <2>3. DOMAIN main = 1..Len(main)
    BY <1>1
  <2>4. QED
    BY <2>1, <2>2, <2>3 DEF Replayable
<1>5. QED
  BY <1>2, <1>3, <1>4

-----------------------------------------------------------------------------
(* Every step keeps the invariant.                                         *)

\* An empty directory satisfies the invariant.
LEMMA InitInd == Init => Ind
<1> SUFFICES ASSUME Init PROVE Ind
  OBVIOUS
<1>1. TypeOK
  BY BoundsAssumption DEF Init, TypeOK, BoundsAssumption
<1>2. DiskInv
  BY DEF Init, DiskInv, LinesMatch, History, Sorted, Present, Known, Safe
<1>3. PhaseInv
  BY DEF Init, PhaseInv
<1>4. QED
  BY <1>1, <1>2, <1>3 DEF Ind

\* What DiskInv says depends on the files and the commits alone.
LEMMA DiskUntouched ==
    ASSUME DiskInv, UNCHANGED <<main, side, kept, committed, fsync>>
    PROVE  DiskInv'
  BY DEF DiskInv, LinesMatch, History, Sorted, Present, Known, Safe

\* Only a sidecar or main.jsonl can be cut short.
LEMMA InFlightType ==
    ASSUME Ind
    PROVE  InFlight \subseteq Files \cup {Main}
<1>1. phase = "appending" => pending \in Commit
  BY DEF Ind, PhaseInv, Writing
<1>2. QED
  BY <1>1, SideWriteType DEF InFlight, Unwritten

\* The commits applied are numbered 1, 2, ..., so the next number is one more than their count.
LEMMA NextNumber ==
    ASSUME TypeOK, LinesMatch
    PROVE  NextSeq(committed) = Len(committed) + 1 /\ Len(committed) \in Nat
<1>1. committed \in Seq(Commit) /\ Len(committed) \in Nat
  BY LenProperties DEF TypeOK
<1>2. CASE committed = <<>>
  BY <1>1, <1>2 DEF NextSeq
<1>3. CASE committed # <<>>
  <2>1. Len(committed) \in 1..Len(main)
    BY <1>1, <1>3, EmptySeq DEF LinesMatch
  <2>2. committed[Len(committed)].seq = Len(committed)
    BY <2>1 DEF LinesMatch
  <2>3. QED
    BY <1>1, <1>3, <2>2 DEF NextSeq
<1>4. QED
  BY <1>2, <1>3

\* A commit that prepareCommit accepts begins with nothing on file.
LEMMA PrepareStep ==
    ASSUME Ind, NEW ws \in Commits, Prepare(ws)
    PROVE  Ind'
<1> USE DEF Ind
<1>1. /\ phase = "open" /\ memory = committed /\ torn = {} /\ todo = {}
      /\ \A f \in Files : NoTail(f)
  BY DEF Prepare, PhaseInv
<1>2. /\ pending' = [seq |-> Len(committed) + 1, writes |-> ws]
      /\ pending' \in Commit /\ pending'.writes = ws /\ pending'.seq = Len(committed) + 1
      /\ Len(committed) \in Nat
  BY <1>1, NextNumber DEF Prepare, DiskInv, Commit
<1>3. SideFiles(ws) \subseteq Files
  BY <1>2, SideWriteType DEF SideFiles
<1>4. TypeOK'
  BY <1>2, <1>3 DEF TypeOK, Prepare, disk, budget
<1>5. DiskInv'
  BY DiskUntouched DEF Prepare, disk
<1>6. /\ UNCHANGED <<main, side, torn, kept, fsync, memory, committed>>
      /\ phase' = "appending" /\ written' = {}
      /\ fsync' => todo' = SideFiles(ws)
      /\ Admissible(committed', ws)
  <2>1. Admissible(committed, ws) /\ committed' = committed
    BY <1>1, Zenon DEF Prepare
  <2>2. Admissible(committed', ws)
    BY <2>1, Zenon
  <2>3. fsync' => todo' = SideFiles(ws)
    BY Zenon DEF Prepare
  <2>4. UNCHANGED <<main, side, torn, kept, fsync, memory, committed>> /\ phase' = "appending" /\ written' = {}
    BY DEF Prepare, disk
  <2>5. QED
    BY <2>2, <2>3, <2>4
<1>7. Writing'
  <2>1. \A f \in Files : \A p \in 1..Len(side[f]) : side[f][p].seq <= Len(committed) /\ side[f][p].seq \in Nat
    BY <1>1, RecordType DEF NoTail
  <2>2. Unwritten' = SideWrites(ws) /\ pending'.writes = ws
    BY <1>2, <1>6 DEF Unwritten
  <2>3. Admissible(committed', pending'.writes)
    BY <1>6, <2>2, Zenon
  <2>4. \A f \in Files : \A p \in 1..Len(side'[f]) : ~(side'[f][p].seq > Len(committed'))
    BY <2>1, <1>2, <1>6
  <2>5. fsync' => SideFiles(pending'.writes) \subseteq todo'
    BY <2>2, <1>6
  <2>6. fsync' => SideFiles(pending'.writes) \ todo' = {}
    BY <2>5
  <2>7. pending' \in Commit /\ pending'.seq = Len(committed') + 1 /\ written' = {}
    BY <1>2, <1>6
  <2>8. QED
    BY <2>3, <2>4, <2>5, <2>6, <2>7 DEF Writing
<1>8. PhaseInv'
  BY <1>1, <1>6, <1>7 DEF PhaseInv
<1>9. QED
  BY <1>4, <1>5, <1>8

\* A record of the commit under way joins its sidecar behind all that lines refer to.
LEMMA AppendRecordStep ==
    ASSUME Ind, AppendRecord
    PROVE  Ind'
<1> USE DEF Ind
<1>1. phase = "appending" /\ Writing /\ torn = {} /\ memory = committed
  BY DEF AppendRecord, PhaseInv
<1> DEFINE n == Len(committed)
           ws == pending.writes
<1>2. pending \in Commit /\ pending.seq = n + 1 /\ n \in Nat
  BY <1>1 DEF Writing, TypeOK
<1>3. PICK i \in Unwritten :
        /\ IsNext(i)
        /\ side' = [side EXCEPT ![ws[i].id] =
                     Append(@, [seq |-> pending.seq, ordinal |-> i, value |-> ws[i].value])]
        /\ torn' = torn \ {ws[i].id}
        /\ written' = written \cup {i}
  BY <1>1 DEF AppendRecord, RecordLine
<1> DEFINE w == ws[i]
           g == w.id
           record == [seq |-> pending.seq, ordinal |-> i, value |-> w.value]
<1>4. i \in SideWrites(ws) /\ i \in Nat /\ g \in Files /\ w.value \in Values /\ i \notin written
  BY <1>2, <1>3, SideWriteType DEF Unwritten
<1>5. UNCHANGED <<main, kept, fsync, phase, todo, pending, memory, committed, faults, crashes>>
  BY DEF AppendRecord, budget
<1>6. record \in Record /\ side[g] \in Seq(Record) /\ Len(side[g]) \in Nat
  <2>1. pending.seq \in Nat /\ record \in Record
    BY <1>2, <1>4 DEF Record
  <2>2. side[g] \in Seq(Record)
    BY <1>4, RecordType
  <2>3. QED
    BY <2>1, <2>2, LenProperties
<1>7. /\ side'[g] = Append(side[g], record)
      /\ \A f \in Files : f # g => side'[f] = side[f]
  BY <1>3, <1>4 DEF TypeOK
<1>8. /\ Len(side'[g]) = Len(side[g]) + 1 /\ side'[g][Len(side[g]) + 1] = record
      /\ \A p \in 1..Len(side[g]) : side'[g][p] = side[g][p]
      /\ side'[g] \in Seq(Record)
  <2> DEFINE longer == Append(side[g], record)
  <2>1. /\ Len(longer) = Len(side[g]) + 1 /\ longer[Len(side[g]) + 1] = record
        /\ \A p \in 1..Len(side[g]) : longer[p] = side[g][p]
        /\ longer \in Seq(Record)
    <3>1. record \in Record /\ side[g] \in Seq(Record)
      BY <1>6, Zenon
    <3> HIDE DEF record, g
    <3>2. QED
      BY <3>1, AppendProperties, SMT
  <2>2. side'[g] = longer
    BY <1>7, Zenon
  <2>3. QED
    BY <2>1, <2>2, Zenon
<1>9. \A f \in Files : \A p \in 1..Len(side'[f]) :
        \/ p \in 1..Len(side[f]) /\ side'[f][p] = side[f][p]
        \/ f = g /\ p = Len(side[g]) + 1 /\ side'[f][p] = record
  <2>1. \A p \in 1..Len(side'[g]) : p \in 1..Len(side[g]) \/ p = Len(side[g]) + 1
    BY <1>6, <1>8
  <2>2. QED
    BY <2>1, <1>7, <1>8
<1>10. \A f \in Files : \A p \in 1..Len(side[f]) : p \in 1..Len(side'[f]) /\ side'[f][p] = side[f][p]
  <2>1. \A p \in 1..Len(side[g]) : p \in 1..Len(side'[g])
    BY <1>6, <1>8
  <2>2. QED
    BY <2>1, <1>7, <1>8
<1>11. TypeOK'
  <2>1. side' \in [Files -> Seq(Record)]
    BY <1>3, <1>4, <1>6, <1>7, <1>8 DEF TypeOK
  <2>2. written' \subseteq Nat /\ torn' \subseteq Files \cup {Main}
    BY <1>3, <1>4, <1>1 DEF TypeOK
  <2>3. QED
    BY <2>1, <2>2, <1>5 DEF TypeOK
<1>12. \A f \in Files : \A p \in 1..Len(side[f]) : side[f][p].seq \in Nat /\ side[f][p].ordinal \in Nat
  BY RecordType
<1>13. Sorted'
  <2>1. ASSUME NEW p \in 1..Len(side[g])
        PROVE  Before(side[g][p], record)
    <3>1. CASE side[g][p].seq <= n
      BY <3>1, <1>2, <1>4, <1>12 DEF Before
    <3>2. CASE side[g][p].seq > n
      <4>1. side[g][p].seq = pending.seq /\ side[g][p].ordinal \in written /\ ws[side[g][p].ordinal].id = g
        BY <3>2, <1>1, <1>4 DEF Writing, Mentions
      <4>2. side[g][p].ordinal < i
        BY <4>1, <1>1, <1>3 DEF Writing
      <4>3. QED
        BY <4>1, <4>2 DEF Before
    <3>3. QED
      BY <3>1, <3>2, <1>2, <1>4, <1>12
  <2>2. ASSUME NEW f \in Files, NEW p \in 1..Len(side'[f]), NEW q \in 1..Len(side'[f]), p < q
        PROVE  Before(side'[f][p], side'[f][q])
    <3>1. CASE q \in 1..Len(side[f]) /\ side'[f][q] = side[f][q]
      <4>1. p \in 1..Len(side[f])
        BY <3>1, <2>2, <1>6
      <4>2. side'[f][p] = side[f][p]
        BY <4>1, <1>10
      <4>3. QED
        BY <3>1, <4>1, <4>2, <2>2 DEF DiskInv, Sorted
    <3>2. CASE f = g /\ q = Len(side[g]) + 1 /\ side'[f][q] = record
      <4>1. p \in 1..Len(side[g])
        BY <3>2, <2>2, <1>6
      <4>2. QED
        BY <3>2, <4>1, <2>1, <1>10, <1>4
    <3>3. QED
      BY <3>1, <3>2, <1>9
  <2>3. QED
    BY <2>2 DEF Sorted, Before
<1>14. Present'
  <2>1. ASSUME NEW k \in 1..n, NEW j \in SideWrites(committed[k].writes)
        PROVE  LET v == committed[k].writes[j]
               IN  \E p \in 1..Len(side'[v.id]) :
                       side'[v.id][p] = [seq |-> k, ordinal |-> j, value |-> v.value]
    <3>1. committed[k] \in Commit
      BY DEF TypeOK
    <3>2. committed[k].writes[j].id \in Files
      BY <3>1, SideWriteType
    <3>3. PICK p \in 1..Len(side[committed[k].writes[j].id]) :
              side[committed[k].writes[j].id][p] = [seq |-> k, ordinal |-> j, value |-> committed[k].writes[j].value]
      BY DEF DiskInv, Present
    <3>4. /\ p \in 1..Len(side'[committed[k].writes[j].id])
          /\ side'[committed[k].writes[j].id][p] = side[committed[k].writes[j].id][p]
      BY <3>2, <3>3, <1>10, Zenon
    <3>5. QED
      BY <3>3, <3>4
  <2>2. QED
    BY <2>1, <1>5 DEF Present
<1>15. Known'
  <2>1. ASSUME NEW f \in Files, NEW p \in 1..Len(side'[f])
        PROVE  /\ side'[f][p].seq >= 1
               /\ side'[f][p].seq <= n => side'[f][p].ordinal \in Mentions(committed[side'[f][p].seq].writes, f)
    <3>1. CASE p \in 1..Len(side[f]) /\ side'[f][p] = side[f][p]
      BY <3>1 DEF DiskInv, Known
    <3>2. CASE side'[f][p] = record
      BY <3>2, <1>2
    <3>3. QED
      BY <3>1, <3>2, <1>9, Zenon
  <2>2. QED
    BY <2>1, <1>5 DEF Known
<1>16. Safe'
  <2>1. \A f \in Files : kept[f] \in Nat /\ Len(side[f]) \in Nat
    BY RecordType DEF TypeOK
  <2>2. \A f \in Files : Len(side[f]) <= Len(side'[f])
    <3>1. Len(side[g]) <= Len(side'[g])
      <4>1. Len(side'[g]) = Len(side[g]) + 1 /\ Len(side[g]) \in Nat
        BY <1>6, <1>8, Zenon
      <4>2. \A size \in Nat : size <= size + 1
        OBVIOUS
      <4>3. QED
        BY <4>1, <4>2, Zenon
    <3>2. \A f \in Files : f # g => Len(side[f]) <= Len(side'[f])
      BY <1>7, <2>1
    <3>3. QED
      BY <3>1, <3>2
  <2>3. \A f \in Files : kept'[f] <= Len(side'[f])
    <3>1. \A f \in Files : kept[f] <= Len(side[f])
      BY DEF DiskInv, Safe
    <3>2. Len(side'[g]) \in Nat
      BY <1>6, <1>8
    <3>3. \A f \in Files : Len(side'[f]) \in Nat
      BY <3>2, <1>7, <2>1, Zenon
    <3>4. QED
      BY <3>1, <3>3, <2>1, <2>2, <1>5
  <2>4. ASSUME fsync, NEW f \in Files, NEW p \in 1..Len(side'[f]), side'[f][p].seq <= n
        PROVE  p <= kept[f]
    <3>1. p \in 1..Len(side[f]) /\ side'[f][p] = side[f][p]
      BY <1>9, <2>4, <1>2
    <3>2. QED
      BY <3>1, <2>4 DEF DiskInv, Safe
  <2>5. QED
    BY <2>3, <2>4, <1>5 DEF Safe
<1>17. DiskInv'
  BY <1>13, <1>14, <1>15, <1>16, <1>5 DEF DiskInv, LinesMatch, History
<1>18. Writing'
  <2>1. Unwritten' = Unwritten \ {i}
    BY <1>3, <1>5 DEF Unwritten
  <2>2. pending' \in Commit /\ pending'.seq = Len(committed') + 1 /\ Admissible(committed', pending'.writes)
    BY <1>1, <1>5 DEF Writing
  <2>3. written' \subseteq SideWrites(pending'.writes)
    BY <1>1, <1>3, <1>4, <1>5 DEF Writing
  <2>4. ASSUME NEW f \in Files, NEW p \in 1..Len(side'[f]), side'[f][p].seq > n
        PROVE  /\ side'[f][p].seq = pending.seq
               /\ side'[f][p].ordinal \in written' \cap Mentions(ws, f)
    <3>1. CASE p \in 1..Len(side[f]) /\ side'[f][p] = side[f][p]
      <4>1. side[f][p].seq = pending.seq /\ side[f][p].ordinal \in written \cap Mentions(ws, f)
        BY <3>1, <2>4, <1>1 DEF Writing
      <4>2. QED
        BY <4>1, <3>1, <1>3
    <3>2. CASE f = g /\ side'[f][p] = record
      BY <3>2, <1>3, <1>4 DEF Mentions
    <3>3. QED
      BY <3>1, <3>2, <1>9
  <2>5. ASSUME NEW j \in written'
        PROVE  \E p \in 1..Len(side'[ws[j].id]) :
                   side'[ws[j].id][p] = [seq |-> pending.seq, ordinal |-> j, value |-> ws[j].value]
    <3>1. CASE j = i
      <4>1. Len(side[g]) + 1 \in 1..Len(side'[g])
        BY <1>6, <1>8
      <4>2. QED
        BY <3>1, <4>1, <1>8
    <3>2. CASE j \in written
      <4>1. ws[j].id \in Files
        BY <3>2, <1>1, <1>2, SideWriteType DEF Writing
      <4>2. PICK p \in 1..Len(side[ws[j].id]) :
                side[ws[j].id][p] = [seq |-> pending.seq, ordinal |-> j, value |-> ws[j].value]
        BY <3>2, <1>1 DEF Writing
      <4>3. QED
        BY <4>1, <4>2, <1>10
    <3>3. QED
      BY <3>1, <3>2, <1>3
  <2>6. ASSUME NEW j \in Unwritten', NEW h \in written', ws[j].id = ws[h].id
        PROVE  h < j
    <3>1. j \in Unwritten /\ j # i
      BY <2>1
    <3>2. CASE h = i
      BY <3>1, <3>2, <2>6, <1>3 DEF IsNext, Precedes
    <3>3. CASE h \in written
      BY <3>1, <3>3, <2>6, <1>1 DEF Writing
    <3>4. QED
      BY <3>2, <3>3, <1>3
  <2>7. fsync => SideFiles(ws) \subseteq todo
    BY <1>1, <1>3 DEF Writing
  <2>8. QED
    BY <2>2, <2>3, <2>4, <2>5, <2>6, <2>7, <1>5 DEF Writing
<1>19. PhaseInv'
  BY <1>1, <1>3, <1>5, <1>18 DEF PhaseInv
<1>20. QED
  BY <1>11, <1>17, <1>19

\* A flushed sidecar keeps all of its records from then on.
LEMMA FlushStep ==
    ASSUME Ind, NEW f \in Files, Flush(f)
    PROVE  Ind'
<1> USE DEF Ind
<1>1. phase = "appending" /\ Writing /\ Unwritten = {} /\ torn = {} /\ memory = committed
  BY DEF Flush, PhaseInv
<1>2. /\ UNCHANGED <<main, side, torn, fsync, phase, pending, written, memory, committed, faults, crashes>>
      /\ kept' = [kept EXCEPT ![f] = Len(side[f])] /\ todo' = todo \ {f}
  BY DEF Flush, budget
<1>3. \A g \in Files : Len(side[g]) \in Nat /\ kept[g] \in Nat
                       /\ kept'[g] = IF g = f THEN Len(side[g]) ELSE kept[g]
  BY <1>2, RecordType DEF TypeOK
<1>4. TypeOK'
  BY <1>2, <1>3 DEF TypeOK
<1>5. DiskInv'
  <2>1. Safe'
    BY <1>2, <1>3 DEF DiskInv, Safe
  <2>2. LinesMatch' /\ History'
    BY <1>2 DEF DiskInv, LinesMatch, History
  <2>3. Sorted' /\ Present' /\ Known'
    BY <1>2 DEF DiskInv, Sorted, Present, Known
  <2>4. QED
    BY <2>1, <2>2, <2>3 DEF DiskInv
<1>6. Writing'
  <2>1. Unwritten' = {} /\ pending' = pending
    BY <1>1, <1>2 DEF Unwritten
  <2>2. SideFiles(pending.writes) \subseteq Files
    BY <1>1, SideWriteType DEF SideFiles, Writing
  <2>3. fsync' => \A g \in SideFiles(pending'.writes) \ todo' : kept'[g] = Len(side'[g])
    BY <1>1, <1>2, <1>3, <2>2 DEF Writing
  <2>4. QED
    BY <1>1, <1>2, <2>1, <2>3 DEF Writing
<1>7. PhaseInv'
  BY <1>1, <1>2, <1>6 DEF PhaseInv
<1>8. QED
  BY <1>4, <1>5, <1>7

\* What a sequence was before an element was appended.
LEMMA PrefixOfAppend ==
    ASSUME NEW S, NEW s \in Seq(S), NEW e \in S, NEW n \in 0..Len(s)
    PROVE  SubSeq(Append(s, e), 1, n) = SubSeq(s, 1, n)
  OBVIOUS

\* The line goes out when all of its records are on file, and flushed if fsync asks for it.
LEMMA AppendMarkerStep ==
    ASSUME Ind, AppendMarker
    PROVE  Ind'
<1> USE DEF Ind
<1> DEFINE n == Len(committed)
           ws == pending.writes
<1>1. phase = "appending" /\ Writing /\ Unwritten = {} /\ todo = {} /\ torn = {} /\ memory = committed
  BY DEF AppendMarker, PhaseInv
<1>2. pending \in Commit /\ pending.seq = n + 1 /\ n \in Nat /\ Len(main) = n
      /\ main \in Seq(Marker) /\ committed \in Seq(Commit)
  BY <1>1 DEF Writing, TypeOK, DiskInv, LinesMatch
<1>3. /\ main' = Append(main, MarkerOf(pending)) /\ committed' = Append(committed, pending)
      /\ UNCHANGED <<side, kept, fsync, todo, pending, written, memory, faults, crashes>>
      /\ torn' = {} /\ phase' = "applying"
  BY <1>1 DEF AppendMarker, MarkerLine, budget
<1>4. /\ Len(main') = n + 1 /\ Len(committed') = n + 1
      /\ main'[n + 1] = MarkerOf(pending) /\ committed'[n + 1] = pending
      /\ \A k \in 1..n : main'[k] = main[k] /\ committed'[k] = committed[k]
      /\ main' \in Seq(Marker) /\ committed' \in Seq(Commit)
  BY <1>2, <1>3, LineType
<1>5. TypeOK'
  BY <1>1, <1>3, <1>4 DEF TypeOK
<1>6. \A k \in 1..(n + 1) : k \in 1..n \/ k = n + 1
  BY <1>2
<1>7. LinesMatch'
  BY <1>2, <1>4, <1>6 DEF DiskInv, LinesMatch
<1>8. History'
  <2>1. ASSUME NEW k \in 1..(n + 1)
        PROVE  SubSeq(committed', 1, k - 1) = SubSeq(committed, 1, k - 1)
    <3>1. k - 1 \in 0..n
      BY <1>2
    <3>2. QED
      BY <3>1, <1>2, <1>3, PrefixOfAppend
  <2>2. SubSeq(committed, 1, n + 1 - 1) = committed
    BY <1>2, SubSeqFull
  <2>3. ASSUME NEW k \in 1..n
        PROVE  Admissible(SubSeq(committed', 1, k - 1), committed'[k].writes)
    <3>1. Admissible(SubSeq(committed, 1, k - 1), committed[k].writes)
      BY DEF DiskInv, History
    <3>2. k \in 1..(n + 1)
      BY <1>2
    <3>3. QED
      BY <3>1, <3>2, <2>1, <1>4, Zenon
  <2>4. ASSUME NEW k \in 1..(n + 1)
        PROVE  Admissible(SubSeq(committed', 1, k - 1), committed'[k].writes)
    <3>1. CASE k = n + 1
      <4>1. SubSeq(committed', 1, k - 1) = committed
        BY <3>1, <2>1, <2>2, <1>2
      <4>2. committed'[k].writes = ws
        BY <3>1, <1>4
      <4>3. Admissible(committed, ws)
        BY <1>1 DEF Writing
      <4>4. QED
        BY <4>1, <4>2, <4>3, Zenon
    <3>2. QED
      BY <3>1, <2>3, <1>6, Zenon
  <2>5. 1..Len(committed') = 1..(n + 1)
    BY <1>4
  <2>6. QED
    BY <2>4, <2>5, Zenon DEF History
<1>9. Sorted'
  BY <1>3 DEF DiskInv, Sorted
<1>10. written = SideWrites(ws)
  BY <1>1 DEF Writing, Unwritten
<1>11. Present'
  <2>1. ASSUME NEW i \in SideWrites(ws)
        PROVE  \E p \in 1..Len(side[ws[i].id]) :
                   side[ws[i].id][p] = [seq |-> n + 1, ordinal |-> i, value |-> ws[i].value]
    BY <1>1, <1>2, <1>10 DEF Writing
  <2>2. ASSUME NEW k \in 1..(n + 1), NEW i \in SideWrites(committed'[k].writes)
        PROVE  LET w == committed'[k].writes[i]
               IN  \E p \in 1..Len(side'[w.id]) :
                       side'[w.id][p] = [seq |-> k, ordinal |-> i, value |-> w.value]
    <3>1. CASE k \in 1..n
      <4>1. committed'[k] = committed[k]
        BY <3>1, <1>4
      <4>2. i \in SideWrites(committed[k].writes) /\ side' = side
        BY <4>1, <1>3
      <4>3. LET w == committed[k].writes[i]
            IN  \E p \in 1..Len(side[w.id]) :
                    side[w.id][p] = [seq |-> k, ordinal |-> i, value |-> w.value]
        BY <3>1, <4>2 DEF DiskInv, Present
      <4>4. QED
        BY <4>1, <4>2, <4>3, Zenon
    <3>2. CASE k = n + 1
      <4>1. committed'[k] = pending /\ side' = side
        BY <3>2, <1>3, <1>4
      <4>2. i \in SideWrites(ws)
        BY <4>1
      <4>3. QED
        BY <4>1, <4>2, <2>1, <3>2, Zenon
    <3>3. QED
      BY <3>1, <3>2, <1>6
  <2>3. QED
    BY <2>2, <1>4 DEF Present
<1>12. ASSUME NEW f \in Files, NEW p \in 1..Len(side[f])
       PROVE  /\ side[f][p].seq \in 1..(n + 1)
              /\ side[f][p].seq = n + 1 => side[f][p].ordinal \in Mentions(ws, f)
  <2>1. side[f][p].seq \in Nat /\ side[f][p].seq >= 1
    BY RecordType DEF DiskInv, Known
  <2>2. side[f][p].seq > n => /\ side[f][p].seq = pending.seq
                              /\ side[f][p].ordinal \in written \cap Mentions(ws, f)
    BY <1>1, Zenon DEF Writing
  <2>3. QED
    BY <2>1, <2>2, <1>2
<1>13. Known'
  <2>1. ASSUME NEW f \in Files, NEW p \in 1..Len(side[f])
        PROVE  /\ side[f][p].seq >= 1
               /\ side[f][p].ordinal \in Mentions(committed'[side[f][p].seq].writes, f)
    <3>1. CASE side[f][p].seq \in 1..n
      BY <3>1, <1>4 DEF DiskInv, Known
    <3>2. CASE side[f][p].seq = n + 1
      BY <3>2, <1>4, <1>2, <1>12
    <3>3. QED
      BY <3>1, <3>2, <1>6, <1>12
  <2>2. QED
    BY <2>1, <1>3 DEF Known
<1>14. Safe'
  <2>1. ASSUME NEW f \in Files, NEW p \in 1..Len(side[f]), fsync
        PROVE  p <= kept[f]
    <3>1. CASE side[f][p].seq = n + 1
      <4>1. f \in SideFiles(ws)
        BY <3>1, <1>12 DEF SideFiles, Mentions
      <4>2. kept[f] = Len(side[f])
        BY <4>1, <2>1, <1>1 DEF Writing
      <4>3. QED
        BY <4>2, RecordType
    <3>2. CASE side[f][p].seq \in 1..n
      BY <3>2, <2>1 DEF DiskInv, Safe
    <3>3. QED
      BY <3>1, <3>2, <1>6, <1>12
  <2>2. QED
    BY <2>1, <1>3 DEF DiskInv, Safe
<1>15. \A f \in Files : NoTail(f)'
  BY <1>12, <1>3, <1>4, <1>2 DEF NoTail
<1>16. DiskInv'
  BY <1>7, <1>8, <1>9, <1>11, <1>13, <1>14 DEF DiskInv
<1>17. PhaseInv'
  BY <1>1, <1>2, <1>3, <1>15 DEF PhaseInv
<1>18. QED
  BY <1>5, <1>16, <1>17

\* Memory follows the line (apply).
LEMMA ApplyStep ==
    ASSUME Ind, Apply
    PROVE  Ind'
<1> USE DEF Ind
<1>1. /\ phase = "applying" /\ pending \in Commit /\ committed = Append(memory, pending)
      /\ torn = {} /\ \A f \in Files : NoTail(f)
  BY DEF Apply, PhaseInv
<1>2. /\ memory' = committed /\ phase' = "open" /\ pending' = None /\ written' = {}
      /\ UNCHANGED <<main, side, torn, kept, fsync, todo, committed, faults, crashes>>
  BY <1>1 DEF Apply, disk, budget
<1>3. TypeOK' /\ DiskInv'
  BY <1>2, DiskUntouched DEF TypeOK
<1>4. PhaseInv'
  BY <1>1, <1>2 DEF PhaseInv, NoTail
<1>5. QED
  BY <1>3, <1>4

\* A failing operation leaves the files as they were, but for an incomplete line.
LEMMA FailStep ==
    ASSUME Ind, Fail
    PROVE  Ind'
<1> USE DEF Ind
<1>1. /\ phase' = "poisoned" /\ todo' = {} /\ pending' = None /\ written' = {}
      /\ UNCHANGED <<main, side, kept, fsync, memory, committed, crashes>>
      /\ faults' = faults + 1 /\ faults < MaxFaults
      /\ torn' \subseteq torn \cup InFlight
  BY DEF Fail
<1>2. TypeOK'
  BY <1>1, InFlightType, BoundsAssumption DEF TypeOK, BoundsAssumption
<1>3. DiskInv'
  BY <1>1, DiskUntouched
<1>4. PhaseInv'
  BY <1>1 DEF PhaseInv
<1>5. QED
  BY <1>2, <1>3, <1>4

\* What a killed process leaves behind is what recover() expects.
LEMMA CrashStep ==
    ASSUME Ind, Crash
    PROVE  Ind'
<1> USE DEF Ind
<1>1. /\ phase' = "closed" /\ todo' = {} /\ pending' = None /\ written' = {} /\ memory' = <<>>
      /\ UNCHANGED <<main, side, kept, fsync, committed, faults>>
      /\ crashes' = crashes + 1 /\ crashes < MaxCrashes
      /\ torn' \subseteq torn \cup InFlight
  BY DEF Crash, Stopped
<1>2. TypeOK'
  BY <1>1, InFlightType, BoundsAssumption DEF TypeOK, BoundsAssumption
<1>3. DiskInv'
  BY <1>1, DiskUntouched
<1>4. PhaseInv'
  BY <1>1 DEF PhaseInv
<1>5. QED
  BY <1>2, <1>3, <1>4

\* Opening: reading, replaying and the ends of it.
LEMMA ReadMainStep ==
    ASSUME Ind, ReadMain
    PROVE  Ind'
<1> USE DEF Ind
<1>1. /\ phase' = "reading" /\ todo' = Files /\ torn' = torn \ {Main}
      /\ UNCHANGED <<main, side, kept, fsync, pending, written, memory, committed, faults, crashes>>
  BY RecoveryAccepts DEF ReadMain, budget
<1>2. TypeOK'
  BY <1>1 DEF TypeOK
<1>3. DiskInv'
  BY <1>1, DiskUntouched
<1>4. PhaseInv'
  BY <1>1, <1>2 DEF PhaseInv, TypeOK
<1>5. QED
  BY <1>2, <1>3, <1>4

\* Reading a sidecar cuts off its incomplete end and finds its records in order.
LEMMA ReadSideStep ==
    ASSUME Ind, NEW f \in Files, ReadSide(f)
    PROVE  Ind'
<1> USE DEF Ind
<1>1. /\ phase = "reading" /\ phase' = "reading" /\ todo' = todo \ {f} /\ torn' = torn \ {f}
      /\ UNCHANGED <<main, side, kept, fsync, pending, written, memory, committed, faults, crashes>>
  BY RecoveryAccepts DEF ReadSide, budget
<1>2. TypeOK'
  BY <1>1 DEF TypeOK
<1>3. DiskInv'
  BY <1>1, DiskUntouched
<1>4. PhaseInv'
  BY <1>1 DEF PhaseInv
<1>5. QED
  BY <1>2, <1>3, <1>4

\* Replaying finds every record and ends with the commits on file in memory.
LEMMA ReplayStep ==
    ASSUME Ind, Replay
    PROVE  Ind'
<1> USE DEF Ind
<1>1. /\ phase = "reading" /\ todo = {} /\ phase' = "trimming" /\ todo' = Files /\ memory' = committed
      /\ UNCHANGED <<main, side, torn, kept, fsync, pending, written, committed, faults, crashes>>
  BY RecoveryAccepts, DecodesCommits DEF Replay, disk, budget
<1>2. TypeOK'
  BY <1>1 DEF TypeOK
<1>3. DiskInv'
  BY <1>1, DiskUntouched
<1>4. PhaseInv'
  BY <1>1 DEF PhaseInv
<1>5. QED
  BY <1>2, <1>3, <1>4

\* After the last sidecar was trimmed the directory is clean.
LEMMA OpenedStep ==
    ASSUME Ind, Opened
    PROVE  Ind'
<1> USE DEF Ind
<1>1. /\ phase = "trimming" /\ todo = {} /\ phase' = "open"
      /\ UNCHANGED <<main, side, torn, kept, fsync, todo, pending, written, memory, committed, faults, crashes>>
  BY DEF Opened, disk, budget
<1>2. TypeOK' /\ DiskInv'
  BY <1>1, DiskUntouched DEF TypeOK
<1>3. PhaseInv'
  BY <1>1 DEF PhaseInv, NoTail
<1>4. QED
  BY <1>2, <1>3

\* Closing, and an opening that failed, leave the files to the next opening.
LEMMA ShutStep ==
    ASSUME Ind, OpenFails \/ Close
    PROVE  Ind'
<1> USE DEF Ind
<1>1. /\ phase' = "closed" /\ memory' = <<>> /\ todo' \subseteq todo
      /\ UNCHANGED <<main, side, torn, kept, fsync, pending, written, committed, crashes>>
      /\ faults' \in 0..MaxFaults
  BY BoundsAssumption DEF OpenFails, Close, disk, budget, TypeOK, BoundsAssumption
<1>2. TypeOK' /\ DiskInv'
  BY <1>1, DiskUntouched DEF TypeOK
<1>3. PhaseInv'
  BY <1>1 DEF PhaseInv
<1>4. QED
  BY <1>2, <1>3

\* Trimming removes exactly the records no line refers to.
LEMMA TrimStep ==
    ASSUME Ind, NEW f \in Files, Trim(f)
    PROVE  Ind'
<1> USE DEF Ind
<1>1. UnconfirmedIsTail(f) /\ phase = "trimming" /\ torn = {} /\ memory = committed
      /\ \A g \in Files \ todo : NoTail(g)
  BY RecoveryAccepts DEF Trim, PhaseInv
<1>2. PICK n \in 0..Len(side[f]) :
        /\ Unconfirmed(f) = (n + 1)..Len(side[f])
        /\ side' = [side EXCEPT ![f] = SubSeq(@, 1, n)]
        /\ kept' = [kept EXCEPT ![f] = Least(@, n)]
  BY <1>1 DEF Trim
<1>3. /\ todo' = todo \ {f} /\ phase' = phase
      /\ UNCHANGED <<main, torn, fsync, pending, written, memory, committed, faults, crashes>>
  BY <1>1 DEF Trim, budget
<1>4. side[f] \in Seq(Record) /\ Len(side[f]) \in Nat /\ n \in Nat
  BY RecordType, LenProperties
<1>5. \A p \in 1..n : side[f][p] \in Record
  BY <1>4
<1>6. /\ side'[f] = SubSeq(side[f], 1, n) /\ \A g \in Files : g # f => side'[g] = side[g]
      /\ kept'[f] = Least(kept[f], n) /\ \A g \in Files : g # f => kept'[g] = kept[g]
  BY <1>2 DEF TypeOK
<1>7. /\ side'[f] \in Seq(Record) /\ Len(side'[f]) = n
      /\ \A p \in 1..n : p \in 1..Len(side[f]) /\ side'[f][p] = side[f][p]
  BY <1>4, <1>5, <1>6, SubSeqProperties
<1>8. \A p \in 1..Len(side[f]) : p <= n <=> side[f][p].seq <= Len(committed)
  <2>1. DOMAIN side[f] = 1..Len(side[f])
    BY <1>4
  <2>2. \A p \in 1..Len(side[f]) : p \in Unconfirmed(f) <=> ~(side[f][p].seq <= Len(committed))
    BY <2>1, ConfirmedByNumber DEF Unconfirmed
  <2>3. \A p \in 1..Len(side[f]) : p \in Unconfirmed(f) <=> p > n
    BY <1>2, <1>4
  <2>4. QED
    BY <2>2, <2>3, <1>4
<1>9. \A g \in Files : \A p \in 1..Len(side'[g]) : p \in 1..Len(side[g]) /\ side'[g][p] = side[g][p]
  BY <1>6, <1>7
<1>10. \A g \in Files : \A p \in 1..Len(side[g]) :
         side[g][p].seq <= Len(committed) => p \in 1..Len(side'[g]) /\ side'[g][p] = side[g][p]
  BY <1>4, <1>6, <1>7, <1>8
<1>11. \A g \in Files : kept[g] \in Nat /\ Len(side[g]) \in Nat
  BY RecordType, LenProperties DEF TypeOK
<1>12. kept'[f] \in Nat /\ kept'[f] <= n /\ (kept'[f] = n \/ kept'[f] = kept[f])
  BY <1>4, <1>6, <1>11 DEF Least
<1>13. TypeOK'
  BY <1>2, <1>3, <1>6, <1>7, <1>12 DEF TypeOK
<1>14. Sorted'
  <2>1. ASSUME NEW g \in Files, NEW p \in 1..Len(side'[g]), NEW q \in 1..Len(side'[g]), p < q
        PROVE  Before(side'[g][p], side'[g][q])
    BY <2>1, <1>9 DEF DiskInv, Sorted
  <2>2. QED
    BY <2>1 DEF Sorted, Before
<1>15. Present'
  <2>1. ASSUME NEW k \in 1..Len(committed), NEW i \in SideWrites(committed[k].writes)
        PROVE  LET w == committed[k].writes[i]
               IN  \E p \in 1..Len(side'[w.id]) :
                       side'[w.id][p] = [seq |-> k, ordinal |-> i, value |-> w.value]
    <3> DEFINE w == committed[k].writes[i]
    <3>1. committed[k] \in Commit /\ k <= Len(committed)
      BY DEF TypeOK
    <3>2. w.id \in Files
      BY <3>1, SideWriteType
    <3>3. PICK p \in 1..Len(side[w.id]) : side[w.id][p] = [seq |-> k, ordinal |-> i, value |-> w.value]
      BY DEF DiskInv, Present
    <3>4. k \in Nat /\ side[w.id][p].seq = k
      BY <3>1, <3>3
    <3>5. p \in 1..Len(side'[w.id]) /\ side'[w.id][p] = side[w.id][p]
      BY <3>1, <3>2, <3>4, <1>10
    <3>6. QED
      BY <3>3, <3>5
  <2>2. QED
    BY <2>1, <1>3 DEF Present
<1>16. Known'
  BY <1>3, <1>9 DEF DiskInv, Known
<1>17. Safe'
  <2>1. ASSUME NEW g \in Files
        PROVE  /\ kept'[g] <= Len(side'[g])
               /\ fsync => \A p \in 1..Len(side'[g]) :
                    side'[g][p].seq <= Len(committed) => p <= kept'[g]
    <3>1. CASE g = f
      <4>1. kept'[f] <= Len(side'[f])
        BY <1>7, <1>12
      <4>2. ASSUME fsync, NEW p \in 1..Len(side'[f]), side'[f][p].seq <= Len(committed)
            PROVE  p <= kept'[f]
        <5>1. p <= kept[f]
          BY <4>2, <1>9 DEF DiskInv, Safe
        <5>2. p <= n
          BY <1>7, <1>4
        <5>3. QED
          BY <5>1, <5>2, <1>12
      <4>3. QED
        BY <3>1, <4>1, <4>2
    <3>2. CASE g # f
      BY <3>2, <1>6 DEF DiskInv, Safe
    <3>3. QED
      BY <3>1, <3>2
  <2>2. QED
    BY <2>1, <1>3 DEF Safe
<1>18. DiskInv'
  BY <1>3, <1>14, <1>15, <1>16, <1>17 DEF DiskInv, LinesMatch, History
<1>19. PhaseInv'
  <2>1. ASSUME NEW g \in Files \ todo'
        PROVE  NoTail(g)'
    <3>1. CASE g = f
      <4>1. ASSUME NEW p \in 1..n
            PROVE  side[f][p].seq <= Len(committed)
        BY <1>7, <1>8, <1>4
      <4>2. QED
        BY <3>1, <4>1, <1>7, <1>3 DEF NoTail
    <3>2. CASE g # f
      BY <3>2, <1>1, <1>3, <1>6 DEF NoTail
    <3>3. QED
      BY <3>1, <3>2
  <2>2. QED
    BY <2>1, <1>1, <1>3 DEF PhaseInv
<1>20. QED
  BY <1>13, <1>18, <1>19

\* A prefix of a prefix.
LEMMA PrefixOfPrefix ==
    ASSUME NEW S, NEW s \in Seq(S), NEW n \in 0..Len(s), NEW m \in 0..n
    PROVE  SubSeq(SubSeq(s, 1, n), 1, m) = SubSeq(s, 1, m)
  OBVIOUS

\* What a power failure leaves of the files is a shorter history, whole.
LEMMA PowerFailureStep ==
    ASSUME Ind, PowerFailure
    PROVE  Ind'
<1> USE DEF Ind
<1>1. PICK lines \in 0..Len(main), records \in [Files -> UNION {kept[f]..Len(side[f]) : f \in Files}] :
        /\ \A f \in Files : records[f] \in kept[f]..Len(side[f])
        /\ main' = SubSeq(main, 1, lines) /\ committed' = SubSeq(committed, 1, lines)
        /\ side' = [f \in Files |-> SubSeq(side[f], 1, records[f])]
        /\ kept' = records
        /\ torn' \in SUBSET (torn \cup InFlight
               \cup {f \in Files : records[f] < Len(side[f])}
               \cup (IF lines < Len(main) THEN {Main} ELSE {}))
  BY DEF PowerFailure
<1>2. /\ phase' = "closed" /\ todo' = {} /\ pending' = None /\ written' = {} /\ memory' = <<>>
      /\ fsync /\ fsync' = fsync /\ faults' = faults /\ crashes' = crashes + 1 /\ crashes < MaxCrashes
  BY DEF PowerFailure, Stopped
<1>3. /\ main \in Seq(Marker) /\ committed \in Seq(Commit) /\ Len(main) = Len(committed)
      /\ Len(main) \in Nat /\ lines \in Nat /\ lines <= Len(main)
  BY DEF TypeOK, DiskInv, LinesMatch
<1>4. /\ \A k \in 1..lines : k \in 1..Len(main) /\ main[k] \in Marker /\ committed[k] \in Commit
  BY <1>3
<1>5. /\ main' \in Seq(Marker) /\ committed' \in Seq(Commit) /\ Len(main') = lines /\ Len(committed') = lines
      /\ \A k \in 1..lines : main'[k] = main[k] /\ committed'[k] = committed[k]
  BY <1>1, <1>3, <1>4, SubSeqProperties
<1>6. ASSUME NEW f \in Files
      PROVE  /\ records[f] \in Nat /\ kept[f] <= records[f]
             /\ side'[f] \in Seq(Record) /\ Len(side'[f]) = records[f]
             /\ \A p \in 1..records[f] : p \in 1..Len(side[f]) /\ side'[f][p] = side[f][p]
  <2>1. kept[f] \in Nat /\ side[f] \in Seq(Record) /\ Len(side[f]) \in Nat
    BY RecordType, LenProperties DEF TypeOK
  <2>2. records[f] \in kept[f]..Len(side[f])
    BY <1>1
  <2>3. \A p \in 1..records[f] : p \in 1..Len(side[f]) /\ side[f][p] \in Record
    BY <2>1, <2>2
  <2>4. side'[f] = SubSeq(side[f], 1, records[f])
    BY <1>1
  <2>5. records[f] \in Nat /\ kept[f] <= records[f] /\ records[f] <= Len(side[f])
    BY <2>1, <2>2
  <2>6. /\ side'[f] \in Seq(Record) /\ Len(side'[f]) = records[f]
        /\ \A p \in 1..records[f] : side'[f][p] = side[f][p]
    BY <2>1, <2>3, <2>4, <2>5, SubSeqProperties
  <2>7. QED
    BY <2>3, <2>5, <2>6
<1>7. TypeOK'
  <2>1. side' \in [Files -> Seq(Record)] /\ kept' \in [Files -> Nat]
    BY <1>1, <1>6
  <2>2. torn' \subseteq Files \cup {Main}
    BY <1>1, InFlightType DEF TypeOK
  <2>3. QED
    BY <2>1, <2>2, <1>2, <1>5, BoundsAssumption DEF TypeOK, BoundsAssumption
<1>8. LinesMatch'
  BY <1>3, <1>4, <1>5 DEF DiskInv, LinesMatch
<1>9. History'
  <2>1. ASSUME NEW k \in 1..lines
        PROVE  Admissible(SubSeq(committed', 1, k - 1), committed'[k].writes)
    <3>1. SubSeq(committed', 1, k - 1) = SubSeq(committed, 1, k - 1)
      <4>1. k - 1 \in 0..lines /\ lines \in 0..Len(committed)
        BY <1>3
      <4>2. QED
        BY <4>1, <1>1, <1>3, PrefixOfPrefix
    <3>2. k \in 1..Len(committed)
      BY <1>3
    <3>3. Admissible(SubSeq(committed, 1, k - 1), committed[k].writes)
      BY <3>2 DEF DiskInv, History
    <3>4. committed'[k] = committed[k]
      BY <1>5
    <3>5. QED
      BY <3>1, <3>3, <3>4, Zenon
  <2>2. 1..Len(committed') = 1..lines
    BY <1>5
  <2>3. QED
    BY <2>1, <2>2, Zenon DEF History
<1>10. Sorted'
  <2>1. ASSUME NEW f \in Files, NEW p \in 1..Len(side'[f]), NEW q \in 1..Len(side'[f]), p < q
        PROVE  Before(side'[f][p], side'[f][q])
    <3>1. p \in 1..records[f] /\ q \in 1..records[f]
      BY <1>6
    <3>2. /\ p \in 1..Len(side[f]) /\ q \in 1..Len(side[f])
          /\ side'[f][p] = side[f][p] /\ side'[f][q] = side[f][q]
      BY <3>1, <1>6
    <3>3. Before(side[f][p], side[f][q])
      BY <3>2, <2>1 DEF DiskInv, Sorted
    <3>4. QED
      BY <3>2, <3>3, Zenon
  <2>2. QED
    BY <2>1 DEF Sorted, Before
<1>11. Present'
  <2>1. ASSUME NEW k \in 1..lines, NEW i \in SideWrites(committed'[k].writes)
        PROVE  LET w == committed'[k].writes[i]
               IN  \E p \in 1..Len(side'[w.id]) :
                       side'[w.id][p] = [seq |-> k, ordinal |-> i, value |-> w.value]
    <3> DEFINE w == committed[k].writes[i]
    <3>1. committed[k] \in Commit /\ committed'[k] = committed[k] /\ k \in 1..Len(committed)
      BY <1>3, <1>4, <1>5
    <3>2. w.id \in Files /\ i \in SideWrites(committed[k].writes)
      BY <3>1, SideWriteType
    <3>3. PICK p \in 1..Len(side[w.id]) : side[w.id][p] = [seq |-> k, ordinal |-> i, value |-> w.value]
      BY <3>1, <3>2 DEF DiskInv, Present
    <3>4. p <= kept[w.id]
      <4>1. side[w.id][p].seq = k /\ k <= Len(committed)
        BY <3>1, <3>3
      <4>2. \A q \in 1..Len(side[w.id]) : side[w.id][q].seq <= Len(committed) => q <= kept[w.id]
        BY <3>2, <1>2, Zenon DEF DiskInv, Safe
      <4>3. QED
        BY <4>1, <4>2
    <3>5. kept[w.id] \in Nat /\ records[w.id] \in Nat /\ kept[w.id] <= records[w.id]
      BY <3>2, <1>6 DEF TypeOK
    <3>6. p \in 1..records[w.id]
      BY <3>4, <3>5
    <3>7. side'[w.id][p] = side[w.id][p] /\ records[w.id] = Len(side'[w.id])
      BY <3>2, <3>6, <1>6
    <3>8. QED
      BY <3>1, <3>3, <3>6, <3>7
  <2>2. QED
    BY <2>1, <1>5 DEF Present
<1>12. Known'
  <2>1. ASSUME NEW f \in Files, NEW p \in 1..Len(side'[f])
        PROVE  /\ side'[f][p].seq >= 1
               /\ side'[f][p].seq <= lines =>
                    side'[f][p].ordinal \in Mentions(committed'[side'[f][p].seq].writes, f)
    <3>1. p \in 1..Len(side[f]) /\ side'[f][p] = side[f][p] /\ side[f][p].seq \in Nat /\ side[f][p].seq >= 1
      BY <1>6, RecordType DEF DiskInv, Known
    <3>2. ASSUME side[f][p].seq <= lines
          PROVE  /\ committed'[side[f][p].seq] = committed[side[f][p].seq]
                 /\ side[f][p].ordinal \in Mentions(committed[side[f][p].seq].writes, f)
      <4>1. side[f][p].seq \in 1..lines /\ side[f][p].seq <= Len(committed)
        <5>1. lines \in Nat /\ Len(committed) \in Nat /\ lines <= Len(committed)
          BY <1>3
        <5>2. lines <= Len(committed) => \A m \in Nat : m >= 1 /\ m <= lines => m \in 1..lines /\ m <= Len(committed)
          BY <5>1
        <5>3. QED
          BY <5>1, <5>2, <3>1, <3>2, Zenon
      <4>2. committed'[side[f][p].seq] = committed[side[f][p].seq]
        BY <4>1, <1>5
      <4>3. side[f][p].ordinal \in Mentions(committed[side[f][p].seq].writes, f)
        BY <4>1, <3>1 DEF DiskInv, Known
      <4>4. QED
        BY <4>2, <4>3
    <3>3. QED
      BY <3>1, <3>2
  <2>2. QED
    BY <2>1, <1>5 DEF Known
<1>13. Safe'
  <2>1. \A f \in Files : kept'[f] = Len(side'[f]) /\ Len(side'[f]) \in Nat
    BY <1>1, <1>6
  <2>2. QED
    BY <2>1 DEF Safe
<1>14. PhaseInv'
  BY <1>2 DEF PhaseInv
<1>15. QED
  BY <1>7, <1>8, <1>9, <1>10, <1>11, <1>12, <1>13, <1>14 DEF DiskInv

-----------------------------------------------------------------------------
(* The theorems.                                                           *)

\* The inductive invariant: files, memory and the commit in progress agree at every step of
\* commit() and recover() and after every failure, for any sets of ids, contents and commits.
THEOREM Inductive == Spec => []Ind
<1>1. Ind /\ [Next]_vars => Ind'
  <2> SUFFICES ASSUME Ind, [Next]_vars PROVE Ind'
    OBVIOUS
  <2>1. ASSUME NEW ws \in Commits, Prepare(ws) PROVE Ind'
    BY <2>1, PrepareStep
  <2>2. CASE AppendRecord
    BY <2>2, AppendRecordStep
  <2>3. CASE AppendMarker
    BY <2>3, AppendMarkerStep
  <2>4. CASE Apply
    BY <2>4, ApplyStep
  <2>5. CASE Fail
    BY <2>5, FailStep
  <2>6. CASE ReadMain
    BY <2>6, ReadMainStep
  <2>7. CASE Replay
    BY <2>7, ReplayStep
  <2>8. CASE Opened
    BY <2>8, OpenedStep
  <2>9. CASE OpenFails \/ Close
    BY <2>9, ShutStep
  <2>10. ASSUME NEW f \in Files, Flush(f) \/ ReadSide(f) \/ Trim(f) PROVE Ind'
    BY <2>10, FlushStep, ReadSideStep, TrimStep
  <2>11. CASE Crash
    BY <2>11, CrashStep
  <2>12. CASE PowerFailure
    BY <2>12, PowerFailureStep
  <2>13. CASE UNCHANGED vars
    <3>1. UNCHANGED <<main, side, torn, kept, fsync, phase, todo, pending, written, memory, committed,
                      faults, crashes>>
      BY <2>13 DEF vars, disk, budget
    <3>2. TypeOK'
      BY <3>1 DEF Ind, TypeOK
    <3>3. DiskInv'
      BY <3>1, DiskUntouched DEF Ind
    <3>4. Writing => Writing'
      BY <3>1 DEF Writing, Unwritten
    <3>5. \A f \in Files : NoTail(f) => NoTail(f)'
      BY <3>1 DEF NoTail
    <3>6. PhaseInv'
      BY <3>1, <3>4, <3>5 DEF Ind, PhaseInv
    <3>7. QED
      BY <3>2, <3>3, <3>6 DEF Ind
  <2>14. QED
    BY <2>1, <2>2, <2>3, <2>4, <2>5, <2>6, <2>7, <2>8, <2>9, <2>10, <2>11, <2>12, <2>13 DEF Next
<1>2. QED
  BY InitInd, <1>1, PTL DEF Spec

\* recover() never refuses the directory, whatever failed or crashed before.
THEOREM NeverCorrupts == Spec => []NeverCorrupt
<1>1. Ind => NeverCorrupt
  BY DEF Ind, PhaseInv, NeverCorrupt
<1>2. QED
  BY Inductive, <1>1, PTL

\* What the files hold together is what was committed: records are matched with lines by their
\* number and position, and no other record has those.
THEOREM HoldsCommits == Spec => []FilesHoldCommits
<1>1. Ind => FilesHoldCommits
  BY DecodesCommits DEF Ind, FilesHoldCommits
<1>2. QED
  BY Inductive, <1>1, PTL

\* An open store answers from its files, and they hold nothing else.
THEOREM CleanWhenOpen == Spec => []OpenIsClean
<1>1. ASSUME Ind, phase = "open"
      PROVE  memory = committed /\ torn = {} /\ \A f \in Files : NoTail(f)
  BY <1>1 DEF Ind, PhaseInv
<1>2. ASSUME Ind, phase = "open", NEW f \in Files
      PROVE  Unconfirmed(f) = {}
  <2>1. DOMAIN side[f] = 1..Len(side[f])
    BY <1>2, RecordType, LenProperties DEF Ind
  <2>2. \A p \in 1..Len(side[f]) : Confirmed(f, side[f][p])
    BY <1>1, <1>2, ConfirmedByNumber DEF Ind, NoTail
  <2>3. QED
    BY <2>1, <2>2 DEF Unconfirmed
<1>3. Ind => OpenIsClean
  BY <1>1, <1>2 DEF OpenIsClean
<1>4. QED
  BY Inductive, <1>3, PTL

\* One step of the storage, seen as a step of DurableStore.
LEMMA StoreStep ==
    ASSUME Ind, Ind', [Next]_vars
    PROVE  [Store!Next]_Store!svars
<1> USE DEF Store!Next, Store!svars
<1>1. CASE AppendMarker
  <2>1. pending \in Commit /\ pending.seq = Len(committed) + 1 /\ memory = committed
    BY <1>1 DEF AppendMarker, Ind, PhaseInv, Writing
  <2>2. pending = [seq |-> Len(committed) + 1, writes |-> pending.writes] /\ pending.writes \in Commits
    BY <2>1 DEF Commit
  <2>3. committed' = Append(committed, [seq |-> Len(committed) + 1, writes |-> pending.writes])
    BY <1>1, <2>2 DEF AppendMarker
  <2>4. Usable /\ Usable' /\ UNCHANGED <<memory, fsync>>
    BY <1>1 DEF AppendMarker, Usable
  <2>5. Store!Publish
    BY <2>1, <2>2, <2>3, <2>4 DEF Store!Publish
  <2>6. QED
    BY <2>5
<1>2. CASE Apply
  <2>1. memory \in Seq(Commit) /\ pending \in Commit /\ committed = Append(memory, pending)
    BY <1>2 DEF Apply, Ind, TypeOK, PhaseInv
  <2>2. memory # committed
    BY <2>1
  <2>3. Usable /\ Usable' /\ memory' = committed /\ UNCHANGED <<committed, fsync>>
    BY <1>2, <2>1 DEF Apply, Usable
  <2>4. Store!Acknowledge
    BY <2>2, <2>3 DEF Store!Acknowledge
  <2>5. QED
    BY <2>4
<1>3. CASE Fail \/ OpenFails \/ Close \/ Crash
  <2>1. ~Usable' /\ UNCHANGED <<committed, fsync>>
    BY <1>3 DEF Fail, OpenFails, Close, Crash, Stopped, Usable
  <2>2. Store!Fail
    BY <2>1 DEF Store!Fail, Store!Unreadable
  <2>3. QED
    BY <2>2
<1>4. CASE Opened
  <2>1. ~Usable /\ Usable' /\ memory' = committed /\ UNCHANGED <<committed, fsync>>
    BY <1>4 DEF Opened, Usable, Ind, PhaseInv
  <2>2. Store!Reopen
    BY <2>1 DEF Store!Reopen
  <2>3. QED
    BY <2>2
<1>5. CASE PowerFailure
  <2>1. PICK n \in 0..Len(main) : committed' = SubSeq(committed, 1, n)
    BY <1>5 DEF PowerFailure
  <2>2. Len(main) = Len(committed)
    BY DEF Ind, DiskInv, LinesMatch
  <2>3. ~Usable' /\ fsync /\ fsync' = fsync
    BY <1>5 DEF PowerFailure, Stopped, Usable
  <2>4. Store!Lose
    BY <2>1, <2>2, <2>3 DEF Store!Lose, Store!Unreadable
  <2>5. QED
    BY <2>4
<1>6. ASSUME NEW ws \in Commits, Prepare(ws)
      PROVE  UNCHANGED Store!svars
  BY <1>6 DEF Prepare, Usable
<1>7. CASE AppendRecord
  BY <1>7 DEF AppendRecord, Usable
<1>8. CASE ReadMain
  BY <1>8 DEF ReadMain, Usable
<1>9. CASE Replay
  BY <1>9 DEF Replay, Usable
<1>10. ASSUME NEW f \in Files, Flush(f) \/ ReadSide(f) \/ Trim(f)
       PROVE  UNCHANGED Store!svars
  <2>1. CASE Flush(f)
    BY <2>1 DEF Flush, Usable
  <2>2. CASE ReadSide(f)
    BY <2>2 DEF ReadSide, Usable
  <2>3. CASE Trim(f)
    BY <2>3 DEF Trim, Usable
  <2>4. QED
    BY <1>10, <2>1, <2>2, <2>3
<1>11. CASE UNCHANGED vars
  BY <1>11 DEF vars, disk, budget, Usable
<1>12. QED
  BY <1>1, <1>2, <1>3, <1>4, <1>5, <1>6, <1>7, <1>8, <1>9, <1>10, <1>11 DEF Next

\* The files and the memory implement DurableStore: one commit takes effect with one line, is
\* acknowledged after it, and no failure brings back or breaks up a part of one.
THEOREM ImplementsStore == Spec => StoreSpec
<1>1. Init => Store!Init
  BY DEF Init, Store!Init, Usable
<1>2. QED
  BY Inductive, <1>1, StoreStep, PTL DEF Spec, StoreSpec, Store!Spec

=============================================================================
