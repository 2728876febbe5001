--------------------------- MODULE StartupProofs ---------------------------
(***************************************************************************)
(* Proofs about Pagination and Startup: for any rows, times and page size, *)
(* any records an earlier version can have written and any kills.          *)
(***************************************************************************)
EXTENDS Startup, FiniteSetTheorems, WellFoundedInduction, TLAPS

-----------------------------------------------------------------------------
(* The walk through the list (Pagination), for any number of rows, times   *)
(* and page size.                                                          *)

\* Rows have numbers to compare.
LEMMA RowsAreNumbered ==
    ASSUME NEW r \in Row
    PROVE  r.id \in Int /\ r.time \in Int
<1>1. r.id \in Ids /\ r.time \in Nat
  BY DEF Row
<1>2. r.id \in Int
  BY <1>1, IdsAssumption, Zenon DEF IdsAssumption
<1>3. QED
  BY <1>1, <1>2

\* Positions are strictly ordered (the keyset comparison of list_files).
LEMMA OlderIsTransitive ==
    ASSUME NEW r \in Row, NEW s \in Row, NEW t \in Row, Older(r, s), Older(s, t)
    PROVE  Older(r, t)
  BY RowsAreNumbered DEF Older

\* No row is older than itself, nor two rows each older than the other.
LEMMA OlderIsAsymmetric ==
    ASSUME NEW r \in Row, NEW s \in Row, Older(r, s)
    PROVE  ~ Older(s, r) /\ r # s
  BY RowsAreNumbered DEF Older

\* The empty walk satisfies the invariant.
LEMMA InitWalk == Init => WalkInv
  BY FS_EmptySet DEF Init, WalkInv, TypeOK, Row

\* What a page with more to come leaves: its last row is the cursor, every row up to it was given.
LEMMA MoreKeepsWalk ==
    ASSUME WalkInv, NEW page \in SUBSET After(cursor), PageWithMore(page), at # "end",
           UNCHANGED <<rows, coming, now>>
    PROVE  WalkInv'
<1> USE DEF WalkInv
<1>1. rows \subseteq Row /\ given \subseteq Row /\ start \subseteq Row
  BY DEF TypeOK
<1>2. page \subseteq rows /\ page \subseteq After(cursor)
  BY DEF After
<1>3. PICK last \in page : IsLast(last, page) /\ cursor' = last
  BY DEF PageWithMore
<1>4. last \in Row
  BY <1>1, <1>2
<1>5. \A r \in given : r \notin page /\ (cursor # None => cursor \in Row /\ (r = cursor \/ Older(cursor, r)))
  <2>1. CASE at = "first"
    BY <2>1
  <2>2. CASE at = "next"
    <3>1. cursor \in given /\ cursor \in Row /\ cursor # None
      BY <2>2, <1>1, NoneAssumption DEF Row, TypeOK
    <3>2. ASSUME NEW r \in given, r \in page
          PROVE  FALSE
      <4>1. Older(r, cursor) /\ r \in Row
        BY <3>1, <3>2, <1>1, <1>2 DEF After
      <4>2. r = cursor \/ Older(cursor, r)
        BY <2>2, <3>2
      <4>3. QED
        BY <3>1, <4>1, <4>2, OlderIsAsymmetric
    <3>3. QED
      BY <2>2, <3>1, <3>2
  <2>3. QED
    BY <2>1, <2>2 DEF TypeOK
<1>6. TypeOK'
  BY <1>1, <1>2, <1>3, <1>4 DEF TypeOK, PageWithMore, Give
<1>7. twice' = {}
  BY <1>5 DEF PageWithMore, Give
<1>8. at' = "next" /\ given' = given \cup page /\ start' = (IF at = "first" THEN rows ELSE start)
  BY DEF PageWithMore, Give
<1>9. start' \subseteq rows' /\ given' \subseteq rows'
  BY <1>2, <1>8
<1>10. cursor' \in given'
  BY <1>3, <1>8
<1>11. \A r \in given' : r = cursor' \/ Older(cursor', r)
  <2> TAKE r \in given'
  <2>1. CASE r \in page
    BY <2>1, <1>3 DEF IsLast
  <2>2. CASE r \in given
    <3>1. at = "next" /\ cursor # None
      BY <2>2, <1>1, NoneAssumption DEF TypeOK, Row
    <3>2. Older(last, cursor) /\ cursor \in Row
      BY <3>1, <1>2, <1>3, <1>5, <2>2 DEF After
    <3>3. r = cursor \/ Older(cursor, r)
      BY <1>5, <2>2, <3>1
    <3>4. QED
      BY <1>1, <1>3, <1>4, <2>2, <3>2, <3>3, OlderIsTransitive
  <2>3. QED
    BY <1>8, <2>1, <2>2
<1>12. \A r \in start' : r \in given' \/ Older(r, cursor')
  <2> TAKE r \in start'
  <2>1. r \in rows
    BY <1>8
  <2>2. CASE r \in After(cursor)
    BY <2>2, <1>3, <1>8 DEF PageWithMore, IsPage
  <2>3. CASE r \notin After(cursor)
    <3>1. at = "next" /\ r \in start
      BY <2>1, <2>3, <1>8 DEF After, TypeOK
    <3>2. cursor # None
      BY <2>1, <2>3 DEF After
    <3>3. r \in given
      BY <2>1, <2>3, <3>1, <3>2 DEF After
    <3>4. QED
      BY <1>8, <3>3
  <2>4. QED
    BY <2>2, <2>3
<1>13. QED
  BY <1>6, <1>7, <1>8, <1>9, <1>10, <1>11, <1>12

\* What the last page leaves: everything that was there at the beginning was given.
LEMMA LastKeepsWalk ==
    ASSUME WalkInv, LastPage, at # "end", UNCHANGED <<rows, coming, now>>
    PROVE  WalkInv'
<1> USE DEF WalkInv
<1>1. rows \subseteq Row /\ given \subseteq Row /\ start \subseteq Row
  BY DEF TypeOK
<1>2. After(cursor) \subseteq rows
  BY DEF After
<1>3. \A r \in given : r \notin After(cursor)
  <2>1. CASE at = "first"
    BY <2>1
  <2>2. CASE at = "next"
    <3>1. cursor \in Row /\ cursor # None
      BY <2>2, <1>1, NoneAssumption DEF Row
    <3>2. ASSUME NEW r \in given, r \in After(cursor)
          PROVE  FALSE
      <4>1. Older(r, cursor) /\ r \in Row
        BY <3>1, <3>2, <1>1 DEF After
      <4>2. r = cursor \/ Older(cursor, r)
        BY <2>2, <3>2
      <4>3. QED
        BY <3>1, <4>1, <4>2, OlderIsAsymmetric
    <3>3. QED
      BY <3>2
  <2>3. QED
    BY <2>1, <2>2 DEF TypeOK
<1>4. /\ at' = "end" /\ cursor' = cursor /\ given' = given \cup After(cursor)
      /\ start' = (IF at = "first" THEN rows ELSE start)
      /\ twice' = {}
  BY <1>3 DEF LastPage, Give
<1>5. start' \subseteq given'
  <2> SUFFICES ASSUME NEW r \in start'
               PROVE  r \in given'
    OBVIOUS
  <2>1. CASE at = "first"
    BY <2>1, <1>4 DEF After
  <2>2. CASE at = "next"
    <3>1. cursor # None
      BY <2>2, <1>1, NoneAssumption DEF Row
    <3>2. r \in given \/ (r \in rows /\ Older(r, cursor))
      BY <2>2, <1>4
    <3>3. QED
      BY <1>4, <3>1, <3>2 DEF After
  <2>3. QED
    BY <2>1, <2>2 DEF TypeOK
<1>6. QED
  BY <1>1, <1>2, <1>4, <1>5 DEF TypeOK

\* Every step keeps the invariant: writers only add rows, and they leave the walk alone.
LEMMA StepKeepsWalk == WalkInv /\ [Next]_vars => WalkInv'
<1> SUFFICES ASSUME WalkInv, [Next]_vars
             PROVE  WalkInv'
  OBVIOUS
<1>1. CASE Tick
  BY <1>1 DEF Tick, WalkInv, TypeOK
<1>2. CASE FetchPage
  BY <1>2, MoreKeepsWalk, LastKeepsWalk DEF FetchPage
<1>3. ASSUME NEW id \in Ids, Stamp(id)
      PROVE  WalkInv'
  BY <1>3 DEF Stamp, WalkInv, TypeOK, Row
<1>4. ASSUME NEW r \in coming, Commit(r)
      PROVE  WalkInv'
  <2>1. IsFiniteSet(rows')
    BY <1>4, FS_AddElement DEF Commit, WalkInv, TypeOK
  <2>2. QED
    BY <1>4, <2>1 DEF Commit, WalkInv, TypeOK
<1>5. CASE Done
  BY <1>5 DEF Done, vars, WalkInv, TypeOK
<1>6. CASE UNCHANGED vars
  BY <1>6 DEF vars, WalkInv, TypeOK
<1>7. QED
  BY <1>1, <1>2, <1>3, <1>4, <1>5, <1>6 DEF Next

\* The invariant of the walk holds in every state.
THEOREM Walk == Spec => []WalkInv
  BY InitWalk, StepKeepsWalk, PTL DEF Spec

\* No client is given a row twice, whatever is inserted while it walks (list_files).
THEOREM NothingRepeated == Spec => []NothingTwice
<1>1. WalkInv => NothingTwice
  BY DEF WalkInv, NothingTwice
<1>2. QED
  BY <1>1, Walk, PTL

\* A walk to the end gives every row that was there when it began (list_files, _encode_cursor).
THEOREM WalkComplete == Spec => []NothingSkipped
<1>1. WalkInv => NothingSkipped
  BY DEF WalkInv, NothingSkipped
<1>2. QED
  BY <1>1, Walk, PTL

-----------------------------------------------------------------------------
(* The records of revision 0002.                                           *)

\* Records that earlier versions wrote have times and ids to compare.
LEMMA OldFilesAreNumbered ==
    ASSUME NEW f \in OldFiles
    PROVE  /\ f.id \in Int /\ f.time \in Int /\ RowOf(f) \in Row
           /\ RowOf(f).id = f.id /\ RowOf(f).time = f.time
<1>1. RowOf(f) \in Row /\ RowOf(f).id = f.id /\ RowOf(f).time = f.time
  BY OldFilesAssumption, Zenon DEF OldFilesAssumption, RowOf
<1>2. QED
  BY <1>1, RowsAreNumbered

\* No two records have one id (the primary key of file_records).
LEMMA OldIdsDiffer ==
    ASSUME NEW f \in OldFiles, NEW g \in OldFiles, f.id = g.id
    PROVE  f = g
  BY OldFilesAssumption, Zenon DEF OldFilesAssumption

\* Records are strictly ordered by age ...
LEMMA AgeIsTransitive ==
    ASSUME NEW f \in OldFiles, NEW g \in OldFiles, NEW h \in OldFiles,
           Migrate!Older(f, g), Migrate!Older(g, h)
    PROVE  Migrate!Older(f, h)
  BY OldFilesAreNumbered DEF Migrate!Older

\* ... none is older than itself ...
LEMMA AgeIsIrreflexive ==
    ASSUME NEW f \in OldFiles
    PROVE  ~ Migrate!Older(f, f)
  BY OldFilesAreNumbered DEF Migrate!Older

\* ... and of two the one or the other is older.
LEMMA AgeIsTotal ==
    ASSUME NEW f \in OldFiles, NEW g \in OldFiles, f # g
    PROVE  Migrate!Older(f, g) \/ Migrate!Older(g, f)
<1>1. f.id # g.id
  BY OldIdsDiffer
<1>2. f.id \in Int /\ g.id \in Int /\ f.time \in Int /\ g.time \in Int
  BY OldFilesAreNumbered
<1>3. QED
  BY <1>1, <1>2 DEF Migrate!Older

\* A group of records has an oldest one, and it is the one 0003 keeps.
LEMMA OldestExists ==
    ASSUME NEW G, G \subseteq OldFiles, G # {}
    PROVE  /\ Migrate!Canonical(G) \in G
           /\ \A f \in G : f # Migrate!Canonical(G) => Migrate!Older(Migrate!Canonical(G), f)
<1> DEFINE Below(f) == {g \in G : Migrate!Older(g, f)}
           Belows == {Below(f) : f \in G}
<1>1. IsFiniteSet(G)
  BY OldFilesAssumption, FS_Subset DEF OldFilesAssumption
<1>2. Belows \subseteq SUBSET G /\ Belows # {}
  OBVIOUS
<1>3. Belows \subseteq FiniteSubsetsOf(G)
  BY <1>1, <1>2, FS_FiniteSubsetsOfFinite
<1>4. IsWellFoundedOn(StrictSubsetOrdering(G), FiniteSubsetsOf(G))
  BY FS_StrictSubsetOrderingWellFounded
<1>5. PICK x \in Belows : \A y \in Belows : <<y, x>> \notin StrictSubsetOrdering(G)
  <2> HIDE DEF Belows
  <2>1. QED
    BY <1>2, <1>3, <1>4, WFMin
<1>6. PICK f \in G : x = Below(f)
  BY <1>5
<1>7. Below(f) = {}
  <2> SUFFICES ASSUME NEW g \in Below(f)
               PROVE  FALSE
    OBVIOUS
  <2>1. g \in G /\ Migrate!Older(g, f)
    OBVIOUS
  <2>2. Below(g) \subseteq Below(f)
    BY <2>1, AgeIsTransitive
  <2>3. g \notin Below(g)
    BY <2>1, AgeIsIrreflexive
  <2>4. Below(g) \in Belows /\ Below(g) # Below(f)
    BY <2>1, <2>3
  <2>5. <<Below(g), Below(f)>> \in StrictSubsetOrdering(G)
    <3> HIDE DEF Below
    <3>1. Below(g) \in SUBSET G /\ Below(f) \in SUBSET G
      BY <1>2, <2>1 DEF Below
    <3>2. QED
      BY <2>2, <2>4, <3>1 DEF StrictSubsetOrdering
  <2>6. QED
    BY <1>5, <1>6, <2>4, <2>5
<1>8. \A g \in G \ {f} : Migrate!Older(f, g)
  BY <1>7, AgeIsTotal
<1>9. QED
  BY <1>8 DEF Migrate!Canonical

-----------------------------------------------------------------------------
(* Groups.                                                                 *)

\* Migrations counts as the other modules do.
LEMMA SameCount == \A S : Migrate!Cardinality(S) = Cardinality(S)
  BY DEF Migrate!Cardinality, Cardinality

\* A content is duplicated if and only if two records have it.
LEMMA NoDuplicates ==
    ASSUME NEW d, IsFiniteSet(d.files)
    PROVE  Migrate!DuplicatedContents(d) = {} <=> Migrate!OnePerContent(d)
<1>1. ASSUME Migrate!DuplicatedContents(d) = {}, NEW f \in d.files, NEW g \in d.files,
             f.content = g.content, f.content # None, f # g
      PROVE  FALSE
  <2> DEFINE group == Migrate!Group(d, f.content)
  <2>1. IsFiniteSet(group) /\ {f, g} \subseteq group
    <3>1. group \subseteq d.files /\ {f, g} \subseteq group
      BY <1>1 DEF Migrate!Group
    <3>2. QED
      BY <3>1, FS_Subset
  <2>2. IsFiniteSet({f, g}) /\ Cardinality({f, g}) = 2
    <3>1. IsFiniteSet({f}) /\ Cardinality({f}) = 1 /\ {f, g} = {f} \cup {g} /\ g \notin {f}
      BY <1>1, FS_Singleton
    <3>2. /\ IsFiniteSet({f} \cup {g})
          /\ Cardinality({f} \cup {g}) = IF g \in {f} THEN Cardinality({f}) ELSE Cardinality({f}) + 1
      BY <3>1, FS_AddElement
    <3>3. QED
      BY <3>1, <3>2
  <2>3. Cardinality(group) > 1
    BY <2>1, <2>2, FS_Subset, FS_CardinalityType
  <2>4. f.content \in Migrate!DuplicatedContents(d)
    BY <1>1, <2>3, SameCount DEF Migrate!DuplicatedContents
  <2>5. QED
    BY <1>1, <2>4
<1>2. ASSUME Migrate!OnePerContent(d), NEW f \in d.files, f.content # None
      PROVE  ~ Migrate!Cardinality(Migrate!Group(d, f.content)) > 1
  <2>1. Migrate!Group(d, f.content) = {f}
    BY <1>2 DEF Migrate!Group, Migrate!OnePerContent
  <2>2. Migrate!Cardinality({f}) = 1
    BY FS_Singleton, SameCount
  <2>3. QED
    BY <2>1, <2>2
<1>3. QED
  BY <1>1, <1>2 DEF Migrate!DuplicatedContents, Migrate!OnePerContent

\* ... and knows the same sets to be finite.
LEMMA SameFinite == \A S : Migrate!IsFiniteSet(S) <=> IsFiniteSet(S)
  BY DEF Migrate!IsFiniteSet, IsFiniteSet

\* The records of one content, where there are any.
LEMMA OldGroup ==
    ASSUME old \subseteq OldFiles, NEW f \in old
    PROVE  LET group == Migrate!Group(Migrate!Old, f.content) IN
           /\ group \subseteq old /\ f \in group
           /\ \A g \in group : g.content = f.content
           /\ Migrate!Canonical(group) \in group
           /\ \A g \in group : g # Migrate!Canonical(group) => Migrate!Older(Migrate!Canonical(group), g)
<1> DEFINE group == Migrate!Group(Migrate!Old, f.content)
<1>1. group \subseteq old /\ f \in group /\ \A g \in group : g.content = f.content
  BY DEF Migrate!Group, Migrate!Old
<1>2. group \subseteq OldFiles /\ group # {}
  BY <1>1
<1> HIDE DEF group
<1>3. /\ Migrate!Canonical(group) \in group
      /\ \A g \in group : g # Migrate!Canonical(group) => Migrate!Older(Migrate!Canonical(group), g)
  BY <1>2, OldestExists
<1>4. QED
  BY <1>1, <1>3 DEF group

\* What 0003 leaves of the records of a content: the oldest, which refers to no other.
LEMMA KeptRecord ==
    ASSUME old \subseteq OldFiles, NEW f \in old
    PROVE  \E k \in old :
             /\ Migrate!Kept(f.content) = [k EXCEPT !.duplicateOf = None]
             /\ Migrate!Kept(f.content) \in Migrate!FileRow
             /\ Migrate!Kept(f.content).id = k.id /\ Migrate!Kept(f.content).time = k.time
             /\ Migrate!Kept(f.content).batch = k.batch /\ Migrate!Kept(f.content).content = f.content
             /\ Migrate!Kept(f.content).duplicateOf = None
             /\ k.content = f.content
             /\ \A g \in old : g.content = f.content /\ g # k => Migrate!Older(k, g)
<1> DEFINE group == Migrate!Group(Migrate!Old, f.content)
           k == Migrate!Canonical(group)
<1>1. /\ k \in group /\ group \subseteq old /\ k.content = f.content
      /\ \A g \in group : g # k => Migrate!Older(k, g)
  BY OldGroup
<1>2. \A g \in old : g.content = f.content => g \in group
  BY DEF Migrate!Group, Migrate!Old
<1>3. Migrate!Kept(f.content) = [k EXCEPT !.duplicateOf = None]
  BY DEF Migrate!Kept
<1> HIDE DEF k, group
<1>4. k \in old /\ k \in OldFiles /\ k \in Migrate!FileRow
  BY <1>1, OldFilesAssumption DEF OldFilesAssumption
<1>5. PICK r : r = [k EXCEPT !.duplicateOf = None]
  OBVIOUS
<1>6. /\ r \in Migrate!FileRow /\ r.id = k.id /\ r.time = k.time
      /\ r.batch = k.batch /\ r.content = k.content /\ r.duplicateOf = None
  BY <1>4, <1>5 DEF Migrate!FileRow
<1>7. QED
  BY <1>1, <1>2, <1>3, <1>4, <1>5, <1>6

\* A database whose groups were kept has records of old times, the old ones or those 0003 left.
LEMMA FilesAreOld ==
    ASSUME old \subseteq OldFiles, NEW d, Migrate!GroupsKept(d), NEW f \in d.files
    PROVE  \E g \in old : /\ g.id = f.id /\ g.time = f.time /\ g.content = f.content
                          /\ f \in old \/ f = [g EXCEPT !.duplicateOf = None]
                          /\ f \in old \/ f.duplicateOf = None
                          /\ f \in old \/ (f.content # None /\ Migrate!Group(d, f.content) = {f})
<1>1. PICK h \in old : h.content = f.content
  BY DEF Migrate!GroupsKept
<1>2. f \in Migrate!Group(d, h.content)
  BY <1>1 DEF Migrate!Group
<1>3. CASE Migrate!Group(d, h.content) = Migrate!Group(Migrate!Old, h.content)
  <2>1. f \in old
    BY <1>2, <1>3 DEF Migrate!Group, Migrate!Old
  <2>2. QED
    BY <2>1
<1>4. CASE h.content # None /\ Migrate!Group(d, h.content) = {Migrate!Kept(h.content)}
  <2>1. f = Migrate!Kept(h.content)
    BY <1>2, <1>4
  <2>2. PICK k \in old :
             /\ Migrate!Kept(h.content) = [k EXCEPT !.duplicateOf = None]
             /\ Migrate!Kept(h.content).id = k.id /\ Migrate!Kept(h.content).time = k.time
             /\ Migrate!Kept(h.content).duplicateOf = None
             /\ k.content = h.content
    BY KeptRecord
  <2>3. k.id = f.id /\ k.time = f.time /\ k.content = f.content /\ f = [k EXCEPT !.duplicateOf = None]
    BY <2>1, <2>2, <1>1
  <2>4. f.content # None /\ Migrate!Group(d, f.content) = {f} /\ f.duplicateOf = None
    BY <2>1, <2>2, <1>1, <1>4
  <2>5. QED
    BY <2>3, <2>4
<1>5. QED
  BY <1>3, <1>4, <1>1 DEF Migrate!GroupsKept

\* What a state keeps of the groups, a later one keeps: the old records are what they were.
LEMMA GroupsStay ==
    ASSUME old' = old, NEW d, Migrate!GroupsKept(d)
    PROVE  Migrate!GroupsKept(d)'
<1>1. Migrate!Old' = Migrate!Old
  BY DEF Migrate!Old
<1>2. \A c : Migrate!Group(Migrate!Old, c)' = Migrate!Group(Migrate!Old, c)
  BY <1>1
<1>3. \A c : Migrate!Kept(c)' = Migrate!Kept(c)
  BY <1>2 DEF Migrate!Kept
<1>4. QED
  BY <1>2, <1>3 DEF Migrate!GroupsKept

\* Cleaning one group leaves it the oldest record, and the other groups as they were (0003).
LEMMA CleanKeepsGroups ==
    ASSUME old \subseteq OldFiles, NEW d \in Migrate!Database, Migrate!GroupsKept(d), IsFiniteSet(d.files),
           NEW c \in Migrate!DuplicatedContents(d), NEW e,
           e = [d EXCEPT !.files = (@ \ Migrate!Group(d, c))
                    \cup {[Migrate!Canonical(Migrate!Group(d, c)) EXCEPT !.duplicateOf = None]}]
    PROVE  /\ Migrate!GroupsKept(e) /\ e \in Migrate!Database /\ IsFiniteSet(e.files)
           /\ Migrate!DuplicatedContents(e) = Migrate!DuplicatedContents(d) \ {c}
<1>1. PICK h \in d.files : h.content = c /\ c # None /\ Migrate!Cardinality(Migrate!Group(d, c)) > 1
  BY DEF Migrate!DuplicatedContents
<1>2. PICK f0 \in old : f0.content = c
  BY <1>1 DEF Migrate!GroupsKept
<1>3. Migrate!Group(d, c) = Migrate!Group(Migrate!Old, c)
  <2>1. Migrate!Group(d, c) # {Migrate!Kept(c)}
    <3>1. Migrate!Cardinality({Migrate!Kept(c)}) = 1
      BY FS_Singleton, SameCount
    <3>2. QED
      BY <3>1, <1>1
  <2>2. QED
    BY <1>2, <2>1 DEF Migrate!GroupsKept
<1>4. PICK k : k = Migrate!Kept(c)
  OBVIOUS
<1>5. e = [d EXCEPT !.files = (@ \ Migrate!Group(d, c)) \cup {k}]
  BY <1>3, <1>4 DEF Migrate!Kept
<1>6. PICK g \in old : g.content = c /\ k.id = g.id /\ k.batch = g.batch /\ k.content = c /\ k \in Migrate!FileRow
  BY <1>2, <1>4, KeptRecord
<1>7. d.files \subseteq Migrate!FileRow
  BY DEF Migrate!Database
<1>8. /\ e \in Migrate!Database /\ e.batches = d.batches
      /\ e.files = (d.files \ Migrate!Group(d, c)) \cup {k}
  BY <1>5, <1>6, <1>7 DEF Migrate!Database
<1>9. IsFiniteSet(e.files)
  <2>1. IsFiniteSet(d.files \ Migrate!Group(d, c))
    BY FS_Subset
  <2>2. IsFiniteSet((d.files \ Migrate!Group(d, c)) \cup {k})
    BY <2>1, FS_AddElement, Zenon
  <2>3. QED
    BY <1>8, <2>2
<1>10. g \in d.files
  BY <1>3, <1>6 DEF Migrate!Group, Migrate!Old
<1>11. ASSUME NEW o \in old
       PROVE  \/ Migrate!Group(e, o.content) = Migrate!Group(Migrate!Old, o.content)
              \/ /\ o.content # None /\ Migrate!Cardinality(Migrate!Group(Migrate!Old, o.content)) > 1
                 /\ Migrate!Group(e, o.content) = {Migrate!Kept(o.content)}
  <2>1. CASE o.content = c
    <3>1. Migrate!Group(e, c) = {k}
      BY <1>6, <1>8 DEF Migrate!Group
    <3>2. QED
      BY <2>1, <3>1, <1>1, <1>3, <1>4
  <2>2. CASE o.content # c
    <3>1. Migrate!Group(e, o.content) = Migrate!Group(d, o.content)
      BY <2>2, <1>6, <1>8 DEF Migrate!Group
    <3>2. QED
      BY <3>1 DEF Migrate!GroupsKept
  <2>3. QED
    BY <2>1, <2>2
<1>12. ASSUME NEW r \in e.files
       PROVE  r.batch \in e.batches /\ \E o \in old : o.id = r.id /\ o.content = r.content
  <2>1. CASE r \in d.files
    BY <2>1, <1>8 DEF Migrate!GroupsKept
  <2>2. CASE r = k
    BY <2>2, <1>6, <1>8, <1>10 DEF Migrate!GroupsKept
  <2>3. QED
    BY <2>1, <2>2, <1>8
<1>13. Migrate!GroupsKept(e)
  BY <1>11, <1>12 DEF Migrate!GroupsKept
<1>14. ASSUME NEW x
       PROVE  x \in Migrate!DuplicatedContents(e) <=> x \in Migrate!DuplicatedContents(d) /\ x # c
  <2>1. CASE x = c
    <3>1. Migrate!Group(e, c) = {k}
      BY <1>6, <1>8 DEF Migrate!Group
    <3>2. ~ Migrate!Cardinality(Migrate!Group(e, c)) > 1
      <4>1. Migrate!Cardinality({k}) = 1
        BY FS_Singleton, SameCount
      <4>2. QED
        BY <3>1, <4>1
    <3>3. c \notin Migrate!DuplicatedContents(e)
      <4>1. SUFFICES ASSUME c \in Migrate!DuplicatedContents(e)
                     PROVE  FALSE
        OBVIOUS
      <4>2. PICK f \in e.files : f.content = c /\ Migrate!Cardinality(Migrate!Group(e, f.content)) > 1
        BY <4>1 DEF Migrate!DuplicatedContents
      <4>3. QED
        BY <3>2, <4>2
    <3>4. QED
      BY <2>1, <3>3
  <2>2. CASE x # c
    <3>1. Migrate!Group(e, x) = Migrate!Group(d, x)
      BY <2>2, <1>6, <1>8 DEF Migrate!Group
    <3>2. (\E f \in e.files : f.content = x) <=> (\E f \in d.files : f.content = x)
      BY <3>1 DEF Migrate!Group
    <3>3. QED
      BY <2>2, <3>1, <3>2 DEF Migrate!DuplicatedContents
  <2>3. QED
    BY <2>1, <2>2
<1>15. QED
  BY <1>8, <1>9, <1>13, <1>14

-----------------------------------------------------------------------------
(* The upgrade.                                                            *)

\* A database of revision 0002 satisfies the invariant.
LEMMA UpgradeInit == Migrate!Init => Migrate!UpgradeInv
<1> SUFFICES ASSUME Migrate!Init
             PROVE  Migrate!UpgradeInv
  OBVIOUS
<1>1. /\ old \subseteq OldFiles /\ Migrate!Consistent(old)
      /\ db = Migrate!Old /\ draft = db /\ open = FALSE /\ phase = "down" /\ groups = {} /\ kills = 0
  BY DEF Migrate!Init
<1>2. /\ db.revision = 2 /\ db.files = old /\ db.batches = OldBatches
      /\ db.columns = {"hidden"} /\ db.unique = FALSE
  BY <1>1 DEF Migrate!Old
<1>3. old \subseteq Migrate!FileRow /\ IsFiniteSet(old)
  BY <1>1, OldFilesAssumption, FS_Subset DEF OldFilesAssumption
<1>4. db \in Migrate!Database
  BY <1>1, <1>3 DEF Migrate!Database, Migrate!Old
<1>5. Migrate!TypeOK
  BY <1>1, <1>2, <1>3, <1>4, SameFinite DEF Migrate!TypeOK, Migrate!Labels
<1>6. Migrate!GroupsKept(db)
  BY <1>1, <1>3 DEF Migrate!GroupsKept, Migrate!Old, Migrate!Group, Migrate!FileRow
<1>7. Migrate!OpenInv /\ Migrate!RevisionInv /\ Migrate!ColumnsInv /\ Migrate!RowsInv
  BY <1>1, <1>2 DEF Migrate!OpenInv, Migrate!RevisionInv, Migrate!ColumnsInv, Migrate!RowsInv
<1>8. Migrate!GroupsInv /\ Migrate!CommitInv
  BY <1>1, <1>2 DEF Migrate!GroupsInv, Migrate!CommitInv
<1>9. QED
  BY <1>1, <1>5, <1>6, <1>7, <1>8 DEF Migrate!UpgradeInv

\* A step that leaves every file and batch where it was keeps the groups.
LEMMA SameRowsKeepGroups ==
    ASSUME old' = old, Migrate!GroupsKept(db), Migrate!GroupsKept(draft),
           <<db'.files, db'.batches>> \in {<<db.files, db.batches>>, <<draft.files, draft.batches>>},
           <<draft'.files, draft'.batches>> \in {<<db.files, db.batches>>, <<draft.files, draft.batches>>}
    PROVE  Migrate!GroupsKept(db)' /\ Migrate!GroupsKept(draft)'
<1>1. ASSUME NEW d, NEW e, e.files = d.files, e.batches = d.batches, Migrate!GroupsKept(d)
      PROVE  Migrate!GroupsKept(e)
  BY <1>1 DEF Migrate!GroupsKept, Migrate!Group
<1>2. PICK e : e = db'
  OBVIOUS
<1>3. PICK f : f = draft'
  OBVIOUS
<1>4. Migrate!GroupsKept(e) /\ Migrate!GroupsKept(f)
  BY <1>1, <1>2, <1>3
<1>5. Migrate!GroupsKept(e)' /\ Migrate!GroupsKept(f)'
  BY <1>4, GroupsStay
<1>6. QED
  BY <1>2, <1>3, <1>5 DEF Migrate!GroupsKept, Migrate!Group

\* A start-up begins with what is committed, at the revision that comes next.
LEMMA StartKeeps ==
    ASSUME Migrate!UpgradeInv, Migrate!Start
    PROVE  Migrate!UpgradeInv'
<1>1. /\ phase \in {"down", "failed"} /\ old' = old /\ db' = db /\ draft' = db /\ open' = FALSE /\ kills' = kills /\ groups' = groups
      /\ phase' = Migrate!FirstStep(db.revision)
  BY DEF Migrate!Start, Migrate!Go
<1>2. /\ Migrate!TypeOK /\ Migrate!Consistent(old) /\ Migrate!OpenInv
      /\ Migrate!RevisionInv /\ Migrate!ColumnsInv /\ Migrate!RowsInv
      /\ Migrate!GroupsInv /\ Migrate!CommitInv /\ Migrate!GroupsKept(db) /\ Migrate!GroupsKept(draft)
  BY DEF Migrate!UpgradeInv
<1>3. \/ db.revision = 2 /\ phase' = "add"
      \/ db.revision = 3 /\ phase' = "dropHidden"
      \/ db.revision = 4 /\ phase' = "batches"
  <2>1. db.revision \in 2..5 /\ db.revision # 5
    BY <1>1, <1>2 DEF Migrate!TypeOK, Migrate!Database, Migrate!RevisionInv
  <2>2. QED
    BY <1>1, <2>1 DEF Migrate!FirstStep
<1>4. Migrate!GroupsKept(db)' /\ Migrate!GroupsKept(draft)'
  BY <1>1, <1>2, SameRowsKeepGroups
<1>5. Migrate!TypeOK'
  BY <1>1, <1>2, <1>3 DEF Migrate!TypeOK, Migrate!Labels
<1>6. Migrate!OpenInv' /\ Migrate!RevisionInv'
  BY <1>1, <1>2, <1>3 DEF Migrate!OpenInv, Migrate!RevisionInv
<1>7. Migrate!ColumnsInv'
  BY <1>1, <1>2, <1>3 DEF Migrate!ColumnsInv, Migrate!TypeOK, Migrate!Database
<1>8. Migrate!RowsInv'
  BY <1>1, <1>2, <1>3 DEF Migrate!RowsInv, Migrate!OnePerContent
<1>9. Migrate!GroupsInv' /\ Migrate!CommitInv'
  BY <1>1, <1>2, <1>3 DEF Migrate!GroupsInv, Migrate!CommitInv
<1>10. QED
  BY <1>9, <1>1, <1>2, <1>4, <1>5, <1>6, <1>7, <1>8 DEF Migrate!UpgradeInv, Migrate!Consistent

\* A statement that raises changes nothing but where the start-up is.
LEMMA RaiseKeeps ==
    ASSUME Migrate!UpgradeInv, Migrate!Raise, old' = old, groups' = groups, kills' = kills, kills # 0,
           \/ db.revision = 2 /\ "detected" \in db.columns
           \/ db.revision = 3 /\ "hidden" \notin db.columns,
           ~open, phase \notin {"up", "clean"}
    PROVE  Migrate!UpgradeInv'
<1>1. phase' = "failed" /\ old' = old /\ db' = db /\ draft' = draft /\ open' = open /\ kills' = kills
  BY DEF Migrate!Raise
<1>2. /\ Migrate!TypeOK /\ Migrate!Consistent(old) /\ Migrate!OpenInv
      /\ Migrate!RevisionInv /\ Migrate!ColumnsInv /\ Migrate!RowsInv
      /\ Migrate!GroupsInv /\ Migrate!CommitInv /\ Migrate!GroupsKept(db) /\ Migrate!GroupsKept(draft)
  BY DEF Migrate!UpgradeInv
<1>3. Migrate!GroupsKept(db)' /\ Migrate!GroupsKept(draft)'
  BY <1>1, <1>2, SameRowsKeepGroups
<1>4. Migrate!TypeOK' /\ Migrate!OpenInv' /\ Migrate!RevisionInv'
  BY <1>1, <1>2 DEF Migrate!TypeOK, Migrate!Labels, Migrate!OpenInv, Migrate!RevisionInv
<1>5. Migrate!ColumnsInv' /\ Migrate!RowsInv'
  BY <1>1, <1>2 DEF Migrate!ColumnsInv, Migrate!RowsInv, Migrate!OnePerContent
<1>6. Migrate!GroupsInv' /\ Migrate!CommitInv'
  BY <1>1, <1>2 DEF Migrate!GroupsInv, Migrate!CommitInv
<1>7. QED
  BY <1>6, <1>1, <1>2, <1>3, <1>4, <1>5 DEF Migrate!UpgradeInv, Migrate!Consistent

\* What a statement about columns that is no part of a transaction leaves.
LEMMA ColumnsEffect ==
    ASSUME Migrate!UpgradeInv, ~open, NEW C \in SUBSET {"hidden", "detected"},
           Migrate!Ddl([draft EXCEPT !.columns = C]), old' = old, phase' \in Migrate!Labels, kills' = kills
    PROVE  /\ db' = draft' /\ open' = open /\ db'.columns = C
           /\ db'.revision = db.revision /\ db'.unique = db.unique
           /\ db'.files = db.files /\ db'.batches = db.batches
           /\ Migrate!TypeOK' /\ Migrate!GroupsKept(db)' /\ Migrate!GroupsKept(draft)'
<1>1. /\ Migrate!TypeOK /\ db = draft /\ Migrate!GroupsKept(db) /\ Migrate!GroupsKept(draft)
  BY DEF Migrate!UpgradeInv, Migrate!OpenInv
<1>2. PICK e : e = [db EXCEPT !.columns = C]
  OBVIOUS
<1>3. db' = e /\ draft' = e /\ open' = open
  BY <1>1, <1>2 DEF Migrate!Ddl
<1>4. /\ e \in Migrate!Database /\ e.columns = C /\ e.revision = db.revision /\ e.unique = db.unique
      /\ e.files = db.files /\ e.batches = db.batches
  BY <1>1, <1>2 DEF Migrate!TypeOK, Migrate!Database
<1>5. Migrate!GroupsKept(db)' /\ Migrate!GroupsKept(draft)'
  BY <1>1, <1>3, <1>4, SameRowsKeepGroups
<1>6. Migrate!TypeOK'
  BY <1>1, <1>3, <1>4 DEF Migrate!TypeOK
<1>7. QED
  BY <1>3, <1>4, <1>5, <1>6

\* 0003 adds its column, or finds that a start-up which was killed has added it.
LEMMA AddKeeps ==
    ASSUME Migrate!UpgradeInv, Migrate!AddDetectedColumn
    PROVE  Migrate!UpgradeInv'
<1>1. phase = "add" /\ old' = old /\ kills' = kills
  BY DEF Migrate!AddDetectedColumn
<1>2. /\ Migrate!TypeOK /\ Migrate!Consistent(old) /\ Migrate!OpenInv
      /\ Migrate!RevisionInv /\ Migrate!ColumnsInv /\ Migrate!RowsInv
      /\ Migrate!GroupsInv /\ Migrate!CommitInv
  BY DEF Migrate!UpgradeInv
<1>3. db = draft /\ open = FALSE /\ db.revision = 2
  BY <1>1, <1>2 DEF Migrate!TypeOK, Migrate!OpenInv, Migrate!RevisionInv
<1>4. CASE "detected" \in draft.columns
  <2>1. Migrate!Raise
    BY <1>4 DEF Migrate!AddDetectedColumn
  <2>2. kills # 0 /\ groups' = groups
    BY <1>1, <1>2, <1>3, <1>4 DEF Migrate!ColumnsInv, Migrate!AddDetectedColumn
  <2>3. QED
    BY <1>1, <1>3, <1>4, <2>1, <2>2, RaiseKeeps
<1>5. CASE "detected" \notin draft.columns
  <2>1. /\ Migrate!Ddl([draft EXCEPT !.columns = @ \cup {"detected"}]) /\ phase' = "clean"
       /\ groups' = Migrate!DuplicatedContents(draft)
    BY <1>5 DEF Migrate!AddDetectedColumn, Migrate!Go
  <2>2. PICK C : C = draft.columns \cup {"detected"}
    OBVIOUS
  <2>3. C \in SUBSET {"hidden", "detected"} /\ Migrate!Ddl([draft EXCEPT !.columns = C])
    BY <1>2, <2>1, <2>2 DEF Migrate!TypeOK, Migrate!Database
  <2>4. /\ db' = draft' /\ open' = open /\ db'.columns = C
        /\ db'.revision = 2 /\ db'.unique = db.unique /\ db'.files = db.files /\ db'.batches = db.batches
        /\ Migrate!TypeOK' /\ Migrate!GroupsKept(db)' /\ Migrate!GroupsKept(draft)'
    BY <1>1, <1>3, <2>1, <2>3, ColumnsEffect DEF Migrate!Labels
  <2>5. Migrate!OpenInv' /\ Migrate!RevisionInv' /\ Migrate!RowsInv'
    BY <1>3, <2>1, <2>4 DEF Migrate!OpenInv, Migrate!RevisionInv, Migrate!RowsInv
  <2>6. Migrate!ColumnsInv'
    BY <1>1, <1>2, <1>3, <2>1, <2>2, <2>4 DEF Migrate!ColumnsInv
  <2>7. Migrate!GroupsInv' /\ Migrate!CommitInv'
    <3>1. PICK d : d = draft'
      OBVIOUS
    <3>2. d.files = draft.files
      BY <1>3, <2>4, <3>1
    <3>3. Migrate!DuplicatedContents(d) = Migrate!DuplicatedContents(draft)
      BY <3>2 DEF Migrate!DuplicatedContents, Migrate!Group
    <3>4. Migrate!DuplicatedContents(draft)' = Migrate!DuplicatedContents(d)
      BY <3>1 DEF Migrate!DuplicatedContents, Migrate!Group
    <3>5. Migrate!GroupsInv'
      BY <2>1, <3>3, <3>4 DEF Migrate!GroupsInv
    <3>6. Migrate!CommitInv'
      BY <1>2, <1>3, <1>1, <2>4 DEF Migrate!CommitInv
    <3>7. QED
      BY <3>5, <3>6
  <2>8. QED
    BY <2>7, <1>1, <1>2, <2>4, <2>5, <2>6 DEF Migrate!UpgradeInv, Migrate!Consistent
<1>6. QED
  BY <1>4, <1>5

\* 0003 cleans one group in its transaction.
LEMMA CleanKeeps ==
    ASSUME Migrate!UpgradeInv, Migrate!CleanGroup
    PROVE  Migrate!UpgradeInv'
<1>1. /\ phase = "clean" /\ old' = old /\ phase' = phase /\ kills' = kills
  BY DEF Migrate!CleanGroup
<1>2. PICK c \in groups :
         /\ Migrate!Dml([draft EXCEPT !.files = (@ \ Migrate!Group(draft, c))
                          \cup {[Migrate!Canonical(Migrate!Group(draft, c)) EXCEPT !.duplicateOf = None]}])
         /\ groups' = groups \ {c}
  BY DEF Migrate!CleanGroup
<1>3. /\ Migrate!TypeOK /\ Migrate!Consistent(old) /\ Migrate!OpenInv
      /\ Migrate!RevisionInv /\ Migrate!ColumnsInv /\ Migrate!RowsInv
      /\ Migrate!GroupsInv /\ Migrate!CommitInv /\ Migrate!GroupsKept(db) /\ Migrate!GroupsKept(draft)
  BY DEF Migrate!UpgradeInv
<1>4. PICK d : d = draft
  OBVIOUS
<1>5. PICK e : e = [d EXCEPT !.files = (@ \ Migrate!Group(d, c))
                         \cup {[Migrate!Canonical(Migrate!Group(d, c)) EXCEPT !.duplicateOf = None]}]
  OBVIOUS
<1>6. draft' = e /\ open' = TRUE /\ db' = db
  BY <1>2, <1>4, <1>5 DEF Migrate!Dml
<1>7. d \in Migrate!Database /\ IsFiniteSet(d.files) /\ Migrate!GroupsKept(d) /\ old \subseteq OldFiles
  BY <1>3, <1>4, SameFinite DEF Migrate!TypeOK
<1>8. /\ Migrate!GroupsKept(e) /\ e \in Migrate!Database /\ IsFiniteSet(e.files)
      /\ groups = Migrate!DuplicatedContents(d)
      /\ Migrate!DuplicatedContents(e) = Migrate!DuplicatedContents(d) \ {c}
  <2>1. groups = Migrate!DuplicatedContents(d) /\ c \in Migrate!DuplicatedContents(d)
    BY <1>1, <1>2, <1>3, <1>4 DEF Migrate!GroupsInv
  <2>2. QED
    BY <2>1, <1>5, <1>7, CleanKeepsGroups
<1>9. e.columns = draft.columns /\ e.revision = draft.revision /\ e.batches = draft.batches
  BY <1>4, <1>5, <1>7 DEF Migrate!Database
<1>10. Migrate!GroupsKept(draft)'
  <2>1. Migrate!GroupsKept(e)'
    BY <1>1, <1>8, GroupsStay
  <2>2. QED
    BY <1>6, <2>1 DEF Migrate!GroupsKept, Migrate!Group
<1>11. Migrate!GroupsKept(db)'
  <2>1. PICK b : b = db
    OBVIOUS
  <2>2. Migrate!GroupsKept(b)'
    BY <1>1, <1>3, <2>1, GroupsStay
  <2>3. QED
    BY <1>6, <2>1, <2>2 DEF Migrate!GroupsKept, Migrate!Group
<1>12. Migrate!TypeOK'
  BY <1>1, <1>3, <1>6, <1>8, SameFinite DEF Migrate!TypeOK
<1>13. Migrate!OpenInv' /\ Migrate!RevisionInv' /\ Migrate!ColumnsInv'
  BY <1>1, <1>3, <1>6, <1>9 DEF Migrate!OpenInv, Migrate!RevisionInv, Migrate!ColumnsInv
<1>14. Migrate!RowsInv'
  BY <1>1, <1>3, <1>6 DEF Migrate!RowsInv, Migrate!RevisionInv
<1>15. Migrate!GroupsInv'
  <2>1. Migrate!DuplicatedContents(draft)' = Migrate!DuplicatedContents(e)
    BY <1>6 DEF Migrate!DuplicatedContents, Migrate!Group
  <2>2. QED
    BY <1>1, <1>2, <1>8, <2>1 DEF Migrate!GroupsInv
<1>16. Migrate!CommitInv'
  BY <1>1, <1>3, <1>6, <1>9 DEF Migrate!CommitInv
<1>17. QED
  BY <1>15, <1>16, <1>1, <1>3, <1>10, <1>11, <1>12, <1>13, <1>14 DEF Migrate!UpgradeInv, Migrate!Consistent

\* 0003 goes on when no content is left that two records share.
LEMMA CleanedKeeps ==
    ASSUME Migrate!UpgradeInv, Migrate!GroupsCleaned
    PROVE  Migrate!UpgradeInv'
<1>1. /\ phase = "clean" /\ phase' = "index" /\ groups = {} /\ groups' = groups
      /\ old' = old /\ db' = db /\ draft' = draft /\ open' = open /\ kills' = kills
  BY DEF Migrate!GroupsCleaned, Migrate!Go
<1>2. /\ Migrate!TypeOK /\ Migrate!Consistent(old) /\ Migrate!OpenInv
      /\ Migrate!RevisionInv /\ Migrate!ColumnsInv /\ Migrate!RowsInv
      /\ Migrate!GroupsInv /\ Migrate!CommitInv /\ Migrate!GroupsKept(db) /\ Migrate!GroupsKept(draft)
  BY DEF Migrate!UpgradeInv
<1>3. Migrate!OnePerContent(draft)
  <2>1. IsFiniteSet(draft.files)
    BY <1>2, SameFinite DEF Migrate!TypeOK
  <2>2. QED
    BY <1>1, <1>2, <2>1, NoDuplicates DEF Migrate!GroupsInv
<1>4. Migrate!GroupsKept(db)' /\ Migrate!GroupsKept(draft)'
  BY <1>1, <1>2, SameRowsKeepGroups
<1>5. Migrate!TypeOK' /\ Migrate!OpenInv' /\ Migrate!RevisionInv' /\ Migrate!ColumnsInv'
  BY <1>1, <1>2 DEF Migrate!TypeOK, Migrate!Labels, Migrate!OpenInv, Migrate!RevisionInv, Migrate!ColumnsInv
<1>6. Migrate!RowsInv'
  BY <1>1, <1>2, <1>3 DEF Migrate!RowsInv, Migrate!RevisionInv, Migrate!OnePerContent
<1>7. Migrate!GroupsInv' /\ Migrate!CommitInv'
  BY <1>1, <1>2 DEF Migrate!GroupsInv, Migrate!CommitInv
<1>8. QED
  BY <1>7, <1>1, <1>2, <1>4, <1>5, <1>6 DEF Migrate!UpgradeInv, Migrate!Consistent

\* The unique index of 0003 is created, in the transaction of the cleaning if there was any.
LEMMA IndexKeeps ==
    ASSUME Migrate!UpgradeInv, Migrate!CreateUniqueIndex
    PROVE  Migrate!UpgradeInv'
<1>1. phase = "index" /\ old' = old /\ groups' = groups /\ kills' = kills
  BY DEF Migrate!CreateUniqueIndex
<1>2. /\ Migrate!TypeOK /\ Migrate!Consistent(old) /\ Migrate!OpenInv
      /\ Migrate!RevisionInv /\ Migrate!ColumnsInv /\ Migrate!RowsInv
      /\ Migrate!GroupsInv /\ Migrate!CommitInv /\ Migrate!GroupsKept(db) /\ Migrate!GroupsKept(draft)
  BY DEF Migrate!UpgradeInv
<1>3. Migrate!OnePerContent(draft) /\ db.revision = 2 /\ draft.revision = 2
  BY <1>1, <1>2 DEF Migrate!RowsInv, Migrate!RevisionInv, Migrate!OpenInv
<1>4. Migrate!DuplicatedContents(draft) = {}
  <2>1. IsFiniteSet(draft.files)
    BY <1>2, SameFinite DEF Migrate!TypeOK
  <2>2. QED
    BY <1>3, <2>1, NoDuplicates
<1>5. PICK e : e = [draft EXCEPT !.unique = TRUE]
  OBVIOUS
<1>6. phase' = "version" /\ draft' = e /\ db' = (IF open THEN db ELSE e) /\ open' = open
  BY <1>4, <1>5 DEF Migrate!CreateUniqueIndex, Migrate!Ddl, Migrate!Go
<1>7. /\ e \in Migrate!Database /\ e.unique /\ e.columns = draft.columns /\ e.revision = 2
      /\ e.files = draft.files /\ e.batches = draft.batches
  BY <1>2, <1>3, <1>5 DEF Migrate!TypeOK, Migrate!Database
<1>8. Migrate!GroupsKept(db)' /\ Migrate!GroupsKept(draft)'
  BY <1>1, <1>2, <1>6, <1>7, SameRowsKeepGroups
<1>9. Migrate!TypeOK'
  BY <1>1, <1>2, <1>6, <1>7 DEF Migrate!TypeOK, Migrate!Labels
<1>10. db'.revision = 2 /\ db'.columns = db.columns
  BY <1>2, <1>3, <1>6, <1>7 DEF Migrate!OpenInv
<1>11. Migrate!OpenInv'
  BY <1>2, <1>3, <1>6, <1>7, <1>10 DEF Migrate!OpenInv
<1>12. Migrate!RevisionInv' /\ Migrate!ColumnsInv'
  BY <1>1, <1>2, <1>3, <1>6, <1>10 DEF Migrate!RevisionInv, Migrate!ColumnsInv
<1>13. Migrate!RowsInv'
  BY <1>3, <1>6, <1>7, <1>10 DEF Migrate!RowsInv, Migrate!OnePerContent
<1>14. Migrate!GroupsInv' /\ Migrate!CommitInv'
  <2>1. db'.files = db.files /\ db'.batches = db.batches /\ draft'.batches = draft.batches
    BY <1>2, <1>6, <1>7 DEF Migrate!OpenInv
  <2>2. QED
    BY <1>1, <1>2, <1>3, <1>6, <1>7, <1>10, <2>1 DEF Migrate!GroupsInv, Migrate!CommitInv
<1>15. QED
  BY <1>14, <1>1, <1>2, <1>8, <1>9, <1>11, <1>12, <1>13 DEF Migrate!UpgradeInv, Migrate!Consistent

\* 0004 drops a column, or finds that a start-up which was killed has dropped it.
LEMMA DropKeeps ==
    ASSUME Migrate!UpgradeInv, Migrate!DropColumns
    PROVE  Migrate!UpgradeInv'
<1>1. phase \in {"dropHidden", "dropDetected"} /\ old' = old /\ groups' = groups /\ kills' = kills
  BY DEF Migrate!DropColumns
<1>2. /\ Migrate!TypeOK /\ Migrate!Consistent(old) /\ Migrate!OpenInv
      /\ Migrate!RevisionInv /\ Migrate!ColumnsInv /\ Migrate!RowsInv
      /\ Migrate!GroupsInv /\ Migrate!CommitInv
  BY DEF Migrate!UpgradeInv
<1>3. /\ db = draft /\ open = FALSE /\ db.revision = 3
      /\ db.columns \in SUBSET {"hidden", "detected"}
  BY <1>1, <1>2 DEF Migrate!TypeOK, Migrate!OpenInv, Migrate!RevisionInv, Migrate!Database
<1>4. ASSUME Migrate!OnePerContent(db), NEW C \in SUBSET {"hidden", "detected"},
             Migrate!Ddl([draft EXCEPT !.columns = C]),
             \/ phase' = "dropDetected" /\ C = {"detected"}
             \/ phase' = "version" /\ C = {}
      PROVE  Migrate!UpgradeInv'
  <2>1. /\ db' = draft' /\ open' = open /\ db'.columns = C
        /\ db'.revision = 3 /\ db'.unique = db.unique /\ db'.files = db.files /\ db'.batches = db.batches
        /\ Migrate!TypeOK' /\ Migrate!GroupsKept(db)' /\ Migrate!GroupsKept(draft)'
    BY <1>1, <1>3, <1>4, ColumnsEffect DEF Migrate!Labels
  <2>2. Migrate!OpenInv' /\ Migrate!RevisionInv' /\ Migrate!ColumnsInv'
    BY <1>3, <1>4, <2>1 DEF Migrate!OpenInv, Migrate!RevisionInv, Migrate!ColumnsInv
  <2>3. Migrate!RowsInv'
    BY <1>2, <1>3, <1>4, <2>1 DEF Migrate!RowsInv, Migrate!OnePerContent
  <2>4. Migrate!GroupsInv' /\ Migrate!CommitInv'
    BY <1>1, <1>2, <1>3, <1>4, <2>1 DEF Migrate!GroupsInv, Migrate!CommitInv
  <2>5. QED
    BY <1>1, <1>2, <2>1, <2>2, <2>3, <2>4 DEF Migrate!UpgradeInv, Migrate!Consistent
<1>5. Migrate!OnePerContent(db)
  BY <1>2, <1>3 DEF Migrate!RowsInv
<1>6. CASE phase = "dropHidden" /\ "hidden" \notin draft.columns
  <2>1. Migrate!Raise
    BY <1>6 DEF Migrate!DropColumns
  <2>2. kills # 0
    BY <1>2, <1>3, <1>6 DEF Migrate!ColumnsInv
  <2>3. QED
    BY <1>1, <1>3, <1>6, <2>1, <2>2, RaiseKeeps
<1>7. CASE phase = "dropHidden" /\ "hidden" \in draft.columns
  <2>1. Migrate!Ddl([draft EXCEPT !.columns = @ \ {"hidden"}]) /\ phase' = "dropDetected"
    BY <1>7 DEF Migrate!DropColumns, Migrate!Go
  <2>2. draft.columns \ {"hidden"} = {"detected"}
    BY <1>2, <1>3, <1>7 DEF Migrate!ColumnsInv
  <2>3. Migrate!Ddl([draft EXCEPT !.columns = {"detected"}])
    BY <2>1, <2>2
  <2>4. QED
    BY <1>4, <1>5, <2>1, <2>3
<1>8. CASE phase = "dropDetected"
  <2>1. db.columns = {"detected"}
    BY <1>2, <1>3, <1>8 DEF Migrate!ColumnsInv
  <2>2. Migrate!Ddl([draft EXCEPT !.columns = @ \ {"detected"}]) /\ phase' = "version"
    BY <1>3, <1>8, <2>1 DEF Migrate!DropColumns, Migrate!Go
  <2>3. draft.columns \ {"detected"} = {}
    BY <1>3, <2>1
  <2>4. Migrate!Ddl([draft EXCEPT !.columns = {}])
    BY <2>2, <2>3
  <2>5. QED
    BY <1>4, <1>5, <2>2, <2>4
<1>9. QED
  BY <1>1, <1>6, <1>7, <1>8

\* A step that leaves the database alone keeps the invariant of the upgrade.
LEMMA UpgradeStays ==
    ASSUME Migrate!UpgradeInv, UNCHANGED databaseVars
    PROVE  Migrate!UpgradeInv'
<1>1. /\ old' = old /\ db' = db /\ draft' = draft /\ open' = open /\ phase' = phase /\ groups' = groups /\ kills' = kills
  BY DEF databaseVars
<1>2. /\ Migrate!TypeOK /\ Migrate!Consistent(old) /\ Migrate!OpenInv
      /\ Migrate!RevisionInv /\ Migrate!ColumnsInv /\ Migrate!RowsInv
      /\ Migrate!GroupsInv /\ Migrate!CommitInv /\ Migrate!GroupsKept(db) /\ Migrate!GroupsKept(draft)
  BY DEF Migrate!UpgradeInv
<1>3. Migrate!GroupsKept(db)' /\ Migrate!GroupsKept(draft)'
  BY <1>1, <1>2, SameRowsKeepGroups
<1>4. Migrate!TypeOK' /\ Migrate!OpenInv' /\ Migrate!RevisionInv' /\ Migrate!ColumnsInv'
  BY <1>1, <1>2 DEF Migrate!TypeOK, Migrate!OpenInv, Migrate!RevisionInv, Migrate!ColumnsInv
<1>5. Migrate!RowsInv'
  BY <1>1, <1>2 DEF Migrate!RowsInv, Migrate!OnePerContent, Migrate!EmptyBatches
<1>6. Migrate!GroupsInv' /\ Migrate!CommitInv'
  <2>1. Migrate!DuplicatedContents(draft)' = Migrate!DuplicatedContents(draft)
    BY <1>1 DEF Migrate!DuplicatedContents, Migrate!Group
  <2>2. QED
    BY <1>1, <1>2, <2>1 DEF Migrate!GroupsInv, Migrate!CommitInv
<1>7. QED
  BY <1>6, <1>1, <1>2, <1>3, <1>4, <1>5 DEF Migrate!UpgradeInv, Migrate!Consistent

\* 0005 deletes the batches that have no file.
LEMMA DeleteKeeps ==
    ASSUME Migrate!UpgradeInv, Migrate!DeleteEmptyBatches
    PROVE  Migrate!UpgradeInv'
<1>1. /\ phase = "batches" /\ phase' = "version" /\ old' = old /\ groups' = groups /\ kills' = kills
  BY DEF Migrate!DeleteEmptyBatches, Migrate!Go
<1>2. /\ Migrate!TypeOK /\ Migrate!Consistent(old) /\ Migrate!OpenInv
      /\ Migrate!RevisionInv /\ Migrate!ColumnsInv /\ Migrate!RowsInv
      /\ Migrate!GroupsInv /\ Migrate!CommitInv /\ Migrate!GroupsKept(db) /\ Migrate!GroupsKept(draft)
  BY DEF Migrate!UpgradeInv
<1>3. PICK e : e = [draft EXCEPT !.batches = @ \ Migrate!EmptyBatches(draft)]
  OBVIOUS
<1>4. draft' = e /\ open' = TRUE /\ db' = db
  BY <1>3 DEF Migrate!DeleteEmptyBatches, Migrate!Dml
<1>5. /\ e \in Migrate!Database /\ e.unique = draft.unique /\ e.columns = draft.columns
      /\ e.revision = draft.revision /\ e.files = draft.files
      /\ e.batches = draft.batches \ Migrate!EmptyBatches(draft)
  BY <1>2, <1>3 DEF Migrate!TypeOK, Migrate!Database
<1>6. db.revision = 4 /\ draft.revision = 4
  BY <1>1, <1>2 DEF Migrate!RevisionInv, Migrate!OpenInv
<1>7. \A f \in e.files : f.batch \in e.batches
  BY <1>2, <1>5 DEF Migrate!GroupsKept, Migrate!EmptyBatches
<1>8. Migrate!EmptyBatches(e) = {}
  BY <1>5 DEF Migrate!EmptyBatches
<1>9. Migrate!GroupsKept(draft)'
  <2>1. Migrate!GroupsKept(e)
    BY <1>2, <1>5, <1>7 DEF Migrate!GroupsKept, Migrate!Group
  <2>2. Migrate!GroupsKept(e)'
    BY <1>1, <2>1, GroupsStay
  <2>3. QED
    BY <1>4, <2>2 DEF Migrate!GroupsKept, Migrate!Group
<1>10. Migrate!GroupsKept(db)'
  <2>1. PICK b : b = db
    OBVIOUS
  <2>2. Migrate!GroupsKept(b)'
    BY <1>1, <1>2, <2>1, GroupsStay
  <2>3. QED
    BY <1>4, <2>1, <2>2 DEF Migrate!GroupsKept, Migrate!Group
<1>11. Migrate!TypeOK'
  BY <1>1, <1>2, <1>4, <1>5 DEF Migrate!TypeOK, Migrate!Labels
<1>12. Migrate!OpenInv' /\ Migrate!RevisionInv' /\ Migrate!ColumnsInv'
  BY <1>1, <1>2, <1>4, <1>5, <1>6 DEF Migrate!OpenInv, Migrate!RevisionInv, Migrate!ColumnsInv
<1>13. Migrate!RowsInv'
  <2>1. /\ Migrate!OnePerContent(draft) /\ draft.unique /\ Migrate!OnePerContent(db) /\ db.unique
    BY <1>2, <1>6 DEF Migrate!RowsInv
  <2>2. Migrate!OnePerContent(e) /\ e.unique
    BY <1>5, <2>1 DEF Migrate!OnePerContent
  <2>3. QED
    BY <1>1, <1>4, <1>8, <2>1, <2>2 DEF Migrate!RowsInv
<1>14. Migrate!GroupsInv' /\ Migrate!CommitInv'
  BY <1>1, <1>2, <1>4, <1>6 DEF Migrate!GroupsInv, Migrate!CommitInv
<1>15. QED
  BY <1>14, <1>1, <1>2, <1>9, <1>10, <1>11, <1>12, <1>13 DEF Migrate!UpgradeInv, Migrate!Consistent

\* Alembic commits what a revision did together with its number.
LEMMA RecordKeeps ==
    ASSUME Migrate!UpgradeInv, Migrate!RecordRevision
    PROVE  Migrate!UpgradeInv'
<1>1. /\ phase = "version" /\ old' = old /\ groups' = groups /\ kills' = kills
      /\ draft' = [draft EXCEPT !.revision = @ + 1] /\ db' = draft' /\ open' = FALSE
      /\ phase' = Migrate!FirstStep(draft'.revision)
  BY DEF Migrate!RecordRevision, Migrate!Go
<1>2. /\ Migrate!TypeOK /\ Migrate!Consistent(old) /\ Migrate!OpenInv
      /\ Migrate!RevisionInv /\ Migrate!ColumnsInv /\ Migrate!RowsInv
      /\ Migrate!GroupsInv /\ Migrate!CommitInv /\ Migrate!GroupsKept(db) /\ Migrate!GroupsKept(draft)
  BY DEF Migrate!UpgradeInv
<1>3. PICK e : e = [draft EXCEPT !.revision = @ + 1]
  OBVIOUS
<1>4. draft.revision \in {2, 3, 4} /\ db.revision = draft.revision /\ db.columns = draft.columns
  BY <1>1, <1>2 DEF Migrate!TypeOK, Migrate!Database, Migrate!OpenInv, Migrate!RevisionInv
<1>5. /\ e \in Migrate!Database /\ e.revision = draft.revision + 1 /\ e.unique = draft.unique
      /\ e.columns = draft.columns /\ e.files = draft.files /\ e.batches = draft.batches
  BY <1>2, <1>3, <1>4 DEF Migrate!TypeOK, Migrate!Database
<1>6. draft' = e /\ db' = e
  BY <1>1, <1>3
<1>7. \/ draft.revision = 2 /\ e.revision = 3 /\ phase' = "dropHidden" /\ e.columns = {"hidden", "detected"}
      \/ draft.revision = 3 /\ e.revision = 4 /\ phase' = "batches" /\ e.columns = {}
      \/ draft.revision = 4 /\ e.revision = 5 /\ phase' = "up" /\ e.columns = {}
  <2>1. \/ draft.revision = 2 /\ e.revision = 3 /\ phase' = "dropHidden"
        \/ draft.revision = 3 /\ e.revision = 4 /\ phase' = "batches"
        \/ draft.revision = 4 /\ e.revision = 5 /\ phase' = "up"
    BY <1>1, <1>4, <1>5, <1>6 DEF Migrate!FirstStep
  <2>2. draft.columns \in SUBSET {"hidden", "detected"}
    BY <1>2 DEF Migrate!TypeOK, Migrate!Database
  <2>3. /\ draft.revision = 2 => draft.columns = {"hidden", "detected"}
        /\ draft.revision \in {3, 4} => draft.columns = {}
    BY <1>1, <1>2, <1>4, <2>2 DEF Migrate!ColumnsInv
  <2>4. QED
    BY <1>5, <2>1, <2>3
<1>8. Migrate!GroupsKept(db)' /\ Migrate!GroupsKept(draft)'
  BY <1>1, <1>2, <1>5, <1>6, SameRowsKeepGroups
<1>9. Migrate!TypeOK'
  BY <1>1, <1>2, <1>5, <1>6, <1>7 DEF Migrate!TypeOK, Migrate!Labels
<1>10. Migrate!OpenInv' /\ Migrate!RevisionInv'
  BY <1>1, <1>6, <1>7 DEF Migrate!OpenInv, Migrate!RevisionInv
<1>11. Migrate!ColumnsInv'
  BY <1>6, <1>7 DEF Migrate!ColumnsInv
<1>12. Migrate!RowsInv'
  <2>1. Migrate!OnePerContent(draft) /\ draft.unique
    BY <1>1, <1>2 DEF Migrate!RowsInv
  <2>2. Migrate!OnePerContent(e) /\ e.unique
    BY <1>5, <2>1 DEF Migrate!OnePerContent
  <2>3. phase' = "up" => Migrate!EmptyBatches(e) = {}
    BY <1>1, <1>2, <1>4, <1>5, <1>7 DEF Migrate!RowsInv, Migrate!EmptyBatches
  <2>4. QED
    BY <1>6, <1>7, <2>2, <2>3 DEF Migrate!RowsInv
<1>13. Migrate!GroupsInv' /\ Migrate!CommitInv'
  BY <1>1, <1>2, <1>4, <1>5, <1>6, <1>7 DEF Migrate!GroupsInv, Migrate!CommitInv
<1>14. QED
  BY <1>13, <1>1, <1>2, <1>8, <1>9, <1>10, <1>11, <1>12 DEF Migrate!UpgradeInv, Migrate!Consistent

\* A kill rolls back what is not committed.
LEMMA KillKeeps ==
    ASSUME Migrate!UpgradeInv, Migrate!Kill, kills' \in Nat \ {0}
    PROVE  Migrate!UpgradeInv'
<1>1. /\ phase \notin {"down", "up", "failed"} /\ phase' = "down"
      /\ old' = old /\ db' = db /\ draft' = db /\ open' = FALSE /\ groups' = {}
  BY DEF Migrate!Kill, Migrate!Go
<1>2. /\ Migrate!TypeOK /\ Migrate!Consistent(old) /\ Migrate!OpenInv
      /\ Migrate!RevisionInv /\ Migrate!ColumnsInv /\ Migrate!RowsInv
      /\ Migrate!GroupsInv /\ Migrate!CommitInv /\ Migrate!GroupsKept(db) /\ Migrate!GroupsKept(draft)
  BY DEF Migrate!UpgradeInv
<1>3. Migrate!GroupsKept(db)' /\ Migrate!GroupsKept(draft)'
  BY <1>1, <1>2, SameRowsKeepGroups
<1>4. Migrate!TypeOK' /\ Migrate!OpenInv' /\ Migrate!RevisionInv'
  BY <1>1, <1>2 DEF Migrate!TypeOK, Migrate!Labels, Migrate!OpenInv, Migrate!RevisionInv
<1>5. Migrate!ColumnsInv' /\ Migrate!RowsInv'
  BY <1>1, <1>2 DEF Migrate!ColumnsInv, Migrate!RowsInv, Migrate!OnePerContent
<1>6. Migrate!GroupsInv' /\ Migrate!CommitInv'
  BY <1>1, <1>2 DEF Migrate!GroupsInv, Migrate!CommitInv, Migrate!TypeOK, Migrate!Database
<1>7. QED
  BY <1>6, <1>1, <1>2, <1>3, <1>4, <1>5 DEF Migrate!UpgradeInv, Migrate!Consistent

\* Every step of a start-up, a kill included, keeps the invariant of the upgrade.
LEMMA UpgradeKeeps ==
    ASSUME Migrate!UpgradeInv, Migrate!Next
    PROVE  Migrate!UpgradeInv'
<1>1. CASE Migrate!Kill
  <2>1. kills \in Nat /\ kills' = kills + 1
    BY <1>1 DEF Migrate!Kill, Migrate!UpgradeInv, Migrate!TypeOK
  <2>2. kills' \in Nat \ {0}
    BY <2>1
  <2>3. QED
    BY <1>1, <2>2, KillKeeps
<1>2. CASE Migrate!Rest
  BY <1>2, UpgradeStays DEF Migrate!Rest, Migrate!vars, databaseVars
<1>3. QED
  BY <1>1, <1>2, StartKeeps, AddKeeps, CleanKeeps, CleanedKeeps, IndexKeeps, DropKeeps, DeleteKeeps,
     RecordKeeps DEF Migrate!Next

-----------------------------------------------------------------------------
(* The server.                                                             *)

\* What a server that has come up lists is a row for each record of the upgraded database.
LEMMA ServeEffect ==
    ASSUME Migrate!TypeOK, NEW d, Migrate!GroupsKept(d), IsFiniteSet(d.files)
    PROVE  LET listed == {RowOf(f) : f \in d.files} IN listed \subseteq Row /\ IsFiniteSet(listed)
<1> DEFINE listed == {RowOf(f) : f \in d.files}
           RowFunction == [f \in d.files |-> RowOf(f)]
<1>1. old \subseteq OldFiles
  BY DEF Migrate!TypeOK
<1>2. ASSUME NEW f \in d.files
      PROVE  RowOf(f) \in Row
  <2>1. PICK g \in old : g.id = f.id /\ g.time = f.time
    BY <1>1, FilesAreOld
  <2>2. RowOf(g) \in Row /\ RowOf(f) = RowOf(g)
    BY <1>1, <2>1, OldFilesAreNumbered DEF RowOf
  <2>3. QED
    BY <2>2
<1>3. RowFunction \in Surjection(d.files, listed)
  BY DEF Surjection
<1>4. IsFiniteSet(listed)
  <2> HIDE DEF listed, RowFunction
  <2>1. QED
    BY <1>3, FS_Surjection
<1>5. QED
  BY <1>2, <1>4

\* Coming up keeps the invariant: the list is what the upgrade left.
LEMMA UpgradeStepKeeps ==
    ASSUME StartupInv, UpgradeStep
    PROVE  StartupInv'
<1>1. Migrate!UpgradeInv /\ Migrate!TypeOK /\ WalkInv /\ ListInv /\ Migrate!Next /\ phase # "up"
  BY DEF StartupInv, UpgradeStep, Migrate!UpgradeInv
<1>2. Migrate!UpgradeInv'
  BY <1>1, UpgradeKeeps
<1>3. rows = {} /\ coming = {} /\ at = "first"
  BY <1>1 DEF ListInv
<1>4. CASE phase' = "up"
  <2>1. rows' = {RowOf(f) : f \in db'.files} /\ UNCHANGED <<coming, now, at, cursor, given, start, twice>>
    BY <1>4 DEF UpgradeStep, Serve, RowOf
  <2>2. PICK d : d = db'
    OBVIOUS
  <2>3. old' = old
    BY <1>1 DEF Migrate!Next, Migrate!Start, Migrate!AddDetectedColumn, Migrate!CleanGroup,
               Migrate!GroupsCleaned, Migrate!CreateUniqueIndex, Migrate!DropColumns,
               Migrate!DeleteEmptyBatches, Migrate!RecordRevision, Migrate!Kill, Migrate!Rest, Migrate!vars
  <2>4. Migrate!GroupsKept(d) /\ IsFiniteSet(d.files)
    <3>1. Migrate!GroupsKept(db)' /\ IsFiniteSet(d.files)
      BY <1>2, <2>2, SameFinite DEF Migrate!UpgradeInv, Migrate!TypeOK
    <3>2. Migrate!GroupsKept(d)'
      BY <2>2, <3>1 DEF Migrate!GroupsKept, Migrate!Group
    <3>3. Migrate!Old' = Migrate!Old
      BY <2>3 DEF Migrate!Old
    <3>4. \A c : Migrate!Group(Migrate!Old, c)' = Migrate!Group(Migrate!Old, c)
      BY <3>3
    <3>5. \A c : Migrate!Kept(c)' = Migrate!Kept(c)
      BY <3>4 DEF Migrate!Kept
    <3>6. QED
      BY <2>3, <3>1, <3>2, <3>4, <3>5 DEF Migrate!GroupsKept
  <2>5. rows' \subseteq Row /\ IsFiniteSet(rows')
    BY <1>1, <2>1, <2>2, <2>4, ServeEffect
  <2>6. WalkInv'
    BY <1>1, <1>3, <2>1, <2>5 DEF WalkInv, TypeOK
  <2>7. ListInv'
    BY <1>3, <1>4, <2>1 DEF ListInv
  <2>8. QED
    BY <1>2, <2>6, <2>7 DEF StartupInv
<1>5. CASE phase' # "up"
  <2>1. UNCHANGED vars
    BY <1>5 DEF UpgradeStep
  <2>2. WalkInv'
    BY <1>1, <2>1, StepKeepsWalk
  <2>3. ListInv'
    BY <1>3, <1>5, <2>1 DEF ListInv, vars
  <2>4. QED
    BY <1>2, <2>2, <2>3 DEF StartupInv
<1>6. QED
  BY <1>4, <1>5

\* Serving keeps the invariant: new rows never take the id of an old one, and a walk begins with what is listed.
LEMMA ServeStepKeeps ==
    ASSUME StartupInv, ServeStep
    PROVE  StartupInv'
<1>1. /\ Migrate!UpgradeInv /\ WalkInv /\ ListInv /\ Next /\ phase = "up"
      /\ UNCHANGED databaseVars /\ \A r \in coming' : ~ IsOldId(r.id)
  BY DEF StartupInv, ServeStep, IsOldId
<1>2. Migrate!UpgradeInv'
  BY <1>1, UpgradeStays
<1>3. WalkInv'
  BY <1>1, StepKeepsWalk
<1>4. phase' = "up" /\ db' = db
  BY <1>1 DEF databaseVars
<1>5. /\ \A f \in db.files : RowOf(f) \in rows /\ (at # "first" => RowOf(f) \in start)
      /\ \A r \in rows : IsOldId(r.id) => \E f \in db.files : r = RowOf(f)
      /\ \A r \in coming : ~ IsOldId(r.id)
  BY <1>1 DEF ListInv
<1>6. rows \subseteq rows' /\ \A r \in rows' : r \in rows \/ r \in coming
  BY <1>1 DEF Next, Tick, FetchPage, Done, vars, Stamp, Commit
<1>7. at' # "first" => (at # "first" /\ start' = start) \/ start' = rows
  BY <1>1 DEF Next, Tick, FetchPage, LastPage, PageWithMore, Give, Done, vars, Stamp, Commit
<1>8. ListInv'
  BY <1>1, <1>4, <1>5, <1>6, <1>7 DEF ListInv, IsOldId
<1>9. QED
  BY <1>2, <1>3, <1>8 DEF StartupInv

\* The upgrade, the walk and what is listed are as they should be in every state of every start-up.
THEOREM StartupAlways == SpecStartup => []StartupInv
<1>1. InitStartup => StartupInv
  <2> SUFFICES ASSUME InitStartup
               PROVE  StartupInv
    OBVIOUS
  <2>1. Migrate!UpgradeInv /\ WalkInv
    BY UpgradeInit, InitWalk DEF InitStartup
  <2>2. phase = "down" /\ rows = {} /\ coming = {} /\ at = "first"
    BY DEF InitStartup, Init, Migrate!Init
  <2>3. QED
    BY <2>1, <2>2 DEF StartupInv, ListInv
<1>2. StartupInv /\ [NextStartup]_<<vars, databaseVars>> => StartupInv'
  <2> SUFFICES ASSUME StartupInv, [NextStartup]_<<vars, databaseVars>>
               PROVE  StartupInv'
    OBVIOUS
  <2>1. CASE UpgradeStep
    BY <2>1, UpgradeStepKeeps
  <2>2. CASE ServeStep
    BY <2>2, ServeStepKeeps
  <2>3. CASE UNCHANGED <<vars, databaseVars>>
    <3>1. UNCHANGED vars /\ UNCHANGED databaseVars
      BY <2>3
    <3>2. Migrate!UpgradeInv'
      BY <3>1, UpgradeStays DEF StartupInv
    <3>3. WalkInv'
      BY <3>1, StepKeepsWalk DEF StartupInv
    <3>4. ListInv'
      BY <3>1 DEF StartupInv, ListInv, vars, databaseVars
    <3>5. QED
      BY <3>2, <3>3, <3>4 DEF StartupInv
  <2>4. QED
    BY <2>1, <2>2, <2>3 DEF NextStartup
<1>3. QED
  BY <1>1, <1>2, PTL DEF SpecStartup

-----------------------------------------------------------------------------
(* What it follows.                                                        *)

\* Of every content the oldest record survives every upgrade and every kill (0003, 0005).
THEOREM FirstRecordAlwaysKept == SpecStartup => []FirstRecordKept
<1>1. StartupInv => FirstRecordKept
  <2> SUFFICES ASSUME StartupInv
               PROVE  FirstRecordKept
    OBVIOUS
  <2>1. old \subseteq OldFiles /\ Migrate!GroupsKept(db)
    BY DEF StartupInv, Migrate!UpgradeInv, Migrate!TypeOK
  <2>2. ASSUME NEW f \in old, f.content = None
        PROVE  f \in db.files
    <3>1. Migrate!Group(db, f.content) = Migrate!Group(Migrate!Old, f.content)
      BY <2>1, <2>2 DEF Migrate!GroupsKept
    <3>2. f \in Migrate!Group(Migrate!Old, f.content)
      BY DEF Migrate!Group, Migrate!Old
    <3>3. QED
      BY <3>1, <3>2 DEF Migrate!Group
  <2>3. ASSUME NEW c \in {f.content : f \in old} \ {None}
        PROVE  \E kept \in db.files :
                  kept.content = c /\ \A f \in old : f.content = c /\ f.id # kept.id => Migrate!Older(kept, f)
    <3>1. PICK f \in old : f.content = c
      OBVIOUS
    <3>2. PICK k \in old :
             /\ Migrate!Kept(c).id = k.id /\ Migrate!Kept(c).time = k.time /\ Migrate!Kept(c).content = c
             /\ k.content = c /\ \A g \in old : g.content = c /\ g # k => Migrate!Older(k, g)
      BY <2>1, <3>1, KeptRecord
    <3>3. PICK kept \in db.files : kept.content = c /\ kept.id = k.id /\ kept.time = k.time
      <4>1. CASE Migrate!Group(db, c) = Migrate!Group(Migrate!Old, c)
        <5>1. k \in db.files
          BY <3>2, <4>1 DEF Migrate!Group, Migrate!Old
        <5>2. QED
          BY <3>2, <5>1
      <4>2. CASE Migrate!Group(db, c) = {Migrate!Kept(c)}
        <5>1. Migrate!Kept(c) \in db.files
          BY <4>2 DEF Migrate!Group
        <5>2. QED
          BY <3>2, <5>1
      <4>3. QED
        BY <2>1, <3>1, <4>1, <4>2 DEF Migrate!GroupsKept
    <3>4. ASSUME NEW g \in old, g.content = c, g.id # kept.id
          PROVE  Migrate!Older(kept, g)
      <4>1. Migrate!Older(k, g)
        BY <3>2, <3>3, <3>4
      <4>2. QED
        BY <3>3, <4>1 DEF Migrate!Older
    <3>5. QED
      BY <3>3, <3>4
  <2>4. \A f \in db.files : f.batch \in db.batches
    BY <2>1 DEF Migrate!GroupsKept
  <2>5. QED
    BY <2>2, <2>3, <2>4 DEF FirstRecordKept, Migrate!FirstRecordKept
<1>2. QED
  BY <1>1, StartupAlways, PTL

\* A server that is up has the schema of revision 0005, one record per content, no empty batch and no
\* reference to a deleted record (0003 to 0005).
THEOREM HeadAlwaysCurrent == SpecStartup => []HeadIsCurrent
<1>1. StartupInv => HeadIsCurrent
  <2> SUFFICES ASSUME StartupInv, phase = "up"
               PROVE  /\ db.revision = 5 /\ db.unique /\ db.columns = {}
                      /\ Migrate!DuplicatedContents(db) = {} /\ Migrate!EmptyBatches(db) = {}
                      /\ \A f \in db.files : f.duplicateOf # None => \E g \in db.files : g.id = f.duplicateOf
    BY DEF HeadIsCurrent, Migrate!HeadIsCurrent
  <2>1. /\ old \subseteq OldFiles /\ Migrate!Consistent(old) /\ Migrate!GroupsKept(db)
        /\ IsFiniteSet(db.files) /\ Migrate!RevisionInv /\ Migrate!ColumnsInv /\ Migrate!RowsInv
    BY SameFinite DEF StartupInv, Migrate!UpgradeInv, Migrate!TypeOK
  <2>2. /\ db.revision = 5 /\ db.unique /\ db.columns = {} /\ Migrate!EmptyBatches(db) = {}
        /\ Migrate!OnePerContent(db)
    BY <2>1 DEF Migrate!RevisionInv, Migrate!ColumnsInv, Migrate!RowsInv
  <2>3. Migrate!DuplicatedContents(db) = {}
    BY <2>1, <2>2, NoDuplicates
  <2>4. ASSUME NEW f \in db.files, f.duplicateOf # None
        PROVE  \E g \in db.files : g.id = f.duplicateOf
    <3>1. f \in old
      BY <2>1, <2>4, FilesAreOld
    <3>2. PICK g \in old : g.id = f.duplicateOf /\ g.content = f.content
      BY <2>1, <2>4, <3>1 DEF Migrate!Consistent
    <3>3. CASE Migrate!Group(db, f.content) = Migrate!Group(Migrate!Old, f.content)
      <4>1. g \in db.files
        BY <3>2, <3>3 DEF Migrate!Group, Migrate!Old
      <4>2. QED
        BY <3>2, <4>1
    <3>4. CASE Migrate!Group(db, f.content) = {Migrate!Kept(f.content)}
      <4>1. f = Migrate!Kept(f.content)
        BY <3>4 DEF Migrate!Group
      <4>2. QED
        BY <2>1, <2>4, <3>1, <4>1, KeptRecord
    <3>5. QED
      BY <2>1, <3>1, <3>3, <3>4 DEF Migrate!GroupsKept
  <2>5. QED
    BY <2>2, <2>3, <2>4
<1>2. QED
  BY <1>1, StartupAlways, PTL

\* Of two records of a content that have no older one beside them, the one is the other.
LEMMA OldestIsOne ==
    ASSUME NEW f \in OldFiles, NEW g \in OldFiles,
           f # g => Migrate!Older(f, g), f # g => Migrate!Older(g, f)
    PROVE  f = g
  BY AgeIsTransitive, AgeIsIrreflexive

\* Under every revision the committed rows are those it leaves of the old ones, whatever was killed
\* (0003, 0005, Alembic's commit per revision).
THEOREM RevisionsAlwaysWhole == SpecStartup => []RevisionsWhole
<1> DEFINE sharing(f) == {g \in old \ {f} : g.content = f.content /\ f.content # None}
           first == {f \in old : \A g \in sharing(f) : Migrate!Older(f, g)}
           left(f) == IF sharing(f) = {} THEN f ELSE [f EXCEPT !.duplicateOf = None]
           cleaned == {left(f) : f \in first}
<1>1. StartupInv => RevisionsWhole
  <2> SUFFICES ASSUME StartupInv
               PROVE  /\ db.files = IF db.revision = 2 THEN old ELSE cleaned
                      /\ db.batches = IF db.revision < 5 THEN OldBatches ELSE {f.batch : f \in cleaned}
    BY DEF RevisionsWhole, Migrate!RevisionsWhole
  <2>1. /\ old \subseteq OldFiles /\ Migrate!GroupsKept(db) /\ Migrate!RevisionInv /\ Migrate!RowsInv
        /\ Migrate!CommitInv /\ db \in Migrate!Database
    BY DEF StartupInv, Migrate!UpgradeInv, Migrate!TypeOK
  <2>2. db.revision \in 2..5
    BY <2>1 DEF Migrate!Database
  <2>3. ASSUME NEW f \in old, f.content # None
        PROVE  Migrate!Group(Migrate!Old, f.content) = sharing(f) \cup {f}
    BY <2>3 DEF Migrate!Group, Migrate!Old
  <2>4. ASSUME NEW f \in old, Migrate!OnePerContent(db), f.content # None,
               Migrate!Group(db, f.content) = Migrate!Group(Migrate!Old, f.content)
        PROVE  sharing(f) = {} /\ f \in db.files
    <3>1. \A g \in old : g.content = f.content => g \in db.files
      BY <2>4 DEF Migrate!Group, Migrate!Old
    <3>2. QED
      BY <2>4, <3>1 DEF Migrate!OnePerContent
  <2>5. ASSUME NEW f \in old, Migrate!Cardinality(Migrate!Group(Migrate!Old, f.content)) > 1, f.content # None
        PROVE  sharing(f) # {}
    <3>1. SUFFICES ASSUME sharing(f) = {}
                   PROVE  FALSE
      OBVIOUS
    <3>2. Migrate!Group(Migrate!Old, f.content) = {f}
      BY <2>3, <2>5, <3>1
    <3>3. Migrate!Cardinality({f}) = 1
      BY FS_Singleton, SameCount
    <3>4. QED
      BY <2>5, <3>2, <3>3
  <2>6. ASSUME Migrate!OnePerContent(db), NEW r \in db.files
        PROVE  r \in cleaned
    <3>1. PICK h \in old : h.content = r.content
      BY <2>1 DEF Migrate!GroupsKept
    <3>2. r \in Migrate!Group(db, h.content)
      BY <3>1 DEF Migrate!Group
    <3>3. CASE Migrate!Group(db, h.content) = Migrate!Group(Migrate!Old, h.content)
      <4>1. r \in old
        BY <3>2, <3>3 DEF Migrate!Group, Migrate!Old
      <4>2. sharing(r) = {}
        BY <2>4, <2>6, <3>1, <3>3, <4>1
      <4>3. QED
        BY <4>1, <4>2
    <3>4. CASE /\ h.content # None /\ Migrate!Cardinality(Migrate!Group(Migrate!Old, h.content)) > 1
               /\ Migrate!Group(db, h.content) = {Migrate!Kept(h.content)}
      <4>1. PICK k \in old :
               /\ Migrate!Kept(h.content) = [k EXCEPT !.duplicateOf = None] /\ k.content = h.content
               /\ \A g \in old : g.content = h.content /\ g # k => Migrate!Older(k, g)
        BY <2>1, KeptRecord
      <4>2. sharing(k) # {} /\ k \in first
        BY <2>5, <3>4, <4>1
      <4>3. r = left(k)
        BY <3>2, <3>4, <4>1, <4>2
      <4>4. QED
        BY <4>2, <4>3
    <3>5. QED
      BY <2>1, <3>1, <3>3, <3>4 DEF Migrate!GroupsKept
  <2>7. ASSUME Migrate!OnePerContent(db), NEW f \in first
        PROVE  left(f) \in db.files
    <3>1. CASE f.content = None
      <4>1. f \in db.files
        BY <2>1, <3>1 DEF Migrate!GroupsKept, Migrate!Group, Migrate!Old
      <4>2. QED
        BY <3>1, <4>1
    <3>2. CASE f.content # None /\ Migrate!Group(db, f.content) = Migrate!Group(Migrate!Old, f.content)
      BY <2>4, <2>7, <3>2
    <3>3. CASE /\ f.content # None /\ Migrate!Cardinality(Migrate!Group(Migrate!Old, f.content)) > 1
               /\ Migrate!Group(db, f.content) = {Migrate!Kept(f.content)}
      <4>1. PICK k \in old :
               /\ Migrate!Kept(f.content) = [k EXCEPT !.duplicateOf = None] /\ k.content = f.content
               /\ \A g \in old : g.content = f.content /\ g # k => Migrate!Older(k, g)
        BY <2>1, KeptRecord
      <4>2. f # k => Migrate!Older(f, k)
        BY <3>3, <4>1
      <4>3. f = k
        BY <2>1, <4>1, <4>2, OldestIsOne
      <4>4. left(f) = Migrate!Kept(f.content)
        BY <2>5, <3>3, <4>1, <4>3
      <4>5. QED
        BY <3>3, <4>4 DEF Migrate!Group
    <3>4. QED
      BY <2>1, <3>1, <3>2, <3>3 DEF Migrate!GroupsKept
  <2>8. CASE db.revision = 2
    BY <2>1, <2>8 DEF Migrate!CommitInv
  <2>9. CASE db.revision >= 3
    <3>1. Migrate!OnePerContent(db)
      BY <2>1, <2>9 DEF Migrate!RowsInv
    <3>2. db.files = cleaned
      <4> HIDE DEF left
      <4>1. QED
        BY <3>1, <2>6, <2>7
    <3>3. db.revision < 5 => db.batches = OldBatches
      BY <2>1, <2>2 DEF Migrate!CommitInv
    <3>4. db.revision = 5 => db.batches = {f.batch : f \in db.files}
      <4>1. db.revision = 5 => Migrate!EmptyBatches(db) = {}
        BY <2>1 DEF Migrate!RevisionInv, Migrate!RowsInv
      <4>2. QED
        BY <2>1, <4>1 DEF Migrate!EmptyBatches, Migrate!GroupsKept
    <3>5. QED
      <4> HIDE DEF cleaned
      <4>1. db.files = cleaned /\ db.revision # 2
        BY <2>9, <3>2
      <4>2. {f.batch : f \in db.files} = {f.batch : f \in cleaned}
        BY <4>1
      <4>3. db.batches = IF db.revision < 5 THEN OldBatches ELSE {f.batch : f \in cleaned}
        <5>1. CASE db.revision < 5
          BY <5>1, <3>3
        <5>2. CASE db.revision = 5
          BY <5>2, <4>2, <3>4
        <5>3. QED
          BY <2>2, <5>1, <5>2
      <4>4. QED
        BY <4>1, <4>3
  <2>10. QED
    BY <2>2, <2>8, <2>9
<1>2. QED
  BY <1>1, StartupAlways, PTL

\* An upgrade that fails was cut by a kill behind the statement about a column (0003, 0004).
THEOREM OnlyCutDdlFails == SpecStartup => []FailureIsCutDdl
<1>1. StartupInv => FailureIsCutDdl
  BY DEF StartupInv, FailureIsCutDdl, Migrate!FailureIsCutDdl, Migrate!UpgradeInv, Migrate!TypeOK,
         Migrate!RevisionInv, Migrate!ColumnsInv
<1>2. QED
  BY <1>1, StartupAlways, PTL

\* After an upgrade a walk to the end is given each old content once (0003 against list_files).
THEOREM OldContentsListedOnce == SpecStartup => []OldContentsOnce
<1>1. StartupInv => OldContentsOnce
  <2> SUFFICES ASSUME StartupInv, phase = "up", at = "end",
                      NEW c \in {f.content : f \in old} \ {None}
               PROVE  Cardinality({r \in given : \E f \in old : f.content = c /\ f.id = r.id}) = 1
    BY DEF OldContentsOnce
  <2>1. /\ old \subseteq OldFiles /\ Migrate!GroupsKept(db) /\ Migrate!OnePerContent(db)
    BY DEF StartupInv, Migrate!UpgradeInv, Migrate!TypeOK, Migrate!RevisionInv, Migrate!RowsInv
  <2>2. /\ given \subseteq rows /\ start \subseteq given
        /\ \A f \in db.files : RowOf(f) \in start
        /\ \A r \in rows : IsOldId(r.id) => \E f \in db.files : r = RowOf(f)
    BY DEF StartupInv, WalkInv, ListInv
  <2>3. PICK h \in old : h.content = c
    OBVIOUS
  <2>4. PICK k \in db.files : k.content = c
    <3>1. CASE Migrate!Group(db, c) = Migrate!Group(Migrate!Old, c)
      <4>1. h \in db.files
        BY <2>3, <3>1 DEF Migrate!Group, Migrate!Old
      <4>2. QED
        BY <2>3, <4>1
    <3>2. CASE Migrate!Group(db, c) = {Migrate!Kept(c)}
      BY <3>2 DEF Migrate!Group
    <3>3. QED
      BY <2>1, <2>3, <3>1, <3>2 DEF Migrate!GroupsKept
  <2>5. PICK g \in old : g.id = k.id /\ g.content = c
    BY <2>1, <2>4 DEF Migrate!GroupsKept
  <2> DEFINE listed == {r \in given : \E f \in old : f.content = c /\ f.id = r.id}
  <2>6. RowOf(k) \in listed
    <3>1. RowOf(k) \in given /\ RowOf(k).id = k.id
      BY <2>2, <2>4 DEF RowOf
    <3>2. QED
      BY <2>5, <3>1
  <2>7. ASSUME NEW r \in listed
        PROVE  r = RowOf(k)
    <3>1. PICK f \in old : f.content = c /\ f.id = r.id
      OBVIOUS
    <3>2. PICK x \in db.files : r = RowOf(x)
      BY <2>1, <2>2, <3>1 DEF IsOldId
    <3>3. x.id = r.id
      BY <3>2 DEF RowOf
    <3>4. PICK y \in old : y.id = x.id /\ y.content = x.content
      BY <2>1 DEF Migrate!GroupsKept
    <3>5. y = f
      BY <2>1, <3>1, <3>3, <3>4, OldIdsDiffer
    <3>6. x = k
      BY <2>1, <2>4, <3>1, <3>4, <3>5 DEF Migrate!OnePerContent
    <3>7. QED
      BY <3>2, <3>6
  <2>8. listed = {RowOf(k)}
    BY <2>6, <2>7
  <2>9. QED
    BY <2>8, FS_Singleton
<1>2. QED
  BY <1>1, StartupAlways, PTL

\* A walk that begins on an upgraded list is given no row twice (list_files).
THEOREM NothingRepeatedAfterStart == SpecStartup => []NothingTwice
<1>1. StartupInv => NothingTwice
  BY DEF StartupInv, WalkInv, NothingTwice
<1>2. QED
  BY <1>1, StartupAlways, PTL

\* A walk on an upgraded list that comes to its end was given every row it began with (list_files).
THEOREM WalkCompleteAfterStart == SpecStartup => []NothingSkipped
<1>1. StartupInv => NothingSkipped
  BY DEF StartupInv, WalkInv, NothingSkipped
<1>2. QED
  BY <1>1, StartupAlways, PTL

=============================================================================
