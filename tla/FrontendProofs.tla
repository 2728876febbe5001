---------------------------- MODULE FrontendProofs ----------------------------
(***************************************************************************)
(* Proofs about FrontendFiles, for any uploads, contents and page size.    *)
(***************************************************************************)
EXTENDS FrontendFiles, FiniteSetTheorems, FunctionTheorems, SequenceTheorems, WellFoundedInduction, TLAPS

-----------------------------------------------------------------------------
(* The loop over the files of an upload.  The library's induction takes an *)
(* operator, so each induction here is over the least counterexample.      *)

\* Every set of numbers that has an element has a least one.
LEMMA LeastNumber ==
    ASSUME NEW T, T \subseteq Nat, T # {}
    PROVE  \E n \in T : \A m \in T : ~ (m < n)
<1>1. PICK n \in T : \A m \in T : <<m, n>> \notin OpToRel(<, Nat)
  BY WFMin, NatLessThanWellFounded
<1>2. \A m \in T : <<m, n>> \in OpToRel(<, Nat) <=> m < n
  BY DEF OpToRel
<1> QED BY <1>1, <1>2

\* p holds the server's records after each of the first n files of u.
TakesUpTo(p, u, n) == p = [i \in 0..n |-> IF i = 0 THEN records ELSE Take(u, p[i - 1], i)]

\* There are such records, however far the loop goes.
LEMMA TakesExist ==
    ASSUME NEW u, NEW n \in Nat
    PROVE  \E p : TakesUpTo(p, u, n)
<1> DEFINE T == {m \in Nat : ~ \E p : TakesUpTo(p, u, m)}
<1> SUFFICES ASSUME T # {}
             PROVE  FALSE
  OBVIOUS
<1>1. PICK m \in T : \A k \in T : ~ (k < m)
  <2>1. T \subseteq Nat
    OBVIOUS
  <2> HIDE DEF T
  <2> QED BY <2>1, LeastNumber
<1>2. CASE m = 0
  <2>1. TakesUpTo([i \in 0..0 |-> records], u, 0)
    BY DEF TakesUpTo
  <2> QED BY <1>1, <1>2, <2>1
<1>3. CASE m # 0
  <2>1. m \in Nat /\ m - 1 \in Nat /\ m - 1 < m
    BY <1>3
  <2>2. PICK p : TakesUpTo(p, u, m - 1)
    BY <1>1, <2>1
  <2>3. PICK q : q = [i \in 0..m |-> IF i = m THEN Take(u, p[m - 1], m) ELSE p[i]]
    OBVIOUS
  <2>4. ASSUME NEW i \in 0..m
        PROVE  q[i] = IF i = 0 THEN records ELSE Take(u, q[i - 1], i)
    <3>1. CASE i = m
      <4>1. q[m] = Take(u, p[m - 1], m) /\ q[m - 1] = p[m - 1]
        BY <2>1, <2>3
      <4> QED BY <3>1, <4>1, <1>3
    <3>2. CASE i # m
      <4>1. i \in 0..(m - 1) /\ q[i] = p[i] /\ (i # 0 => q[i - 1] = p[i - 1])
        BY <2>1, <2>3, <3>2
      <4>2. p[i] = IF i = 0 THEN records ELSE Take(u, p[i - 1], i)
        BY <2>2, <4>1 DEF TakesUpTo
      <4> QED BY <4>1, <4>2
    <3> QED BY <3>1, <3>2
  <2>5. TakesUpTo(q, u, m)
    BY <2>3, <2>4 DEF TakesUpTo
  <2> QED BY <1>1, <2>5
<1> QED BY <1>2, <1>3

\* They are the same where both go.
LEMMA TakesAgree ==
    ASSUME NEW u, NEW n \in Nat, NEW m \in Nat, n <= m, NEW p, NEW q,
           TakesUpTo(p, u, n), TakesUpTo(q, u, m)
    PROVE  \A i \in 0..n : p[i] = q[i]
<1> DEFINE T == {i \in 0..n : p[i] # q[i]}
<1> SUFFICES ASSUME T # {}
             PROVE  FALSE
  OBVIOUS
<1>1. PICK i \in T : \A k \in T : ~ (k < i)
  <2>1. T \subseteq Nat
    OBVIOUS
  <2> HIDE DEF T
  <2> QED BY <2>1, LeastNumber
<1>2. i \in 0..n /\ i \in 0..m /\ p[i] # q[i]
  OBVIOUS
<1>3. /\ p[i] = IF i = 0 THEN records ELSE Take(u, p[i - 1], i)
      /\ q[i] = IF i = 0 THEN records ELSE Take(u, q[i - 1], i)
  BY <1>2 DEF TakesUpTo
<1>4. i # 0
  BY <1>2, <1>3
<1>5. i - 1 \in 0..n /\ i - 1 < i
  BY <1>2, <1>4
<1>6. p[i - 1] = q[i - 1]
  BY <1>1, <1>5
<1> QED BY <1>2, <1>3, <1>4, <1>6

\* The records after an upload come about one file at a time.
LEMMA TakenSteps ==
    ASSUME NEW u
    PROVE  \E after : /\ Taken(u) = after[Len(FilesIn[u])] /\ after[0] = records
                      /\ \A i \in Nat : i # 0 => after[i] = Take(u, after[i - 1], i)
<1> DEFINE P(j) == CHOOSE p : TakesUpTo(p, u, j)
           g == [j \in Nat |-> P(j)[j]]
           IsLoop(s) == s = [i \in Nat |-> IF i = 0 THEN records ELSE Take(u, s[i - 1], i)]
           after == CHOOSE s : IsLoop(s)
<1>1. \A j \in Nat : TakesUpTo(P(j), u, j)
  BY TakesExist
<1>2. ASSUME NEW j \in Nat
      PROVE  g[j] = IF j = 0 THEN records ELSE Take(u, g[j - 1], j)
  <2> HIDE DEF P
  <2>1. P(j)[j] = IF j = 0 THEN records ELSE Take(u, P(j)[j - 1], j)
    BY <1>1 DEF TakesUpTo
  <2>2. ASSUME j # 0
        PROVE  P(j - 1)[j - 1] = P(j)[j - 1]
    <3>1. j - 1 \in Nat /\ j - 1 <= j /\ j - 1 \in 0..(j - 1)
      BY <2>2
    <3>2. TakesUpTo(P(j - 1), u, j - 1) /\ TakesUpTo(P(j), u, j)
      BY <1>1, <3>1
    <3>3. \A i \in 0..(j - 1) : P(j - 1)[i] = P(j)[i]
      BY <3>1, <3>2, TakesAgree
    <3> QED BY <3>1, <3>3
  <2>3. j # 0 => g[j - 1] = P(j - 1)[j - 1]
    OBVIOUS
  <2> QED BY <2>1, <2>2, <2>3
<1>3. IsLoop(g)
  <2>1. g = [i \in Nat |-> g[i]]
    OBVIOUS
  <2> HIDE DEF g
  <2> QED BY <1>2, <2>1
<1>4. IsLoop(after)
  <2> HIDE DEF g, IsLoop
  <2> QED BY <1>3
<1>5. Taken(u) = after[Len(FilesIn[u])]
  BY DEF Taken
<1>6. \A i \in Nat : after[i] = IF i = 0 THEN records ELSE Take(u, after[i - 1], i)
  <2> HIDE DEF after
  <2> QED BY <1>4
<1> HIDE DEF after
<1> QED BY <1>5, <1>6

-----------------------------------------------------------------------------
(* What the server's loop makes of the records.                            *)

\* An upload's files have numbers and contents.
LEMMA FilesType ==
    ASSUME NEW u \in Uploads
    PROVE  /\ Len(FilesIn[u]) \in Nat /\ DOMAIN FilesIn[u] = 1..Len(FilesIn[u])
           /\ \A i \in DOMAIN FilesIn[u] : FilesIn[u][i] \in Contents /\ <<u, i>> \in FileId
           /\ Ids(u) \subseteq FileId /\ \A id \in Ids(u) : id[1] = u
<1>1. FilesIn[u] \in Seq(Contents)
  BY FilesInAssumption
<1>2. Len(FilesIn[u]) \in Nat /\ DOMAIN FilesIn[u] = 1..Len(FilesIn[u])
  BY <1>1
<1>3. \A i \in DOMAIN FilesIn[u] : FilesIn[u][i] \in Contents /\ <<u, i>> \in FileId
  BY <1>1, <1>2 DEF FileId
<1> QED BY <1>2, <1>3 DEF Ids

\* The records as they were, and records of the first i files of u behind them, one of an id.
Grown(done, u, i) ==
    /\ done \in Seq(Record) /\ Len(records) <= Len(done)
    /\ \A k \in DOMAIN records : done[k] = records[k]
    /\ \A k \in DOMAIN done : k > Len(records) => \E j \in 1..i : done[k].id = <<u, j>>
    /\ \A k, l \in DOMAIN done : done[k].id = done[l].id => k = l

\* One more file: one record more, or none.
LEMMA TakeGrows ==
    ASSUME records \in Seq(Record), NEW u \in Uploads, NEW i \in DOMAIN FilesIn[u], NEW done,
           \A k \in DOMAIN records : records[k].id[1] # u, Grown(done, u, i - 1)
    PROVE  Grown(Take(u, done, i), u, i)
<1>1. i \in Nat \ {0} /\ FilesIn[u][i] \in Contents /\ <<u, i>> \in FileId
  BY FilesType
<1>2. Len(records) \in Nat /\ DOMAIN records = 1..Len(records)
  OBVIOUS
<1>3. done \in Seq(Record) /\ Len(done) \in Nat /\ DOMAIN done = 1..Len(done) /\ Len(records) <= Len(done)
  BY DEF Grown
<1>4. CASE Take(u, done, i) = done
  <2>1. \A k \in DOMAIN done : k > Len(records) => \E j \in 1..i : done[k].id = <<u, j>>
    BY <1>1 DEF Grown
  <2> QED BY <1>4, <2>1 DEF Grown
<1>5. ASSUME NEW state \in {"registered", "failed"},
             Take(u, done, i) = Append(done, [id |-> <<u, i>>, content |-> FilesIn[u][i], state |-> state])
      PROVE  Grown(Take(u, done, i), u, i)
  <2> DEFINE new == [id |-> <<u, i>>, content |-> FilesIn[u][i], state |-> state]
  <2>1. new \in Record /\ new.id = <<u, i>>
    BY <1>1 DEF Record
  <2>2. PICK more : more = Append(done, new)
    OBVIOUS
  <2> HIDE DEF new
  <2>3. /\ more \in Seq(Record) /\ Len(more) = Len(done) + 1 /\ DOMAIN more = 1..(Len(done) + 1)
        /\ \A k \in DOMAIN done : more[k] = done[k]
        /\ more[Len(done) + 1] = new
    BY <1>3, <2>1, <2>2, AppendProperties
  <2>4. \A k \in DOMAIN records : more[k] = records[k]
    BY <1>2, <1>3, <2>3 DEF Grown
  <2>5. ASSUME NEW k \in DOMAIN more, k > Len(records)
        PROVE  \E j \in 1..i : more[k].id = <<u, j>>
    <3>1. CASE k = Len(done) + 1
      BY <1>1, <2>1, <2>3, <3>1
    <3>2. CASE k # Len(done) + 1
      <4>1. k \in DOMAIN done /\ more[k] = done[k]
        BY <1>3, <2>3, <3>2
      <4>2. PICK j \in 1..(i - 1) : done[k].id = <<u, j>>
        BY <2>5, <4>1 DEF Grown
      <4> QED BY <1>1, <4>1, <4>2
    <3> QED BY <3>1, <3>2
  <2>6. ASSUME NEW k \in DOMAIN done
        PROVE  done[k].id # <<u, i>>
    <3>1. CASE k > Len(records)
      <4>1. PICK j \in 1..(i - 1) : done[k].id = <<u, j>>
        BY <2>6, <3>1 DEF Grown
      <4> QED BY <1>1, <4>1
    <3>2. CASE ~ (k > Len(records))
      <4>1. k \in DOMAIN records /\ done[k] = records[k]
        BY <1>2, <1>3, <3>2 DEF Grown
      <4>2. records[k].id[1] # u
        BY <4>1
      <4> QED BY <4>1, <4>2
    <3> QED BY <3>1, <3>2
  <2>7. ASSUME NEW k \in DOMAIN more, NEW l \in DOMAIN more, more[k].id = more[l].id
        PROVE  k = l
    <3>1. \A n \in DOMAIN more : n # Len(done) + 1 => n \in DOMAIN done
      BY <1>3, <2>3
    <3>2. \A n \in DOMAIN more : n # Len(done) + 1 => more[n].id # <<u, i>>
      BY <2>3, <2>6, <3>1
    <3>3. CASE k = Len(done) + 1 \/ l = Len(done) + 1
      BY <2>1, <2>3, <2>7, <3>2, <3>3
    <3>4. CASE k # Len(done) + 1 /\ l # Len(done) + 1
      BY <2>3, <2>7, <3>1, <3>4 DEF Grown
    <3> QED BY <3>3, <3>4
  <2>8. Len(records) <= Len(more)
    BY <1>2, <1>3, <2>3
  <2>9. Grown(more, u, i)
    BY <2>3, <2>4, <2>5, <2>7, <2>8 DEF Grown
  <2>10. Take(u, done, i) = more
    BY <1>5, <2>2 DEF new
  <2> QED BY <2>9, <2>10
<1>6. \/ Take(u, done, i) = done
      \/ \E state \in {"registered", "failed"} :
            Take(u, done, i) = Append(done, [id |-> <<u, i>>, content |-> FilesIn[u][i], state |-> state])
  <2> DEFINE c == FilesIn[u][i]
  <2>1. CASE c \in Refused
    BY <2>1 DEF Take
  <2>2. CASE c \notin Refused /\ Owned(c, done)
    BY <2>2 DEF Take
  <2>3. CASE c \notin Refused /\ ~ Owned(c, done)
    BY <2>3 DEF Take
  <2> QED BY <2>1, <2>2, <2>3
<1> QED BY <1>4, <1>5, <1>6

\* The whole upload.
LEMMA TakenGrows ==
    ASSUME records \in Seq(Record), NEW u \in Uploads, \A k \in DOMAIN records : records[k].id[1] # u,
           \A i, j \in DOMAIN records : records[i].id = records[j].id => i = j
    PROVE  Grown(Taken(u), u, Len(FilesIn[u]))
<1> PICK after : /\ Taken(u) = after[Len(FilesIn[u])] /\ after[0] = records
                 /\ \A i \in Nat : i # 0 => after[i] = Take(u, after[i - 1], i)
  BY TakenSteps
<1>1. Len(FilesIn[u]) \in Nat /\ DOMAIN FilesIn[u] = 1..Len(FilesIn[u])
  BY FilesType
<1> DEFINE T == {n \in 0..Len(FilesIn[u]) : ~ Grown(after[n], u, n)}
<1> SUFFICES ASSUME T # {}
             PROVE  FALSE
  BY <1>1
<1>2. PICK n \in T : \A k \in T : ~ (k < n)
  <2>1. T \subseteq Nat
    BY <1>1
  <2> HIDE DEF T
  <2> QED BY <2>1, LeastNumber
<1>3. n # 0
  <2>1. Grown(records, u, 0)
    BY DEF Grown
  <2> QED BY <2>1
<1>4. n - 1 \in 0..Len(FilesIn[u]) /\ n - 1 < n /\ n \in DOMAIN FilesIn[u] /\ n \in Nat
  BY <1>1, <1>3
<1>5. Grown(after[n - 1], u, n - 1)
  BY <1>2, <1>4
<1>6. Grown(Take(u, after[n - 1], n), u, n)
  BY <1>4, <1>5, TakeGrows
<1> QED BY <1>3, <1>4, <1>6

\* The first page is full once there are enough records, as there is one of an id.
LEMMA PageFull ==
    ASSUME records \in Seq(Record), RecordsInv, Len(records) > PageSize
    PROVE  Cardinality(FirstPage) = PageSize
<1> DEFINE S == (Len(records) - PageSize + 1)..Len(records)
           f == [i \in S |-> records[i]]
<1>1. PageSize \in Nat \ {0} /\ Len(records) \in Nat /\ DOMAIN records = 1..Len(records)
  BY FilesInAssumption
<1>2. S = {j \in DOMAIN records : j > Len(records) - PageSize}
  BY <1>1
<1>3. IsFiniteSet(S) /\ Cardinality(S) = PageSize
  <2>1. /\ Len(records) - PageSize + 1 \in Int /\ Len(records) \in Int
        /\ ~ (Len(records) - PageSize + 1 > Len(records))
        /\ Len(records) - (Len(records) - PageSize + 1) + 1 = PageSize
    BY <1>1
  <2> QED BY <2>1, FS_Interval
<1>4. FirstPage = {f[i] : i \in S}
  BY <1>2 DEF FirstPage
<1>5. \A i, j \in S : f[i] = f[j] => i = j
  BY <1>2 DEF RecordsInv
<1>6. f \in Bijection(S, FirstPage)
  <2>1. f \in [S -> FirstPage] /\ \A t \in FirstPage : \E i \in S : f[i] = t
    BY <1>4
  <2> HIDE DEF S, f
  <2> QED BY <1>5, <2>1, Fun_IsBij
<1>7. Cardinality(FirstPage) = Cardinality(S)
  <2> HIDE DEF S, f
  <2> QED BY <1>3, <1>6, FS_Bijection DEF ExistsBijection
<1> QED BY <1>3, <1>7

-----------------------------------------------------------------------------
(* The server's records.                                                   *)

\* Which calls are where.
LEMMA CallStep ==
    ASSUME TypeOK, NEW u \in Uploads, AddFiles(u) \/ Step(u)
    PROVE  /\ call' = [call EXCEPT ![u] = call'[u]]
           /\ \A v \in Uploads \ {u} : call'[v] = call[v]
           /\ call'[u] \in Calls \ {"new"} /\ refresh' = refresh
           /\ call[u] \notin {"new", "posting", "lost"} => call'[u] \notin {"new", "posting", "lost"}
BY DEF TypeOK, AddFiles, Step, Intake, Uploaded, List, Listed, Failed, Calls, UnderWay

\* An intake adds records of its upload to those that are there.
LEMMA IntakeGrows ==
    ASSUME TypeOK, RecordsInv, NEW u \in Uploads, Intake(u)
    PROVE  Grown(records', u, Len(FilesIn[u]))
<1>1. \A k \in DOMAIN records : records[k].id[1] # u
  BY DEF RecordsInv, Intake
<1>2. Grown(Taken(u), u, Len(FilesIn[u]))
  BY <1>1, TakenGrows DEF TypeOK, RecordsInv
<1> QED BY <1>2 DEF Intake

\* Only intake touches the records.
LEMMA RecordsStay ==
    ASSUME [Next]_vars, \A u \in Uploads : ~ Intake(u)
    PROVE  records' = records /\ duplicates' = duplicates
BY DEF Next, vars, AddFiles, Step, Uploaded, List, Listed, Failed, ListForRefresh, Refreshed,
   ResetDuplicates, Idle

\* What was recorded stays recorded.
LEMMA RecordsKept ==
    ASSUME TypeOK, RecordsInv, [Next]_vars
    PROVE  /\ records' \in Seq(Record) /\ Len(records) <= Len(records')
           /\ RecordedIds(records) \subseteq RecordedIds(records')
<1>1. Len(records) \in Nat /\ DOMAIN records = 1..Len(records)
  BY DEF TypeOK
<1>2. ASSUME NEW u \in Uploads, Intake(u)
      PROVE  /\ records' \in Seq(Record) /\ Len(records) <= Len(records')
             /\ RecordedIds(records) \subseteq RecordedIds(records')
  <2>1. Grown(records', u, Len(FilesIn[u]))
    BY <1>2, IntakeGrows
  <2>2. records' \in Seq(Record) /\ Len(records) <= Len(records')
    BY <2>1 DEF Grown
  <2>3. DOMAIN records \subseteq DOMAIN records'
    BY <1>1, <2>2
  <2>4. \A k \in DOMAIN records : records'[k].id = records[k].id
    BY <2>1 DEF Grown
  <2> QED BY <2>2, <2>3, <2>4 DEF RecordedIds
<1>3. CASE \A u \in Uploads : ~ Intake(u)
  BY <1>1, <1>3, RecordsStay DEF TypeOK
<1> QED BY <1>2, <1>3

\* There stays one record of an id, of an upload that the server took.
LEMMA RecordsStep ==
    ASSUME TypeOK, RecordsInv, [Next]_vars
    PROVE  RecordsInv'
<1>1. \A i \in DOMAIN records : records[i] \in Record /\ records[i].id[1] \in Uploads
  <2>1. \A i \in DOMAIN records : records[i] \in Record
    BY DEF TypeOK
  <2> QED BY <2>1 DEF Record, FileId
<1>2. ASSUME NEW u \in Uploads, Intake(u)
      PROVE  RecordsInv'
  <2>1. Grown(records', u, Len(FilesIn[u]))
    BY <1>2, IntakeGrows
  <2>2. call'[u] \in {"posted", "failed"} /\ \A v \in Uploads \ {u} : call'[v] = call[v]
    BY <1>2 DEF Intake, TypeOK
  <2>3. \A k, l \in DOMAIN records' : records'[k].id = records'[l].id => k = l
    BY <2>1 DEF Grown
  <2>4. ASSUME NEW k \in DOMAIN records'
        PROVE  call'[records'[k].id[1]] \notin {"new", "posting", "lost"}
    <3>1. CASE k > Len(records)
      <4>1. PICK j : records'[k].id = <<u, j>>
        BY <2>1, <3>1 DEF Grown
      <4> QED BY <2>2, <4>1
    <3>2. CASE ~ (k > Len(records))
      <4>1. records \in Seq(Record) /\ records' \in Seq(Record)
        BY <2>1 DEF TypeOK, Grown
      <4>2. k \in DOMAIN records
        BY <3>2, <4>1
      <4>3. records'[k] = records[k]
        BY <2>1, <4>2 DEF Grown
      <4> QED BY <1>1, <2>2, <4>2, <4>3 DEF RecordsInv
    <3> QED BY <3>1, <3>2
  <2> QED BY <2>3, <2>4 DEF RecordsInv
<1>3. ASSUME records' = records,
             \A u \in Uploads : call[u] \notin {"new", "posting", "lost"} => call'[u] \notin {"new", "posting", "lost"}
      PROVE  RecordsInv'
  BY <1>1, <1>3 DEF RecordsInv
<1>4. CASE \A u \in Uploads : ~ Intake(u)
  <2>1. ASSUME NEW u \in Uploads, AddFiles(u) \/ Step(u)
        PROVE  \A v \in Uploads : call[v] \notin {"new", "posting", "lost"}
                                    => call'[v] \notin {"new", "posting", "lost"}
    BY <2>1, CallStep
  <2>2. ASSUME ListForRefresh \/ Refreshed \/ ResetDuplicates \/ UNCHANGED vars
        PROVE  call' = call
    BY <2>2 DEF ListForRefresh, Refreshed, ResetDuplicates, vars
  <2> QED BY <1>3, <1>4, <2>1, <2>2, RecordsStay DEF Next, Idle
<1> QED BY <1>2, <1>4

-----------------------------------------------------------------------------
(* The rows on the page.                                                   *)

\* What each kind of row is.
LEMMA RowTypes ==
    /\ \A id \in FileId, state \in {"uploading", "failed"} :
         /\ Local(id, state) \in LocalRow /\ Local(id, state).id = id
         /\ Local(id, state).kind = "local" /\ Local(id, state).state = state
    /\ \A id \in FileId :
         /\ DuplicateRow(id) \in ServerRow /\ DuplicateRow(id).id = id
         /\ DuplicateRow(id).kind = "duplicate"
    /\ \A r \in Record :
         /\ ToViewFile(r, "record") \in ServerRow /\ ToViewFile(r, "record").id = r.id
         /\ ToViewFile(r, "record").kind = "record"
    /\ \A row \in LocalRow : row.kind = "local" /\ row.id \in FileId
    /\ \A row \in ServerRow : row.kind # "local" /\ row.state # "uploading" /\ row.id \in FileId
<1>1. \A id \in FileId, state \in {"uploading", "failed"} :
         /\ Local(id, state) \in LocalRow /\ Local(id, state).id = id
         /\ Local(id, state).kind = "local" /\ Local(id, state).state = state
  BY DEF Local, LocalRow
<1>2. \A id \in FileId : /\ DuplicateRow(id) \in ServerRow /\ DuplicateRow(id).id = id
                         /\ DuplicateRow(id).kind = "duplicate"
  BY DEF DuplicateRow, ServerRow
<1>3. \A r \in Record : /\ ToViewFile(r, "record") \in ServerRow /\ ToViewFile(r, "record").id = r.id
                        /\ ToViewFile(r, "record").kind = "record"
  BY DEF ToViewFile, ServerRow, Record
<1>4. \A row \in LocalRow : row.kind = "local" /\ row.id \in FileId
  BY DEF LocalRow
<1>5. \A row \in ServerRow : row.kind # "local" /\ row.state # "uploading" /\ row.id \in FileId
  BY DEF ServerRow
<1> QED BY <1>1, <1>2, <1>3, <1>4, <1>5

\* The list and the duplicates of an answer make server rows.
LEMMA AnswerRows ==
    ASSUME TypeOK, NEW u \in Uploads
    PROVE  /\ {DuplicateRow(id) : id \in duplicates[u]} \subseteq ServerRow
           /\ {ToViewFile(r, "record") : r \in listing[u]} \subseteq ServerRow
           /\ {ToViewFile(r, "record") : r \in listing["refresh"]} \subseteq ServerRow
<1>1. duplicates[u] \subseteq FileId /\ listing[u] \subseteq Record /\ listing["refresh"] \subseteq Record
  BY DEF TypeOK
<1> QED BY <1>1, RowTypes

\* The first page is of records.
LEMMA PageType ==
    ASSUME records \in Seq(Record)
    PROVE  FirstPage \subseteq Record
BY DEF FirstPage

\* The rows a step leaves: those of before, those of the upload that begins, those it marks as
\* failed, and server rows.
LEMMA ShownStep ==
    ASSUME TypeOK, [Next]_vars, NEW row \in shown'
    PROVE  \/ row \in shown
           \/ \E u \in Uploads : AddFiles(u) /\ \E id \in Ids(u) : row = Local(id, "uploading")
           \/ \E u \in Uploads : Failed(u) /\ \E id \in Ids(u) : row = Local(id, "failed")
           \/ row \in ServerRow
<1>1. ASSUME NEW u \in Uploads, AddFiles(u)
      PROVE  row \in shown \/ \E id \in Ids(u) : row = Local(id, "uploading")
  BY <1>1 DEF AddFiles
<1>2. ASSUME NEW u \in Uploads, Failed(u)
      PROVE  row \in shown \/ \E id \in Ids(u) : row = Local(id, "failed")
  BY <1>2 DEF Failed, LocalIds
<1>3. ASSUME NEW u \in Uploads, Listed(u)
      PROVE  row \in ServerRow
  BY <1>3, AnswerRows DEF Listed
<1>4. ASSUME NEW u \in Uploads, Intake(u) \/ Uploaded(u) \/ List(u)
      PROVE  row \in shown
  BY <1>4 DEF Intake, Uploaded, List
<1>5. ASSUME Refreshed
      PROVE  row \in ServerRow
  <2>1. {ToViewFile(r, "record") : r \in listing["refresh"]} \subseteq ServerRow
    <3>1. listing["refresh"] \subseteq Record
      BY DEF TypeOK
    <3> QED BY <3>1, RowTypes
  <2> QED BY <1>5, <2>1 DEF Refreshed
<1>6. ASSUME ListForRefresh \/ ResetDuplicates \/ UNCHANGED vars
      PROVE  row \in shown
  BY <1>6 DEF ListForRefresh, ResetDuplicates, vars
<1> QED BY <1>1, <1>2, <1>3, <1>4, <1>5, <1>6 DEF Next, Step, Idle

\* The rows of an upload stay those of its files.
LEMMA LocalRowsStep ==
    ASSUME TypeOK, LocalRowsInv, [Next]_vars
    PROVE  LocalRowsInv'
<1> SUFFICES ASSUME NEW row \in shown', row.kind = "local"
             PROVE  row.id \in Ids(row.id[1])
  BY DEF LocalRowsInv, Ids
<1>1. CASE row \in shown
  BY <1>1 DEF LocalRowsInv
<1>2. ASSUME NEW u \in Uploads, NEW id \in Ids(u), NEW state \in {"uploading", "failed"}, row = Local(id, state)
      PROVE  row.id \in Ids(row.id[1])
  <2>1. id \in FileId /\ id[1] = u
    BY FilesType
  <2> QED BY <1>2, <2>1, RowTypes
<1> QED BY <1>1, <1>2, ShownStep, RowTypes

\* Types stay, and no row stays "uploading" that nothing is under way for.
LEMMA TypeStep ==
    ASSUME TypeOK, RecordsInv, LocalRowsInv, [Next]_vars
    PROVE  TypeOK'
<1>1. records' \in Seq(Record)
  BY RecordsKept
<1>2. call' \in [Uploads -> Calls]
  <2>1. ASSUME NEW u \in Uploads, AddFiles(u) \/ Step(u)
        PROVE  call' \in [Uploads -> Calls]
    <3>1. call' = [call EXCEPT ![u] = call'[u]] /\ call'[u] \in Calls
      BY <2>1, CallStep
    <3> QED BY <3>1 DEF TypeOK
  <2>2. ASSUME ListForRefresh \/ Refreshed \/ ResetDuplicates \/ UNCHANGED vars
        PROVE  call' = call
    BY <2>2 DEF ListForRefresh, Refreshed, ResetDuplicates, vars
  <2> QED BY <2>1, <2>2 DEF Next, Idle, TypeOK
<1>3. refresh' \in {"listing", "listed", "done", "failed"} /\ mixed' \in BOOLEAN /\ broken' \in BOOLEAN
  <2>1. ASSUME NEW u \in Uploads, AddFiles(u) \/ Step(u)
        PROVE  refresh' = refresh /\ mixed' \in BOOLEAN /\ broken' \in BOOLEAN
    BY <2>1 DEF TypeOK, AddFiles, Step, Intake, Uploaded, List, Listed, Failed
  <2>2. CASE ListForRefresh \/ Refreshed \/ ResetDuplicates \/ UNCHANGED vars
    BY <2>2 DEF TypeOK, ListForRefresh, Refreshed, ResetDuplicates, vars
  <2> QED BY <2>1, <2>2 DEF Next, Idle, TypeOK
<1>4. duplicates' \in [Uploads -> SUBSET FileId]
  <2>1. ASSUME NEW u \in Uploads, Intake(u)
        PROVE  duplicates' \in [Uploads -> SUBSET FileId]
    <3>1. Ids(u) \ RecordedIds(records') \subseteq FileId
      BY FilesType
    <3>2. duplicates' = [duplicates EXCEPT ![u] = Ids(u) \ RecordedIds(records')]
      BY <2>1 DEF Intake
    <3> QED BY <3>1, <3>2 DEF TypeOK
  <2> QED BY <2>1, RecordsStay DEF TypeOK
<1>5. listing' \in [Uploads \cup {"refresh"} -> SUBSET Record]
  <2>1. FirstPage \subseteq Record
    BY PageType DEF TypeOK
  <2>2. listing' = listing \/ \E c \in Uploads \cup {"refresh"} : listing' = [listing EXCEPT ![c] = FirstPage]
    BY DEF Next, vars, AddFiles, Step, Intake, Uploaded, List, Listed, Failed, ListForRefresh, Refreshed,
       ResetDuplicates, Idle
  <2> QED BY <2>1, <2>2 DEF TypeOK
<1>6. shown' \subseteq LocalRow \cup ServerRow
  <2> SUFFICES ASSUME NEW row \in shown'
               PROVE  row \in LocalRow \cup ServerRow
    OBVIOUS
  <2>1. ASSUME NEW u \in Uploads, NEW id \in Ids(u), NEW state \in {"uploading", "failed"}, row = Local(id, state)
        PROVE  row \in LocalRow
    BY <2>1, FilesType, RowTypes
  <2> QED BY <2>1, ShownStep DEF TypeOK
<1>7. ASSUME NEW row \in shown', row.state = "uploading"
      PROVE  UnderWay(row.id[1])'
  <2>1. CASE row \in shown
    <3>1. PICK v : v = row.id[1]
      OBVIOUS
    <3>2. UnderWay(v) /\ row.kind = "local" /\ row \in LocalRow
      BY <1>7, <2>1, <3>1, RowTypes DEF TypeOK
    <3>3. v \in Uploads /\ row.id \in Ids(v)
      <4>1. row.id \in FileId
        BY <3>2, RowTypes
      <4>2. row.id \in Ids(v)
        BY <2>1, <3>1, <3>2 DEF LocalRowsInv
      <4> QED BY <3>1, <4>1, <4>2 DEF FileId
    <3>4. UnderWay(v)'
      <4>1. ASSUME NEW u \in Uploads, AddFiles(u) \/ Intake(u) \/ Uploaded(u) \/ List(u)
            PROVE  UnderWay(v)'
        BY <3>2, <3>3, <4>1 DEF TypeOK, UnderWay, AddFiles, Intake, Uploaded, List
      <4>2. ASSUME NEW u \in Uploads, Listed(u)
            PROVE  FALSE
        <5>1. shown' \subseteq ServerRow
          BY <4>2, AnswerRows DEF Listed
        <5> QED BY <1>7, <5>1, RowTypes
      <4>3. ASSUME NEW u \in Uploads, Failed(u)
            PROVE  UnderWay(v)'
        <5>1. CASE u = v
          <6>1. row \in LocalIds(u)
            BY <2>1, <3>2, <3>3, <5>1 DEF LocalIds
          <6>2. PICK old \in LocalIds(u) : row = Local(old.id, "failed")
            BY <4>3, <6>1 DEF Failed
          <6> QED BY <1>7, <6>2 DEF Local
        <5>2. CASE u # v
          BY <3>2, <3>3, <4>3, <5>2 DEF TypeOK, UnderWay, Failed
        <5> QED BY <5>1, <5>2
      <4>4. CASE ListForRefresh \/ Refreshed \/ ResetDuplicates \/ UNCHANGED vars
        BY <3>2, <4>4 DEF UnderWay, ListForRefresh, Refreshed, ResetDuplicates, vars
      <4> QED BY <4>1, <4>2, <4>3, <4>4 DEF Next, Step, Idle
    <3> QED BY <3>1, <3>4
  <2>2. ASSUME NEW u \in Uploads, AddFiles(u), NEW id \in Ids(u), row = Local(id, "uploading")
        PROVE  UnderWay(row.id[1])'
    <3>1. id \in FileId /\ id[1] = u
      BY FilesType
    <3>2. row.id[1] = u
      BY <2>2, <3>1, RowTypes
    <3>3. call'[u] = "posting"
      BY <2>2 DEF AddFiles, TypeOK
    <3> QED BY <3>2, <3>3 DEF UnderWay
  <2>3. ASSUME NEW id, row = Local(id, "failed")
        PROVE  FALSE
    BY <1>7, <2>3 DEF Local
  <2> QED BY <1>7, <2>1, <2>2, <2>3, ShownStep, RowTypes
<1>8. \A row \in shown' : row.state = "uploading" => UnderWay(row.id[1])'
  BY <1>7
<1> QED BY <1>1, <1>2, <1>3, <1>4, <1>5, <1>6, <1>8 DEF TypeOK, UnderWay

-----------------------------------------------------------------------------
(* What the answer to an upload says.                                      *)

\* Each file of the upload is in the answer, as long as it is not shown.
LEMMA AnsweredStep ==
    ASSUME TypeOK, RecordsInv, NEW v \in Uploads, AnsweredAt(v), [Next]_vars
    PROVE  AnsweredAt(v)'
<1>1. RecordedIds(records) \subseteq RecordedIds(records')
  BY RecordsKept
<1>2. ASSUME call'[v] = call[v], duplicates'[v] = duplicates[v],
             call[v] = "listed" => listing'[v] = listing[v]
      PROVE  AnsweredAt(v)'
  BY <1>1, <1>2 DEF AnsweredAt, Ids
<1>3. CASE Intake(v)
  <2>1. duplicates'[v] = Ids(v) \ RecordedIds(records')
    BY <1>3 DEF Intake, TypeOK
  <2>2. call'[v] \in {"posted", "failed"}
    BY <1>3 DEF Intake, TypeOK
  <2> QED BY <2>1, <2>2 DEF AnsweredAt, Ids
<1>4. CASE Uploaded(v)
  BY <1>4 DEF Uploaded, AnsweredAt, Ids, TypeOK
<1>5. CASE List(v)
  <2>1. call'[v] = "listed" /\ listing'[v] = FirstPage /\ UNCHANGED <<records, duplicates>>
    BY <1>5 DEF List, TypeOK
  <2>2. CASE Len(records) > PageSize
    <3>1. Cardinality(FirstPage) = PageSize
      BY <2>2, PageFull DEF TypeOK
    <3> QED BY <2>1, <3>1 DEF AnsweredAt
  <2>3. CASE ~ (Len(records) > PageSize)
    <3>1. PageSize \in Nat /\ Len(records) \in Nat /\ DOMAIN records = 1..Len(records)
      BY FilesInAssumption DEF TypeOK
    <3>2. FirstPage = {records[i] : i \in DOMAIN records}
      BY <2>3, <3>1 DEF FirstPage
    <3>3. Ids(v) \subseteq duplicates[v] \cup RecordedIds(records)
      BY <1>5 DEF AnsweredAt, List
    <3>4. \A id \in Ids(v) : id \in duplicates'[v] \/ \E r \in listing'[v] : r.id = id
      BY <2>1, <3>2, <3>3 DEF RecordedIds
    <3> QED BY <2>1, <3>4 DEF AnsweredAt, Ids
  <2> QED BY <2>2, <2>3
<1>6. CASE Listed(v) \/ Failed(v) \/ AddFiles(v)
  <2>1. call'[v] \in {"done", "lost", "failed", "posting"}
    BY <1>6 DEF Listed, Failed, AddFiles, TypeOK
  <2> QED BY <2>1 DEF AnsweredAt
<1>7. ASSUME NEW u \in Uploads \ {v}, AddFiles(u) \/ Step(u)
      PROVE  AnsweredAt(v)'
  <2>1. call'[v] = call[v] /\ duplicates'[v] = duplicates[v] /\ listing'[v] = listing[v]
    BY <1>7 DEF TypeOK, AddFiles, Step, Intake, Uploaded, List, Listed, Failed
  <2> QED BY <1>2, <2>1
<1>8. CASE ListForRefresh \/ Refreshed \/ ResetDuplicates \/ UNCHANGED vars
  <2>1. call' = call /\ duplicates' = duplicates /\ listing'[v] = listing[v]
    BY <1>8, RefreshAssumption DEF TypeOK, ListForRefresh, Refreshed, ResetDuplicates, vars
  <2> QED BY <1>2, <2>1
<1> QED BY <1>3, <1>4, <1>5, <1>6, <1>7, <1>8 DEF Next, Step, Idle

-----------------------------------------------------------------------------
(* One call after the other.                                               *)

\* What overlapped or failed stays so, and the list changes by an intake only.
LEMMA GhostStep ==
    ASSUME TypeOK, [Next]_vars, ~ mixed', ~ broken'
    PROVE  /\ ~ mixed /\ ~ broken
           /\ \A u \in Uploads : ~ Failed(u) /\ (AddFiles(u) => ~ Busy)
           /\ refresh' = "failed" => refresh = "failed"
           /\ (\A u \in Uploads : ~ Intake(u)) => FirstPage' = FirstPage
<1>1. ~ mixed /\ ~ broken
  <2>1. mixed \in BOOLEAN /\ broken \in BOOLEAN
    BY DEF TypeOK
  <2>2. ASSUME NEW u \in Uploads, AddFiles(u) \/ Step(u)
        PROVE  (mixed => mixed') /\ (broken => broken')
    <3>1. CASE AddFiles(u)
      BY <3>1 DEF AddFiles
    <3>2. CASE Step(u)
      BY <3>2 DEF Step, Intake, Uploaded, List, Listed, Failed
    <3> QED BY <2>2, <3>1, <3>2
  <2>3. ASSUME ListForRefresh \/ Refreshed \/ ResetDuplicates \/ UNCHANGED vars
        PROVE  mixed' = mixed /\ (broken => broken')
    BY <2>3 DEF ListForRefresh, Refreshed, ResetDuplicates, vars
  <2> QED BY <2>1, <2>2, <2>3 DEF Next, Idle
<1>2. \A u \in Uploads : ~ Failed(u) /\ (AddFiles(u) => ~ Busy)
  BY DEF Failed, AddFiles
<1>3. refresh' = "failed" => refresh = "failed"
  BY DEF Next, vars, AddFiles, Step, Intake, Uploaded, List, Listed, Failed, ListForRefresh, Refreshed,
     ResetDuplicates, Idle
<1>4. (\A u \in Uploads : ~ Intake(u)) => FirstPage' = FirstPage
  BY RecordsStay DEF FirstPage
<1> QED BY <1>1, <1>2, <1>3, <1>4

\* At most one call stays under way, and a list that is not shown yet stays the server's.
LEMMA SequentialStep ==
    ASSUME TypeOK, SequentialInv, [Next]_vars
    PROVE  SequentialInv'
<1> SUFFICES ASSUME ~ mixed', ~ broken'
             PROVE  /\ refresh' # "failed" /\ \A u \in Uploads : call'[u] \notin {"lost", "failed"}
                    /\ refresh' # "done" => \A u \in Uploads : call'[u] = "new"
                    /\ \A u, v \in Uploads : UnderWay(u)' /\ UnderWay(v)' => u = v
                    /\ \A u \in Uploads : call'[u] = "listed" => listing'[u] = FirstPage'
                    /\ refresh' = "listed" => listing'["refresh"] = FirstPage'
  BY DEF SequentialInv, UnderWay
<1>1. /\ refresh # "failed" /\ \A u \in Uploads : call[u] \notin {"lost", "failed"}
      /\ refresh # "done" => \A u \in Uploads : call[u] = "new"
      /\ \A u, v \in Uploads : UnderWay(u) /\ UnderWay(v) => u = v
      /\ \A u \in Uploads : call[u] = "listed" => listing[u] = FirstPage
      /\ refresh = "listed" => listing["refresh"] = FirstPage
  BY GhostStep DEF SequentialInv
<1>2. \A u \in Uploads : ~ Failed(u) /\ (AddFiles(u) => ~ Busy)
  BY GhostStep
<1>3. ASSUME NEW u \in Uploads, AddFiles(u) \/ Step(u)
      PROVE  /\ refresh' = refresh /\ refresh = "done" /\ listing'["refresh"] = listing["refresh"]
             /\ \A v \in Uploads \ {u} : call'[v] = call[v] /\ listing'[v] = listing[v] /\ ~ UnderWay(v)
             /\ call'[u] \notin {"lost", "failed"}
  <2>1. /\ refresh' = refresh /\ listing'["refresh"] = listing["refresh"]
        /\ \A v \in Uploads \ {u} : call'[v] = call[v] /\ listing'[v] = listing[v]
    BY <1>3, RefreshAssumption DEF TypeOK, AddFiles, Step, Intake, Uploaded, List, Listed, Failed
  <2>2. CASE AddFiles(u)
    <3>1. ~ Busy
      BY <1>2, <2>2
    <3>2. refresh = "done" /\ \A v \in Uploads : ~ UnderWay(v)
      BY <1>1, <3>1 DEF Busy, TypeOK
    <3>3. call'[u] = "posting"
      BY <2>2 DEF AddFiles, TypeOK
    <3> QED BY <2>1, <3>2, <3>3
  <2>3. CASE Step(u)
    <3>1. call[u] # "new" /\ call[u] # "lost" /\ UnderWay(u)
      BY <1>1, <2>3 DEF Step, Intake, Uploaded, List, Listed, Failed, UnderWay
    <3>2. refresh = "done" /\ \A v \in Uploads \ {u} : ~ UnderWay(v)
      BY <1>1, <3>1
    <3>3. call'[u] \notin {"lost", "failed"}
      BY <1>2, <2>3, <3>1 DEF Step, Intake, Uploaded, List, Listed, TypeOK
    <3> QED BY <2>1, <3>2, <3>3
  <2> QED BY <1>3, <2>2, <2>3
<1>4. ASSUME NEW u \in Uploads, AddFiles(u) \/ Step(u)
      PROVE  call'[u] = "listed" => listing'[u] = FirstPage'
  <2>1. CASE List(u)
    <3>1. FirstPage' = FirstPage
      BY <2>1 DEF List, FirstPage
    <3> QED BY <2>1, <3>1 DEF List, TypeOK
  <2>2. CASE ~ List(u)
    <3>1. call'[u] # "listed"
      BY <1>2, <1>4, <2>2 DEF TypeOK, AddFiles, Step, Intake, Uploaded, Listed
    <3> QED BY <3>1
  <2> QED BY <2>1, <2>2
<1>5. CASE \E u \in Uploads : AddFiles(u) \/ Step(u)
  <2>1. PICK u \in Uploads : AddFiles(u) \/ Step(u)
    BY <1>5
  <2>2. \A v \in Uploads \ {u} : ~ UnderWay(v) /\ ~ UnderWay(v)'
    BY <1>3, <2>1 DEF UnderWay
  <2>3. \A v \in Uploads \ {u} : call'[v] # "listed"
    BY <2>2 DEF UnderWay
  <2>4. \A v \in Uploads : call'[v] \notin {"lost", "failed"}
    BY <1>1, <1>3, <2>1
  <2>5. refresh' = "done"
    BY <1>3, <2>1
  <2>6. \A v \in Uploads : call'[v] = "listed" => listing'[v] = FirstPage'
    BY <1>4, <2>1, <2>3
  <2> QED BY <2>2, <2>4, <2>5, <2>6
<1>6. CASE ListForRefresh
  <2>1. call' = call /\ refresh' = "listed" /\ records' = records /\ listing'["refresh"] = FirstPage
    BY <1>6 DEF ListForRefresh, TypeOK
  <2>2. \A u \in Uploads : call'[u] = "new"
    BY <1>1, <1>6, <2>1 DEF ListForRefresh
  <2> QED BY <2>1, <2>2 DEF UnderWay, FirstPage
<1>7. CASE Refreshed
  <2>1. refresh' = "done" /\ refresh = "listed" /\ UNCHANGED <<call, records, listing>>
    BY <1>7 DEF Refreshed
  <2> QED BY <1>1, <2>1 DEF UnderWay, FirstPage
<1>8. CASE ResetDuplicates \/ UNCHANGED vars
  <2>1. UNCHANGED <<call, refresh, records, listing>>
    BY <1>8 DEF ResetDuplicates, vars
  <2> QED BY <1>1, <2>1 DEF UnderWay, FirstPage
<1> QED BY <1>5, <1>6, <1>7, <1>8 DEF Next, Idle

\* The page that was used one call at a time agrees with the server.
LEMMA AgreeStep ==
    ASSUME TypeOK, SequentialInv, SequentialUseAgrees, [Next]_vars
    PROVE  SequentialUseAgrees'
<1> SUFFICES ASSUME ~ mixed', ~ broken', ~ Busy'
             PROVE  {row \in shown' : row.kind # "duplicate"} = {ToViewFile(r, "record") : r \in FirstPage'}
  BY DEF SequentialUseAgrees, ToViewFile
<1>1. /\ refresh # "failed" /\ \A u \in Uploads : call[u] \notin {"lost", "failed"}
      /\ \A u \in Uploads : call[u] = "listed" => listing[u] = FirstPage
      /\ refresh = "listed" => listing["refresh"] = FirstPage
      /\ \A u \in Uploads : ~ Failed(u)
      /\ ~ mixed /\ ~ broken
  BY GhostStep DEF SequentialInv
<1>2. FirstPage \subseteq Record
  BY PageType DEF TypeOK
<1>3. ASSUME NEW u \in Uploads, AddFiles(u) \/ Intake(u) \/ Uploaded(u) \/ List(u)
      PROVE  FALSE
  <2>1. call'[u] \in {"posting", "posted", "listing", "listed"}
    BY <1>1, <1>3 DEF AddFiles, Intake, Uploaded, List, TypeOK
  <2> QED BY <2>1 DEF Busy, UnderWay
<1>4. ASSUME NEW u \in Uploads, Listed(u)
      PROVE  {row \in shown' : row.kind # "duplicate"} = {ToViewFile(r, "record") : r \in FirstPage'}
  <2>1. listing[u] = FirstPage /\ FirstPage' = FirstPage
    BY <1>1, <1>4 DEF Listed, FirstPage
  <2>2. \A id \in duplicates[u] : DuplicateRow(id).kind = "duplicate"
    BY DEF DuplicateRow
  <2>3. \A r \in FirstPage : ToViewFile(r, "record").kind # "duplicate"
    BY DEF ToViewFile
  <2> QED BY <1>4, <2>1, <2>2, <2>3 DEF Listed
<1>5. CASE ListForRefresh
  BY <1>5 DEF ListForRefresh, Busy
<1>6. CASE Refreshed
  <2>1. refresh = "listed" /\ shown' = {ToViewFile(r, "record") : r \in listing["refresh"]}
    BY <1>6 DEF Refreshed
  <2>2. FirstPage' = FirstPage
    BY <1>6 DEF Refreshed, FirstPage
  <2>3. \A r \in FirstPage : ToViewFile(r, "record").kind # "duplicate"
    BY DEF ToViewFile
  <2> QED BY <1>1, <2>1, <2>2, <2>3
<1>7. CASE ResetDuplicates \/ UNCHANGED vars
  <2>1. UNCHANGED <<call, refresh, records>>
    BY <1>7 DEF ResetDuplicates, vars
  <2>2. ~ Busy /\ FirstPage' = FirstPage
    BY <2>1 DEF Busy, UnderWay, FirstPage
  <2>3. {row \in shown' : row.kind # "duplicate"} = {row \in shown : row.kind # "duplicate"}
    BY <1>7 DEF ResetDuplicates, vars
  <2> QED BY <1>1, <2>2, <2>3 DEF SequentialUseAgrees
<1> QED BY <1>1, <1>3, <1>4, <1>5, <1>6, <1>7 DEF Next, Step, Idle

-----------------------------------------------------------------------------
(* The theorems.                                                           *)

\* The page begins empty, with the refresh under way.
LEMMA PageInit ==
    ASSUME Init
    PROVE  PageInv
<1>1. TypeOK
  <2>1. call \in [Uploads -> Calls] /\ duplicates \in [Uploads -> SUBSET FileId]
    BY DEF Init, Calls
  <2>2. listing \in [Uploads \cup {"refresh"} -> SUBSET Record]
    BY DEF Init
  <2>3. records \in Seq(Record) /\ shown = {}
    BY DEF Init
  <2> QED BY <2>1, <2>2, <2>3 DEF Init, TypeOK
<1>2. RecordsInv /\ LocalRowsInv
  <2>1. records = << >> /\ DOMAIN records = {} /\ shown = {}
    BY DEF Init
  <2> QED BY <2>1 DEF RecordsInv, LocalRowsInv
<1>3. \A u \in Uploads : AnsweredAt(u)
  BY DEF Init, AnsweredAt
<1>4. SequentialInv /\ SequentialUseAgrees
  BY DEF Init, SequentialInv, SequentialUseAgrees, Busy, UnderWay
<1> QED BY <1>1, <1>2, <1>3, <1>4 DEF PageInv

\* Every step of the page or the server preserves it.
LEMMA PageStep ==
    ASSUME PageInv, [Next]_vars
    PROVE  PageInv'
<1> USE DEF PageInv
<1>1. TypeOK' /\ RecordsInv' /\ LocalRowsInv'
  BY TypeStep, RecordsStep, LocalRowsStep
<1>2. \A u \in Uploads : AnsweredAt(u)'
  BY AnsweredStep
<1>3. SequentialInv' /\ SequentialUseAgrees'
  BY SequentialStep, AgreeStep
<1> QED BY <1>1, <1>2, <1>3

\* The invariant of the page: types, one record of an id, where the rows come from, what each answer
\* holds, and the order of calls that never overlapped (App.tsx, addFiles and the refresh).
THEOREM PageAlways == Spec => []PageInv
BY PageInit, PageStep, PTL DEF Spec

\* Types hold, and a row is "uploading" only while its upload is under way, whatever other answers
\* replace the list in between (addFiles, setFiles).
THEOREM TypeAlwaysCorrect == Spec => []TypeOK
<1>1. PageInv => TypeOK
  BY DEF PageInv
<1> QED BY <1>1, PageAlways, PTL

\* A page whose calls never overlapped nor failed shows the server's newest records and of other rows
\* only duplicates (addFiles after refresh, one upload at a time).
THEOREM SequentialUseAlwaysAgrees == Spec => []SequentialUseAgrees
<1>1. PageInv => SequentialUseAgrees
  BY DEF PageInv
<1> QED BY <1>1, PageAlways, PTL

\* When an upload's answer reaches the page, every file of it is on the page, or the first page of
\* the list is full (addFiles lists after it uploaded).
THEOREM AnswersAlwaysShown == Spec => AnswerShowsUpload
<1>1. ASSUME PageInv, [Next]_vars, NEW u \in Uploads, call[u] = "listed", call'[u] = "done", NEW id \in Ids(u)
      PROVE  (\E row \in shown' : row.id = id /\ row.kind # "local") \/ Cardinality(listing[u]) = PageSize
  <2>1. TypeOK /\ AnsweredAt(u)
    BY <1>1 DEF PageInv
  <2>2. Listed(u)
    <3>1. ASSUME NEW v \in Uploads, AddFiles(v) \/ Step(v), ~ Listed(u)
          PROVE  call'[u] # "done"
      BY <1>1, <2>1, <3>1 DEF TypeOK, AddFiles, Step, Intake, Uploaded, List, Listed, Failed
    <3>2. ASSUME ListForRefresh \/ Refreshed \/ ResetDuplicates \/ UNCHANGED vars
          PROVE  call' = call
      BY <3>2 DEF ListForRefresh, Refreshed, ResetDuplicates, vars
    <3> QED BY <1>1, <3>1, <3>2 DEF Next, Idle
  <2>3. duplicates[u] \subseteq FileId /\ listing[u] \subseteq Record
    BY <2>1 DEF TypeOK
  <2>4. CASE id \in duplicates[u]
    <3>1. DuplicateRow(id) \in shown'
      BY <2>2, <2>4 DEF Listed
    <3>2. DuplicateRow(id).id = id /\ DuplicateRow(id).kind = "duplicate"
      BY <2>3, <2>4, RowTypes
    <3> QED BY <3>1, <3>2
  <2>5. ASSUME NEW r \in listing[u], r.id = id
        PROVE  \E row \in shown' : row.id = id /\ row.kind # "local"
    <3>1. ToViewFile(r, "record") \in shown'
      BY <2>2 DEF Listed
    <3>2. ToViewFile(r, "record").id = id /\ ToViewFile(r, "record").kind = "record"
      BY <2>3, <2>5, RowTypes
    <3> QED BY <3>1, <3>2
  <2> QED BY <1>1, <2>1, <2>4, <2>5 DEF AnsweredAt
<1>2. PageInv /\ [Next]_vars =>
        [\A u \in Uploads : call[u] = "listed" /\ call'[u] = "done" =>
           \A id \in Ids(u) : \/ \E row \in shown' : row.id = id /\ row.kind # "local"
                              \/ Cardinality(listing[u]) = PageSize]_vars
  BY <1>1
<1> QED BY <1>2, PageAlways, PTL DEF Spec, AnswerShowsUpload

=============================================================================
