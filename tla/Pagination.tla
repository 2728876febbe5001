----------------------------- MODULE Pagination -----------------------------
(***************************************************************************)
(* GET /api/v1/files of the File Router: a client walks through the list   *)
(* of file records page by page, newest first, with a cursor that is the   *)
(* position of the last row it was given, while intake commits new rows.   *)
(*                                                                         *)
(* A row's created_at is taken before its transaction, so rows may become  *)
(* visible in another order than that of their times, and times can tie.   *)
(***************************************************************************)
EXTENDS Integers, FiniteSets

CONSTANTS
    Ids,         \* file ids, in the order in which SQL compares them
    Limit,       \* rows on a page: min(limit, list_max_limit)
    MaxTime,     \* bound on the clock
    None

ASSUME IdsAssumption == Ids \subseteq Int
ASSUME LimitAssumption == Limit \in Nat \ {0} /\ MaxTime \in Nat
ASSUME NoneAssumption == None \notin [id : Ids, time : Nat]

VARIABLES
    rows,        \* committed rows that match the filters of the query
    coming,      \* rows that have their created_at and are not committed
    now,         \* the clock
    at,          \* the walk: "first", "next" page to be asked for, or "end"
    cursor,      \* the position the client holds
    given,       \* the rows it was given so far
    start,       \* ghost: the rows there were when it asked for the first page
    twice        \* ghost: rows it was given again

vars == <<rows, coming, now, at, cursor, given, start, twice>>

Row == [id : Ids, time : Nat]

TypeOK ==
    /\ rows \subseteq Row /\ IsFiniteSet(rows) /\ coming \subseteq Row
    /\ now \in Nat
    /\ at \in {"first", "next", "end"}
    /\ cursor \in Row \cup {None}
    /\ given \subseteq Row /\ start \subseteq Row /\ twice \subseteq Row

Init ==
    /\ rows = {} /\ coming = {} /\ now \in 0..MaxTime
    /\ at = "first" /\ cursor = None
    /\ given = {} /\ start = {} /\ twice = {}

-----------------------------------------------------------------------------
(* Positions.                                                              *)

\* The ORDER BY clause, newest first: created_at, then file_id.
Older(r, s) == r.time < s.time \/ (r.time = s.time /\ r.id < s.id)

\* Mutants: the cursor compares creation times alone; it lets its own row through again.
AfterByTime(position) == IF position = None THEN rows ELSE {r \in rows : r.time < position.time}
AfterInclusive(position) ==
    IF position = None THEN rows
    ELSE {r \in rows : r.time < position.time \/ (r.time = position.time /\ r.id <= position.id)}

\* The rows a query with this cursor is about: the WHERE clause.
After(position) == IF position = None THEN rows ELSE {r \in rows : Older(r, position)}

\* The first Limit rows of a set in descending order.
IsPage(page, matching) ==
    /\ page \subseteq matching /\ Cardinality(page) = Limit
    /\ \A r \in page, s \in matching \ page : Older(s, r)

IsLast(r, page) == r \in page /\ \A s \in page \ {r} : Older(r, s)

-----------------------------------------------------------------------------
(* The writers.                                                            *)

Tick == now < MaxTime /\ now' = now + 1 /\ UNCHANGED <<rows, coming, at, cursor, given, start, twice>>

\* Intake stamps a record it is about to insert ...
Stamp(id) ==
    /\ \A r \in rows \cup coming : r.id # id
    /\ coming' = coming \cup {[id |-> id, time |-> now]}
    /\ UNCHANGED <<rows, now, at, cursor, given, start, twice>>

\* ... and commits it later.
Commit(r) ==
    /\ r \in coming
    /\ coming' = coming \ {r} /\ rows' = rows \cup {r}
    /\ UNCHANGED <<now, at, cursor, given, start, twice>>

-----------------------------------------------------------------------------
(* The walk.                                                               *)

Give(page) ==
    /\ given' = given \cup page
    /\ twice' = twice \cup (given \cap page)
    /\ start' = IF at = "first" THEN rows ELSE start

\* limit + 1 rows were found: the page is the first Limit of them and there is a next cursor.
PageWithMore(page) ==
    /\ Cardinality(After(cursor)) > Limit
    /\ IsPage(page, After(cursor))
    /\ Give(page)
    /\ at' = "next"
    /\ \E r \in page : IsLast(r, page) /\ cursor' = r

\* At most limit rows were found: they are the last page.
LastPage ==
    /\ Cardinality(After(cursor)) <= Limit
    /\ Give(After(cursor))
    /\ at' = "end" /\ UNCHANGED cursor

FetchPage ==
    /\ at # "end"
    /\ LastPage \/ \E page \in SUBSET After(cursor) : PageWithMore(page)
    /\ UNCHANGED <<rows, coming, now>>

\* The client has what it wanted.
Done == at = "end" /\ UNCHANGED vars

Next ==
    \/ Tick \/ FetchPage \/ Done
    \/ \E id \in Ids : Stamp(id)
    \/ \E r \in coming : Commit(r)

Spec == Init /\ [][Next]_vars

-----------------------------------------------------------------------------
(* Properties.                                                             *)

\* No row is on two pages, however many rows share a time or arrive meanwhile.
NothingTwice == twice = {}

\* A walk that has come to its end was given every row that was there when it began.
NothingSkipped == at = "end" => start \subseteq given

-----------------------------------------------------------------------------
(* Why: at every cursor the rows of the beginning are given or still ahead. *)

WalkInv ==
    /\ TypeOK
    /\ start \subseteq rows /\ given \subseteq rows
    /\ twice = {}
    /\ at = "first" => cursor = None /\ given = {} /\ start = {}
    /\ at = "next" => /\ cursor \in given
                      /\ \A r \in given : r = cursor \/ Older(cursor, r)
                      /\ \A r \in start : r \in given \/ Older(r, cursor)
    /\ at = "end" => start \subseteq given

=============================================================================
