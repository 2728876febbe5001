------------------------------ MODULE MCIntake ------------------------------
(***************************************************************************)
(* Values for the constants of Intake: what TLC checks.                    *)
(***************************************************************************)
EXTENDS IntakeRefinement, TLC

CONSTANTS r1, r2, r3, w1, w2, k1, k2, prj, prj2,
          doc, exe,                    \* a name with an allowed extension, one without
          alpha, beta, huge, hollow    \* contents

MCRequests2 == {r1, r2}
MCRequests3 == {r1, r2, r3}
MCNames == {doc, exe}
MCAllowed == {doc}
MCContents == {alpha, beta, huge, hollow}

\* With MaxFileBytes = 3, MaxBatchBytes = 4 and ChunkBytes = 2: alpha needs two chunks, huge
\* passes the limit in its second one, alpha and beta fill a batch exactly, alpha twice overfills it.
MCSize == [c \in MCContents |->
             CASE c = alpha -> 3 [] c = beta -> 1 [] c = huge -> 4 [] c = hollow -> 0]

RequestSymmetry == Permutations(Requests)

Up(name, content) == [name |-> name, content |-> content]
Cmd(key, project, uploads) == [key |-> key, project |-> project, files |-> uploads]

\* Requests that meet over a key, over contents, or not at all.
MeetingCommands ==
    {Cmd(k1, prj, <<Up(doc, alpha)>>),
     Cmd(k1, prj2, <<Up(doc, alpha)>>),
     Cmd(k2, prj, <<Up(doc, alpha)>>),
     Cmd(k2, prj, <<Up(doc, beta), Up(doc, alpha)>>),
     Cmd(k2, prj, <<Up(doc, alpha), Up(exe, beta)>>),
     Cmd(k1, prj, <<Up(doc, hollow), Up(doc, huge)>>)}

\* Those of them that meet over a key and over a content, one with a failing upload.
ServiceCommands ==
    {Cmd(k1, prj, <<Up(doc, alpha)>>),
     Cmd(k2, prj, <<Up(doc, alpha), Up(exe, beta)>>),
     Cmd(k1, prj, <<Up(doc, hollow), Up(doc, huge)>>),
     Cmd(k2, prj, <<Up(doc, alpha)>>)}

\* The same key with the same names and other bytes, and a key of its own.
RetryingCommands ==
    {Cmd(k1, prj, <<Up(doc, alpha)>>),
     Cmd(k1, prj, <<Up(doc, beta)>>),
     Cmd(k1, prj2, <<Up(doc, alpha)>>),
     Cmd(k2, prj, <<Up(doc, alpha)>>),
     Cmd(k2, prj, <<Up(doc, alpha), Up(exe, beta)>>)}

\* Every list of at most three uploads, and the requests that are turned away.
EveryUpload == {Up(n, c) : n \in MCNames, c \in MCContents}
EveryList == UNION {[1..n -> EveryUpload] : n \in 0..4}
ShortLists == {s \in EveryList : Len(s) <= 3}
LongLists == {s \in EveryList : Len(s) = 4 /\ \A i \in 1..4 : s[i] = Up(doc, beta)}
LimitCommands ==
    {Cmd(k1, prj, s) : s \in ShortLists \cup LongLists} \cup {Cmd(k1, Blank, <<Up(doc, alpha)>>)}
TurnedAway == Cmd(Blank, prj, <<Up(doc, alpha)>>)
RetryingOrLimits == RetryingCommands \cup LimitCommands \cup {TurnedAway}

\* Either every request repeats a key, or one tries a list of uploads and the rest are turned away.
InitRetriesOrLimits ==
    /\ \/ cmd \in [Requests -> RetryingCommands]
       \/ \E r \in Requests, c \in LimitCommands :
            cmd = [s \in Requests |-> IF s = r THEN c ELSE TurnedAway]
    /\ Init

SpecRetriesOrLimits == InitRetriesOrLimits /\ [][Next]_vars

=============================================================================
