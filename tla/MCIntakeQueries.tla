--------------------------- MODULE MCIntakeQueries ---------------------------
(***************************************************************************)
(* Values for the constants of IntakeQueries.                              *)
(***************************************************************************)
EXTENDS IntakeQueries, TLC

CONSTANTS r1, r2, k1, k2, prj, doc, exe, alpha, beta

MCRequests == {r1, r2}
MCContents == {alpha, beta}
MCSize == [c \in MCContents |-> 1]

Up(name, content) == [name |-> name, content |-> content]
Cmd(key, uploads) == [key |-> key, project |-> prj, files |-> uploads]

\* Two records, a failed record beside a content others upload too, and a content on its own.
MCCommands ==
    {Cmd(k1, <<Up(doc, alpha), Up(doc, beta)>>),
     Cmd(k2, <<Up(exe, beta), Up(doc, alpha)>>),
     Cmd(k2, <<Up(doc, alpha)>>)}

=============================================================================
