----------------------------- MODULE MCStartup -----------------------------
(***************************************************************************)
(* Values for the constants of Startup: what TLC checks.                   *)
(***************************************************************************)
EXTENDS Startup

CONSTANTS b1, b2, b3, b4, x, y

Record(id, batch, content, time, of) ==
    [id |-> id, batch |-> batch, content |-> content, time |-> time, duplicateOf |-> of]

\* x three times, twice at the same time; y twice across batches; a failed upload.  All of b2 and
\* only a part of b3 are duplicates; b4 was left behind empty.
MCOldFiles ==
    {Record(1, b1, x, 0, None), Record(2, b2, x, 1, 1), Record(3, b3, x, 1, 1),
     Record(4, b2, y, 2, 5), Record(5, b1, y, 1, None), Record(6, b3, None, 1, None)}

\* The ids of new rows, 0 and 7, sort before and after those of the old ones.
MCIds == 0..7

=============================================================================
