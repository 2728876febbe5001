--------------------------- MODULE MCJsonlStorage ---------------------------
(* One task, two documents, one entry; a commit that writes to both sidecars *)
(* in alternation, and commits that only a certain state admits.            *)
EXTENDS JsonlProperties

CONSTANTS e1, t1, d1, d2, a, b

W(type, id, value) == [type |-> type, id |-> id, value |-> value]

MCCommits ==
    {<<W("task", t1, a), W("create", d1, a), W("task", t1, b)>>,
     <<W("task", t1, a)>>,
     <<W("entry", e1, a), W("change", d1, b)>>,
     <<W("terminal", t1, b), W("retire", d1, None), W("create", d2, b)>>}

=============================================================================
