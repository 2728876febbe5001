---------------------------- MODULE DurableStore ----------------------------
(***************************************************************************)
(* What a store of pi-durable promises its one owner: a commit becomes     *)
(* durable as a whole, it is read only after that, and what was committed  *)
(* stays, whatever becomes of the process that wrote it.                   *)
(***************************************************************************)
EXTENDS Integers, Sequences

CONSTANT Commits

VARIABLES
    committed,  \* the commits that will be found at the next opening
    readable,   \* the owner has the store open
    view,       \* what its reads answer from then
    mayLose     \* the machine, not only the process, can fail

svars == <<committed, readable, view, mayLose>>

Init == committed = <<>> /\ readable = FALSE /\ view = <<>> /\ mayLose \in BOOLEAN

\* A commit takes effect, under the next number; its caller does not know yet.
Publish ==
    /\ readable /\ view = committed
    /\ \E writes \in Commits :
         committed' = Append(committed, [seq |-> Len(committed) + 1, writes |-> writes])
    /\ UNCHANGED <<readable, view, mayLose>>

Acknowledge ==
    /\ readable /\ view # committed
    /\ view' = committed
    /\ UNCHANGED <<committed, readable, mayLose>>

Unreadable == readable' = FALSE /\ view' = <<>>

Fail == Unreadable /\ UNCHANGED <<committed, mayLose>>

Reopen ==
    /\ ~readable
    /\ readable' = TRUE /\ view' = committed
    /\ UNCHANGED <<committed, mayLose>>

\* The newest commits are gone, the others are whole.
Lose ==
    /\ mayLose
    /\ \E n \in 0..Len(committed) : committed' = SubSeq(committed, 1, n)
    /\ Unreadable
    /\ UNCHANGED mayLose

Next == Publish \/ Acknowledge \/ Fail \/ Reopen \/ Lose

Spec == Init /\ [][Next]_svars

=============================================================================
