--------------------------- MODULE IntakeService ---------------------------
(***************************************************************************)
(* What intake promises its clients, without requests, threads or disks:   *)
(* a content is owned by at most one file, for good; a batch is received,  *)
(* then settled, for good; only a batch that holds nothing is withdrawn,   *)
(* and its id never comes back.                                            *)
(***************************************************************************)
CONSTANTS Batches, Slots, Contents, None

FileIds == Batches \X Slots

VARIABLES
    stored,    \* the contents the service has taken in an original of
    owner,     \* the file registered for each content
    refused,   \* the files recorded as failed
    life       \* where each batch is in its life

svars == <<stored, owner, refused, life>>

Held(b) == {c \in Contents : owner[c] # None /\ owner[c][1] = b}
Refused(b) == {id \in refused : id[1] = b}
Verdicts == {"completed", "partial", "failed"}

Init ==
    /\ stored = {} /\ refused = {}
    /\ owner = [c \in Contents |-> None]
    /\ life = [b \in Batches |-> "unknown"]

Open(b) ==
    /\ life[b] = "unknown"
    /\ life' = [life EXCEPT ![b] = "receiving"]
    /\ UNCHANGED <<stored, owner, refused>>

Store(c) ==
    /\ stored' = stored \cup {c}
    /\ UNCHANGED <<owner, refused, life>>

Register(b, c) ==
    /\ life[b] = "receiving" /\ c \in stored /\ owner[c] = None
    /\ \E id \in FileIds : id[1] = b /\ id \notin refused /\ owner' = [owner EXCEPT ![c] = id]
    /\ UNCHANGED <<stored, refused, life>>

Refuse(b) ==
    /\ life[b] = "receiving"
    /\ \E id \in FileIds :
         /\ id[1] = b /\ \A c \in Contents : owner[c] # id
         /\ refused' = refused \cup {id}
    /\ UNCHANGED <<stored, owner, life>>

Settle(b) ==
    /\ life[b] = "receiving"
    /\ \E verdict \in Verdicts :
         /\ verdict = "completed" => Refused(b) = {}
         /\ verdict = "failed" <=> Held(b) = {}
         /\ life' = [life EXCEPT ![b] = verdict]
    /\ UNCHANGED <<stored, owner, refused>>

Withdraw(b) ==
    /\ life[b] \in Verdicts /\ Held(b) = {} /\ Refused(b) = {}
    /\ life' = [life EXCEPT ![b] = "withdrawn"]
    /\ UNCHANGED <<stored, owner, refused>>

Next ==
    \/ \E b \in Batches :
         \/ Open(b) \/ Refuse(b) \/ Settle(b) \/ Withdraw(b)
         \/ \E c \in Contents : Register(b, c)
    \/ \E c \in Contents : Store(c)

Spec == Init /\ [][Next]_svars

=============================================================================
