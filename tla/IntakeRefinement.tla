-------------------------- MODULE IntakeRefinement --------------------------
(***************************************************************************)
(* The intake endpoint implements IntakeService.                           *)
(***************************************************************************)
EXTENDS IntakeProperties

\* A batch without a row is one that never was, or one that its own 201 withdrew.
Withdrawn(b) ==
    /\ batches[b] = None /\ answer[b] # None
    /\ answer[b].status = "created" /\ answer[b].batch = b

OwnerId(c) == IF Owners(c) = {} THEN None ELSE (CHOOSE f \in Owners(c) : TRUE).id

Life(b) ==
    IF batches[b] # None THEN batches[b].status ELSE IF Withdrawn(b) THEN "withdrawn" ELSE "unknown"

StoredContents == {c \in Contents : originals[c] # "absent" \/ c \in decayed}
OwnerIds == [c \in Contents |-> OwnerId(c)]
RefusedIds == {f.id : f \in {g \in files : g.status = "failed"}}
Lives == [b \in Requests |-> Life(b)]

Service == INSTANCE IntakeService WITH
    Batches <- Requests, Slots <- 1..MaxFilesPerBatch,
    stored <- StoredContents, owner <- OwnerIds, refused <- RefusedIds, life <- Lives

\* Every step of every request, fault and crash is a step of the service or changes nothing a
\* client can rely on (execute, register_file, complete_batch, delete_empty_batch).
ServiceSpec == Service!Spec

=============================================================================
