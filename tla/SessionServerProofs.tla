------------------------- MODULE SessionServerProofs --------------------------
(***************************************************************************)
(* Proofs about SessionServer: for any number of connections, Sessions,    *)
(* attachments and handles, every step of the router, the host, the peers  *)
(* and the application preserves ServerInv, and ServerInv implies what the *)
(* model promises of leases, calls, deleted Sessions and shutdown.         *)
(***************************************************************************)
EXTENDS SessionServer, SequenceTheorems, TLAPS

-----------------------------------------------------------------------------
(* What the operators of the router do.                                    *)

\* A handle and an attachment are records, a queue and the line are sequences of them.
LEMMA Typed ==
    ASSUME TypeOK
    PROVE  /\ Len(attachments) \in Nat /\ \A a \in Ids : attachments[a] \in AttachmentRecord
           /\ Len(handles) \in Nat /\ \A h \in HandleIds : handles[h] \in HandleRecord
           /\ \A c \in Clients : queue[c] \in Seq(Operation) /\ Len(queue[c]) \in Nat
BY LenProperties, ElementOfSeq DEF TypeOK, Ids, HandleIds

\* A function over 1..n is a sequence of length n.
LEMMA FunctionIsSeq ==
    ASSUME NEW S, NEW n \in Nat, NEW f \in [1..n -> S]
    PROVE  f \in Seq(S) /\ Len(f) = n
OBVIOUS

\* What Settle leaves of the connection whose operation has ended, and that it touches no other.
LEMMA SettleEffect ==
    ASSUME TypeOK, NEW c \in Clients, queue[c] # <<>>, Settle(c)
    PROVE  /\ queue' \in [Clients -> Seq(Operation)] /\ queue'[c] = Tail(queue[c])
           /\ step' \in [Clients -> {"idle", "releasing"} \cup Attaching] /\ step'[c] = "idle"
           /\ current' \in [Clients -> Nat] /\ current'[c] = 0
           /\ found' \in [Clients -> Nat] /\ found'[c] = 0
           /\ mine' \in [Clients -> Nat] /\ mine'[c] = 0
           /\ draining' \in [Clients -> Nat]
           /\ draining'[c] = IF draining[c] > 0 THEN draining[c] - 1 ELSE 0
           /\ disconnected' \subseteq Clients
           /\ \A d \in Clients \ {c} :
                /\ queue'[d] = queue[d] /\ step'[d] = step[d] /\ current'[d] = current[d]
                /\ found'[d] = found[d] /\ mine'[d] = mine[d] /\ draining'[d] = draining[d]
<1>1. Tail(queue[c]) \in Seq(Operation)
  BY HeadTailProperties DEF TypeOK
<1>2. queue' \in [Clients -> Seq(Operation)] /\ queue'[c] = Tail(queue[c])
      /\ \A d \in Clients \ {c} : queue'[d] = queue[d]
  BY <1>1 DEF TypeOK, Settle
<1>3. /\ step' \in [Clients -> {"idle", "releasing"} \cup Attaching] /\ step'[c] = "idle"
      /\ disconnected' \subseteq Clients
      /\ \A d \in Clients \ {c} : step'[d] = step[d]
  BY DEF TypeOK, Settle
<1>4. /\ current' \in [Clients -> Nat] /\ current'[c] = 0
      /\ found' \in [Clients -> Nat] /\ found'[c] = 0
      /\ mine' \in [Clients -> Nat] /\ mine'[c] = 0
      /\ \A d \in Clients \ {c} : current'[d] = current[d] /\ found'[d] = found[d] /\ mine'[d] = mine[d]
  BY DEF TypeOK, Settle
<1>5. /\ draining' \in [Clients -> Nat]
      /\ draining'[c] = IF draining[c] > 0 THEN draining[c] - 1 ELSE 0
      /\ \A d \in Clients \ {c} : draining'[d] = draining[d]
  BY DEF TypeOK, Settle
<1> QED BY <1>2, <1>3, <1>4, <1>5

\* What Await does: the operation waits somewhere else.
LEMMA AwaitEffect ==
    ASSUME TypeOK, NEW c \in Clients, NEW where \in {"releasing"} \cup Attaching, Await(c, where)
    PROVE  /\ step' \in [Clients -> {"idle", "releasing"} \cup Attaching] /\ step'[c] = where
           /\ \A d \in Clients \ {c} : step'[d] = step[d]
           /\ UNCHANGED <<queue, draining, disconnected>>
BY DEF TypeOK, Await

\* What an attachment shows of itself that its release does not touch.
SameBut(x, y) ==
    y.client = x.client /\ y.handle = x.handle /\ y.listed = x.listed /\ y.lease = x.lease /\ y.calls = x.calls

\* The release of attachment a, if it is among those that are released now.
Begun(as, publish, x, y, a) ==
    /\ SameBut(x, y)
    /\ a \in as /\ x.release = "no" => y.release = "calls" /\ y.publish = publish /\ y.awaits = x.calls
    /\ ~(a \in as /\ x.release = "no") =>
         y.release = x.release /\ y.publish = x.publish /\ y.awaits = x.awaits

\* A release that begins changes how far it is, whether it is published and what it waits for.
LEMMA BeginRecord ==
    ASSUME NEW x \in AttachmentRecord, NEW publish \in BOOLEAN, NEW y,
           y = [x EXCEPT !.release = "calls", !.publish = publish, !.awaits = x.calls]
    PROVE  /\ y \in AttachmentRecord /\ SameBut(x, y)
           /\ y.release = "calls" /\ y.publish = publish /\ y.awaits = x.calls
BY DEF AttachmentRecord, SameBut

\* A release begins once, changes nothing else, and waits for the calls that run.
LEMMA BegunEffect ==
    ASSUME TypeOK, NEW as, NEW publish \in BOOLEAN, attachments' = Releasing(as, publish)
    PROVE  /\ attachments' \in Seq(AttachmentRecord) /\ Ids' = Ids
           /\ \A a \in Ids : Begun(as, publish, attachments[a], attachments'[a], a)
<1>1. ASSUME NEW a \in Ids
      PROVE  attachments'[a] \in AttachmentRecord /\ Begun(as, publish, attachments[a], attachments'[a], a)
  <2>1. PICK x \in AttachmentRecord : x = attachments[a]
    BY Typed
  <2>2. PICK y : y = attachments'[a]
    OBVIOUS
  <2>3. CASE a \in as /\ x.release = "no"
    <3>1. y = [x EXCEPT !.release = "calls", !.publish = publish, !.awaits = x.calls]
      BY <2>1, <2>2, <2>3 DEF Releasing
    <3>2. /\ y \in AttachmentRecord /\ SameBut(x, y)
          /\ y.release = "calls" /\ y.publish = publish /\ y.awaits = x.calls
      BY <3>1, BeginRecord
    <3> QED BY <2>1, <2>2, <2>3, <3>2 DEF Begun
  <2>4. CASE ~(a \in as /\ x.release = "no")
    <3>1. y = x
      BY <2>1, <2>2, <2>4 DEF Releasing
    <3> QED BY <2>1, <2>2, <2>4, <3>1 DEF Begun, SameBut
  <2> QED BY <2>3, <2>4
<1>2. PICK n \in Nat : n = Len(attachments)
  BY Typed
<1>3. attachments' \in [1..n -> AttachmentRecord]
  <2>1. DOMAIN attachments' = 1..n /\ attachments' = [a \in 1..n |-> attachments'[a]]
    BY <1>2 DEF Releasing, Ids
  <2> QED BY <1>1, <1>2, <2>1 DEF Ids
<1>4. attachments' \in Seq(AttachmentRecord) /\ Len(attachments') = n
  BY <1>3, FunctionIsSeq
<1> QED BY <1>1, <1>2, <1>4 DEF Ids

\* A new attachment: those before it stay as they are.
LEMMA LeaseEffect ==
    ASSUME TypeOK, NEW c \in Clients, Lease(c)
    PROVE  /\ attachments' \in Seq(AttachmentRecord)
           /\ Len(attachments') = Len(attachments) + 1 /\ Ids' = Ids \cup {Len(attachments) + 1}
           /\ Len(attachments) + 1 \notin Ids
           /\ \A a \in Ids : attachments'[a] = attachments[a]
           /\ attachments'[Len(attachments) + 1] = Attachment(c, found[c])
           /\ mine' \in [Clients -> Nat] /\ mine'[c] = Len(attachments) + 1
           /\ \A d \in Clients \ {c} : mine'[d] = mine[d]
           /\ UNCHANGED <<current, found>>
<1>1. Attachment(c, found[c]) \in AttachmentRecord
  BY DEF Attachment, AttachmentRecord, TypeOK
<1>2. attachments \in Seq(AttachmentRecord) /\ Len(attachments) \in Nat
  BY Typed DEF TypeOK
<1>3. attachments' = Append(attachments, Attachment(c, found[c]))
  BY DEF Lease
<1>4. /\ attachments' \in Seq(AttachmentRecord)
      /\ Len(attachments') = Len(attachments) + 1
      /\ \A a \in 1..Len(attachments) : attachments'[a] = attachments[a]
      /\ attachments'[Len(attachments) + 1] = Attachment(c, found[c])
  BY <1>1, <1>2, <1>3, AppendProperties
<1>5. Ids' = Ids \cup {Len(attachments) + 1} /\ Len(attachments) + 1 \notin Ids
  BY <1>2, <1>4 DEF Ids
<1>6. /\ mine' \in [Clients -> Nat] /\ mine'[c] = Len(attachments) + 1
      /\ \A d \in Clients \ {c} : mine'[d] = mine[d]
  BY <1>2 DEF Lease, TypeOK
<1>7. UNCHANGED <<current, found>>
  BY DEF Lease
<1> QED BY <1>4, <1>5, <1>6, <1>7 DEF Ids

\* One attachment changes and keeps its type.
LEMMA SetAttachment ==
    ASSUME TypeOK, NEW a \in Ids, NEW x \in AttachmentRecord, attachments' = [attachments EXCEPT ![a] = x]
    PROVE  /\ attachments' \in Seq(AttachmentRecord) /\ Ids' = Ids /\ attachments'[a] = x
           /\ \A b \in Ids \ {a} : attachments'[b] = attachments[b]
BY ExceptSeq DEF TypeOK, Ids

\* One handle changes its state.
LEMMA SetHandle ==
    ASSUME TypeOK, NEW h \in HandleIds, NEW s \in {"open", "closing", "closed", "terminated", "failed"},
           handles' = [handles EXCEPT ![h].state = s]
    PROVE  /\ handles' \in Seq(HandleRecord) /\ HandleIds' = HandleIds
           /\ \A g \in HandleIds : handles'[g].session = handles[g].session
           /\ handles'[h].state = s /\ \A g \in HandleIds \ {h} : handles'[g].state = handles[g].state
<1> DEFINE x == [handles[h] EXCEPT !.state = s]
<1>1. handles[h] \in HandleRecord
  BY Typed
<1>2. x \in HandleRecord /\ x.session = handles[h].session /\ x.state = s
  BY <1>1 DEF HandleRecord
<1>3. handles' = [handles EXCEPT ![h] = x]
  OBVIOUS
<1>4. /\ handles' \in Seq(HandleRecord) /\ Len(handles') = Len(handles)
      /\ \A g \in 1..Len(handles) : handles'[g] = IF g = h THEN x ELSE handles[g]
  <2> HIDE DEF x
  <2> DEFINE n == Len(handles)
  <2>1. n \in Nat /\ handles \in [1..n -> HandleRecord]
    BY LenProperties DEF TypeOK
  <2> HIDE DEF n
  <2>2. handles' \in [1..n -> HandleRecord] /\ \A g \in 1..n : handles'[g] = IF g = h THEN x ELSE handles[g]
    BY <1>2, <1>3, <2>1
  <2>3. handles' \in Seq(HandleRecord) /\ Len(handles') = n
    BY <2>1, <2>2, FunctionIsSeq
  <2> QED BY <2>2, <2>3 DEF n
<1> HIDE DEF x
<1> QED BY <1>2, <1>4 DEF HandleIds

\* Nobody but attachment a changes, and it keeps its connection and its handle.
Only(a) ==
    /\ attachments' \in Seq(AttachmentRecord) /\ Ids' = Ids
    /\ \A b \in Ids \ {a} : attachments'[b] = attachments[b]
    /\ attachments'[a].client = attachments[a].client /\ attachments'[a].handle = attachments[a].handle

\* The handle answers a lease, and only while its worker runs does it grant one.
LEMMA GrantEffect ==
    ASSUME TypeOK, NEW a \in Ids, Grant(a)
    PROVE  /\ Only(a) /\ attachments[a].lease = "acquiring"
           /\ LET x == attachments[a] y == attachments'[a] IN
              /\ y.listed = x.listed /\ y.calls = x.calls /\ y.awaits = x.awaits
              /\ y.release = x.release /\ y.publish = x.publish
              /\ y.lease \in {"held", "refused"}
              /\ y.lease = "held" => handles[x.handle].state = "open"
<1>1. PICK x \in AttachmentRecord : x = attachments[a]
  BY Typed
<1>2. PICK l \in {"held", "refused"} : 
        /\ attachments' = [attachments EXCEPT ![a].lease = l]
        /\ l = "held" => handles[attachments[a].handle].state = "open"
  BY DEF Grant
<1>3. PICK y : y = [x EXCEPT !.lease = l]
  OBVIOUS
<1>4. /\ y \in AttachmentRecord /\ y.client = x.client /\ y.handle = x.handle /\ y.listed = x.listed
      /\ y.calls = x.calls /\ y.awaits = x.awaits /\ y.release = x.release /\ y.publish = x.publish
      /\ y.lease = l
  BY <1>3 DEF AttachmentRecord
<1>5. attachments' = [attachments EXCEPT ![a] = y]
  BY <1>1, <1>2, <1>3
<1>6. Only(a) /\ attachments'[a] = y
  BY <1>1, <1>4, <1>5, SetAttachment DEF Only
<1>7. attachments[a].lease = "acquiring"
  BY DEF Grant
<1> QED BY <1>1, <1>2, <1>4, <1>6, <1>7

\* The lease goes back once the calls the release waits for are over.
LEMMA ReleaseLeaseEffect ==
    ASSUME TypeOK, NEW a \in Ids, ReleaseLease(a)
    PROVE  /\ Only(a) /\ CallsDone(a) /\ attachments[a].lease = "held"
           /\ LET x == attachments[a] y == attachments'[a] IN
              /\ y.listed = x.listed /\ y.calls = x.calls /\ y.awaits = x.awaits /\ y.publish = x.publish
              /\ y.release = "lease" /\ y.lease = "released"
<1>1. PICK x \in AttachmentRecord : x = attachments[a]
  BY Typed
<1>3. PICK y : y = [x EXCEPT !.release = "lease", !.lease = "released"]
  OBVIOUS
<1>4. /\ y \in AttachmentRecord /\ y.client = x.client /\ y.handle = x.handle /\ y.listed = x.listed
      /\ y.calls = x.calls /\ y.awaits = x.awaits /\ y.publish = x.publish
      /\ y.release = "lease" /\ y.lease = "released"
  BY <1>3 DEF AttachmentRecord
<1>5. attachments' = [attachments EXCEPT ![a] = y]
  BY <1>1, <1>3 DEF ReleaseLease
<1> QED BY <1>1, <1>4, <1>5, SetAttachment DEF Only, ReleaseLease

\* An attachment is cleared when its lease is back, or was never granted; its route goes with it.
LEMMA ClearEffect ==
    ASSUME TypeOK, NEW a \in Ids, Clear(a)
    PROVE  /\ Only(a)
           /\ attachments[a].release = "lease" \/ (CallsDone(a) /\ attachments[a].lease = "refused")
           /\ LET x == attachments[a] y == attachments'[a] IN
              /\ y.listed = FALSE /\ y.calls = x.calls /\ y.lease = x.lease /\ y.publish = x.publish
              /\ y.release \in {"done", "failed"}
           /\ faults' \in Nat
           /\ route' \in [Clients -> Nat] /\ told' \in [Clients -> Nat]
           /\ \A c \in Clients : route'[c] = IF c = attachments[a].client /\ route[c] = a THEN 0 ELSE route[c]
           /\ UNCHANGED <<catalog, handles, hosted, opening, queue, step, current, found, mine, disconnected,
                          closeVars, calls>>
<1>1. PICK x \in AttachmentRecord : x = attachments[a]
  BY Typed
<1>2. PICK r \in {"done", "failed"} :
        attachments' = [attachments EXCEPT ![a].listed = FALSE, ![a].awaits = {}, ![a].release = r]
  BY DEF Clear, Cleared
<1>3. PICK y : y = [x EXCEPT !.listed = FALSE, !.awaits = {}, !.release = r]
  OBVIOUS
<1>4. /\ y \in AttachmentRecord /\ y.client = x.client /\ y.handle = x.handle /\ y.listed = FALSE
      /\ y.calls = x.calls /\ y.publish = x.publish /\ y.lease = x.lease
      /\ y.release \in {"done", "failed"}
  BY <1>3 DEF AttachmentRecord
<1>5. attachments' = [attachments EXCEPT ![a] = y]
  BY <1>1, <1>2, <1>3
<1>6. x.client \in Clients
  BY DEF AttachmentRecord
<1>7. /\ route' \in [Clients -> Nat] /\ told' \in [Clients -> Nat]
      /\ \A c \in Clients : route'[c] = IF c = x.client /\ route[c] = a THEN 0 ELSE route[c]
  <2>1. CASE route[x.client] = a
    <3>1. route' = [route EXCEPT ![x.client] = 0]
          /\ told' = IF attachments[a].publish THEN [told EXCEPT ![x.client] = 0] ELSE told
      BY <1>1, <2>1 DEF Clear, Cleared
    <3> QED BY <1>6, <2>1, <3>1 DEF TypeOK
  <2>2. CASE route[x.client] # a
    <3>1. UNCHANGED <<route, told>>
      BY <1>1, <2>2 DEF Clear, Cleared
    <3> QED BY <1>6, <2>2, <3>1 DEF TypeOK
  <2> QED BY <2>1, <2>2
<1>8. faults' \in Nat
  <2>1. faults \in Nat
    BY DEF TypeOK
  <2>2. faults' \in {faults, faults + 1}
    BY DEF Clear
  <2> QED BY <2>1, <2>2
<1>9. UNCHANGED <<catalog, handles, hosted, opening, queue, step, current, found, mine, disconnected,
                  closeVars, calls>>
  BY DEF Clear, Cleared
<1>10. attachments[a].release = "lease" \/ (CallsDone(a) /\ attachments[a].lease = "refused")
  BY DEF Clear
<1>11. Only(a) /\ attachments'[a] = y
  BY <1>1, <1>4, <1>5, SetAttachment DEF Only
<1> QED BY <1>1, <1>4, <1>7, <1>8, <1>9, <1>10, <1>11

\* The calls of an attachment change, and nothing else of it.
LEMMA CallsEffect ==
    ASSUME TypeOK, NEW a \in Ids, NEW ids \in SUBSET Nat, attachments' = [attachments EXCEPT ![a].calls = ids]
    PROVE  /\ Only(a)
           /\ LET x == attachments[a] y == attachments'[a] IN
              /\ y.listed = x.listed /\ y.calls = ids /\ y.awaits = x.awaits /\ y.publish = x.publish
              /\ y.release = x.release /\ y.lease = x.lease
<1>1. PICK x \in AttachmentRecord : x = attachments[a]
  BY Typed
<1>3. PICK y : y = [x EXCEPT !.calls = ids]
  OBVIOUS
<1>4. /\ y \in AttachmentRecord /\ y.client = x.client /\ y.handle = x.handle /\ y.listed = x.listed
      /\ y.calls = ids /\ y.awaits = x.awaits /\ y.publish = x.publish
      /\ y.release = x.release /\ y.lease = x.lease
  BY <1>3 DEF AttachmentRecord
<1>5. attachments' = [attachments EXCEPT ![a] = y]
  BY <1>1, <1>3
<1> QED BY <1>1, <1>4, <1>5, SetAttachment DEF Only

\* A refused attachment is taken off its handle's list.
LEMMA UnlistedEffect ==
    ASSUME TypeOK, NEW a \in Ids, attachments' = [attachments EXCEPT ![a].listed = FALSE]
    PROVE  /\ Only(a)
           /\ LET x == attachments[a] y == attachments'[a] IN
              /\ y.listed = FALSE /\ y.calls = x.calls /\ y.awaits = x.awaits /\ y.publish = x.publish
              /\ y.release = x.release /\ y.lease = x.lease
<1>1. PICK x \in AttachmentRecord : x = attachments[a]
  BY Typed
<1>3. PICK y : y = [x EXCEPT !.listed = FALSE]
  OBVIOUS
<1>4. /\ y \in AttachmentRecord /\ y.client = x.client /\ y.handle = x.handle /\ y.listed = FALSE
      /\ y.calls = x.calls /\ y.awaits = x.awaits /\ y.publish = x.publish
      /\ y.release = x.release /\ y.lease = x.lease
  BY <1>3 DEF AttachmentRecord
<1>5. attachments' = [attachments EXCEPT ![a] = y]
  BY <1>1, <1>3
<1> QED BY <1>1, <1>4, <1>5, SetAttachment DEF Only

\* A new handle: those before it stay as they are.
LEMMA NewHandle ==
    ASSUME TypeOK, NEW x \in HandleRecord, handles' = Append(handles, x)
    PROVE  /\ handles' \in Seq(HandleRecord)
           /\ Len(handles') = Len(handles) + 1 /\ HandleIds' = HandleIds \cup {Len(handles')}
           /\ Len(handles') \notin HandleIds /\ Len(handles') \in Nat \ {0}
           /\ \A h \in HandleIds : handles'[h] = handles[h]
           /\ handles'[Len(handles')] = x
<1>1. handles \in Seq(HandleRecord) /\ Len(handles) \in Nat
  BY Typed DEF TypeOK
<1>2. /\ handles' \in Seq(HandleRecord) /\ Len(handles') = Len(handles) + 1
      /\ \A h \in 1..Len(handles) : handles'[h] = handles[h]
      /\ handles'[Len(handles) + 1] = x
  BY <1>1, AppendProperties
<1> QED BY <1>1, <1>2 DEF HandleIds

\* Shutdown closes the handles that are open and hosted.
LEMMA ShutdownClosesEffect ==
    ASSUME TypeOK, ShutdownCloses
    PROVE  /\ handles' \in Seq(HandleRecord) /\ HandleIds' = HandleIds
           /\ \A h \in HandleIds :
                /\ handles'[h].session = handles[h].session
                /\ handles'[h].state = IF h \in Hosted /\ handles[h].state = "open"
                                         THEN "closing" ELSE handles[h].state
<1>1. ASSUME NEW h \in HandleIds
      PROVE  /\ handles'[h] \in HandleRecord
             /\ handles'[h].session = handles[h].session
             /\ handles'[h].state = IF h \in Hosted /\ handles[h].state = "open"
                                      THEN "closing" ELSE handles[h].state
  <2>1. PICK x \in HandleRecord : x = handles[h]
    BY Typed
  <2>2. PICK y : y = [x EXCEPT !.state = "closing"]
    OBVIOUS
  <2>3. y \in HandleRecord /\ y.session = x.session /\ y.state = "closing"
    BY <2>2 DEF HandleRecord
  <2>4. handles'[h] = IF h \in Hosted /\ handles[h].state = "open" THEN y ELSE x
    BY <2>1, <2>2 DEF ShutdownCloses
  <2> QED BY <2>1, <2>3, <2>4
<1>2. PICK n \in Nat : n = Len(handles)
  BY Typed
<1>3. handles' \in [1..n -> HandleRecord]
  <2>1. handles' = [h \in 1..n |-> handles'[h]]
    BY <1>2 DEF ShutdownCloses, HandleIds
  <2> QED BY <1>1, <1>2, <2>1 DEF HandleIds
<1>4. handles' \in Seq(HandleRecord) /\ Len(handles') = n
  BY <1>3, FunctionIsSeq
<1> QED BY <1>1, <1>2, <1>4 DEF HandleIds

\* The request at the end of a connection's queue.
LEMMA EnqueueEffect ==
    ASSUME TypeOK, NEW c \in Clients, NEW op \in Operation, Enqueue(c, op)
    PROVE  /\ queue' \in [Clients -> Seq(Operation)]
           /\ queue'[c] = Append(queue[c], op)
           /\ Len(queue'[c]) = Len(queue[c]) + 1 /\ queue'[c] # <<>>
           /\ \A i \in 1..Len(queue[c]) : queue'[c][i] = queue[c][i]
           /\ queue'[c][Len(queue[c]) + 1] = op
           /\ queue[c] # <<>> => Head(queue'[c]) = Head(queue[c])
           /\ \A d \in Clients \ {c} : queue'[d] = queue[d]
<1>1. queue[c] \in Seq(Operation) /\ Len(queue[c]) \in Nat
  BY Typed
<1>2. queue' = [queue EXCEPT ![c] = Append(queue[c], op)]
  BY DEF Enqueue
<1>3. /\ Append(queue[c], op) \in Seq(Operation)
      /\ Len(Append(queue[c], op)) = Len(queue[c]) + 1
      /\ \A i \in 1..Len(queue[c]) : Append(queue[c], op)[i] = queue[c][i]
      /\ Append(queue[c], op)[Len(queue[c]) + 1] = op
  BY <1>1, AppendProperties
<1>4. queue' \in [Clients -> Seq(Operation)] /\ queue'[c] = Append(queue[c], op)
      /\ \A d \in Clients \ {c} : queue'[d] = queue[d]
  BY <1>2, <1>3 DEF TypeOK
<1>5. Append(queue[c], op) # <<>>
  BY <1>1
<1>6. queue[c] # <<>> => Head(Append(queue[c], op)) = Head(queue[c])
  BY <1>1
<1> QED BY <1>3, <1>4, <1>5, <1>6

-----------------------------------------------------------------------------
(* Types, and that an attachment keeps its connection and handle.          *)

\* What is made stays, with its owner.
Keeps ==
    /\ Ids \subseteq Ids'
    /\ \A a \in Ids : attachments'[a].client = attachments[a].client /\ attachments'[a].handle = attachments[a].handle
    /\ HandleIds \subseteq HandleIds'
    /\ \A h \in HandleIds : handles'[h].session = handles[h].session

\* Steps that touch neither make nothing and lose nothing.
LEMMA KeepsSame == UNCHANGED <<attachments, handles>> => Keeps
BY DEF Keeps, Ids, HandleIds

\* A release, a new attachment and a change of one attachment keep what is made.
LEMMA KeepsAttachments ==
    ASSUME TypeOK, UNCHANGED handles
    PROVE  /\ \A as : \A p \in BOOLEAN : attachments' = Releasing(as, p) => Keeps
           /\ \A c \in Clients : Lease(c) => Keeps
           /\ \A a \in Ids : Only(a) => Keeps
<1>1. HandleIds \subseteq HandleIds' /\ \A h \in HandleIds : handles'[h].session = handles[h].session
  BY DEF HandleIds
<1>2. ASSUME NEW as, NEW p \in BOOLEAN, attachments' = Releasing(as, p) PROVE Keeps
  BY <1>1, <1>2, BegunEffect DEF Keeps, Begun, SameBut
<1>3. ASSUME NEW c \in Clients, Lease(c) PROVE Keeps
  BY <1>1, <1>3, LeaseEffect DEF Keeps
<1>4. ASSUME NEW a \in Ids, Only(a) PROVE Keeps
  BY <1>1, <1>4 DEF Keeps, Only
<1> QED BY <1>2, <1>3, <1>4

\* The operation at the head of a queue is one.
LEMMA HeadIsOperation ==
    ASSUME TypeOK, NEW c \in Clients, queue[c] # <<>>
    PROVE  /\ Head(queue[c]) \in Operation
           /\ Head(queue[c]).op = "attach" => Head(queue[c]).session \in Sessions
           /\ Head(queue[c]).op = "call" => Head(queue[c]).id \in Nat
<1>1. Head(queue[c]) \in Operation
  BY HeadTailProperties DEF TypeOK
<1> QED BY <1>1 DEF Operation

\* What the router leaves alone besides its connections, attachments and openings.
Rest == <<catalog, handles, hosted, removal, closing, shutdown, calls, faults, serverVars>>

\* An operation that ends.
LEMMA SettleTyped ==
    ASSUME TypeOK, NEW c \in Clients, queue[c] # <<>>, Settle(c), UNCHANGED Rest,
           opening' \subseteq Sessions, attachments' \in Seq(AttachmentRecord),
           route' \in [Clients -> Nat], told' \in [Clients -> Nat]
    PROVE  TypeOK'
BY SettleEffect DEF TypeOK, Rest, serverVars

\* An operation that waits.
LEMMA AwaitTyped ==
    ASSUME TypeOK, NEW c \in Clients, NEW where \in {"releasing"} \cup Attaching, Await(c, where), UNCHANGED Rest,
           opening' \subseteq Sessions, attachments' \in Seq(AttachmentRecord),
           route' \in [Clients -> Nat], told' \in [Clients -> Nat],
           current' \in [Clients -> Nat], found' \in [Clients -> Nat], mine' \in [Clients -> Nat]
    PROVE  TypeOK'
BY AwaitEffect DEF TypeOK, Rest, serverVars

\* Attaching until the lease is asked for.
LEMMA AttachTyped ==
    ASSUME TypeOK, NEW c \in Clients, step[c] # "idle" => queue[c] # <<>>, UNCHANGED serverVars,
           AttachStart(c) \/ Unavailable(c) \/ Acquired(c) \/ Left(c)
    PROVE  TypeOK' /\ Keeps
<1>1. UNCHANGED Rest /\ UNCHANGED <<route, told>>
  BY DEF AttachStart, Unavailable, Acquired, Left, Rest, hostVars
<1>2. queue[c] # <<>>
  BY DEF AttachStart, Starts, Unavailable, Acquired, Left
<1>3. UNCHANGED handles
  BY <1>1 DEF Rest
<1>4. route' \in [Clients -> Nat] /\ told' \in [Clients -> Nat] /\ opening \subseteq Sessions
      /\ attachments \in Seq(AttachmentRecord)
  BY <1>1 DEF TypeOK
<1>5. CASE Settle(c) /\ UNCHANGED <<opening, attachments>>
  BY <1>1, <1>2, <1>3, <1>4, <1>5, SettleTyped, KeepsSame
<1>6. CASE Lease(c) /\ UNCHANGED opening
  <2>1. attachments' \in Seq(AttachmentRecord) /\ mine' \in [Clients -> Nat] /\ UNCHANGED <<current, found>>
    BY <1>6, LeaseEffect
  <2>2. Await(c, "leasing") /\ current' \in [Clients -> Nat] /\ found' \in [Clients -> Nat]
    BY <1>6, <2>1 DEF Lease, TypeOK
  <2>3. TypeOK'
    BY <1>1, <1>4, <1>6, <2>1, <2>2, AwaitTyped DEF Attaching
  <2> QED BY <1>3, <1>6, <2>3, KeepsAttachments
<1>7. CASE Acquired(c) /\ attachments' = Releasing({current[c]}, FALSE) /\ Await(c, "leaving")
           /\ UNCHANGED <<current, found, mine>>
  <2>1. attachments' \in Seq(AttachmentRecord) /\ UNCHANGED opening
    BY <1>7, BegunEffect DEF Acquired
  <2>2. current' \in [Clients -> Nat] /\ found' \in [Clients -> Nat] /\ mine' \in [Clients -> Nat]
    BY <1>7 DEF TypeOK
  <2>3. TypeOK'
    BY <1>1, <1>4, <1>7, <2>1, <2>2, AwaitTyped DEF Attaching
  <2> QED BY <1>3, <1>7, <2>3, KeepsAttachments
<1>8. CASE AttachStart(c) /\ ~(Settle(c) /\ UNCHANGED opening)
  <2> DEFINE s == Head(queue[c]).session
  <2>1. s \in Sessions
    BY <1>2, <1>8, HeadIsOperation DEF AttachStart, Starts
  <2>2. /\ Await(c, "acquiring")
        /\ current' = [current EXCEPT ![c] = route[c]]
        /\ found' = [found EXCEPT ![c] = hosted[s]]
        /\ opening' = IF hosted[s] = 0 THEN opening \cup {s} ELSE opening
        /\ UNCHANGED <<mine, attachments>>
    BY <1>8 DEF AttachStart
  <2> HIDE DEF s
  <2>3. current' \in [Clients -> Nat] /\ found' \in [Clients -> Nat] /\ mine' \in [Clients -> Nat]
    BY <2>1, <2>2 DEF TypeOK
  <2>4. opening' \subseteq Sessions
    BY <1>4, <2>1, <2>2
  <2>5. TypeOK'
    BY <1>1, <1>4, <2>2, <2>3, <2>4, AwaitTyped DEF Attaching
  <2> QED BY <1>3, <2>2, <2>5, KeepsSame
<1> QED BY <1>5, <1>6, <1>7, <1>8 DEF AttachStart, Unavailable, Acquired, Left, hostVars

\* The lease is answered; a detach or a lost connection; a call.
LEMMA OperationTyped ==
    ASSUME TypeOK, NEW c \in Clients, ClientAt(c), UNCHANGED serverVars,
           Leased(c) \/ ReleaseStart(c) \/ ReleaseEnd(c) \/ CallStart(c)
    PROVE  TypeOK' /\ Keeps
<1>1. UNCHANGED Rest /\ UNCHANGED opening
  BY DEF Leased, ReleaseStart, ReleaseEnd, CallStart, Rest, hostVars
<1>2. queue[c] # <<>>
  BY DEF Leased, ReleaseStart, ReleaseEnd, CallStart, Starts, ClientAt
<1>3. UNCHANGED handles
  BY <1>1 DEF Rest
<1>4. opening' \subseteq Sessions /\ attachments \in Seq(AttachmentRecord)
      /\ route \in [Clients -> Nat] /\ told \in [Clients -> Nat]
      /\ current \in [Clients -> Nat] /\ found \in [Clients -> Nat] /\ mine \in [Clients -> Nat]
  BY <1>1 DEF TypeOK
<1>5. step[c] = "leasing" => mine[c] \in Ids
  BY <1>4 DEF ClientAt
<1>6. CASE Settle(c) /\ UNCHANGED <<attachments, route, told>>
  BY <1>1, <1>2, <1>3, <1>4, <1>6, SettleTyped, KeepsSame
<1>7. CASE Leased(c) /\ attachments' = [attachments EXCEPT ![mine[c]].listed = FALSE] /\ Settle(c)
           /\ UNCHANGED <<route, told>>
  <2>1. PICK a \in Ids : a = mine[c]
    BY <1>5, <1>7 DEF Leased
  <2>2. Only(a)
    BY <1>7, <2>1, UnlistedEffect
  <2>3. TypeOK'
    BY <1>1, <1>2, <1>4, <1>7, <2>2, SettleTyped DEF Only
  <2> QED BY <1>3, <2>2, <2>3, KeepsAttachments
<1>8. CASE Leased(c) /\ Settle(c) /\ UNCHANGED attachments
           /\ route' = [route EXCEPT ![c] = mine[c]] /\ told' = [told EXCEPT ![c] = mine[c]]
  <2>1. route' \in [Clients -> Nat] /\ told' \in [Clients -> Nat]
    BY <1>4, <1>8
  <2> QED BY <1>1, <1>2, <1>3, <1>4, <1>8, <2>1, SettleTyped, KeepsSame
<1>9. CASE Leased(c) /\ attachments' = Releasing({mine[c]}, TRUE) /\ Await(c, "releasing")
           /\ UNCHANGED <<route, told, current, found, mine>>
  BY <1>1, <1>3, <1>4, <1>9, BegunEffect, KeepsAttachments, AwaitTyped
<1>10. CASE ReleaseStart(c) /\ route[c] # 0
  <2>1. PICK p \in BOOLEAN : attachments' = Releasing({route[c]}, p)
    BY <1>10 DEF ReleaseStart
  <2>2. mine' = [mine EXCEPT ![c] = route[c]] /\ Await(c, "releasing") /\ UNCHANGED <<route, told, current, found>>
    BY <1>10 DEF ReleaseStart
  <2>3. mine' \in [Clients -> Nat]
    BY <1>4, <2>2
  <2> QED BY <1>1, <1>3, <1>4, <2>1, <2>2, <2>3, BegunEffect, KeepsAttachments, AwaitTyped
<1>11. CASE CallStart(c) /\ attachments' # attachments
  <2>1. PICK a : a = route[c]
    OBVIOUS
  <2>2. a \in Ids
    BY <1>11, <2>1 DEF CallStart, ClientAt
  <2>3. Head(queue[c]).id \in Nat /\ attachments[a].calls \in SUBSET Nat
    <3>1. attachments[a] \in AttachmentRecord
      BY <2>2, Typed
    <3> QED BY <1>2, <1>11, <3>1, HeadIsOperation DEF CallStart, Starts, AttachmentRecord
  <2>4. PICK ids \in SUBSET Nat : ids = attachments[a].calls \cup {Head(queue[c]).id}
    BY <2>3
  <2>5. attachments' = [attachments EXCEPT ![a].calls = ids]
    BY <1>11, <2>1, <2>4 DEF CallStart
  <2>6. Only(a)
    BY <2>2, <2>5, CallsEffect
  <2>7. Settle(c) /\ UNCHANGED <<route, told>>
    BY <1>11 DEF CallStart
  <2>8. TypeOK'
    BY <1>1, <1>2, <1>4, <2>6, <2>7, SettleTyped DEF Only
  <2> QED BY <1>3, <2>2, <2>6, <2>8, KeepsAttachments
<1> QED BY <1>6, <1>7, <1>8, <1>9, <1>10, <1>11 DEF Leased, ReleaseStart, ReleaseEnd, CallStart, hostVars

\* A removal.
LEMMA RemovalTyped ==
    ASSUME TypeOK, NEW c \in Clients, RequestAt(c), UNCHANGED serverVars, RemoveClose(c) \/ RemoveEnd(c)
    PROVE  TypeOK' /\ Keeps
<1> USE DEF clientVars, serverVars
<1>1. PICK h \in HandleIds : h = removal[c].handle
  BY DEF RequestAt, RemoveClose, RemoveEnd
<1>2. removal[c] \in Removal
  BY DEF TypeOK
<1>3. CASE RemoveClose(c)
  <2>1. PICK b \in BOOLEAN : removal' = [removal EXCEPT ![c].phase = "closing", ![c].ok = b]
    BY <1>3 DEF RemoveClose
  <2>2. [removal[c] EXCEPT !.phase = "closing", !.ok = b] \in Removal
    BY <1>2 DEF Removal
  <2>3. removal' = [removal EXCEPT ![c] = [removal[c] EXCEPT !.phase = "closing", !.ok = b]]
    BY <2>1
  <2>4. removal' \in [Clients -> Removal]
    BY <2>2, <2>3 DEF TypeOK
  <2>5. UNCHANGED handles \/ handles' = [handles EXCEPT ![h].state = "closing"]
    BY <1>1, <1>3 DEF RemoveClose, CloseHandle
  <2>6. /\ handles' \in Seq(HandleRecord) /\ HandleIds \subseteq HandleIds'
        /\ \A g \in HandleIds : handles'[g].session = handles[g].session
    <3>1. CASE UNCHANGED handles
      BY <3>1 DEF TypeOK, HandleIds
    <3>2. CASE handles' = [handles EXCEPT ![h].state = "closing"]
      BY <3>2, SetHandle
    <3> QED BY <2>5, <3>1, <3>2
  <2>7. TypeOK'
    BY <1>3, <2>4, <2>6 DEF RemoveClose, TypeOK
  <2> QED BY <1>3, <2>6, <2>7 DEF RemoveClose, Keeps, Ids
<1>4. CASE RemoveEnd(c)
  <2>1. PICK b \in BOOLEAN : removal' = [removal EXCEPT ![c].phase = "ended", ![c].ok = b]
    <3>1. removal[c].ok \in BOOLEAN
      BY <1>2 DEF Removal
    <3> QED BY <1>4, <3>1 DEF RemoveEnd
  <2>2. [removal[c] EXCEPT !.phase = "ended", !.ok = b] \in Removal
    BY <1>2 DEF Removal
  <2>3. removal' = [removal EXCEPT ![c] = [removal[c] EXCEPT !.phase = "ended", !.ok = b]]
    BY <2>1
  <2>4. removal' \in [Clients -> Removal]
    BY <2>2, <2>3 DEF TypeOK
  <2>5. handles[h].session \in Sessions
    BY Typed DEF HandleRecord
  <2>6. hosted' \in [Sessions -> Nat]
    BY <1>1, <1>4, <2>5 DEF RemoveEnd, TypeOK
  <2>7. TypeOK'
    BY <1>4, <2>4, <2>6 DEF RemoveEnd, TypeOK
  <2> QED BY <1>4, <2>7, KeepsSame DEF RemoveEnd
<1> QED BY <1>3, <1>4

\* Leases, releases and calls.
LEMMA AttachmentTyped ==
    ASSUME TypeOK, NEW a \in Ids, UNCHANGED serverVars, AttachmentStep(a)
    PROVE  TypeOK' /\ Keeps
<1> USE DEF clientVars, closeVars, serverVars
<1>1. CASE ReleaseLease(a)
  <2>1. Only(a)
    BY <1>1, ReleaseLeaseEffect
  <2>2. TypeOK'
    BY <1>1, <2>1 DEF ReleaseLease, Only, TypeOK
  <2> QED BY <1>1, <2>1, <2>2, KeepsAttachments DEF ReleaseLease
<1>2. CASE Clear(a)
  <2>1. Only(a) /\ faults' \in Nat /\ route' \in [Clients -> Nat] /\ told' \in [Clients -> Nat]
    BY <1>2, ClearEffect
  <2>2. UNCHANGED <<catalog, handles, hosted, opening, queue, step, current, found, mine, disconnected,
                    closeVars, calls>>
    BY <1>2, ClearEffect
  <2>3. TypeOK'
    BY <2>1, <2>2 DEF Only, TypeOK
  <2> QED BY <2>1, <2>2, <2>3, KeepsAttachments
<1>3. CASE Grant(a)
  <2>1. Only(a)
    BY <1>3, GrantEffect
  <2>2. faults' \in Nat
    <3>1. faults \in Nat
      BY DEF TypeOK
    <3> QED BY <1>3, <3>1 DEF Grant
  <2>3. TypeOK'
    BY <1>3, <2>1, <2>2 DEF Grant, Only, TypeOK
  <2> QED BY <1>3, <2>1, <2>3, KeepsAttachments DEF Grant
<1>4. CASE CallSettles(a)
  <2>1. PICK id : attachments' = [attachments EXCEPT ![a].calls = @ \ {id}]
    BY <1>4 DEF CallSettles
  <2>2. attachments[a].calls \in SUBSET Nat
    <3>1. attachments[a] \in AttachmentRecord
      BY Typed
    <3> QED BY <3>1 DEF AttachmentRecord
  <2>3. PICK ids \in SUBSET Nat : ids = attachments[a].calls \ {id}
    BY <2>2
  <2>4. attachments' = [attachments EXCEPT ![a].calls = ids]
    BY <2>1, <2>3
  <2>5. Only(a)
    BY <2>4, CallsEffect
  <2>6. TypeOK'
    BY <1>4, <2>5 DEF CallSettles, Only, TypeOK
  <2> QED BY <1>4, <2>5, <2>6, KeepsAttachments DEF CallSettles
<1> QED BY <1>1, <1>2, <1>3, <1>4 DEF AttachmentStep

\* A handle ends.
LEMMA HandleTyped ==
    ASSUME TypeOK, NEW h \in HandleIds, UNCHANGED serverVars,
           HandleCloses(h) \/ Invalidate(h) \/ Terminates(h)
    PROVE  TypeOK' /\ Keeps
<1> USE DEF clientVars, closeVars, serverVars
<1>1. CASE HandleCloses(h) \/ Terminates(h)
  <2>1. PICK s \in {"open", "closing", "closed", "terminated", "failed"} : handles' = [handles EXCEPT ![h].state = s]
    BY <1>1 DEF HandleCloses, Terminates
  <2>2. handles' \in Seq(HandleRecord) /\ HandleIds' = HandleIds
        /\ \A g \in HandleIds : handles'[g].session = handles[g].session
    BY <2>1, SetHandle
  <2>3. faults' \in Nat
    <3>1. faults \in Nat
      BY DEF TypeOK
    <3> QED BY <1>1, <3>1 DEF HandleCloses, Terminates
  <2>4. TypeOK'
    BY <1>1, <2>2, <2>3 DEF HandleCloses, Terminates, TypeOK
  <2> QED BY <1>1, <2>2, <2>4 DEF HandleCloses, Terminates, Keeps, Ids
<1>2. CASE Invalidate(h)
  <2>1. attachments' \in Seq(AttachmentRecord) /\ Keeps
    BY <1>2, BegunEffect, KeepsAttachments DEF Invalidate
  <2>2. handles[h].session \in Sessions
    BY Typed DEF HandleRecord
  <2>3. hosted' \in [Sessions -> Nat]
    BY <1>2, <2>2 DEF Invalidate, TypeOK
  <2>4. TypeOK'
    BY <1>2, <2>1, <2>3 DEF Invalidate, TypeOK
  <2> QED BY <2>1, <2>4
<1> QED BY <1>1, <1>2

\* The host answers an opening.
LEMMA OpeningTyped ==
    ASSUME TypeOK, NEW s \in Sessions, UNCHANGED serverVars, Opens(s) \/ OpenFails(s)
    PROVE  TypeOK' /\ Keeps
<1> USE DEF closeVars, serverVars
<1>1. CASE Opens(s)
  <2>1. PICK x \in HandleRecord : x = [session |-> s, state |-> IF closing THEN "closed" ELSE "open"]
    <3>1. [session |-> s, state |-> IF closing THEN "closed" ELSE "open"] \in HandleRecord
      BY DEF HandleRecord
    <3> QED BY <3>1
  <2>2. handles' = Append(handles, x)
    BY <1>1, <2>1 DEF Opens
  <2>3. handles' \in Seq(HandleRecord) /\ Len(handles') \in Nat /\ HandleIds \subseteq HandleIds'
        /\ \A h \in HandleIds : handles'[h] = handles[h]
    BY <2>2, NewHandle
  <2>4. hosted' \in [Sessions -> Nat] /\ found' \in [Clients -> Nat]
    BY <1>1, <2>3 DEF Opens, TypeOK
  <2>5. step' \in [Clients -> {"idle", "releasing"} \cup Attaching]
    BY <1>1 DEF Opens, TypeOK, Attaching
  <2>6. TypeOK'
    BY <1>1, <2>3, <2>4, <2>5 DEF Opens, TypeOK
  <2> QED BY <1>1, <2>3, <2>6 DEF Opens, Keeps, Ids
<1>2. CASE OpenFails(s)
  <2>1. step' \in [Clients -> {"idle", "releasing"} \cup Attaching]
    BY <1>2 DEF OpenFails, TypeOK, Attaching
  <2>2. faults' \in Nat
    <3>1. faults \in Nat
      BY DEF TypeOK
    <3> QED BY <1>2, <3>1 DEF OpenFails
  <2>3. TypeOK'
    BY <1>2, <2>1, <2>2 DEF OpenFails, TypeOK
  <2> QED BY <1>2, <2>3, KeepsSame DEF OpenFails
<1> QED BY <1>1, <1>2

\* Shutdown.
LEMMA ShutdownTyped ==
    ASSUME TypeOK, UNCHANGED serverVars, ShutdownStep
    PROVE  TypeOK' /\ Keeps
<1> USE DEF clientVars, serverVars
<1>1. CASE ShutdownReleases
  <2>1. attachments' \in Seq(AttachmentRecord) /\ Keeps
    BY <1>1, BegunEffect, KeepsAttachments DEF ShutdownReleases
  <2>2. TypeOK'
    BY <1>1, <2>1 DEF ShutdownReleases, TypeOK
  <2> QED BY <2>1, <2>2
<1>2. CASE ShutdownCloses
  <2>1. handles' \in Seq(HandleRecord) /\ HandleIds' = HandleIds
        /\ \A g \in HandleIds : handles'[g].session = handles[g].session
    BY <1>2, ShutdownClosesEffect
  <2>2. TypeOK'
    BY <1>2, <2>1 DEF ShutdownCloses, TypeOK
  <2> QED BY <1>2, <2>1, <2>2 DEF ShutdownCloses, Keeps, Ids
<1>3. CASE ShutdownEnds
  <2>1. hosted' \in [Sessions -> Nat] /\ route' \in [Clients -> Nat]
    BY <1>3 DEF ShutdownEnds, TypeOK
  <2>2. TypeOK'
    BY <1>3, <2>1 DEF ShutdownEnds, TypeOK
  <2> QED BY <1>3, <2>2, KeepsSame DEF ShutdownEnds
<1> QED BY <1>1, <1>2, <1>3 DEF ShutdownStep

\* In the line of a serial application is whoever asked it.
LEMMA LineEffect ==
    ASSUME TypeOK, NEW c \in Clients, RequestAt(c), asked[c] # None, serial
    PROVE  /\ line # <<>> /\ Head(line) \in Clients
           /\ Tail(line) \in Seq(Clients) /\ Len(Tail(line)) = Len(line) - 1 /\ Len(line) \in Nat
           /\ \A i \in 1..Len(Tail(line)) : Tail(line)[i] = line[i + 1]
<1>1. line \in Seq(Clients)
  BY DEF TypeOK
<1>2. line # <<>>
  BY <1>1 DEF RequestAt
<1> QED BY <1>1, <1>2, HeadTailProperties, LenProperties

\* A request that leaves, and one that runs.
LEMMA RequestTyped ==
    ASSUME TypeOK, NEW c \in Clients, RequestAt(c), asked[c] # None
    PROVE  /\ Leaves(c) => asked' \in [Clients -> Request \cup {None}] /\ line' \in Seq(Clients)
           /\ Runs(c) => asked' \in [Clients -> Request \cup {None}]
                         /\ asked'[c] \in Request /\ asked'[c].running /\ asked'[c].op = asked[c].op
                         /\ \A d \in Clients \ {c} : asked'[d] = asked[d]
<1>1. asked \in [Clients -> Request \cup {None}] /\ line \in Seq(Clients)
  BY DEF TypeOK
<1>2. ASSUME Leaves(c) PROVE asked' \in [Clients -> Request \cup {None}] /\ line' \in Seq(Clients)
  BY <1>1, <1>2, LineEffect DEF Leaves
<1>3. ASSUME Runs(c)
      PROVE  asked' \in [Clients -> Request \cup {None}]
             /\ asked'[c] \in Request /\ asked'[c].running /\ asked'[c].op = asked[c].op
             /\ \A d \in Clients \ {c} : asked'[d] = asked[d]
  <2>1. PICK r \in Request : r = asked[c]
    BY <1>1
  <2>2. PICK t : t = [r EXCEPT !.running = TRUE]
    OBVIOUS
  <2>3. t \in Request /\ t.running /\ t.op = r.op
    BY <2>2 DEF Request
  <2>4. asked' = [asked EXCEPT ![c] = t]
    BY <1>3, <2>1, <2>2 DEF Runs
  <2> QED BY <1>1, <2>1, <2>3, <2>4
<1> QED BY <1>2, <1>3

\* Who asks the application.
LEMMA AskTyped ==
    ASSUME TypeOK, NEW c \in Clients, Ask(c)
    PROVE  TypeOK' /\ Keeps
<1> USE DEF routerVars, hostVars, clientVars, closeVars
<1>1. asked \in [Clients -> Request \cup {None}] /\ line \in Seq(Clients)
  BY DEF TypeOK
<1>2. PICK op \in {"attach", "detach", "remove"}, s \in Sessions \cup {None} :
        /\ (op = "detach") = (s = None)
        /\ asked' = [asked EXCEPT ![c] = [op |-> op, session |-> s, running |-> FALSE]]
  BY DEF Ask
<1>3. [op |-> op, session |-> s, running |-> FALSE] \in Request
  BY <1>2 DEF Request
<1>4. asked' \in [Clients -> Request \cup {None}]
  BY <1>1, <1>2, <1>3
<1>5. line' \in Seq(Clients)
  BY <1>1, AppendProperties DEF Ask
<1>6. requests' \in Nat
  <2>1. requests \in Nat
    BY DEF TypeOK
  <2>2. requests' = requests + 1
    BY DEF Ask
  <2> QED BY <2>1, <2>2
<1>7. TypeOK'
  BY <1>4, <1>5, <1>6 DEF Ask, TypeOK
<1> QED BY <1>7, KeepsSame DEF Ask

\* What the application runs: the router's part is an operation in a queue or a removal.
LEMMA ApplicationTyped ==
    ASSUME TypeOK, NEW c \in Clients, RequestAt(c), HostInv, ApplicationStep(c)
    PROVE  TypeOK' /\ Keeps
<1> USE DEF routerVars, hostVars, clientVars, closeVars
<1>1. asked[c] # None
  BY DEF ApplicationStep, AskRouter, RouterAnswers, AskRemoval, Delete, Turn, RequestAt, Running
<1>2. asked[c] \in Request
  BY <1>1 DEF TypeOK
<1>3. CASE AskRouter(c)
  <2>1. Keeps
    BY <1>3, KeepsSame DEF AskRouter
  <2>2. CASE Leaves(c) /\ UNCHANGED queue
    BY <1>1, <1>3, <2>1, <2>2, RequestTyped DEF AskRouter, TypeOK
  <2>3. CASE Runs(c) /\ Enqueue(c, [op |-> asked[c].op, session |-> asked[c].session]) /\ UNCHANGED line
    <3>1. PICK op : op = [op |-> asked[c].op, session |-> asked[c].session]
      OBVIOUS
    <3>2. op \in Operation
      BY <1>2, <1>3, <3>1 DEF AskRouter, Request, Operation
    <3>3. queue' \in [Clients -> Seq(Operation)]
      BY <2>3, <3>1, <3>2, EnqueueEffect
    <3> QED BY <1>1, <1>3, <2>1, <2>3, <3>3, RequestTyped DEF AskRouter, TypeOK
  <2> QED BY <1>3, <2>2, <2>3 DEF AskRouter
<1>4. CASE RouterAnswers(c)
  <2>1. TypeOK'
    BY <1>1, <1>4, RequestTyped DEF RouterAnswers, TypeOK
  <2> QED BY <1>4, <2>1, KeepsSame DEF RouterAnswers
<1>5. CASE AskRemoval(c)
  <2>1. PICK s \in Sessions : s = asked[c].session
    BY <1>2, <1>5 DEF AskRemoval, Request
  <2>2. asked' \in [Clients -> Request \cup {None}]
    BY <1>1, <1>5, RequestTyped DEF AskRemoval
  <2>3. UNCHANGED attachments \/ attachments' = Releasing(Listed(hosted[s]), TRUE)
    BY <1>5, <2>1 DEF AskRemoval, RemoveStart
  <2>4. attachments' \in Seq(AttachmentRecord) /\ Keeps
    <3>1. UNCHANGED handles
      BY <1>5 DEF AskRemoval
    <3>2. CASE UNCHANGED attachments
      BY <3>1, <3>2, KeepsSame DEF TypeOK
    <3>3. CASE attachments' = Releasing(Listed(hosted[s]), TRUE)
      BY <3>1, <3>3, BegunEffect, KeepsAttachments
    <3> QED BY <2>3, <3>2, <3>3
  <2>5. Listed(hosted[s]) \in SUBSET Nat /\ hosted[s] \in Nat
    BY DEF Listed, Ids, TypeOK
  <2>6. /\ [NoRemoval EXCEPT !.phase = "ended", !.session = s, !.ok = FALSE] \in Removal
        /\ [NoRemoval EXCEPT !.phase = "ended", !.session = s] \in Removal
        /\ [phase |-> "releasing", handle |-> hosted[s], waits |-> Listed(hosted[s]), session |-> s, ok |-> TRUE]
             \in Removal
    BY <2>5 DEF NoRemoval, Removal
  <2>7. removal' \in [Clients -> Removal]
    BY <1>5, <2>1, <2>6 DEF AskRemoval, RemoveStart, TypeOK
  <2>8. TypeOK'
    BY <1>5, <2>2, <2>4, <2>7 DEF AskRemoval, TypeOK
  <2> QED BY <2>4, <2>8
<1>6. CASE Delete(c)
  <2>1. NoRemoval \in Removal
    BY DEF NoRemoval, Removal
  <2>2. removal' \in [Clients -> Removal] /\ catalog' \subseteq Sessions
    BY <1>6, <2>1 DEF Delete, TypeOK
  <2>3. TypeOK'
    BY <1>1, <1>6, <2>2, RequestTyped DEF Delete, TypeOK
  <2> QED BY <1>6, <2>3, KeepsSame DEF Delete
<1> QED BY <1>3, <1>4, <1>5, <1>6 DEF ApplicationStep

\* A queue gets a "disconnect" at its end, or stays.
LEMMA DisconnectEffect ==
    ASSUME TypeOK, NEW cs \in SUBSET Clients, Disconnects(cs)
    PROVE  /\ queue' \in [Clients -> Seq(Operation)] /\ connected' \subseteq Clients /\ disconnected' \subseteq Clients
           /\ \A c \in Clients :
                /\ \A i \in 1..Len(queue[c]) : queue'[c][i] = queue[c][i]
                /\ queue[c] # <<>> => queue'[c] # <<>> /\ Head(queue'[c]) = Head(queue[c])
                /\ \A i \in DOMAIN queue'[c] : i \in 1..Len(queue[c]) \/ queue'[c][i].op = "disconnect"
<1> DEFINE op == [op |-> "disconnect"]
<1>1. op \in Operation /\ op.op = "disconnect"
  BY DEF Operation
<1>2. queue' = [c \in Clients |-> IF c \in cs THEN Append(queue[c], op) ELSE queue[c]]
      /\ connected' \subseteq Clients /\ disconnected' \subseteq Clients
  BY DEF Disconnects, TypeOK
<1> HIDE DEF op
<1>3. ASSUME NEW c \in Clients
      PROVE  /\ queue'[c] \in Seq(Operation)
             /\ \A i \in 1..Len(queue[c]) : queue'[c][i] = queue[c][i]
             /\ queue[c] # <<>> => queue'[c] # <<>> /\ Head(queue'[c]) = Head(queue[c])
             /\ \A i \in DOMAIN queue'[c] : i \in 1..Len(queue[c]) \/ queue'[c][i].op = "disconnect"
  <2>1. queue[c] \in Seq(Operation) /\ Len(queue[c]) \in Nat
    BY Typed
  <2>2. queue'[c] = queue[c] \/ queue'[c] = Append(queue[c], op)
    BY <1>2
  <2>3. CASE queue'[c] = queue[c]
    BY <2>1, <2>3
  <2>4. CASE queue'[c] = Append(queue[c], op)
    <3>1. /\ queue'[c] \in Seq(Operation) /\ Len(queue'[c]) = Len(queue[c]) + 1
          /\ \A i \in 1..Len(queue[c]) : queue'[c][i] = queue[c][i]
          /\ queue'[c][Len(queue[c]) + 1] = op
      BY <1>1, <2>1, <2>4, AppendProperties
    <3>2. queue[c] # <<>> => queue'[c] # <<>> /\ Head(queue'[c]) = Head(queue[c])
      BY <2>1, <2>4
    <3>3. ASSUME NEW i \in DOMAIN queue'[c] PROVE i \in 1..Len(queue[c]) \/ queue'[c][i].op = "disconnect"
      <4>1. i \in 1..(Len(queue[c]) + 1)
        BY <3>1
      <4> QED BY <1>1, <2>1, <3>1, <4>1
    <3> QED BY <3>1, <3>2, <3>3
  <2> QED BY <2>2, <2>3, <2>4
<1>4. queue' \in [Clients -> Seq(Operation)]
  BY <1>2, <1>3
<1> QED BY <1>2, <1>3, <1>4

\* Calls, and the end of connections.
LEMMA ConnectionTyped ==
    ASSUME TypeOK, (\E c \in Clients : Call(c) \/ Lost(c)) \/ Close \/ CloseState
    PROVE  TypeOK' /\ Keeps
<1> USE DEF routerVars, hostVars, clientVars, closeVars, serverVars
<1>1. ASSUME NEW c \in Clients, Call(c) PROVE TypeOK' /\ Keeps
  <2>1. PICK op \in Operation : op = [op |-> "call", attachment |-> told[c], id |-> calls + 1]
    <3>1. told[c] \in Nat /\ calls + 1 \in Nat
      BY DEF TypeOK
    <3> QED BY <3>1 DEF Operation
  <2>2. queue' \in [Clients -> Seq(Operation)]
    BY <1>1, <2>1, EnqueueEffect DEF Call
  <2>3. calls' \in Nat
    <3>1. calls \in Nat
      BY DEF TypeOK
    <3>2. calls' = calls + 1
      BY <1>1 DEF Call
    <3> QED BY <3>1, <3>2
  <2>4. TypeOK'
    BY <1>1, <2>2, <2>3 DEF Call, TypeOK
  <2> QED BY <1>1, <2>4, KeepsSame DEF Call
<1>2. ASSUME NEW c \in Clients, Lost(c) PROVE TypeOK' /\ Keeps
  <2>1. TypeOK'
    BY <1>2, DisconnectEffect DEF Lost, TypeOK
  <2> QED BY <1>2, <2>1, KeepsSame DEF Lost
<1>3. CASE Close
  <2>1. TypeOK'
    BY <1>3 DEF Close, TypeOK
  <2> QED BY <1>3, <2>1, KeepsSame DEF Close
<1>4. CASE CloseState
  <2>1. queue' \in [Clients -> Seq(Operation)] /\ connected' \subseteq Clients /\ disconnected' \subseteq Clients
    BY <1>4, DisconnectEffect DEF CloseState, TypeOK
  <2>2. draining' \in [Clients -> Nat]
    BY <1>4, <2>1, LenProperties DEF CloseState
  <2>3. TypeOK'
    BY <1>4, <2>1, <2>2 DEF CloseState, TypeOK
  <2> QED BY <1>4, <2>3, KeepsSame DEF CloseState
<1> QED BY <1>1, <1>2, <1>3, <1>4

\* Every step is one of these.
LEMMA TypeStep ==
    ASSUME ServerInv, [Next]_vars
    PROVE  TypeOK' /\ Keeps
<1>1. TypeOK /\ HostInv
  BY DEF ServerInv
<1>2. ASSUME NEW c \in Clients PROVE ClientAt(c) /\ RequestAt(c)
  BY DEF ServerInv
<1>3. ASSUME NEW c \in Clients, ClientStep(c), UNCHANGED serverVars PROVE TypeOK' /\ Keeps
  <2>1. step[c] # "idle" => queue[c] # <<>>
    BY <1>2 DEF ClientAt
  <2> QED BY <1>1, <1>2, <1>3, <2>1, AttachTyped, OperationTyped, RemovalTyped DEF ClientStep
<1>4. CASE RouterStep
  BY <1>1, <1>3, <1>4, AttachmentTyped, HandleTyped, OpeningTyped, ShutdownTyped DEF RouterStep, HandleStep
<1>5. CASE \E c \in Clients : ApplicationStep(c) \/ Ask(c)
  BY <1>1, <1>2, <1>5, ApplicationTyped, AskTyped
<1>6. CASE (\E c \in Clients : Call(c) \/ Lost(c)) \/ Close \/ CloseState
  BY <1>1, <1>6, ConnectionTyped
<1>7. CASE (\E h \in HandleIds : Terminates(h)) /\ UNCHANGED serverVars
  BY <1>1, <1>7, HandleTyped
<1>8. CASE UNCHANGED vars
  <2>1. TypeOK'
    BY <1>1, <1>8 DEF TypeOK, vars, routerVars, hostVars, clientVars, closeVars, serverVars
  <2> QED BY <1>8, <2>1, KeepsSame DEF vars, routerVars, hostVars
<1> QED BY <1>4, <1>5, <1>6, <1>7, <1>8 DEF Next

-----------------------------------------------------------------------------
(* What a step comes down to for connections, attachments and handles.     *)

\* What an operation keeps while it waits.
Locals == <<step, current, found, mine>>

\* Requests join the end of a queue; nothing else happens here.
Appending ==
    /\ UNCHANGED <<handles, hosted, opening, attachments, route, Locals>>
    /\ \A c \in Clients : queue[c] # <<>> => queue'[c] # <<>> /\ Head(queue'[c]) = Head(queue[c])

\* Somebody else than the connection begins to release its attachment.
Reclaims(as) ==
    /\ attachments' = Releasing(as, TRUE)
    /\ UNCHANGED <<handles, hosted, opening, route, queue, Locals>>

\* An operation ends and changes nothing but the queue.
Ends(c) ==
    /\ Settle(c) /\ queue[c] # <<>> /\ UNCHANGED <<handles, hosted, opening, attachments, route>>
    /\ step[c] # "leasing" /\ (step[c] = "acquiring" => found[c] # 0)
    /\ step[c] = "leaving" => Released(current[c])
    /\ step[c] = "releasing" => Released(mine[c])

\* Handles close or terminate.
HandlesMove ==
    /\ UNCHANGED <<hosted, opening, attachments, route, queue, Locals>>
    /\ HandleIds' = HandleIds
    /\ \A h \in HandleIds :
         /\ handles'[h].session = handles[h].session
         /\ \/ handles'[h].state = handles[h].state
            \/ handles[h].state = "open" /\ handles'[h].state \in {"closing", "terminated"}
            \/ handles[h].state = "closing" /\ handles'[h].state \in {"closed", "failed"}

\* A handle that failed to close is forgotten.
Forgets ==
    /\ UNCHANGED <<handles, opening, attachments, route, queue, Locals>>
    /\ \/ UNCHANGED hosted
       \/ \E h \in HandleIds :
            /\ handles[h].state = "failed" /\ hosted[handles[h].session] = h
            /\ hosted' = [hosted EXCEPT ![handles[h].session] = 0]

\* The operation at the head of the queue goes from one place to another.
Acquires(c) ==
    /\ Starts(c, "attach") /\ Await(c, "acquiring")
    /\ current' = [current EXCEPT ![c] = route[c]]
    /\ found' = [found EXCEPT ![c] = hosted[Head(queue[c]).session]]
    /\ opening' = IF hosted[Head(queue[c]).session] = 0 THEN opening \cup {Head(queue[c]).session} ELSE opening
    /\ UNCHANGED <<mine, handles, hosted, attachments, route>>

Leaving(c) ==
    /\ step[c] = "acquiring" /\ found[c] # 0 /\ current[c] # 0
    /\ attachments' = Releasing({current[c]}, FALSE)
    /\ Await(c, "leaving") /\ UNCHANGED <<current, found, mine, handles, hosted, opening, route>>

Leases(c) ==
    /\ \/ step[c] = "acquiring" /\ found[c] # 0 /\ current[c] = 0
       \/ step[c] = "leaving" /\ Released(current[c])
    /\ Lease(c) /\ UNCHANGED <<handles, hosted, opening, route>>

Releases(c, publish) ==
    /\ queue[c] # <<>> /\ step[c] = "idle" /\ route[c] # 0
    /\ attachments' = Releasing({route[c]}, publish)
    /\ mine' = [mine EXCEPT ![c] = route[c]]
    /\ Await(c, "releasing") /\ UNCHANGED <<current, found, handles, hosted, opening, route>>

Calling(c) ==
    /\ queue[c] # <<>> /\ step[c] = "idle" /\ route[c] # 0
    /\ \E id \in Nat : attachments' = [attachments EXCEPT ![route[c]].calls = @ \cup {id}]
    /\ Settle(c) /\ UNCHANGED <<handles, hosted, opening, route>>

Effect ==
    \/ Appending \/ HandlesMove \/ Forgets \/ ShutdownEnds
    \/ \E as : Reclaims(as)
    \/ \E h \in HandleIds : Invalidate(h)
    \/ \E s \in Sessions : Opens(s) \/ OpenFails(s)
    \/ \E a \in Ids : AttachmentStep(a)
    \/ \E c \in Clients :
         Ends(c) \/ Acquires(c) \/ Leaving(c) \/ Leases(c) \/ Leased(c) \/ Calling(c)
           \/ (\E p \in BOOLEAN : Releases(c, p))

\* The steps of attaching, detaching, a lost connection and calls.
LEMMA ClientEffect ==
    ASSUME TypeOK, NEW c \in Clients, ClientAt(c),
           \/ AttachStart(c) \/ Unavailable(c) \/ Acquired(c) \/ Left(c) \/ Leased(c)
           \/ ReleaseStart(c) \/ ReleaseEnd(c) \/ CallStart(c)
    PROVE  Effect
<1>1. step[c] # "idle" => queue[c] # <<>>
  BY DEF ClientAt
<1>2. CASE AttachStart(c)
  BY <1>2 DEF Effect, AttachStart, Acquires, Ends, Starts
<1>3. CASE Unavailable(c)
  BY <1>1, <1>3 DEF Effect, Unavailable, Ends, hostVars
<1>4. CASE Acquired(c)
  BY <1>1, <1>4 DEF Effect, Acquired, Ends, Leaving, Leases
<1>5. CASE Left(c)
  BY <1>1, <1>5 DEF Effect, Left, Ends, Leases
<1>6. CASE ReleaseStart(c) /\ route[c] = 0
  BY <1>6 DEF Effect, ReleaseStart, Ends, Starts
<1>7. CASE ReleaseStart(c) /\ route[c] # 0
  <2>1. PICK p \in BOOLEAN : attachments' = Releasing({route[c]}, p)
    BY <1>7 DEF ReleaseStart
  <2>2. Releases(c, p)
    BY <1>7, <2>1 DEF ReleaseStart, Releases, Starts
  <2> QED BY <2>2 DEF Effect
<1>8. CASE ReleaseEnd(c)
  BY <1>1, <1>8 DEF Effect, ReleaseEnd, Ends, hostVars
<1>9. CASE CallStart(c)
  <2>1. Settle(c) /\ queue[c] # <<>> /\ step[c] = "idle" /\ UNCHANGED <<handles, hosted, opening, route>>
    BY <1>9 DEF CallStart, Starts
  <2>2. CASE UNCHANGED attachments
    BY <2>1, <2>2 DEF Effect, Ends
  <2>3. CASE ~UNCHANGED attachments
    <3>1. Head(queue[c]).id \in Nat
      BY <1>9, <2>1, HeadIsOperation DEF CallStart, Starts
    <3>2. route[c] # 0 /\ attachments' = [attachments EXCEPT ![route[c]].calls = @ \cup {Head(queue[c]).id}]
      BY <1>9, <2>3 DEF CallStart
    <3>3. Calling(c)
      BY <2>1, <3>1, <3>2 DEF Calling
    <3> QED BY <3>3 DEF Effect
  <2> QED BY <2>2, <2>3
<1>10. CASE Leased(c)
  BY <1>10 DEF Effect
<1> QED BY <1>2, <1>3, <1>4, <1>5, <1>6, <1>7, <1>8, <1>9, <1>10

\* Removing a Session, handles that end, and shutdown.
LEMMA HandleEffect ==
    ASSUME TypeOK, HostInv,
           \/ \E c \in Clients : RequestAt(c) /\ (RemoveClose(c) \/ RemoveEnd(c))
           \/ \E h \in HandleIds : HandleStep(h) \/ Terminates(h)
           \/ ShutdownStep
    PROVE  Effect
<1> USE DEF clientVars, Locals
<1>1. ASSUME NEW c \in Clients, RequestAt(c), RemoveClose(c) PROVE HandlesMove
  <2>1. PICK h \in HandleIds : h = removal[c].handle
    BY <1>1 DEF RequestAt, RemoveClose
  <2>2. UNCHANGED handles \/ (handles[h].state = "open" /\ handles' = [handles EXCEPT ![h].state = "closing"])
    BY <1>1, <2>1 DEF RemoveClose, CloseHandle
  <2>3. UNCHANGED <<hosted, opening, attachments, route, queue, Locals>>
    BY <1>1 DEF RemoveClose
  <2>4. CASE UNCHANGED handles
    BY <2>3, <2>4 DEF HandlesMove, HandleIds
  <2>5. CASE handles[h].state = "open" /\ handles' = [handles EXCEPT ![h].state = "closing"]
    BY <2>3, <2>5, SetHandle DEF HandlesMove
  <2> QED BY <2>2, <2>4, <2>5
<1>2. ASSUME NEW c \in Clients, RequestAt(c), RemoveEnd(c) PROVE Forgets
  <2>1. PICK h \in HandleIds : h = removal[c].handle
    BY <1>2 DEF RequestAt, RemoveEnd
  <2>2. HandleGone(h) /\ hosted' = IF hosted[handles[h].session] = h
                                     THEN [hosted EXCEPT ![handles[h].session] = 0] ELSE hosted
    BY <1>2, <2>1 DEF RemoveEnd
  <2> QED BY <1>2, <2>2 DEF RemoveEnd, Forgets, HandleGone
<1>3. ASSUME NEW h \in HandleIds, HandleCloses(h) \/ Terminates(h) PROVE HandlesMove
  <2>1. PICK s \in {"open", "closing", "closed", "terminated", "failed"} :
          /\ handles' = [handles EXCEPT ![h].state = s]
          /\ \/ handles[h].state = "open" /\ s = "terminated"
             \/ handles[h].state = "closing" /\ s \in {"closed", "failed"}
    BY <1>3 DEF HandleCloses, Terminates
  <2>2. UNCHANGED <<hosted, opening, attachments, route, queue, Locals>>
    BY <1>3 DEF HandleCloses, Terminates
  <2> QED BY <2>1, <2>2, SetHandle DEF HandlesMove
<1>4. ASSUME ShutdownReleases PROVE \E as : Reclaims(as)
  BY <1>4 DEF ShutdownReleases, Reclaims
<1>5. ASSUME ShutdownCloses PROVE HandlesMove
  BY <1>5, ShutdownClosesEffect DEF ShutdownCloses, HandlesMove
<1> QED BY <1>1, <1>2, <1>3, <1>4, <1>5 DEF Effect, HandleStep, ShutdownStep

\* What peers and the application ask for.
LEMMA ServerEffect ==
    ASSUME TypeOK,
           \/ \E c \in Clients : ApplicationStep(c) \/ Ask(c) \/ Call(c) \/ Lost(c)
           \/ Close \/ CloseState \/ UNCHANGED vars
    PROVE  Effect
<1> USE DEF routerVars, hostVars, clientVars, Locals
<1>1. ASSUME NEW c \in Clients, AskRemoval(c) PROVE Effect
  <2>1. CASE UNCHANGED attachments
    BY <1>1, <2>1 DEF Effect, AskRemoval, Appending
  <2>2. CASE ~UNCHANGED attachments
    BY <1>1, <2>2 DEF Effect, AskRemoval, RemoveStart, Reclaims
  <2> QED BY <2>1, <2>2
<1>2. ASSUME NEW c \in Clients, AskRouter(c) PROVE Appending
  <2>1. CASE UNCHANGED queue
    BY <1>2, <2>1 DEF AskRouter, Appending
  <2>2. CASE ~UNCHANGED queue
    <3>1. asked[c] \in Request
      BY <1>2 DEF AskRouter, Turn, TypeOK
    <3>2. PICK op \in Operation : op = [op |-> asked[c].op, session |-> asked[c].session]
      BY <1>2, <3>1 DEF AskRouter, Request, Operation
    <3>3. Enqueue(c, op)
      BY <1>2, <2>2, <3>2 DEF AskRouter
    <3> QED BY <1>2, <3>3, EnqueueEffect DEF AskRouter, Appending
  <2> QED BY <2>1, <2>2
<1>3. ASSUME NEW c \in Clients, RouterAnswers(c) \/ Delete(c) \/ Ask(c) PROVE Appending
  BY <1>3 DEF RouterAnswers, Delete, Ask, Appending
<1>4. ASSUME NEW c \in Clients, Call(c) PROVE Appending
  <2>1. PICK op \in Operation : op = [op |-> "call", attachment |-> told[c], id |-> calls + 1]
    <3>1. told[c] \in Nat /\ calls + 1 \in Nat
      BY DEF TypeOK
    <3> QED BY <3>1 DEF Operation
  <2> QED BY <1>4, <2>1, EnqueueEffect DEF Call, Appending
<1>5. ASSUME NEW c \in Clients, Lost(c) PROVE Appending
  BY <1>5, DisconnectEffect DEF Lost, Appending
<1>6. ASSUME Close \/ UNCHANGED vars PROVE Appending
  BY <1>6 DEF Close, Appending, vars
<1>7. ASSUME CloseState PROVE Appending
  <2>1. Disconnects(connected) /\ connected \in SUBSET Clients
    BY <1>7 DEF CloseState, TypeOK
  <2> QED BY <1>7, <2>1, DisconnectEffect DEF CloseState, Appending
<1> QED BY <1>1, <1>2, <1>3, <1>4, <1>5, <1>6, <1>7 DEF Effect, ApplicationStep

\* Every step comes down to one of them.
LEMMA EveryEffect ==
    ASSUME ServerInv, [Next]_vars
    PROVE  Effect
<1>1. TypeOK /\ HostInv /\ \A c \in Clients : ClientAt(c) /\ RequestAt(c)
  BY DEF ServerInv
<1>2. CASE RouterStep
  BY <1>1, <1>2, ClientEffect, HandleEffect DEF RouterStep, ClientStep, Effect
<1>3. CASE (\E h \in HandleIds : Terminates(h)) /\ UNCHANGED serverVars
  BY <1>1, <1>3, HandleEffect
<1> QED BY <1>1, <1>2, <1>3, ServerEffect DEF Next

-----------------------------------------------------------------------------
(* Connections.                                                            *)

\* What a connection that does not step may see happen to its attachments.
Undisturbed(c) ==
    /\ step'[c] = step[c] /\ current'[c] = current[c] /\ found'[c] = found[c] /\ mine'[c] = mine[c]
    /\ route'[c] \in {0, route[c]}
    /\ queue[c] # <<>> => queue'[c] # <<>> /\ Head(queue'[c]) = Head(queue[c])
    /\ \A a \in Ids : attachments[a].client = c =>
         /\ attachments[a].release # "no" => attachments'[a].release # "no"
         /\ route'[c] = a /\ attachments[a].listed => attachments'[a].listed

\* That leaves it where it was.
LEMMA UndisturbedStays ==
    ASSUME TypeOK, Keeps, NEW c \in Clients, ClientAt(c), Undisturbed(c)
    PROVE  ClientAt(c)'
<1>1. /\ \A a \in {route'[c], current'[c], mine'[c]} \ {0} : a \in Ids' /\ attachments'[a].client = c
      /\ route'[c] # 0 => attachments'[route'[c]].listed
      /\ found'[c] # 0 => found'[c] \in HandleIds'
  BY DEF ClientAt, Undisturbed, Keeps
<1>2. /\ step'[c] # "idle" => queue'[c] # <<>>
      /\ step'[c] \in Attaching => Head(queue'[c]).op = "attach"
      /\ step'[c] \in {"acquiring", "leaving"} => route'[c] \in {0, current'[c]}
      /\ step'[c] = "leasing" => mine'[c] # 0 /\ route'[c] = 0
  BY DEF ClientAt, Undisturbed, Attaching
<1>3. /\ step'[c] = "leaving" => current'[c] # 0 /\ attachments'[current'[c]].release # "no" /\ found'[c] # 0
      /\ step'[c] = "releasing" => mine'[c] # 0 /\ attachments'[mine'[c]].release # "no"
  BY DEF ClientAt, Undisturbed
<1> QED BY <1>1, <1>2, <1>3 DEF ClientAt

\* Releases disturb nobody.
LEMMA ReleasesDisturbNobody ==
    ASSUME TypeOK, NEW as, NEW p \in BOOLEAN, attachments' = Releasing(as, p)
    PROVE  \A a \in Ids : /\ attachments[a].release # "no" => attachments'[a].release # "no"
                          /\ attachments[a].listed => attachments'[a].listed
BY BegunEffect DEF Begun, SameBut

\* When one connection steps, the others stay where they are.
LEMMA OthersUndisturbed ==
    ASSUME TypeOK, NEW c \in Clients, ClientAt(c),
           Ends(c) \/ Acquires(c) \/ Leaving(c) \/ Leases(c) \/ Leased(c) \/ Calling(c)
             \/ (\E p \in BOOLEAN : Releases(c, p)),
           NEW d \in Clients \ {c}
    PROVE  Undisturbed(d)
<1>1. CASE Ends(c)
  BY <1>1, SettleEffect DEF Ends, Undisturbed
<1>2. CASE Acquires(c)
  <2>1. step'[d] = step[d] /\ UNCHANGED <<queue, mine, route, attachments>>
    BY <1>2, AwaitEffect DEF Acquires, Attaching
  <2>2. current'[d] = current[d] /\ found'[d] = found[d]
    BY <1>2 DEF Acquires, TypeOK
  <2> QED BY <2>1, <2>2 DEF Undisturbed
<1>3. CASE Leaving(c)
  <2>1. step'[d] = step[d] /\ UNCHANGED <<queue, mine, route, current, found>>
    BY <1>3, AwaitEffect DEF Leaving, Attaching
  <2> QED BY <1>3, <2>1, ReleasesDisturbNobody DEF Leaving, Undisturbed
<1>4. CASE Leases(c)
  <2>1. step'[d] = step[d] /\ UNCHANGED <<queue, route>>
    BY <1>4, AwaitEffect DEF Leases, Lease, Attaching
  <2> QED BY <1>4, <2>1, LeaseEffect DEF Leases, Undisturbed
<1>5. ASSUME NEW p \in BOOLEAN, Releases(c, p) PROVE Undisturbed(d)
  <2>1. step'[d] = step[d] /\ UNCHANGED <<queue, route, current, found>>
    BY <1>5, AwaitEffect DEF Releases
  <2>2. mine'[d] = mine[d]
    BY <1>5 DEF Releases, TypeOK
  <2> QED BY <1>5, <2>1, <2>2, ReleasesDisturbNobody DEF Releases, Undisturbed
<1>6. CASE Calling(c)
  <2>1. PICK a \in Ids, id \in Nat : attachments' = [attachments EXCEPT ![a].calls = @ \cup {id}]
    <3>1. route[c] \in Ids
      BY <1>6 DEF Calling, ClientAt
    <3> QED BY <1>6, <3>1 DEF Calling
  <2>2. PICK ids \in SUBSET Nat : ids = attachments[a].calls \cup {id}
    <3>1. attachments[a] \in AttachmentRecord
      BY Typed
    <3> QED BY <3>1 DEF AttachmentRecord
  <2>3. \A b \in Ids : attachments'[b].release = attachments[b].release /\ attachments'[b].listed = attachments[b].listed
    BY <2>1, <2>2, CallsEffect DEF Only
  <2> QED BY <1>6, <2>3, SettleEffect DEF Calling, Undisturbed
<1>7. CASE Leased(c)
  <2>1. PICK a \in Ids : a = mine[c] /\ attachments[a].client = c
    BY <1>7 DEF Leased, ClientAt
  <2>2. queue[c] # <<>>
    BY <1>7 DEF Leased, ClientAt
  <2>3. CASE attachments' = [attachments EXCEPT ![a].listed = FALSE] /\ Settle(c) /\ UNCHANGED route
    BY <2>1, <2>2, <2>3, SettleEffect, UnlistedEffect DEF Only, Undisturbed
  <2>4. CASE attachments' = Releasing({a}, TRUE) /\ Await(c, "releasing") /\ UNCHANGED <<route, current, found, mine>>
    BY <2>4, AwaitEffect, ReleasesDisturbNobody DEF Undisturbed
  <2>5. CASE route' = [route EXCEPT ![c] = a] /\ Settle(c) /\ UNCHANGED attachments
    <3>1. route'[d] = route[d]
      BY <2>5 DEF TypeOK
    <3> QED BY <2>2, <2>5, <3>1, SettleEffect DEF Undisturbed
  <2> QED BY <1>7, <2>1, <2>3, <2>4, <2>5 DEF Leased
<1> QED BY <1>1, <1>2, <1>3, <1>4, <1>5, <1>6, <1>7

\* The connection that steps.
LEMMA SteppingClient ==
    ASSUME ServerInv, TypeOK', Keeps, NEW c \in Clients,
           Ends(c) \/ Acquires(c) \/ Leaving(c) \/ Leases(c) \/ Leased(c) \/ Calling(c)
             \/ (\E p \in BOOLEAN : Releases(c, p))
    PROVE  ClientAt(c)'
<1> USE DEF Attaching
<1>1. TypeOK /\ ClientAt(c) /\ (\A a \in Ids : AttachmentAt(a)) /\ HostInv
  BY DEF ServerInv
<1>2. \A a \in Ids : a # 0
  BY DEF Ids
<1>3. ASSUME Settle(c), queue[c] # <<>>, route'[c] # 0 => route'[c] \in Ids' /\ attachments'[route'[c]].client = c
                                                        /\ attachments'[route'[c]].listed
      PROVE  ClientAt(c)'
  <2>1. step'[c] = "idle" /\ current'[c] = 0 /\ found'[c] = 0 /\ mine'[c] = 0
    BY <1>1, <1>3, SettleEffect
  <2> QED BY <1>3, <2>1 DEF ClientAt
<1>4. route[c] # 0 => route[c] \in Ids' /\ attachments'[route[c]].client = c
  BY <1>1 DEF ClientAt, Keeps
<1>5. CASE Ends(c)
  BY <1>1, <1>3, <1>4, <1>5 DEF Ends, ClientAt
<1>6. CASE Acquires(c)
  <2>1. /\ step'[c] = "acquiring" /\ current'[c] = route[c] /\ mine'[c] = mine[c]
        /\ UNCHANGED <<queue, route, attachments, handles, hosted>>
    BY <1>1, <1>6, AwaitEffect DEF Acquires, TypeOK
  <2>2. queue[c] # <<>> /\ Head(queue[c]).op = "attach" /\ Head(queue[c]).session \in Sessions
    BY <1>1, <1>6, HeadIsOperation DEF Acquires, Starts
  <2>3. found'[c] # 0 => found'[c] \in HandleIds'
    <3>1. found'[c] = hosted[Head(queue[c]).session]
      BY <1>1, <1>6 DEF Acquires, TypeOK
    <3>2. hosted[Head(queue[c]).session] # 0 => hosted[Head(queue[c]).session] \in HandleIds
      BY <1>1, <2>2 DEF HostInv
    <3>3. HandleIds' = HandleIds
      BY <2>1 DEF HandleIds
    <3> QED BY <3>1, <3>2, <3>3
  <2>4. /\ \A a \in {route'[c], current'[c], mine'[c]} \ {0} : a \in Ids' /\ attachments'[a].client = c
        /\ route'[c] # 0 => attachments'[route'[c]].listed
    BY <1>1, <2>1 DEF ClientAt, Ids
  <2> QED BY <2>1, <2>2, <2>3, <2>4 DEF ClientAt
<1>7. CASE Leaving(c)
  <2>1. step'[c] = "leaving" /\ UNCHANGED <<queue, route, current, found, mine, handles>>
    BY <1>1, <1>7, AwaitEffect DEF Leaving
  <2>2. \A a \in Ids : Begun({current[c]}, FALSE, attachments[a], attachments'[a], a)
    BY <1>1, <1>7, BegunEffect DEF Leaving
  <2>3. current[c] \in Ids /\ current[c] # 0 /\ found[c] # 0 /\ attachments'[current[c]].release # "no"
    BY <1>1, <1>7, <2>2 DEF Leaving, ClientAt, Begun
  <2>4. route[c] # 0 => attachments'[route[c]].listed
    BY <1>1, <2>2 DEF ClientAt, Begun, SameBut
  <2>5. route[c] \in {0, current[c]} /\ queue[c] # <<>> /\ Head(queue[c]).op = "attach"
    BY <1>1, <1>7 DEF Leaving, ClientAt
  <2> QED BY <1>1, <2>1, <2>3, <2>4, <2>5 DEF ClientAt, Keeps
<1>8. CASE Leases(c)
  <2>1. step'[c] = "leasing" /\ UNCHANGED <<queue, route, current, found, handles>>
    BY <1>1, <1>8, AwaitEffect DEF Leases, Lease
  <2>2. /\ mine'[c] = Len(attachments) + 1 /\ mine'[c] \in Ids' /\ mine'[c] # 0
        /\ attachments'[mine'[c]].client = c
    <3>1. Len(attachments) \in Nat
      BY <1>1, Typed
    <3>2. Lease(c)
      BY <1>8 DEF Leases
    <3>3. /\ mine'[c] = Len(attachments) + 1 /\ Ids' = Ids \cup {Len(attachments) + 1}
          /\ attachments'[Len(attachments) + 1] = Attachment(c, found[c])
      BY <1>1, <3>2, LeaseEffect
    <3>4. Attachment(c, found[c]).client = c
      BY DEF Attachment
    <3> QED BY <3>1, <3>3, <3>4
  <2>3. route[c] = 0
    <3>1. CASE step[c] = "acquiring" /\ current[c] = 0
      BY <1>1, <3>1 DEF ClientAt
    <3>2. CASE step[c] = "leaving" /\ Released(current[c])
      <4>1. current[c] \in Ids /\ ~attachments[current[c]].listed
        BY <1>1, <3>2 DEF ClientAt, AttachmentAt
      <4> QED BY <1>1, <3>2, <4>1 DEF ClientAt
    <3> QED BY <1>8, <3>1, <3>2 DEF Leases
  <2>4. queue[c] # <<>> /\ Head(queue[c]).op = "attach"
    BY <1>1, <1>8 DEF Leases, ClientAt
  <2> QED BY <1>1, <2>1, <2>2, <2>3, <2>4 DEF ClientAt, Keeps
<1>9. ASSUME NEW p \in BOOLEAN, Releases(c, p) PROVE ClientAt(c)'
  <2>1. step'[c] = "releasing" /\ mine'[c] = route[c] /\ UNCHANGED <<queue, route, current, found, handles>>
    BY <1>1, <1>9, AwaitEffect DEF Releases, TypeOK
  <2>2. \A a \in Ids : Begun({route[c]}, p, attachments[a], attachments'[a], a)
    BY <1>1, <1>9, BegunEffect DEF Releases
  <2>3. PICK a \in Ids : a = route[c] /\ attachments[a].client = c /\ attachments[a].listed
    BY <1>1, <1>9 DEF Releases, ClientAt
  <2>4. attachments'[a].release # "no" /\ attachments'[a].listed
    BY <2>2, <2>3 DEF Begun, SameBut
  <2>5. ClientAt(c) /\ queue[c] # <<>> /\ a # 0
    BY <1>1, <1>2, <1>9 DEF Releases
  <2> QED BY <2>1, <2>3, <2>4, <2>5 DEF ClientAt, Keeps
<1>10. CASE Calling(c)
  <2>1. route[c] \in Ids /\ attachments[route[c]].listed
    BY <1>1, <1>10 DEF Calling, ClientAt
  <2>2. PICK a \in Ids, id \in Nat : a = route[c] /\ attachments' = [attachments EXCEPT ![a].calls = @ \cup {id}]
    BY <1>10, <2>1 DEF Calling
  <2>3. PICK ids \in SUBSET Nat : ids = attachments[a].calls \cup {id}
    <3>1. attachments[a] \in AttachmentRecord
      BY <1>1, Typed
    <3> QED BY <3>1 DEF AttachmentRecord
  <2>4. attachments'[a].listed
    BY <1>1, <2>1, <2>2, <2>3, CallsEffect
  <2> QED BY <1>1, <1>3, <1>4, <1>10, <2>2, <2>4 DEF Calling
<1>11. CASE Leased(c)
  <2>1. PICK a \in Ids : a = mine[c] /\ attachments[a].client = c
    BY <1>1, <1>11 DEF Leased, ClientAt
  <2>2. queue[c] # <<>> /\ route[c] = 0 /\ step[c] = "leasing"
    BY <1>1, <1>11 DEF Leased, ClientAt
  <2>3. CASE Settle(c) /\ UNCHANGED route
    BY <1>3, <2>2, <2>3
  <2>4. CASE attachments' = Releasing({a}, TRUE) /\ Await(c, "releasing") /\ UNCHANGED <<route, current, found, mine>>
    <3>1. step'[c] = "releasing" /\ UNCHANGED <<queue, route, current, found, mine>>
      BY <1>1, <2>4, AwaitEffect
    <3>2. attachments'[a].release # "no"
      <4>1. Begun({a}, TRUE, attachments[a], attachments'[a], a)
        BY <1>1, <2>4, BegunEffect
      <4> QED BY <4>1 DEF Begun
    <3>3. ClientAt(c) /\ a # 0
      BY <1>1, <1>2
    <3>4. /\ \A b \in {route'[c], current'[c], mine'[c]} \ {0} : b \in Ids' /\ attachments'[b].client = c
          /\ found'[c] # 0 => found'[c] \in HandleIds'
      BY <2>2, <3>1, <3>3 DEF ClientAt, Keeps
    <3> QED BY <2>1, <2>2, <3>1, <3>2, <3>3, <3>4 DEF ClientAt
  <2>5. CASE route' = [route EXCEPT ![c] = a] /\ Settle(c) /\ UNCHANGED attachments /\ attachments[a].listed
    <3>1. route'[c] = a /\ a \in Ids'
      BY <1>1, <2>5 DEF TypeOK, Ids
    <3> QED BY <1>3, <2>1, <2>2, <2>5, <3>1
  <2> QED BY <1>11, <2>1, <2>3, <2>4, <2>5 DEF Leased
<1> QED BY <1>5, <1>6, <1>7, <1>8, <1>9, <1>10, <1>11

\* Connections stay as ClientAt says.
LEMMA ClientsStep ==
    ASSUME ServerInv, TypeOK', Keeps, Effect, NEW c \in Clients
    PROVE  ClientAt(c)'
<1> USE DEF Locals, clientVars
<1>1. TypeOK /\ ClientAt(c) /\ (\A d \in Clients : ClientAt(d)) /\ (\A a \in Ids : AttachmentAt(a))
  BY DEF ServerInv
<1>2. SUFFICES ASSUME ~(Ends(c) \/ Acquires(c) \/ Leaving(c) \/ Leases(c) \/ Leased(c) \/ Calling(c)
                          \/ (\E p \in BOOLEAN : Releases(c, p)))
               PROVE  ClientAt(c)'
  BY SteppingClient
<1>3. CASE Appending \/ HandlesMove \/ Forgets
  <2>1. Undisturbed(c)
    BY <1>3 DEF Undisturbed, Appending, HandlesMove, Forgets
  <2> QED BY <1>1, <2>1, UndisturbedStays
<1>4. CASE ShutdownEnds
  <2>1. Undisturbed(c)
    BY <1>4 DEF Undisturbed, ShutdownEnds
  <2> QED BY <1>1, <2>1, UndisturbedStays
<1>5. CASE (\E as : Reclaims(as)) \/ (\E h \in HandleIds : Invalidate(h))
  <2>1. PICK as : attachments' = Releasing(as, TRUE)
    BY <1>5 DEF Reclaims, Invalidate
  <2>2. UNCHANGED <<step, current, found, mine, route, queue>>
    BY <1>5 DEF Reclaims, Invalidate
  <2>3. Undisturbed(c)
    BY <1>1, <2>1, <2>2, ReleasesDisturbNobody DEF Undisturbed
  <2> QED BY <1>1, <2>3, UndisturbedStays
<1>6. ASSUME NEW s \in Sessions, OpenFails(s) \/ (Opens(s) /\ closing) PROVE ClientAt(c)'
  <2>1. step'[c] = step[c] \/ (step[c] = "acquiring" /\ step'[c] = "unavailable")
    BY <1>6 DEF OpenFails, Opens, Joined, TypeOK
  <2>2. UNCHANGED <<current, found, mine, route, queue, attachments>>
    BY <1>6 DEF OpenFails, Opens
  <2>3. CASE step'[c] = step[c]
    <3>1. Undisturbed(c)
      BY <2>2, <2>3 DEF Undisturbed
    <3> QED BY <1>1, <3>1, UndisturbedStays
  <2>4. CASE step[c] = "acquiring" /\ step'[c] = "unavailable"
    BY <1>1, <2>2, <2>4 DEF ClientAt, Keeps, Attaching
  <2> QED BY <2>1, <2>3, <2>4
<1>7. ASSUME NEW s \in Sessions, Opens(s), ~closing PROVE ClientAt(c)'
  <2>1. UNCHANGED <<step, current, mine, route, queue, attachments>>
    BY <1>7 DEF Opens
  <2>2. found'[c] = found[c] \/ found'[c] = Len(handles')
    BY <1>7 DEF Opens
  <2>3. Len(handles') \in HandleIds' /\ Len(handles') # 0
    <3>1. Len(handles') \in Nat \ {0}
      BY <1>1, <1>7, NewHandle DEF Opens, HandleRecord
    <3> QED BY <3>1 DEF HandleIds
  <2>4. (found'[c] # 0 => found'[c] \in HandleIds') /\ (found[c] # 0 => found'[c] # 0)
    BY <1>1, <2>2, <2>3 DEF ClientAt, Keeps
  <2>5. /\ \A a \in {route'[c], current'[c], mine'[c]} \ {0} : a \in Ids' /\ attachments'[a].client = c
        /\ route'[c] # 0 => attachments'[route'[c]].listed
    BY <1>1, <2>1 DEF ClientAt, Keeps
  <2>6. /\ step'[c] = "leaving" => current'[c] # 0 /\ attachments'[current'[c]].release # "no" /\ found'[c] # 0
        /\ step'[c] = "releasing" => mine'[c] # 0 /\ attachments'[mine'[c]].release # "no"
    BY <1>1, <2>1, <2>4 DEF ClientAt
  <2>7. /\ step'[c] # "idle" => queue'[c] # <<>>
        /\ step'[c] \in Attaching => Head(queue'[c]).op = "attach"
        /\ step'[c] \in {"acquiring", "leaving"} => route'[c] \in {0, current'[c]}
        /\ step'[c] = "leasing" => mine'[c] # 0 /\ route'[c] = 0
    BY <1>1, <2>1 DEF ClientAt
  <2> QED BY <2>4, <2>5, <2>6, <2>7 DEF ClientAt
<1>8. ASSUME NEW a \in Ids, AttachmentStep(a) PROVE ClientAt(c)'
  <2>1. UNCHANGED <<step, current, found, mine, queue>>
    BY <1>8, <1>1, ClearEffect DEF AttachmentStep, ReleaseLease, Grant, CallSettles
  <2>2. CASE Clear(a)
    <3>1. /\ Only(a) /\ route'[c] = IF c = attachments[a].client /\ route[c] = a THEN 0 ELSE route[c]
          /\ attachments'[a].release # "no"
      BY <1>1, <2>2, ClearEffect
    <3>2. Undisturbed(c)
      BY <1>1, <2>1, <3>1 DEF Undisturbed, Only, Ids
    <3> QED BY <1>1, <3>2, UndisturbedStays
  <2>3. CASE ReleaseLease(a) \/ Grant(a)
    <3>1. /\ Only(a) /\ (attachments[a].release # "no" => attachments'[a].release # "no")
          /\ attachments'[a].listed = attachments[a].listed /\ UNCHANGED route
      BY <1>1, <2>3, ReleaseLeaseEffect, GrantEffect DEF ReleaseLease, Grant
    <3>2. Undisturbed(c)
      BY <2>1, <3>1 DEF Undisturbed, Only
    <3> QED BY <1>1, <3>2, UndisturbedStays
  <2>4. CASE CallSettles(a)
    <3>1. PICK id : attachments' = [attachments EXCEPT ![a].calls = @ \ {id}]
      BY <2>4 DEF CallSettles
    <3>2. PICK ids \in SUBSET Nat : ids = attachments[a].calls \ {id}
      <4>1. attachments[a] \in AttachmentRecord
        BY <1>1, Typed
      <4> QED BY <4>1 DEF AttachmentRecord
    <3>3. attachments' = [attachments EXCEPT ![a].calls = ids]
      BY <3>1, <3>2
    <3>4. Undisturbed(c)
      BY <1>1, <2>1, <2>4, <3>3, CallsEffect DEF CallSettles, Undisturbed, Only
    <3> QED BY <1>1, <3>4, UndisturbedStays
  <2> QED BY <1>8, <2>2, <2>3, <2>4 DEF AttachmentStep
<1>9. ASSUME NEW d \in Clients \ {c},
             Ends(d) \/ Acquires(d) \/ Leaving(d) \/ Leases(d) \/ Leased(d) \/ Calling(d)
               \/ (\E p \in BOOLEAN : Releases(d, p))
      PROVE  ClientAt(c)'
  <2>1. Undisturbed(c)
    BY <1>1, <1>9, OthersUndisturbed
  <2> QED BY <1>1, <2>1, UndisturbedStays
<1> QED BY <1>2, <1>3, <1>4, <1>5, <1>6, <1>7, <1>8, <1>9 DEF Effect

-----------------------------------------------------------------------------
(* Leases.                                                                 *)

\* The route of an attachment to a hosted handle.
Routed(a) == route[attachments[a].client] = a /\ hosted[SessionOf(a)] = attachments[a].handle
Broken(a) == handles[attachments[a].handle].state = "failed"

\* What a held lease hangs on stays, unless its release has begun.
HoldsOn(a) ==
    /\ Leasing(a) => Leasing(a)'
    /\ Broken(a) => Broken(a)'
    /\ Routed(a) => Routed(a)' \/ Broken(a)' \/ attachments'[a].release # "no"

\* An attachment whose lease and list do not change, and whose release at most begins.
Steady(a) ==
    /\ attachments'[a].listed = attachments[a].listed /\ attachments'[a].lease = attachments[a].lease
    /\ \/ attachments'[a].release = attachments[a].release
       \/ attachments[a].release = "no" /\ attachments'[a].release = "calls"

\* Such an attachment stays as AttachmentAt says.
LEMMA SteadyStays ==
    ASSUME TypeOK, Keeps, NEW a \in Ids, AttachmentAt(a), Steady(a), HoldsOn(a)
    PROVE  AttachmentAt(a)'
<1>1. attachments[a].handle \in HandleIds /\ attachments'[a].handle = attachments[a].handle
      /\ attachments'[a].handle \in HandleIds'
  BY DEF AttachmentAt, Keeps
<1>2. Released(a)' <=> Released(a)
  BY DEF Steady, Released
<1>3. attachments'[a].lease = "held" /\ attachments'[a].release = "no"
        => Leasing(a)' \/ Broken(a)' \/ Routed(a)'
  BY DEF Steady, HoldsOn, AttachmentAt, Routed, Broken
<1>4. attachments'[a].lease = "acquiring" => Leasing(a)'
  BY DEF Steady, HoldsOn, AttachmentAt
<1>5. /\ attachments'[a].release \in {"no", "calls"} => attachments'[a].lease # "released"
      /\ attachments'[a].release = "lease" => attachments'[a].lease = "released"
      /\ Released(a)' => ~attachments'[a].listed /\ attachments'[a].lease \in {"released", "refused"}
      /\ ~attachments'[a].listed => Released(a)' \/ attachments'[a].lease = "refused"
  BY <1>2 DEF Steady, AttachmentAt
<1> QED BY <1>1, <1>3, <1>4, <1>5 DEF AttachmentAt, Routed, Broken

\* A release that begins leaves an attachment steady.
LEMMA BegunSteady ==
    ASSUME TypeOK, NEW as, NEW p \in BOOLEAN, attachments' = Releasing(as, p), NEW a \in Ids
    PROVE  Steady(a) /\ (a \in as => attachments'[a].release # "no")
<1>1. Begun(as, p, attachments[a], attachments'[a], a)
  BY BegunEffect
<1> QED BY <1>1 DEF Begun, SameBut, Steady

\* What happens to handles and routes when no attachment changes.
LEMMA HoldsOnHosts ==
    ASSUME ServerInv, Keeps, NEW a \in Ids,
           Appending \/ HandlesMove \/ Forgets \/ ShutdownEnds \/ (\E s \in Sessions : Opens(s) \/ OpenFails(s))
    PROVE  AttachmentAt(a)'
<1> USE DEF Locals, closeVars
<1>1. TypeOK /\ AttachmentAt(a) /\ HostInv
  BY DEF ServerInv
<1>2. PICK h \in HandleIds : h = attachments[a].handle /\ h # 0 /\ handles[h] \in HandleRecord
  BY <1>1, Typed DEF AttachmentAt, HandleIds
<1>3. PICK s \in Sessions : s = handles[h].session
  BY <1>2 DEF HandleRecord
<1>4. UNCHANGED attachments
  BY DEF Appending, HandlesMove, Forgets, ShutdownEnds, Opens, OpenFails
<1>5. Steady(a) /\ handles'[h].session = s
  BY <1>3, <1>4 DEF Steady, Keeps
<1>6. CASE Appending
  <2>1. HoldsOn(a)
    BY <1>6 DEF Appending, HoldsOn, Leasing, Routed, Broken, SessionOf
  <2> QED BY <1>1, <1>5, <2>1, SteadyStays
<1>7. CASE HandlesMove
  <2>1. HoldsOn(a)
    BY <1>2, <1>3, <1>4, <1>5, <1>7 DEF HandlesMove, HoldsOn, Leasing, Routed, Broken, SessionOf
  <2> QED BY <1>1, <1>5, <2>1, SteadyStays
<1>8. CASE Forgets
  <2>1. ASSUME NEW g \in HandleIds, handles[g].state = "failed", hosted[handles[g].session] = g,
               hosted' = [hosted EXCEPT ![handles[g].session] = 0]
        PROVE  Routed(a) => Routed(a)' \/ Broken(a)'
    <3>1. CASE g = h
      BY <1>2, <1>4, <1>8, <2>1, <3>1 DEF Forgets, Broken
    <3>2. CASE g # h
      <4>1. hosted[s] = h => hosted'[s] = h
        BY <1>1, <1>3, <2>1, <3>2 DEF TypeOK
      <4> QED BY <1>2, <1>3, <1>4, <1>5, <1>8, <4>1 DEF Forgets, Routed, SessionOf
    <3> QED BY <3>1, <3>2
  <2>2. UNCHANGED hosted => (Routed(a) => Routed(a)')
    BY <1>8 DEF Forgets, Routed, SessionOf
  <2>3. HoldsOn(a)
    BY <1>8, <2>1, <2>2 DEF Forgets, HoldsOn, Leasing, Broken
  <2> QED BY <1>1, <1>5, <2>3, SteadyStays
<1>9. CASE ShutdownEnds
  <2>1. Routed(a) => Broken(a)
    <3>1. hosted[s] = h => HandleGone(h)
      BY <1>2, <1>9 DEF ShutdownEnds, Hosted
    <3> QED BY <1>2, <1>3, <3>1 DEF Routed, Broken, HandleGone, SessionOf
  <2>2. HoldsOn(a)
    BY <1>4, <1>9, <2>1 DEF ShutdownEnds, HoldsOn, Leasing, Broken
  <2> QED BY <1>1, <1>5, <2>2, SteadyStays
<1>10. ASSUME NEW t \in Sessions, OpenFails(t) \/ (Opens(t) /\ closing) PROVE AttachmentAt(a)'
  <2>1. /\ UNCHANGED <<mine, route, hosted>> /\ handles'[h] = handles[h]
        /\ \A c \in Clients : step[c] = "leasing" => step'[c] = "leasing"
    <3>1. \A c \in Clients : step[c] = "leasing" => step'[c] = "leasing"
      BY <1>10 DEF Opens, OpenFails, Joined
    <3>2. handles'[h] = handles[h]
      BY <1>1, <1>2, <1>10, NewHandle DEF Opens, OpenFails, HandleRecord
    <3> QED BY <1>10, <3>1, <3>2 DEF Opens, OpenFails
  <2>2. attachments[a].client \in Clients
    BY <1>1, Typed DEF AttachmentRecord
  <2>3. HoldsOn(a)
    BY <1>2, <1>4, <2>1, <2>2 DEF HoldsOn, Leasing, Routed, Broken, SessionOf
  <2> QED BY <1>1, <1>5, <2>3, SteadyStays
<1>11. ASSUME NEW t \in Sessions, Opens(t), ~closing PROVE AttachmentAt(a)'
  <2>1. UNCHANGED <<mine, step, route>> /\ handles'[h] = handles[h]
    <3>1. handles'[h] = handles[h]
      BY <1>1, <1>2, <1>11, NewHandle DEF Opens, HandleRecord
    <3> QED BY <1>11, <3>1 DEF Opens
  <2>2. hosted[s] = h => hosted'[s] = h
    <3>1. hosted[t] = 0
      BY <1>1, <1>11 DEF Opens, HostInv
    <3>2. hosted' = [hosted EXCEPT ![t] = Len(handles')] /\ hosted \in [Sessions -> Nat]
      BY <1>1, <1>11 DEF Opens, TypeOK
    <3> QED BY <1>2, <3>1, <3>2
  <2>3. HoldsOn(a)
    BY <1>2, <1>3, <1>4, <2>1, <2>2 DEF HoldsOn, Leasing, Routed, Broken, SessionOf
  <2> QED BY <1>1, <1>5, <2>3, SteadyStays
<1> QED BY <1>6, <1>7, <1>8, <1>9, <1>10, <1>11

\* When the attachments are not those of the connection that steps, or it was not leasing.
LEMMA HoldsOnClients ==
    ASSUME ServerInv, Keeps, NEW a \in Ids, UNCHANGED <<handles, hosted, route>>,
           Leasing(a) => Leasing(a)'
    PROVE  HoldsOn(a)
BY DEF HoldsOn, Keeps, Routed, Broken, SessionOf

\* Releases that somebody else begins.
LEMMA ReclaimsLease ==
    ASSUME ServerInv, Keeps, NEW a \in Ids,
           (\E as : Reclaims(as)) \/ (\E h \in HandleIds : Invalidate(h))
    PROVE  AttachmentAt(a)'
<1> USE DEF Locals, clientVars
<1>1. TypeOK /\ AttachmentAt(a) /\ HostInv
  BY DEF ServerInv
<1>2. ASSUME NEW as, Reclaims(as) PROVE AttachmentAt(a)'
  <2>1. Steady(a)
    BY <1>1, <1>2, BegunSteady DEF Reclaims
  <2>2. HoldsOn(a)
    BY <1>2, HoldsOnClients DEF Reclaims, Leasing, Keeps
  <2> QED BY <1>1, <2>1, <2>2, SteadyStays
<1>3. ASSUME NEW h \in HandleIds, Invalidate(h) PROVE AttachmentAt(a)'
  <2>1. attachments' = Releasing(Listed(h), TRUE) /\ UNCHANGED <<handles, route, step, mine>>
        /\ hosted' = [hosted EXCEPT ![handles[h].session] = 0]
    BY <1>3 DEF Invalidate
  <2>2. Steady(a) /\ (a \in Listed(h) => attachments'[a].release # "no")
    BY <1>1, <2>1, BegunSteady
  <2>3. PICK g \in HandleIds : g = attachments[a].handle /\ g # 0 /\ handles[g] \in HandleRecord
    BY <1>1, Typed DEF AttachmentAt, HandleIds
  <2>4. handles[g].session \in Sessions
    BY <2>3 DEF HandleRecord
  <2>5. Routed(a) => Routed(a)' \/ attachments'[a].release # "no"
    <3>1. CASE g = h
      <4>1. attachments[a].client \in Clients
        BY <1>1, Typed DEF AttachmentRecord
      <4>2. ClientAt(attachments[a].client)
        BY <4>1 DEF ServerInv
      <4>3. Routed(a) => attachments[a].listed
        <5>1. a # 0
          BY DEF Ids
        <5> QED BY <4>2, <5>1 DEF Routed, ClientAt
      <4> QED BY <2>2, <2>3, <3>1, <4>3 DEF Listed
    <3>2. CASE g # h
      <4>1. hosted[handles[g].session] = g => hosted'[handles[g].session] = g
        <5>1. hosted \in [Sessions -> Nat] /\ hosted[handles[h].session] = h
          BY <1>1, <1>3 DEF TypeOK, Invalidate
        <5> QED BY <2>1, <2>4, <3>2, <5>1
      <4> QED BY <2>1, <2>3, <4>1 DEF Routed, SessionOf, Keeps
    <3> QED BY <3>1, <3>2
  <2>6. HoldsOn(a)
    BY <2>1, <2>5 DEF HoldsOn, Leasing, Broken, Keeps
  <2> QED BY <1>1, <2>2, <2>6, SteadyStays
<1> QED BY <1>2, <1>3

\* The lease itself.
LEMMA LeaseStepKept ==
    ASSUME ServerInv, Keeps, NEW a \in Ids, NEW b \in Ids, AttachmentStep(b)
    PROVE  AttachmentAt(a)'
<1> USE DEF clientVars
<1>1. TypeOK /\ AttachmentAt(a) /\ HostInv
  BY DEF ServerInv
<1>2. UNCHANGED <<step, mine, handles, hosted>>
  BY <1>1, ClearEffect DEF AttachmentStep, ReleaseLease, Grant, CallSettles
<1>3. Leasing(a) <=> Leasing(a)'
  BY <1>2 DEF Leasing, Keeps
<1>4. attachments[a].handle \in HandleIds /\ attachments'[a].handle \in HandleIds'
  BY <1>1 DEF AttachmentAt, Keeps
<1>5. CASE ReleaseLease(b)
  <2>1. UNCHANGED route /\ Only(b)
    BY <1>1, <1>5, ReleaseLeaseEffect DEF ReleaseLease
  <2>2. HoldsOn(a)
    BY <1>2, <1>3, <2>1, HoldsOnClients
  <2>3. CASE a # b
    <3>1. Steady(a)
      BY <2>1, <2>3 DEF Only, Steady
    <3> QED BY <1>1, <2>2, <3>1, SteadyStays
  <2>4. CASE a = b
    <3>1. /\ attachments'[a].release = "lease" /\ attachments'[a].lease = "released"
          /\ attachments'[a].listed = attachments[a].listed
          /\ attachments[a].release = "calls" /\ attachments[a].lease = "held"
      BY <1>1, <1>5, <2>4, ReleaseLeaseEffect DEF CallsDone
    <3>2. ~Released(a)' /\ attachments'[a].listed
      BY <1>1, <3>1 DEF AttachmentAt, Released
    <3> QED BY <1>4, <3>1, <3>2 DEF AttachmentAt
  <2> QED BY <2>3, <2>4
<1>6. CASE Clear(b)
  <2>1. /\ Only(b)
        /\ \A c \in Clients : route'[c] = IF c = attachments[b].client /\ route[c] = b THEN 0 ELSE route[c]
    BY <1>1, <1>6, ClearEffect
  <2>2. CASE a # b
    <3>1. Steady(a)
      BY <2>1, <2>2 DEF Only, Steady
    <3>2. attachments[a].client \in Clients
      BY <1>1, Typed DEF AttachmentRecord
    <3>3. HoldsOn(a)
      BY <1>2, <1>3, <2>1, <2>2, <3>2 DEF HoldsOn, Routed, Broken, SessionOf, Keeps
    <3> QED BY <1>1, <3>1, <3>3, SteadyStays
  <2>3. CASE a = b
    <3>1. /\ attachments'[a].release \in {"done", "failed"} /\ ~attachments'[a].listed
          /\ attachments'[a].lease = attachments[a].lease
          /\ attachments[a].release = "lease" \/ attachments[a].lease = "refused"
      BY <1>1, <1>6, <2>3, ClearEffect
    <3>2. attachments'[a].lease \in {"released", "refused"} /\ Released(a)'
      BY <1>1, <3>1 DEF AttachmentAt, Released
    <3> QED BY <1>4, <3>1, <3>2 DEF AttachmentAt
  <2> QED BY <2>2, <2>3
<1>7. CASE Grant(b)
  <2>1. UNCHANGED route /\ Only(b)
    BY <1>1, <1>7, GrantEffect DEF Grant
  <2>2. CASE a # b
    <3>1. Steady(a)
      BY <2>1, <2>2 DEF Only, Steady
    <3> QED BY <1>1, <1>2, <1>3, <2>1, <3>1, HoldsOnClients, SteadyStays
  <2>3. CASE a = b
    <3>1. /\ attachments'[a].release = attachments[a].release /\ attachments'[a].listed = attachments[a].listed
          /\ attachments[a].lease = "acquiring" /\ attachments'[a].lease \in {"held", "refused"}
      BY <1>1, <1>7, <2>3, GrantEffect
    <3>2. Leasing(a)' /\ attachments[a].release \in {"no", "calls"} /\ attachments[a].listed
      <4>1. attachments[a].release \in {"no", "calls", "lease", "done", "failed"}
        BY <1>1, Typed DEF AttachmentRecord
      <4> QED BY <1>1, <1>3, <3>1, <4>1 DEF AttachmentAt, Released
    <3>3. ~Released(a)'
      BY <3>1, <3>2 DEF Released
    <3> QED BY <1>4, <3>1, <3>2, <3>3 DEF AttachmentAt
  <2> QED BY <2>2, <2>3
<1>8. CASE CallSettles(b)
  <2>1. PICK id : attachments' = [attachments EXCEPT ![b].calls = @ \ {id}]
    BY <1>8 DEF CallSettles
  <2>2. PICK ids \in SUBSET Nat : ids = attachments[b].calls \ {id}
    <3>1. attachments[b] \in AttachmentRecord
      BY <1>1, Typed
    <3> QED BY <3>1 DEF AttachmentRecord
  <2>3. attachments' = [attachments EXCEPT ![b].calls = ids]
    BY <2>1, <2>2
  <2>4. Steady(a)
    BY <1>1, <2>3, CallsEffect DEF Only, Steady
  <2>5. UNCHANGED route
    BY <1>8 DEF CallSettles
  <2> QED BY <1>1, <1>2, <1>3, <2>4, <2>5, HoldsOnClients, SteadyStays
<1> QED BY <1>5, <1>6, <1>7, <1>8 DEF AttachmentStep

\* A connection that is not leasing ends, waits or calls.
LEMMA ClientKeepsLease ==
    ASSUME ServerInv, Keeps, NEW a \in Ids, NEW c \in Clients,
           Ends(c) \/ Acquires(c) \/ Leaving(c) \/ Leases(c) \/ Calling(c) \/ (\E p \in BOOLEAN : Releases(c, p))
    PROVE  AttachmentAt(a)'
<1>1. TypeOK /\ AttachmentAt(a) /\ ClientAt(c)
  BY DEF ServerInv
<1>2. step[c] # "leasing" /\ UNCHANGED <<handles, hosted, route>>
  BY DEF Ends, Acquires, Leaving, Leases, Calling, Releases, Starts
<1>3. attachments[a].client \in Clients
  BY <1>1, Typed DEF AttachmentRecord
<1>4. Leasing(a) => Leasing(a)'
  <2>1. SUFFICES ASSUME attachments[a].client # c PROVE Leasing(a) => Leasing(a)'
    BY <1>2 DEF Leasing
  <2>2. Undisturbed(attachments[a].client)
    <3>1. PICK d \in Clients : d = attachments[a].client
      BY <1>3
    <3>2. Undisturbed(d)
      BY <1>1, <2>1, <3>1, OthersUndisturbed
    <3> QED BY <3>1, <3>2 DEF Undisturbed
  <2> QED BY <2>2 DEF Undisturbed, Leasing, Keeps
<1>5. Steady(a)
  <2>1. CASE Ends(c) \/ Acquires(c)
    BY <2>1 DEF Ends, Acquires, Steady
  <2>2. CASE Leaving(c) \/ (\E p \in BOOLEAN : Releases(c, p))
    BY <1>1, <2>2, BegunSteady DEF Leaving, Releases
  <2>3. CASE Leases(c)
    BY <1>1, <2>3, LeaseEffect DEF Leases, Steady
  <2>4. CASE Calling(c)
    <3>1. PICK b \in Ids, id \in Nat : attachments' = [attachments EXCEPT ![b].calls = @ \cup {id}]
      <4>1. route[c] \in Ids
        BY <1>1, <2>4 DEF Calling, ClientAt
      <4> QED BY <2>4, <4>1 DEF Calling
    <3>2. PICK ids \in SUBSET Nat : ids = attachments[b].calls \cup {id}
      <4>1. attachments[b] \in AttachmentRecord
        BY <1>1, Typed
      <4> QED BY <4>1 DEF AttachmentRecord
    <3> QED BY <1>1, <3>1, <3>2, CallsEffect DEF Only, Steady
  <2> QED BY <2>1, <2>2, <2>3, <2>4
<1> QED BY <1>1, <1>2, <1>4, <1>5, HoldsOnClients, SteadyStays

\* The attach whose lease was answered.
LEMMA LeasedKeepsLease ==
    ASSUME ServerInv, Keeps, NEW a \in Ids, NEW c \in Clients, Leased(c)
    PROVE  AttachmentAt(a)'
<1>1. TypeOK /\ AttachmentAt(a) /\ ClientAt(c)
  BY DEF ServerInv
<1>2. PICK m \in Ids : m = mine[c] /\ attachments[m].client = c /\ m # 0
  BY <1>1 DEF Leased, ClientAt
<1>3. queue[c] # <<>> /\ route[c] = 0 /\ step[c] = "leasing" /\ attachments[m].lease # "acquiring"
      /\ UNCHANGED <<handles, hosted>>
  BY <1>1, <1>2 DEF Leased, ClientAt
<1>4. attachments[a].client \in Clients
  BY <1>1, Typed DEF AttachmentRecord
<1>5. ASSUME attachments[a].client # c
      PROVE  Leasing(a) => Leasing(a)'
  <2>1. PICK d \in Clients : d = attachments[a].client
    BY <1>4
  <2>2. Undisturbed(d)
    BY <1>1, <1>5, <2>1, OthersUndisturbed
  <2> QED BY <2>1, <2>2 DEF Undisturbed, Leasing, Keeps
<1>6. ASSUME attachments[a].client = c, a # m
      PROVE  ~Leasing(a) /\ attachments[a].lease # "acquiring" /\ ~Routed(a)
  <2>1. ~Leasing(a) /\ ~Routed(a)
    <3>1. a # 0
      BY DEF Ids
    <3> QED BY <1>2, <1>3, <1>6, <3>1 DEF Leasing, Routed
  <2> QED BY <1>1, <2>1 DEF AttachmentAt
<1>7. CASE attachments' = [attachments EXCEPT ![m].listed = FALSE] /\ attachments[m].lease = "refused"
           /\ UNCHANGED route
  <2>1. CASE a = m
    <3>1. /\ attachments'[a].listed = FALSE /\ attachments'[a].lease = "refused"
          /\ attachments'[a].release = attachments[a].release
      BY <1>1, <1>7, <2>1, UnlistedEffect
    <3>2. attachments'[a].handle \in HandleIds'
      BY <1>1 DEF AttachmentAt, Keeps
    <3>3. Released(a)' <=> Released(a)
      BY <3>1 DEF Released
    <3> QED BY <1>1, <1>7, <2>1, <3>1, <3>2, <3>3 DEF AttachmentAt
  <2>2. CASE a # m
    <3>1. Steady(a)
      BY <1>1, <1>7, <2>2, UnlistedEffect DEF Only, Steady
    <3>2. Leasing(a) => Leasing(a)'
      BY <1>5, <1>6, <2>2
    <3> QED BY <1>1, <1>3, <1>7, <3>1, <3>2, HoldsOnClients, SteadyStays
  <2> QED BY <2>1, <2>2
<1>8. CASE attachments' = Releasing({m}, TRUE) /\ Await(c, "releasing") /\ UNCHANGED <<route, mine>>
  <2>1. Steady(a) /\ (a = m => attachments'[a].release # "no")
    BY <1>1, <1>8, BegunSteady
  <2>2. CASE a # m
    <3>1. Leasing(a) => Leasing(a)'
      BY <1>5, <1>6, <2>2
    <3> QED BY <1>1, <1>3, <1>8, <2>1, <3>1, HoldsOnClients, SteadyStays
  <2>3. CASE a = m
    <3>1. /\ attachments'[a].listed = attachments[a].listed /\ attachments'[a].lease = attachments[a].lease
          /\ attachments'[a].release # "no" /\ attachments'[a].lease # "acquiring"
      BY <1>3, <2>1, <2>3 DEF Steady
    <3>2. Released(a)' <=> Released(a)
      BY <2>1 DEF Steady, Released
    <3>3. attachments'[a].handle \in HandleIds'
      BY <1>1 DEF AttachmentAt, Keeps
    <3>4. attachments'[a].release = attachments[a].release
          \/ (attachments[a].release = "no" /\ attachments'[a].release = "calls")
      BY <2>1 DEF Steady
    <3> QED BY <1>1, <3>1, <3>2, <3>3, <3>4 DEF AttachmentAt
  <2> QED BY <2>2, <2>3
<1>9. CASE /\ route' = [route EXCEPT ![c] = m] /\ UNCHANGED attachments
           /\ hosted[handles[attachments[m].handle].session] = attachments[m].handle
  <2>1. \A d \in Clients : route'[d] = IF d = c THEN m ELSE route[d]
    BY <1>9 DEF TypeOK, ServerInv
  <2>2. Steady(a)
    BY <1>9 DEF Steady
  <2>3. CASE a # m
    <3>1. Leasing(a) => Leasing(a)'
      BY <1>5, <1>6, <2>3
    <3>2. Routed(a) => Routed(a)'
      BY <1>3, <1>4, <1>6, <1>9, <2>1, <2>3 DEF Routed, SessionOf
    <3>3. HoldsOn(a)
      BY <1>3, <1>9, <3>1, <3>2 DEF HoldsOn, Broken
    <3> QED BY <1>1, <2>2, <3>3, SteadyStays
  <2>4. CASE a = m
    <3>1. Routed(a)' /\ attachments'[a].lease # "acquiring" /\ attachments'[a] = attachments[a]
      BY <1>2, <1>3, <1>9, <2>1, <2>4 DEF Routed, SessionOf
    <3>2. attachments'[a].handle \in HandleIds'
      BY <1>1 DEF AttachmentAt, Keeps
    <3>3. Released(a)' <=> Released(a)
      BY <3>1 DEF Released
    <3> QED BY <1>1, <3>1, <3>2, <3>3 DEF AttachmentAt, Routed
  <2> QED BY <2>3, <2>4
<1> QED BY <1>2, <1>7, <1>8, <1>9 DEF Leased

\* A new attachment waits for its lease.
LEMMA NewLease ==
    ASSUME ServerInv, TypeOK', Keeps, NEW c \in Clients, Leases(c), NEW n, n = Len(attachments) + 1
    PROVE  AttachmentAt(n)'
<1>1. TypeOK /\ ClientAt(c) /\ Lease(c)
  BY DEF ServerInv, Leases
<1>2. n \in Nat
  BY <1>1, Typed
<1>3. /\ attachments'[n] = Attachment(c, found[c]) /\ mine'[c] = n /\ step'[c] = "leasing"
  BY <1>1, <1>2, LeaseEffect, AwaitEffect DEF Lease, Attaching
<1>4. found[c] \in HandleIds /\ HandleIds' = HandleIds
  BY <1>1 DEF Leases, ClientAt, HandleIds
<1>5. /\ attachments'[n].client = c /\ attachments'[n].handle = found[c] /\ attachments'[n].listed
      /\ attachments'[n].lease = "acquiring" /\ attachments'[n].release = "no"
  BY <1>3 DEF Attachment
<1> QED BY <1>3, <1>4, <1>5 DEF AttachmentAt, Leasing, Released

\* Only an attach that asks for a lease makes an attachment.
LEMMA OnlyLeaseMakes ==
    ASSUME ServerInv, Effect
    PROVE  \/ Ids' = Ids
           \/ \E c \in Clients : Leases(c) /\ Ids' = Ids \cup {Len(attachments) + 1}
<1>1. TypeOK /\ \A c \in Clients : ClientAt(c)
  BY DEF ServerInv
<1>2. ASSUME UNCHANGED attachments PROVE Ids' = Ids
  BY <1>2 DEF Ids
<1>3. ASSUME NEW as, NEW p \in BOOLEAN, attachments' = Releasing(as, p) PROVE Ids' = Ids
  BY <1>1, <1>3, BegunEffect
<1>4. ASSUME NEW a \in Ids, AttachmentStep(a) PROVE Ids' = Ids
  <2>1. ASSUME CallSettles(a) PROVE Ids' = Ids
    <3>1. PICK id : attachments' = [attachments EXCEPT ![a].calls = @ \ {id}]
      BY <2>1 DEF CallSettles
    <3>2. PICK ids \in SUBSET Nat : ids = attachments[a].calls \ {id}
      <4>1. attachments[a] \in AttachmentRecord
        BY <1>1, Typed
      <4> QED BY <4>1 DEF AttachmentRecord
    <3>3. attachments' = [attachments EXCEPT ![a].calls = ids]
      BY <3>1, <3>2
    <3> QED BY <1>1, <3>3, CallsEffect DEF Only
  <2> QED BY <1>1, <1>4, <2>1, ReleaseLeaseEffect, ClearEffect, GrantEffect DEF AttachmentStep, Only
<1>5. ASSUME NEW c \in Clients, Calling(c) PROVE Ids' = Ids
  <2>1. PICK b \in Ids, id \in Nat : attachments' = [attachments EXCEPT ![b].calls = @ \cup {id}]
    <3>1. route[c] \in Ids
      BY <1>1, <1>5 DEF Calling, ClientAt
    <3> QED BY <1>5, <3>1 DEF Calling
  <2>2. PICK ids \in SUBSET Nat : ids = attachments[b].calls \cup {id}
    <3>1. attachments[b] \in AttachmentRecord
      BY <1>1, Typed
    <3> QED BY <3>1 DEF AttachmentRecord
  <2> QED BY <1>1, <2>1, <2>2, CallsEffect DEF Only
<1>6. ASSUME NEW c \in Clients, Leased(c) PROVE Ids' = Ids
  <2>1. PICK m \in Ids : m = mine[c]
    BY <1>1, <1>6 DEF Leased, ClientAt
  <2>2. CASE attachments' = [attachments EXCEPT ![m].listed = FALSE]
    BY <1>1, <2>2, UnlistedEffect DEF Only
  <2> QED BY <1>2, <1>3, <1>6, <2>1, <2>2 DEF Leased
<1>7. ASSUME NEW c \in Clients, Leases(c) PROVE Ids' = Ids \cup {Len(attachments) + 1}
  BY <1>1, <1>7, LeaseEffect DEF Leases
<1>8. ASSUME NEW c \in Clients, Ends(c) \/ Acquires(c) \/ Leaving(c) \/ (\E p \in BOOLEAN : Releases(c, p))
      PROVE  Ids' = Ids
  BY <1>2, <1>3, <1>8 DEF Ends, Acquires, Leaving, Releases
<1>9. ASSUME \/ Appending \/ HandlesMove \/ Forgets \/ ShutdownEnds
             \/ (\E as : Reclaims(as)) \/ (\E h \in HandleIds : Invalidate(h))
             \/ (\E s \in Sessions : Opens(s) \/ OpenFails(s))
      PROVE  Ids' = Ids
  BY <1>2, <1>3, <1>9 DEF Appending, HandlesMove, Forgets, ShutdownEnds, Reclaims, Invalidate, Opens, OpenFails
<1> QED BY <1>4, <1>5, <1>6, <1>7, <1>8, <1>9 DEF Effect

\* Attachments stay as AttachmentAt says.
LEMMA AttachmentsStep ==
    ASSUME ServerInv, TypeOK', Keeps, Effect
    PROVE  \A a \in Ids' : AttachmentAt(a)'
<1>1. ASSUME NEW a \in Ids PROVE AttachmentAt(a)'
  BY HoldsOnHosts, ReclaimsLease, LeaseStepKept, ClientKeepsLease, LeasedKeepsLease DEF Effect
<1>2. CASE Ids' = Ids
  BY <1>1, <1>2
<1>3. ASSUME NEW c \in Clients, Leases(c), Ids' = Ids \cup {Len(attachments) + 1}
      PROVE  \A a \in Ids' : AttachmentAt(a)'
  <2>1. PICK n : n = Len(attachments) + 1
    OBVIOUS
  <2>2. AttachmentAt(n)'
    BY <1>3, <2>1, NewLease
  <2> QED BY <1>1, <1>3, <2>1, <2>2
<1> QED BY <1>2, <1>3, OnlyLeaseMakes

-----------------------------------------------------------------------------
(* Calls.                                                                  *)

\* The operation that waits for a release waits until it has ended.
OwnKeeps(a) == OwnWaits(a) /\ ~Released(a) => OwnWaits(a)'

\* Of the release nothing changes, and calls at most settle; or the release begins.
CallsSteady(a) ==
    /\ attachments'[a].calls \subseteq attachments[a].calls
    /\ attachments'[a].release = attachments[a].release /\ attachments'[a].publish = attachments[a].publish
    /\ attachments'[a].awaits = attachments[a].awaits

\* Such an attachment keeps the calls its own connection waits for.
LEMMA OwnCallsStay ==
    ASSUME NEW a \in Ids, OwnCallsAt(a), CallsSteady(a), OwnKeeps(a)
    PROVE  OwnCallsAt(a)'
<1>1. Released(a)' <=> Released(a)
  BY DEF CallsSteady, Released
<1>2. Unused(a)' <=> Unused(a)
  BY DEF CallsSteady, Unused
<1> QED BY <1>1, <1>2 DEF CallsSteady, OwnCallsAt, OwnKeeps

\* A release that begins is published, or its own connection waits for it.
LEMMA OwnCallsBegun ==
    ASSUME TypeOK, NEW as, NEW p \in BOOLEAN, attachments' = Releasing(as, p),
           NEW a \in Ids, OwnCallsAt(a), OwnKeeps(a), p \/ (a \in as => OwnWaits(a)')
    PROVE  OwnCallsAt(a)'
<1>1. Begun(as, p, attachments[a], attachments'[a], a)
  BY BegunEffect
<1>2. CASE a \in as /\ attachments[a].release = "no"
  <2>1. /\ attachments'[a].release = "calls" /\ attachments'[a].publish = p
        /\ attachments'[a].awaits = attachments[a].calls /\ attachments'[a].calls = attachments[a].calls
    BY <1>1, <1>2 DEF Begun, SameBut
  <2> QED BY <1>2, <2>1 DEF OwnCallsAt, Unused
<1>3. CASE ~(a \in as /\ attachments[a].release = "no")
  <2>1. CallsSteady(a)
    BY <1>1, <1>3 DEF Begun, SameBut, CallsSteady
  <2> QED BY <2>1, OwnCallsStay
<1> QED BY <1>2, <1>3

\* Handles, openings and releases that others begin.
LEMMA OwnCallsHosts ==
    ASSUME ServerInv, Keeps, NEW a \in Ids,
           \/ Appending \/ HandlesMove \/ Forgets \/ ShutdownEnds \/ (\E s \in Sessions : Opens(s) \/ OpenFails(s))
           \/ (\E as : Reclaims(as)) \/ (\E h \in HandleIds : Invalidate(h))
    PROVE  OwnCallsAt(a)'
<1> USE DEF Locals, clientVars
<1>1. TypeOK /\ OwnCallsAt(a) /\ attachments[a].client \in Clients /\ attachments'[a].client = attachments[a].client
  BY Typed DEF ServerInv, AttachmentRecord, Keeps
<1>2. UNCHANGED <<current, mine>>
  BY DEF Appending, HandlesMove, Forgets, ShutdownEnds, Opens, OpenFails, Reclaims, Invalidate
<1>3. \A c \in Clients : step[c] \in {"leaving", "releasing"} => step'[c] = step[c]
  BY DEF Appending, HandlesMove, Forgets, ShutdownEnds, Opens, OpenFails, Reclaims, Invalidate, Joined
<1>4. OwnKeeps(a)
  BY <1>1, <1>2, <1>3 DEF OwnKeeps, OwnWaits
<1>5. CASE UNCHANGED attachments
  <2>1. CallsSteady(a)
    BY <1>5 DEF CallsSteady
  <2> QED BY <1>1, <1>4, <2>1, OwnCallsStay
<1>6. ASSUME NEW as, attachments' = Releasing(as, TRUE) PROVE OwnCallsAt(a)'
  BY <1>1, <1>4, <1>6, OwnCallsBegun
<1> QED BY <1>5, <1>6 DEF Appending, HandlesMove, Forgets, ShutdownEnds, Opens, OpenFails, Reclaims, Invalidate

\* A lease that goes back, and an attachment that is cleared.
LEMMA OwnCallsLease ==
    ASSUME ServerInv, Keeps, NEW a \in Ids, NEW b \in Ids, AttachmentStep(b)
    PROVE  OwnCallsAt(a)'
<1> USE DEF clientVars
<1>1. TypeOK /\ OwnCallsAt(a)
  BY DEF ServerInv
<1>2. UNCHANGED <<step, current, mine>>
  BY <1>1, ClearEffect DEF AttachmentStep, ReleaseLease, Grant, CallSettles
<1>3. OwnKeeps(a) /\ (OwnWaits(a) <=> OwnWaits(a)')
  BY <1>2 DEF OwnKeeps, OwnWaits, Keeps
<1>4. CASE a # b
  <2>1. attachments'[a] = attachments[a]
    <3>1. ASSUME CallSettles(b) PROVE attachments'[a] = attachments[a]
      <4>1. PICK id : attachments' = [attachments EXCEPT ![b].calls = @ \ {id}]
        BY <3>1 DEF CallSettles
      <4> QED BY <1>1, <1>4, <4>1 DEF TypeOK, Ids
    <3>2. ASSUME ~CallSettles(b) PROVE Only(b)
      BY <1>1, <3>2, ReleaseLeaseEffect, ClearEffect, GrantEffect DEF AttachmentStep
    <3> QED BY <1>4, <3>1, <3>2 DEF Only
  <2>2. CallsSteady(a)
    BY <2>1 DEF CallsSteady
  <2> QED BY <1>1, <1>3, <2>2, OwnCallsStay
<1>5. CASE a = b /\ ReleaseLease(a)
  <2>1. /\ attachments'[a].calls = attachments[a].calls /\ attachments'[a].publish = attachments[a].publish
        /\ attachments'[a].release = "lease" /\ attachments[a].release = "calls"
        /\ attachments[a].awaits \cap attachments[a].calls = {}
    BY <1>1, <1>5, ReleaseLeaseEffect DEF CallsDone
  <2>2. ~attachments[a].publish => attachments'[a].calls = {} /\ OwnWaits(a)'
    BY <1>1, <1>3, <2>1 DEF OwnCallsAt, Released
  <2> QED BY <2>1, <2>2 DEF OwnCallsAt, Unused
<1>6. CASE a = b /\ Clear(a)
  <2>1. /\ attachments'[a].calls = attachments[a].calls /\ attachments'[a].publish = attachments[a].publish
        /\ attachments'[a].release \in {"done", "failed"}
        /\ \/ attachments[a].release = "lease"
           \/ attachments[a].release = "calls" /\ attachments[a].awaits \cap attachments[a].calls = {}
    BY <1>1, <1>6, ClearEffect DEF CallsDone
  <2>2. ~attachments[a].publish => attachments'[a].calls = {}
    BY <1>1, <2>1 DEF OwnCallsAt, Unused
  <2> QED BY <2>1, <2>2 DEF OwnCallsAt, Released
<1>7. CASE a = b /\ Grant(a)
  <2>1. CallsSteady(a)
    BY <1>1, <1>7, GrantEffect DEF CallsSteady
  <2> QED BY <1>1, <1>3, <2>1, OwnCallsStay
<1>8. CASE a = b /\ CallSettles(a)
  <2>1. PICK id : attachments' = [attachments EXCEPT ![a].calls = @ \ {id}]
    BY <1>8 DEF CallSettles
  <2>2. PICK ids \in SUBSET Nat : ids = attachments[a].calls \ {id}
    <3>1. attachments[a] \in AttachmentRecord
      BY <1>1, Typed
    <3> QED BY <3>1 DEF AttachmentRecord
  <2>3. attachments' = [attachments EXCEPT ![a].calls = ids]
    BY <2>1, <2>2
  <2>4. CallsSteady(a)
    BY <1>1, <2>2, <2>3, CallsEffect DEF CallsSteady
  <2> QED BY <1>1, <1>3, <2>4, OwnCallsStay
<1> QED BY <1>4, <1>5, <1>6, <1>7, <1>8 DEF AttachmentStep

\* The steps of a connection: while it is idle, acquires or leases, none of its releases is waited for.
LEMMA OwnCallsClient ==
    ASSUME ServerInv, Keeps, NEW a \in Ids, NEW c \in Clients,
           Ends(c) \/ Acquires(c) \/ Leaving(c) \/ Leases(c) \/ Leased(c) \/ Calling(c)
             \/ (\E p \in BOOLEAN : Releases(c, p))
    PROVE  OwnCallsAt(a)'
<1>1. TypeOK /\ OwnCallsAt(a) /\ ClientAt(c) /\ AttachmentAt(a)
  BY DEF ServerInv
<1>2. attachments[a].client \in Clients /\ attachments'[a].client = attachments[a].client
  BY <1>1, Typed DEF AttachmentRecord, Keeps
<1>3. OwnKeeps(a)
  <2>1. CASE attachments[a].client # c
    <3>1. PICK d \in Clients : d = attachments[a].client
      BY <1>2
    <3>2. Undisturbed(d)
      BY <1>1, <2>1, <3>1, OthersUndisturbed
    <3> QED BY <1>2, <3>1, <3>2 DEF Undisturbed, OwnKeeps, OwnWaits
  <2>2. CASE attachments[a].client = c
    BY <2>2 DEF OwnKeeps, OwnWaits, Ends, Acquires, Leaving, Leases, Leased, Calling, Releases, Starts
  <2> QED BY <2>1, <2>2
<1>4. CASE Ends(c) \/ Acquires(c)
  <2>1. CallsSteady(a)
    BY <1>4 DEF Ends, Acquires, CallsSteady
  <2> QED BY <1>1, <1>3, <2>1, OwnCallsStay
<1>5. CASE Leases(c)
  <2>1. CallsSteady(a)
    BY <1>1, <1>5, LeaseEffect DEF Leases, CallsSteady
  <2> QED BY <1>1, <1>3, <2>1, OwnCallsStay
<1>6. CASE Leaving(c)
  <2>1. step'[c] = "leaving" /\ UNCHANGED current
    BY <1>1, <1>6, AwaitEffect DEF Leaving, Attaching
  <2>2. attachments[current[c]].client = c
    BY <1>1, <1>6 DEF Leaving, ClientAt
  <2>3. a \in {current[c]} => OwnWaits(a)'
    BY <1>2, <2>1, <2>2 DEF OwnWaits
  <2> QED BY <1>1, <1>3, <1>6, <2>3, OwnCallsBegun DEF Leaving
<1>7. ASSUME NEW p \in BOOLEAN, Releases(c, p) PROVE OwnCallsAt(a)'
  <2>1. step'[c] = "releasing" /\ mine'[c] = route[c]
    BY <1>1, <1>7, AwaitEffect DEF Releases, TypeOK
  <2>2. attachments[route[c]].client = c
    BY <1>1, <1>7 DEF Releases, ClientAt
  <2>3. a \in {route[c]} => OwnWaits(a)'
    BY <1>2, <2>1, <2>2 DEF OwnWaits
  <2> QED BY <1>1, <1>3, <1>7, <2>3, OwnCallsBegun DEF Releases
<1>8. CASE Leased(c)
  <2>1. PICK m \in Ids : m = mine[c]
    BY <1>1, <1>8 DEF Leased, ClientAt
  <2>2. CASE attachments' = [attachments EXCEPT ![m].listed = FALSE]
    <3>1. CallsSteady(a)
      BY <1>1, <2>2, UnlistedEffect DEF Only, CallsSteady
    <3> QED BY <1>1, <1>3, <3>1, OwnCallsStay
  <2>3. CASE attachments' = Releasing({m}, TRUE)
    BY <1>1, <1>3, <2>3, OwnCallsBegun
  <2>4. CASE UNCHANGED attachments
    <3>1. CallsSteady(a)
      BY <2>4 DEF CallsSteady
    <3> QED BY <1>1, <1>3, <3>1, OwnCallsStay
  <2> QED BY <1>8, <2>1, <2>2, <2>3, <2>4 DEF Leased
<1>9. CASE Calling(c)
  <2>1. PICK b \in Ids, id \in Nat : b = route[c] /\ attachments' = [attachments EXCEPT ![b].calls = @ \cup {id}]
    <3>1. route[c] \in Ids
      BY <1>1, <1>9 DEF Calling, ClientAt
    <3> QED BY <1>9, <3>1 DEF Calling
  <2>2. PICK ids \in SUBSET Nat : ids = attachments[b].calls \cup {id}
    <3>1. attachments[b] \in AttachmentRecord
      BY <1>1, Typed
    <3> QED BY <3>1 DEF AttachmentRecord
  <2>3. attachments' = [attachments EXCEPT ![b].calls = ids]
    BY <2>1, <2>2
  <2>4. CASE a # b
    <3>1. CallsSteady(a)
      BY <1>1, <2>3, <2>4, CallsEffect DEF Only, CallsSteady
    <3> QED BY <1>1, <1>3, <3>1, OwnCallsStay
  <2>5. CASE a = b
    <3>1. attachments[a].listed /\ attachments[a].client = c /\ step[c] = "idle"
      BY <1>1, <1>9, <2>1, <2>5 DEF Calling, ClientAt
    <3>2. ~Released(a) /\ ~OwnWaits(a)
      BY <1>1, <3>1 DEF AttachmentAt, OwnWaits
    <3>3. attachments[a].publish
      BY <1>1, <3>2 DEF OwnCallsAt
    <3>4. attachments'[a].publish = attachments[a].publish
      BY <1>1, <2>3, <2>5, CallsEffect
    <3> QED BY <3>3, <3>4 DEF OwnCallsAt
  <2> QED BY <2>4, <2>5
<1> QED BY <1>4, <1>5, <1>6, <1>7, <1>8, <1>9

\* Every attachment keeps the calls its own connection waits for; a new one has none.
LEMMA OwnCallsStep ==
    ASSUME ServerInv, TypeOK', Keeps, Effect
    PROVE  \A a \in Ids' : OwnCallsAt(a)'
<1>1. ASSUME NEW a \in Ids PROVE OwnCallsAt(a)'
  BY OwnCallsHosts, OwnCallsLease, OwnCallsClient DEF Effect
<1>2. CASE Ids' = Ids
  BY <1>1, <1>2
<1>3. ASSUME NEW c \in Clients, Leases(c), Ids' = Ids \cup {Len(attachments) + 1}
      PROVE  \A a \in Ids' : OwnCallsAt(a)'
  <2>1. PICK n : n = Len(attachments) + 1
    OBVIOUS
  <2>2. attachments'[n] = Attachment(c, found[c])
    BY <1>3, <2>1, LeaseEffect DEF Leases, ServerInv
  <2>3. attachments'[n].publish
    BY <2>2 DEF Attachment
  <2>4. OwnCallsAt(n)'
    BY <2>3 DEF OwnCallsAt
  <2> QED BY <1>1, <1>3, <2>1, <2>4
<1> QED BY <1>2, <1>3, OnlyLeaseMakes

-----------------------------------------------------------------------------
(* Handles.                                                                *)

\* Nothing but queues, attachments and routes: whoever waits for an opening still does.
LEMMA HostsUntouched ==
    ASSUME HostInv, UNCHANGED <<handles, hosted>>, opening' \subseteq opening,
           \A s \in opening' : Joined(s) \subseteq Joined(s)'
    PROVE  HostInv'
<1>1. HandleIds' = HandleIds
  BY DEF HandleIds
<1>2. \A s \in opening' : hosted'[s] = 0 /\ Joined(s)' # {}
  BY DEF HostInv
<1> QED BY <1>1, <1>2 DEF HostInv

\* A connection that waits for an opening is not the one that steps.
LEMMA JoinedWaits ==
    ASSUME ServerInv, NEW c \in Clients,
           Ends(c) \/ Acquires(c) \/ Leaving(c) \/ Leases(c) \/ Leased(c) \/ Calling(c)
             \/ (\E p \in BOOLEAN : Releases(c, p)),
           NEW s
    PROVE  Joined(s) \subseteq Joined(s)'
<1>1. TypeOK /\ \A d \in Clients : ClientAt(d)
  BY DEF ServerInv
<1>2. ASSUME NEW d \in Joined(s) PROVE d \in Joined(s)'
  <2>1. d \in Clients /\ step[d] = "acquiring" /\ found[d] = 0 /\ Head(queue[d]).session = s
    BY DEF Joined
  <2>2. d # c
    BY <2>1 DEF Ends, Acquires, Starts, Leaving, Leases, Leased, Calling, Releases
  <2>3. Undisturbed(d) /\ queue[d] # <<>>
    BY <1>1, <2>1, <2>2, OthersUndisturbed DEF ClientAt
  <2> QED BY <2>1, <2>3 DEF Undisturbed, Joined
<1> QED BY <1>2

\* A Session's handle is dropped when it may not close any more.
LEMMA HostDropped ==
    ASSUME TypeOK, HostInv, NEW h \in HandleIds, handles[h].state \notin {"open", "closing"},
           hosted[handles[h].session] = h, hosted' = [hosted EXCEPT ![handles[h].session] = 0],
           UNCHANGED <<handles, opening, step, found, queue>>
    PROVE  HostInv'
<1>1. PICK t \in Sessions : t = handles[h].session
  BY Typed DEF HandleRecord
<1>2. \A s \in Sessions : hosted'[s] = IF s = t THEN 0 ELSE hosted[s]
  BY <1>1 DEF TypeOK
<1>3. ASSUME NEW g \in HandleIds, handles[g].state \in {"open", "closing"} PROVE hosted'[handles[g].session] = g
  <2>1. handles[g].session \in Sessions
    BY Typed DEF HandleRecord
  <2>2. hosted[handles[g].session] = g /\ g # h
    BY <1>3 DEF HostInv
  <2> QED BY <1>1, <1>2, <2>1, <2>2
<1>4. HandleIds' = HandleIds /\ \A s : Joined(s)' = Joined(s)
  BY DEF HandleIds, Joined
<1>5. \A s \in Sessions : hosted'[s] # 0 => hosted'[s] \in HandleIds /\ handles[hosted'[s]].session = s
  BY <1>2 DEF HostInv
<1>6. \A s \in opening : hosted'[s] = 0 /\ Joined(s) # {}
  BY <1>2 DEF HostInv, TypeOK
<1> QED BY <1>3, <1>4, <1>5, <1>6 DEF HostInv

\* A handle that has just been opened.
LEMMA HostOpened ==
    ASSUME ServerInv, NEW t \in Sessions, Opens(t)
    PROVE  HostInv'
<1>1. TypeOK /\ HostInv
  BY DEF ServerInv
<1>2. PICK n \in Nat \ {0} : n = Len(handles')
  <2>1. \E x \in HandleRecord : handles' = Append(handles, x)
    BY DEF Opens, HandleRecord
  <2> QED BY <1>1, <2>1, NewHandle
<1>3. /\ HandleIds' = HandleIds \cup {n} /\ n \notin HandleIds
      /\ \A h \in HandleIds : handles'[h] = handles[h]
      /\ handles'[n] = [session |-> t, state |-> IF closing THEN "closed" ELSE "open"]
  <2>1. PICK x \in HandleRecord : x = [session |-> t, state |-> IF closing THEN "closed" ELSE "open"]
    <3>1. [session |-> t, state |-> IF closing THEN "closed" ELSE "open"] \in HandleRecord
      BY DEF HandleRecord
    <3> QED BY <3>1
  <2>2. handles' = Append(handles, x)
    BY <2>1 DEF Opens
  <2> QED BY <1>1, <1>2, <2>1, <2>2, NewHandle
<1>4. t \in opening /\ hosted[t] = 0 /\ opening' = opening \ {t}
  BY <1>1 DEF Opens, HostInv
<1>5. \A s \in Sessions : hosted'[s] = IF s = t /\ ~closing THEN n ELSE hosted[s]
  BY <1>1, <1>2 DEF Opens, TypeOK
<1>6. ASSUME NEW h \in HandleIds', handles'[h].state \in {"open", "closing"} PROVE hosted'[handles'[h].session] = h
  <2>1. CASE h = n
    BY <1>3, <1>5, <1>6, <2>1
  <2>2. CASE h # n
    <3>1. h \in HandleIds /\ handles'[h] = handles[h] /\ handles[h].session \in Sessions /\ h # 0
      BY <1>1, <1>3, <2>2, Typed DEF HandleRecord, HandleIds
    <3>2. hosted[handles[h].session] = h
      BY <1>1, <1>6, <3>1 DEF HostInv
    <3> QED BY <1>4, <1>5, <3>1, <3>2
  <2> QED BY <2>1, <2>2
<1>7. ASSUME NEW s \in Sessions, hosted'[s] # 0 PROVE hosted'[s] \in HandleIds' /\ handles'[hosted'[s]].session = s
  BY <1>1, <1>3, <1>5, <1>7 DEF HostInv
<1>8. ASSUME NEW s \in opening' PROVE hosted'[s] = 0 /\ Joined(s)' # {}
  <2>1. s \in opening /\ s # t /\ s \in Sessions
    BY <1>1, <1>4 DEF TypeOK
  <2>2. PICK c \in Clients : c \in Joined(s)
    BY <1>1, <2>1 DEF HostInv, Joined
  <2>3. c \notin Joined(t)
    BY <2>1, <2>2 DEF Joined
  <2>4. step'[c] = step[c] /\ found'[c] = found[c] /\ UNCHANGED queue
    BY <1>1, <2>3 DEF Opens, TypeOK
  <2>5. c \in Joined(s)'
    BY <2>2, <2>4 DEF Joined
  <2>6. hosted'[s] = 0
    BY <1>1, <1>5, <2>1 DEF HostInv
  <2> QED BY <2>5, <2>6
<1> QED BY <1>6, <1>7, <1>8 DEF HostInv

\* Handles are hosted as HostInv says.
LEMMA HostsStep ==
    ASSUME ServerInv, Keeps, Effect
    PROVE  HostInv'
<1> USE DEF Locals, clientVars
<1>1. TypeOK /\ HostInv /\ \A d \in Clients : ClientAt(d)
  BY DEF ServerInv
<1>2. CASE Appending \/ (\E as : Reclaims(as))
  <2>1. UNCHANGED <<handles, hosted, opening, step, found>>
    BY <1>2 DEF Appending, Reclaims
  <2>2. \A c \in Clients : queue[c] # <<>> => Head(queue'[c]) = Head(queue[c])
    BY <1>2 DEF Appending, Reclaims
  <2>3. ASSUME NEW s PROVE Joined(s) \subseteq Joined(s)'
    BY <1>1, <2>1, <2>2 DEF Joined, ClientAt
  <2> QED BY <1>1, <2>1, <2>3, HostsUntouched
<1>3. CASE HandlesMove
  <2>1. /\ UNCHANGED <<hosted, opening>> /\ HandleIds' = HandleIds /\ \A s : Joined(s)' = Joined(s)
    BY <1>3 DEF HandlesMove, Joined
  <2>2. \A h \in HandleIds : /\ handles'[h].session = handles[h].session
                             /\ handles'[h].state \in {"open", "closing"} => handles[h].state \in {"open", "closing"}
    BY <1>3 DEF HandlesMove
  <2>3. \A h \in HandleIds : handles'[h].state \in {"open", "closing"} => hosted[handles'[h].session] = h
    BY <1>1, <2>2 DEF HostInv
  <2>4. \A s \in Sessions : hosted[s] # 0 => hosted[s] \in HandleIds /\ handles'[hosted[s]].session = s
    BY <1>1, <2>2 DEF HostInv
  <2>5. \A s \in opening : hosted[s] = 0 /\ Joined(s) # {}
    BY <1>1 DEF HostInv
  <2> QED BY <2>1, <2>3, <2>4, <2>5 DEF HostInv
<1>4. CASE Forgets
  <2>1. UNCHANGED <<handles, opening, step, found, queue>>
    BY <1>4 DEF Forgets
  <2>2. CASE UNCHANGED hosted
    <3>1. ASSUME NEW s PROVE Joined(s) \subseteq Joined(s)'
      BY <2>1 DEF Joined
    <3> QED BY <1>1, <2>1, <2>2, <3>1, HostsUntouched
  <2>3. ASSUME NEW h \in HandleIds, handles[h].state = "failed", hosted[handles[h].session] = h,
               hosted' = [hosted EXCEPT ![handles[h].session] = 0]
        PROVE  HostInv'
    BY <1>1, <2>1, <2>3, HostDropped
  <2> QED BY <1>4, <2>2, <2>3 DEF Forgets
<1>5. ASSUME NEW h \in HandleIds, Invalidate(h) PROVE HostInv'
  <2>1. UNCHANGED <<handles, opening, step, found, queue>> /\ hosted' = [hosted EXCEPT ![handles[h].session] = 0]
        /\ hosted[handles[h].session] = h /\ handles[h].state \notin {"open", "closing"}
    BY <1>5 DEF Invalidate
  <2> QED BY <1>1, <2>1, HostDropped
<1>6. CASE ShutdownEnds
  <2>1. ASSUME NEW s \in Sessions PROVE hosted'[s] = hosted[s]
    <3>1. hosted[s] # 0 => handles[hosted[s]].state = "failed"
      <4>1. hosted[s] # 0 => HandleGone(hosted[s]) /\ handles[hosted[s]].session = s
        BY <1>1, <1>6 DEF ShutdownEnds, Hosted, HostInv
      <4> QED BY <4>1 DEF HandleGone
    <3> QED BY <1>6, <3>1 DEF ShutdownEnds
  <2>2. hosted' = hosted
    <3>1. hosted \in [Sessions -> Nat] /\ hosted' = [s \in Sessions |-> hosted'[s]]
      BY <1>1, <1>6 DEF TypeOK, ShutdownEnds
    <3> QED BY <2>1, <3>1
  <2>3. UNCHANGED <<handles, opening, step, found, queue>>
    BY <1>6 DEF ShutdownEnds
  <2>4. ASSUME NEW s PROVE Joined(s) \subseteq Joined(s)'
    BY <2>3 DEF Joined
  <2> QED BY <1>1, <2>2, <2>3, <2>4, HostsUntouched
<1>7. ASSUME NEW t \in Sessions, OpenFails(t) PROVE HostInv'
  <2>1. UNCHANGED <<handles, hosted, found, queue>> /\ opening' = opening \ {t}
    BY <1>7 DEF OpenFails
  <2>2. ASSUME NEW s \in opening' PROVE Joined(s) \subseteq Joined(s)'
    <3>1. s # t
      BY <2>1
    <3>2. \A c \in Joined(s) : c \in Clients /\ c \notin Joined(t)
      BY <3>1 DEF Joined
    <3>3. \A c \in Joined(s) : step'[c] = step[c]
      BY <1>7, <3>2 DEF OpenFails
    <3> QED BY <2>1, <3>3 DEF Joined
  <2> QED BY <1>1, <2>1, <2>2, HostsUntouched
<1>8. ASSUME NEW a \in Ids, AttachmentStep(a) PROVE HostInv'
  <2>1. UNCHANGED <<handles, hosted, opening, step, found, queue>>
    BY <1>1, <1>8, ClearEffect DEF AttachmentStep, ReleaseLease, Grant, CallSettles
  <2>2. ASSUME NEW s PROVE Joined(s) \subseteq Joined(s)'
    BY <2>1 DEF Joined
  <2> QED BY <1>1, <2>1, <2>2, HostsUntouched
<1>9. ASSUME NEW c \in Clients,
             Ends(c) \/ Leaving(c) \/ Leases(c) \/ Leased(c) \/ Calling(c) \/ (\E p \in BOOLEAN : Releases(c, p))
      PROVE  HostInv'
  <2>1. UNCHANGED <<handles, hosted, opening>>
    BY <1>9 DEF Ends, Leaving, Leases, Leased, Calling, Releases
  <2>2. ASSUME NEW s PROVE Joined(s) \subseteq Joined(s)'
    BY <1>9, JoinedWaits
  <2> QED BY <1>1, <2>1, <2>2, HostsUntouched
<1>10. ASSUME NEW c \in Clients, Acquires(c) PROVE HostInv'
  <2>1. PICK t \in Sessions : t = Head(queue[c]).session
    BY <1>1, <1>10, HeadIsOperation DEF Acquires, Starts
  <2>2. /\ UNCHANGED <<handles, hosted, queue>> /\ step'[c] = "acquiring" /\ found'[c] = hosted[t]
        /\ opening' = IF hosted[t] = 0 THEN opening \cup {t} ELSE opening
    BY <1>1, <1>10, <2>1, AwaitEffect DEF Acquires, Attaching, TypeOK
  <2>3. hosted[t] = 0 => c \in Joined(t)'
    BY <2>1, <2>2 DEF Joined
  <2>4. ASSUME NEW s \in opening' PROVE hosted'[s] = 0 /\ Joined(s)' # {}
    <3>1. CASE s \in opening
      <4>1. Joined(s) \subseteq Joined(s)'
        BY <1>10, JoinedWaits
      <4> QED BY <1>1, <2>2, <3>1, <4>1 DEF HostInv
    <3>2. CASE s \notin opening
      BY <2>2, <2>3, <3>2
    <3> QED BY <3>1, <3>2
  <2>5. HandleIds' = HandleIds
    BY <2>2 DEF HandleIds
  <2> QED BY <1>1, <2>2, <2>4, <2>5 DEF HostInv
<1> QED BY <1>2, <1>3, <1>4, <1>5, <1>6, <1>7, <1>8, <1>9, <1>10, HostOpened DEF Effect

-----------------------------------------------------------------------------
(* Queues and shutdown.                                                    *)

\* How a step changes the queues and what shutdown waits for.
QueueEffect ==
    \/ UNCHANGED <<queue, draining>>
    \/ \E c \in Clients : Settle(c) /\ queue[c] # <<>>
    \/ \E c \in Clients : \E op \in Operation :
         /\ Enqueue(c, op) /\ UNCHANGED draining
         /\ shutdown # "no" => op.op = "detach"
         /\ op.op \in {"attach", "detach"} => AskRouter(c)
    \/ \E c \in Clients : Lost(c)

\* After the server closed its state only a detach still joins a queue.
LEMMA QueuesStep ==
    ASSUME ServerInv, [Next]_vars
    PROVE  /\ shutdown' # "no" => shutdown # "no" \/ CloseState
           /\ closing => closing'
           /\ QueueEffect \/ CloseState
<1> USE DEF clientVars, closeVars, hostVars, routerVars
<1>1. TypeOK /\ ShutdownInv /\ \A c \in Clients : ClientAt(c)
  BY DEF ServerInv
<1>2. ASSUME NEW c \in Clients, ClientStep(c)
      PROVE  UNCHANGED <<shutdown, closing>> /\ QueueEffect
  <2>1. CASE RemoveClose(c) \/ RemoveEnd(c)
    BY <2>1 DEF RemoveClose, RemoveEnd, QueueEffect
  <2>2. CASE AttachStart(c) \/ Unavailable(c) \/ Acquired(c) \/ Left(c)
    <3>1. queue[c] # <<>>
      BY <1>1, <2>2 DEF AttachStart, Unavailable, Acquired, Left, ClientAt, Starts
    <3>2. UNCHANGED <<queue, draining>> \/ Settle(c)
      BY <2>2 DEF AttachStart, Unavailable, Acquired, Left, Await, Lease
    <3> QED BY <2>2, <3>1, <3>2 DEF AttachStart, Unavailable, Acquired, Left, QueueEffect
  <2>3. CASE Leased(c) \/ ReleaseStart(c) \/ ReleaseEnd(c) \/ CallStart(c)
    <3>1. queue[c] # <<>>
      BY <1>1, <2>3 DEF Leased, ReleaseStart, ReleaseEnd, CallStart, ClientAt, Starts
    <3>2. UNCHANGED <<queue, draining>> \/ Settle(c)
      BY <2>3 DEF Leased, ReleaseStart, ReleaseEnd, CallStart, Await
    <3> QED BY <2>3, <3>1, <3>2 DEF Leased, ReleaseStart, ReleaseEnd, CallStart, QueueEffect
  <2> QED BY <1>2, <2>1, <2>2, <2>3 DEF ClientStep
<1>3. ASSUME NEW a \in Ids, AttachmentStep(a)
      PROVE  UNCHANGED <<shutdown, closing>> /\ QueueEffect
  BY <1>1, <1>3, ClearEffect DEF AttachmentStep, ReleaseLease, Grant, CallSettles, QueueEffect
<1>4. ASSUME NEW h \in HandleIds, HandleStep(h) \/ Terminates(h)
      PROVE  UNCHANGED <<shutdown, closing>> /\ QueueEffect
  BY <1>4 DEF HandleStep, HandleCloses, Invalidate, Terminates, QueueEffect
<1>5. ASSUME NEW s \in Sessions, Opens(s) \/ OpenFails(s)
      PROVE  UNCHANGED <<shutdown, closing>> /\ QueueEffect
  BY <1>5 DEF Opens, OpenFails, QueueEffect
<1>6. ASSUME ShutdownStep
      PROVE  shutdown # "no" /\ UNCHANGED closing /\ QueueEffect
  BY <1>6 DEF ShutdownStep, ShutdownReleases, ShutdownCloses, ShutdownEnds, QueueEffect
<1>7. ASSUME NEW c \in Clients, AskRouter(c)
      PROVE  UNCHANGED <<shutdown, closing>> /\ QueueEffect
  <2>1. UNCHANGED <<shutdown, closing, draining>>
    BY <1>7 DEF AskRouter
  <2>2. CASE UNCHANGED queue
    BY <2>1, <2>2 DEF QueueEffect
  <2>3. CASE ~UNCHANGED queue
    <3>1. asked[c] \in Request
      BY <1>1, <1>7 DEF AskRouter, Turn, TypeOK
    <3>2. PICK op \in Operation : op = [op |-> asked[c].op, session |-> asked[c].session]
      BY <1>7, <3>1 DEF AskRouter, Request, Operation
    <3>3. Enqueue(c, op) /\ ~(asked[c].op = "attach" /\ closing)
      BY <1>7, <2>3, <3>2 DEF AskRouter
    <3>4. op.op = asked[c].op
      BY <3>2
    <3>5. shutdown # "no" => op.op = "detach"
      BY <1>1, <1>7, <3>3, <3>4 DEF ShutdownInv, AskRouter
    <3> QED BY <1>7, <2>1, <3>3, <3>5 DEF QueueEffect
  <2> QED BY <2>1, <2>2, <2>3
<1>8. ASSUME NEW c \in Clients, RouterAnswers(c) \/ AskRemoval(c) \/ Delete(c) \/ Ask(c)
      PROVE  UNCHANGED <<shutdown, closing>> /\ QueueEffect
  BY <1>8 DEF RouterAnswers, AskRemoval, Delete, Ask, QueueEffect
<1>9. ASSUME NEW c \in Clients, Call(c) PROVE UNCHANGED <<shutdown, closing>> /\ QueueEffect
  <2>1. PICK op \in Operation : op = [op |-> "call", attachment |-> told[c], id |-> calls + 1]
    <3>1. told[c] \in Nat /\ calls + 1 \in Nat
      BY <1>1 DEF TypeOK
    <3> QED BY <3>1 DEF Operation
  <2> QED BY <1>9, <2>1 DEF Call, Accepting, QueueEffect
<1>10. ASSUME NEW c \in Clients, Lost(c) PROVE UNCHANGED <<shutdown, closing>> /\ QueueEffect
  BY <1>10 DEF Lost, QueueEffect
<1>11. ASSUME Close PROVE UNCHANGED shutdown /\ closing' /\ QueueEffect
  BY <1>11 DEF Close, QueueEffect
<1>12. ASSUME CloseState PROVE UNCHANGED closing
  BY <1>12 DEF CloseState
<1>13. ASSUME UNCHANGED vars PROVE UNCHANGED <<shutdown, closing>> /\ QueueEffect
  BY <1>13 DEF vars, QueueEffect
<1>14. CASE RouterStep
  BY <1>2, <1>3, <1>4, <1>5, <1>6, <1>14 DEF RouterStep
<1>15. CASE \E c \in Clients : ApplicationStep(c) \/ Ask(c) \/ Call(c) \/ Lost(c)
  BY <1>7, <1>8, <1>9, <1>10, <1>15 DEF ApplicationStep
<1> QED BY <1>4, <1>11, <1>12, <1>13, <1>14, <1>15 DEF Next

\* What an operation that ends leaves in the queue it was in before.
LEMMA SettledQueue ==
    ASSUME TypeOK, NEW c \in Clients, queue[c] # <<>>, Settle(c), NEW d \in Clients, NEW i \in DOMAIN queue'[d]
    PROVE  \/ i \in DOMAIN queue[d] /\ queue'[d][i] = queue[d][i] /\ draining'[d] = draining[d]
           \/ /\ i + 1 \in DOMAIN queue[d] /\ queue'[d][i] = queue[d][i + 1]
              /\ draining'[d] = IF draining[d] > 0 THEN draining[d] - 1 ELSE 0
<1>1. CASE d # c
  BY <1>1, SettleEffect
<1>2. CASE d = c
  <2>1. queue'[c] = Tail(queue[c]) /\ draining'[c] = IF draining[c] > 0 THEN draining[c] - 1 ELSE 0
    BY SettleEffect
  <2>2. queue[c] \in Seq(Operation)
    BY DEF TypeOK
  <2>3. /\ Tail(queue[c]) \in Seq(Operation) /\ Len(Tail(queue[c])) = Len(queue[c]) - 1
        /\ \A j \in 1..Len(Tail(queue[c])) : Tail(queue[c])[j] = queue[c][j + 1]
    BY <2>2, HeadTailProperties
  <2>4. i \in 1..Len(Tail(queue[c])) /\ DOMAIN queue[c] = 1..Len(queue[c]) /\ Len(queue[c]) \in Nat
    BY <1>2, <2>1, <2>2, <2>3, LenProperties
  <2>5. i + 1 \in 1..Len(queue[c])
    BY <2>3, <2>4
  <2> QED BY <1>2, <2>1, <2>3, <2>4, <2>5
<1> QED BY <1>1, <1>2

\* What shutdown does not wait for is a detach.
LEMMA DetachesLast ==
    ASSUME ServerInv, TypeOK', [Next]_vars, shutdown' # "no", NEW c \in Clients, NEW i \in DOMAIN queue'[c], i > draining'[c]
    PROVE  queue'[c][i].op = "detach"
<1>1. TypeOK /\ ShutdownInv
  BY DEF ServerInv
<1>2. queue[c] \in Seq(Operation) /\ Len(queue[c]) \in Nat /\ DOMAIN queue[c] = 1..Len(queue[c])
      /\ draining[c] \in Nat
  BY <1>1, LenProperties DEF TypeOK
<1>3. queue'[c] \in Seq(Operation) /\ DOMAIN queue'[c] = 1..Len(queue'[c]) /\ Len(queue'[c]) \in Nat /\ i \in Nat
  BY LenProperties DEF TypeOK
<1>4. CASE CloseState
  <2>1. draining'[c] = Len(queue'[c])
    BY <1>4 DEF CloseState
  <2> QED BY <1>3, <2>1
<1>5. SUFFICES ASSUME shutdown # "no", QueueEffect PROVE queue'[c][i].op = "detach"
  BY <1>4, QueuesStep
<1>6. \A j \in DOMAIN queue[c] : j > draining[c] => queue[c][j].op = "detach"
  BY <1>1, <1>5 DEF ShutdownInv
<1>7. CASE UNCHANGED <<queue, draining>>
  BY <1>6, <1>7
<1>8. ASSUME NEW d \in Clients, Settle(d), queue[d] # <<>> PROVE queue'[c][i].op = "detach"
  <2>1. CASE i \in DOMAIN queue[c] /\ queue'[c][i] = queue[c][i] /\ draining'[c] = draining[c]
    BY <1>6, <2>1
  <2>2. CASE /\ i + 1 \in DOMAIN queue[c] /\ queue'[c][i] = queue[c][i + 1]
             /\ draining'[c] = IF draining[c] > 0 THEN draining[c] - 1 ELSE 0
    <3>1. i + 1 > draining[c]
      BY <1>2, <1>3, <2>2
    <3> QED BY <1>6, <2>2, <3>1
  <2> QED BY <1>1, <1>8, <2>1, <2>2, SettledQueue
<1>9. ASSUME NEW d \in Clients, NEW op \in Operation, Enqueue(d, op), UNCHANGED draining, op.op = "detach"
      PROVE  queue'[c][i].op = "detach"
  <2>1. CASE d # c
    BY <1>1, <1>6, <1>9, <2>1, EnqueueEffect
  <2>2. CASE d = c
    <3>1. /\ Len(queue'[c]) = Len(queue[c]) + 1 /\ queue'[c][Len(queue[c]) + 1] = op
          /\ \A j \in 1..Len(queue[c]) : queue'[c][j] = queue[c][j]
      BY <1>1, <1>9, <2>2, EnqueueEffect
    <3>2. i \in 1..Len(queue[c]) \/ i = Len(queue[c]) + 1
      BY <1>2, <1>3, <3>1
    <3> QED BY <1>2, <1>6, <1>9, <3>1, <3>2
  <2> QED BY <2>1, <2>2
<1>10. ASSUME NEW d \in Clients PROVE ~Lost(d)
  BY <1>5 DEF Lost, Accepting
<1> QED BY <1>5, <1>7, <1>8, <1>9, <1>10 DEF QueueEffect

\* Once the queues have drained nobody attaches, and nothing is being opened.
Late == shutdown \in {"releasing", "closing", "closed"}

\* Then only detaching is left to do.
LEMMA LateFacts ==
    ASSUME ServerInv, Late
    PROVE  opening = {} /\ \A c \in Clients : step[c] \notin Attaching /\ ~Starts(c, "attach")
<1>1. TypeOK /\ ShutdownInv /\ \A c \in Clients : ClientAt(c)
  BY DEF ServerInv
<1>2. opening = {} /\ \A c \in Clients : draining[c] = 0
  BY <1>1 DEF ShutdownInv, Late
<1>3. ASSUME NEW c \in Clients, queue[c] # <<>> PROVE Head(queue[c]).op = "detach"
  <2>1. queue[c] \in Seq(Operation)
    BY <1>1 DEF TypeOK
  <2>2. 1 \in DOMAIN queue[c] /\ Head(queue[c]) = queue[c][1]
    BY <1>3, <2>1
  <2>3. \A i \in DOMAIN queue[c] : i > 0 => queue[c][i].op = "detach"
    BY <1>1, <1>2 DEF ShutdownInv, Late
  <2> QED BY <2>2, <2>3
<1>4. ASSUME NEW c \in Clients PROVE step[c] \notin Attaching /\ ~Starts(c, "attach")
  <2>1. step[c] \in Attaching => queue[c] # <<>> /\ Head(queue[c]).op = "attach"
    BY <1>1 DEF ClientAt, Attaching
  <2>2. queue[c] # <<>> => Head(queue[c]).op # "attach"
    BY <1>3
  <2> QED BY <2>1, <2>2 DEF Starts
<1> QED BY <1>2, <1>4

\* Then nothing is hosted or attached any more, and what is released stays so.
LEMMA LateStep ==
    ASSUME ServerInv, Late, Effect
    PROVE  /\ opening' = {} /\ Ids' = Ids /\ HandleIds' = HandleIds
           /\ \A s \in Sessions : hosted'[s] \in {0, hosted[s]}
           /\ \A c \in Clients : route'[c] \in {0, route[c]}
           /\ \A h \in HandleIds : handles'[h].state = "open" => handles[h].state = "open"
           /\ \A a \in Ids : /\ attachments'[a].listed => attachments[a].listed
                             /\ attachments[a].release # "no" => attachments'[a].release # "no"
<1> USE DEF Locals, clientVars
<1>1. TypeOK /\ HostInv /\ \A c \in Clients : ClientAt(c)
  BY DEF ServerInv
<1>2. opening = {} /\ \A c \in Clients : step[c] \notin Attaching /\ ~Starts(c, "attach")
  BY LateFacts
<1>3. ~(\E s \in Sessions : Opens(s) \/ OpenFails(s))
  BY <1>2 DEF Opens, OpenFails
<1>4. ~(\E c \in Clients : Acquires(c) \/ Leaving(c) \/ Leases(c) \/ Leased(c))
  BY <1>2 DEF Acquires, Leaving, Leases, Leased, Attaching
<1>5. Ids' = Ids
  BY <1>4, OnlyLeaseMakes
<1>6. UNCHANGED handles => HandleIds' = HandleIds
  BY DEF HandleIds
<1>7. CASE Appending \/ HandlesMove
  BY <1>2, <1>5, <1>6, <1>7 DEF Appending, HandlesMove
<1>8. ASSUME NEW s0 \in Sessions, hosted' = [hosted EXCEPT ![s0] = 0]
      PROVE  \A s \in Sessions : hosted'[s] \in {0, hosted[s]}
  BY <1>1, <1>8 DEF TypeOK
<1>9. \A h \in HandleIds : handles[h].session \in Sessions
  BY <1>1, Typed DEF HandleRecord
<1>10. CASE Forgets
  BY <1>2, <1>5, <1>6, <1>8, <1>9, <1>10 DEF Forgets
<1>11. ASSUME NEW as, attachments' = Releasing(as, TRUE)
       PROVE  \A a \in Ids : /\ attachments'[a].listed => attachments[a].listed
                             /\ attachments[a].release # "no" => attachments'[a].release # "no"
  BY <1>1, <1>11, BegunEffect DEF Begun, SameBut
<1>12. CASE \E as : Reclaims(as)
  BY <1>2, <1>5, <1>6, <1>11, <1>12 DEF Reclaims
<1>13. ASSUME NEW h \in HandleIds, Invalidate(h)
       PROVE  \A a \in Ids : /\ attachments'[a].listed => attachments[a].listed
                             /\ attachments[a].release # "no" => attachments'[a].release # "no"
  BY <1>11, <1>13 DEF Invalidate
<1>14. CASE \E h \in HandleIds : Invalidate(h)
  <2>1. UNCHANGED <<handles, opening, route>> /\ \A s \in Sessions : hosted'[s] \in {0, hosted[s]}
    BY <1>8, <1>9, <1>14 DEF Invalidate
  <2> QED BY <1>2, <1>5, <1>6, <1>13, <1>14, <2>1
<1>15. CASE ShutdownEnds
  BY <1>2, <1>5, <1>6, <1>15 DEF ShutdownEnds
<1>16. ASSUME NEW b \in Ids, AttachmentStep(b)
       PROVE  /\ UNCHANGED <<handles, hosted, opening>> /\ \A c \in Clients : route'[c] \in {0, route[c]}
              /\ \A a \in Ids : /\ attachments'[a].listed => attachments[a].listed
                                /\ attachments[a].release # "no" => attachments'[a].release # "no"
  <2>1. CASE Clear(b)
    <3>1. /\ Only(b) /\ ~attachments'[b].listed /\ attachments'[b].release # "no"
          /\ UNCHANGED <<handles, hosted, opening>> /\ \A c \in Clients : route'[c] \in {0, route[c]}
      BY <1>1, <2>1, ClearEffect
    <3> QED BY <3>1 DEF Only
  <2>2. CASE ReleaseLease(b) \/ Grant(b)
    <3>1. /\ Only(b) /\ attachments'[b].listed = attachments[b].listed
          /\ attachments[b].release # "no" => attachments'[b].release # "no"
      BY <1>1, <2>2, ReleaseLeaseEffect, GrantEffect
    <3> QED BY <2>2, <3>1 DEF Only, ReleaseLease, Grant
  <2>3. CASE CallSettles(b)
    <3>1. PICK id : attachments' = [attachments EXCEPT ![b].calls = @ \ {id}]
      BY <2>3 DEF CallSettles
    <3>2. PICK ids \in SUBSET Nat : ids = attachments[b].calls \ {id}
      <4>1. attachments[b] \in AttachmentRecord
        BY <1>1, Typed
      <4> QED BY <4>1 DEF AttachmentRecord
    <3>3. attachments' = [attachments EXCEPT ![b].calls = ids]
      BY <3>1, <3>2
    <3> QED BY <1>1, <2>3, <3>3, CallsEffect DEF CallSettles, Only
  <2> QED BY <1>16, <2>1, <2>2, <2>3 DEF AttachmentStep
<1>17. CASE \E a \in Ids : AttachmentStep(a)
  BY <1>2, <1>5, <1>6, <1>16, <1>17
<1>18. ASSUME NEW c \in Clients, Ends(c) \/ Calling(c) \/ (\E p \in BOOLEAN : Releases(c, p))
       PROVE  /\ UNCHANGED <<handles, hosted, opening, route>>
              /\ \A a \in Ids : /\ attachments'[a].listed => attachments[a].listed
                                /\ attachments[a].release # "no" => attachments'[a].release # "no"
  <2>1. CASE Ends(c)
    BY <2>1 DEF Ends
  <2>2. CASE \E p \in BOOLEAN : Releases(c, p)
    BY <1>1, <2>2, BegunEffect DEF Releases, Begun, SameBut
  <2>3. CASE Calling(c)
    <3>1. PICK b \in Ids, id \in Nat : attachments' = [attachments EXCEPT ![b].calls = @ \cup {id}]
      <4>1. route[c] \in Ids
        BY <1>1, <2>3 DEF Calling, ClientAt
      <4> QED BY <2>3, <4>1 DEF Calling
    <3>2. PICK ids \in SUBSET Nat : ids = attachments[b].calls \cup {id}
      <4>1. attachments[b] \in AttachmentRecord
        BY <1>1, Typed
      <4> QED BY <4>1 DEF AttachmentRecord
    <3> QED BY <1>1, <2>3, <3>1, <3>2, CallsEffect DEF Calling, Only
  <2> QED BY <1>18, <2>1, <2>2, <2>3
<1>19. CASE \E c \in Clients : Ends(c) \/ Calling(c) \/ (\E p \in BOOLEAN : Releases(c, p))
  BY <1>2, <1>5, <1>6, <1>18, <1>19
<1> QED BY <1>3, <1>4, <1>7, <1>10, <1>12, <1>14, <1>15, <1>17, <1>19 DEF Effect

\* How far shutdown is, and what that takes.
LEMMA ShutdownMoves ==
    ASSUME [Next]_vars, NEW to \in {"releasing", "closing", "closed"}, shutdown' = to, shutdown # to
    PROVE  /\ to = "releasing" => ShutdownReleases
           /\ to = "closing" => ShutdownCloses
           /\ to = "closed" => ShutdownEnds
<1> USE DEF clientVars, closeVars, hostVars, routerVars
<1>1. ASSUME NEW c \in Clients PROVE ~ClientStep(c)
  BY DEF ClientStep, AttachStart, Unavailable, Acquired, Left, Leased, ReleaseStart, ReleaseEnd, CallStart,
         RemoveClose, RemoveEnd
<1>2. ASSUME NEW a \in Ids PROVE ~AttachmentStep(a)
  BY DEF AttachmentStep, ReleaseLease, Clear, Cleared, Grant, CallSettles
<1>3. ASSUME NEW h \in HandleIds PROVE ~HandleStep(h) /\ ~Terminates(h)
  BY DEF HandleStep, HandleCloses, Invalidate, Terminates
<1>4. ASSUME NEW s \in Sessions PROVE ~Opens(s) /\ ~OpenFails(s)
  BY DEF Opens, OpenFails
<1>5. ASSUME NEW c \in Clients PROVE ~(ApplicationStep(c) \/ Ask(c) \/ Call(c) \/ Lost(c))
  BY DEF ApplicationStep, AskRouter, RouterAnswers, AskRemoval, Delete, Ask, Call, Lost
<1>6. ~(Close \/ CloseState \/ UNCHANGED vars)
  BY DEF Close, CloseState, vars
<1>7. ShutdownStep
  BY <1>1, <1>2, <1>3, <1>4, <1>5, <1>6 DEF Next, RouterStep
<1> QED BY <1>7 DEF ShutdownStep, ShutdownReleases, ShutdownCloses, ShutdownEnds

\* Shutdown takes everything back.
LEMMA ShutdownInvStep ==
    ASSUME ServerInv, TypeOK', Keeps, Effect, HostInv', [Next]_vars
    PROVE  ShutdownInv'
<1>1. TypeOK /\ ShutdownInv /\ HostInv /\ \A a \in Ids : AttachmentAt(a)
  BY DEF ServerInv
<1>2. shutdown' # "no" => closing'
  <2>1. CloseState => closing
    BY DEF CloseState
  <2> QED BY <1>1, <2>1, QueuesStep DEF ShutdownInv
<1>3. shutdown' # "no" => \A c \in Clients : \A i \in DOMAIN queue'[c] : i > draining'[c] => queue'[c][i].op = "detach"
  BY DetachesLast
<1>4. \A a \in Ids : attachments[a].handle \in HandleIds /\ attachments[a].handle # 0
                     /\ handles[attachments[a].handle].session \in Sessions
  BY <1>1, Typed DEF AttachmentAt, HandleIds, HandleRecord
<1>5. ASSUME ShutdownReleases
      PROVE  /\ opening' = {} /\ \A c \in Clients : draining'[c] = 0
             /\ \A a \in Ids' : (hosted[SessionOf(a)] = attachments[a].handle)' /\ attachments'[a].listed
                  => attachments'[a].release # "no"
  <2>1. attachments' = Releasing(UNION {Listed(h) : h \in Hosted}, TRUE)
        /\ UNCHANGED <<handles, hosted, opening, draining>> /\ opening = {} /\ \A c \in Clients : draining[c] = 0
    BY <1>5 DEF ShutdownReleases
  <2>2. Ids' = Ids /\ \A a \in Ids : Begun(UNION {Listed(h) : h \in Hosted}, TRUE, attachments[a], attachments'[a], a)
    BY <1>1, <2>1, BegunEffect
  <2>3. ASSUME NEW a \in Ids, (hosted[SessionOf(a)] = attachments[a].handle)', attachments'[a].listed
        PROVE  attachments'[a].release # "no"
    <3>1. hosted[SessionOf(a)] = attachments[a].handle /\ attachments[a].listed
      BY <2>1, <2>2, <2>3 DEF SessionOf, Keeps, Begun, SameBut
    <3>2. attachments[a].handle \in Hosted /\ a \in Listed(attachments[a].handle)
      BY <1>4, <3>1 DEF Hosted, Listed, SessionOf
    <3>3. a \in UNION {Listed(h) : h \in Hosted}
      BY <3>2
    <3> QED BY <2>2, <3>3 DEF Begun
  <2> QED BY <2>1, <2>2, <2>3
<1>6. ASSUME Late
      PROVE  /\ opening' = {} /\ \A c \in Clients : draining'[c] = 0
             /\ \A a \in Ids' : (hosted[SessionOf(a)] = attachments[a].handle)' /\ attachments'[a].listed
                  => attachments'[a].release # "no"
  <2>1. opening = {} /\ (\A c \in Clients : draining[c] = 0)
        /\ \A a \in Ids : hosted[SessionOf(a)] = attachments[a].handle /\ attachments[a].listed
             => attachments[a].release # "no"
    BY <1>1, <1>6 DEF ShutdownInv, Late
  <2>2. \A c \in Clients : draining'[c] = 0
    <3>1. ~CloseState /\ ~(\E c \in Clients : Lost(c))
      BY <1>6 DEF CloseState, Lost, Accepting, Late
    <3>2. QueueEffect
      BY <3>1, QueuesStep
    <3>3. ASSUME NEW c \in Clients, Settle(c), queue[c] # <<>> PROVE \A d \in Clients : draining'[d] = 0
      <4>1. draining'[c] = (IF draining[c] > 0 THEN draining[c] - 1 ELSE 0)
            /\ \A d \in Clients \ {c} : draining'[d] = draining[d]
        BY <1>1, <3>3, SettleEffect
      <4>2. draining[c] = 0 /\ ~(0 > 0)
        BY <2>1
      <4>3. draining'[c] = 0
        BY <4>1, <4>2
      <4> QED BY <2>1, <4>1, <4>3
    <3> QED BY <2>1, <3>1, <3>2, <3>3 DEF QueueEffect
  <2>3. ASSUME NEW a \in Ids, (hosted[SessionOf(a)] = attachments[a].handle)', attachments'[a].listed
        PROVE  attachments'[a].release # "no"
    <3>1. attachments[a].listed /\ (attachments[a].release # "no" => attachments'[a].release # "no")
      BY <1>6, <2>3, LateStep
    <3>2. PICK h \in HandleIds, s \in Sessions : h = attachments[a].handle /\ s = handles[h].session /\ h # 0
      BY <1>4
    <3>3. hosted'[s] = h
      BY <2>3, <3>2 DEF SessionOf, Keeps
    <3>4. hosted[s] = h
      BY <1>6, <3>2, <3>3, LateStep
    <3> QED BY <2>1, <3>1, <3>2, <3>4 DEF SessionOf
  <2> QED BY <1>6, <2>2, <2>3, LateStep
<1>7. shutdown' \in {"releasing", "closing", "closed"} => Late \/ ShutdownReleases
  BY ShutdownMoves DEF Late, ShutdownCloses, ShutdownEnds
<1>8. shutdown' \in {"closing", "closed"} => \A h \in HandleIds' : handles'[h].state # "open"
  <2>1. CASE shutdown \in {"closing", "closed"}
    BY <1>1, <2>1, LateStep DEF ShutdownInv, Late
  <2>2. CASE shutdown \notin {"closing", "closed"} /\ shutdown' = "closing"
    <3>1. ShutdownCloses
      BY <2>2, ShutdownMoves
    <3>2. \A h \in HandleIds : handles[h].state = "open" => h \in Hosted
      <4>1. ASSUME NEW h \in HandleIds, handles[h].state = "open" PROVE h \in Hosted
        <5>1. hosted[handles[h].session] = h /\ handles[h].session \in Sessions /\ h # 0
          BY <1>1, <4>1, Typed DEF HostInv, HandleRecord, HandleIds
        <5> QED BY <5>1 DEF Hosted
      <4> QED BY <4>1
    <3> QED BY <1>1, <3>1, <3>2, ShutdownClosesEffect
  <2>3. CASE shutdown \notin {"closing", "closed"} /\ shutdown' = "closed"
    BY <2>3, ShutdownMoves DEF ShutdownEnds
  <2> QED BY <2>1, <2>2, <2>3
<1>9. shutdown' = "closed" => \A c \in Clients : route'[c] = 0
  <2>1. CASE shutdown = "closed"
    BY <1>1, <2>1, LateStep DEF ShutdownInv, Late
  <2>2. CASE shutdown # "closed" /\ shutdown' = "closed"
    BY <2>2, ShutdownMoves DEF ShutdownEnds
  <2> QED BY <2>1, <2>2
<1> QED BY <1>2, <1>3, <1>5, <1>6, <1>7, <1>8, <1>9 DEF ShutdownInv

-----------------------------------------------------------------------------
(* Requests to the application.                                            *)

\* Who asks the application, and whose request runs or ends.
AskedEffect ==
    \/ UNCHANGED <<asked, line>>
    \/ \E c \in Clients : Ask(c)
    \/ \E c \in Clients :
         /\ asked[c] # None /\ (serial => Head(line) = c)
         /\ Leaves(c) \/ (Runs(c) /\ UNCHANGED line)

\* Only the connection whose turn it is runs or leaves the line.
LEMMA AskedStep ==
    ASSUME ServerInv, [Next]_vars
    PROVE  serial' = serial /\ AskedEffect
<1> USE DEF serverVars
<1>1. TypeOK /\ \A c \in Clients : RequestAt(c)
  BY DEF ServerInv
<1>2. ASSUME NEW c \in Clients, AskRouter(c) PROVE serial' = serial /\ AskedEffect
  BY <1>2 DEF AskRouter, Turn, AskedEffect
<1>3. ASSUME NEW c \in Clients, RouterAnswers(c) PROVE serial' = serial /\ AskedEffect
  <2>1. Running(c)
    BY <1>3 DEF RouterAnswers, Running
  <2>2. serial => Head(line) = c
    BY <1>1, <2>1 DEF RequestAt
  <2> QED BY <1>3, <2>2 DEF RouterAnswers, AskedEffect
<1>4. ASSUME NEW c \in Clients, AskRemoval(c) PROVE serial' = serial /\ AskedEffect
  BY <1>4 DEF AskRemoval, Turn, AskedEffect
<1>5. ASSUME NEW c \in Clients, Delete(c) PROVE serial' = serial /\ AskedEffect
  <2>1. Running(c)
    BY <1>1, <1>5 DEF Delete, RequestAt
  <2>2. asked[c] # None /\ (serial => Head(line) = c)
    BY <1>1, <2>1 DEF RequestAt, Running
  <2> QED BY <1>5, <2>2 DEF Delete, AskedEffect
<1>6. ASSUME NEW c \in Clients, Ask(c) PROVE serial' = serial /\ AskedEffect
  BY <1>6 DEF Ask, AskedEffect
<1>7. ASSUME NEW c \in Clients, Call(c) \/ Lost(c) PROVE serial' = serial /\ AskedEffect
  BY <1>7 DEF Call, Lost, AskedEffect
<1>8. ASSUME RouterStep \/ UNCHANGED serverVars \/ Close \/ CloseState \/ UNCHANGED vars
      PROVE  serial' = serial /\ AskedEffect
  BY <1>8 DEF RouterStep, Close, CloseState, vars, AskedEffect
<1> QED BY <1>2, <1>3, <1>4, <1>5, <1>6, <1>7, <1>8 DEF Next, ApplicationStep

\* Whoever has asked stands in line, and whoever runs stands at its head.
LEMMA LineStep ==
    ASSUME ServerInv, [Next]_vars, serial, NEW c \in Clients
    PROVE  /\ asked'[c] # None => \E i \in DOMAIN line' : line'[i] = c
           /\ Running(c)' => Head(line') = c
<1>1. TypeOK /\ RequestAt(c) /\ (\A d \in Clients : RequestAt(d))
  BY DEF ServerInv
<1>2. /\ asked \in [Clients -> Request \cup {None}]
      /\ line \in Seq(Clients) /\ Len(line) \in Nat /\ DOMAIN line = 1..Len(line)
  BY <1>1, LenProperties DEF TypeOK
<1>3. /\ asked[c] # None => \E i \in DOMAIN line : line[i] = c
      /\ Running(c) => Head(line) = c
  BY <1>1 DEF RequestAt
<1>4. CASE UNCHANGED <<asked, line>>
  BY <1>3, <1>4 DEF Running
<1>5. ASSUME NEW d \in Clients, Ask(d)
      PROVE  /\ asked'[c] # None => \E i \in DOMAIN line' : line'[i] = c
             /\ Running(c)' => Head(line') = c
  <2>1. line' = Append(line, d)
    BY <1>5 DEF Ask
  <2>2. /\ Len(line') = Len(line) + 1 /\ DOMAIN line' = 1..(Len(line) + 1)
        /\ \A i \in 1..Len(line) : line'[i] = line[i]
        /\ line'[Len(line) + 1] = d
    BY <1>2, <2>1, AppendProperties
  <2>3. PICK op \in {"attach", "detach", "remove"}, s \in Sessions \cup {None} :
          asked' = [asked EXCEPT ![d] = [op |-> op, session |-> s, running |-> FALSE]]
    BY <1>5 DEF Ask
  <2>4. CASE c = d
    <3>1. Len(line) + 1 \in DOMAIN line'
      BY <1>2, <2>2
    <3>2. ~asked'[c].running
      BY <1>2, <2>3, <2>4
    <3> QED BY <2>2, <2>4, <3>1, <3>2 DEF Running
  <2>5. CASE c # d
    <3>1. asked'[c] = asked[c]
      BY <1>2, <2>3, <2>5
    <3>2. asked'[c] # None => \E i \in DOMAIN line' : line'[i] = c
      <4>1. ASSUME NEW i \in DOMAIN line, line[i] = c PROVE i \in DOMAIN line' /\ line'[i] = c
        BY <1>2, <2>2, <4>1
      <4> QED BY <1>3, <3>1, <4>1
    <3>3. ASSUME Running(c)' PROVE Head(line') = c
      <4>1. Running(c)
        BY <3>1, <3>3 DEF Running
      <4>2. Head(line) = c /\ line # <<>>
        BY <1>2, <1>3, <4>1 DEF Running
      <4>3. Head(line) = line[1] /\ 1 \in 1..Len(line)
        BY <1>2, <4>2
      <4>4. Head(line') = line'[1]
        BY <1>2, <2>1
      <4> QED BY <2>2, <4>2, <4>3, <4>4
    <3> QED BY <3>2, <3>3
  <2> QED BY <2>4, <2>5
<1>6. ASSUME NEW d \in Clients, asked[d] # None, Head(line) = d, Leaves(d)
      PROVE  /\ asked'[c] # None => \E i \in DOMAIN line' : line'[i] = c
             /\ Running(c)' => Head(line') = c
  <2>1. line' = Tail(line) /\ asked' = [asked EXCEPT ![d] = None]
    BY <1>6 DEF Leaves
  <2>2. CASE c = d
    BY <1>2, <2>1, <2>2 DEF Running
  <2>3. CASE c # d
    <3>1. asked'[c] = asked[c]
      BY <1>2, <2>1, <2>3
    <3>2. /\ line # <<>> /\ line' \in Seq(Clients) /\ Len(line') = Len(line) - 1
          /\ \A i \in 1..Len(line') : line'[i] = line[i + 1]
      BY <1>1, <1>6, <2>1, LineEffect
    <3>3. ~Running(c)
      BY <1>3, <1>6, <2>3
    <3>4. ASSUME NEW i \in DOMAIN line, line[i] = c PROVE \E j \in DOMAIN line' : line'[j] = c
      <4>1. i # 1
        BY <1>2, <1>6, <2>3, <3>2, <3>4
      <4>2. i - 1 \in 1..Len(line') /\ (i - 1) + 1 = i
        BY <1>2, <3>2, <4>1
      <4>3. DOMAIN line' = 1..Len(line')
        BY <3>2
      <4> QED BY <3>2, <3>4, <4>2, <4>3
    <3> QED BY <1>3, <3>1, <3>3, <3>4 DEF Running
  <2> QED BY <2>2, <2>3
<1>7. ASSUME NEW d \in Clients, asked[d] # None, Head(line) = d, Runs(d), UNCHANGED line
      PROVE  /\ asked'[c] # None => \E i \in DOMAIN line' : line'[i] = c
             /\ Running(c)' => Head(line') = c
  <2>1. CASE c = d
    BY <1>3, <1>7, <2>1
  <2>2. CASE c # d
    <3>1. asked'[c] = asked[c]
      BY <1>2, <1>7, <2>2 DEF Runs
    <3> QED BY <1>3, <1>7, <3>1 DEF Running
  <2> QED BY <2>1, <2>2
<1> QED BY <1>4, <1>5, <1>6, <1>7, AskedStep DEF AskedEffect

\* A request that runs stays as it is until the router has answered or the Session is deleted.
LEMMA RunningStays ==
    ASSUME ServerInv, [Next]_vars, NEW c \in Clients, Running(c), ~RouterAnswers(c), ~Delete(c)
    PROVE  asked'[c] = asked[c]
<1> USE DEF serverVars
<1>1. asked \in [Clients -> Request \cup {None}]
  BY DEF ServerInv, TypeOK
<1>2. asked[c] # None /\ asked[c].running
  BY DEF Running
<1>3. ASSUME NEW d \in Clients, Leaves(d) \/ Runs(d), d # c PROVE asked'[c] = asked[c]
  BY <1>1, <1>3 DEF Leaves, Runs
<1>4. ASSUME NEW d \in Clients, ApplicationStep(d) PROVE asked'[c] = asked[c]
  <2>1. CASE d # c
    BY <1>3, <1>4, <2>1 DEF ApplicationStep, AskRouter, RouterAnswers, AskRemoval, Delete
  <2>2. CASE d = c
    BY <1>2, <1>4, <2>2 DEF ApplicationStep, AskRouter, AskRemoval, Turn
  <2> QED BY <2>1, <2>2
<1>5. ASSUME NEW d \in Clients, Ask(d) PROVE asked'[c] = asked[c]
  BY <1>1, <1>2, <1>5 DEF Ask
<1>6. ASSUME NEW d \in Clients, Call(d) \/ Lost(d) PROVE asked'[c] = asked[c]
  BY <1>6 DEF Call, Lost
<1>7. ASSUME RouterStep \/ UNCHANGED serverVars \/ Close \/ CloseState \/ UNCHANGED vars
      PROVE  asked'[c] = asked[c]
  BY <1>7 DEF RouterStep, Close, CloseState, vars
<1> QED BY <1>4, <1>5, <1>6, <1>7 DEF Next

\* Nothing but AskRouter puts an attach or a detach into a queue.
LEMMA QueueMembers ==
    ASSUME ServerInv, TypeOK', [Next]_vars, NEW c \in Clients, ~AskRouter(c),
           NEW i \in DOMAIN queue'[c], queue'[c][i].op \in {"attach", "detach"}
    PROVE  \E j \in DOMAIN queue[c] : queue'[c][i] = queue[c][j]
<1>1. TypeOK
  BY DEF ServerInv
<1>2. queue[c] \in Seq(Operation) /\ Len(queue[c]) \in Nat /\ DOMAIN queue[c] = 1..Len(queue[c])
  BY <1>1, LenProperties DEF TypeOK
<1>3. queue'[c] \in Seq(Operation) /\ Len(queue'[c]) \in Nat /\ DOMAIN queue'[c] = 1..Len(queue'[c])
  BY LenProperties DEF TypeOK
<1>4. CASE UNCHANGED <<queue, draining>>
  BY <1>4
<1>5. ASSUME NEW d \in Clients, Settle(d), queue[d] # <<>>
      PROVE  \E j \in DOMAIN queue[c] : queue'[c][i] = queue[c][j]
  BY <1>1, <1>5, SettledQueue
<1>6. ASSUME NEW d \in Clients, NEW op \in Operation, Enqueue(d, op),
             op.op \in {"attach", "detach"} => AskRouter(d)
      PROVE  \E j \in DOMAIN queue[c] : queue'[c][i] = queue[c][j]
  <2>1. CASE d # c
    BY <1>1, <1>6, <2>1, EnqueueEffect
  <2>2. CASE d = c
    <3>1. /\ Len(queue'[c]) = Len(queue[c]) + 1 /\ queue'[c][Len(queue[c]) + 1] = op
          /\ \A j \in 1..Len(queue[c]) : queue'[c][j] = queue[c][j]
      BY <1>1, <1>6, <2>2, EnqueueEffect
    <3>2. op.op \notin {"attach", "detach"}
      BY <1>6, <2>2
    <3>3. i \in 1..Len(queue[c]) \/ i = Len(queue[c]) + 1
      BY <1>2, <1>3, <3>1
    <3> QED BY <1>2, <3>1, <3>2, <3>3
  <2> QED BY <2>1, <2>2
<1>7. ASSUME NEW cs \in SUBSET Clients, Disconnects(cs)
      PROVE  \E j \in DOMAIN queue[c] : queue'[c][i] = queue[c][j]
  <2>1. i \in 1..Len(queue[c])
    <3>1. i \in 1..Len(queue[c]) \/ queue'[c][i].op = "disconnect"
      BY <1>1, <1>7, DisconnectEffect
    <3> QED BY <3>1
  <2> QED BY <1>1, <1>2, <1>7, <2>1, DisconnectEffect
<1>8. CASE CloseState
  <2>1. connected \in SUBSET Clients /\ Disconnects(connected)
    BY <1>1, <1>8 DEF CloseState, TypeOK
  <2> QED BY <1>7, <2>1
<1>9. ASSUME NEW d \in Clients, Lost(d)
      PROVE  \E j \in DOMAIN queue[c] : queue'[c][i] = queue[c][j]
  <2>1. {d} \in SUBSET Clients /\ Disconnects({d})
    BY <1>9 DEF Lost
  <2> QED BY <1>7, <2>1
<1> QED BY <1>4, <1>5, <1>6, <1>8, <1>9, QueuesStep DEF QueueEffect

\* Who removes a Session, and how far that goes.
LEMMA RemovalEffect ==
    ASSUME ServerInv, [Next]_vars, NEW c \in Clients
    PROVE  removal'[c] = removal[c] \/ AskRemoval(c) \/ Delete(c)
             \/ (UNCHANGED serverVars /\ (RemoveClose(c) \/ RemoveEnd(c)))
<1> USE DEF clientVars, closeVars, hostVars, routerVars
<1>1. TypeOK
  BY DEF ServerInv
<1>2. removal \in [Clients -> Removal]
  BY <1>1 DEF TypeOK
<1>3. ASSUME NEW d \in Clients, ClientStep(d), UNCHANGED serverVars
      PROVE  removal'[c] = removal[c] \/ (UNCHANGED serverVars /\ (RemoveClose(c) \/ RemoveEnd(c)))
  <2>1. CASE RemoveClose(d) \/ RemoveEnd(d)
    BY <1>2, <1>3, <2>1 DEF RemoveClose, RemoveEnd
  <2>2. CASE ~(RemoveClose(d) \/ RemoveEnd(d))
    BY <1>3, <2>2 DEF ClientStep, AttachStart, Unavailable, Acquired, Left, Leased, ReleaseStart, ReleaseEnd, CallStart
  <2> QED BY <2>1, <2>2
<1>4. ASSUME NEW a \in Ids, AttachmentStep(a) PROVE UNCHANGED removal
  BY <1>4 DEF AttachmentStep, ReleaseLease, Clear, Cleared, Grant, CallSettles
<1>5. ASSUME NEW h \in HandleIds, HandleStep(h) \/ Terminates(h) PROVE UNCHANGED removal
  BY <1>5 DEF HandleStep, HandleCloses, Invalidate, Terminates
<1>6. ASSUME NEW s \in Sessions, Opens(s) \/ OpenFails(s) PROVE UNCHANGED removal
  BY <1>6 DEF Opens, OpenFails
<1>7. ASSUME ShutdownStep PROVE UNCHANGED removal
  BY <1>7 DEF ShutdownStep, ShutdownReleases, ShutdownCloses, ShutdownEnds
<1>8. ASSUME NEW d \in Clients, ApplicationStep(d)
      PROVE  removal'[c] = removal[c] \/ AskRemoval(c) \/ Delete(c)
  <2>1. CASE AskRouter(d) \/ RouterAnswers(d)
    BY <2>1 DEF AskRouter, RouterAnswers
  <2>2. CASE AskRemoval(d)
    BY <1>2, <2>2 DEF AskRemoval, RemoveStart
  <2>3. CASE Delete(d)
    BY <1>2, <2>3 DEF Delete
  <2> QED BY <1>8, <2>1, <2>2, <2>3 DEF ApplicationStep
<1>9. ASSUME NEW d \in Clients, Ask(d) \/ Call(d) \/ Lost(d) PROVE UNCHANGED removal
  BY <1>9 DEF Ask, Call, Lost
<1>10. ASSUME Close \/ CloseState \/ UNCHANGED vars PROVE UNCHANGED removal
  BY <1>10 DEF Close, CloseState, vars
<1>11. CASE RouterStep
  BY <1>3, <1>4, <1>5, <1>6, <1>7, <1>11 DEF RouterStep
<1> QED BY <1>5, <1>8, <1>9, <1>10, <1>11 DEF Next

\* What removing a Session starts with.
LEMMA RemovalStarts ==
    ASSUME TypeOK, NEW c \in Clients, AskRemoval(c), asked[c] # None
    PROVE  \E s \in Sessions :
             /\ asked[c].session = s
             /\ removal'[c].session = s
             /\ removal'[c].phase \in {"releasing", "ended"}
             /\ removal'[c].phase = "ended" => UNCHANGED attachments /\ (removal'[c].ok => hosted[s] = 0)
             /\ removal'[c].phase = "releasing" =>
                  /\ ~closing /\ hosted[s] # 0 /\ removal'[c].handle = hosted[s]
                  /\ removal'[c].waits = Listed(hosted[s])
                  /\ attachments' = Releasing(Listed(hosted[s]), TRUE)
<1>1. asked[c] \in Request /\ removal \in [Clients -> Removal] /\ closing \in BOOLEAN
  BY DEF TypeOK
<1>2. PICK s \in Sessions : s = asked[c].session
  BY <1>1 DEF AskRemoval, Request
<1>3. RemoveStart(c, s)
  BY <1>2 DEF AskRemoval
<1>4. CASE closing
  <2>1. removal'[c] = [NoRemoval EXCEPT !.phase = "ended", !.session = s, !.ok = FALSE] /\ UNCHANGED attachments
    BY <1>1, <1>3, <1>4 DEF RemoveStart
  <2>2. removal'[c].phase = "ended" /\ removal'[c].session = s /\ removal'[c].ok = FALSE
    BY <2>1 DEF NoRemoval
  <2> QED BY <1>2, <1>4, <2>1, <2>2
<1>5. CASE ~closing /\ hosted[s] = 0
  <2>1. removal'[c] = [NoRemoval EXCEPT !.phase = "ended", !.session = s] /\ UNCHANGED attachments
    BY <1>1, <1>3, <1>5 DEF RemoveStart
  <2>2. removal'[c].phase = "ended" /\ removal'[c].session = s /\ removal'[c].ok = TRUE
    BY <2>1 DEF NoRemoval
  <2> QED BY <1>2, <1>5, <2>1, <2>2
<1>6. CASE ~closing /\ hosted[s] # 0
  <2>1. /\ removal'[c] = [phase |-> "releasing", handle |-> hosted[s], waits |-> Listed(hosted[s]), session |-> s, ok |-> TRUE]
        /\ attachments' = Releasing(Listed(hosted[s]), TRUE)
    BY <1>1, <1>3, <1>6 DEF RemoveStart
  <2>2. /\ removal'[c].phase = "releasing" /\ removal'[c].session = s /\ removal'[c].handle = hosted[s]
        /\ removal'[c].waits = Listed(hosted[s])
    BY <2>1
  <2> QED BY <1>2, <1>6, <2>1, <2>2
<1> QED BY <1>4, <1>5, <1>6

\* Removal goes on with the handle and the Session it began with.
LEMMA RemovalGoesOn ==
    ASSUME TypeOK, NEW c \in Clients, RemoveClose(c) \/ RemoveEnd(c)
    PROVE  /\ removal'[c].handle = removal[c].handle /\ removal'[c].session = removal[c].session
           /\ removal'[c].waits = removal[c].waits
           /\ RemoveClose(c) => removal[c].phase = "releasing" /\ removal'[c].phase = "closing"
           /\ RemoveEnd(c) => /\ removal[c].phase = "closing" /\ removal'[c].phase = "ended"
                              /\ removal'[c].ok => handles[removal[c].handle].state # "failed"
<1>1. PICK r \in Removal : r = removal[c]
  BY DEF TypeOK
<1>2. ASSUME RemoveClose(c)
      PROVE  \E b : removal'[c] = [r EXCEPT !.phase = "closing", !.ok = b]
  BY <1>1, <1>2 DEF RemoveClose, TypeOK
<1>3. ASSUME RemoveEnd(c)
      PROVE  removal'[c] = [r EXCEPT !.phase = "ended", !.ok = @ /\ handles[r.handle].state # "failed"]
  BY <1>1, <1>3 DEF RemoveEnd, TypeOK
<1>4. ASSUME RemoveClose(c)
      PROVE  /\ removal'[c].handle = r.handle /\ removal'[c].session = r.session /\ removal'[c].waits = r.waits
             /\ removal'[c].phase = "closing"
  BY <1>2, <1>4 DEF Removal
<1>5. ASSUME RemoveEnd(c)
      PROVE  /\ removal'[c].handle = r.handle /\ removal'[c].session = r.session /\ removal'[c].waits = r.waits
             /\ removal'[c].phase = "ended" /\ (removal'[c].ok => handles[r.handle].state # "failed")
  BY <1>3, <1>5 DEF Removal
<1>6. ~(RemoveClose(c) /\ RemoveEnd(c))
  BY DEF RemoveClose, RemoveEnd
<1> QED BY <1>1, <1>4, <1>5, <1>6 DEF RemoveClose, RemoveEnd

\* Requests stay as RequestAt says.
LEMMA RequestsStep ==
    ASSUME ServerInv, TypeOK', Keeps, [Next]_vars, NEW c \in Clients
    PROVE  RequestAt(c)'
<1> DEFINE Asks == \A i \in DOMAIN queue'[c] : queue'[c][i].op \in {"attach", "detach"} =>
                     Running(c)' /\ asked'[c].op \in {"attach", "detach"}
           Removes == removal'[c].phase # "none" =>
                        Running(c)' /\ asked'[c].op = "remove" /\ removal'[c].session \in Sessions
           Known == removal'[c].phase \in {"releasing", "closing"} =>
                      /\ removal'[c].handle \in HandleIds'
                      /\ handles'[removal'[c].handle].session = removal'[c].session
                      /\ removal'[c].waits \subseteq Ids'
<1>1. TypeOK /\ RequestAt(c) /\ HostInv
  BY DEF ServerInv
<1>2. removal \in [Clients -> Removal] /\ asked \in [Clients -> Request \cup {None}]
  BY <1>1 DEF TypeOK
<1>3. /\ \A i \in DOMAIN queue[c] : queue[c][i].op \in {"attach", "detach"} =>
           Running(c) /\ asked[c].op \in {"attach", "detach"}
      /\ removal[c].phase # "none" => Running(c) /\ asked[c].op = "remove" /\ removal[c].session \in Sessions
  BY <1>1 DEF RequestAt
<1>4. /\ serial' /\ asked'[c] # None => \E i \in DOMAIN line' : line'[i] = c
      /\ serial' /\ Running(c)' => Head(line') = c
  BY LineStep, AskedStep
<1>5. removal'[c] = removal[c] => Known
  BY <1>1 DEF RequestAt, Keeps
<1>6. CASE RouterAnswers(c)
  <2>1. UNCHANGED <<queue, removal>>
    BY <1>6 DEF RouterAnswers, routerVars, clientVars, closeVars
  <2>2. removal[c].phase = "none"
    BY <1>3, <1>6 DEF RouterAnswers
  <2>3. Asks
    BY <1>6, <2>1 DEF RouterAnswers
  <2> QED BY <1>4, <2>1, <2>2, <2>3 DEF RequestAt
<1>7. CASE Delete(c)
  <2>1. UNCHANGED queue /\ removal[c].phase = "ended" /\ removal'[c].phase = "none"
    BY <1>2, <1>7 DEF Delete, NoRemoval, clientVars
  <2>2. Asks
    BY <1>3, <2>1
  <2> QED BY <1>4, <2>1, <2>2 DEF RequestAt
<1>8. CASE AskRouter(c)
  <2>1. ~Running(c) /\ removal'[c] = removal[c] /\ removal[c].phase = "none"
    BY <1>3, <1>8 DEF AskRouter, Turn, Running, closeVars
  <2>2. \A i \in DOMAIN queue[c] : queue[c][i].op \notin {"attach", "detach"}
    BY <1>3, <2>1
  <2>3. CASE UNCHANGED queue
    BY <1>4, <2>1, <2>2, <2>3 DEF RequestAt
  <2>4. CASE Runs(c)
    <3>1. asked[c] # None /\ asked[c].op \in {"attach", "detach"}
      BY <1>8 DEF AskRouter, Turn
    <3>2. asked'[c] \in Request /\ asked'[c].running /\ asked'[c].op = asked[c].op
      BY <1>1, <2>4, <3>1, RequestTyped
    <3>3. Running(c)' /\ asked'[c].op \in {"attach", "detach"}
      BY <3>1, <3>2, NoRequestAssumption DEF Running
    <3> QED BY <1>4, <2>1, <3>3 DEF RequestAt
  <2> QED BY <1>8, <2>3, <2>4 DEF AskRouter
<1>9. CASE AskRemoval(c)
  <2>1. ~Running(c) /\ UNCHANGED <<queue, handles>> /\ asked[c] # None /\ Runs(c) /\ asked[c].op = "remove"
    BY <1>9 DEF AskRemoval, Turn, Running, clientVars
  <2>2. Asks
    BY <1>3, <2>1
  <2>3. asked'[c] \in Request /\ asked'[c].running /\ asked'[c].op = "remove"
    BY <1>1, <2>1, RequestTyped
  <2>4. Running(c)'
    BY <2>3, NoRequestAssumption DEF Running
  <2>5. Known
    <3>1. PICK s \in Sessions :
            /\ removal'[c].session = s
            /\ removal'[c].phase \in {"releasing", "ended"}
            /\ removal'[c].phase = "releasing" =>
                 /\ hosted[s] # 0 /\ removal'[c].handle = hosted[s] /\ removal'[c].waits = Listed(hosted[s])
      BY <1>1, <1>9, <2>1, RemovalStarts
    <3>2. hosted[s] # 0 => hosted[s] \in HandleIds' /\ handles'[hosted[s]].session = s
      BY <1>1, <2>1 DEF HostInv, Keeps
    <3>3. Listed(hosted[s]) \subseteq Ids'
      BY DEF Listed, Keeps
    <3> QED BY <3>1, <3>2, <3>3
  <2>6. removal'[c].session \in Sessions
    BY <1>1, <1>9, <2>1, RemovalStarts
  <2> QED BY <1>4, <2>2, <2>3, <2>4, <2>5, <2>6 DEF RequestAt
<1>10. CASE ~RouterAnswers(c) /\ ~Delete(c) /\ ~AskRouter(c) /\ ~AskRemoval(c)
  <2>1. Running(c) => asked'[c] = asked[c] /\ Running(c)'
    BY <1>10, RunningStays DEF Running
  <2>2. Asks
    <3>1. ASSUME NEW i \in DOMAIN queue'[c], queue'[c][i].op \in {"attach", "detach"}
          PROVE  Running(c)' /\ asked'[c].op \in {"attach", "detach"}
      BY <1>3, <1>10, <2>1, <3>1, QueueMembers
    <3> QED BY <3>1
  <2>3. CASE removal'[c] = removal[c]
    BY <1>3, <1>4, <1>5, <2>1, <2>2, <2>3 DEF RequestAt
  <2>4. CASE RemoveClose(c) \/ RemoveEnd(c)
    <3>1. removal[c].phase \in {"releasing", "closing"}
      BY <2>4 DEF RemoveClose, RemoveEnd
    <3>2. Removes
      BY <1>1, <1>3, <2>1, <2>4, <3>1, RemovalGoesOn
    <3>3. Known
      BY <1>1, <2>4, <3>1, RemovalGoesOn DEF RequestAt, Keeps
    <3> QED BY <1>4, <2>2, <3>2, <3>3 DEF RequestAt
  <2> QED BY <1>10, <2>3, <2>4, RemovalEffect
<1> QED BY <1>6, <1>7, <1>8, <1>9, <1>10

-----------------------------------------------------------------------------
(* Deletion.                                                               *)

\* Nobody else runs while a serial application removes a Session, and nobody attaches.
LEMMA NobodyAttaches ==
    ASSUME ServerInv, serial, NEW c \in Clients, Head(line) = c, asked[c].op = "remove"
    PROVE  /\ opening = {} /\ \A a \in Ids : attachments[a].lease # "acquiring"
           /\ \A d \in Clients \ {c} : removal[d].phase = "none"
<1>1. TypeOK /\ HostInv /\ \A d \in Clients : ClientAt(d) /\ RequestAt(d)
  BY DEF ServerInv
<1>2. ASSUME NEW d \in Clients, Running(d) PROVE d = c
  BY <1>1, <1>2 DEF RequestAt
<1>3. ASSUME NEW d \in Clients PROVE step[d] \notin Attaching
  <2>1. SUFFICES ASSUME step[d] \in Attaching PROVE FALSE
    OBVIOUS
  <2>2. queue[d] # <<>> /\ Head(queue[d]).op = "attach"
    BY <1>1, <2>1 DEF ClientAt, Attaching
  <2>3. 1 \in DOMAIN queue[d] /\ queue[d][1] = Head(queue[d])
    <3>1. queue[d] \in Seq(Operation)
      BY <1>1 DEF TypeOK
    <3> QED BY <2>2, <3>1
  <2>4. Running(d) /\ asked[d].op \in {"attach", "detach"}
    BY <1>1, <2>2, <2>3 DEF RequestAt
  <2> QED BY <1>2, <2>4
<1>4. opening = {}
  <2>1. ASSUME NEW s \in opening PROVE FALSE
    BY <1>1, <1>3, <2>1 DEF HostInv, Joined, Attaching
  <2> QED BY <2>1
<1>5. ASSUME NEW a \in Ids PROVE attachments[a].lease # "acquiring"
  <2>1. attachments[a].client \in Clients
    BY <1>1, Typed DEF AttachmentRecord
  <2>2. ~Leasing(a)
    BY <1>3, <2>1 DEF Leasing, Attaching
  <2> QED BY <2>2 DEF ServerInv, AttachmentAt
<1>6. \A d \in Clients \ {c} : removal[d].phase = "none"
  BY <1>1, <1>2 DEF RequestAt
<1> QED BY <1>4, <1>5, <1>6

\* A lease is held since before the step, unless an open handle grants it now.
LEMMA HeldStep ==
    ASSUME ServerInv, Effect, NEW a \in Ids', attachments'[a].lease = "held"
    PROVE  a \in Ids /\ (attachments[a].lease = "held"
                           \/ (/\ attachments[a].lease = "acquiring" /\ UNCHANGED handles
                               /\ handles[attachments[a].handle].state = "open"))
<1> USE DEF Locals, clientVars
<1>1. TypeOK /\ \A c \in Clients : ClientAt(c)
  BY DEF ServerInv
<1>2. CASE UNCHANGED attachments
  BY <1>2 DEF Ids
<1>3. ASSUME NEW as, NEW p \in BOOLEAN, attachments' = Releasing(as, p)
      PROVE  a \in Ids /\ attachments[a].lease = "held"
  BY <1>1, <1>3, BegunEffect DEF Begun, SameBut
<1>4. ASSUME NEW b \in Ids, Only(b), attachments'[b].lease \in {"released", attachments[b].lease}
      PROVE  a \in Ids /\ attachments[a].lease = "held"
  BY <1>4 DEF Only
<1>5. ASSUME NEW b \in Ids, Grant(b)
      PROVE  a \in Ids /\ (attachments[a].lease = "held"
                             \/ (/\ attachments[a].lease = "acquiring" /\ UNCHANGED handles
                                 /\ handles[attachments[a].handle].state = "open"))
  <2>1. UNCHANGED handles
    BY <1>5 DEF Grant
  <2> QED BY <1>1, <1>5, <2>1, GrantEffect DEF Only
<1>6. ASSUME NEW b \in Ids, CallSettles(b) PROVE a \in Ids /\ attachments[a].lease = "held"
  <2>1. PICK id : attachments' = [attachments EXCEPT ![b].calls = @ \ {id}]
    BY <1>6 DEF CallSettles
  <2>2. PICK ids \in SUBSET Nat : ids = attachments[b].calls \ {id}
    BY <1>1, Typed DEF AttachmentRecord
  <2>3. attachments' = [attachments EXCEPT ![b].calls = ids]
    BY <2>1, <2>2
  <2> QED BY <1>1, <1>4, <2>3, CallsEffect
<1>7. ASSUME NEW c \in Clients, Leases(c) PROVE a \in Ids /\ attachments[a].lease = "held"
  <2>1. Lease(c)
    BY <1>7 DEF Leases
  <2>2. /\ Ids' = Ids \cup {Len(attachments) + 1} /\ \A b \in Ids : attachments'[b] = attachments[b]
        /\ attachments'[Len(attachments) + 1] = Attachment(c, found[c])
    BY <1>1, <2>1, LeaseEffect
  <2>3. Attachment(c, found[c]).lease = "acquiring"
    BY DEF Attachment
  <2> QED BY <2>2, <2>3
<1>8. ASSUME NEW c \in Clients, Leased(c) PROVE a \in Ids /\ attachments[a].lease = "held"
  <2>1. PICK m \in Ids : m = mine[c]
    BY <1>1, <1>8 DEF Leased, ClientAt
  <2>2. \/ attachments' = [attachments EXCEPT ![m].listed = FALSE]
        \/ attachments' = Releasing({m}, TRUE) \/ UNCHANGED attachments
    BY <1>8, <2>1 DEF Leased
  <2>3. CASE attachments' = [attachments EXCEPT ![m].listed = FALSE]
    BY <1>1, <1>4, <2>3, UnlistedEffect
  <2>4. CASE UNCHANGED attachments
    BY <2>4 DEF Ids
  <2> QED BY <1>3, <2>2, <2>3, <2>4
<1>9. ASSUME NEW c \in Clients, Calling(c) PROVE a \in Ids /\ attachments[a].lease = "held"
  <2>1. PICK m \in Ids : m = route[c]
    BY <1>1, <1>9 DEF Calling, ClientAt
  <2>2. PICK id \in Nat : attachments' = [attachments EXCEPT ![m].calls = @ \cup {id}]
    BY <1>9, <2>1 DEF Calling
  <2>3. PICK ids \in SUBSET Nat : ids = attachments[m].calls \cup {id}
    BY <1>1, Typed DEF AttachmentRecord
  <2>4. attachments' = [attachments EXCEPT ![m].calls = ids]
    BY <2>2, <2>3
  <2> QED BY <1>1, <1>4, <2>4, CallsEffect
<1>10. ASSUME NEW b \in Ids, ReleaseLease(b) \/ Clear(b) PROVE a \in Ids /\ attachments[a].lease = "held"
  BY <1>1, <1>4, <1>10, ReleaseLeaseEffect, ClearEffect
<1>11. CASE \E b \in Ids : AttachmentStep(b)
  BY <1>5, <1>6, <1>10, <1>11 DEF AttachmentStep
<1>12. CASE (\E as : Reclaims(as)) \/ (\E h \in HandleIds : Invalidate(h))
             \/ (\E c \in Clients : Leaving(c) \/ \E p \in BOOLEAN : Releases(c, p))
  BY <1>3, <1>12 DEF Reclaims, Invalidate, Leaving, Releases
<1>13. CASE Appending \/ HandlesMove \/ Forgets \/ ShutdownEnds \/ (\E s \in Sessions : Opens(s) \/ OpenFails(s))
             \/ (\E c \in Clients : Ends(c) \/ Acquires(c))
  BY <1>2, <1>13 DEF Appending, HandlesMove, Forgets, ShutdownEnds, Opens, OpenFails, Ends, Acquires
<1> QED BY <1>7, <1>8, <1>9, <1>11, <1>12, <1>13 DEF Effect

\* A Session is hosted as before or no longer, unless it is opened now.
LEMMA HostedStep ==
    ASSUME ServerInv, Effect, NEW s \in Sessions
    PROVE  hosted'[s] \in {0, hosted[s]} \/ Opens(s)
<1> USE DEF Locals, clientVars
<1>1. hosted \in [Sessions -> Nat] /\ \A h \in HandleIds : handles[h].session \in Sessions
  BY Typed DEF ServerInv, TypeOK, HandleRecord
<1>2. ASSUME NEW s0 \in Sessions, hosted' = [hosted EXCEPT ![s0] = 0] PROVE hosted'[s] \in {0, hosted[s]}
  BY <1>1, <1>2
<1>3. CASE Forgets
  BY <1>1, <1>2, <1>3 DEF Forgets
<1>4. ASSUME NEW h \in HandleIds, Invalidate(h) PROVE hosted'[s] \in {0, hosted[s]}
  BY <1>1, <1>2, <1>4 DEF Invalidate
<1>5. CASE ShutdownEnds
  BY <1>5 DEF ShutdownEnds
<1>6. ASSUME NEW s0 \in Sessions, Opens(s0) \/ OpenFails(s0) PROVE hosted'[s] \in {0, hosted[s]} \/ Opens(s)
  BY <1>1, <1>6 DEF Opens, OpenFails
<1>7. ASSUME NEW a \in Ids, AttachmentStep(a) PROVE UNCHANGED hosted
  BY <1>7 DEF AttachmentStep, ReleaseLease, Clear, Cleared, Grant, CallSettles
<1>8. CASE Appending \/ HandlesMove \/ (\E as : Reclaims(as))
  BY <1>8 DEF Appending, HandlesMove, Reclaims
<1>9. ASSUME NEW c \in Clients,
             Ends(c) \/ Acquires(c) \/ Leaving(c) \/ Leases(c) \/ Leased(c) \/ Calling(c)
               \/ (\E p \in BOOLEAN : Releases(c, p))
      PROVE  UNCHANGED hosted
  BY <1>9 DEF Ends, Acquires, Leaving, Leases, Leased, Calling, Releases
<1> QED BY <1>3, <1>4, <1>5, <1>6, <1>7, <1>8, <1>9 DEF Effect

\* Who closes a handle.
LEMMA ClosingStep ==
    ASSUME ServerInv, [Next]_vars, NEW h \in HandleIds, handles'[h].state \in {"closing", "closed"}
    PROVE  \/ handles[h].state \in {"closing", "closed"}
           \/ \E c \in Clients : RemoveClose(c) /\ removal[c].handle = h
           \/ ShutdownCloses /\ h \in Hosted
<1> USE DEF clientVars, closeVars, hostVars, routerVars
<1>1. TypeOK
  BY DEF ServerInv
<1>2. handles \in Seq(HandleRecord) /\ h \in DOMAIN handles /\ handles[h] \in HandleRecord
  BY <1>1, Typed DEF TypeOK, HandleIds
<1>3. ASSUME NEW c \in Clients, RemoveClose(c), removal[c].handle # h PROVE handles'[h].state = handles[h].state
  BY <1>2, <1>3 DEF RemoveClose, CloseHandle
<1>4. ASSUME NEW g \in HandleIds, HandleCloses(g) PROVE handles[h].state \in {"closing", "closed"}
  BY <1>2, <1>4 DEF HandleCloses
<1>5. ASSUME NEW g \in HandleIds, Terminates(g) PROVE handles[h].state \in {"closing", "closed"}
  <2>1. g # h
    <3>1. PICK x \in HandleRecord : x = handles[h]
      BY <1>2
    <3>2. PICK y : y = [x EXCEPT !.state = "terminated"]
      OBVIOUS
    <3>3. y.state = "terminated"
      BY <3>2 DEF HandleRecord
    <3>4. g = h => handles'[h] = y
      BY <1>2, <1>5, <3>1, <3>2 DEF Terminates
    <3> QED BY <3>3, <3>4
  <2> QED BY <1>2, <1>5, <2>1 DEF Terminates
<1>6. ASSUME NEW s \in Sessions, Opens(s) PROVE handles'[h] = handles[h]
  <2>1. PICK x \in HandleRecord : handles' = Append(handles, x)
    <3>1. [session |-> s, state |-> IF closing THEN "closed" ELSE "open"] \in HandleRecord
      BY DEF HandleRecord
    <3> QED BY <1>6, <3>1 DEF Opens
  <2> QED BY <1>1, <2>1, NewHandle
<1>7. ASSUME ShutdownCloses, h \notin Hosted PROVE handles'[h].state = handles[h].state
  BY <1>1, <1>7, ShutdownClosesEffect
<1>8. ASSUME NEW c \in Clients, ClientStep(c), ~RemoveClose(c) PROVE UNCHANGED handles
  BY <1>8 DEF ClientStep, AttachStart, Unavailable, Acquired, Left, Leased, ReleaseStart, ReleaseEnd, CallStart,
              RemoveEnd
<1>9. ASSUME NEW a \in Ids, AttachmentStep(a) PROVE UNCHANGED handles
  BY <1>9 DEF AttachmentStep, ReleaseLease, Clear, Cleared, Grant, CallSettles
<1>10. ASSUME NEW g \in HandleIds, Invalidate(g) PROVE UNCHANGED handles
  BY <1>10 DEF Invalidate
<1>11. ASSUME NEW s \in Sessions, OpenFails(s) PROVE UNCHANGED handles
  BY <1>11 DEF OpenFails
<1>12. ASSUME ShutdownReleases \/ ShutdownEnds PROVE UNCHANGED handles
  BY <1>12 DEF ShutdownReleases, ShutdownEnds
<1>13. ASSUME NEW c \in Clients, ApplicationStep(c) \/ Ask(c) \/ Call(c) \/ Lost(c) PROVE UNCHANGED handles
  BY <1>13 DEF ApplicationStep, AskRouter, RouterAnswers, AskRemoval, Delete, Ask, Call, Lost
<1>14. ASSUME Close \/ CloseState \/ UNCHANGED vars PROVE UNCHANGED handles
  BY <1>14 DEF Close, CloseState, vars
<1>15. CASE RouterStep
  BY <1>3, <1>4, <1>6, <1>7, <1>8, <1>9, <1>10, <1>11, <1>12, <1>15 DEF RouterStep, HandleStep, ShutdownStep, ClientStep
<1> QED BY <1>5, <1>13, <1>14, <1>15 DEF Next

\* Only Delete takes a Session out of the catalog.
LEMMA CatalogStep ==
    ASSUME [Next]_vars
    PROVE  UNCHANGED catalog \/ \E c \in Clients : Delete(c)
<1> USE DEF clientVars, closeVars, hostVars, routerVars
<1>1. ASSUME NEW c \in Clients, ClientStep(c) PROVE UNCHANGED catalog
  BY <1>1 DEF ClientStep, AttachStart, Unavailable, Acquired, Left, Leased, ReleaseStart, ReleaseEnd, CallStart,
              RemoveClose, RemoveEnd
<1>2. ASSUME NEW a \in Ids, AttachmentStep(a) PROVE UNCHANGED catalog
  BY <1>2 DEF AttachmentStep, ReleaseLease, Clear, Cleared, Grant, CallSettles
<1>3. ASSUME NEW h \in HandleIds, HandleStep(h) \/ Terminates(h) PROVE UNCHANGED catalog
  BY <1>3 DEF HandleStep, HandleCloses, Invalidate, Terminates
<1>4. ASSUME NEW s \in Sessions, Opens(s) \/ OpenFails(s) PROVE UNCHANGED catalog
  BY <1>4 DEF Opens, OpenFails
<1>5. ASSUME ShutdownStep PROVE UNCHANGED catalog
  BY <1>5 DEF ShutdownStep, ShutdownReleases, ShutdownCloses, ShutdownEnds
<1>6. ASSUME NEW c \in Clients, AskRouter(c) \/ RouterAnswers(c) \/ AskRemoval(c) \/ Ask(c) \/ Call(c) \/ Lost(c)
      PROVE  UNCHANGED catalog
  BY <1>6 DEF AskRouter, RouterAnswers, AskRemoval, Ask, Call, Lost
<1>7. ASSUME Close \/ CloseState \/ UNCHANGED vars PROVE UNCHANGED catalog
  BY <1>7 DEF Close, CloseState, vars
<1>8. CASE RouterStep
  BY <1>1, <1>2, <1>3, <1>4, <1>5, <1>8 DEF RouterStep
<1> QED BY <1>3, <1>6, <1>7, <1>8 DEF Next, ApplicationStep

\* A held lease is on its handle's list.
LEMMA HeldIsListed ==
    ASSUME TypeOK, NEW a \in Ids, AttachmentAt(a), attachments[a].lease = "held"
    PROVE  attachments[a].listed /\ ~Released(a)
BY DEF AttachmentAt

\* No handle closes under a held lease.
LEMMA HeldIsOpen ==
    ASSUME ServerInv, Keeps, Effect, [Next]_vars, serial, NEW a \in Ids', attachments'[a].lease = "held"
    PROVE  handles'[attachments'[a].handle].state \notin {"closing", "closed"}
<1>1. TypeOK /\ DeletionInv /\ ShutdownInv /\ HostInv /\ (\A c \in Clients : RequestAt(c))
      /\ \A b \in Ids : AttachmentAt(b)
  BY DEF ServerInv
<1>2. a \in Ids /\ (attachments[a].lease = "held"
                      \/ (/\ attachments[a].lease = "acquiring" /\ UNCHANGED handles
                          /\ handles[attachments[a].handle].state = "open"))
  BY HeldStep
<1>3. PICK h \in HandleIds : h = attachments[a].handle /\ attachments'[a].handle = h
  BY <1>1, <1>2 DEF AttachmentAt, Keeps
<1>4. CASE UNCHANGED handles /\ handles[h].state = "open"
  BY <1>3, <1>4
<1>5. CASE attachments[a].lease = "held"
  <2>1. handles[h].state \notin {"closing", "closed"}
    BY <1>1, <1>2, <1>3, <1>5 DEF DeletionInv
  <2>2. attachments[a].listed /\ ~Released(a)
    BY <1>1, <1>2, <1>5, HeldIsListed
  <2>3. ASSUME NEW c \in Clients, RemoveClose(c), removal[c].handle = h PROVE FALSE
    <3>1. a \in removal[c].waits
      BY <1>1, <1>2, <1>3, <1>5, <2>3 DEF DeletionInv, RemoveClose
    <3> QED BY <2>2, <2>3, <3>1 DEF RemoveClose
  <2>4. ASSUME ShutdownCloses, h \in Hosted PROVE FALSE
    <3>1. PICK s \in Sessions : h = hosted[s] /\ h # 0
      BY <2>4 DEF Hosted
    <3>2. handles[h].session = s
      BY <1>1, <3>1 DEF HostInv
    <3>3. attachments[a].release # "no"
      BY <1>1, <1>2, <1>3, <2>2, <2>4, <3>1, <3>2 DEF ShutdownInv, ShutdownCloses, SessionOf
    <3>4. a \in Listed(h)
      BY <1>2, <1>3, <2>2 DEF Listed
    <3> QED BY <2>4, <3>3, <3>4 DEF ShutdownCloses
  <2> QED BY <1>3, <2>1, <2>3, <2>4, ClosingStep
<1> QED BY <1>2, <1>3, <1>4, <1>5

\* A removal under way has all that is left of its Session.
LEMMA RemovalStep ==
    ASSUME ServerInv, Keeps, Effect, [Next]_vars, serial, NEW c \in Clients
    PROVE  /\ removal'[c].phase \in {"releasing", "closing"} =>
                /\ hosted'[removal'[c].session] \in {0, removal'[c].handle}
                /\ \A a \in Ids' : attachments'[a].handle = removal'[c].handle /\ attachments'[a].lease = "held"
                     => a \in removal'[c].waits
           /\ removal'[c].phase = "ended" /\ removal'[c].ok => hosted'[removal'[c].session] = 0
<1>1. TypeOK /\ DeletionInv /\ RequestAt(c) /\ HostInv /\ \A b \in Ids : AttachmentAt(b)
  BY DEF ServerInv
<1>2. removal \in [Clients -> Removal] /\ hosted \in [Sessions -> Nat]
  BY <1>1 DEF TypeOK
<1>3. /\ removal[c].phase \in {"releasing", "closing"} =>
           /\ hosted[removal[c].session] \in {0, removal[c].handle}
           /\ \A a \in Ids : attachments[a].handle = removal[c].handle /\ attachments[a].lease = "held"
                => a \in removal[c].waits
      /\ removal[c].phase = "ended" /\ removal[c].ok => hosted[removal[c].session] = 0
  BY <1>1 DEF DeletionInv
<1>4. ASSUME Head(line) = c, asked[c].op = "remove"
      PROVE  /\ \A s \in Sessions : hosted'[s] \in {0, hosted[s]}
             /\ \A a \in Ids' : attachments'[a].lease = "held" =>
                  a \in Ids /\ attachments[a].lease = "held" /\ attachments'[a].handle = attachments[a].handle
  <2>1. opening = {} /\ \A a \in Ids : attachments[a].lease # "acquiring"
    BY <1>4, NobodyAttaches
  <2>2. \A s \in Sessions : ~Opens(s)
    BY <2>1 DEF Opens
  <2> QED BY <2>1, <2>2, HostedStep, HeldStep DEF Keeps
<1>5. removal[c].phase # "none" => Head(line) = c /\ asked[c].op = "remove"
  BY <1>1 DEF RequestAt
<1>6. CASE removal'[c] = removal[c] /\ removal[c].phase # "none"
  <2>1. removal[c].session \in Sessions
    BY <1>1, <1>6 DEF RequestAt
  <2>2. removal[c].phase \in {"releasing", "closing"} => hosted'[removal[c].session] \in {0, removal[c].handle}
    BY <1>3, <1>4, <1>5, <1>6, <2>1
  <2>3. removal[c].phase = "ended" /\ removal[c].ok => hosted'[removal[c].session] = 0
    BY <1>3, <1>4, <1>5, <1>6, <2>1
  <2> QED BY <1>3, <1>4, <1>5, <1>6, <2>2, <2>3
<1>7. CASE AskRemoval(c)
  <2>1. Head(line) = c /\ asked[c].op = "remove" /\ asked[c] # None /\ UNCHANGED <<hosted, handles>>
    BY <1>7 DEF AskRemoval, Turn
  <2>2. PICK s \in Sessions :
          /\ removal'[c].session = s /\ removal'[c].phase \in {"releasing", "ended"}
          /\ removal'[c].phase = "ended" => (removal'[c].ok => hosted[s] = 0)
          /\ removal'[c].phase = "releasing" =>
               /\ hosted[s] # 0 /\ removal'[c].handle = hosted[s] /\ removal'[c].waits = Listed(hosted[s])
    BY <1>1, <1>7, <2>1, RemovalStarts
  <2>3. ASSUME NEW a \in Ids', attachments'[a].handle = hosted[s], attachments'[a].lease = "held"
        PROVE  a \in Listed(hosted[s])
    <3>1. a \in Ids /\ attachments[a].lease = "held" /\ attachments[a].handle = hosted[s]
      BY <1>4, <2>1, <2>3
    <3>2. attachments[a].listed
      BY <1>1, <3>1, HeldIsListed
    <3> QED BY <3>1, <3>2 DEF Listed
  <2> QED BY <2>1, <2>2, <2>3
<1>8. CASE Delete(c)
  <2>1. removal'[c].phase = "none"
    BY <1>2, <1>8 DEF Delete, NoRemoval
  <2> QED BY <2>1
<1>9. CASE RemoveClose(c)
  <2>1. /\ removal'[c].handle = removal[c].handle /\ removal'[c].session = removal[c].session
        /\ removal'[c].waits = removal[c].waits
        /\ removal[c].phase = "releasing" /\ removal'[c].phase = "closing" /\ UNCHANGED hosted
    BY <1>1, <1>9, RemovalGoesOn DEF RemoveClose
  <2> QED BY <1>3, <1>4, <1>5, <2>1
<1>10. CASE RemoveEnd(c)
  <2>1. /\ removal'[c].session = removal[c].session
        /\ removal[c].phase = "closing" /\ removal'[c].phase = "ended"
    BY <1>1, <1>10, RemovalGoesOn
  <2>2. PICK h \in HandleIds, s \in Sessions :
          h = removal[c].handle /\ s = removal[c].session /\ handles[h].session = s
    BY <1>1, <2>1, Typed DEF RequestAt, HandleRecord
  <2>3. hosted[s] \in {0, h}
    BY <1>3, <2>1, <2>2
  <2>4. hosted' = IF hosted[s] = h THEN [hosted EXCEPT ![s] = 0] ELSE hosted
    BY <1>10, <2>2 DEF RemoveEnd
  <2>5. hosted'[s] = 0
    BY <1>2, <2>3, <2>4
  <2> QED BY <2>1, <2>2, <2>5
<1> QED BY <1>6, <1>7, <1>8, <1>9, <1>10, RemovalEffect

\* What is deleted is not hosted again.
LEMMA DeletionStep ==
    ASSUME ServerInv, Keeps, Effect, [Next]_vars, serial
    PROVE  DeletionInv'
<1>1. TypeOK /\ DeletionInv /\ HostInv /\ \A c \in Clients : RequestAt(c)
  BY DEF ServerInv
<1>2. ASSUME NEW s \in Sessions \ catalog' PROVE hosted'[s] = 0
  <2>1. CASE s \notin catalog
    <3>1. hosted[s] = 0 /\ ~Opens(s)
      BY <1>1, <2>1 DEF DeletionInv, Opens
    <3> QED BY <3>1, HostedStep
  <2>2. CASE s \in catalog
    <3>1. PICK c \in Clients : Delete(c)
      BY <1>2, <2>2, CatalogStep
    <3>2. removal[c].phase = "ended" /\ removal[c].ok /\ removal[c].session = s /\ UNCHANGED hosted
      BY <1>2, <2>2, <3>1 DEF Delete
    <3>3. hosted[s] = 0
      BY <1>1, <3>2 DEF DeletionInv
    <3> QED BY <3>2, <3>3
  <2> QED BY <2>1, <2>2
<1> QED BY <1>2, RemovalStep, HeldIsOpen DEF DeletionInv

-----------------------------------------------------------------------------
(* The invariant.                                                          *)

\* In the beginning nothing is made, asked for or deleted.
LEMMA ServerInit == Init => ServerInv
<1> SUFFICES ASSUME Init PROVE ServerInv
  OBVIOUS
<1> USE DEF Init, RouterInit
<1>1. Ids = {} /\ HandleIds = {}
  BY DEF Ids, HandleIds
<1>2. \A c \in Clients : removal[c] = NoRemoval
  OBVIOUS
<1>3. NoRemoval \in Removal /\ NoRemoval.phase = "none"
  BY DEF NoRemoval, Removal
<1>4. removal \in [Clients -> Removal]
  <2>1. removal = [c \in Clients |-> NoRemoval]
    OBVIOUS
  <2> QED BY <1>3, <2>1
<1>5. asked \in [Clients -> Request \cup {None}] /\ line \in Seq(Clients)
  OBVIOUS
<1>6. TypeOK
  <2>1. handles \in Seq(HandleRecord) /\ attachments \in Seq(AttachmentRecord)
    OBVIOUS
  <2>2. queue \in [Clients -> Seq(Operation)] /\ hosted \in [Sessions -> Nat]
    OBVIOUS
  <2>3. /\ found \in [Clients -> Nat] /\ route \in [Clients -> Nat] /\ told \in [Clients -> Nat]
        /\ current \in [Clients -> Nat] /\ mine \in [Clients -> Nat] /\ draining \in [Clients -> Nat]
    OBVIOUS
  <2>4. step \in [Clients -> {"idle", "releasing"} \cup Attaching]
    BY DEF Attaching
  <2> QED BY <1>4, <1>5, <2>1, <2>2, <2>3, <2>4 DEF TypeOK
<1>7. ASSUME NEW c \in Clients PROVE ClientAt(c) /\ RequestAt(c)
  <2>1. ClientAt(c)
    BY DEF ClientAt, Attaching
  <2>2. RequestAt(c)
    BY <1>2, <1>3 DEF RequestAt, Running
  <2> QED BY <2>1, <2>2
<1>8. HostInv
  BY <1>1 DEF HostInv
<1>9. ShutdownInv
  BY DEF ShutdownInv
<1>10. DeletionInv
  BY <1>1, <1>2, <1>3 DEF DeletionInv
<1> QED BY <1>1, <1>6, <1>7, <1>8, <1>9, <1>10 DEF ServerInv

\* Every step preserves the invariant.
LEMMA ServerStep == ServerInv /\ [Next]_vars => ServerInv'
<1> SUFFICES ASSUME ServerInv, [Next]_vars PROVE ServerInv'
  OBVIOUS
<1>1. TypeOK' /\ Keeps
  BY TypeStep
<1>2. Effect
  BY EveryEffect
<1>3. \A c \in Clients : ClientAt(c)' /\ RequestAt(c)'
  BY <1>1, <1>2, ClientsStep, RequestsStep
<1>4. \A a \in Ids' : AttachmentAt(a)' /\ OwnCallsAt(a)'
  BY <1>1, <1>2, AttachmentsStep, OwnCallsStep
<1>5. HostInv'
  BY <1>1, <1>2, HostsStep
<1>6. ShutdownInv'
  BY <1>1, <1>2, <1>5, ShutdownInvStep
<1>7. serial' => DeletionInv'
  BY <1>1, <1>2, AskedStep, DeletionStep
<1> QED BY <1>1, <1>3, <1>4, <1>5, <1>6, <1>7 DEF ServerInv

\* Whatever peers, hosts and workers do, connections, attachments, handles, requests, removals and
\* shutdown stay in agreement with one another.
THEOREM ServerAlways == Spec => []ServerInv
BY ServerInit, ServerStep, PTL DEF Spec

\* No lease is lost sight of, and no route leads to a cleared attachment: an attachment keeps its
\* lease only as a route, under release, under an attach that runs, or with a handle that failed.
THEOREM LeasesAlwaysAccounted == Spec => []LeaseAccounted
<1>1. ServerInv => LeaseAccounted
  BY DEF ServerInv, ClientAt, AttachmentAt, LeaseAccounted, Leasing
<1> QED BY <1>1, ServerAlways, PTL

\* A connection that switches or is lost gives the lease back after the calls it was admitted to make.
THEOREM OwnReleasesAwaitCalls == Spec => []OwnReleaseAfterCalls
<1>1. ServerInv => OwnReleaseAfterCalls
  BY DEF ServerInv, OwnCallsAt, OwnReleaseAfterCalls
<1> QED BY <1>1, ServerAlways, PTL

\* A Session that a serial application deleted has no handle, and no lease but a dead worker's.
THEOREM DeletedSessionsUnused == Spec => []DeletedSessionUnused
<1>1. ServerInv => DeletedSessionUnused
  <2> SUFFICES ASSUME ServerInv, serial PROVE DeletedSessionUnused
    BY DEF DeletedSessionUnused
  <2>1. TypeOK /\ DeletionInv /\ HostInv /\ \A a \in Ids : AttachmentAt(a)
    BY DEF ServerInv
  <2>2. ASSUME NEW h \in HandleIds, handles[h].session \notin catalog
        PROVE  handles[h].state \notin {"open", "closing"}
    <3>1. handles[h].session \in Sessions /\ h # 0
      BY <2>1, Typed DEF HandleRecord, HandleIds
    <3> QED BY <2>1, <2>2, <3>1 DEF DeletionInv, HostInv
  <2>3. ASSUME NEW a \in Ids, SessionOf(a) \notin catalog, attachments[a].lease = "held"
        PROVE  handles[attachments[a].handle].state \in {"terminated", "failed"}
    <3>1. PICK h \in HandleIds : h = attachments[a].handle
      BY <2>1 DEF AttachmentAt
    <3>2. handles[h].state \in {"open", "closing", "closed", "terminated", "failed"}
      BY <2>1, Typed DEF HandleRecord
    <3>3. handles[h].state \notin {"open", "closing"}
      BY <2>2, <2>3, <3>1 DEF SessionOf
    <3>4. handles[h].state \notin {"closing", "closed"}
      BY <2>1, <2>3, <3>1 DEF DeletionInv
    <3> QED BY <3>1, <3>2, <3>3, <3>4
  <2> QED BY <2>2, <2>3 DEF DeletedSessionUnused
<1> QED BY <1>1, ServerAlways, PTL

\* After shutdown every lease is back or going back, and no handle is open.
THEOREM ShutdownAlwaysReleases == Spec => []ShutdownReleasesAll
<1>1. ServerInv => ShutdownReleasesAll
  <2> SUFFICES ASSUME ServerInv, shutdown = "closed" PROVE ShutdownReleasesAll
    BY DEF ShutdownReleasesAll
  <2>1. TypeOK /\ ShutdownInv /\ \A a \in Ids : AttachmentAt(a)
    BY DEF ServerInv
  <2>2. opening = {} /\ (\A h \in HandleIds : handles[h].state # "open") /\ \A c \in Clients : route[c] = 0
    BY <2>1 DEF ShutdownInv
  <2>3. \A c \in Clients : step[c] # "leasing"
    BY LateFacts DEF Late, Attaching
  <2>4. ASSUME NEW a \in Ids, attachments[a].lease = "held", attachments[a].release = "no"
        PROVE  handles[attachments[a].handle].state = "failed"
    <3>1. attachments[a].client \in Clients /\ a # 0
      BY <2>1, Typed DEF AttachmentRecord, Ids
    <3>2. ~Leasing(a) /\ route[attachments[a].client] # a
      BY <2>2, <2>3, <3>1 DEF Leasing
    <3> QED BY <2>1, <2>4, <3>2 DEF AttachmentAt
  <2> QED BY <2>2, <2>4 DEF ShutdownReleasesAll
<1> QED BY <1>1, ServerAlways, PTL

=============================================================================
