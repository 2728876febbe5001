---------------------------- MODULE SessionRouter -----------------------------
(***************************************************************************)
(* The SessionRouter of pi-server: it opens a Session's handle once for    *)
(* all connections that attach to it, gives each connection at most one    *)
(* attachment, routes service calls through it, and takes attachments and  *)
(* handles back when a connection detaches, switches or is lost, when a    *)
(* Session is removed, when its worker dies, and at shutdown.              *)
(*                                                                         *)
(* The router runs on one thread: an action is the code between two        *)
(* awaits.  What it awaits (the host opening a Session, a handle granting, *)
(* releasing or closing, a call settling) ends in steps of its own.        *)
(***************************************************************************)
EXTENDS Integers, Sequences, FiniteSets, SequencesExt

CONSTANTS
    Clients,         \* connections; a reconnecting peer is another one
    Sessions,
    MaxAttachments,  \* bound on the attachments ever created
    MaxHandles,      \* bound on the handles ever opened
    MaxCalls,        \* bound on the service calls
    MaxFaults,       \* bound on failures of the host and of workers
    None

ASSUME RouterBounds ==
    MaxAttachments \in Nat /\ MaxHandles \in Nat /\ MaxCalls \in Nat /\ MaxFaults \in Nat

VARIABLES
    catalog,        \* the Sessions resolveSession still finds
    handles,        \* every HostedSession made: its session, and the state of its handle
    hosted,         \* hostedSessions: which of them serves a Session; 0 for none
    opening,        \* openingSessions
    attachments,    \* every ClientAttachment made
    route,          \* attachmentsByClient; 0 for none
    told,           \* the attachment last published to the client; 0 for none
    queue,          \* clientOperations: what runForClient has not finished
    step,           \* where the operation at the head of the queue waits
    current, found, mine, \* its locals: attachment at the start, handle acquired, attachment made
    disconnected,   \* disconnectedClients, while their last operation runs
    removal,        \* removeSession, by the connection whose request runs it
    closing, shutdown, draining, \* isClosing, closeInternal, and the operations it waits for
    calls, faults

hostVars == <<catalog, handles, hosted, opening, attachments>>
clientVars == <<route, told, queue, step, current, found, mine, disconnected>>
closeVars == <<removal, closing, shutdown, draining>>
routerVars == <<hostVars, clientVars, closeVars, calls, faults>>

HandleIds == 1..Len(handles)
Ids == 1..Len(attachments)
NoRemoval == [phase |-> "none", handle |-> 0, waits |-> {}, session |-> None, ok |-> TRUE]

RouterInit ==
    /\ catalog = Sessions /\ handles = <<>> /\ hosted = [s \in Sessions |-> 0] /\ opening = {}
    /\ attachments = <<>>
    /\ route = [c \in Clients |-> 0] /\ told = route
    /\ queue = [c \in Clients |-> <<>>] /\ step = [c \in Clients |-> "idle"]
    /\ current = route /\ found = route /\ mine = route
    /\ disconnected = {}
    /\ removal = [c \in Clients |-> NoRemoval]
    /\ closing = FALSE /\ shutdown = "no" /\ draining = route
    /\ calls = 0 /\ faults = 0

-----------------------------------------------------------------------------
(* runForClient: the operations of one client, one after the other.        *)

Enqueue(c, op) == queue' = [queue EXCEPT ![c] = Append(@, op)]

Starts(c, name) == queue[c] # <<>> /\ Head(queue[c]).op = name /\ step[c] = "idle"

\* The operation at the head has settled, and the next can start.
Settle(c) ==
    /\ queue' = [queue EXCEPT ![c] = Tail(@)]
    /\ step' = [step EXCEPT ![c] = "idle"]
    /\ current' = [current EXCEPT ![c] = 0]
    /\ found' = [found EXCEPT ![c] = 0]
    /\ mine' = [mine EXCEPT ![c] = 0]
    /\ draining' = [draining EXCEPT ![c] = IF @ > 0 THEN @ - 1 ELSE 0]
    /\ disconnected' = IF Head(queue[c]).op = "disconnect" THEN disconnected \ {c} ELSE disconnected

Await(c, where) ==
    /\ step' = [step EXCEPT ![c] = where]
    /\ UNCHANGED <<queue, draining, disconnected>>

Refused(c) == closing \/ c \in disconnected

-----------------------------------------------------------------------------
(* releaseAttachment and clearAttachment                                   *)

\* The first caller starts the release and decides whether the client is told; every later
\* caller waits for the same one.  It waits for the calls that run now.
Releasing(as, publish) ==
    [a \in Ids |->
        IF a \in as /\ attachments[a].release = "no"
        THEN [attachments[a] EXCEPT !.release = "calls", !.publish = publish, !.awaits = attachments[a].calls]
        ELSE attachments[a]]

Released(a) == attachments[a].release \in {"done", "failed"}

Listed(h) == {a \in Ids : attachments[a].handle = h /\ attachments[a].listed}

CallsDone(a) ==
    /\ attachments[a].release = "calls"
    /\ attachments[a].awaits \cap attachments[a].calls = {}

\* Mutant: the lease goes back while calls still run.
ReleaseAtOnce(a) ==
    /\ attachments[a].release = "calls" /\ attachments[a].lease = "held"
    /\ attachments' = [attachments EXCEPT ![a].release = "lease", ![a].lease = "released"]
    /\ UNCHANGED <<catalog, handles, hosted, opening, clientVars, closeVars, calls, faults>>

ReleaseLease(a) ==
    /\ CallsDone(a) /\ attachments[a].lease = "held"
    /\ attachments' = [attachments EXCEPT ![a].release = "lease", ![a].lease = "released"]
    /\ UNCHANGED <<catalog, handles, hosted, opening, clientVars, closeVars, calls, faults>>

\* clearAttachment: the client loses this route, if it is still its route, and is told.
Cleared(a, failed) ==
    /\ attachments' = [attachments EXCEPT ![a].listed = FALSE, ![a].awaits = {},
                           ![a].release = IF failed THEN "failed" ELSE "done"]
    /\ LET c == attachments[a].client
       IN  IF route[c] = a
           THEN /\ route' = [route EXCEPT ![c] = 0]
                /\ told' = IF attachments[a].publish THEN [told EXCEPT ![c] = 0] ELSE told
           ELSE UNCHANGED <<route, told>>
    /\ UNCHANGED <<catalog, handles, hosted, opening, queue, step, current, found, mine, disconnected,
                   closeVars, calls>>

\* Mutant: a release that waits for a lease does not hear that it was refused.
ClearGranted(a) ==
    /\ attachments[a].release = "lease"
    /\ faults' \in {faults, faults + 1} /\ faults' <= MaxFaults
    /\ Cleared(a, faults' > faults)

\* The lease is back, or giving it back failed, or it was never granted.
Clear(a) ==
    \/ /\ attachments[a].release = "lease"
       /\ faults' \in {faults, faults + 1} /\ faults' <= MaxFaults
       /\ Cleared(a, faults' > faults)
    \/ /\ CallsDone(a) /\ attachments[a].lease = "refused" /\ faults' = faults
       /\ Cleared(a, TRUE)

-----------------------------------------------------------------------------
(* attachClientNow                                                         *)

SessionOf(a) == handles[attachments[a].handle].session

\* Already attached, or refused; otherwise acquire(), which joins an opening under way.
AttachStart(c) ==
    /\ Starts(c, "attach")
    /\ LET s == Head(queue[c]).session
       IN  IF Refused(c) \/ (route[c] # 0 /\ SessionOf(route[c]) = s)
           THEN Settle(c) /\ UNCHANGED opening
           ELSE /\ Await(c, "acquiring")
                /\ current' = [current EXCEPT ![c] = route[c]]
                /\ found' = [found EXCEPT ![c] = hosted[s]]
                /\ opening' = IF hosted[s] = 0 THEN opening \cup {s} ELSE opening
                /\ UNCHANGED mine
    /\ UNCHANGED <<catalog, handles, hosted, attachments, route, told, removal, closing, shutdown, calls, faults>>

Joined(s) == {c \in Clients : step[c] = "acquiring" /\ found[c] = 0 /\ Head(queue[c]).session = s}

\* resolveSession and openSession have answered; while closing, the new handle is closed again.
Opens(s) ==
    /\ s \in opening /\ s \in catalog /\ Len(handles) < MaxHandles
    /\ opening' = opening \ {s}
    /\ handles' = Append(handles, [session |-> s, state |-> IF closing THEN "closed" ELSE "open"])
    /\ IF closing
       THEN /\ step' = [c \in Clients |-> IF c \in Joined(s) THEN "unavailable" ELSE step[c]]
            /\ UNCHANGED <<hosted, found>>
       ELSE /\ hosted' = [hosted EXCEPT ![s] = Len(handles')]
            /\ found' = [c \in Clients |-> IF c \in Joined(s) THEN Len(handles') ELSE found[c]]
            /\ UNCHANGED step
    /\ UNCHANGED <<catalog, attachments, route, told, queue, current, mine, disconnected, closeVars, calls, faults>>

OpenFails(s) ==
    /\ s \in opening
    /\ s \notin catalog \/ faults < MaxFaults \/ Len(handles) = MaxHandles
    /\ opening' = opening \ {s}
    /\ step' = [c \in Clients |-> IF c \in Joined(s) THEN "unavailable" ELSE step[c]]
    /\ faults' = IF s \in catalog /\ faults < MaxFaults THEN faults + 1 ELSE faults
    /\ UNCHANGED <<catalog, handles, hosted, attachments, route, told, queue, current, found, mine, disconnected,
                   closeVars, calls>>

Unavailable(c) ==
    /\ step[c] = "unavailable"
    /\ Settle(c)
    /\ UNCHANGED <<hostVars, route, told, removal, closing, shutdown, calls, faults>>

Attachment(c, h) ==
    [client |-> c, handle |-> h, listed |-> TRUE, lease |-> "acquiring", calls |-> {},
     awaits |-> {}, release |-> "no", publish |-> TRUE]

\* The attachment joins the handle's set before the handle is asked for a lease.
Lease(c) ==
    /\ attachments' = Append(attachments, Attachment(c, found[c]))
    /\ mine' = [mine EXCEPT ![c] = Len(attachments) + 1]
    /\ Await(c, "leasing")
    /\ UNCHANGED <<current, found>>

Acquired(c) ==
    /\ step[c] = "acquiring" /\ found[c] # 0
    /\ \/ Refused(c) /\ Settle(c) /\ UNCHANGED attachments
       \/ /\ ~Refused(c) /\ current[c] # 0
          /\ attachments' = Releasing({current[c]}, FALSE)
          /\ Await(c, "leaving") /\ UNCHANGED <<current, found, mine>>
       \/ ~Refused(c) /\ current[c] = 0 /\ Lease(c)
    /\ UNCHANGED <<catalog, handles, hosted, opening, route, told, removal, closing, shutdown, calls, faults>>

\* The attachment before is gone; had its release failed, the client is left without one.
Left(c) ==
    /\ step[c] = "leaving" /\ Released(current[c])
    /\ IF attachments[current[c]].release = "failed" THEN Settle(c) /\ UNCHANGED attachments ELSE Lease(c)
    /\ UNCHANGED <<catalog, handles, hosted, opening, route, told, removal, closing, shutdown, calls, faults>>

\* The handle answers: attachClient of the host.
Grant(a) ==
    /\ attachments[a].lease = "acquiring"
    /\ \/ handles[attachments[a].handle].state = "open" /\ faults' = faults
          /\ attachments' = [attachments EXCEPT ![a].lease = "held"]
       \/ /\ handles[attachments[a].handle].state = "open" => faults < MaxFaults
          /\ faults' = IF handles[attachments[a].handle].state = "open" THEN faults + 1 ELSE faults
          /\ attachments' = [attachments EXCEPT ![a].lease = "refused"]
    /\ UNCHANGED <<catalog, handles, hosted, opening, clientVars, closeVars, calls>>

\* Mutant: what changed while the lease was awaited is not looked at.
LeasedUnchecked(c) ==
    /\ step[c] = "leasing" /\ attachments[mine[c]].lease # "acquiring"
    /\ IF attachments[mine[c]].lease = "refused"
       THEN attachments' = [attachments EXCEPT ![mine[c]].listed = FALSE] /\ UNCHANGED <<route, told>>
       ELSE /\ route' = [route EXCEPT ![c] = mine[c]] /\ told' = [told EXCEPT ![c] = mine[c]]
            /\ UNCHANGED attachments
    /\ Settle(c)
    /\ UNCHANGED <<catalog, handles, hosted, opening, removal, closing, shutdown, calls, faults>>

\* After the lease the world is looked at again: the route is installed and published, or the
\* lease goes back.
Leased(c) ==
    /\ step[c] = "leasing" /\ attachments[mine[c]].lease # "acquiring"
    /\ LET a == mine[c]
           h == attachments[a].handle
           stale == hosted[handles[h].session] # h \/ ~attachments[a].listed \/ Refused(c)
       IN  \/ /\ attachments[a].lease = "refused"
              /\ attachments' = [attachments EXCEPT ![a].listed = FALSE]
              /\ Settle(c) /\ UNCHANGED <<route, told>>
           \/ /\ attachments[a].lease # "refused" /\ stale
              /\ attachments' = Releasing({a}, TRUE)
              /\ Await(c, "releasing") /\ UNCHANGED <<route, told, current, found, mine>>
           \/ /\ attachments[a].lease # "refused" /\ ~stale
              /\ route' = [route EXCEPT ![c] = a] /\ told' = [told EXCEPT ![c] = a]
              /\ Settle(c) /\ UNCHANGED attachments
    /\ UNCHANGED <<catalog, handles, hosted, opening, removal, closing, shutdown, calls, faults>>

-----------------------------------------------------------------------------
(* detachClient, the operation of disconnect(), and service calls          *)

ReleaseStart(c) ==
    /\ Starts(c, "detach") \/ Starts(c, "disconnect")
    /\ IF route[c] = 0
       THEN Settle(c) /\ UNCHANGED attachments
       ELSE /\ attachments' = Releasing({route[c]}, Head(queue[c]).op = "detach")
            /\ mine' = [mine EXCEPT ![c] = route[c]]
            /\ Await(c, "releasing") /\ UNCHANGED <<current, found>>
    /\ UNCHANGED <<catalog, handles, hosted, opening, route, told, removal, closing, shutdown, calls, faults>>

ReleaseEnd(c) ==
    /\ step[c] = "releasing" /\ Released(mine[c])
    /\ Settle(c)
    /\ UNCHANGED <<hostVars, route, told, removal, closing, shutdown, calls, faults>>

\* startServiceCall: only the attachment the request names, while it is the client's.
CallStart(c) ==
    /\ Starts(c, "call")
    /\ LET a == Head(queue[c]).attachment
       IN  attachments' = IF ~Refused(c) /\ a # 0 /\ route[c] = a
                          THEN [attachments EXCEPT ![a].calls = @ \cup {Head(queue[c]).id}]
                          ELSE attachments
    /\ Settle(c)
    /\ UNCHANGED <<catalog, handles, hosted, opening, route, told, removal, closing, shutdown, calls, faults>>

CallSettles(a) ==
    /\ \E id \in attachments[a].calls : attachments' = [attachments EXCEPT ![a].calls = @ \ {id}]
    /\ UNCHANGED <<catalog, handles, hosted, opening, clientVars, closeVars, calls, faults>>

-----------------------------------------------------------------------------
(* removeSession                                                           *)

RemoveStart(c, s) ==
    LET h == hosted[s]
    IN  /\ removal' = [removal EXCEPT ![c] =
                IF closing THEN [NoRemoval EXCEPT !.phase = "ended", !.session = s, !.ok = FALSE]
                ELSE IF h = 0 THEN [NoRemoval EXCEPT !.phase = "ended", !.session = s]
                ELSE [phase |-> "releasing", handle |-> h, waits |-> Listed(h), session |-> s, ok |-> TRUE]]
        /\ attachments' = IF closing \/ h = 0 THEN attachments ELSE Releasing(Listed(h), TRUE)

CloseHandle(h) ==
    handles' = IF handles[h].state = "open" THEN [handles EXCEPT ![h].state = "closing"] ELSE handles

\* Mutant: the handle is closed without waiting for its attachments.
RemoveCloseAtOnce(c) ==
    /\ removal[c].phase = "releasing"
    /\ CloseHandle(removal[c].handle)
    /\ removal' = [removal EXCEPT ![c].phase = "closing"]
    /\ UNCHANGED <<catalog, hosted, opening, attachments, clientVars, closing, shutdown, draining, calls, faults>>

RemoveClose(c) ==
    /\ removal[c].phase = "releasing" /\ \A a \in removal[c].waits : Released(a)
    /\ CloseHandle(removal[c].handle)
    /\ removal' = [removal EXCEPT ![c].phase = "closing",
                       ![c].ok = \A a \in removal[c].waits : attachments[a].release = "done"]
    /\ UNCHANGED <<catalog, hosted, opening, attachments, clientVars, closing, shutdown, draining, calls, faults>>

\* A handle resolves "terminated" before the close that ends it: invalidate() goes first.
HandleGone(h) ==
    \/ handles[h].state \in {"closed", "terminated"} /\ hosted[handles[h].session] # h
    \/ handles[h].state = "failed"

RemoveEnd(c) ==
    /\ removal[c].phase = "closing" /\ HandleGone(removal[c].handle)
    /\ LET h == removal[c].handle
           s == handles[h].session
       IN  /\ hosted' = IF hosted[s] = h THEN [hosted EXCEPT ![s] = 0] ELSE hosted
           /\ removal' = [removal EXCEPT ![c].phase = "ended",
                              ![c].ok = @ /\ handles[h].state # "failed"]
    /\ UNCHANGED <<catalog, handles, opening, attachments, clientVars, closing, shutdown, draining, calls, faults>>

\* The host closes a handle, or fails to.
HandleCloses(h) ==
    /\ handles[h].state = "closing"
    /\ faults' \in {faults, faults + 1} /\ faults' <= MaxFaults
    /\ handles' = [handles EXCEPT ![h].state = IF faults' > faults THEN "failed" ELSE "closed"]
    /\ UNCHANGED <<catalog, hosted, opening, attachments, clientVars, closeVars, calls>>

\* A worker dies.
Terminates(h) ==
    /\ handles[h].state = "open" /\ faults < MaxFaults
    /\ faults' = faults + 1
    /\ handles' = [handles EXCEPT ![h].state = "terminated"]
    /\ UNCHANGED <<catalog, hosted, opening, attachments, clientVars, closeVars, calls>>

\* invalidate(), once the handle reports its end.
Invalidate(h) ==
    /\ handles[h].state \in {"terminated", "closed"} /\ hosted[handles[h].session] = h
    /\ hosted' = [hosted EXCEPT ![handles[h].session] = 0]
    /\ attachments' = Releasing(Listed(h), TRUE)
    /\ UNCHANGED <<catalog, handles, opening, clientVars, closeVars, calls, faults>>

-----------------------------------------------------------------------------
(* closeInternal                                                           *)

Hosted == {hosted[s] : s \in Sessions} \ {0}

\* Mutant: only what is hosted by now is looked at, not what is still opening or attaching.
ShutdownReleasesAtOnce ==
    /\ shutdown = "draining" /\ shutdown' = "releasing"
    /\ attachments' = Releasing(UNION {Listed(h) : h \in Hosted}, TRUE)
    /\ UNCHANGED <<catalog, handles, hosted, opening, clientVars, removal, closing, draining, calls, faults>>

ShutdownReleases ==
    /\ shutdown = "draining" /\ opening = {} /\ \A c \in Clients : draining[c] = 0
    /\ shutdown' = "releasing"
    /\ attachments' = Releasing(UNION {Listed(h) : h \in Hosted}, TRUE)
    /\ UNCHANGED <<catalog, handles, hosted, opening, clientVars, removal, closing, draining, calls, faults>>

ShutdownCloses ==
    /\ shutdown = "releasing" /\ \A h \in Hosted : \A a \in Listed(h) : attachments[a].release = "no"
    /\ shutdown' = "closing"
    /\ handles' = [h \in HandleIds |->
           IF h \in Hosted /\ handles[h].state = "open" THEN [handles[h] EXCEPT !.state = "closing"] ELSE handles[h]]
    /\ UNCHANGED <<catalog, hosted, opening, attachments, clientVars, removal, closing, draining, calls, faults>>

ShutdownEnds ==
    /\ shutdown = "closing" /\ \A h \in Hosted : HandleGone(h)
    /\ shutdown' = "closed"
    /\ hosted' = [s \in Sessions |->
           IF hosted[s] # 0 /\ handles[hosted[s]].state = "failed" THEN hosted[s] ELSE 0]
    /\ route' = [c \in Clients |-> 0]
    /\ UNCHANGED <<catalog, handles, opening, attachments, told, queue, step, current, found, mine, disconnected,
                   removal, closing, draining, calls, faults>>

-----------------------------------------------------------------------------

\* Everything the router and the host do by themselves.
ClientStep(c) ==
    \/ AttachStart(c) \/ Unavailable(c) \/ Acquired(c) \/ Left(c) \/ Leased(c)
    \/ ReleaseStart(c) \/ ReleaseEnd(c) \/ CallStart(c)
    \/ RemoveClose(c) \/ RemoveEnd(c)
AttachmentStep(a) == ReleaseLease(a) \/ Clear(a) \/ Grant(a) \/ CallSettles(a)
HandleStep(h) == HandleCloses(h) \/ Invalidate(h)
ShutdownStep == ShutdownReleases \/ ShutdownCloses \/ ShutdownEnds

=============================================================================
