---------------------------- MODULE SessionServer -----------------------------
(***************************************************************************)
(* The connections of pi-server around its SessionRouter, and the          *)
(* application that owns the Sessions: a peer asks it to attach, detach or *)
(* remove through its connection, and the coding agent's application runs  *)
(* such requests one at a time, whichever connection they come from.  A    *)
(* connection that is lost does not wait in that line.                     *)
(***************************************************************************)
EXTENDS SessionRouter

CONSTANTS
    MaxRequests,  \* bound on the requests to the application, when it serialises them
    MaxParallel   \* and when it does not

VARIABLES
    serial,     \* the application serialises; RoutedServerPresentation does not ask it to
    connected,  \* connections not lost or closed
    asked,      \* the request of each connection to the application, None without one
    line,       \* mutationTail: the connections whose requests it serialises, in order
    requests

serverVars == <<serial, connected, asked, line, requests>>
vars == <<routerVars, serverVars>>

Init ==
    /\ RouterInit
    /\ serial \in BOOLEAN
    /\ connected = Clients /\ asked = [c \in Clients |-> None] /\ line = <<>>
    /\ requests = 0

Accepting == shutdown = "no"

\* A request of a peer reaches SessionManagement.
Ask(c) ==
    /\ c \in connected /\ Accepting /\ asked[c] = None
    /\ requests < IF serial THEN MaxRequests ELSE MaxParallel
    /\ \E op \in {"attach", "detach", "remove"}, s \in Sessions \cup {None} :
         /\ (op = "detach") = (s = None)
         /\ op = "attach" => Len(attachments) < MaxAttachments
         /\ asked' = [asked EXCEPT ![c] = [op |-> op, session |-> s, running |-> FALSE]]
    /\ line' = IF serial THEN Append(line, c) ELSE line
    /\ requests' = requests + 1
    /\ UNCHANGED <<routerVars, serial, connected>>

Turn(c) ==
    /\ asked[c] # None /\ ~asked[c].running
    /\ serial => Head(line) = c

Runs(c) == asked' = [asked EXCEPT ![c].running = TRUE]

Leaves(c) ==
    /\ asked' = [asked EXCEPT ![c] = None]
    /\ line' = IF serial THEN Tail(line) ELSE line

\* attachSession and detachSession hand the request to the connection's queue in the router.
AskRouter(c) ==
    /\ Turn(c) /\ asked[c].op \in {"attach", "detach"}
    /\ IF asked[c].op = "attach" /\ closing
       THEN Leaves(c) /\ UNCHANGED queue
       ELSE Runs(c) /\ Enqueue(c, [op |-> asked[c].op, session |-> asked[c].session]) /\ UNCHANGED line
    /\ UNCHANGED <<hostVars, route, told, step, current, found, mine, disconnected, closeVars, calls, faults,
                   serial, connected, requests>>

RouterAnswers(c) ==
    /\ asked[c] # None /\ asked[c].running /\ asked[c].op \in {"attach", "detach"}
    /\ \A i \in DOMAIN queue[c] : queue[c][i].op \notin {"attach", "detach"}
    /\ Leaves(c)
    /\ UNCHANGED <<routerVars, serial, connected, requests>>

\* prepareSessionRemoval; the Session is deleted when it succeeds.
AskRemoval(c) ==
    /\ Turn(c) /\ asked[c].op = "remove"
    /\ Runs(c) /\ RemoveStart(c, asked[c].session)
    /\ UNCHANGED <<catalog, handles, hosted, opening, clientVars, closing, shutdown, draining, calls, faults,
                   serial, connected, line, requests>>

Delete(c) ==
    /\ removal[c].phase = "ended"
    /\ catalog' = IF removal[c].ok THEN catalog \ {removal[c].session} ELSE catalog
    /\ removal' = [removal EXCEPT ![c] = NoRemoval]
    /\ Leaves(c)
    /\ UNCHANGED <<handles, hosted, opening, attachments, clientVars, closing, shutdown, draining, calls, faults,
                   serial, connected, requests>>

\* A Session call names the attachment the client was last told of.
Call(c) ==
    /\ c \in connected /\ Accepting /\ told[c] # 0 /\ calls < MaxCalls
    /\ Enqueue(c, [op |-> "call", attachment |-> told[c], id |-> calls + 1])
    /\ calls' = calls + 1
    /\ UNCHANGED <<hostVars, route, told, step, current, found, mine, disconnected, closeVars, faults, serverVars>>

\* disconnect(): the requests the connection made go on without it.
Disconnects(cs) ==
    /\ connected' = connected \ cs
    /\ disconnected' = disconnected \cup cs
    /\ queue' = [c \in Clients |-> IF c \in cs THEN Append(queue[c], [op |-> "disconnect"]) ELSE queue[c]]

Lost(c) ==
    /\ c \in connected /\ Accepting
    /\ Disconnects({c})
    /\ UNCHANGED <<hostVars, route, told, step, current, found, mine, closeVars, calls, faults,
                   serial, asked, line, requests>>

\* close() of the server refuses from here on what is new ...
Close ==
    /\ ~closing /\ closing' = TRUE
    /\ UNCHANGED <<hostVars, clientVars, removal, shutdown, draining, calls, faults, serverVars>>

\* ... and closeServerState disconnects everyone and closes the router.
CloseState ==
    /\ closing /\ shutdown = "no"
    /\ Disconnects(connected)
    /\ shutdown' = "draining"
    /\ draining' = [c \in Clients |-> Len(queue'[c])]
    /\ UNCHANGED <<hostVars, route, told, step, current, found, mine, removal, closing, calls, faults,
                   serial, asked, line, requests>>

RouterStep ==
    /\ \/ \E c \in Clients : ClientStep(c)
       \/ \E a \in Ids : AttachmentStep(a)
       \/ \E h \in HandleIds : HandleStep(h)
       \/ \E s \in Sessions : Opens(s) \/ OpenFails(s)
       \/ ShutdownStep
    /\ UNCHANGED serverVars

ApplicationStep(c) == AskRouter(c) \/ RouterAnswers(c) \/ AskRemoval(c) \/ Delete(c)

Next ==
    \/ RouterStep
    \/ \E c \in Clients : ApplicationStep(c) \/ Ask(c) \/ Call(c) \/ Lost(c)
    \/ (\E h \in HandleIds : Terminates(h)) /\ UNCHANGED serverVars
    \/ Close \/ CloseState

Spec == Init /\ [][Next]_vars

-----------------------------------------------------------------------------
(* Properties                                                              *)

Unused(a) == attachments[a].release \in {"lease", "done", "failed"}

\* No route leads to a cleared attachment, and no lease is lost sight of: one that is held is a
\* connection's route, or is being released, or belongs to an attach that still runs (or to a
\* handle that failed to close), whatever detaching, removal, the worker's end, loss of the
\* connection or shutdown came between asking for it and getting it.
LeaseAccounted ==
    /\ \A c \in Clients : route[c] # 0 => attachments[route[c]].listed
    /\ \A a \in Ids :
        attachments[a].lease = "held" =>
            LET c == attachments[a].client
            IN  \/ route[c] = a \/ attachments[a].release # "no" \/ (mine[c] = a /\ step[c] = "leasing")
                \/ handles[attachments[a].handle].state = "failed"

\* A connection that switches or is lost gives its lease back only after the calls it was admitted
\* to make through it (server/README.md: "releases its attachment only after admitted service calls
\* settle"); a release that the client is told of may have been begun by others, and then meets
\* calls admitted since.
OwnReleaseAfterCalls ==
    \A a \in Ids : Unused(a) /\ ~attachments[a].publish => attachments[a].calls = {}

\* When the application runs one request at a time, a Session it deleted has no attachment left
\* and no handle ("Release routed attachments and handles before the application deletes durable
\* metadata", server/src/types.ts): what an attach, a worker's end or a lost connection had under
\* way is over by then.  A worker that died, or was asked in vain to stop, keeps what it had.
DeletedSessionUnused ==
    serial =>
        /\ \A h \in HandleIds : handles[h].session \notin catalog => handles[h].state \notin {"open", "closing"}
        /\ \A a \in Ids : SessionOf(a) \notin catalog /\ attachments[a].lease = "held" =>
             handles[attachments[a].handle].state \in {"terminated", "failed"}

\* After shutdown every lease is back and every handle is closed, unless closing it failed: an
\* opening or an attach that was under way when it began is caught as well.
ShutdownReleasesAll ==
    shutdown = "closed" =>
        /\ opening = {}
        /\ \A h \in HandleIds : handles[h].state # "open"
        /\ \A a \in Ids : attachments[a].lease = "held" =>
             attachments[a].release # "no" \/ handles[attachments[a].handle].state = "failed"

\* Nothing is left to do but what peers may ask: promises, the host and calls have all settled.
Quiet == ~ENABLED (RouterStep \/ (\E c \in Clients : ApplicationStep(c)) \/ (closing /\ CloseState))

\* Nobody waits for ever: not for its turn, its queue, the release that another request began,
\* the calls of another connection, an opening or a handle; shutdown ends as well.
NothingStuck ==
    Quiet =>
        /\ \A c \in Clients : asked[c] = None /\ queue[c] = <<>>
        /\ disconnected = {} /\ line = <<>> /\ opening = {}
        /\ \A a \in Ids : attachments[a].release \in {"no", "done", "failed"}
        /\ shutdown \in {"no", "closed"}

\* server/README.md: losing a connection releases its attachment after admitted calls settle.
LostConnectionReleased == Quiet => \A c \in Clients \ connected : route[c] = 0

-----------------------------------------------------------------------------
(* Why LeaseAccounted, OwnReleaseAfterCalls, DeletedSessionUnused and      *)
(* ShutdownReleasesAll hold: an invariant that every step preserves.       *)

Operation ==
    [op : {"attach"}, session : Sessions] \cup [op : {"detach"}, session : {None}]
      \cup [op : {"disconnect"}] \cup [op : {"call"}, attachment : Nat, id : Nat]
HandleRecord == [session : Sessions, state : {"open", "closing", "closed", "terminated", "failed"}]
AttachmentRecord ==
    [client : Clients, handle : Nat, listed : BOOLEAN,
     lease : {"acquiring", "held", "refused", "released"}, calls : SUBSET Nat, awaits : SUBSET Nat,
     release : {"no", "calls", "lease", "done", "failed"}, publish : BOOLEAN]
Removal ==
    [phase : {"none", "releasing", "closing", "ended"}, handle : Nat, waits : SUBSET Nat,
     session : Sessions \cup {None}, ok : BOOLEAN]
Request ==
    [op : {"attach", "remove"}, session : Sessions, running : BOOLEAN]
      \cup [op : {"detach"}, session : {None}, running : BOOLEAN]

ASSUME NoRequestAssumption == None \notin Request

Attaching == {"acquiring", "unavailable", "leaving", "leasing"}

TypeOK ==
    /\ catalog \subseteq Sessions /\ opening \subseteq Sessions
    /\ handles \in Seq(HandleRecord) /\ attachments \in Seq(AttachmentRecord)
    /\ hosted \in [Sessions -> Nat] /\ found \in [Clients -> Nat]
    /\ route \in [Clients -> Nat] /\ told \in [Clients -> Nat]
    /\ current \in [Clients -> Nat] /\ mine \in [Clients -> Nat] /\ draining \in [Clients -> Nat]
    /\ queue \in [Clients -> Seq(Operation)] /\ step \in [Clients -> {"idle", "releasing"} \cup Attaching]
    /\ disconnected \subseteq Clients /\ connected \subseteq Clients
    /\ removal \in [Clients -> Removal]
    /\ closing \in BOOLEAN /\ shutdown \in {"no", "draining", "releasing", "closing", "closed"}
    /\ serial \in BOOLEAN /\ asked \in [Clients -> Request \cup {None}] /\ line \in Seq(Clients)
    /\ calls \in Nat /\ faults \in Nat /\ requests \in Nat

\* An operation under way works on attachments of its own connection; from its start the route is
\* the attachment it found there, or none.
ClientAt(c) ==
    /\ \A a \in {route[c], current[c], mine[c]} \ {0} : a \in Ids /\ attachments[a].client = c
    /\ route[c] # 0 => attachments[route[c]].listed
    /\ found[c] # 0 => found[c] \in HandleIds
    /\ step[c] # "idle" => queue[c] # <<>>
    /\ step[c] \in Attaching => Head(queue[c]).op = "attach"
    /\ step[c] \in {"acquiring", "leaving"} => route[c] \in {0, current[c]}
    /\ step[c] = "leaving" => current[c] # 0 /\ attachments[current[c]].release # "no" /\ found[c] # 0
    /\ step[c] = "leasing" => mine[c] # 0 /\ route[c] = 0
    /\ step[c] = "releasing" => mine[c] # 0 /\ attachments[mine[c]].release # "no"

\* The attach that made the attachment still waits for its lease.
Leasing(a) == step[attachments[a].client] = "leasing" /\ mine[attachments[a].client] = a

\* An operation of the attachment's own connection waits for its release.
OwnWaits(a) ==
    LET c == attachments[a].client IN
    \/ step[c] = "leaving" /\ current[c] = a
    \/ step[c] = "releasing" /\ mine[c] = a

\* A lease goes back before its attachment is cleared; one that is held and not being released is
\* still leased, or is a route to a handle that is hosted, or its handle failed to close.
AttachmentAt(a) ==
    LET x == attachments[a] IN
    /\ x.handle \in HandleIds
    /\ x.lease = "acquiring" => Leasing(a)
    /\ x.release \in {"no", "calls"} => x.lease # "released"
    /\ x.release = "lease" => x.lease = "released"
    /\ Released(a) => ~x.listed /\ x.lease \in {"released", "refused"}
    /\ ~x.listed => Released(a) \/ x.lease = "refused"
    /\ x.lease = "held" /\ x.release = "no" =>
        \/ Leasing(a) \/ handles[x.handle].state = "failed"
        \/ route[x.client] = a /\ hosted[SessionOf(a)] = x.handle

\* A release that is not published was begun by an operation of the connection itself, which no
\* call overtakes.
OwnCallsAt(a) ==
    LET x == attachments[a] IN
    ~x.publish =>
        /\ x.release # "no"
        /\ x.release = "calls" => x.calls \subseteq x.awaits
        /\ Unused(a) => x.calls = {}
        /\ ~Released(a) => OwnWaits(a)

\* A handle that may still close is hosted, and a Session has one opening or one hosted handle.
HostInv ==
    /\ \A h \in HandleIds : handles[h].state \in {"open", "closing"} => hosted[handles[h].session] = h
    /\ \A s \in Sessions : hosted[s] # 0 => hosted[s] \in HandleIds /\ handles[hosted[s]].session = s
    /\ \A s \in opening : hosted[s] = 0 /\ Joined(s) # {}

\* Once shutdown has drained the queues nobody attaches, opens or calls any more.
ShutdownInv ==
    /\ shutdown # "no" => closing
    /\ shutdown # "no" => \A c \in Clients :
         \A i \in DOMAIN queue[c] : i > draining[c] => queue[c][i].op = "detach"
    /\ shutdown \in {"releasing", "closing", "closed"} =>
        /\ opening = {} /\ \A c \in Clients : draining[c] = 0
        /\ \A a \in Ids : hosted[SessionOf(a)] = attachments[a].handle /\ attachments[a].listed
             => attachments[a].release # "no"
    /\ shutdown \in {"closing", "closed"} => \A h \in HandleIds : handles[h].state # "open"
    /\ shutdown = "closed" => \A c \in Clients : route[c] = 0

Running(c) == asked[c] # None /\ asked[c].running

\* What runs in the router was asked for and is waited for; one at a time if the application is serial.
RequestAt(c) ==
    /\ \A i \in DOMAIN queue[c] : queue[c][i].op \in {"attach", "detach"} =>
         Running(c) /\ asked[c].op \in {"attach", "detach"}
    /\ removal[c].phase # "none" => Running(c) /\ asked[c].op = "remove" /\ removal[c].session \in Sessions
    /\ removal[c].phase \in {"releasing", "closing"} =>
        /\ removal[c].handle \in HandleIds
        /\ handles[removal[c].handle].session = removal[c].session
        /\ removal[c].waits \subseteq Ids
    /\ serial /\ asked[c] # None => \E i \in DOMAIN line : line[i] = c
    /\ serial /\ Running(c) => Head(line) = c

\* While a serial application removes a Session nobody attaches to it: what is released is all
\* there is, and what was deleted is not hosted again.
DeletionInv ==
    /\ \A c \in Clients :
        LET r == removal[c] IN
        /\ r.phase \in {"releasing", "closing"} =>
            /\ hosted[r.session] \in {0, r.handle}
            /\ \A a \in Ids : attachments[a].handle = r.handle /\ attachments[a].lease = "held" => a \in r.waits
        /\ r.phase = "ended" /\ r.ok => hosted[r.session] = 0
    /\ \A a \in Ids : attachments[a].lease = "held" =>
         handles[attachments[a].handle].state \notin {"closing", "closed"}
    /\ \A s \in Sessions \ catalog : hosted[s] = 0

ServerInv ==
    /\ TypeOK
    /\ \A c \in Clients : ClientAt(c) /\ RequestAt(c)
    /\ \A a \in Ids : AttachmentAt(a) /\ OwnCallsAt(a)
    /\ HostInv /\ ShutdownInv
    /\ serial => DeletionInv

=============================================================================
