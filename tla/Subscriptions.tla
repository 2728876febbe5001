---------------------------- MODULE Subscriptions -----------------------------
(***************************************************************************)
(* One replicated state of a Chord service, followed over one connection:  *)
(* the provider and its endpoint (chord), the connection of pi-server that *)
(* answers a subscription with a snapshot and forwards updates, the two    *)
(* directions of the wire, pi-client's listeners and the service binding   *)
(* that keeps a facade of the state and subscribes anew when it is bound   *)
(* again.  The connection may be lost and made again; the binding may be   *)
(* disposed and another one opened, with requests of the old one under way.*)
(***************************************************************************)
EXTENDS Integers, Sequences, FiniteSets, SequencesExt

CONSTANTS
    MaxSubscriptions,  \* bound on the subscriptions a client asks for
    MaxChanges,        \* bound on changes and replacements of the state
    MaxLosses,         \* bound on lost connections
    MaxOpens           \* bound on the bindings opened

ASSUME BoundsAssumption == {MaxSubscriptions, MaxChanges, MaxLosses, MaxOpens} \subseteq Nat

Subs == 1 .. MaxSubscriptions

VARIABLES
    current,     \* what the provider's state is: implementation and sequence
    changes,
    subscribed,  \* subscriptions the endpoint holds at the provider
    encoders,    \* serviceStateEncoders of the connection
    served,      \* the request handler of each subscription
    closing,     \* unsubscribe handlers that have not answered
    toServer,
    toClient,
    connected,
    losses,
    listener,    \* serviceListeners and the subscription handles of the client
    lastId,      \* #serviceSubscriptionSequence
    open,        \* the binding is active
    opens,
    revision,    \* counts the binding's subscriptions out: rebind, dispose, the next binding
    facade       \* what the binding shows; Cold without a snapshot

providerVars == <<current, changes, subscribed>>
serverVars == <<encoders, served, closing>>
wireVars == <<toServer, toClient, connected, losses>>
bindingVars == <<open, opens, revision, facade>>
vars == <<providerVars, serverVars, wireVars, listener, lastId, bindingVars>>

Cold == [generation |-> -1, sequence |-> -1]
First == [generation |-> 0, sequence |-> 0]

\* A handler goes from invoked over draining to ready; a listener from requested
\* over answered to started.  Both may end at any time.
NotServed == [phase |-> "none", snapshot |-> Cold, pending |-> <<>>]
NoListener == [phase |-> "none", revision |-> 0, snapshot |-> Cold, wire |-> <<>>, queued |-> <<>>, tail |-> <<>>]

Init ==
    /\ current = First /\ changes = 0 /\ subscribed = {}
    /\ encoders = {} /\ served = [s \in Subs |-> NotServed] /\ closing = {}
    /\ toServer = <<>> /\ toClient = <<>> /\ connected = TRUE /\ losses = 0
    /\ listener = [s \in Subs |-> NoListener] /\ lastId = 0
    /\ open = FALSE /\ opens = 0 /\ revision = 0 /\ facade = Cold

(***************************************************************************)
(* The provider changes.  The endpoint's listener calls publish, which     *)
(* queues the update of a subscription that is not ready and sends any     *)
(* other; without an encoder sendServiceUpdate sends nothing.              *)
(***************************************************************************)
UpdateTo(s, update) == [type |-> "update", id |-> s, kind |-> update.kind, version |-> update.version]

\* For mutation: ready is set when the response goes out, before what waited is sent.
QueuesUntilResponse(s) == served[s].phase = "invoked"

Queues(s) == served[s].phase \in {"invoked", "draining"}
Publish(update) ==
    /\ served' = [s \in Subs |->
         IF s \in subscribed /\ Queues(s)
         THEN [served[s] EXCEPT !.pending = Append(@, update)]
         ELSE served[s]]
    /\ toClient' = toClient \o
         SetToSeq({UpdateTo(s, update) : s \in {t \in subscribed \cap encoders : ~Queues(t)}})

Emit(kind, version) ==
    /\ changes < MaxChanges
    /\ changes' = changes + 1
    /\ current' = version
    /\ Publish([kind |-> kind, version |-> version])
    /\ UNCHANGED <<subscribed, encoders, closing, toServer, connected, losses, listener, lastId, bindingVars>>

Change == Emit("state", [current EXCEPT !.sequence = @ + 1])
Replace == Emit("replaced", [generation |-> current.generation + 1, sequence |-> 0])

(***************************************************************************)
(* The server.  A request is taken up when it arrives: the endpoint        *)
(* subscribes and takes the snapshot, or unsubscribes, before anything is  *)
(* awaited.                                                                *)
(***************************************************************************)
TakeSubscribe ==
    /\ toServer # <<>> /\ Head(toServer).type = "subscribe"
    /\ LET s == Head(toServer).id IN
         /\ subscribed' = subscribed \cup {s}
         /\ served' = [served EXCEPT ![s] = [phase |-> "invoked", snapshot |-> current, pending |-> <<>>]]
    /\ toServer' = Tail(toServer)
    /\ UNCHANGED <<current, changes, encoders, closing, toClient, connected, losses, listener, lastId, bindingVars>>

TakeUnsubscribe ==
    /\ toServer # <<>> /\ Head(toServer).type = "unsubscribe"
    /\ subscribed' = subscribed \ {Head(toServer).id}
    /\ closing' = closing \cup {Head(toServer).id}
    /\ toServer' = Tail(toServer)
    /\ UNCHANGED <<current, changes, encoders, served, toClient, connected, losses, listener, lastId, bindingVars>>

\* The snapshot is encoded and sent; updates wait until it has gone.
Respond(s) ==
    /\ served[s].phase = "invoked"
    /\ encoders' = encoders \cup {s}
    /\ toClient' = Append(toClient, [type |-> "snapshot", id |-> s, version |-> served[s].snapshot])
    /\ served' = [served EXCEPT ![s].phase = "draining", ![s].snapshot = Cold]
    /\ UNCHANGED <<providerVars, closing, toServer, connected, losses, listener, lastId, bindingVars>>

\* What waited is sent one update at a time, what comes meanwhile queueing behind it.
Drain(s) ==
    /\ served[s].phase = "draining"
    /\ IF served[s].pending = <<>>
       THEN served' = [served EXCEPT ![s].phase = "ready"] /\ UNCHANGED toClient
       ELSE /\ served' = [served EXCEPT ![s].pending = Tail(@)]
            /\ toClient' = IF s \in encoders
                           THEN Append(toClient, UpdateTo(s, Head(served[s].pending)))
                           ELSE toClient
    /\ UNCHANGED <<providerVars, encoders, closing, toServer, connected, losses, listener, lastId, bindingVars>>

AnswerUnsubscribe(s) ==
    /\ s \in closing
    /\ closing' = closing \ {s}
    /\ encoders' = encoders \ {s}
    /\ toClient' = Append(toClient, [type |-> "closed", id |-> s])
    /\ UNCHANGED <<providerVars, served, toServer, connected, losses, listener, lastId, bindingVars>>

(***************************************************************************)
(* The client.  An update that overtakes the continuation of its           *)
(* subscription waits: on the wire's form before the snapshot, decoded     *)
(* after it, until start.  An update nobody listens to is dropped.         *)
(***************************************************************************)
\* For mutation: an update between the answer and start is not kept.
HeardWhenStarted(s, update) ==
    IF listener[s].phase = "started" THEN [listener[s] EXCEPT !.tail = Append(@, update)] ELSE listener[s]

Heard(s, update) ==
    CASE listener[s].phase = "requested" -> [listener[s] EXCEPT !.wire = Append(@, update)]
      [] listener[s].phase = "answered" -> [listener[s] EXCEPT !.queued = Append(@, update)]
      [] listener[s].phase = "started" -> [listener[s] EXCEPT !.tail = Append(@, update)]
      [] OTHER -> listener[s]

Hydrated(s, version) ==
    IF listener[s].phase = "requested"
    THEN [listener[s] EXCEPT !.phase = "answered", !.snapshot = version, !.queued = listener[s].wire, !.wire = <<>>]
    ELSE listener[s]

Receive ==
    /\ toClient # <<>>
    /\ LET m == Head(toClient) IN
         listener' = [listener EXCEPT ![m.id] =
           CASE m.type = "update" -> Heard(m.id, [kind |-> m.kind, version |-> m.version])
             [] m.type = "snapshot" -> Hydrated(m.id, m.version)
             [] OTHER -> @]
    /\ toClient' = Tail(toClient)
    /\ UNCHANGED <<providerVars, serverVars, toServer, connected, losses, lastId, bindingVars>>

(***************************************************************************)
(* The binding.  A subscription whose answer arrives when the binding was  *)
(* bound anew or disposed is closed again instead of being shown.          *)
(***************************************************************************)
Wanted(s) == open /\ listener[s].revision = revision

Ended(l) == [l EXCEPT !.phase = "closed", !.snapshot = Cold, !.wire = <<>>, !.queued = <<>>]

Unsubscribe(s) == [type |-> "unsubscribe", id |-> s]

Install(s) ==
    /\ listener[s].phase = "answered" /\ Wanted(s)
    /\ facade' = listener[s].snapshot
    /\ listener' = [listener EXCEPT ![s].phase = "started", ![s].snapshot = Cold, ![s].tail = listener[s].queued, ![s].queued = <<>>]
    /\ UNCHANGED <<providerVars, serverVars, wireVars, lastId, open, opens, revision>>

\* For mutation: the subscription is dropped without telling the server.
DiscardQuietly(s) ==
    /\ listener[s].phase = "answered" /\ ~Wanted(s)
    /\ listener' = [listener EXCEPT ![s] = Ended(@)]
    /\ UNCHANGED <<providerVars, serverVars, wireVars, lastId, bindingVars>>

Discard(s) ==
    /\ listener[s].phase = "answered" /\ ~Wanted(s)
    /\ listener' = [listener EXCEPT ![s] = Ended(@)]
    /\ toServer' = Append(toServer, Unsubscribe(s))
    /\ UNCHANGED <<providerVars, serverVars, toClient, connected, losses, lastId, bindingVars>>

\* ReplicatedStateReplica: an update out of sequence clears the replica, one without a snapshot fails.
Shown(update) ==
    CASE update.kind = "replaced" -> update.version
      [] update.kind = "state" /\ facade # Cold /\ update.version.sequence = facade.sequence + 1 -> update.version
      [] OTHER -> Cold

Deliver(s) ==
    /\ listener[s].tail # <<>>
    /\ facade' = IF Wanted(s) THEN Shown(Head(listener[s].tail)) ELSE facade
    /\ listener' = [listener EXCEPT ![s].tail = Tail(@)]
    /\ UNCHANGED <<providerVars, serverVars, wireVars, lastId, open, opens, revision>>

Subscribed(l, s) == [l EXCEPT ![s] = [NoListener EXCEPT !.phase = "requested", !.revision = revision']]

Start ==
    /\ lastId < MaxSubscriptions
    /\ lastId' = lastId + 1
    /\ toServer' = Append(toServer, [type |-> "subscribe", id |-> lastId'])
    /\ listener' = Subscribed(listener, lastId')

Open ==
    /\ ~open /\ opens < MaxOpens
    /\ open' = TRUE /\ opens' = opens + 1
    /\ revision' = revision + 1
    /\ IF connected THEN Start ELSE UNCHANGED <<lastId, toServer, listener>>
    /\ UNCHANGED <<providerVars, serverVars, toClient, connected, losses, facade>>

\* dispose closes the subscription it shows; one still asked for is closed by Discard.
Dispose ==
    /\ open
    /\ open' = FALSE
    /\ revision' = revision + 1
    /\ facade' = Cold
    /\ LET shown == {s \in Subs : Wanted(s) /\ listener[s].phase = "started"} IN
         /\ listener' = [s \in Subs |-> IF s \in shown THEN Ended(listener[s]) ELSE listener[s]]
         /\ toServer' = toServer \o SetToSeq({Unsubscribe(s) : s \in shown})
    /\ UNCHANGED <<providerVars, serverVars, toClient, connected, losses, lastId, opens>>

(***************************************************************************)
(* The connection.  Both sides forget what they kept for it: the client    *)
(* rejects its requests and clears its listeners, the binding is unbound;  *)
(* the server clears the encoders and releases the endpoint.  Answers and  *)
(* updates under way are lost.                                             *)
(***************************************************************************)
Lose ==
    /\ connected /\ losses < MaxLosses
    /\ connected' = FALSE /\ losses' = losses + 1
    /\ toServer' = <<>> /\ toClient' = <<>>
    /\ subscribed' = {} /\ encoders' = {} /\ closing' = {}
    /\ served' = [s \in Subs |-> NotServed]
    /\ listener' = [s \in Subs |-> IF listener[s].phase = "none" THEN NoListener ELSE Ended(listener[s])]
    /\ revision' = revision + 1
    /\ facade' = Cold
    /\ UNCHANGED <<current, changes, lastId, open, opens>>

Connect ==
    /\ ~connected
    /\ connected' = TRUE
    /\ revision' = revision + 1
    /\ IF open THEN Start ELSE UNCHANGED <<lastId, toServer, listener>>
    /\ UNCHANGED <<providerVars, serverVars, toClient, losses, open, opens, facade>>

Serve ==
    \/ TakeSubscribe
    \/ TakeUnsubscribe
    \/ \E s \in Subs : Respond(s) \/ Drain(s) \/ AnswerUnsubscribe(s)

Client ==
    \/ Receive
    \/ \E s \in Subs : Install(s) \/ Discard(s) \/ Deliver(s)

Next == Change \/ Replace \/ Serve \/ Client \/ Open \/ Dispose \/ Lose \/ Connect

Spec == Init /\ [][Next]_vars

\* Promise jobs run, and a connection that is up delivers what was sent, in order.
FairSpec ==
    /\ Spec
    /\ WF_vars(TakeSubscribe) /\ WF_vars(TakeUnsubscribe) /\ WF_vars(Receive)
    /\ \A s \in Subs :
         /\ WF_vars(Respond(s)) /\ WF_vars(Drain(s)) /\ WF_vars(AnswerUnsubscribe(s))
         /\ WF_vars(Install(s)) /\ WF_vars(Discard(s)) /\ WF_vars(Deliver(s))

-----------------------------------------------------------------------------

\* Where messages of a kind to a subscription are in a queue.
Places(queue, type, s) == {i \in DOMAIN queue : queue[i].type = type /\ queue[i].id = s}

\* The updates to a subscription in a queue, in order.
UpdatesIn(queue, s) ==
    LET before[n \in Nat] ==
          IF n = 0 THEN <<>>
          ELSE IF n \in Places(queue, "update", s)
               THEN Append(before[n - 1], [kind |-> queue[n].kind, version |-> queue[n].version])
               ELSE before[n - 1]
    IN  before[Len(queue)]

\* The updates of a subscription between what it shows and the provider, oldest first.
UnderWay(s) ==
    listener[s].tail \o listener[s].queued \o listener[s].wire \o UpdatesIn(toClient, s) \o served[s].pending

\* What the first of them applies to.
Base(s) ==
    LET sent == Places(toClient, "snapshot", s) IN
    CASE listener[s].phase = "started" -> facade
      [] listener[s].phase = "answered" -> listener[s].snapshot
      [] OTHER -> IF sent = {} THEN served[s].snapshot
                  ELSE toClient[CHOOSE i \in sent : \A j \in sent : i <= j].version

\* Updates lead without a gap from one version to another.
Lead(base, path, version) ==
    LET Before(i) == IF i = 1 THEN base ELSE path[i - 1].version
    IN  /\ (IF path = <<>> THEN base ELSE Last(path).version) = version
        /\ \A i \in DOMAIN path : path[i].kind = "state" =>
             path[i].version = [Before(i) EXCEPT !.sequence = @ + 1]

\* For a subscription that is shown or will be, the snapshot or the state shown
\* and all updates queued, sent or waiting in between lead without a gap to the
\* state of the provider: publish (server.ts) queues while the snapshot is under
\* way, subscribeService and start (client.ts) while it is installed, and the
\* replica clears itself at a gap (state.ts).
NoGap ==
    \A s \in subscribed :
        Wanted(s) /\ listener[s].phase # "closed" => Lead(Base(s), UnderWay(s), current)

\* When nothing is under way the server keeps exactly what the client shows: no
\* provider subscription and no encoder is left behind by a binding that was
\* disposed or bound anew while its subscription was being answered, and an open
\* binding on a live connection has its subscription.
NoneLeftBehind ==
    /\ connected /\ toServer = <<>> /\ toClient = <<>> /\ closing = {}
    /\ \A s \in Subs : served[s].phase \in {"none", "ready"} /\ listener[s].phase \notin {"requested", "answered"}
    => LET shown == {s \in Subs : listener[s].phase = "started"}
       IN /\ subscribed = shown /\ encoders = shown
          /\ open = (\E s \in shown : Wanted(s))

\* A binding that stays open on a connection that stays up comes to show the
\* provider's state and keeps up with it, whatever was disposed, replaced or lost before.
CatchesUp == <>[](open /\ connected) => <>[](facade = current)

-----------------------------------------------------------------------------
(* Why NoGap and NoneLeftBehind hold: an invariant that every step         *)
(* preserves.                                                              *)

Version == [generation : Nat, sequence : Nat]
Update == [kind : {"state", "replaced"}, version : Version]
Listener ==
    [phase : {"none", "requested", "answered", "started", "closed"}, revision : Nat,
     snapshot : Version \cup {Cold}, wire : Seq(Update), queued : Seq(Update), tail : Seq(Update)]
Handler ==
    [phase : {"none", "invoked", "draining", "ready"}, snapshot : Version \cup {Cold}, pending : Seq(Update)]
Request == [type : {"subscribe", "unsubscribe"}, id : Subs]
Message ==
    [type : {"update"}, id : Subs, kind : {"state", "replaced"}, version : Version]
      \cup [type : {"snapshot"}, id : Subs, version : Version] \cup [type : {"closed"}, id : Subs]

TypeOK ==
    /\ current \in Version /\ changes \in Nat /\ subscribed \subseteq Subs
    /\ encoders \subseteq Subs /\ served \in [Subs -> Handler] /\ closing \subseteq Subs
    /\ toServer \in Seq(Request) /\ toClient \in Seq(Message) /\ connected \in BOOLEAN /\ losses \in Nat
    /\ listener \in [Subs -> Listener] /\ lastId \in 0..MaxSubscriptions
    /\ open \in BOOLEAN /\ opens \in Nat /\ revision \in Nat /\ facade \in Version \cup {Cold}

\* Revisions tell subscriptions apart; the one of the present revision belongs to the open binding
\* on the live connection, which has one.
RevisionInv ==
    /\ \A s, t \in Subs : listener[s].revision = listener[t].revision /\ listener[s].revision # 0 => s = t
    /\ \A s \in Subs : listener[s].revision <= revision
    /\ open /\ connected => \E s \in Subs : listener[s].phase # "none" /\ listener[s].revision = revision

\* What a listener keeps in each phase.
ListenerAt(s) ==
    LET l == listener[s] IN
    /\ s > lastId => l = NoListener
    /\ l.phase = "none" <=> l.revision = 0
    /\ l.phase # "none" /\ l.revision = revision =>
         open /\ connected /\ l.phase \in {"requested", "answered", "started"}
    /\ l.wire = <<>>
    /\ IF l.phase = "answered" THEN l.snapshot \in Version ELSE l.queued = <<>>
    /\ l.phase \in {"none", "requested", "answered"} => l.tail = <<>>
    /\ l.phase = "started" /\ l.revision = revision => facade \in Version

Asked(s) == Places(toServer, "subscribe", s) # {}
Leaving(s) == Places(toServer, "unsubscribe", s) # {}

\* Nothing to a subscription, or its snapshot, is on the way to the client.
Unmentioned(s) == \A i \in DOMAIN toClient : toClient[i].id # s
Answering(s) == Places(toClient, "snapshot", s) # {}

\* The snapshot comes before every update, once.
SnapshotFirst(s) ==
    \E k \in Places(toClient, "snapshot", s) : \A i \in DOMAIN toClient :
        toClient[i].id = s => k <= i /\ (toClient[i].type = "snapshot" => k = i)

\* How far a subscription is on the server and what the client knows of it.
ServedAt(s) ==
    LET phase == listener[s].phase
        h == served[s]
    IN
    /\ Asked(s) => phase = "requested" /\ h.phase = "none"
    /\ Leaving(s) => phase = "closed" /\ h.phase \in {"draining", "ready"}
    /\ h.phase \in {"none", "invoked"} => s \notin encoders \cup closing /\ Unmentioned(s)
    /\ h.phase = "none" => s \notin subscribed
    /\ h.phase = "invoked" => s \in subscribed /\ phase = "requested" /\ h.snapshot \in Version
    /\ h.phase \in {"draining", "ready"} /\ s \in subscribed => s \in encoders
    /\ h.phase = "ready" => h.pending = <<>>
    /\ s \in encoders => s \in subscribed \cup closing
    /\ s \in closing => s \notin subscribed
    /\ s \in subscribed => phase \in {"requested", "answered", "started"} \/ Leaving(s)
    /\ phase = "requested" => CASE h.phase = "none" -> Asked(s)
                                 [] h.phase = "invoked" -> TRUE
                                 [] OTHER -> s \in subscribed /\ SnapshotFirst(s)
    /\ phase # "requested" => ~ Answering(s)
    /\ phase \in {"answered", "started"} => s \in subscribed /\ h.phase \in {"draining", "ready"}
    /\ phase = "none" => h.phase = "none"

\* A connection that is lost keeps nothing.
LostInv ==
    ~ connected =>
        /\ toServer = <<>> /\ toClient = <<>>
        /\ \A s \in Subs : listener[s].phase \in {"none", "closed"} /\ served[s].phase = "none"

\* No subscription is asked for twice.
AskedOnce ==
    \A i, j \in DOMAIN toServer : toServer[i].type = "subscribe" /\ toServer[j] = toServer[i] => i = j

SubscriptionInv ==
    /\ TypeOK /\ RevisionInv /\ LostInv /\ AskedOnce
    /\ \A s \in Subs : ListenerAt(s) /\ ServedAt(s)
    /\ NoGap

=============================================================================
