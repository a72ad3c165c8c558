--------------------------- MODULE GuestConnection ---------------------------
(***************************************************************************)
(* The connections of a guest program: clintrinsics/connection.hpp, its    *)
(* host handlers in packages/bios, and the websockets of the two hosts,    *)
(* node (packages/d) and the browser (packages/pwa, packages/app).         *)
(*                                                                         *)
(* The host calls the guest back with the address of the Connection, for   *)
(* as long as the websocket lives; no call takes the address back.  Events *)
(* of a websocket are tasks of the host's event loop; what a promise that  *)
(* has settled continues with runs before the next task, but on node       *)
(* behind the messages that came with the answer to the handshake.         *)
(***************************************************************************)
EXTENDS Naturals, Sequences, FiniteSets, SequencesExt

CONSTANTS
  Connections,  \* Connection objects the guest may create, with their socket
  MaxMessages   \* bound: messages that arrive on one connection

ASSUME GuestConnectionAssumption == MaxMessages \in Nat

VARIABLES
  host,       \* which host runs the guest
  object,     \* object[c]: the Connection of the guest
  handle,     \* connections whose handle is set
  socket,     \* socket[c]: readyState of the websocket
  resolving,  \* sockets that opened and whose promise goes on next
  waiting,    \* tasks suspended in connect or sendMessage
  flushing,   \* sockets that still have to write what they were given
  inbox,      \* inbox[c]: events of the websocket not yet dispatched
  blobs,      \* blobs[c]: binary messages the browser is reading
  arrived,    \* arrived[c]: how many messages have come
  told,       \* history: told[c]: the events the guest was called back with
  dangling    \* history: events whose Connection was destroyed

vars == <<host, object, handle, socket, resolving, waiting, flushing, inbox,
          blobs, arrived, told, dangling>>

Hosts == {"node", "browser"}
Kinds == {"text", "binary"}
Message(kind, n) == [kind |-> kind, n |-> n]
Error == [kind |-> "error", n |-> 0]
Close == [kind |-> "close", n |-> 0]
Call == [c : Connections, in : {"connect", "send"}]
Task(c, call) == [c |-> c, in |-> call]

Init ==
  /\ host \in Hosts
  /\ object = [c \in Connections |-> "none"]
  /\ handle = {}
  /\ socket = [c \in Connections |-> "none"]
  /\ resolving = {} /\ waiting = {} /\ flushing = {}
  /\ inbox = [c \in Connections |-> <<>>]
  /\ blobs = [c \in Connections |-> {}]
  /\ arrived = [c \in Connections |-> 0]
  /\ told = [c \in Connections |-> <<>>]
  /\ dangling = {}

\* Defect: connect awaits something more before it sets the handle.
MoreIsAwaited == TRUE

\* Nothing is left to run before the next task of the event loop.
Idle == resolving = {}

-----------------------------------------------------------------------------
(* Calls of the guest                                                      *)

\* Connection::connect: the websocket is created and its listeners are set.
\* The address is read from a string that is gone by then: if what is read
\* is no address the handler throws, and there is no websocket.
Connect(c) ==
  /\ Idle /\ object[c] = "none"
  /\ object' = [object EXCEPT ![c] = "alive"]
  /\ waiting' = waiting \cup {Task(c, "connect")}
  /\ \E s \in {"connecting", "never"} : socket' = [socket EXCEPT ![c] = s]
  /\ UNCHANGED <<host, handle, resolving, flushing, inbox, blobs, arrived, told,
                 dangling>>

\* ConnectionAcceptor::listen, on node only: the Connection is made for a
\* socket that is open and is set up before the event is over.
Accept(c) ==
  /\ Idle /\ host = "node" /\ object[c] = "none"
  /\ object' = [object EXCEPT ![c] = "alive"]
  /\ socket' = [socket EXCEPT ![c] = "open"]
  /\ handle' = handle \cup {c}
  /\ UNCHANGED <<host, resolving, waiting, flushing, inbox, blobs, arrived, told,
                 dangling>>

\* Connection::sendMessage, of a guest that has been told that it may: its
\* handle is set.  One task per connection waits in it at a time.  A node websocket that is not open refuses, and
\* the task is not resumed; the browser drops the message and goes on.
SendMessage(c) ==
  /\ Idle /\ object[c] = "alive" /\ c \in handle
  /\ Task(c, "send") \notin waiting
  /\ waiting' = waiting \cup {Task(c, "send")}
  /\ flushing' = IF socket[c] = "open" \/ host = "browser"
                 THEN flushing \cup {c} ELSE flushing
  /\ UNCHANGED <<host, object, handle, socket, resolving, inbox, blobs, arrived,
                 told, dangling>>

\* Connection::close; on a socket that is not open it does nothing.  A
\* browser drops the messages that it has not given out by then.
CloseSocket(c) ==
  /\ Idle /\ object[c] = "alive" /\ c \in handle
  /\ socket[c] = "open"
  /\ socket' = [socket EXCEPT ![c] = "closing"]
  /\ inbox' = IF host = "browser" THEN [inbox EXCEPT ![c] = <<>>] ELSE inbox
  /\ UNCHANGED <<host, object, handle, resolving, waiting, flushing, blobs,
                 arrived, told, dangling>>

ToldOfEnd(c) == Contains(told[c], Close)

\* Defect: the guest counts on close(), as testNet of tests/web/a.cpp does.
HasClosed(c) == socket[c] \in {"closing", "closed"}

\* The guest keeps a Connection until it is told of its end.
MayDestroy(c) == ToldOfEnd(c)

\* ~Connection: the handle is released, the host keeps its callbacks.
Destroy(c) ==
  /\ Idle /\ object[c] = "alive"
  /\ MayDestroy(c)
  /\ object' = [object EXCEPT ![c] = "destroyed"]
  /\ handle' = handle \ {c}
  /\ UNCHANGED <<host, socket, resolving, waiting, flushing, inbox, blobs, arrived,
                 told, dangling>>

-----------------------------------------------------------------------------
(* Sockets                                                                 *)

\* The "open" event resolves the promise of openConnection.
SocketOpens(c) ==
  /\ Idle /\ socket[c] = "connecting"
  /\ socket' = [socket EXCEPT ![c] = "open"]
  /\ resolving' = resolving \cup {c}
  /\ UNCHANGED <<host, object, handle, waiting, flushing, inbox, blobs, arrived,
                 told, dangling>>

\* Defect: a refused connection has no close event.
EventsUnlessRefused(c) ==
  IF socket[c] = "connecting" THEN {<<Error>>} ELSE {<<Close>>, <<Error, Close>>}

\* The events of a websocket that ends; one that never opened has failed.
EndEvents(c) ==
  IF socket[c] = "connecting" THEN {<<Error, Close>>}
  ELSE {<<Close>>, <<Error, Close>>}

\* The websocket comes to its end, at whatever stage.  The promise of
\* openConnection has no listener for either event.
SocketEnds(c) ==
  /\ Idle /\ socket[c] \in {"connecting", "open", "closing"}
  /\ \E events \in EndEvents(c) :
       inbox' = [inbox EXCEPT ![c] = @ \o events]
  /\ socket' = [socket EXCEPT ![c] = "closed"]
  /\ UNCHANGED <<host, object, handle, resolving, waiting, flushing, blobs,
                 arrived, told, dangling>>

\* A message comes, perhaps together with the answer to the handshake; what
\* comes after close() a browser drops as well.
MessageArrives(c, kind) ==
  /\ arrived[c] < MaxMessages
  /\ socket[c] \in (IF host = "node" THEN {"open", "closing"} ELSE {"open"})
  /\ arrived' = [arrived EXCEPT ![c] = @ + 1]
  /\ inbox' = [inbox EXCEPT ![c] = Append(@, Message(kind, arrived'[c]))]
  /\ UNCHANGED <<host, object, handle, socket, resolving, waiting, flushing, blobs,
                 told, dangling>>

-----------------------------------------------------------------------------
(* Callbacks into the guest                                                *)

\* wasmCallback with the address of the Connection.
CallBack(c, event) ==
  IF object[c] = "alive"
  THEN told' = [told EXCEPT ![c] = Append(@, event)] /\ UNCHANGED dangling
  ELSE dangling' = dangling \cup {event} /\ UNCHANGED told

\* The handler of connect goes on: the handle is set, onOpen is called, and
\* the task is resumed.
ConnectReturns(c) ==
  /\ c \in resolving
  /\ resolving' = resolving \ {c}
  /\ handle' = handle \cup {c}
  /\ waiting' = waiting \ {Task(c, "connect")}
  /\ UNCHANGED <<host, object, socket, flushing, inbox, blobs, arrived, told,
                 dangling>>

\* What was given to the socket is written, and the task is resumed; if the
\* socket of a node host ends first the handler throws.
SendReturns(c) ==
  /\ Idle /\ c \in flushing
  /\ flushing' = flushing \ {c}
  /\ waiting' = IF socket[c] = "closed" /\ host = "node" THEN waiting
                ELSE waiting \ {Task(c, "send")}
  /\ UNCHANGED <<host, object, handle, socket, resolving, inbox, blobs, arrived,
                 told, dangling>>

\* Defect: the node host awaits the bytes as well.
ReadsEveryBlob(event) == event.kind = "binary"

\* The listener awaits Blob.arrayBuffer() before it calls back.
ReadsBlob(event) == host = "browser" /\ event.kind = "binary"

\* Events that the websocket of c has got to while others have to wait.
\* The ws of node gives out what came with the handshake's answer in a tick
\* of its own, before the promise that the "open" event has resolved.
MayDispatch(c) == Idle \/ (host = "node" /\ c \in resolving)

\* The first event of a websocket is given out.
Dispatch(c) ==
  /\ MayDispatch(c) /\ inbox[c] # <<>>
  /\ inbox' = [inbox EXCEPT ![c] = Tail(@)]
  /\ LET event == Head(inbox[c])
     IN  IF ReadsBlob(event)
         THEN blobs' = [blobs EXCEPT ![c] = @ \cup {event}]
              /\ UNCHANGED <<told, dangling>>
         ELSE CallBack(c, event) /\ UNCHANGED blobs
  /\ UNCHANGED <<host, object, handle, socket, resolving, waiting, flushing,
                 arrived>>

\* One of the reads is done.
BlobRead(c) ==
  /\ Idle
  /\ \E event \in blobs[c] :
       /\ blobs' = [blobs EXCEPT ![c] = @ \ {event}]
       /\ CallBack(c, event)
  /\ UNCHANGED <<host, object, handle, socket, resolving, waiting, flushing, inbox,
                 arrived>>

-----------------------------------------------------------------------------
GuestStep(c) ==
  Connect(c) \/ SendMessage(c) \/ CloseSocket(c) \/ Destroy(c)

HostStep(c) ==
  ConnectReturns(c) \/ SendReturns(c) \/ Dispatch(c) \/ BlobRead(c)

SocketStep(c) == SocketOpens(c) \/ SocketEnds(c)

Next ==
  \E c \in Connections :
    \/ GuestStep(c) \/ HostStep(c) \/ SocketStep(c) \/ Accept(c)
    \/ \E kind \in Kinds : MessageArrives(c, kind)

Spec == Init /\ [][Next]_vars

\* The event loop runs; a websocket that is connecting or closing comes to
\* an end of that, by the timeouts of the host.  Nobody has to call, to send
\* or to close an open connection.
FairSpec ==
  /\ Spec
  /\ \A c \in Connections :
       /\ WF_vars(ConnectReturns(c)) /\ WF_vars(SendReturns(c))
       /\ WF_vars(Dispatch(c)) /\ WF_vars(BlobRead(c))
       /\ WF_vars(socket[c] # "open" /\ SocketStep(c))

-----------------------------------------------------------------------------
Events == [kind : Kinds \cup {"error", "close"}, n : 0 .. MaxMessages]

TypeOK ==
  /\ host \in Hosts
  /\ object \in [Connections -> {"none", "alive", "destroyed"}]
  /\ handle \subseteq Connections
  /\ socket \in [Connections ->
                   {"none", "never", "connecting", "open", "closing", "closed"}]
  /\ resolving \subseteq Connections /\ flushing \subseteq Connections
  /\ waiting \subseteq Call
  /\ inbox \in [Connections -> Seq(Events)]
  /\ blobs \in [Connections -> SUBSET Events]
  /\ arrived \in [Connections -> 0 .. MaxMessages]
  /\ told \in [Connections -> Seq(Events)]
  /\ dangling \subseteq Events

IsMessage(event) == event.kind \in Kinds
Numbers(events) ==
  {events[i].n : i \in {j \in 1 .. Len(events) : IsMessage(events[j])}}

\* onMessage may answer: when the guest is told of a message the handle of
\* the Connection is set, though the task in connect() is resumed by a chain
\* of promises and the message is an event of the socket.  The one window is
\* on node, as long as connect() has still to go on.
HandleKnown ==
  \A c \in Connections : object[c] = "alive" =>
    \A i \in 1 .. Len(told[c]) :
      IsMessage(told[c][i]) => c \in handle \/ (host = "node" /\ c \in resolving)

ConnectionInv == TypeOK /\ HandleKnown

\* The guest is told of messages in their order, except of a binary one in a
\* browser, which those behind it may overtake.  A node host leaves none
\* out: by the close event the guest has been told of all that came.
MessagesInOrder ==
  \A c \in Connections :
    /\ \A i, j \in 1 .. Len(told[c]) :
         i < j /\ IsMessage(told[c][i]) /\ IsMessage(told[c][j])
           => \/ told[c][i].n < told[c][j].n
              \/ host = "browser" /\ told[c][j].kind = "binary"
    /\ host = "node" =>
         /\ \A n \in Numbers(told[c]) : 1 .. n \subseteq Numbers(told[c])
         /\ ToldOfEnd(c) => 1 .. arrived[c] \subseteq Numbers(told[c])

\* A guest that keeps its Connection until onClose is never called back with
\* the address of a destroyed one, but for a binary message that a browser
\* was reading when the connection ended: close is the last event.
EventsFindTheirConnection ==
  dangling # {} =>
    host = "browser" /\ \A event \in dangling : event.kind = "binary"

\* A task that waits in connect() or sendMessage() is resumed, or the guest
\* is told of the end of the connection by onClose: the failures that no
\* handler reports to the task are reported to the Connection.  The one that
\* is not is an address that cannot be read.
TasksAreAnswered ==
  \A call \in Call :
    call \in waiting ~>
      (call \notin waiting \/ ToldOfEnd(call.c) \/ socket[call.c] = "never")
=============================================================================
