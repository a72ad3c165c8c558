-------------------------- MODULE WebsocketSession --------------------------
(***************************************************************************)
(* The websocket sessions of libraries/net and the registry they share:    *)
(* websocket_session.cpp, websocket_session.hpp and shared_state.cpp.      *)
(*                                                                         *)
(* One thread runs the io_context, so a completion handler is one atomic   *)
(* step and the interleaving is that of handlers.  A session object is     *)
(* owned by nobody but the handlers that wait for it (each one binds       *)
(* shared_from_this()); the registry holds raw pointers.  Here a handler   *)
(* that waits is reading[s], writing[s] # NoMessage, an element of         *)
(* posted[s], or an opening phase, and the handler that leaves none behind *)
(* destroys the object, whose destructor unregisters it.                   *)
(*                                                                         *)
(* A message is the shared_ptr made by one shared_state::send, numbered in *)
(* the order of the calls; its text is never inspected.                    *)
(***************************************************************************)
EXTENDS Naturals, Sequences

CONSTANTS
  Sessions,    \* identities of the session objects that can be created
  MaxMessages  \* bound: messages the peers send in a behaviour

ASSUME MaxMessagesAssumption == MaxMessages \in Nat

VARIABLES
  phase,     \* phase[s]: where s is in the life of a session object
  sessions,  \* shared_state::sessions_, the raw pointers of joined sessions
  reading,   \* reading[s]: an async_read of s is outstanding
  writing,   \* writing[s]: the message s has given to async_write
  posted,    \* posted[s]: on_send handlers in the queue of the executor
  queue,     \* queue[s]: websocket_session::queue_
  broken,    \* broken[s]: an operation on the stream of s has failed
  count,     \* calls of shared_state::send so far
  joinedAt,  \* history: count when s joined
  delivered  \* history: messages of s whose async_write succeeded

vars == <<phase, sessions, reading, writing, posted, queue, broken,
          count, joinedAt, delivered>>

NoMessage == 0
Message == Nat \ {NoMessage}

Opening == {"resolve", "connect", "handshake", "accept"}
Phases == {"none", "open", "destroyed"} \cup Opening

TypeOK ==
  /\ phase \in [Sessions -> Phases]
  /\ sessions \subseteq Sessions
  /\ reading \in [Sessions -> BOOLEAN]
  /\ writing \in [Sessions -> Nat]
  /\ posted \in [Sessions -> Seq(Message)]
  /\ queue \in [Sessions -> Seq(Message)]
  /\ broken \in [Sessions -> BOOLEAN]
  /\ count \in Nat
  /\ joinedAt \in [Sessions -> Nat]
  /\ delivered \in [Sessions -> Seq(Message)]

Init ==
  /\ phase = [s \in Sessions |-> "none"]
  /\ sessions = {}
  /\ reading = [s \in Sessions |-> FALSE]
  /\ writing = [s \in Sessions |-> NoMessage]
  /\ posted = [s \in Sessions |-> <<>>]
  /\ queue = [s \in Sessions |-> <<>>]
  /\ broken = [s \in Sessions |-> FALSE]
  /\ count = 0
  /\ joinedAt = [s \in Sessions |-> 0]
  /\ delivered = [s \in Sessions |-> <<>>]

-----------------------------------------------------------------------------
(* shared_state and the life of the object                                 *)

Join(s) == sessions' = sessions \cup {s}

\* Defect: the destructor does not unregister.
LeaveForgotten(s) == UNCHANGED sessions

\* shared_state::leave erases the pointer whether or not it was inserted.
Leave(s) == sessions' = sessions \ {s}

\* The last handler that owned s has run: ~websocket_session.
Destroy(s) ==
  /\ phase' = [phase EXCEPT ![s] = "destroyed"]
  /\ Leave(s)

\* Defects: the object is kept by nobody's handler, or dropped too early.
ReleaseNever(s, owned) == UNCHANGED <<phase, sessions>>
ReleaseAlways(s, owned) == Destroy(s)

\* s outlives the handler that is running exactly if another one owns it.
ReleaseUnless(s, owned) ==
  IF owned THEN UNCHANGED <<phase, sessions>> ELSE Destroy(s)

-----------------------------------------------------------------------------
(* Opening a session                                                       *)

\* run(): the server role, called with the upgrade request of the peer.
Run(s) ==
  /\ phase[s] = "none"
  /\ phase' = [phase EXCEPT ![s] = "accept"]
  /\ UNCHANGED <<sessions, reading, writing, posted, queue, broken, count,
                 joinedAt, delivered>>

\* connect(): the client role, spawns the coroutine that awaits resolve.
Connect(s) ==
  /\ phase[s] = "none"
  /\ phase' = [phase EXCEPT ![s] = "resolve"]
  /\ UNCHANGED <<sessions, reading, writing, posted, queue, broken, count,
                 joinedAt, delivered>>

\* The coroutine resumes without error before its last await.
ConnectProgress(s) ==
  /\ \/ phase[s] = "resolve" /\ phase' = [phase EXCEPT ![s] = "connect"]
     \/ phase[s] = "connect" /\ phase' = [phase EXCEPT ![s] = "handshake"]
  /\ UNCHANGED <<sessions, reading, writing, posted, queue, broken, count,
                 joinedAt, delivered>>

\* The handshake is over, in on_accept or after the last await of connect().
Opened(s) ==
  /\ phase[s] \in {"accept", "handshake"}
  /\ phase' = [phase EXCEPT ![s] = "open"]
  /\ Join(s)
  /\ reading' = [reading EXCEPT ![s] = TRUE]
  /\ joinedAt' = [joinedAt EXCEPT ![s] = count]
  /\ UNCHANGED <<writing, posted, queue, broken, count, delivered>>

\* Defect: a failed step of connect() starts again.
OpenRetried(s) ==
  /\ phase[s] \in Opening
  /\ phase' = [phase EXCEPT ![s] = IF @ = "accept" THEN @ ELSE "resolve"]
  /\ UNCHANGED <<sessions, reading, writing, posted, queue, broken, count,
                 joinedAt, delivered>>

\* Any await of connect(), or on_accept, gets an error and returns: the
\* object dies without ever having joined, and leaves all the same.
OpenFailed(s) ==
  /\ phase[s] \in Opening
  /\ Destroy(s)
  /\ UNCHANGED <<reading, writing, posted, queue, broken, count, joinedAt,
                 delivered>>

-----------------------------------------------------------------------------
(* Receiving, and broadcasting what was received                           *)

\* Defect: a sender is not sent its own message.
OthersThan(s) == sessions \ {s}

\* The loop of shared_state::send: the sender s gets its message as well.
Recipients(s) == sessions

\* on_read with a message: shared_state::send posts one on_send to every
\* registered session, then reads again.
OnRead(s) ==
  /\ reading[s]
  /\ ~broken[s]
  /\ count < MaxMessages
  /\ count' = count + 1
  /\ posted' = [t \in Sessions |->
                  IF t \in Recipients(s) THEN Append(posted[t], count')
                                         ELSE posted[t]]
  /\ UNCHANGED <<phase, sessions, reading, writing, queue, broken, joinedAt,
                 delivered>>

\* on_read with an error: nothing is read any more.
OnReadError(s) ==
  /\ reading[s]
  /\ broken' = [broken EXCEPT ![s] = TRUE]
  /\ reading' = [reading EXCEPT ![s] = FALSE]
  /\ ReleaseUnless(s, posted[s] # <<>> \/ writing[s] # NoMessage)
  /\ UNCHANGED <<writing, posted, queue, count, joinedAt, delivered>>

-----------------------------------------------------------------------------
(* Sending                                                                 *)

\* Defect: queue_.size() is tested as if before the push_back.
AloneOffByOne(q) == Len(q) = 0

\* The test of on_send: queue_.size() > 1 means that a write is under way.
Alone(q) == Len(q) <= 1

\* Defects: the front is cleared, or kept, but not erased.
ResetFront(q) == [q EXCEPT ![1] = NoMessage]
KeptFront(q) == q

\* queue_.erase( queue_.begin() )
Erased(q) == Tail(q)

\* Defects: no further write is started, or that of the message queued last.
NothingMore(q) == NoMessage
LastOf(q) == IF q = <<>> THEN NoMessage ELSE q[Len(q)]

\* What on_write goes on with.
FirstOf(q) == IF q = <<>> THEN NoMessage ELSE Head(q)

\* on_send: the message joins the queue, and is written at once only when
\* it is alone there.
OnSend(s) ==
  /\ posted[s] # <<>>
  /\ posted' = [posted EXCEPT ![s] = Tail(@)]
  /\ queue' = [queue EXCEPT ![s] = Append(@, Head(posted[s]))]
  /\ writing' = IF Alone(queue'[s])
                THEN [writing EXCEPT ![s] = Head(queue'[s])]
                ELSE writing
  /\ ReleaseUnless(s, \/ reading[s]
                      \/ posted'[s] # <<>>
                      \/ writing'[s] # NoMessage)
  /\ UNCHANGED <<reading, broken, count, joinedAt, delivered>>

\* on_write without error: the front leaves the queue and the next message,
\* if any, is written.
OnWrite(s) ==
  /\ writing[s] # NoMessage
  /\ ~broken[s]
  /\ delivered' = [delivered EXCEPT ![s] = Append(@, writing[s])]
  /\ queue' = [queue EXCEPT ![s] = Erased(@)]
  /\ writing' = [writing EXCEPT ![s] = FirstOf(queue'[s])]
  /\ ReleaseUnless(s, \/ reading[s]
                      \/ posted[s] # <<>>
                      \/ writing'[s] # NoMessage)
  /\ UNCHANGED <<reading, posted, broken, count, joinedAt>>

\* on_write with an error returns at once: the front stays in the queue, so
\* that no later on_send starts a write.
OnWriteError(s) ==
  /\ writing[s] # NoMessage
  /\ broken' = [broken EXCEPT ![s] = TRUE]
  /\ writing' = [writing EXCEPT ![s] = NoMessage]
  /\ ReleaseUnless(s, reading[s] \/ posted[s] # <<>>)
  /\ UNCHANGED <<reading, posted, queue, count, joinedAt, delivered>>

-----------------------------------------------------------------------------
Step(s) ==
  \/ ConnectProgress(s) \/ Opened(s) \/ OpenFailed(s)
  \/ OnRead(s) \/ OnReadError(s)
  \/ OnSend(s) \/ OnWrite(s) \/ OnWriteError(s)

Next == \E s \in Sessions : Run(s) \/ Connect(s) \/ Step(s)

Spec == Init /\ [][Next]_vars

-----------------------------------------------------------------------------
(* Fairness.  The io_context runs every handler it holds; every operation  *)
(* that was started completes, a write because the peer reads or the       *)
(* connection fails, a handshake because Beast's suggested timeouts end    *)
(* it, and a read on a stream that has failed with that failure.  Nobody   *)
(* is obliged to send a message or to connect.                             *)
Fairness ==
  \A s \in Sessions :
    /\ WF_vars(OnSend(s))
    /\ WF_vars(OnWrite(s) \/ OnWriteError(s))
    /\ WF_vars(broken[s] /\ OnReadError(s))
    /\ WF_vars(ConnectProgress(s) \/ Opened(s) \/ OpenFailed(s))

FairSpec == Spec /\ Fairness

-----------------------------------------------------------------------------
(* Safety                                                                  *)

\* Some handler owns the session object: it has not been destroyed.
Pending(s) == reading[s] \/ writing[s] # NoMessage \/ posted[s] # <<>>

(* The messages of the peer of s, those in queue_ and those still posted   *)
(* are consecutive numbers that start where s joined; while s is           *)
(* registered they reach up to the last message broadcast.  So nothing is  *)
(* lost, repeated or reordered between shared_state::send, the executor,   *)
(* queue_ and the stream, whatever the other sessions do meanwhile.        *)
Consecutive(seq, start) == \A i \in 1 .. Len(seq) : seq[i] = start + i

SegmentOf(s) ==
  LET d == joinedAt[s] + Len(delivered[s])
      q == d + Len(queue[s])
  IN  /\ Consecutive(delivered[s], joinedAt[s])
      /\ Consecutive(queue[s], d)
      /\ Consecutive(posted[s], q)
      /\ s \in sessions => q + Len(posted[s]) = count

Segment == \A s \in Sessions : SegmentOf(s)

(* The string handed to async_write is the one at the front of queue_: the *)
(* write reads that buffer until on_write, and the shared_ptr in queue_ is *)
(* what keeps it allocated.  It also makes the writes of one session       *)
(* sequential, as Beast demands.                                           *)
WriteBufferIsOwned ==
  \A s \in Sessions :
    writing[s] # NoMessage => queue[s] # <<>> /\ writing[s] = Head(queue[s])

(* A session whose stream works never sits on a nonempty queue_ without a  *)
(* write under way: on_send relies on an on_write to come whenever it      *)
(* finds the queue occupied.                                               *)
NoStalledQueue ==
  \A s \in Sessions :
    queue[s] # <<>> /\ ~broken[s] => writing[s] # NoMessage

(* Both halves of the hand-over between on_send and on_write: a write      *)
(* under way is that of the front of queue_, and a queue_ that is not      *)
(* empty has one.                                                          *)
WritesFollowTheQueue == WriteBufferIsOwned /\ NoStalledQueue

(* The raw pointers shared_state::send dereferences point to live objects, *)
(* and a session that still has a handler to run has not been dropped from *)
(* the registry.                                                           *)
RegistryIsExact == \A s \in Sessions : s \in sessions <=> Pending(s)

(* A member whose stream works stays a member: only ~websocket_session     *)
(* unregisters, and the read a working session always has outstanding      *)
(* keeps it from being destroyed.                                          *)
LeaversAreBroken == \A s \in sessions \ sessions' : broken'[s]
OnlyBrokenLeave == [][LeaversAreBroken]_vars

(* The sessions implement the totally ordered broadcast of Broadcast.tla.  *)
Abstract == INSTANCE Broadcast
              WITH count <- count, sessions <- sessions,
                   joinedAt <- joinedAt, delivered <- delivered
Refines == Abstract!Spec

(* How the phase of a session goes with its handlers and its queues: the   *)
(* part of the inductive invariant that the properties above do not state. *)
Lifecycle ==
  \A s \in Sessions :
    /\ s \in sessions <=> phase[s] = "open"
    /\ phase[s] # "open" => ~Pending(s)
    /\ phase[s] = "open" /\ ~broken[s] => reading[s]
    /\ phase[s] \in {"none"} \cup Opening =>
         /\ ~broken[s]
         /\ queue[s] = <<>>
         /\ delivered[s] = <<>>

IInv ==
  /\ TypeOK
  /\ Lifecycle
  /\ RegistryIsExact
  /\ WriteBufferIsOwned
  /\ NoStalledQueue
  /\ Segment

-----------------------------------------------------------------------------
(* Liveness                                                                *)

(* Every message broadcast while s is a member is written to the peer of   *)
(* s, unless its stream fails: the hand-over between on_send and on_write  *)
(* never forgets the tail of queue_.                                       *)
EventuallyDelivered ==
  \A s \in Sessions : \A n \in 1 .. MaxMessages :
    (s \in sessions /\ joinedAt[s] < n /\ n <= count)
      ~> (broken[s] \/ Len(delivered[s]) >= n - joinedAt[s])

(* A session whose stream has failed is eventually destroyed and           *)
(* unregistered, once the peers stop sending (MaxMessages bounds them): a  *)
(* failed write, which leaves its message in queue_ for good, does not     *)
(* keep the object alive.                                                  *)
BrokenSessionsLeave ==
  \A s \in Sessions : broken[s] ~> phase[s] = "destroyed" /\ s \notin sessions
==============================================================================
