----------------------- MODULE GuestConnection_proofs -----------------------
(***************************************************************************)
(* Proofs about the guest's connections, for every set of connections and  *)
(* every bound on the messages: no event finds a destroyed Connection, the *)
(* guest may answer what it is told, and messages keep their order.        *)
(***************************************************************************)
EXTENDS GuestConnection, SequenceTheorems, TLAPS

-----------------------------------------------------------------------------
(* The inductive invariant, in parts that each speak of one connection     *)

\* A websocket that has not opened has no events, and before it is created
\* there is no Connection either.
Unopened(c) ==
  /\ socket[c] \in {"none", "never", "connecting"} =>
       inbox[c] = <<>> /\ blobs[c] = {} /\ told[c] = <<>>
  /\ object[c] = "none" => socket[c] = "none"

\* The close event of a websocket is the last one, and it has come.
CloseIsLast(c) ==
  \A i \in 1 .. Len(inbox[c]) :
    inbox[c][i] = Close => i = Len(inbox[c]) /\ socket[c] = "closed"

\* Nothing is to come once the guest has been told, and it destroys the
\* Connection only then.
EndIsLast(c) ==
  /\ ToldOfEnd(c) => inbox[c] = <<>> /\ socket[c] = "closed"
  /\ object[c] = "destroyed" => ToldOfEnd(c)

BlobsAreBinary(c) ==
  \A event \in blobs[c] : host = "browser" /\ event.kind = "binary"

\* Whoever may still get messages has a handle, or gets it with the promise
\* of connect.
HandleComes(c) ==
  (/\ object[c] = "alive"
   /\ \/ socket[c] \in {"open", "closing"}
      \/ blobs[c] # {}
      \/ \E i \in 1 .. Len(inbox[c]) : IsMessage(inbox[c][i]))
    => c \in handle \cup resolving

\* HandleKnown, of one connection.
KnownAt(c) ==
  object[c] = "alive" =>
    \A i \in 1 .. Len(told[c]) :
      IsMessage(told[c][i]) => c \in handle \/ (host = "node" /\ c \in resolving)

\* Messages in the inbox are newer than what has left it.
GivenOut(c) == Numbers(told[c]) \cup {event.n : event \in blobs[c]}
InboxInOrder(c) ==
  /\ \A i, j \in 1 .. Len(inbox[c]) :
       i < j /\ IsMessage(inbox[c][i]) /\ IsMessage(inbox[c][j])
         => inbox[c][i].n < inbox[c][j].n
  /\ \A i \in 1 .. Len(inbox[c]) :
       IsMessage(inbox[c][i]) =>
         /\ inbox[c][i].n <= arrived[c]
         /\ \A n \in GivenOut(c) : n < inbox[c][i].n
  /\ \A n \in GivenOut(c) : n <= arrived[c]

ToldInOrder(c) ==
  \A i, j \in 1 .. Len(told[c]) :
    i < j /\ IsMessage(told[c][i]) /\ IsMessage(told[c][j])
      => \/ told[c][i].n < told[c][j].n
         \/ host = "browser" /\ told[c][j].kind = "binary"

\* A node host loses no message.
NoneLost(c) ==
  host = "node" =>
    1 .. arrived[c] \subseteq Numbers(told[c]) \cup Numbers(inbox[c])

Orderly(c) ==
  /\ Unopened(c) /\ CloseIsLast(c) /\ EndIsLast(c) /\ BlobsAreBinary(c)
  /\ HandleComes(c) /\ KnownAt(c)
  /\ InboxInOrder(c) /\ ToldInOrder(c) /\ NoneLost(c)

IInv ==
  /\ TypeOK /\ EventsFindTheirConnection
  /\ \A c \in Connections : Orderly(c)

-----------------------------------------------------------------------------
(* Sequences of events                                                     *)

LEMMA NumbersAre ==
  ASSUME NEW events, NEW n
  PROVE  n \in Numbers(events) <=>
           \E i \in 1 .. Len(events) : IsMessage(events[i]) /\ n = events[i].n
BY DEF Numbers

LEMMA EventsHaveNumbers ==
  ASSUME NEW events \in Seq(Events)
  PROVE  /\ \A i \in 1 .. Len(events) : events[i] \in Events /\ events[i].n \in Nat
         /\ \A n \in Numbers(events) : n \in Nat
<1>1. ASSUME NEW i \in 1 .. Len(events)
      PROVE  events[i] \in Events /\ events[i].n \in Nat
  <2>1. events[i] \in Events
    BY ElementOfSeq
  <2>2. QED  BY <2>1, GuestConnectionAssumption DEF Events
<1>2. QED  BY <1>1 DEF Numbers

\* An event that is given out or arrives adds its number to those of a
\* sequence, if it is a message.
LEMMA AppendEvent ==
  ASSUME NEW events \in Seq(Events), NEW event \in Events
  PROVE  /\ Append(events, event) \in Seq(Events)
         /\ Len(events) \in Nat
         /\ Len(Append(events, event)) = Len(events) + 1
         /\ \A i \in 1 .. Len(events) + 1 :
              Append(events, event)[i] =
                IF i = Len(events) + 1 THEN event ELSE events[i]
         /\ \A n : n \in Numbers(Append(events, event)) <=>
                   n \in Numbers(events) \/ (IsMessage(event) /\ n = event.n)
         /\ \A e : Contains(Append(events, event), e) <=>
                   Contains(events, e) \/ e = event
<1>1. /\ Append(events, event) \in Seq(Events)
      /\ Len(events) \in Nat
      /\ Len(Append(events, event)) = Len(events) + 1
  BY AppendProperties, LenProperties
<1>2. \A i \in 1 .. Len(events) + 1 :
        Append(events, event)[i] =
          IF i = Len(events) + 1 THEN event ELSE events[i]
  BY <1>1, AppendProperties
<1>3. ASSUME NEW n
      PROVE  n \in Numbers(Append(events, event)) <=>
               n \in Numbers(events) \/ (IsMessage(event) /\ n = event.n)
  BY <1>1, <1>2 DEF Numbers
<1>4. ASSUME NEW e
      PROVE  Contains(Append(events, event), e) <=>
               Contains(events, e) \/ e = event
  BY <1>1, <1>2 DEF Contains
<1>5. QED  BY <1>1, <1>2, <1>3, <1>4

\* Giving out the first event.
LEMMA FirstEvent ==
  ASSUME NEW events \in Seq(Events), events # <<>>
  PROVE  /\ Head(events) \in Events /\ Tail(events) \in Seq(Events)
         /\ Len(events) \in Nat /\ Len(events) > 0
         /\ Len(Tail(events)) = Len(events) - 1
         /\ Head(events) = events[1]
         /\ \A i \in 1 .. Len(events) - 1 : Tail(events)[i] = events[i + 1]
         /\ \A n : n \in Numbers(events) <=>
                   \/ n \in Numbers(Tail(events))
                   \/ IsMessage(Head(events)) /\ n = Head(events).n
<1>1. /\ Head(events) \in Events /\ Tail(events) \in Seq(Events)
      /\ Len(events) \in Nat /\ Len(events) > 0
      /\ Len(Tail(events)) = Len(events) - 1
      /\ Head(events) = events[1]
  BY HeadTailProperties, LenProperties, EmptySeq
<1>2. \A i \in 1 .. Len(events) - 1 : Tail(events)[i] = events[i + 1]
  BY <1>1, HeadTailProperties
<1>3. ASSUME NEW n
      PROVE  n \in Numbers(events) <=>
               \/ n \in Numbers(Tail(events))
               \/ IsMessage(Head(events)) /\ n = Head(events).n
  <2>1. ASSUME NEW i \in 1 .. Len(events), i # 1
        PROVE  i - 1 \in 1 .. Len(events) - 1 /\ Tail(events)[i - 1] = events[i]
    BY <1>1, <1>2, <2>1
  <2>2. ASSUME NEW i \in 1 .. Len(Tail(events))
        PROVE  i + 1 \in 1 .. Len(events) /\ Tail(events)[i] = events[i + 1]
    BY <1>1, <1>2, <2>2
  <2>3. n \in Numbers(events) =>
          \/ n \in Numbers(Tail(events))
          \/ IsMessage(Head(events)) /\ n = Head(events).n
    BY <1>1, <2>1 DEF Numbers
  <2>4. n \in Numbers(Tail(events)) => n \in Numbers(events)
    BY <1>1, <2>2 DEF Numbers
  <2>5. IsMessage(Head(events)) /\ n = Head(events).n => n \in Numbers(events)
    BY <1>1 DEF Numbers
  <2>6. QED  BY <2>3, <2>4, <2>5
<1>4. QED  BY <1>1, <1>2, <1>3

\* A websocket ends with its close event and no further message.
LEMMA EndEventsAre ==
  ASSUME NEW c \in Connections, NEW events \in EndEvents(c)
  PROVE  /\ events \in Seq(Events) /\ Len(events) \in Nat /\ Len(events) > 0
         /\ \A i \in 1 .. Len(events) :
              /\ ~IsMessage(events[i])
              /\ events[i] = Close <=> i = Len(events)
<1>1. Error \in Events /\ Close \in Events /\ Error # Close
      /\ ~IsMessage(Error) /\ ~IsMessage(Close)
  BY GuestConnectionAssumption DEF Error, Close, Events, Kinds, IsMessage
<1>2. CASE events = <<Close>>
  BY <1>1, <1>2
<1>3. CASE events = <<Error, Close>>
  BY <1>1, <1>3
<1>4. QED  BY <1>2, <1>3 DEF EndEvents

LEMMA EventsAppended ==
  ASSUME NEW c \in Connections, NEW events \in EndEvents(c),
         NEW before \in Seq(Events)
  PROVE  /\ before \o events \in Seq(Events)
         /\ Len(before) \in Nat /\ Len(before \o events) \in Nat
         /\ Len(before) < Len(before \o events)
         /\ \A i \in 1 .. Len(before) : (before \o events)[i] = before[i]
         /\ \A i \in Len(before) + 1 .. Len(before \o events) :
              /\ ~IsMessage((before \o events)[i])
              /\ (before \o events)[i] = Close => i = Len(before \o events)
<1>1. /\ events \in Seq(Events) /\ Len(events) \in Nat /\ Len(events) > 0
      /\ \A i \in 1 .. Len(events) :
           ~IsMessage(events[i]) /\ (events[i] = Close <=> i = Len(events))
  BY EndEventsAre
<1>2. /\ before \o events \in Seq(Events)
      /\ Len(before) \in Nat
      /\ Len(before \o events) = Len(before) + Len(events)
      /\ \A i \in 1 .. Len(before) + Len(events) :
           (before \o events)[i] = IF i <= Len(before) THEN before[i]
                                   ELSE events[i - Len(before)]
  BY <1>1, ConcatProperties, LenProperties
<1>3. ASSUME NEW i \in Len(before) + 1 .. Len(before \o events)
      PROVE  /\ ~IsMessage((before \o events)[i])
             /\ (before \o events)[i] = Close => i = Len(before \o events)
  <2> DEFINE j == i - Len(before)
  <2>1. j \in 1 .. Len(events)
    BY <1>1, <1>2, <1>3
  <2>2. (before \o events)[i] = events[j]
    BY <1>1, <1>2, <1>3
  <2>3. j = Len(events) => i = Len(before \o events)
    BY <1>1, <1>2, <1>3
  <2> HIDE DEF j
  <2>4. ~IsMessage(events[j]) /\ (events[j] = Close => j = Len(events))
    BY <1>1, <2>1
  <2>5. QED  BY <2>2, <2>3, <2>4
<1>4. Len(before \o events) \in Nat /\ Len(before) < Len(before \o events)
  BY <1>1, <1>2
<1>5. \A i \in 1 .. Len(before) : (before \o events)[i] = before[i]
  BY <1>1, <1>2
<1>6. QED  BY <1>2, <1>3, <1>4, <1>5

-----------------------------------------------------------------------------
(* What does not concern a connection                                      *)

\* Nothing of c changes, but that its handle may be set.
SameAt(c) ==
  /\ host' = host
  /\ object'[c] = object[c] /\ socket'[c] = socket[c] /\ inbox'[c] = inbox[c]
  /\ blobs'[c] = blobs[c] /\ arrived'[c] = arrived[c] /\ told'[c] = told[c]
  /\ c \in handle => c \in handle'
  /\ c \in resolving => c \in handle' \cup resolving'

LEMMA SameAtOrderly ==
  ASSUME NEW c \in Connections, Orderly(c), SameAt(c)
  PROVE  Orderly(c)'
<1> USE DEF SameAt
<1>1. Unopened(c)' /\ BlobsAreBinary(c)' /\ CloseIsLast(c)'
  BY DEF Orderly, Unopened, BlobsAreBinary, CloseIsLast
<1>2. EndIsLast(c)' /\ HandleComes(c)' /\ KnownAt(c)'
  BY DEF Orderly, EndIsLast, ToldOfEnd, HandleComes, KnownAt
<1>3. InboxInOrder(c)'
  BY DEF Orderly, InboxInOrder, GivenOut
<1>4. ToldInOrder(c)' /\ NoneLost(c)'
  BY DEF Orderly, ToldInOrder, NoneLost
<1>5. QED  BY <1>1, <1>2, <1>3, <1>4 DEF Orderly

\* The steps of connection c.
StepOf(c) ==
  \/ GuestStep(c) \/ HostStep(c) \/ SocketStep(c) \/ Accept(c)
  \/ \E kind \in Kinds : MessageArrives(c, kind)

\* No step of c changes anything of another connection.
LEMMA OthersSame ==
  ASSUME TypeOK, NEW c \in Connections, StepOf(c),
         NEW d \in Connections, d # c
  PROVE  SameAt(d)
<1> USE DEF SameAt, TypeOK
<1>1. CASE Connect(c)
  BY <1>1 DEF Connect
<1>2. CASE SendMessage(c)
  BY <1>2 DEF SendMessage
<1>3. CASE CloseSocket(c)
  BY <1>3 DEF CloseSocket
<1>4. CASE Destroy(c)
  BY <1>4 DEF Destroy
<1>5. CASE ConnectReturns(c)
  BY <1>5 DEF ConnectReturns
<1>6. CASE SendReturns(c)
  BY <1>6 DEF SendReturns
<1>7. CASE Dispatch(c)
  BY <1>7 DEF Dispatch, CallBack
<1>8. CASE BlobRead(c)
  BY <1>8 DEF BlobRead, CallBack
<1>9. CASE SocketOpens(c)
  BY <1>9 DEF SocketOpens
<1>10. CASE SocketEnds(c)
  BY <1>10 DEF SocketEnds
<1>11. CASE Accept(c)
  BY <1>11 DEF Accept
<1>12. ASSUME NEW kind \in Kinds, MessageArrives(c, kind)
       PROVE  SameAt(d)
  BY <1>12 DEF MessageArrives
<1>13. QED
  BY <1>1, <1>2, <1>3, <1>4, <1>5, <1>6, <1>7, <1>8, <1>9, <1>10, <1>11, <1>12
  DEF StepOf, GuestStep, HostStep, SocketStep

-----------------------------------------------------------------------------
(* The types                                                               *)

LEMMA MessageIsEvent ==
  ASSUME NEW kind \in Kinds, NEW n \in 0 .. MaxMessages
  PROVE  Message(kind, n) \in Events /\ IsMessage(Message(kind, n))
BY DEF Message, Events, IsMessage

LEMMA CallBackType ==
  ASSUME TypeOK, NEW c \in Connections, NEW event \in Events, CallBack(c, event)
  PROVE  told' \in [Connections -> Seq(Events)] /\ dangling' \subseteq Events
<1>1. Append(told[c], event) \in Seq(Events)
  BY AppendEvent DEF TypeOK
<1>2. QED  BY <1>1 DEF TypeOK, CallBack

LEMMA StepType ==
  ASSUME TypeOK, NEW c \in Connections, StepOf(c)
  PROVE  TypeOK'
<1>1. CASE Connect(c)
  BY <1>1 DEF TypeOK, Connect, Task, Call
<1>2. CASE SendMessage(c)
  BY <1>2 DEF TypeOK, SendMessage, Task, Call
<1>3. CASE CloseSocket(c)
  BY <1>3, EmptySeq DEF TypeOK, CloseSocket
<1>4. CASE Destroy(c)
  BY <1>4 DEF TypeOK, Destroy
<1>5. CASE ConnectReturns(c)
  BY <1>5 DEF TypeOK, ConnectReturns
<1>6. CASE SendReturns(c)
  BY <1>6 DEF TypeOK, SendReturns
<1>7. CASE Dispatch(c)
  <2>1. Head(inbox[c]) \in Events /\ Tail(inbox[c]) \in Seq(Events)
    BY <1>7, FirstEvent DEF TypeOK, Dispatch
  <2>2. told' \in [Connections -> Seq(Events)] /\ dangling' \subseteq Events
        /\ blobs' \in [Connections -> SUBSET Events]
    <3> DEFINE event == Head(inbox[c])
    <3>1. CASE ReadsBlob(event)
      <4>1. /\ blobs' = [blobs EXCEPT ![c] = blobs[c] \cup {event}]
            /\ told' = told /\ dangling' = dangling
        BY <1>7, <3>1, Zenon DEF Dispatch
      <4> HIDE DEF event
      <4>2. blobs[c] \cup {event} \subseteq Events
        BY <2>1 DEF TypeOK, event
      <4>3. QED  BY <4>1, <4>2 DEF TypeOK
    <3>2. CASE ~ReadsBlob(event)
      <4>1. CallBack(c, event) /\ blobs' = blobs
        BY <1>7, <3>2, Zenon DEF Dispatch
      <4>2. QED  BY <2>1, <4>1, CallBackType DEF TypeOK
    <3>3. QED  BY <3>1, <3>2
  <2>3. QED  BY <1>7, <2>1, <2>2 DEF TypeOK, Dispatch
<1>8. CASE BlobRead(c)
  <2>1. told' \in [Connections -> Seq(Events)] /\ dangling' \subseteq Events
        /\ blobs' \in [Connections -> SUBSET Events]
    BY <1>8, CallBackType DEF TypeOK, BlobRead
  <2>2. QED  BY <1>8, <2>1 DEF TypeOK, BlobRead
<1>9. CASE SocketOpens(c)
  BY <1>9 DEF TypeOK, SocketOpens
<1>10. CASE SocketEnds(c)
  <2>1. PICK events \in EndEvents(c) :
          inbox' = [inbox EXCEPT ![c] = @ \o events]
    BY <1>10 DEF SocketEnds
  <2>2. inbox[c] \o events \in Seq(Events)
    BY EventsAppended DEF TypeOK
  <2>3. inbox' \in [Connections -> Seq(Events)]
    BY <2>1, <2>2 DEF TypeOK
  <2>4. QED  BY <1>10, <2>3 DEF TypeOK, SocketEnds
<1>11. CASE Accept(c)
  BY <1>11 DEF TypeOK, Accept
<1>12. ASSUME NEW kind \in Kinds, MessageArrives(c, kind)
       PROVE  TypeOK'
  <2>1. arrived[c] + 1 \in 0 .. MaxMessages /\ arrived'[c] = arrived[c] + 1
    BY <1>12, GuestConnectionAssumption DEF TypeOK, MessageArrives
  <2>2. Append(inbox[c], Message(kind, arrived'[c])) \in Seq(Events)
    BY <2>1, MessageIsEvent, AppendEvent DEF TypeOK
  <2>3. QED  BY <1>12, <2>1, <2>2 DEF TypeOK, MessageArrives
<1>13. QED
  BY <1>1, <1>2, <1>3, <1>4, <1>5, <1>6, <1>7, <1>8, <1>9, <1>10, <1>11, <1>12
  DEF StepOf, GuestStep, HostStep, SocketStep

-----------------------------------------------------------------------------
(* The steps that change a connection: one lemma for each                  *)

LEMMA GivenOutIs ==
  ASSUME NEW c \in Connections, NEW n
  PROVE  n \in GivenOut(c) <=> \/ n \in Numbers(told[c])
                              \/ \E event \in blobs[c] : n = event.n
BY DEF GivenOut

LEMMA ConnectOrderly ==
  ASSUME IInv, NEW c \in Connections, Connect(c) \/ Accept(c)
  PROVE  Orderly(c)'
<1> USE DEF Connect, Accept
<1>1. /\ Orderly(c) /\ inbox[c] = <<>> /\ blobs[c] = {} /\ told[c] = <<>>
      /\ ~ToldOfEnd(c) /\ object[c] = "none"
  BY EmptySeq DEF IInv, Orderly, Unopened, ToldOfEnd, Contains
<1>2. /\ inbox'[c] = <<>> /\ blobs'[c] = {} /\ told'[c] = <<>>
      /\ object'[c] = "alive" /\ arrived'[c] = arrived[c] /\ host' = host
      /\ socket'[c] \in {"connecting", "never", "open"}
      /\ socket'[c] = "open" => c \in handle'
  BY <1>1 DEF IInv, TypeOK
<1>3. Unopened(c)' /\ BlobsAreBinary(c)' /\ CloseIsLast(c)' /\ KnownAt(c)'
      /\ ToldInOrder(c)'
  BY <1>2 DEF Unopened, BlobsAreBinary, CloseIsLast, KnownAt, ToldInOrder
<1>4. EndIsLast(c)' /\ HandleComes(c)'
  BY <1>2 DEF EndIsLast, HandleComes, ToldOfEnd, Contains
<1>5. InboxInOrder(c)'
  BY <1>2 DEF InboxInOrder, GivenOut, Numbers
<1>6. NoneLost(c)'
  BY <1>1, <1>2 DEF Orderly, NoneLost
<1>7. QED  BY <1>3, <1>4, <1>5, <1>6 DEF Orderly

LEMMA CloseSocketOrderly ==
  ASSUME IInv, NEW c \in Connections, CloseSocket(c)
  PROVE  Orderly(c)'
<1> USE DEF CloseSocket
<1>1. Orderly(c)
  BY DEF IInv
<1>2. /\ socket[c] = "open" /\ socket'[c] = "closing" /\ c \in handle'
      /\ host = "browser" => inbox'[c] = <<>>
      /\ host # "browser" => inbox'[c] = inbox[c]
      /\ blobs' = blobs /\ told' = told /\ arrived' = arrived
      /\ object' = object /\ host' = host /\ handle' = handle
      /\ resolving' = resolving
  BY DEF IInv, TypeOK
<1>3. ~ToldOfEnd(c)
  BY <1>1, <1>2 DEF Orderly, EndIsLast
<1>4. Unopened(c)' /\ BlobsAreBinary(c)' /\ KnownAt(c)' /\ ToldInOrder(c)'
      /\ HandleComes(c)'
  BY <1>1, <1>2
  DEF Orderly, Unopened, BlobsAreBinary, KnownAt, ToldInOrder, HandleComes
<1>5. CloseIsLast(c)'
  BY <1>1, <1>2 DEF Orderly, CloseIsLast
<1>6. EndIsLast(c)'
  BY <1>1, <1>2, <1>3 DEF Orderly, EndIsLast, ToldOfEnd
<1>7. InboxInOrder(c)'
  <2>1. CASE host = "browser"
    BY <1>1, <1>2, <2>1 DEF Orderly, InboxInOrder, GivenOut
  <2>2. CASE host # "browser"
    BY <1>1, <1>2, <2>2 DEF Orderly, InboxInOrder, GivenOut
  <2>3. QED  BY <2>1, <2>2
<1>8. NoneLost(c)'
  BY <1>1, <1>2 DEF Orderly, NoneLost
<1>9. QED  BY <1>4, <1>5, <1>6, <1>7, <1>8 DEF Orderly

LEMMA DestroyOrderly ==
  ASSUME IInv, NEW c \in Connections, Destroy(c)
  PROVE  Orderly(c)'
<1> USE DEF Destroy, MayDestroy
<1>1. Orderly(c)
  BY DEF IInv
<1>2. /\ object[c] = "alive" /\ object'[c] = "destroyed" /\ ToldOfEnd(c)
      /\ UNCHANGED <<host, socket, inbox, blobs, arrived, told>>
  BY DEF IInv, TypeOK
<1>3. Unopened(c)' /\ BlobsAreBinary(c)' /\ KnownAt(c)' /\ ToldInOrder(c)'
      /\ HandleComes(c)' /\ CloseIsLast(c)' /\ EndIsLast(c)'
  BY <1>1, <1>2
  DEF Orderly, Unopened, BlobsAreBinary, KnownAt, ToldInOrder, HandleComes,
      CloseIsLast, EndIsLast, ToldOfEnd
<1>4. InboxInOrder(c)' /\ NoneLost(c)'
  BY <1>1, <1>2 DEF Orderly, InboxInOrder, GivenOut, NoneLost
<1>5. QED  BY <1>3, <1>4 DEF Orderly

LEMMA SocketOpensOrderly ==
  ASSUME IInv, NEW c \in Connections, SocketOpens(c)
  PROVE  Orderly(c)'
<1> USE DEF SocketOpens
<1>1. Orderly(c)
  BY DEF IInv
<1>2. /\ socket[c] = "connecting" /\ socket'[c] = "open" /\ c \in resolving'
      /\ UNCHANGED <<host, object, handle, inbox, blobs, arrived, told>>
      /\ inbox[c] = <<>> /\ blobs[c] = {} /\ told[c] = <<>>
  BY <1>1 DEF IInv, TypeOK, Orderly, Unopened
<1>3. Unopened(c)' /\ BlobsAreBinary(c)' /\ KnownAt(c)' /\ ToldInOrder(c)'
      /\ HandleComes(c)' /\ CloseIsLast(c)' /\ EndIsLast(c)'
  BY <1>1, <1>2
  DEF Orderly, Unopened, BlobsAreBinary, KnownAt, ToldInOrder, HandleComes,
      CloseIsLast, EndIsLast, ToldOfEnd
<1>4. InboxInOrder(c)' /\ NoneLost(c)'
  BY <1>1, <1>2 DEF Orderly, InboxInOrder, GivenOut, NoneLost
<1>5. QED  BY <1>3, <1>4 DEF Orderly

LEMMA SocketEndsOrderly ==
  ASSUME IInv, NEW c \in Connections, SocketEnds(c)
  PROVE  Orderly(c)'
<1> USE DEF SocketEnds
<1>1. Orderly(c)
  BY DEF IInv
<1>2. PICK events \in EndEvents(c) :
        inbox' = [inbox EXCEPT ![c] = @ \o events]
  OBVIOUS
<1> DEFINE before == inbox[c]
           after == before \o events
<1>3. /\ socket[c] \in {"connecting", "open", "closing"}
      /\ socket'[c] = "closed" /\ inbox'[c] = after
      /\ UNCHANGED <<host, object, handle, resolving, blobs, arrived, told>>
  BY <1>2 DEF IInv, TypeOK
<1>4. before \in Seq(Events)
  BY DEF IInv, TypeOK
<1> HIDE DEF before
<1>5. /\ Len(before) \in Nat /\ Len(after) \in Nat /\ Len(before) < Len(after)
      /\ \A i \in 1 .. Len(before) : after[i] = before[i]
      /\ \A i \in Len(before) + 1 .. Len(after) :
           ~IsMessage(after[i]) /\ (after[i] = Close => i = Len(after))
  BY <1>4, EventsAppended
<1> HIDE DEF after
<1>6. \A i \in 1 .. Len(after) : i \notin 1 .. Len(before) =>
        i \in Len(before) + 1 .. Len(after)
  BY <1>5
<1>7. Unopened(c)' /\ BlobsAreBinary(c)' /\ KnownAt(c)' /\ ToldInOrder(c)'
  BY <1>1, <1>3
  DEF Orderly, Unopened, BlobsAreBinary, KnownAt, ToldInOrder
<1>8. CloseIsLast(c)'
  BY <1>1, <1>3, <1>5, <1>6 DEF Orderly, CloseIsLast, before
<1>9. EndIsLast(c)'
  BY <1>1, <1>3, EmptySeq
  DEF Orderly, EndIsLast, Unopened, ToldOfEnd, Contains
<1>10. ASSUME NEW i \in 1 .. Len(after), IsMessage(after[i])
       PROVE  i \in 1 .. Len(before) /\ after[i] = before[i]
  BY <1>5, <1>6, <1>10
<1>11. HandleComes(c)'
  BY <1>1, <1>3, <1>10 DEF Orderly, HandleComes, before
<1>12. InboxInOrder(c)'
  BY <1>1, <1>3, <1>10 DEF Orderly, InboxInOrder, GivenOut, before
<1>13. Numbers(before) \subseteq Numbers(after)
  BY <1>5 DEF Numbers
<1>14. NoneLost(c)'
  BY <1>1, <1>3, <1>13 DEF Orderly, NoneLost, before
<1>15. QED
  BY <1>7, <1>8, <1>9, <1>11, <1>12, <1>14 DEF Orderly

LEMMA MessageArrivesOrderly ==
  ASSUME IInv, NEW c \in Connections, NEW kind \in Kinds, MessageArrives(c, kind)
  PROVE  Orderly(c)'
<1> USE DEF MessageArrives
<1> DEFINE n == arrived[c] + 1
           event == Message(kind, n)
           before == inbox[c]
           after == Append(before, event)
<1>1. Orderly(c)
  BY DEF IInv
<1>2. /\ socket[c] \in {"open", "closing"}
      /\ arrived'[c] = n /\ inbox'[c] = after
      /\ UNCHANGED <<host, object, handle, socket, resolving, blobs, told>>
  BY DEF IInv, TypeOK
<1>3. n \in Nat /\ arrived[c] \in Nat /\ n \in 0 .. MaxMessages
      /\ before \in Seq(Events)
  BY GuestConnectionAssumption DEF IInv, TypeOK
<1>4. event \in Events /\ IsMessage(event) /\ event.n = n /\ event # Close
  BY <1>3, MessageIsEvent DEF Message, Close, Kinds
<1> HIDE DEF n, event, before
<1>5. /\ Len(before) \in Nat /\ Len(after) = Len(before) + 1
      /\ \A i \in 1 .. Len(after) :
           after[i] = IF i = Len(before) + 1 THEN event ELSE before[i]
      /\ \A m : m \in Numbers(after) <=> m \in Numbers(before) \/ m = n
  BY <1>3, <1>4, AppendEvent
<1> HIDE DEF after
<1>6. \A i \in 1 .. Len(after) : i # Len(before) + 1 =>
        i \in 1 .. Len(before) /\ after[i] = before[i]
  BY <1>5
<1>7. after[Len(before) + 1] = event /\ Len(before) + 1 \in 1 .. Len(after)
  BY <1>5
<1>8. Unopened(c)' /\ BlobsAreBinary(c)' /\ KnownAt(c)' /\ ToldInOrder(c)'
  BY <1>1, <1>2
  DEF Orderly, Unopened, BlobsAreBinary, KnownAt, ToldInOrder
<1>9. CloseIsLast(c)'
  BY <1>1, <1>2, <1>4, <1>6, <1>7 DEF Orderly, CloseIsLast, before
<1>10. EndIsLast(c)'
  BY <1>1, <1>2 DEF Orderly, EndIsLast, ToldOfEnd
<1>11. HandleComes(c)'
  BY <1>1, <1>2 DEF Orderly, HandleComes
<1>12. InboxInOrder(c)'
  <2>1. ASSUME NEW i \in 1 .. Len(before), IsMessage(before[i])
        PROVE  before[i].n \in Nat /\ before[i].n < n
    <3>1. before[i].n \in Nat
      BY <1>3, EventsHaveNumbers
    <3>2. before[i].n <= arrived[c]
      BY <1>1, <2>1 DEF Orderly, InboxInOrder, before
    <3>3. QED  BY <1>3, <3>1, <3>2 DEF n
  <2>2. ASSUME NEW m \in GivenOut(c)
        PROVE  m \in Nat /\ m < n
    <3>1. m \in Nat
      <4>1. told[c] \in Seq(Events) /\ blobs[c] \subseteq Events
        BY DEF IInv, TypeOK
      <4>2. \A e \in Events : e.n \in Nat
        BY GuestConnectionAssumption DEF Events
      <4>3. QED  BY <4>1, <4>2, EventsHaveNumbers DEF GivenOut
    <3>2. m <= arrived[c]
      BY <1>1 DEF Orderly, InboxInOrder
    <3>3. QED  BY <1>3, <3>1, <3>2 DEF n
  <2>3. GivenOut(c)' = GivenOut(c)
    BY <1>2 DEF GivenOut
  <2>4. ASSUME NEW i \in 1 .. Len(after), NEW j \in 1 .. Len(after), i < j,
               IsMessage(after[i]), IsMessage(after[j])
        PROVE  after[i].n < after[j].n
    <3>1. i \in 1 .. Len(before) /\ after[i] = before[i]
      BY <1>5, <2>4
    <3>2. CASE j = Len(before) + 1
      BY <1>4, <1>7, <2>1, <2>4, <3>1, <3>2
    <3>3. CASE j # Len(before) + 1
      BY <1>1, <1>6, <2>4, <3>1, <3>3 DEF Orderly, InboxInOrder, before
    <3>4. QED  BY <3>2, <3>3
  <2>5. ASSUME NEW i \in 1 .. Len(after), IsMessage(after[i])
        PROVE  after[i].n <= n /\ \A m \in GivenOut(c) : m < after[i].n
    <3>1. CASE i = Len(before) + 1
      BY <1>3, <1>4, <1>7, <2>2, <3>1
    <3>2. CASE i # Len(before) + 1
      BY <1>1, <1>3, <1>6, <2>1, <2>5, <3>2 DEF Orderly, InboxInOrder, before
    <3>3. QED  BY <3>1, <3>2
  <2>6. \A m \in GivenOut(c) : m <= n
    BY <1>3, <2>2
  <2>7. QED  BY <1>2, <2>3, <2>4, <2>5, <2>6 DEF InboxInOrder
<1>13. NoneLost(c)'
  <2>1. 1 .. n \subseteq 1 .. arrived[c] \cup {n}
    BY <1>3 DEF n
  <2>2. QED  BY <1>1, <1>2, <1>5, <2>1 DEF Orderly, NoneLost, before
<1>14. QED
  BY <1>8, <1>9, <1>10, <1>11, <1>12, <1>13 DEF Orderly

\* The first event of c finds its Connection.
LEMMA DispatchEffect ==
  ASSUME IInv, NEW c \in Connections, Dispatch(c)
  PROVE  /\ inbox[c] \in Seq(Events) /\ inbox[c] # <<>>
         /\ inbox'[c] = Tail(inbox[c])
         /\ object[c] = "alive" /\ ~ToldOfEnd(c)
         /\ UNCHANGED <<host, object, handle, socket, resolving, arrived, dangling>>
         /\ IF ReadsBlob(Head(inbox[c]))
            THEN /\ blobs'[c] = blobs[c] \cup {Head(inbox[c])}
                 /\ told'[c] = told[c]
            ELSE /\ told'[c] = Append(told[c], Head(inbox[c]))
                 /\ blobs'[c] = blobs[c]
<1>1. /\ inbox[c] \in Seq(Events) /\ inbox[c] # <<>>
      /\ inbox'[c] = Tail(inbox[c])
      /\ UNCHANGED <<host, object, handle, socket, resolving, arrived>>
  BY DEF IInv, TypeOK, Dispatch
<1>2. object[c] = "alive" /\ ~ToldOfEnd(c)
  BY <1>1 DEF IInv, TypeOK, Orderly, EndIsLast, Unopened
<1>3. CASE ReadsBlob(Head(inbox[c]))
  <2>1. blobs' = [blobs EXCEPT ![c] = @ \cup {Head(inbox[c])}]
        /\ told' = told /\ dangling' = dangling
    BY <1>3, Zenon DEF Dispatch
  <2>2. blobs'[c] = blobs[c] \cup {Head(inbox[c])}
    BY <2>1, Zenon DEF IInv, TypeOK
  <2>3. QED  BY <1>1, <1>2, <1>3, <2>1, <2>2, Zenon
<1>4. CASE ~ReadsBlob(Head(inbox[c]))
  <2>1. CallBack(c, Head(inbox[c])) /\ blobs' = blobs
    BY <1>4, Zenon DEF Dispatch
  <2>2. told' = [told EXCEPT ![c] = Append(@, Head(inbox[c]))]
        /\ dangling' = dangling
    BY <1>2, <2>1, Zenon DEF CallBack
  <2>3. told'[c] = Append(told[c], Head(inbox[c]))
    BY <2>2, Zenon DEF IInv, TypeOK
  <2>4. QED  BY <1>1, <1>2, <1>4, <2>1, <2>2, <2>3, Zenon
<1>5. QED  BY <1>3, <1>4

LEMMA DispatchOrderly ==
  ASSUME IInv, NEW c \in Connections, Dispatch(c)
  PROVE  Orderly(c)'
<1> DEFINE event == Head(inbox[c])
           before == inbox[c]
           after == Tail(before)
<1>1. Orderly(c)
  BY DEF IInv
<1>2. /\ before \in Seq(Events) /\ before # <<>> /\ inbox'[c] = after
      /\ object[c] = "alive" /\ ~ToldOfEnd(c)
      /\ UNCHANGED <<host, object, handle, socket, resolving, arrived>>
  BY DispatchEffect
<1>3. \/ /\ ReadsBlob(event) /\ told'[c] = told[c]
         /\ blobs'[c] = blobs[c] \cup {event}
      \/ /\ ~ReadsBlob(event) /\ told'[c] = Append(told[c], event)
         /\ blobs'[c] = blobs[c]
  BY DispatchEffect
<1>4. /\ Len(before) \in Nat /\ Len(before) > 0 /\ Len(after) = Len(before) - 1
      /\ event \in Events /\ event = before[1] /\ after \in Seq(Events)
      /\ \A i \in 1 .. Len(before) - 1 : after[i] = before[i + 1]
      /\ \A n : n \in Numbers(before) <=>
                n \in Numbers(after) \/ (IsMessage(event) /\ n = event.n)
  BY <1>2, FirstEvent
<1>5. told[c] \in Seq(Events) /\ blobs[c] \subseteq Events
  BY DEF IInv, TypeOK
<1>6. ReadsBlob(event) => IsMessage(event) /\ event.kind = "binary" /\ host = "browser"
  BY DEF ReadsBlob, IsMessage, Kinds
<1> HIDE DEF event, before, after
<1>7. \A i \in 1 .. Len(after) : i + 1 \in 1 .. Len(before) /\ after[i] = before[i + 1]
  BY <1>4
<1>8. 1 \in 1 .. Len(before)
  BY <1>4
<1>9. Unopened(c)' /\ BlobsAreBinary(c)'
  BY <1>1, <1>2, <1>3, <1>6 DEF Orderly, Unopened, BlobsAreBinary, before
<1>10. CloseIsLast(c)'
  BY <1>1, <1>2, <1>4, <1>7 DEF Orderly, CloseIsLast, before
<1>11. EndIsLast(c)'
  <2>1. ASSUME ToldOfEnd(c)'
        PROVE  event = Close
    <3>1. CASE told'[c] = told[c]
      BY <1>2, <2>1, <3>1 DEF ToldOfEnd
    <3>2. CASE told'[c] = Append(told[c], event)
      <4>1. \A e : Contains(told'[c], e) <=> Contains(told[c], e) \/ e = event
        BY <1>4, <1>5, <3>2, AppendEvent
      <4>2. QED  BY <1>2, <2>1, <4>1 DEF ToldOfEnd
    <3>3. QED  BY <1>3, <3>1, <3>2
  <2>2. ASSUME event = Close
        PROVE  after = <<>> /\ socket[c] = "closed"
    <3>1. 1 = Len(before) /\ socket[c] = "closed"
      BY <1>1, <1>4, <1>8, <2>2 DEF Orderly, CloseIsLast, before
    <3>2. Len(after) = Len(before) - 1
      BY <1>4
    <3>3. Len(after) = 0
      BY <3>1, <3>2
    <3>4. after \in Seq(Events)
      BY <1>4
    <3>5. QED  BY <3>1, <3>3, <3>4, EmptySeq
  <2>3. QED  BY <1>2, <2>1, <2>2 DEF EndIsLast
<1>12. HandleComes(c)'
  <2>1. HandleComes(c)
    BY <1>1 DEF Orderly
  <2>2. ASSUME \E i \in 1 .. Len(after) : IsMessage(after[i])
        PROVE  \E i \in 1 .. Len(before) : IsMessage(before[i])
    BY <1>7, <2>2
  <2>3. ASSUME blobs'[c] # {}
        PROVE  blobs[c] # {} \/ \E i \in 1 .. Len(before) : IsMessage(before[i])
    BY <1>3, <1>4, <1>6, <1>8, <2>3
  <2>4. QED  BY <1>2, <2>1, <2>2, <2>3 DEF HandleComes, before
<1>13. KnownAt(c)'
  <2>1. IsMessage(event) => c \in handle \/ (host = "node" /\ c \in resolving)
    <3>1. IsMessage(event) => c \in handle \cup resolving
      BY <1>1, <1>2, <1>4, <1>8 DEF Orderly, HandleComes, before
    <3>2. resolving = {} \/ (host = "node" /\ c \in resolving)
      BY DEF Dispatch, MayDispatch, Idle
    <3>3. QED  BY <3>1, <3>2
  <2>2. KnownAt(c)
    BY <1>1 DEF Orderly
  <2>3. CASE told'[c] = told[c]
    BY <1>2, <2>2, <2>3 DEF KnownAt
  <2>4. CASE told'[c] = Append(told[c], event)
    <3>1. \A i \in 1 .. Len(told'[c]) :
            told'[c][i] = event \/ (i \in 1 .. Len(told[c]) /\ told'[c][i] = told[c][i])
      BY <1>4, <1>5, <2>4, AppendEvent
    <3>2. QED  BY <1>2, <2>1, <2>2, <3>1 DEF KnownAt
  <2>5. QED  BY <1>3, <2>3, <2>4
<1>14. \A n : n \in GivenOut(c)' <=>
             n \in GivenOut(c) \/ (IsMessage(event) /\ n = event.n)
  <2>1. CASE ReadsBlob(event)
    BY <1>3, <1>6, <2>1 DEF GivenOut
  <2>2. CASE ~ReadsBlob(event)
    <3>1. told'[c] = Append(told[c], event) /\ blobs'[c] = blobs[c]
      BY <1>3, <2>2
    <3>2. \A n : n \in Numbers(told'[c]) <=>
                n \in Numbers(told[c]) \/ (IsMessage(event) /\ n = event.n)
      BY <1>4, <1>5, <3>1, AppendEvent
    <3>3. QED  BY <3>1, <3>2 DEF GivenOut
  <2>3. QED  BY <2>1, <2>2
<1>15. \A n \in GivenOut(c) : IsMessage(event) => n < event.n
  BY <1>1, <1>4, <1>8 DEF Orderly, InboxInOrder, before
<1>16. InboxInOrder(c)'
  <2>1. InboxInOrder(c)
    BY <1>1 DEF Orderly
  <2>2. \A i, j \in 1 .. Len(after) :
          i < j /\ IsMessage(after[i]) /\ IsMessage(after[j])
            => after[i].n < after[j].n
    BY <1>4, <1>7, <2>1 DEF InboxInOrder, before
  <2>3. ASSUME NEW i \in 1 .. Len(after), IsMessage(after[i])
        PROVE  /\ after[i].n <= arrived[c]
               /\ \A n \in GivenOut(c) : n < after[i].n
               /\ IsMessage(event) => event.n < after[i].n
    BY <1>4, <1>7, <1>8, <2>1, <2>3 DEF InboxInOrder, before
  <2>4. IsMessage(event) => event.n <= arrived[c]
    BY <1>4, <1>8, <2>1 DEF InboxInOrder, before
  <2>5. \A n \in GivenOut(c) : n <= arrived[c]
    BY <2>1 DEF InboxInOrder
  <2>6. QED  BY <1>2, <1>14, <2>2, <2>3, <2>4, <2>5 DEF InboxInOrder
<1>17. ToldInOrder(c)'
  <2>1. ToldInOrder(c)
    BY <1>1 DEF Orderly
  <2>2. CASE told'[c] = told[c]
    BY <1>2, <2>1, <2>2 DEF ToldInOrder
  <2>3. CASE told'[c] = Append(told[c], event)
    <3>1. /\ Len(told[c]) \in Nat /\ Len(told'[c]) = Len(told[c]) + 1
          /\ told'[c][Len(told[c]) + 1] = event
          /\ \A i \in 1 .. Len(told[c]) : told'[c][i] = told[c][i]
      BY <1>4, <1>5, <2>3, AppendEvent
    <3>2. ASSUME NEW i \in 1 .. Len(told'[c]), NEW j \in 1 .. Len(told'[c]), i < j,
                 IsMessage(told'[c][i]), IsMessage(told'[c][j])
          PROVE  \/ told'[c][i].n < told'[c][j].n
                 \/ host = "browser" /\ told'[c][j].kind = "binary"
      <4>1. i \in 1 .. Len(told[c]) /\ told'[c][i] = told[c][i]
        BY <3>1, <3>2
      <4>2. CASE j = Len(told[c]) + 1
        <5>1. told[c][i].n \in GivenOut(c)
          BY <3>2, <4>1 DEF GivenOut, Numbers
        <5>2. QED  BY <1>15, <3>1, <3>2, <4>1, <4>2, <5>1
      <4>3. CASE j # Len(told[c]) + 1
        <5>1. j \in 1 .. Len(told[c]) /\ told'[c][j] = told[c][j]
          BY <3>1, <4>3
        <5>2. QED  BY <2>1, <3>2, <4>1, <5>1 DEF ToldInOrder
      <4>4. QED  BY <4>2, <4>3
    <3>3. QED  BY <1>2, <3>2 DEF ToldInOrder
  <2>4. QED  BY <1>3, <2>2, <2>3
<1>18. NoneLost(c)'
  <2>1. CASE host = "node"
    <3>1. told'[c] = Append(told[c], event)
      BY <1>3, <2>1 DEF ReadsBlob
    <3>2. \A n : n \in Numbers(told'[c]) <=>
                n \in Numbers(told[c]) \/ (IsMessage(event) /\ n = event.n)
      BY <1>4, <1>5, <3>1, AppendEvent
    <3>3. QED  BY <1>1, <1>2, <1>4, <3>2 DEF Orderly, NoneLost, before
  <2>2. CASE host # "node"
    BY <1>2, <2>2 DEF NoneLost
  <2>3. QED  BY <2>1, <2>2
<1>19. QED
  BY <1>9, <1>10, <1>11, <1>12, <1>13, <1>16, <1>17, <1>18 DEF Orderly

LEMMA BlobReadEffect ==
  ASSUME IInv, NEW c \in Connections, BlobRead(c)
  PROVE  /\ UNCHANGED <<host, object, handle, socket, resolving, inbox, arrived>>
         /\ resolving = {} /\ host = "browser"
         /\ \E event \in blobs[c] :
              /\ event \in Events /\ event.kind = "binary" /\ event # Close
              /\ blobs'[c] = blobs[c] \ {event}
              /\ CallBack(c, event)
<1>1. PICK event \in blobs[c] :
        blobs' = [blobs EXCEPT ![c] = @ \ {event}] /\ CallBack(c, event)
  BY DEF BlobRead
<1>2. event \in Events /\ blobs'[c] = blobs[c] \ {event}
  BY <1>1 DEF IInv, TypeOK
<1>3. host = "browser" /\ event.kind = "binary"
  BY DEF IInv, Orderly, BlobsAreBinary
<1>4. event # Close
  BY <1>3 DEF Close
<1>5. QED  BY <1>1, <1>2, <1>3, <1>4 DEF BlobRead, Idle

LEMMA BlobReadOrderly ==
  ASSUME IInv, NEW c \in Connections, BlobRead(c)
  PROVE  Orderly(c)'
<1>1. Orderly(c)
  BY DEF IInv
<1>2. /\ UNCHANGED <<host, object, handle, socket, resolving, inbox, arrived>>
      /\ resolving = {} /\ host = "browser"
  BY BlobReadEffect
<1>3. PICK event \in blobs[c] :
        /\ event \in Events /\ event.kind = "binary" /\ event # Close
        /\ blobs'[c] = blobs[c] \ {event}
        /\ CallBack(c, event)
  BY BlobReadEffect
<1>4. told[c] \in Seq(Events) /\ IsMessage(event)
  BY <1>3 DEF IInv, TypeOK, IsMessage, Kinds
<1>5. told'[c] = told[c] \/ told'[c] = Append(told[c], event)
  BY <1>3 DEF CallBack, IInv, TypeOK
<1>6. /\ \A e : Contains(told'[c], e) => Contains(told[c], e) \/ e = event
      /\ \A e : Contains(told[c], e) => Contains(told'[c], e)
      /\ \A n : n \in Numbers(told'[c]) =>
                n \in Numbers(told[c]) \/ n = event.n
  <2>1. CASE told'[c] = told[c]
    BY <2>1
  <2>2. CASE told'[c] = Append(told[c], event)
    <3>1. \A e : Contains(told'[c], e) <=> Contains(told[c], e) \/ e = event
      BY <1>3, <1>4, <2>2, AppendEvent
    <3>2. \A n : n \in Numbers(told'[c]) <=>
                n \in Numbers(told[c]) \/ (IsMessage(event) /\ n = event.n)
      BY <1>3, <1>4, <2>2, AppendEvent
    <3>3. QED  BY <3>1, <3>2
  <2>3. QED  BY <1>5, <2>1, <2>2
<1>7. Unopened(c)' /\ BlobsAreBinary(c)' /\ CloseIsLast(c)'
  BY <1>1, <1>2, <1>3
  DEF Orderly, Unopened, BlobsAreBinary, CloseIsLast
<1>8. EndIsLast(c)'
  BY <1>1, <1>2, <1>3, <1>6 DEF Orderly, EndIsLast, ToldOfEnd
<1>9. HandleComes(c)'
  BY <1>1, <1>2, <1>3 DEF Orderly, HandleComes
<1>10. KnownAt(c)'
  BY <1>1, <1>2, <1>3 DEF Orderly, HandleComes, KnownAt
<1>11. InboxInOrder(c)'
  <2>1. \A n : n \in GivenOut(c)' => n \in GivenOut(c)
    BY <1>3, <1>6 DEF GivenOut
  <2>2. QED  BY <1>1, <1>2, <2>1 DEF Orderly, InboxInOrder
<1>12. ToldInOrder(c)'
  <2>1. ToldInOrder(c)
    BY <1>1 DEF Orderly
  <2>2. CASE told'[c] = told[c]
    BY <1>2, <2>1, <2>2 DEF ToldInOrder
  <2>3. CASE told'[c] = Append(told[c], event)
    <3>1. /\ Len(told[c]) \in Nat /\ Len(told'[c]) = Len(told[c]) + 1
          /\ told'[c][Len(told[c]) + 1] = event
          /\ \A i \in 1 .. Len(told[c]) : told'[c][i] = told[c][i]
      BY <1>3, <1>4, <2>3, AppendEvent
    <3>2. ASSUME NEW i \in 1 .. Len(told'[c]), NEW j \in 1 .. Len(told'[c]), i < j,
                 IsMessage(told'[c][i]), IsMessage(told'[c][j])
          PROVE  \/ told'[c][i].n < told'[c][j].n
                 \/ host = "browser" /\ told'[c][j].kind = "binary"
      <4>1. i \in 1 .. Len(told[c]) /\ told'[c][i] = told[c][i]
        BY <3>1, <3>2
      <4>2. CASE j = Len(told[c]) + 1
        BY <1>2, <1>3, <3>1, <4>2
      <4>3. CASE j # Len(told[c]) + 1
        <5>1. j \in 1 .. Len(told[c]) /\ told'[c][j] = told[c][j]
          BY <3>1, <4>3
        <5>2. QED  BY <2>1, <3>2, <4>1, <5>1 DEF ToldInOrder
      <4>4. QED  BY <4>2, <4>3
    <3>3. QED  BY <1>2, <3>2 DEF ToldInOrder
  <2>4. QED  BY <1>5, <2>2, <2>3
<1>13. NoneLost(c)'
  BY <1>2 DEF NoneLost
<1>14. QED
  BY <1>7, <1>8, <1>9, <1>10, <1>11, <1>12, <1>13 DEF Orderly

-----------------------------------------------------------------------------
(* The invariant                                                           *)

LEMMA InitIInv == Init => IInv
<1> SUFFICES ASSUME Init PROVE IInv
  OBVIOUS
<1> USE DEF Init
<1>1. TypeOK
  BY EmptySeq, GuestConnectionAssumption DEF TypeOK
<1>2. EventsFindTheirConnection
  BY DEF EventsFindTheirConnection
<1>3. ASSUME NEW c \in Connections
      PROVE  Orderly(c)
  <2>1. Numbers(<<>>) = {} /\ ~ToldOfEnd(c)
    BY EmptySeq DEF Numbers, ToldOfEnd, Contains
  <2>2. Unopened(c) /\ BlobsAreBinary(c) /\ CloseIsLast(c) /\ EndIsLast(c)
    BY <2>1 DEF Unopened, BlobsAreBinary, CloseIsLast, EndIsLast
  <2>3. HandleComes(c) /\ KnownAt(c) /\ ToldInOrder(c)
    BY DEF HandleComes, KnownAt, ToldInOrder
  <2>4. InboxInOrder(c) /\ NoneLost(c)
    BY <2>1 DEF InboxInOrder, NoneLost, GivenOut
  <2>5. QED  BY <2>2, <2>3, <2>4 DEF Orderly
<1>4. QED  BY <1>1, <1>2, <1>3 DEF IInv

LEMMA StepOrderly ==
  ASSUME IInv, NEW c \in Connections, StepOf(c)
  PROVE  Orderly(c)'
<1>1. Orderly(c)
  BY DEF IInv
<1>2. CASE SendMessage(c) \/ SendReturns(c) \/ ConnectReturns(c)
  <2>1. SameAt(c)
    BY <1>2 DEF SendMessage, SendReturns, ConnectReturns, SameAt
  <2>2. QED  BY <1>1, <2>1, SameAtOrderly
<1>3. CASE Connect(c) \/ Accept(c)
  BY <1>3, ConnectOrderly
<1>4. CASE CloseSocket(c)
  BY <1>4, CloseSocketOrderly
<1>5. CASE Destroy(c)
  BY <1>5, DestroyOrderly
<1>6. CASE SocketOpens(c)
  BY <1>6, SocketOpensOrderly
<1>7. CASE SocketEnds(c)
  BY <1>7, SocketEndsOrderly
<1>8. CASE Dispatch(c)
  BY <1>8, DispatchOrderly
<1>9. CASE BlobRead(c)
  BY <1>9, BlobReadOrderly
<1>10. CASE \E kind \in Kinds : MessageArrives(c, kind)
  BY <1>10, MessageArrivesOrderly
<1>11. QED
  BY <1>2, <1>3, <1>4, <1>5, <1>6, <1>7, <1>8, <1>9, <1>10
  DEF StepOf, GuestStep, HostStep, SocketStep

\* Only what a browser reads can come to a Connection that is gone.
LEMMA StepDangling ==
  ASSUME IInv, NEW c \in Connections, StepOf(c)
  PROVE  EventsFindTheirConnection'
<1> USE DEF EventsFindTheirConnection
<1>1. EventsFindTheirConnection
  BY DEF IInv
<1>2. CASE Dispatch(c)
  <2>1. dangling' = dangling /\ host' = host
    BY <1>2, DispatchEffect
  <2>2. QED  BY <1>1, <2>1
<1>3. CASE BlobRead(c)
  <2>1. PICK event \in blobs[c] : event.kind = "binary" /\ CallBack(c, event)
    BY <1>3, BlobReadEffect
  <2>2. host = "browser" /\ host' = host
    BY <1>3, BlobReadEffect
  <2>3. dangling' \subseteq dangling \cup {event}
    BY <2>1 DEF CallBack
  <2>4. QED  BY <1>1, <2>1, <2>2, <2>3
<1>4. CASE UNCHANGED <<host, dangling>>
  BY <1>1, <1>4
<1>5. QED
  BY <1>2, <1>3, <1>4
  DEF StepOf, GuestStep, HostStep, SocketStep, Connect, Accept, SendMessage,
      CloseSocket, Destroy, SocketOpens, SocketEnds, ConnectReturns,
      SendReturns, MessageArrives

LEMMA NextIInv ==
  ASSUME IInv, [Next]_vars
  PROVE  IInv'
<1>1. CASE UNCHANGED vars
  <2>1. \A c \in Connections : SameAt(c)
    BY <1>1 DEF vars, SameAt
  <2>2. \A c \in Connections : Orderly(c)'
    BY <2>1, SameAtOrderly DEF IInv
  <2>3. TypeOK' /\ EventsFindTheirConnection'
    BY <1>1 DEF IInv, vars, TypeOK, EventsFindTheirConnection
  <2>4. QED  BY <2>2, <2>3 DEF IInv
<1>2. ASSUME NEW c \in Connections, StepOf(c)
      PROVE  IInv'
  <2>1. TypeOK' /\ EventsFindTheirConnection'
    BY <1>2, StepType, StepDangling DEF IInv
  <2>2. ASSUME NEW d \in Connections
        PROVE  Orderly(d)'
    <3>1. CASE d = c
      BY <1>2, <3>1, StepOrderly
    <3>2. CASE d # c
      BY <1>2, <3>2, OthersSame, SameAtOrderly DEF IInv
    <3>3. QED  BY <3>1, <3>2
  <2>3. QED  BY <2>1, <2>2 DEF IInv
<1>3. QED  BY <1>1, <1>2 DEF Next, StepOf

-----------------------------------------------------------------------------
(* The theorems                                                            *)

(* IInv holds in every reachable state of the connections.                 *)
THEOREM Invariance == Spec => []IInv
<1>1. IInv /\ [Next]_vars => IInv'
  BY NextIInv
<1>2. QED  BY InitIInv, <1>1, PTL DEF Spec

(* The types, and that the guest may answer each message it is told of: on *)
(* no path does a message get ahead of the handle, but in the one window   *)
(* that a node host leaves while connect() has still to go on.             *)
THEOREM AnswersHaveAHandle == Spec => []ConnectionInv
<1>1. IInv => ConnectionInv
  BY DEF IInv, Orderly, KnownAt, ConnectionInv, HandleKnown
<1>2. QED  BY <1>1, Invariance, PTL

(* No event finds its Connection destroyed, when the guest keeps it until  *)
(* onClose, but for the binary messages a browser was still reading.       *)
THEOREM NoDanglingCallback == Spec => []EventsFindTheirConnection
<1>1. IInv => EventsFindTheirConnection
  BY DEF IInv
<1>2. QED  BY <1>1, Invariance, PTL

(* Messages are told in their order, and by a node host all of them before *)
(* the close event.                                                        *)
THEOREM OrderKept == Spec => []MessagesInOrder
<1>1. ASSUME IInv, NEW c \in Connections
      PROVE  /\ ToldInOrder(c)
             /\ host = "node" =>
                  /\ \A n \in Numbers(told[c]) : 1 .. n \subseteq Numbers(told[c])
                  /\ ToldOfEnd(c) => 1 .. arrived[c] \subseteq Numbers(told[c])
  <2>1. ToldInOrder(c) /\ InboxInOrder(c) /\ NoneLost(c) /\ EndIsLast(c)
    BY <1>1 DEF IInv, Orderly
  <2>2. inbox[c] \in Seq(Events) /\ told[c] \in Seq(Events) /\ arrived[c] \in Nat
    BY <1>1, GuestConnectionAssumption DEF IInv, TypeOK
  <2>3. ASSUME host = "node", NEW n \in Numbers(told[c]), NEW m \in 1 .. n
        PROVE  m \in Numbers(told[c])
    <3>1. n \in Nat /\ n <= arrived[c]
      BY <2>1, <2>2, EventsHaveNumbers DEF InboxInOrder, GivenOut
    <3>2. m \in 1 .. arrived[c]
      BY <2>2, <3>1
    <3>3. ASSUME m \in Numbers(inbox[c]) PROVE FALSE
      <4>1. PICK i \in 1 .. Len(inbox[c]) : IsMessage(inbox[c][i]) /\ m = inbox[c][i].n
        BY <3>3 DEF Numbers
      <4>2. n < m
        BY <2>1, <4>1 DEF InboxInOrder, GivenOut
      <4>3. QED  BY <3>1, <4>2
    <3>4. QED  BY <2>1, <2>3, <3>2, <3>3 DEF NoneLost
  <2>4. ASSUME host = "node", ToldOfEnd(c)
        PROVE  1 .. arrived[c] \subseteq Numbers(told[c])
    <3>1. Numbers(inbox[c]) = {}
      BY <2>1, <2>4, EmptySeq DEF EndIsLast, Numbers
    <3>2. QED  BY <2>1, <2>4, <3>1 DEF NoneLost
  <2>5. QED  BY <2>1, <2>3, <2>4
<1>2. IInv => MessagesInOrder
  BY <1>1 DEF MessagesInOrder, ToldInOrder
<1>3. QED  BY <1>2, Invariance, PTL

-----------------------------------------------------------------------------
(* What becomes of a task that waits, and of the end of a connection       *)

\* A websocket that has ended has its close event under way to the guest, or
\* the guest has been told; and it is told once.
EndReported(c) ==
  socket[c] = "closed" => Contains(inbox[c], Close) \/ ToldOfEnd(c)
EndToldOnce(c) ==
  \A i, j \in 1 .. Len(told[c]) : told[c][i] = Close /\ told[c][j] = Close => i = j

EveryEndIsReported ==
  \A c \in Connections : EndReported(c) /\ EndToldOnce(c)

\* A task that waits in connect() or sendMessage() has something coming that
\* resumes it, or the close event of its connection: the safety part of
\* TasksAreAnswered.
HasAnEnd(call) ==
  \/ socket[call.c] = "never"
  \/ socket[call.c] = "closed"
       /\ (Contains(inbox[call.c], Close) \/ ToldOfEnd(call.c))
  \/ call.in = "connect" /\ (socket[call.c] = "connecting" \/ call.c \in resolving)
  \/ call.in = "send" /\ (socket[call.c] = "closing" \/ call.c \in flushing)

WaitingHasAnEnd == \A call \in waiting : HasAnEnd(call)

\* After onClose the guest hears no more of the connection, but for what a
\* browser was still reading, and the websocket stays closed.
SilentAfterClose ==
  [][\A c \in Connections : ToldOfEnd(c) =>
       /\ socket'[c] = "closed"
       /\ \/ told'[c] = told[c]
          \/ host = "browser" /\ \E e \in blobs[c] : told'[c] = Append(told[c], e)]_vars

\* The inductive form, of one connection: a handle is of a websocket that has
\* opened.
Answered(c) ==
  /\ c \in handle \cup resolving => socket[c] \in {"open", "closing", "closed"}
  /\ EndReported(c) /\ EndToldOnce(c)
  /\ Task(c, "connect") \in waiting =>
       socket[c] \in {"never", "connecting", "closed"} \/ c \in resolving
  /\ Task(c, "send") \in waiting => socket[c] \in {"closing", "closed"} \/ c \in flushing

LEMMA TasksDiffer ==
  /\ \A c, d, x, y : Task(c, x) = Task(d, y) => c = d /\ x = y
  /\ \A call \in Call : /\ call.c \in Connections
                        /\ \/ call = Task(call.c, "connect") /\ call.in = "connect"
                           \/ call = Task(call.c, "send") /\ call.in = "send"
<1>1. ASSUME NEW c, NEW d, NEW x, NEW y, Task(c, x) = Task(d, y)
      PROVE  c = d /\ x = y
  <2>1. /\ Task(c, x).c = c /\ Task(c, x).in = x
        /\ Task(d, y).c = d /\ Task(d, y).in = y
    BY DEF Task
  <2>2. QED  BY <1>1, <2>1
<1>2. ASSUME NEW call \in Call
      PROVE  /\ call.c \in Connections
             /\ \/ call = Task(call.c, "connect") /\ call.in = "connect"
                \/ call = Task(call.c, "send") /\ call.in = "send"
  BY DEF Call, Task
<1>3. QED  BY <1>1, <1>2

\* Nothing of the tasks of c changes.
SameTasks(c) ==
  /\ c \in handle' => c \in handle
  /\ c \in resolving' <=> c \in resolving
  /\ c \in flushing' <=> c \in flushing
  /\ \A x : Task(c, x) \in waiting' => Task(c, x) \in waiting

LEMMA SameAnswered ==
  ASSUME NEW c, Answered(c), SameAt(c), SameTasks(c)
  PROVE  Answered(c)'
BY DEF Answered, EndReported, EndToldOnce, ToldOfEnd, SameAt, SameTasks

LEMMA OthersTasks ==
  ASSUME NEW c \in Connections, StepOf(c), NEW d \in Connections, d # c
  PROVE  SameTasks(d)
<1> USE TasksDiffer DEF SameTasks
<1>1. CASE Connect(c)
  BY <1>1 DEF Connect
<1>2. CASE SendMessage(c)
  BY <1>2 DEF SendMessage
<1>3. CASE CloseSocket(c) \/ Destroy(c)
  BY <1>3 DEF CloseSocket, Destroy
<1>4. CASE ConnectReturns(c)
  BY <1>4 DEF ConnectReturns
<1>5. CASE SendReturns(c)
  BY <1>5 DEF SendReturns
<1>6. CASE Dispatch(c) \/ BlobRead(c) \/ SocketEnds(c)
  BY <1>6 DEF Dispatch, BlobRead, SocketEnds
<1>7. CASE SocketOpens(c)
  BY <1>7 DEF SocketOpens
<1>8. CASE Accept(c)
  BY <1>8 DEF Accept
<1>9. ASSUME NEW kind \in Kinds, MessageArrives(c, kind)
      PROVE  SameTasks(d)
  BY <1>9 DEF MessageArrives
<1>10. QED
  BY <1>1, <1>2, <1>3, <1>4, <1>5, <1>6, <1>7, <1>8, <1>9
  DEF StepOf, GuestStep, HostStep, SocketStep

\* The event that closes is given out as it is.
LEMMA CloseGivenOut ==
  ASSUME IInv, NEW c \in Connections, Dispatch(c), EndToldOnce(c)
  PROVE  /\ Contains(inbox[c], Close) => Contains(inbox'[c], Close) \/ ToldOfEnd(c)'
         /\ EndToldOnce(c)'
<1> DEFINE first == Head(inbox[c])
<1>1. /\ inbox[c] \in Seq(Events) /\ inbox[c] # <<>> /\ inbox'[c] = Tail(inbox[c])
      /\ ~ToldOfEnd(c) /\ told[c] \in Seq(Events)
      /\ \/ told'[c] = told[c] /\ ReadsBlob(first)
         \/ told'[c] = Append(told[c], first)
  BY DispatchEffect DEF IInv, TypeOK
<1>2. /\ first \in Events /\ first = inbox[c][1]
      /\ Len(inbox[c]) \in Nat /\ Len(Tail(inbox[c])) = Len(inbox[c]) - 1
      /\ \A i \in 1 .. Len(inbox[c]) - 1 : Tail(inbox[c])[i] = inbox[c][i + 1]
  BY <1>1, FirstEvent
<1>3. ReadsBlob(first) => first # Close
  BY DEF ReadsBlob, Close
<1> HIDE DEF first
<1>4. ASSUME Contains(inbox[c], Close)
      PROVE  Contains(inbox'[c], Close) \/ ToldOfEnd(c)'
  <2>1. PICK i \in 1 .. Len(inbox[c]) : inbox[c][i] = Close
    BY <1>4 DEF Contains
  <2>2. CASE i = 1
    <3>1. told'[c] = Append(told[c], first) /\ first = Close
      BY <1>1, <1>2, <1>3, <2>1, <2>2
    <3>2. Contains(told'[c], Close)
      BY <1>1, <1>2, <3>1, AppendEvent
    <3>3. QED  BY <3>2 DEF ToldOfEnd
  <2>3. CASE i # 1
    <3>1. i - 1 \in 1 .. Len(inbox[c]) - 1 /\ i - 1 + 1 = i
      BY <1>2, <2>1, <2>3
    <3>2. Tail(inbox[c])[i - 1] = Close
      BY <1>2, <2>1, <3>1
    <3>3. Contains(Tail(inbox[c]), Close)
      BY <1>2, <3>1, <3>2 DEF Contains
    <3>4. QED  BY <1>1, <3>3
  <2>4. QED  BY <2>2, <2>3
<1>5. EndToldOnce(c)'
  <2>1. CASE told'[c] = told[c]
    BY <2>1 DEF EndToldOnce
  <2>2. CASE told'[c] = Append(told[c], first)
    <3>1. \A i \in 1 .. Len(told[c]) : told[c][i] # Close
      BY <1>1 DEF ToldOfEnd, Contains
    <3>2. /\ Len(told[c]) \in Nat /\ Len(told'[c]) = Len(told[c]) + 1
          /\ \A i \in 1 .. Len(told[c]) + 1 :
               told'[c][i] = IF i = Len(told[c]) + 1 THEN first ELSE told[c][i]
      BY <1>1, <1>2, <2>2, AppendEvent
    <3>3. ASSUME NEW i \in 1 .. Len(told'[c]), told'[c][i] = Close
          PROVE  i = Len(told[c]) + 1
      BY <3>1, <3>2, <3>3
    <3>4. QED  BY <3>3 DEF EndToldOnce
  <2>3. QED  BY <1>1, <2>1, <2>2
<1>6. QED  BY <1>4, <1>5

LEMMA BlobToldLast ==
  ASSUME IInv, NEW c \in Connections, BlobRead(c), EndToldOnce(c)
  PROVE  /\ ToldOfEnd(c) => ToldOfEnd(c)'
         /\ EndToldOnce(c)'
         /\ \/ told'[c] = told[c]
            \/ \E e \in blobs[c] : told'[c] = Append(told[c], e)
<1>1. PICK event \in blobs[c] :
        event \in Events /\ event # Close /\ CallBack(c, event)
  BY BlobReadEffect
<1>2. told[c] \in Seq(Events)
  BY DEF IInv, TypeOK
<1>3. CASE told'[c] = told[c]
  BY <1>3 DEF ToldOfEnd, EndToldOnce
<1>4. CASE told'[c] = Append(told[c], event)
  <2>1. /\ Len(told[c]) \in Nat /\ Len(told'[c]) = Len(told[c]) + 1
        /\ \A i \in 1 .. Len(told[c]) + 1 :
             told'[c][i] = IF i = Len(told[c]) + 1 THEN event ELSE told[c][i]
        /\ Contains(told[c], Close) => Contains(told'[c], Close)
    BY <1>1, <1>2, <1>4, AppendEvent
  <2>2. ASSUME NEW i \in 1 .. Len(told'[c]), told'[c][i] = Close
        PROVE  i \in 1 .. Len(told[c]) /\ told[c][i] = Close
    BY <1>1, <2>1, <2>2
  <2>3. EndToldOnce(c)'
    BY <2>2 DEF EndToldOnce
  <2>4. QED  BY <1>4, <2>1, <2>3 DEF ToldOfEnd
<1>5. QED  BY <1>1, <1>3, <1>4 DEF CallBack, IInv, TypeOK

\* Whatever ends a websocket, its last event is the close event.
LEMMA EndComes ==
  ASSUME IInv, NEW c \in Connections, SocketEnds(c)
  PROVE  Contains(inbox'[c], Close)
<1>1. PICK events \in EndEvents(c) : inbox' = [inbox EXCEPT ![c] = @ \o events]
  BY DEF SocketEnds
<1> DEFINE before == inbox[c]
<1>2. inbox'[c] = before \o events /\ before \in Seq(Events)
  BY <1>1 DEF IInv, TypeOK
<1> HIDE DEF before
<1>3. /\ events \in Seq(Events) /\ Len(events) \in Nat /\ Len(events) > 0
      /\ events[Len(events)] = Close
  BY EndEventsAre
<1>4. /\ Len(before) \in Nat
      /\ Len(before \o events) = Len(before) + Len(events)
      /\ \A i \in 1 .. Len(before) + Len(events) :
           (before \o events)[i] = IF i <= Len(before) THEN before[i]
                                   ELSE events[i - Len(before)]
  BY <1>2, <1>3, ConcatProperties, LenProperties
<1> DEFINE last == Len(before) + Len(events)
<1>5. last \in 1 .. last /\ ~(last <= Len(before)) /\ last - Len(before) = Len(events)
  BY <1>3, <1>4
<1>6. (before \o events)[last] = Close
  BY <1>3, <1>4, <1>5
<1>7. QED  BY <1>2, <1>4, <1>5, <1>6 DEF Contains

LEMMA StepAnswered ==
  ASSUME IInv, NEW c \in Connections, StepOf(c), Answered(c)
  PROVE  Answered(c)'
<1>1. TypeOK /\ Unopened(c) /\ CloseIsLast(c) /\ EndIsLast(c)
  BY DEF IInv, Orderly
<1> USE TasksDiffer DEF Answered
<1>2. ASSUME told'[c] = told[c], socket'[c] # "closed" \/ Contains(inbox'[c], Close)
      PROVE  EndReported(c)' /\ EndToldOnce(c)'
  BY <1>2 DEF EndReported, EndToldOnce
<1>3. ASSUME UNCHANGED <<told, socket, inbox>>
      PROVE  EndReported(c)' /\ EndToldOnce(c)'
  BY <1>3 DEF EndReported, EndToldOnce, ToldOfEnd
<1>4. CASE Connect(c)
  <2>1. socket[c] = "none" /\ socket'[c] \in {"connecting", "never"}
        /\ UNCHANGED <<handle, resolving, flushing, told>>
        /\ waiting' = waiting \cup {Task(c, "connect")}
    BY <1>1, <1>4 DEF Connect, Unopened, TypeOK
  <2>2. EndReported(c)' /\ EndToldOnce(c)'
    BY <1>2, <2>1
  <2>3. QED  BY <2>1, <2>2
<1>5. CASE Accept(c)
  <2>1. socket[c] = "none" /\ socket'[c] = "open"
        /\ handle' = handle \cup {c} /\ UNCHANGED <<resolving, flushing, told, waiting>>
    BY <1>1, <1>5 DEF Accept, Unopened, TypeOK
  <2>2. EndReported(c)' /\ EndToldOnce(c)'
    BY <1>2, <2>1
  <2>3. QED  BY <2>1, <2>2
<1>6. CASE SendMessage(c)
  <2>1. /\ c \in handle /\ waiting' = waiting \cup {Task(c, "send")}
        /\ UNCHANGED <<handle, resolving, told, socket, inbox>>
        /\ flushing \subseteq flushing' /\ (socket[c] = "open" => c \in flushing')
    BY <1>6 DEF SendMessage
  <2>2. EndReported(c)' /\ EndToldOnce(c)'
    BY <1>3, <2>1
  <2>3. QED  BY <2>1, <2>2
<1>7. CASE CloseSocket(c)
  <2>1. /\ socket[c] = "open" /\ socket'[c] = "closing"
        /\ UNCHANGED <<handle, resolving, flushing, told, waiting>>
    BY <1>1, <1>7 DEF CloseSocket, TypeOK
  <2>2. EndReported(c)' /\ EndToldOnce(c)'
    BY <1>2, <2>1
  <2>3. QED  BY <2>1, <2>2
<1>8. CASE Destroy(c)
  <2>1. /\ handle' \subseteq handle
        /\ UNCHANGED <<resolving, flushing, told, socket, inbox, waiting>>
    BY <1>8 DEF Destroy
  <2>2. EndReported(c)' /\ EndToldOnce(c)'
    BY <1>3, <2>1
  <2>3. QED  BY <2>1, <2>2
<1>9. CASE SocketOpens(c)
  <2>1. /\ socket[c] = "connecting" /\ socket'[c] = "open"
        /\ resolving' = resolving \cup {c}
        /\ UNCHANGED <<handle, flushing, told, waiting>>
    BY <1>1, <1>9 DEF SocketOpens, TypeOK
  <2>2. EndReported(c)' /\ EndToldOnce(c)'
    BY <1>2, <2>1
  <2>3. QED  BY <2>1, <2>2
<1>10. CASE SocketEnds(c)
  <2>1. socket'[c] = "closed" /\ UNCHANGED told
    BY <1>1, <1>10 DEF SocketEnds, TypeOK
  <2>2. EndReported(c)' /\ EndToldOnce(c)'
    BY <1>2, <1>10, <2>1, EndComes
  <2>3. QED  BY <2>1, <2>2
<1>11. ASSUME NEW kind \in Kinds, MessageArrives(c, kind)
       PROVE  Answered(c)'
  <2>1. /\ socket[c] \in {"open", "closing"}
        /\ UNCHANGED <<handle, resolving, flushing, told, socket, waiting>>
    BY <1>11 DEF MessageArrives
  <2>2. EndReported(c)' /\ EndToldOnce(c)'
    BY <1>2, <2>1
  <2>3. QED  BY <2>1, <2>2
<1>12. CASE ConnectReturns(c)
  <2>1. /\ c \in resolving /\ resolving' = resolving \ {c} /\ handle' = handle \cup {c}
        /\ waiting' = waiting \ {Task(c, "connect")}
        /\ UNCHANGED <<flushing, told, socket, inbox>>
    BY <1>12 DEF ConnectReturns
  <2>2. EndReported(c)' /\ EndToldOnce(c)'
    BY <1>3, <2>1
  <2>3. QED  BY <2>1, <2>2
<1>13. CASE SendReturns(c)
  <2>1. /\ UNCHANGED <<handle, resolving, told, socket, inbox>>
        /\ waiting' \subseteq waiting
        /\ socket[c] = "closed" \/ Task(c, "send") \notin waiting'
    BY <1>13 DEF SendReturns
  <2>2. EndReported(c)' /\ EndToldOnce(c)'
    BY <1>3, <2>1
  <2>3. QED  BY <2>1, <2>2
<1>14. CASE Dispatch(c)
  <2>1. UNCHANGED <<handle, resolving, flushing, socket, waiting>> /\ ~ToldOfEnd(c)
    BY <1>14, DispatchEffect DEF Dispatch
  <2>2. EndReported(c)' /\ EndToldOnce(c)'
    BY <1>14, <2>1, CloseGivenOut DEF EndReported
  <2>3. QED  BY <2>1, <2>2
<1>15. CASE BlobRead(c)
  <2>1. UNCHANGED <<handle, resolving, flushing, socket, waiting, inbox>>
    BY <1>15 DEF BlobRead
  <2>2. EndReported(c)' /\ EndToldOnce(c)'
    BY <1>15, <2>1, BlobToldLast DEF EndReported
  <2>3. QED  BY <2>1, <2>2
<1>16. QED
  BY <1>4, <1>5, <1>6, <1>7, <1>8, <1>9, <1>10, <1>11, <1>12, <1>13, <1>14, <1>15
  DEF StepOf, GuestStep, HostStep, SocketStep

AllAnswered == \A c \in Connections : Answered(c)

LEMMA NextAnswered ==
  ASSUME IInv, AllAnswered, [Next]_vars
  PROVE  AllAnswered'
<1>1. CASE UNCHANGED vars
  <2>1. ASSUME NEW c \in Connections
        PROVE  Answered(c)'
    <3>1. SameAt(c) /\ SameTasks(c)
      BY <1>1 DEF vars, SameAt, SameTasks
    <3>2. QED  BY <3>1, SameAnswered DEF AllAnswered
  <2>2. QED  BY <2>1 DEF AllAnswered
<1>2. ASSUME NEW c \in Connections, StepOf(c), NEW d \in Connections
      PROVE  Answered(d)'
  <2>1. CASE d = c
    BY <1>2, <2>1, StepAnswered DEF AllAnswered
  <2>2. CASE d # c
    <3>1. SameAt(d) /\ SameTasks(d)
      BY <1>2, <2>2, OthersSame, OthersTasks DEF IInv
    <3>2. QED  BY <3>1, SameAnswered DEF AllAnswered
  <2>3. QED  BY <2>1, <2>2
<1>3. QED  BY <1>1, <1>2 DEF Next, StepOf, AllAnswered

LEMMA AlwaysAnswered == Spec => []AllAnswered
<1>1. Init => AllAnswered
  <2>1. SUFFICES ASSUME Init, NEW c \in Connections PROVE Answered(c)
    BY DEF AllAnswered
  <2>2. told[c] = <<>> /\ socket[c] = "none" /\ waiting = {} /\ handle = {}
        /\ resolving = {}
    BY <2>1 DEF Init
  <2>3. QED
    BY <2>2, EmptySeq DEF Answered, EndReported, EndToldOnce
<1>2. IInv /\ AllAnswered /\ [Next]_vars => AllAnswered'
  BY NextAnswered
<1>3. QED  BY <1>1, <1>2, Invariance, PTL DEF Spec

(* The host reports each end of a websocket, whatever ended it, by exactly *)
(* one onClose.                                                            *)
THEOREM EndsAreReported == Spec => []EveryEndIsReported
<1>1. AllAnswered => EveryEndIsReported
  BY DEF AllAnswered, Answered, EveryEndIsReported
<1>2. QED  BY <1>1, AlwaysAnswered, PTL

(* No task of the guest is forgotten in connect() or sendMessage(), but    *)
(* for an address that cannot be read: as long as it waits, the promise    *)
(* that resumes it or the close event of its connection is on its way.     *)
THEOREM NoTaskIsForgotten == Spec => []WaitingHasAnEnd
<1>1. ASSUME IInv, AllAnswered, NEW call \in waiting
      PROVE  HasAnEnd(call)
  <2>1. /\ call.c \in Connections
        /\ \/ call = Task(call.c, "connect") /\ call.in = "connect"
           \/ call = Task(call.c, "send") /\ call.in = "send"
    BY <1>1, TasksDiffer DEF IInv, TypeOK
  <2>2. Answered(call.c)
    BY <1>1, <2>1 DEF AllAnswered
  <2>3. QED  BY <1>1, <2>1, <2>2 DEF Answered, EndReported, HasAnEnd
<1>2. IInv /\ AllAnswered => WaitingHasAnEnd
  BY <1>1 DEF WaitingHasAnEnd
<1>3. QED  BY <1>2, AlwaysAnswered, Invariance, PTL

(* onClose is the last that the guest hears of a connection, but for the   *)
(* binary messages a browser was reading, and nothing reopens it.          *)
THEOREM CloseIsFinal == Spec => SilentAfterClose
<1>1. ASSUME IInv, AllAnswered, NEW c \in Connections, StepOf(c),
             NEW d \in Connections, ToldOfEnd(d)
      PROVE  /\ socket'[d] = "closed"
             /\ \/ told'[d] = told[d]
                \/ host = "browser" /\ \E e \in blobs[d] : told'[d] = Append(told[d], e)
  <2>1. inbox[d] = <<>> /\ socket[d] = "closed" /\ object[d] # "none"
    BY <1>1, EmptySeq DEF IInv, Orderly, EndIsLast, Unopened, ToldOfEnd, Contains
  <2>2. CASE d # c
    BY <1>1, <2>1, <2>2, OthersSame DEF SameAt, IInv
  <2>3. CASE d = c /\ BlobRead(c)
    <3>1. EndToldOnce(c) /\ UNCHANGED socket /\ host = "browser"
      BY <1>1, <2>3, BlobReadEffect DEF AllAnswered, Answered
    <3>2. QED  BY <1>1, <2>1, <2>3, <3>1, BlobToldLast
  <2>4. CASE d = c /\ ~BlobRead(c)
    <3>1. UNCHANGED <<told, socket>>
      BY <1>1, <2>1, <2>4
      DEF StepOf, GuestStep, HostStep, SocketStep, Connect, Accept, SendMessage,
          CloseSocket, Destroy, SocketOpens, SocketEnds, ConnectReturns,
          SendReturns, Dispatch, MessageArrives
    <3>2. QED  BY <2>1, <3>1
  <2>5. QED  BY <2>2, <2>3, <2>4
<1>2. IInv /\ AllAnswered /\ [Next]_vars =>
        [\A c \in Connections : ToldOfEnd(c) =>
           /\ socket'[c] = "closed"
           /\ \/ told'[c] = told[c]
              \/ host = "browser" /\ \E e \in blobs[c] : told'[c] = Append(told[c], e)]_vars
  BY <1>1, Zenon DEF Next, StepOf
<1>3. QED  BY <1>2, AlwaysAnswered, Invariance, PTL DEF Spec, SilentAfterClose
=============================================================================
