----------------------- MODULE WebsocketSession_proofs -----------------------
(***************************************************************************)
(* Proofs about the websocket sessions, for every set of sessions and      *)
(* every bound on the messages: the inductive invariant IInv, the safety   *)
(* properties it implies, and the refinement of Broadcast.tla.             *)
(***************************************************************************)
EXTENDS WebsocketSession, SequenceTheorems, TLAPS

\* The one-line helpers of the actions are expanded everywhere.
USE DEF Recipients, Erased, FirstOf

-----------------------------------------------------------------------------
(* Runs of consecutive numbers under the two ends of a queue               *)

LEMMA ConsecutiveEmpty ==
  ASSUME NEW start
  PROVE  Consecutive(<<>>, start)
BY DEF Consecutive

(* Appending the successor of the last number keeps a run consecutive:     *)
(* push_back in on_send, and the post in shared_state::send.               *)
LEMMA ConsecutiveAppend ==
  ASSUME NEW seq \in Seq(Message), NEW start \in Nat,
         Consecutive(seq, start)
  PROVE  Consecutive(Append(seq, start + Len(seq) + 1), start)
BY DEF Consecutive, Message, NoMessage

(* Removing the front leaves a run that starts one later: erase in         *)
(* on_write, and the executor taking a posted handler.                     *)
LEMMA ConsecutiveTail ==
  ASSUME NEW seq \in Seq(Message), NEW start \in Nat, seq # <<>>,
         Consecutive(seq, start)
  PROVE  /\ Head(seq) = start + 1
         /\ Len(Tail(seq)) = Len(seq) - 1
         /\ Consecutive(Tail(seq), start + 1)
<1>1. Len(seq) >= 1 /\ Head(seq) = seq[1]
  BY EmptySeq
<1>2. Len(Tail(seq)) = Len(seq) - 1
  BY HeadTailProperties
<1>3. \A i \in 1 .. Len(Tail(seq)) : Tail(seq)[i] = seq[i + 1]
  BY HeadTailProperties
<1>4. QED  BY <1>1, <1>2, <1>3 DEF Consecutive

-----------------------------------------------------------------------------
(* The inductive invariant: one lemma for each handler                     *)

LEMMA InitIInv == Init => IInv
<1> SUFFICES ASSUME Init PROVE IInv
  OBVIOUS
<1> USE DEF Init
<1>0. <<>> \in Seq(Message) /\ Len(<<>>) = 0
  BY EmptySeq
<1>1. TypeOK
  BY <1>0 DEF TypeOK, Phases, NoMessage
<1>2. Lifecycle /\ RegistryIsExact /\ WriteBufferIsOwned /\ NoStalledQueue
  BY DEF Lifecycle, RegistryIsExact, WriteBufferIsOwned, NoStalledQueue,
         Pending, Opening
<1>3. Segment
  BY <1>0, ConsecutiveEmpty DEF Segment, SegmentOf
<1>4. QED  BY <1>1, <1>2, <1>3 DEF IInv

\* What an opening handler that does not finish the handshake changes.
OpeningStep(s) ==
  /\ phase[s] \in {"none"} \cup Opening
  /\ \E p \in Opening : phase' = [phase EXCEPT ![s] = p]
  /\ UNCHANGED <<sessions, reading, writing, posted, queue, broken, count,
                 joinedAt, delivered>>

LEMMA OpeningSteps ==
  ASSUME NEW s \in Sessions, Run(s) \/ Connect(s) \/ ConnectProgress(s)
  PROVE  OpeningStep(s)
BY DEF Run, Connect, ConnectProgress, OpeningStep, Opening

LEMMA OpeningStepIInv ==
  ASSUME IInv, NEW s \in Sessions, OpeningStep(s)
  PROVE  IInv'
<1> USE DEF OpeningStep
<1>1. TypeOK'
  BY DEF IInv, TypeOK, Phases
<1>2. Lifecycle'
  BY DEF IInv, TypeOK, Lifecycle, Pending, Opening
<1>3. RegistryIsExact' /\ WriteBufferIsOwned' /\ NoStalledQueue'
  BY DEF IInv, RegistryIsExact, WriteBufferIsOwned, NoStalledQueue, Pending
<1>4. Segment'
  BY DEF IInv, Segment, SegmentOf, Consecutive
<1>5. QED  BY <1>1, <1>2, <1>3, <1>4 DEF IInv

LEMMA OpenedIInv ==
  ASSUME IInv, NEW s \in Sessions, Opened(s)
  PROVE  IInv'
<1> USE DEF Opened, Join
<1>1. TypeOK'
  BY DEF IInv, TypeOK, Phases
<1>2. /\ phase[s] \in Opening /\ s \notin sessions
      /\ posted[s] = <<>> /\ queue[s] = <<>> /\ delivered[s] = <<>>
      /\ writing[s] = NoMessage
  BY DEF IInv, Lifecycle, Pending, Opening
<1>3. Lifecycle' /\ RegistryIsExact'
  BY <1>2 DEF IInv, TypeOK, Lifecycle, RegistryIsExact, Pending, Opening
<1>4. WriteBufferIsOwned' /\ NoStalledQueue'
  BY DEF IInv, WriteBufferIsOwned, NoStalledQueue
<1>5. Segment'
  <2> SUFFICES ASSUME NEW t \in Sessions PROVE SegmentOf(t)'
    BY DEF Segment
  <2>1. CASE t = s
    BY <1>2, <2>1, EmptySeq DEF IInv, TypeOK, SegmentOf, Consecutive
  <2>2. CASE t # s
    BY <2>2 DEF IInv, TypeOK, Segment, SegmentOf, Consecutive
  <2>3. QED  BY <2>1, <2>2
<1>6. QED  BY <1>1, <1>3, <1>4, <1>5 DEF IInv

LEMMA OpenFailedIInv ==
  ASSUME IInv, NEW s \in Sessions, OpenFailed(s)
  PROVE  IInv'
<1> USE DEF OpenFailed, Destroy, Leave
<1>1. TypeOK'
  BY DEF IInv, TypeOK, Phases
<1>2. phase[s] # "open" /\ s \notin sessions /\ ~Pending(s)
  BY DEF IInv, Lifecycle, Opening
<1>3. Lifecycle' /\ RegistryIsExact'
  BY <1>2 DEF IInv, TypeOK, Lifecycle, RegistryIsExact, Pending, Opening
<1>4. WriteBufferIsOwned' /\ NoStalledQueue'
  BY DEF IInv, WriteBufferIsOwned, NoStalledQueue
<1>5. Segment'
  BY DEF IInv, Segment, SegmentOf, Consecutive
<1>6. QED  BY <1>1, <1>3, <1>4, <1>5 DEF IInv

LEMMA OnReadIInv ==
  ASSUME IInv, NEW s \in Sessions, OnRead(s)
  PROVE  IInv'
<1> USE DEF OnRead
<1>1. count' \in Message
  BY DEF IInv, TypeOK, Message, NoMessage
<1>2. ASSUME NEW t \in Sessions
      PROVE  /\ t \notin sessions => posted'[t] = posted[t]
             /\ t \in sessions =>
                  /\ posted'[t] = Append(posted[t], count + 1)
                  /\ posted'[t] # <<>>
             /\ posted'[t] \in Seq(Message)
  <2>1. posted[t] \in Seq(Message)
    BY DEF IInv, TypeOK
  <2>2. Append(posted[t], count') \in Seq(Message)
        /\ Append(posted[t], count') # <<>>
    BY <1>1, <2>1, AppendProperties
  <2>3. QED  BY <2>1, <2>2
<1>3. TypeOK'
  BY <1>1, <1>2 DEF IInv, TypeOK, Message
<1>4. Lifecycle' /\ RegistryIsExact'
  BY <1>2 DEF IInv, Lifecycle, RegistryIsExact, Pending
<1>5. WriteBufferIsOwned' /\ NoStalledQueue'
  BY DEF IInv, WriteBufferIsOwned, NoStalledQueue
<1>6. Segment'
  <2> SUFFICES ASSUME NEW t \in Sessions PROVE SegmentOf(t)'
    BY DEF Segment
  <2>1. SegmentOf(t)
    BY DEF IInv, Segment
  <2>2. CASE t \notin sessions
    BY <1>2, <2>1, <2>2 DEF SegmentOf, Consecutive
  <2>3. CASE t \in sessions
    <3> DEFINE start == joinedAt[t] + Len(delivered[t]) + Len(queue[t])
    <3>1. start \in Nat /\ posted[t] \in Seq(Message)
      BY LenProperties DEF IInv, TypeOK
    <3>2. Consecutive(posted[t], start) /\ start + Len(posted[t]) = count
      BY <2>1, <2>3 DEF SegmentOf
    <3>3. Consecutive(posted'[t], start)
      BY <1>2, <2>3, <3>1, <3>2, ConsecutiveAppend
    <3>4. count' = count + 1 /\ count + 1 \in Message
      BY <1>1
    <3>5. Len(posted'[t]) = Len(posted[t]) + 1
      <4>1. posted'[t] = Append(posted[t], count + 1)
        BY <1>2, <2>3
      <4>2. QED  BY <3>1, <3>4, <4>1, AppendProperties
    <3>6. Len(posted[t]) \in Nat
      BY <3>1, LenProperties
    <3>7. start + Len(posted'[t]) = count'
      <4> HIDE DEF start
      <4>1. QED  BY <3>1, <3>2, <3>4, <3>5, <3>6
    <3>8. UNCHANGED <<sessions, joinedAt, delivered, queue>>
      OBVIOUS
    <3>9. QED  BY <2>1, <3>3, <3>7, <3>8 DEF SegmentOf, Consecutive
  <2>4. QED  BY <2>2, <2>3
<1>7. QED  BY <1>3, <1>4, <1>5, <1>6 DEF IInv

(* The end of a handler of a registered session s: whether the object is   *)
(* kept or destroyed, the registry stays exact.                            *)
LEMMA ReleaseLemma ==
  ASSUME IInv, NEW s \in Sessions, s \in sessions,
         NEW owned \in BOOLEAN, ReleaseUnless(s, owned),
         owned <=> Pending(s)',
         ~broken'[s] => reading'[s],
         \A t \in Sessions \ {s} :
           /\ Pending(t)' <=> Pending(t)
           /\ reading'[t] = reading[t] /\ broken'[t] = broken[t]
           /\ queue'[t] = queue[t] /\ delivered'[t] = delivered[t]
  PROVE  /\ Lifecycle' /\ RegistryIsExact'
         /\ phase' \in [Sessions -> Phases]
         /\ sessions' \subseteq sessions
<1> USE DEF ReleaseUnless, Destroy, Leave
<1>1. phase[s] = "open"
  BY DEF IInv, Lifecycle
<1>2. phase' \in [Sessions -> Phases] /\ sessions' \subseteq sessions
  BY DEF IInv, TypeOK, Phases
<1>3. /\ s \in sessions' <=> owned
      /\ phase'[s] = IF owned THEN "open" ELSE "destroyed"
  BY <1>1 DEF IInv, TypeOK
<1>4. \A t \in Sessions \ {s} :
        (t \in sessions' <=> t \in sessions) /\ phase'[t] = phase[t]
  BY DEF IInv, TypeOK
<1>5. RegistryIsExact'
  BY <1>3, <1>4 DEF IInv, RegistryIsExact
<1>6. Lifecycle'
  BY <1>3, <1>4 DEF IInv, Lifecycle, Opening
<1>7. QED  BY <1>2, <1>5, <1>6

LEMMA OnReadErrorIInv ==
  ASSUME IInv, NEW s \in Sessions, OnReadError(s)
  PROVE  IInv'
<1>1. s \in sessions
  BY DEF IInv, RegistryIsExact, Pending, OnReadError
<1>2. /\ Lifecycle' /\ RegistryIsExact'
      /\ phase' \in [Sessions -> Phases]
      /\ sessions' \subseteq sessions
  <2> DEFINE owned == posted[s] # <<>> \/ writing[s] # NoMessage
  <2>1. ReleaseUnless(s, owned) /\ owned \in BOOLEAN
    BY DEF OnReadError
  <2>2. /\ owned <=> Pending(s)'
        /\ ~broken'[s] => reading'[s]
        /\ \A t \in Sessions \ {s} :
             /\ Pending(t)' <=> Pending(t)
             /\ reading'[t] = reading[t] /\ broken'[t] = broken[t]
             /\ queue'[t] = queue[t] /\ delivered'[t] = delivered[t]
    BY DEF OnReadError, Pending, IInv, TypeOK
  <2> HIDE DEF owned
  <2>3. QED  BY <1>1, <2>1, <2>2, ReleaseLemma
<1>3. TypeOK'
  BY <1>2 DEF IInv, TypeOK, OnReadError
<1>4. WriteBufferIsOwned' /\ NoStalledQueue'
  BY DEF IInv, TypeOK, WriteBufferIsOwned, NoStalledQueue, OnReadError
<1>5. Segment'
  BY <1>2 DEF IInv, Segment, SegmentOf, Consecutive, OnReadError
<1>6. QED  BY <1>2, <1>3, <1>4, <1>5 DEF IInv

\* on_send moves the first posted message to the end of queue_; it starts a
\* write exactly when queue_ was empty.
LEMMA OnSendEffect ==
  ASSUME IInv, NEW s \in Sessions, OnSend(s)
  PROVE  /\ s \in sessions
         /\ Head(posted[s]) \in Message
         /\ posted'[s] = Tail(posted[s]) /\ posted'[s] \in Seq(Message)
         /\ queue'[s] = Append(queue[s], Head(posted[s]))
         /\ queue'[s] \in Seq(Message) /\ queue'[s] # <<>>
         /\ queue[s] = <<>> => writing'[s] = Head(posted[s])
                               /\ Head(queue'[s]) = Head(posted[s])
         /\ queue[s] # <<>> => writing'[s] = writing[s]
                               /\ Head(queue'[s]) = Head(queue[s])
         /\ writing' \in [Sessions -> Nat]
         /\ \A t \in Sessions \ {s} :
              /\ posted'[t] = posted[t] /\ queue'[t] = queue[t]
              /\ writing'[t] = writing[t]
<1> DEFINE m == Head(posted[s])
<1>1. /\ posted[s] \in Seq(Message) /\ queue[s] \in Seq(Message)
      /\ posted[s] # <<>>
  BY DEF IInv, TypeOK, OnSend
<1>2. /\ m \in Message /\ m \in Nat /\ Tail(posted[s]) \in Seq(Message)
  BY <1>1, HeadTailProperties DEF Message
<1>3. /\ Append(queue[s], m) \in Seq(Message)
      /\ Append(queue[s], m) # <<>>
      /\ Len(Append(queue[s], m)) = Len(queue[s]) + 1
  BY <1>1, <1>2, AppendProperties
<1>4. /\ s \in sessions
      /\ \A t \in Sessions \ {s} : posted'[t] = posted[t] /\ queue'[t] = queue[t]
      /\ posted'[s] = Tail(posted[s])
      /\ queue'[s] = Append(queue[s], m)
      /\ writing' = IF Alone(queue'[s])
                    THEN [writing EXCEPT ![s] = Head(queue'[s])]
                    ELSE writing
      /\ writing \in [Sessions -> Nat]
  BY DEF IInv, TypeOK, OnSend, RegistryIsExact, Pending
<1>5. CASE queue[s] = <<>>
  <2>1. Head(queue'[s]) = m /\ Alone(queue'[s])
    BY <1>1, <1>2, <1>3, <1>4, <1>5 DEF Alone
  <2>2. writing' = [writing EXCEPT ![s] = m]
    BY <1>4, <2>1, Zenon
  <2>3. QED  BY <1>2, <1>3, <1>4, <1>5, <2>1, <2>2
<1>6. CASE queue[s] # <<>>
  <2>1. Head(queue'[s]) = Head(queue[s]) /\ ~Alone(queue'[s])
    BY <1>1, <1>2, <1>3, <1>4, <1>6, EmptySeq DEF Alone
  <2>2. writing' = writing
    BY <1>4, <2>1, Zenon
  <2>3. QED  BY <1>2, <1>3, <1>4, <1>6, <2>1, <2>2
<1>7. QED  BY <1>5, <1>6

LEMMA OnSendIInv ==
  ASSUME IInv, NEW s \in Sessions, OnSend(s)
  PROVE  IInv'
<1>1. /\ Lifecycle' /\ RegistryIsExact'
      /\ phase' \in [Sessions -> Phases]
      /\ sessions' \subseteq sessions
  <2> DEFINE owned == \/ reading[s]
                      \/ posted'[s] # <<>>
                      \/ writing'[s] # NoMessage
  <2>1. ReleaseUnless(s, owned) /\ owned \in BOOLEAN
    BY DEF OnSend, IInv, TypeOK
  <2>2. /\ owned <=> Pending(s)'
        /\ ~broken'[s] => reading'[s]
        /\ \A t \in Sessions \ {s} :
             /\ Pending(t)' <=> Pending(t)
             /\ reading'[t] = reading[t] /\ broken'[t] = broken[t]
             /\ queue'[t] = queue[t] /\ delivered'[t] = delivered[t]
    BY OnSendEffect DEF OnSend, Pending, IInv, Lifecycle
  <2> HIDE DEF owned
  <2>3. QED  BY <2>1, <2>2, OnSendEffect, ReleaseLemma
<1>2. TypeOK'
  <2>1. /\ posted' = [posted EXCEPT ![s] = Tail(posted[s])]
        /\ queue' = [queue EXCEPT ![s] = Append(queue[s], Head(posted[s]))]
        /\ UNCHANGED <<reading, broken, count, joinedAt, delivered>>
    BY DEF OnSend
  <2>2. Tail(posted[s]) \in Seq(Message)
        /\ Append(queue[s], Head(posted[s])) \in Seq(Message)
        /\ writing' \in [Sessions -> Nat]
    BY OnSendEffect
  <2>3. QED  BY <1>1, <2>1, <2>2 DEF IInv, TypeOK
<1>3. WriteBufferIsOwned' /\ NoStalledQueue'
  <2> SUFFICES ASSUME NEW t \in Sessions
               PROVE  /\ writing'[t] # NoMessage =>
                           queue'[t] # <<>> /\ writing'[t] = Head(queue'[t])
                      /\ queue'[t] # <<>> /\ ~broken'[t] =>
                           writing'[t] # NoMessage
    BY DEF WriteBufferIsOwned, NoStalledQueue
  <2>1. /\ writing[t] # NoMessage =>
             queue[t] # <<>> /\ writing[t] = Head(queue[t])
        /\ queue[t] # <<>> /\ ~broken[t] => writing[t] # NoMessage
        /\ broken' = broken
    BY DEF IInv, WriteBufferIsOwned, NoStalledQueue, OnSend
  <2>2. CASE t # s
    BY <2>1, <2>2, OnSendEffect
  <2>3. CASE t = s
    BY <2>1, <2>3, OnSendEffect DEF Message
  <2>4. QED  BY <2>2, <2>3
<1>4. Segment'
  <2> SUFFICES ASSUME NEW t \in Sessions PROVE SegmentOf(t)'
    BY DEF Segment
  <2>1. SegmentOf(t) /\ UNCHANGED <<count, joinedAt, delivered>>
    BY DEF IInv, Segment, OnSend
  <2>2. CASE t # s
    <3>1. posted'[t] = posted[t] /\ queue'[t] = queue[t]
      BY <2>2, OnSendEffect
    <3>2. QED  BY <1>1, <2>1, <3>1 DEF SegmentOf, Consecutive
  <2>3. CASE t = s
    <3> DEFINE d == joinedAt[s] + Len(delivered[s])
               q == d + Len(queue[s])
    <3>1. /\ posted[s] \in Seq(Message) /\ queue[s] \in Seq(Message)
          /\ delivered[s] \in Seq(Message) /\ joinedAt[s] \in Nat
          /\ posted[s] # <<>>
      BY DEF IInv, TypeOK, OnSend
    <3>2. /\ Len(delivered[s]) \in Nat /\ Len(queue[s]) \in Nat
          /\ Len(posted[s]) \in Nat /\ d \in Nat /\ q \in Nat
      BY <3>1, LenProperties
    <3>3. /\ Consecutive(queue[s], d) /\ Consecutive(posted[s], q)
          /\ s \in sessions => q + Len(posted[s]) = count
      BY <2>1, <2>3 DEF SegmentOf
    <3>4. /\ Head(posted[s]) = q + 1
          /\ Len(posted'[s]) = Len(posted[s]) - 1
          /\ Consecutive(posted'[s], q + 1)
      BY <3>1, <3>2, <3>3, ConsecutiveTail, OnSendEffect
    <3>5. queue'[s] = Append(queue[s], d + Len(queue[s]) + 1)
      BY <3>4, OnSendEffect
    <3>6. Consecutive(queue'[s], d)
      BY <3>1, <3>2, <3>3, <3>5, ConsecutiveAppend
    <3>7. d + Len(queue'[s]) = q + 1
      BY <3>1, <3>2, OnSendEffect, AppendProperties
    <3>8. (q + 1) + Len(posted'[s]) = q + Len(posted[s])
      BY <3>2, <3>4
    <3>9. QED  BY <1>1, <2>1, <2>3, <3>3, <3>4, <3>6, <3>7, <3>8
               DEF SegmentOf
  <2>4. QED  BY <2>2, <2>3
<1>5. QED  BY <1>1, <1>2, <1>3, <1>4 DEF IInv

\* on_write moves the front of queue_ to the peer and writes the next.
LEMMA OnWriteIInv ==
  ASSUME IInv, NEW s \in Sessions, OnWrite(s)
  PROVE  IInv'
<1>1. /\ queue[s] \in Seq(Message) /\ queue[s] # <<>>
      /\ writing[s] = Head(queue[s]) /\ writing[s] \in Message
      /\ delivered[s] \in Seq(Message) /\ joinedAt[s] \in Nat
  BY HeadTailProperties DEF IInv, TypeOK, WriteBufferIsOwned, OnWrite
<1>2. /\ queue'[s] = Tail(queue[s]) /\ queue'[s] \in Seq(Message)
      /\ delivered'[s] = Append(delivered[s], Head(queue[s]))
      /\ delivered'[s] \in Seq(Message)
      /\ Len(delivered'[s]) = Len(delivered[s]) + 1
  BY <1>1, HeadTailProperties, AppendProperties DEF IInv, TypeOK, OnWrite
<1>3. /\ queue'[s] = <<>> => writing'[s] = NoMessage
      /\ queue'[s] # <<>> => /\ writing'[s] = Head(queue'[s])
                             /\ writing'[s] \in Message
  BY <1>2, HeadTailProperties DEF IInv, TypeOK, OnWrite
<1>4. /\ s \in sessions /\ phase[s] = "open" /\ reading[s]
      /\ UNCHANGED <<phase, sessions, reading, posted, broken, count, joinedAt>>
      /\ ~broken[s]
  BY <1>1 DEF IInv, RegistryIsExact, Lifecycle, Pending, OnWrite, ReleaseUnless
<1>5. TypeOK'
  <2>1. writing'[s] \in Nat
    BY <1>3 DEF Message, NoMessage
  <2>2. QED  BY <1>2, <1>4, <2>1 DEF IInv, TypeOK, OnWrite
<1>6. Lifecycle' /\ RegistryIsExact'
  BY <1>4 DEF IInv, TypeOK, Lifecycle, RegistryIsExact, Pending, Opening,
              OnWrite
<1>7. WriteBufferIsOwned' /\ NoStalledQueue'
  <2>1. ASSUME NEW t \in Sessions, t # s
        PROVE  queue'[t] = queue[t] /\ writing'[t] = writing[t]
    BY <2>1 DEF IInv, TypeOK, OnWrite
  <2>2. QED  BY <1>3, <1>4, <2>1 DEF IInv, WriteBufferIsOwned, NoStalledQueue,
                                  Message
<1>8. Segment'
  <2> SUFFICES ASSUME NEW t \in Sessions PROVE SegmentOf(t)'
    BY DEF Segment
  <2>1. SegmentOf(t)
    BY DEF IInv, Segment
  <2>2. CASE t # s
    <3>1. queue'[t] = queue[t] /\ delivered'[t] = delivered[t]
      BY <2>2 DEF IInv, TypeOK, OnWrite
    <3>2. QED  BY <1>4, <2>1, <3>1 DEF SegmentOf, Consecutive
  <2>3. CASE t = s
    <3> DEFINE d == joinedAt[s] + Len(delivered[s])
               q == d + Len(queue[s])
    <3>1. /\ joinedAt[s] \in Nat /\ d \in Nat /\ q \in Nat
          /\ Len(delivered[s]) \in Nat /\ Len(queue[s]) \in Nat
      BY <1>1, LenProperties
    <3>2. /\ Consecutive(delivered[s], joinedAt[s])
          /\ Consecutive(queue[s], d)
      BY <2>1, <2>3 DEF SegmentOf
    <3>3. /\ Head(queue[s]) = d + 1
          /\ Len(queue'[s]) = Len(queue[s]) - 1
          /\ Consecutive(queue'[s], d + 1)
      BY <1>1, <1>2, <3>1, <3>2, ConsecutiveTail
    <3>4. Consecutive(delivered'[s], joinedAt[s])
      BY <1>1, <1>2, <3>1, <3>2, <3>3, ConsecutiveAppend
    <3>5. /\ Len(delivered'[s]) = Len(delivered[s]) + 1
          /\ Len(queue'[s]) = Len(queue[s]) - 1
      BY <1>2, <3>3
    <3>6. joinedAt[s] + Len(delivered'[s]) = d + 1
      BY <3>1, <3>5
    <3>7. (d + 1) + Len(queue'[s]) = q
      BY <3>1, <3>5
    <3>8. QED  BY <1>4, <2>1, <2>3, <3>3, <3>4, <3>6, <3>7
               DEF SegmentOf
  <2>4. QED  BY <2>2, <2>3
<1>9. QED  BY <1>5, <1>6, <1>7, <1>8 DEF IInv

LEMMA OnWriteErrorIInv ==
  ASSUME IInv, NEW s \in Sessions, OnWriteError(s)
  PROVE  IInv'
<1> USE DEF OnWriteError, ReleaseUnless, Destroy, Leave
<1>1. TypeOK'
  BY DEF IInv, TypeOK, Phases, NoMessage
<1>2. s \in sessions /\ phase[s] = "open"
  BY DEF IInv, RegistryIsExact, Lifecycle, Pending
<1>3. Lifecycle' /\ RegistryIsExact'
  BY <1>2 DEF IInv, TypeOK, Lifecycle, RegistryIsExact, Pending, Opening
<1>4. WriteBufferIsOwned' /\ NoStalledQueue'
  BY DEF IInv, TypeOK, WriteBufferIsOwned, NoStalledQueue
<1>5. Segment'
  BY DEF IInv, Segment, SegmentOf, Consecutive
<1>6. QED  BY <1>1, <1>3, <1>4, <1>5 DEF IInv

LEMMA StutterIInv ==
  ASSUME IInv, UNCHANGED vars
  PROVE  IInv'
BY DEF IInv, vars, TypeOK, Lifecycle, RegistryIsExact, WriteBufferIsOwned,
       NoStalledQueue, Segment, SegmentOf, Consecutive, Pending

LEMMA NextIInv ==
  ASSUME IInv, [Next]_vars
  PROVE  IInv'
<1>1. CASE UNCHANGED vars
  BY <1>1, StutterIInv
<1>2. ASSUME NEW s \in Sessions, Run(s) \/ Connect(s) \/ Step(s)
      PROVE  IInv'
  <2>1. CASE Run(s) \/ Connect(s) \/ ConnectProgress(s)
    BY <2>1, OpeningSteps, OpeningStepIInv
  <2>2. CASE Opened(s)
    BY <2>2, OpenedIInv
  <2>3. CASE OpenFailed(s)
    BY <2>3, OpenFailedIInv
  <2>4. CASE OnRead(s)
    BY <2>4, OnReadIInv
  <2>5. CASE OnReadError(s)
    BY <2>5, OnReadErrorIInv
  <2>6. CASE OnSend(s)
    BY <2>6, OnSendIInv
  <2>7. CASE OnWrite(s)
    BY <2>7, OnWriteIInv
  <2>8. CASE OnWriteError(s)
    BY <2>8, OnWriteErrorIInv
  <2>9. QED
    BY <1>2, <2>1, <2>2, <2>3, <2>4, <2>5, <2>6, <2>7, <2>8 DEF Step
<1>3. QED  BY <1>1, <1>2 DEF Next

-----------------------------------------------------------------------------
(* The theorems                                                            *)

(* IInv holds in every reachable state of the sessions.                    *)
THEOREM Invariance == Spec => []IInv
<1>1. IInv /\ [Next]_vars => IInv'
  BY NextIInv
<1>2. QED  BY InitIInv, <1>1, PTL DEF Spec

(* Every variable keeps its type.                                          *)
THEOREM TypeCorrect == Spec => []TypeOK
<1>1. IInv => TypeOK
  BY DEF IInv
<1>2. QED  BY <1>1, Invariance, PTL

(* What a peer has received, what waits in queue_ and what is still posted *)
(* are the consecutive messages since its session joined, whatever the     *)
(* handlers of the other sessions do.                                      *)
THEOREM NothingLostOrReordered == Spec => []Segment
<1>1. IInv => Segment
  BY DEF IInv
<1>2. QED  BY <1>1, Invariance, PTL

(* The registry contains a pointer to each object that a handler owns and  *)
(* to no other: shared_state::send never meets a destroyed session.        *)
THEOREM NoDanglingSession == Spec => []RegistryIsExact
<1>1. IInv => RegistryIsExact
  BY DEF IInv
<1>2. QED  BY <1>1, Invariance, PTL

(* The buffer of a write under way is owned by queue_, and queue_ is never *)
(* left without a write while the stream works.                            *)
THEOREM QueueDiscipline == Spec => []WritesFollowTheQueue
<1>1. IInv => WritesFollowTheQueue
  BY DEF IInv, WritesFollowTheQueue
<1>2. QED  BY <1>1, Invariance, PTL

(* A member is unregistered only after its stream failed.                  *)
THEOREM MembersStay == Spec => OnlyBrokenLeave
<1>1. ASSUME IInv, [Next]_vars, NEW t \in sessions \ sessions'
      PROVE  broken'[t]
  <2>1. PICK s \in Sessions : Run(s) \/ Connect(s) \/ Step(s)
    BY <1>1 DEF Next, vars
  <2>2. /\ phase[t] = "open"
        /\ ~broken[t] => reading[t]
        /\ t \in Sessions
        /\ phase \in [Sessions -> Phases] /\ broken \in [Sessions -> BOOLEAN]
    BY <1>1 DEF IInv, Lifecycle, TypeOK
  <2> USE DEF ReleaseUnless, Destroy, Leave
  <2>3. CASE Run(s) \/ Connect(s) \/ ConnectProgress(s)
    BY <1>1, <2>3 DEF Run, Connect, ConnectProgress
  <2>4. CASE Opened(s)
    BY <1>1, <2>4 DEF Opened, Join
  <2>5. CASE OpenFailed(s)
    BY <1>1, <2>2, <2>5 DEF OpenFailed, Opening
  <2>6. CASE OnRead(s)
    BY <1>1, <2>6 DEF OnRead
  <2>7. CASE OnReadError(s)
    BY <1>1, <2>2, <2>7 DEF OnReadError
  <2>8. CASE OnSend(s)
    BY <1>1, <2>2, <2>8 DEF OnSend
  <2>9. CASE OnWrite(s)
    BY <1>1, <2>2, <2>9 DEF OnWrite
  <2>10. CASE OnWriteError(s)
    BY <1>1, <2>2, <2>10 DEF OnWriteError
  <2>11. QED
    BY <2>1, <2>3, <2>4, <2>5, <2>6, <2>7, <2>8, <2>9, <2>10 DEF Step
<1>2. IInv /\ [Next]_vars => [LeaversAreBroken]_vars
  BY <1>1 DEF LeaversAreBroken
<1>3. QED  BY <1>2, Invariance, PTL DEF Spec, OnlyBrokenLeave

(* The sessions implement the totally ordered broadcast: every handler is  *)
(* a step of Broadcast.tla or does not concern it.                         *)
THEOREM Refinement == Spec => Refines
<1>1. Init => Abstract!Init
  BY DEF Init, Abstract!Init
<1>2. ASSUME IInv, [Next]_vars
      PROVE  [Abstract!Next]_(Abstract!vars)
  <2>1. CASE UNCHANGED vars
    BY <2>1 DEF vars, Abstract!vars
  <2>2. ASSUME NEW s \in Sessions, Run(s) \/ Connect(s) \/ Step(s)
        PROVE  [Abstract!Next]_(Abstract!vars)
    <3> USE DEF ReleaseUnless, Destroy, Leave
    <3>1. CASE Run(s) \/ Connect(s) \/ ConnectProgress(s)
      BY <3>1 DEF Run, Connect, ConnectProgress, Abstract!vars
    <3>2. CASE Opened(s)
      <4>1. Abstract!Join(s)
        BY <1>2, <3>2 DEF IInv, Lifecycle, Opening, Opened, Join, Abstract!Join
      <4>2. QED  BY <4>1 DEF Abstract!Next
    <3>3. CASE OpenFailed(s)
      <4>1. s \notin sessions
        BY <1>2, <3>3 DEF IInv, Lifecycle, OpenFailed, Opening
      <4>2. QED  BY <3>3, <4>1 DEF OpenFailed, Abstract!vars
    <3>4. CASE OnRead(s)
      <4>1. s \in sessions
        BY <1>2, <3>4 DEF IInv, RegistryIsExact, Pending, OnRead
      <4>2. Abstract!Send
        BY <3>4, <4>1 DEF OnRead, Abstract!Send
      <4>3. QED  BY <4>2 DEF Abstract!Next
    <3>5. ASSUME s \in sessions, UNCHANGED <<count, joinedAt, delivered>>,
                 NEW owned \in BOOLEAN, ReleaseUnless(s, owned)
          PROVE  [Abstract!Next]_(Abstract!vars)
      <4>1. CASE owned
        BY <3>5, <4>1 DEF Abstract!vars
      <4>2. CASE ~owned
        <5>1. Abstract!Leave(s)
          BY <3>5, <4>2 DEF Abstract!Leave
        <5>2. QED  BY <5>1 DEF Abstract!Next
      <4>3. QED  BY <4>1, <4>2
    <3> HIDE DEF ReleaseUnless, Destroy, Leave
    <3>6. CASE OnReadError(s)
      <4>1. s \in sessions
        BY <1>2, <3>6 DEF IInv, RegistryIsExact, Pending, OnReadError
      <4>2. ReleaseUnless(s, posted[s] # <<>> \/ writing[s] # NoMessage)
        BY <3>6 DEF OnReadError
      <4>3. QED  BY <3>5, <3>6, <4>1, <4>2 DEF OnReadError
    <3>7. CASE OnSend(s)
      <4>1. s \in sessions
        BY <1>2, <3>7 DEF IInv, RegistryIsExact, Pending, OnSend
      <4>2. /\ ReleaseUnless(s, \/ reading[s]
                                \/ posted'[s] # <<>>
                                \/ writing'[s] # NoMessage)
            /\ reading[s] \in BOOLEAN
        BY <1>2, <3>7 DEF OnSend, IInv, TypeOK
      <4>3. QED  BY <3>5, <3>7, <4>1, <4>2 DEF OnSend
    <3>8. CASE OnWriteError(s)
      <4>1. s \in sessions
        BY <1>2, <3>8 DEF IInv, RegistryIsExact, Pending, OnWriteError
      <4>2. /\ ReleaseUnless(s, reading[s] \/ posted[s] # <<>>)
            /\ reading[s] \in BOOLEAN
        BY <1>2, <3>8 DEF OnWriteError, IInv, TypeOK
      <4>3. QED  BY <3>5, <3>8, <4>1, <4>2 DEF OnWriteError
    <3>9. CASE OnWrite(s)
      <4>1. s \in sessions /\ UNCHANGED sessions
        BY <1>2, <3>9
        DEF IInv, RegistryIsExact, Lifecycle, Pending, OnWrite, ReleaseUnless
      <4>2. Abstract!NextMessage(s) <= count
            /\ writing[s] = Abstract!NextMessage(s)
        <5>1. /\ queue[s] \in Seq(Message) /\ posted[s] \in Seq(Message)
              /\ delivered[s] \in Seq(Message)
              /\ joinedAt[s] \in Nat /\ count \in Nat
              /\ queue[s] # <<>> /\ writing[s] = Head(queue[s])
          BY <1>2, <3>9 DEF IInv, TypeOK, WriteBufferIsOwned, OnWrite
        <5>2. SegmentOf(s)
          BY <1>2 DEF IInv, Segment
        <5>3. /\ Len(queue[s]) \in Nat /\ Len(posted[s]) \in Nat
              /\ Len(delivered[s]) \in Nat /\ Len(queue[s]) >= 1
          BY <5>1, LenProperties, EmptySeq
        <5>4. Head(queue[s]) = joinedAt[s] + Len(delivered[s]) + 1
          BY <5>1, <5>2, <5>3, ConsecutiveTail DEF SegmentOf
        <5>5. joinedAt[s] + Len(delivered[s]) + Len(queue[s])
                + Len(posted[s]) = count
          BY <4>1, <5>2 DEF SegmentOf
        <5>6. QED  BY <5>1, <5>3, <5>4, <5>5 DEF Abstract!NextMessage
      <4>3. Abstract!Deliver(s)
        BY <3>9, <4>1, <4>2 DEF OnWrite, Abstract!Deliver
      <4>4. QED  BY <4>3 DEF Abstract!Next
    <3>10. QED
      BY <2>2, <3>1, <3>2, <3>3, <3>4, <3>6, <3>7, <3>8, <3>9 DEF Step
  <2>3. QED  BY <1>2, <2>1, <2>2 DEF Next
<1>3. QED  BY <1>1, <1>2, Invariance, PTL DEF Spec, Refines, Abstract!Spec

-----------------------------------------------------------------------------
(* What the handlers promise together                                      *)

\* Two messages that two peers have both received came to both in the same
\* order, with as many others in between.
OneOrderForAll ==
  \A s, t \in Sessions :
    \A i, j \in 1 .. Len(delivered[s]), m, n \in 1 .. Len(delivered[t]) :
      delivered[s][i] = delivered[t][m] /\ delivered[s][j] = delivered[t][n]
        => j + m = n + i

\* A member whose stream works and that lacks a message has a handler to run:
\* an on_send, or the on_write of a write under way.
BacklogHasAHandler ==
  \A s \in sessions :
    ~broken[s] /\ joinedAt[s] + Len(delivered[s]) < count
      => posted[s] # <<>> \/ writing[s] # NoMessage

\* The handlers still to run before all that was broadcast to s is written.
Work(s) == 2 * Len(posted[s]) + Len(queue[s])

\* Each on_send and on_write of s leaves it one less of them; only a broadcast
\* adds any, the two that its message takes.
WorkShrinks ==
  [][\A s \in Sessions :
       \/ UNCHANGED <<posted[s], queue[s], delivered[s]>>
       \/ count' = count /\ Work(s)' + 1 = Work(s)
       \/ count' = count + 1 /\ s \in sessions /\ Work(s)' = Work(s) + 2]_vars

\* A session that is over does not come back, nor does its stream recover.
OverForGood ==
  [][\A s \in Sessions :
       /\ broken[s] => broken'[s]
       /\ phase[s] = "destroyed" =>
            /\ phase'[s] = "destroyed" /\ s \notin sessions'
            /\ UNCHANGED <<posted[s], queue[s], delivered[s]>>]_vars

LEMMA SameShift ==
  ASSUME NEW a \in Nat, NEW b \in Nat, NEW i \in Nat, NEW j \in Nat,
         NEW m \in Nat, NEW n \in Nat, a + i = b + m, a + j = b + n
  PROVE  j + m = n + i
OBVIOUS

LEMMA OneOrderFollows == IInv => OneOrderForAll
<1> SUFFICES ASSUME IInv, NEW s \in Sessions, NEW t \in Sessions,
                    NEW i \in 1 .. Len(delivered[s]), NEW j \in 1 .. Len(delivered[s]),
                    NEW m \in 1 .. Len(delivered[t]), NEW n \in 1 .. Len(delivered[t]),
                    delivered[s][i] = delivered[t][m], delivered[s][j] = delivered[t][n]
             PROVE  j + m = n + i
  BY DEF OneOrderForAll
<1>1. /\ delivered[s] \in Seq(Message) /\ delivered[t] \in Seq(Message)
      /\ joinedAt[s] \in Nat /\ joinedAt[t] \in Nat
  BY DEF IInv, TypeOK
<1>2. i \in Nat /\ j \in Nat /\ m \in Nat /\ n \in Nat
  BY <1>1
<1>3. /\ delivered[s][i] = joinedAt[s] + i /\ delivered[s][j] = joinedAt[s] + j
      /\ delivered[t][m] = joinedAt[t] + m /\ delivered[t][n] = joinedAt[t] + n
  BY DEF IInv, Segment, SegmentOf, Consecutive
<1> DEFINE a == joinedAt[s]
           b == joinedAt[t]
<1>4. a \in Nat /\ b \in Nat
  BY <1>1
<1>5. a + i = b + m /\ a + j = b + n
  BY <1>3
<1> HIDE DEF a, b
<1> QED
  BY ONLY <1>2, <1>4, <1>5, SameShift

(* Every peer receives the messages in the order of the broadcasts: with   *)
(* any two peers the same two messages are equally far apart.              *)
THEOREM PeersAgreeOnTheOrder == Spec => []OneOrderForAll
BY Invariance, OneOrderFollows, PTL

LEMMA BacklogFollows == IInv => BacklogHasAHandler
<1> SUFFICES ASSUME IInv, NEW s \in sessions, ~broken[s],
                    joinedAt[s] + Len(delivered[s]) < count, posted[s] = <<>>
             PROVE  writing[s] # NoMessage
  BY DEF BacklogHasAHandler
<1>1. s \in Sessions
  BY DEF IInv, TypeOK
<1>2. joinedAt[s] + Len(delivered[s]) + Len(queue[s]) + Len(posted[s]) = count
  BY <1>1 DEF IInv, Segment, SegmentOf
<1>3. /\ delivered[s] \in Seq(Message) /\ joinedAt[s] \in Nat
  BY <1>1 DEF IInv, TypeOK
<1>4. queue[s] # <<>>
  BY <1>2, <1>3, EmptySeq
<1> QED
  BY <1>1, <1>4 DEF IInv, NoStalledQueue

LEMMA WorkArithmetic ==
  ASSUME NEW p \in Nat, NEW q \in Nat
  PROVE  /\ 2 * (p + 1) + q = (2 * p + q) + 2
         /\ (2 * (p - 1) + (q + 1)) + 1 = 2 * p + q
         /\ (2 * p + (q - 1)) + 1 = 2 * p + q
OBVIOUS

LEMMA StepShrinksWork ==
  ASSUME IInv, [Next]_vars, NEW s \in Sessions
  PROVE  \/ UNCHANGED <<posted[s], queue[s], delivered[s]>>
         \/ count' = count /\ Work(s)' + 1 = Work(s)
         \/ count' = count + 1 /\ s \in sessions /\ Work(s)' = Work(s) + 2
<1>1. /\ posted \in [Sessions -> Seq(Message)] /\ queue \in [Sessions -> Seq(Message)]
      /\ delivered \in [Sessions -> Seq(Message)]
      /\ count \in Nat
  BY DEF IInv, TypeOK
<1>2. Len(posted[s]) \in Nat /\ Len(queue[s]) \in Nat
  BY <1>1
<1>3. CASE UNCHANGED vars
  BY <1>3 DEF vars
<1>4. ASSUME NEW t \in Sessions,
             \/ Run(t) \/ Connect(t) \/ ConnectProgress(t) \/ Opened(t)
             \/ OpenFailed(t) \/ OnReadError(t) \/ OnWriteError(t)
      PROVE  UNCHANGED <<posted[s], queue[s], delivered[s]>>
  BY <1>4 DEF Run, Connect, ConnectProgress, Opened, OpenFailed, OnReadError,
     OnWriteError
<1>5. ASSUME NEW t \in Sessions, OnRead(t)
      PROVE  \/ UNCHANGED <<posted[s], queue[s], delivered[s]>>
             \/ count' = count + 1 /\ s \in sessions /\ Work(s)' = Work(s) + 2
  <2>1. count' = count + 1 /\ UNCHANGED <<queue, delivered>>
    BY <1>5 DEF OnRead
  <2>2. CASE s \notin sessions
    BY <1>1, <1>5, <2>1, <2>2 DEF OnRead
  <2>3. CASE s \in sessions
    <3>1. posted'[s] = Append(posted[s], count')
      BY <1>5, <2>3 DEF OnRead
    <3>2. count' \in Message
      BY <1>1, <2>1 DEF Message, NoMessage
    <3>3. Len(posted'[s]) = Len(posted[s]) + 1
      BY <1>1, <3>1, <3>2, AppendProperties
    <3>4. Len(queue'[s]) = Len(queue[s])
      BY <2>1
    <3>5. Work(s) = 2 * Len(posted[s]) + Len(queue[s])
      BY DEF Work
    <3>6. Work(s)' = 2 * (Len(posted[s]) + 1) + Len(queue[s])
      BY <3>3, <3>4 DEF Work
    <3>7. 2 * (Len(posted[s]) + 1) + Len(queue[s])
            = (2 * Len(posted[s]) + Len(queue[s])) + 2
      BY <1>2, WorkArithmetic
    <3>8. Work(s)' = Work(s) + 2
      BY <3>5, <3>6, <3>7, Zenon
    <3> QED
      BY <2>1, <2>3, <3>8
  <2> QED
    BY <2>2, <2>3
<1>6. ASSUME NEW t \in Sessions, OnSend(t) \/ OnWrite(t), t # s
      PROVE  UNCHANGED <<posted[s], queue[s], delivered[s]>>
  BY <1>1, <1>6 DEF OnSend, OnWrite
<1>7. CASE OnSend(s)
  <2>1. /\ posted[s] # <<>> /\ count' = count
        /\ posted'[s] = Tail(posted[s])
        /\ queue'[s] = Append(queue[s], Head(posted[s]))
    BY <1>1, <1>7 DEF OnSend
  <2>2. /\ Len(posted'[s]) = Len(posted[s]) - 1 /\ Head(posted[s]) \in Message
        /\ Len(posted[s]) >= 1
    BY <1>1, <2>1, HeadTailProperties, EmptySeq
  <2>3. Len(queue'[s]) = Len(queue[s]) + 1
    BY <1>1, <2>1, <2>2, AppendProperties
  <2>4. Work(s) = 2 * Len(posted[s]) + Len(queue[s])
    BY DEF Work
  <2>5. Work(s)' = 2 * (Len(posted[s]) - 1) + (Len(queue[s]) + 1)
    BY <2>2, <2>3 DEF Work
  <2>6. (2 * (Len(posted[s]) - 1) + (Len(queue[s]) + 1)) + 1
          = 2 * Len(posted[s]) + Len(queue[s])
    BY <1>2, WorkArithmetic
  <2>7. Work(s)' + 1 = Work(s)
    BY <2>4, <2>5, <2>6, Zenon
  <2> QED
    BY <2>1, <2>7
<1>8. CASE OnWrite(s)
  <2>1. queue[s] # <<>>
    BY <1>8 DEF IInv, WriteBufferIsOwned, OnWrite
  <2>2. /\ count' = count /\ posted' = posted
        /\ queue'[s] = Tail(queue[s])
    BY <1>1, <1>8 DEF OnWrite
  <2>3. Len(queue'[s]) = Len(queue[s]) - 1 /\ Len(queue[s]) >= 1
    BY <1>1, <2>1, <2>2, HeadTailProperties, EmptySeq
  <2>4. Work(s) = 2 * Len(posted[s]) + Len(queue[s])
    BY DEF Work
  <2>5. Work(s)' = 2 * Len(posted[s]) + (Len(queue[s]) - 1)
    BY <2>2, <2>3 DEF Work
  <2>6. (2 * Len(posted[s]) + (Len(queue[s]) - 1)) + 1
          = 2 * Len(posted[s]) + Len(queue[s])
    BY <1>2, WorkArithmetic
  <2>7. Work(s)' + 1 = Work(s)
    BY <2>4, <2>5, <2>6, Zenon
  <2> QED
    BY <2>2, <2>7
<1> QED
  BY <1>3, <1>4, <1>5, <1>6, <1>7, <1>8 DEF Next, Step

(* Behind EventuallyDelivered, but for the fairness of the io_context:     *)
(* while a member lacks a message there is a handler to run that brings it *)
(* closer, and none takes it further away.                                 *)
THEOREM DeliveryProgresses == Spec => []BacklogHasAHandler /\ WorkShrinks
<1>1. IInv /\ [Next]_vars =>
        [\A s \in Sessions :
           \/ UNCHANGED <<posted[s], queue[s], delivered[s]>>
           \/ count' = count /\ Work(s)' + 1 = Work(s)
           \/ count' = count + 1 /\ s \in sessions /\ Work(s)' = Work(s) + 2]_vars
  BY StepShrinksWork
<1> QED
  BY <1>1, Invariance, BacklogFollows, PTL DEF Spec, WorkShrinks

LEMMA StepKeepsOver ==
  ASSUME IInv, [Next]_vars, NEW s \in Sessions
  PROVE  /\ broken[s] => broken'[s]
         /\ phase[s] = "destroyed" =>
              /\ phase'[s] = "destroyed" /\ s \notin sessions'
              /\ UNCHANGED <<posted[s], queue[s], delivered[s]>>
<1>1. /\ phase \in [Sessions -> Phases] /\ broken \in [Sessions -> BOOLEAN]
      /\ posted \in [Sessions -> Seq(Message)] /\ queue \in [Sessions -> Seq(Message)]
      /\ delivered \in [Sessions -> Seq(Message)]
  BY DEF IInv, TypeOK
<1>2. phase[s] = "destroyed" => /\ s \notin sessions /\ ~reading[s]
                                /\ writing[s] = NoMessage /\ posted[s] = <<>>
  BY DEF IInv, Lifecycle, Pending
<1>3. CASE UNCHANGED vars
  BY <1>2, <1>3 DEF vars
<1>4. ASSUME NEW t \in Sessions,
             \/ Run(t) \/ Connect(t) \/ ConnectProgress(t) \/ Opened(t) \/ OpenFailed(t)
      PROVE  /\ broken'[s] = broken[s]
             /\ phase[s] = "destroyed" =>
                  /\ phase'[s] = "destroyed" /\ s \notin sessions'
                  /\ UNCHANGED <<posted[s], queue[s], delivered[s]>>
  BY <1>1, <1>2, <1>4
     DEF Run, Connect, ConnectProgress, Opened, Join, OpenFailed, Destroy, Leave, Opening
<1>5. ASSUME NEW t \in Sessions, OnRead(t)
      PROVE  /\ broken'[s] = broken[s]
             /\ phase[s] = "destroyed" =>
                  /\ phase'[s] = "destroyed" /\ s \notin sessions'
                  /\ UNCHANGED <<posted[s], queue[s], delivered[s]>>
  BY <1>1, <1>2, <1>5 DEF OnRead
<1>6. ASSUME NEW t \in Sessions, NEW owned, ReleaseUnless(t, owned), t # s
      PROVE  phase'[s] = phase[s] /\ (s \in sessions' => s \in sessions)
  BY <1>1, <1>6 DEF ReleaseUnless, Destroy, Leave
<1>7. ASSUME NEW t \in Sessions, OnReadError(t)
      PROVE  /\ broken[s] => broken'[s]
             /\ phase[s] = "destroyed" =>
                  /\ phase'[s] = "destroyed" /\ s \notin sessions'
                  /\ UNCHANGED <<posted[s], queue[s], delivered[s]>>
  <2>1. phase[s] = "destroyed" => t # s
    BY <1>2, <1>7 DEF OnReadError
  <2> QED
    BY <1>1, <1>2, <1>6, <1>7, <2>1 DEF OnReadError
<1>8. ASSUME NEW t \in Sessions, OnWriteError(t)
      PROVE  /\ broken[s] => broken'[s]
             /\ phase[s] = "destroyed" =>
                  /\ phase'[s] = "destroyed" /\ s \notin sessions'
                  /\ UNCHANGED <<posted[s], queue[s], delivered[s]>>
  <2>1. phase[s] = "destroyed" => t # s
    BY <1>2, <1>8 DEF OnWriteError
  <2> QED
    BY <1>1, <1>2, <1>6, <1>8, <2>1 DEF OnWriteError
<1>9. ASSUME NEW t \in Sessions, OnSend(t) \/ OnWrite(t)
      PROVE  /\ broken'[s] = broken[s]
             /\ phase[s] = "destroyed" =>
                  /\ phase'[s] = "destroyed" /\ s \notin sessions'
                  /\ UNCHANGED <<posted[s], queue[s], delivered[s]>>
  <2>1. phase[s] = "destroyed" => t # s
    BY <1>2, <1>9 DEF OnSend, OnWrite
  <2>2. phase[s] = "destroyed" => UNCHANGED <<posted[s], queue[s], delivered[s]>>
    BY <1>1, <1>9, <2>1 DEF OnSend, OnWrite
  <2>3. phase[s] = "destroyed" => phase'[s] = "destroyed" /\ s \notin sessions'
    BY <1>2, <1>6, <1>9, <2>1 DEF OnSend, OnWrite
  <2> QED
    BY <1>9, <2>2, <2>3 DEF OnSend, OnWrite
<1> QED
  BY <1>3, <1>4, <1>5, <1>7, <1>8, <1>9 DEF Next, Step

(* The objects of the sessions live once: nothing is posted to, queued for *)
(* or written by one that has been destroyed, and no error is forgotten.   *)
THEOREM SessionsEndForGood == Spec => OverForGood
<1>1. IInv /\ [Next]_vars =>
        [\A s \in Sessions :
           /\ broken[s] => broken'[s]
           /\ phase[s] = "destroyed" =>
                /\ phase'[s] = "destroyed" /\ s \notin sessions'
                /\ UNCHANGED <<posted[s], queue[s], delivered[s]>>]_vars
  BY StepKeepsOver
<1> QED
  BY <1>1, Invariance, PTL DEF Spec, OverForGood
==============================================================================
