--------------------------- MODULE ExecLoop_proofs ---------------------------
(***************************************************************************)
(* Proofs about the main loop, for every set of priorities and every bound *)
(* on the calls of post and the signals, and about the hand-over of the    *)
(* signals in front of it.                                                 *)
(***************************************************************************)
EXTENDS ExecLoop, SequenceTheorems, FiniteSetTheorems, WellFoundedInduction, TLAPS

-----------------------------------------------------------------------------
(* The inductive invariant                                                 *)

\* How many handlers have gone from the io_service to the priority queue:
\* they are the first ones posted.
Moved == 0 - order

Increasing(queue) ==
  \A i, j \in 1 .. Len(queue) :
    i < j /\ queue[i].kind = "post" /\ queue[j].kind = "post"
      => queue[i].id < queue[j].id

\* The io_service holds the others, in the order of the posts.
IoInOrder == InIo = Moved + 1 .. Len(posts) /\ Increasing(io)

\* order_ numbers the handlers as post did.
HandlersNumbered ==
  \A h \in handlers :
    h.id \in 1 .. Moved /\ h.priority = posts[h.id] /\ h.order = 0 - h.id

\* Every handler that was moved is queued or has been executed, once.
MovedOnce ==
  /\ InHandlers \cup Executed = 1 .. Moved
  /\ InHandlers \cap Executed = {}
  /\ \A i, j \in 1 .. Len(executed) : i # j => executed[i] # executed[j]

\* A handler that is still queued was posted behind those that have been
\* executed, or has a lower priority.
QueuedAreLater ==
  \A n \in Executed : \A h \in handlers : n < h.id \/ h.priority < posts[n]

\* The loop ends with nothing queued, and what a poll saw has been moved.
EndsEmpty ==
  /\ pc = "handler" => handlers # {}
  /\ pc = "loop" /\ ~more => handlers = {}
  /\ pc \in {"shutdown", "returned"} => handlers = {}
  /\ visible <= Moved

\* The part that is about the priority queue and what has left it.
Queued ==
  HandlersNumbered /\ MovedOnce /\ QueuedAreLater /\ FifoWithinPriority

IInv == TypeOK /\ IoInOrder /\ Queued /\ EndsEmpty

-----------------------------------------------------------------------------
(* The top of the priority queue                                           *)

\* Induction, with a set in the place of a predicate.
LEMMA Induction ==
  ASSUME NEW T \in SUBSET Nat, 0 \in T, \A n \in T : n + 1 \in T
  PROVE  T = Nat
<1> DEFINE R == OpToRel(<, Nat)
<1>1. IsWellFoundedOn(R, Nat)
  BY NatLessThanWellFounded, Zenon
<1>2. \A x, y \in Nat : x < y => <<x, y>> \in R
  BY DEF OpToRel
<1> HIDE DEF R
<1>3. ASSUME Nat \ T # {}
      PROVE  FALSE
  <2>1. PICK x \in Nat \ T : \A y \in Nat \ T : ~(<<y, x>> \in R)
    BY <1>1, <1>3, WFMin
  <2>2. x # 0 /\ x - 1 \in Nat /\ x - 1 < x /\ x - 1 + 1 = x
    BY <2>1
  <2>3. x - 1 \in T
    BY <1>2, <2>1, <2>2
  <2>4. QED  BY <2>1, <2>2, <2>3
<1>4. QED  BY <1>3

\* The order of the queue, on the numbers of the handlers.
Lower(priority, m, n) ==
  priority[m] < priority[n] \/ (priority[m] = priority[n] /\ m > n)

LEMMA EachSetHasATop ==
  ASSUME NEW priority, NEW size \in Nat, \A n \in 1 .. size : priority[n] \in Int,
         NEW ids \in SUBSET (1 .. size), ids # {}
  PROVE  \E t \in ids : \A n \in ids \ {t} : Lower(priority, n, t)
<1> DEFINE HasTop(S) == \E t \in S : \A n \in S \ {t} : Lower(priority, n, t)
           T == {k \in Nat : k <= size =>
                   \A S \in SUBSET (1 .. k) : S # {} => HasTop(S)}
<1>1. 0 \in T
  <2>1. \A S \in SUBSET (1 .. 0) : S = {}
    OBVIOUS
  <2>2. QED  BY <2>1
<1>2. ASSUME NEW k \in T
      PROVE  k + 1 \in T
  <2>1. ASSUME k + 1 <= size, NEW S \in SUBSET (1 .. k + 1), S # {}
        PROVE  HasTop(S)
    <3>1. CASE k + 1 \notin S
      <4>1. S \in SUBSET (1 .. k)
        BY <2>1, <3>1
      <4>2. QED  BY <1>2, <2>1, <4>1
    <3>2. CASE S \ {k + 1} = {}
      <4>1. S = {k + 1}
        BY <2>1, <3>2
      <4>2. QED  BY <4>1
    <3>3. CASE k + 1 \in S /\ S \ {k + 1} # {}
      <4>1. S \ {k + 1} \in SUBSET (1 .. k) /\ k <= size
        BY <1>2, <2>1
      <4>2. PICK t \in S \ {k + 1} : \A n \in S \ {k + 1, t} : Lower(priority, n, t)
        BY <1>2, <3>3, <4>1
      <4>3. /\ \A n \in S : n \in Int /\ priority[n] \in Int
            /\ t \in S /\ t < k + 1
        BY <1>2, <2>1, <4>1
      <4>4. CASE priority[k + 1] > priority[t]
        <5>1. \A n \in S \ {k + 1} : Lower(priority, n, k + 1)
          BY <3>3, <4>2, <4>3, <4>4 DEF Lower
        <5>2. QED  BY <3>3, <5>1
      <4>5. CASE ~(priority[k + 1] > priority[t])
        <5>1. Lower(priority, k + 1, t)
          BY <3>3, <4>3, <4>5 DEF Lower
        <5>2. \A n \in S \ {t} : Lower(priority, n, t)
          BY <4>2, <5>1
        <5>3. QED  BY <4>3, <5>2
      <4>6. QED  BY <4>4, <4>5
    <3>4. QED  BY <3>1, <3>2, <3>3
  <2>2. QED  BY <1>2, <2>1
<1>3. T = Nat
  <2> HIDE DEF T
  <2>1. T \in SUBSET Nat
    BY DEF T
  <2>2. QED  BY <1>1, <1>2, <2>1, Induction
<1>4. QED  BY <1>3

\* A handler is queued once.
LEMMA OneHandlerEach ==
  ASSUME IInv, NEW g \in handlers, NEW h \in handlers, g.id = h.id
  PROVE  g = h
<1>1. g.priority = h.priority /\ g.order = h.order
  BY DEF IInv, Queued, HandlersNumbered
<1>2. ASSUME NEW e \in handlers
      PROVE  e = [id |-> e.id, priority |-> e.priority, order |-> e.order]
  BY DEF IInv, TypeOK
<1>3. QED  BY <1>1, <1>2

\* std::priority_queue has one top, whatever the priorities.
LEMMA HighestIs ==
  ASSUME IInv, handlers # {}
  PROVE  /\ Highest \in handlers
         /\ \A g \in handlers \ {Highest} : Below(g, Highest)
<1>1. Moved \in Nat /\ Moved <= Len(posts) /\ Len(posts) \in Nat
  BY LenProperties DEF IInv, TypeOK, Moved
<1>2. \A n \in 1 .. Moved : posts[n] \in Int
  BY <1>1, ElementOfSeq DEF IInv, TypeOK
<1>3. InHandlers # {} /\ InHandlers \in SUBSET (1 .. Moved)
  BY DEF IInv, Queued, HandlersNumbered, InHandlers
<1>4. PICK t \in InHandlers : \A n \in InHandlers \ {t} : Lower(posts, n, t)
  BY <1>1, <1>2, <1>3, EachSetHasATop
<1>5. PICK h \in handlers : h.id = t
  BY DEF InHandlers
<1>6. ASSUME NEW g \in handlers, g # h
      PROVE  Below(g, h)
  <2>1. /\ g.priority = posts[g.id] /\ g.order = 0 - g.id /\ g.id \in 1 .. Moved
        /\ h.priority = posts[h.id] /\ h.order = 0 - h.id /\ h.id \in 1 .. Moved
    BY DEF IInv, Queued, HandlersNumbered
  <2>2. g.id # h.id
    BY <1>6, OneHandlerEach
  <2>3. Lower(posts, g.id, h.id)
    BY <1>4, <1>5, <2>2 DEF InHandlers
  <2>4. QED  BY <1>1, <2>1, <2>3 DEF Below, Lower
<1>7. \E x \in handlers : \A g \in handlers \ {x} : Below(g, x)
  BY <1>6
<1>8. QED  BY <1>7 DEF Highest

-----------------------------------------------------------------------------
(* The queue of the io_service                                             *)

IoHandlers == [kind : {"post", "quit", "hup"}, id : Nat]

LEMMA InPosts ==
  ASSUME NEW queue, NEW n
  PROVE  n \in PostsIn(queue) <=>
           \E i \in 1 .. Len(queue) : queue[i].kind = "post" /\ queue[i].id = n
BY DEF PostsIn

LEMMA HandlerPosted ==
  ASSUME NEW queue \in Seq(IoHandlers), NEW h \in IoHandlers
  PROVE  /\ Append(queue, h) \in Seq(IoHandlers)
         /\ \A n : n \in PostsIn(Append(queue, h)) <=>
                   n \in PostsIn(queue) \/ (h.kind = "post" /\ n = h.id)
         /\ Increasing(queue) /\ (h.kind = "post" => \A n \in PostsIn(queue) : n < h.id)
              => Increasing(Append(queue, h))
<1> DEFINE new == Append(queue, h)
<1>1. /\ new \in Seq(IoHandlers) /\ Len(queue) \in Nat /\ Len(new) = Len(queue) + 1
      /\ \A i \in 1 .. Len(queue) : new[i] = queue[i]
      /\ new[Len(queue) + 1] = h
  BY AppendProperties, LenProperties
<1> HIDE DEF new
<1>2. ASSUME NEW i \in 1 .. Len(new)
      PROVE  i \in 1 .. Len(queue) \/ i = Len(queue) + 1
  BY <1>1
<1>3. \A i \in 1 .. Len(queue) : i \in 1 .. Len(new) /\ i < Len(queue) + 1
  BY <1>1
<1>4. Len(queue) + 1 \in 1 .. Len(new)
  BY <1>1
<1>5. ASSUME NEW n
      PROVE  n \in PostsIn(new) <=>
               n \in PostsIn(queue) \/ (h.kind = "post" /\ n = h.id)
  <2>1. n \in PostsIn(new) => n \in PostsIn(queue) \/ (h.kind = "post" /\ n = h.id)
    BY <1>1, <1>2, InPosts
  <2>2. n \in PostsIn(queue) => n \in PostsIn(new)
    BY <1>1, <1>3, InPosts
  <2>3. h.kind = "post" /\ n = h.id => n \in PostsIn(new)
    BY <1>1, <1>4, InPosts
  <2>4. QED  BY <2>1, <2>2, <2>3
<1>6. ASSUME Increasing(queue), h.kind = "post" => \A n \in PostsIn(queue) : n < h.id,
             NEW i \in 1 .. Len(new), NEW j \in 1 .. Len(new), i < j,
             new[i].kind = "post", new[j].kind = "post"
      PROVE  new[i].id < new[j].id
  <2>1. i \in 1 .. Len(queue) /\ new[i] = queue[i]
    BY <1>1, <1>6
  <2>2. CASE j = Len(queue) + 1
    <3>1. new[j] = h /\ queue[i].id \in PostsIn(queue)
      BY <1>1, <1>6, <2>1, <2>2, InPosts
    <3>2. QED  BY <1>6, <2>1, <3>1
  <2>3. CASE j \in 1 .. Len(queue)
    BY <1>1, <1>6, <2>1, <2>3 DEF Increasing
  <2>4. QED  BY <1>2, <2>2, <2>3
<1>7. Increasing(queue) /\ (h.kind = "post" => \A n \in PostsIn(queue) : n < h.id)
        => Increasing(new)
  BY <1>6 DEF Increasing
<1>8. QED  BY <1>1, <1>5, <1>7 DEF new

\* The io_service takes its first handler.
LEMMA HandlerTaken ==
  ASSUME NEW queue \in Seq(IoHandlers), queue # <<>>, Increasing(queue)
  PROVE  /\ Head(queue) \in IoHandlers /\ Tail(queue) \in Seq(IoHandlers)
         /\ Increasing(Tail(queue))
         /\ Head(queue).kind = "post" =>
              /\ Head(queue).id \in PostsIn(queue)
              /\ \A n \in PostsIn(Tail(queue)) : Head(queue).id < n
         /\ \A n : n \in PostsIn(queue) <=>
                   \/ n \in PostsIn(Tail(queue))
                   \/ Head(queue).kind = "post" /\ n = Head(queue).id
<1> DEFINE h == Head(queue)
           rest == Tail(queue)
<1>1. /\ h \in IoHandlers /\ rest \in Seq(IoHandlers)
      /\ Len(queue) \in Nat /\ Len(queue) > 0 /\ Len(rest) = Len(queue) - 1
      /\ h = queue[1]
  BY HeadTailProperties, LenProperties, EmptySeq
<1>2. \A i \in 1 .. Len(rest) : rest[i] = queue[i + 1]
  BY HeadTailProperties
<1> HIDE DEF h, rest
<1>3. \A i \in 1 .. Len(rest) : i + 1 \in 1 .. Len(queue) /\ 1 < i + 1
  BY <1>1
<1>4. ASSUME NEW i \in 1 .. Len(queue), i # 1
      PROVE  i - 1 \in 1 .. Len(rest) /\ rest[i - 1] = queue[i]
  BY <1>1, <1>2, <1>4
<1>5. 1 \in 1 .. Len(queue)
  BY <1>1
<1>6. ASSUME NEW i \in 1 .. Len(rest), NEW j \in 1 .. Len(rest), i < j,
             rest[i].kind = "post", rest[j].kind = "post"
      PROVE  rest[i].id < rest[j].id
  <2>1. i + 1 < j + 1
    BY <1>6
  <2>2. QED  BY <1>2, <1>3, <1>6, <2>1 DEF Increasing
<1>7. Increasing(rest)
  BY <1>6 DEF Increasing
<1>8. h.kind = "post" => h.id \in PostsIn(queue)
  BY <1>1, <1>5, InPosts
<1>9. ASSUME h.kind = "post", NEW n \in PostsIn(rest)
      PROVE  h.id < n
  <2>1. PICK i \in 1 .. Len(rest) : rest[i].kind = "post" /\ rest[i].id = n
    BY InPosts
  <2>2. i + 1 \in 1 .. Len(queue) /\ 1 < i + 1 /\ queue[i + 1] = rest[i]
    BY <1>2, <1>3
  <2>3. queue[1].kind = "post" /\ queue[i + 1].kind = "post"
    BY <1>1, <1>9, <2>1, <2>2
  <2>4. queue[1].id < queue[i + 1].id
    BY <1>5, <2>2, <2>3 DEF Increasing
  <2>5. queue[1].id = h.id /\ queue[i + 1].id = n
    BY <1>1, <2>1, <2>2
  <2>6. QED  BY <2>4, <2>5
<1>10. ASSUME NEW n
       PROVE  n \in PostsIn(queue) <=>
                n \in PostsIn(rest) \/ (h.kind = "post" /\ n = h.id)
  <2>1. ASSUME n \in PostsIn(queue)
        PROVE  n \in PostsIn(rest) \/ (h.kind = "post" /\ n = h.id)
    <3>1. PICK i \in 1 .. Len(queue) : queue[i].kind = "post" /\ queue[i].id = n
      BY <2>1, InPosts
    <3>2. CASE i = 1
      BY <1>1, <3>1, <3>2
    <3>3. CASE i # 1
      <4>1. i - 1 \in 1 .. Len(rest) /\ rest[i - 1] = queue[i]
        BY <1>4, <3>3
      <4>2. QED  BY <3>1, <4>1, InPosts
    <3>4. QED  BY <3>2, <3>3
  <2>2. n \in PostsIn(rest) => n \in PostsIn(queue)
    BY <1>2, <1>3, InPosts
  <2>3. h.kind = "post" /\ n = h.id => n \in PostsIn(queue)
    BY <1>1, <1>5, InPosts
  <2>4. QED  BY <2>1, <2>2, <2>3
<1>11. QED  BY <1>1, <1>7, <1>8, <1>9, <1>10 DEF h, rest

-----------------------------------------------------------------------------
(* post, and the handlers of signals                                       *)

LEMMA Sizes ==
  ASSUME IInv
  PROVE  /\ Moved \in Nat /\ Len(posts) \in Nat /\ Moved <= Len(posts)
         /\ Moved = 0 - order
         /\ \A n \in 1 .. Moved : n \in 1 .. Len(posts) /\ posts[n] \in Int
         /\ \A h \in handlers : h.id \in 1 .. Moved
         /\ \A n \in Executed : n \in 1 .. Moved
<1>1. Len(posts) \in Nat /\ posts \in Seq(Int) /\ order \in -Len(posts) .. 0
  BY LenProperties DEF IInv, TypeOK
<1>2. Moved \in Nat /\ Moved <= Len(posts) /\ Moved = 0 - order
  BY <1>1 DEF Moved
<1>3. ASSUME NEW n \in 1 .. Moved
      PROVE  n \in 1 .. Len(posts) /\ posts[n] \in Int
  <2>1. n \in 1 .. Len(posts)
    BY <1>1, <1>2
  <2>2. QED  BY <1>1, <2>1, ElementOfSeq
<1>4. \A h \in handlers : h.id \in 1 .. Moved
  BY DEF IInv, Queued, HandlersNumbered
<1>5. \A n \in Executed : n \in 1 .. Moved
  BY DEF IInv, Queued, MovedOnce
<1>6. QED  BY <1>1, <1>2, <1>3, <1>4, <1>5

LEMMA SameQueued ==
  ASSUME IInv, UNCHANGED <<posts, handlers, order, executed>>
  PROVE  Queued'
<1>1. Moved' = Moved /\ InHandlers' = InHandlers /\ Executed' = Executed
  BY DEF Moved, InHandlers, Executed
<1>2. HandlersNumbered'
  BY <1>1 DEF IInv, Queued, HandlersNumbered
<1>3. MovedOnce'
  BY <1>1 DEF IInv, Queued, MovedOnce
<1>4. QueuedAreLater'
  BY <1>1 DEF IInv, Queued, QueuedAreLater
<1>5. FifoWithinPriority'
  BY DEF IInv, Queued, FifoWithinPriority
<1>6. QED  BY <1>2, <1>3, <1>4, <1>5 DEF Queued

\* A further post changes nothing of the handlers before it.
LEMMA PostsGrow ==
  ASSUME IInv, NEW p \in Int, posts' = Append(posts, p),
         UNCHANGED <<handlers, order, executed>>
  PROVE  /\ posts' \in Seq(Int) /\ Len(posts') = Len(posts) + 1
         /\ order' \in -Len(posts') .. 0 /\ Moved' = Moved
         /\ Queued'
<1>1. /\ Moved \in Nat /\ Len(posts) \in Nat /\ Moved <= Len(posts) /\ Moved = 0 - order
      /\ \A h \in handlers : h.id \in 1 .. Moved
      /\ \A n \in Executed : n \in 1 .. Moved
  BY Sizes
<1>2. posts \in Seq(Int) /\ order \in -Len(posts) .. 0
  BY DEF IInv, TypeOK
<1>3. /\ posts' \in Seq(Int) /\ Len(posts') = Len(posts) + 1
      /\ \A n \in 1 .. Len(posts) : posts'[n] = posts[n]
  BY <1>2, AppendProperties
<1>4. order' \in -Len(posts') .. 0
  BY <1>1, <1>2, <1>3
<1>5. Moved' = Moved /\ InHandlers' = InHandlers /\ Executed' = Executed
  BY DEF Moved, InHandlers, Executed
<1>6. \A n \in 1 .. Moved : posts'[n] = posts[n]
  BY <1>1, <1>3
<1>7. HandlersNumbered'
  BY <1>5, <1>6 DEF IInv, Queued, HandlersNumbered
<1>8. MovedOnce'
  BY <1>5 DEF IInv, Queued, MovedOnce
<1>9. QueuedAreLater'
  BY <1>1, <1>5, <1>6 DEF IInv, Queued, QueuedAreLater
<1>10. FifoWithinPriority'
  <2>1. \A i \in 1 .. Len(executed) : posts'[executed[i]] = posts[executed[i]]
    BY <1>1, <1>6 DEF Executed
  <2>2. ASSUME NEW i \in 1 .. Len(executed), NEW j \in 1 .. Len(executed), i < j,
               posts'[executed[i]] = posts'[executed[j]]
        PROVE  executed[i] < executed[j]
    <3>1. posts[executed[i]] = posts[executed[j]]
      BY <2>1, <2>2
    <3>2. QED  BY <2>2, <3>1 DEF IInv, Queued, FifoWithinPriority
  <2>3. executed' = executed
    OBVIOUS
  <2>4. QED  BY <2>2, <2>3 DEF FifoWithinPriority
<1>11. QED  BY <1>3, <1>4, <1>5, <1>7, <1>8, <1>9, <1>10 DEF Queued

\* The last handler of the io_service is the one posted last.
LEMMA PostedLast ==
  ASSUME IInv, NEW queue \in Seq(IoHandlers), Increasing(queue),
         PostsIn(queue) = InIo, NEW p \in Int, posts' = Append(posts, p),
         io' = Append(queue, Posted(Len(posts'))),
         UNCHANGED <<handlers, order, executed>>
  PROVE  io' \in Seq(IoHandlers) /\ IoInOrder'
<1>1. /\ Moved \in Nat /\ Len(posts) \in Nat /\ Moved <= Len(posts)
      /\ Len(posts') = Len(posts) + 1 /\ Moved' = Moved
  BY Sizes, PostsGrow
<1> DEFINE h == Posted(Len(posts) + 1)
<1>2. h \in IoHandlers /\ h.kind = "post" /\ h.id = Len(posts) + 1
  BY <1>1 DEF Posted, IoHandlers
<1>3. InIo = Moved + 1 .. Len(posts)
  BY DEF IInv, IoInOrder
<1>4. io' = Append(queue, h)
  BY <1>1
<1> HIDE DEF h
<1>5. \A n \in PostsIn(queue) : n < h.id
  BY <1>1, <1>2, <1>3
<1>6. /\ Append(queue, h) \in Seq(IoHandlers) /\ Increasing(Append(queue, h))
      /\ \A n : n \in PostsIn(Append(queue, h)) <=> n \in InIo \/ n = Len(posts) + 1
  BY <1>2, <1>5, HandlerPosted
<1>7. \A n : n \in Moved + 1 .. Len(posts) + 1
               <=> n \in Moved + 1 .. Len(posts) \/ n = Len(posts) + 1
  BY <1>1
<1>8. InIo' = PostsIn(Append(queue, h))
  BY <1>4, Zenon DEF InIo, PostsIn
<1>9. InIo' = Moved' + 1 .. Len(posts')
  BY <1>1, <1>3, <1>6, <1>7, <1>8
<1>10. Increasing(io)'
  BY <1>4, <1>6 DEF Increasing
<1>11. QED  BY <1>4, <1>6, <1>9, <1>10 DEF IoInOrder

LEMMA PostStep ==
  ASSUME IInv, NEW p \in Priorities, Post(p)
  PROVE  IInv'
<1>1. /\ p \in Int /\ posts' = Append(posts, p)
      /\ io' = Append(io, Posted(Len(posts')))
      /\ UNCHANGED <<pc, handlers, order, more, stopped, signals, executed, visible>>
  BY ExecLoopAssumption DEF Post
<1>2. io \in Seq(IoHandlers) /\ Increasing(io) /\ PostsIn(io) = InIo
  BY DEF IInv, TypeOK, IoHandlers, IoInOrder, InIo
<1>3. io' \in Seq(IoHandlers) /\ IoInOrder'
  BY <1>1, <1>2, PostedLast
<1>4. /\ posts' \in Seq(Int) /\ order' \in -Len(posts') .. 0
      /\ Moved' = Moved /\ Queued'
  BY <1>1, PostsGrow
<1>5. TypeOK'
  BY <1>1, <1>3, <1>4 DEF IInv, TypeOK, IoHandlers
<1>6. EndsEmpty'
  BY <1>1, <1>4 DEF IInv, EndsEmpty
<1>7. QED  BY <1>3, <1>4, <1>5, <1>6 DEF IInv

LEMMA SignalStep ==
  ASSUME IInv, NEW kind \in {"quit", "hup"}, Signal(kind)
  PROVE  IInv'
<1>1. /\ io' = Append(io, Plain(kind)) /\ signals < MaxSignals
      /\ signals' = signals + 1
      /\ UNCHANGED <<pc, posts, handlers, order, more, stopped, executed, visible>>
  BY DEF Signal
<1>2. io \in Seq(IoHandlers) /\ Increasing(io) /\ PostsIn(io) = InIo
  BY DEF IInv, TypeOK, IoHandlers, IoInOrder, InIo
<1>3. Plain(kind) \in IoHandlers /\ Plain(kind).kind # "post"
  BY DEF Plain, IoHandlers
<1>4. /\ Append(io, Plain(kind)) \in Seq(IoHandlers)
      /\ Increasing(Append(io, Plain(kind)))
      /\ \A n : n \in PostsIn(Append(io, Plain(kind))) <=> n \in InIo
  BY <1>2, <1>3, HandlerPosted
<1>5. InIo' = InIo
  BY <1>1, <1>4 DEF InIo
<1>6. IoInOrder'
  BY <1>1, <1>4, <1>5 DEF IInv, IoInOrder, Moved, Increasing
<1>7. signals' \in 0 .. MaxSignals
  BY <1>1, ExecLoopAssumption DEF IInv, TypeOK
<1>8. TypeOK'
  BY <1>1, <1>4, <1>7 DEF IInv, TypeOK, IoHandlers
<1>9. Queued' /\ EndsEmpty'
  BY <1>1, SameQueued DEF IInv, EndsEmpty, Moved
<1>10. QED  BY <1>6, <1>8, <1>9 DEF IInv

-----------------------------------------------------------------------------
(* The steps of the loop                                                   *)

\* add: the first handler of the io_service is the next one in the order of
\* the posts.
LEMMA AddStep ==
  ASSUME IInv, io # <<>>, Head(io).kind = "post", Add(Head(io).id), io' = Tail(io),
         UNCHANGED <<posts, executed>>
  PROVE  /\ IoInOrder' /\ Queued' /\ Moved' = Moved + 1 /\ order' \in -Len(posts) .. 0
         /\ handlers' \subseteq [id : Nat, priority : Int, order : Int]
<1> DEFINE n == Head(io).id
           new == [id |-> n, priority |-> posts[n], order |-> order - 1]
<1>1. /\ Moved \in Nat /\ Len(posts) \in Nat /\ Moved <= Len(posts) /\ Moved = 0 - order
      /\ \A k \in 1 .. Len(posts) : posts[k] \in Int
      /\ \A k \in 1 .. Moved : k \in 1 .. Len(posts)
      /\ \A h \in handlers : h.id \in 1 .. Moved
      /\ \A k \in Executed : k \in 1 .. Moved
  BY Sizes, ElementOfSeq DEF IInv, TypeOK
<1>2. io \in Seq(IoHandlers) /\ Increasing(io) /\ PostsIn(io) = Moved + 1 .. Len(posts)
  BY DEF IInv, TypeOK, IoHandlers, IoInOrder, InIo
<1>3. /\ Increasing(Tail(io)) /\ n \in PostsIn(io)
      /\ \A k \in PostsIn(Tail(io)) : n < k
      /\ \A k : k \in PostsIn(io) <=> k \in PostsIn(Tail(io)) \/ k = n
  BY <1>2, HandlerTaken
<1> HIDE DEF n
<1>4. n \in Moved + 1 .. Len(posts)
  BY <1>2, <1>3
<1>5. n = Moved + 1
  <2>1. Moved + 1 \in PostsIn(io)
    BY <1>1, <1>2, <1>4
  <2>2. Moved + 1 \in PostsIn(Tail(io)) => n < Moved + 1
    BY <1>3
  <2>3. QED  BY <1>1, <1>3, <1>4, <2>1, <2>2
<1>6. order' = order - 1 /\ handlers' = handlers \cup {new}
  BY DEF Add, n
<1>7. n \in 1 .. Len(posts) /\ n \in Nat /\ Moved + 1 <= Len(posts)
  BY <1>1, <1>4, <1>5
<1>8. Moved' = Moved + 1 /\ order' \in -Len(posts) .. 0
  <2>1. Moved' = 0 - order'
    BY DEF Moved
  <2>2. order \in Int
    BY DEF IInv, TypeOK
  <2>3. Moved' = Moved + 1
    BY <1>1, <1>6, <2>1, <2>2
  <2>4. QED  BY <1>1, <1>6, <1>7, <2>2, <2>3
<1>9. /\ new.id = n /\ new.priority = posts[n] /\ new.order = 0 - n
      /\ new \in [id : Nat, priority : Int, order : Int]
  <2>1. posts[n] \in Int
    BY <1>1, <1>7
  <2>2. order - 1 = 0 - n /\ 0 - n \in Int
    BY <1>1, <1>5, <1>7 DEF IInv, TypeOK
  <2>3. QED  BY <1>7, <2>1, <2>2
<1> HIDE DEF new
<1>10. IoInOrder'
  <2>1. InIo' = PostsIn(Tail(io))
    BY Zenon DEF InIo, PostsIn
  <2>2. \A k : k \in Moved + 1 .. Len(posts) <=> k \in Moved + 2 .. Len(posts) \/ k = n
    BY <1>1, <1>4, <1>5
  <2>3. n \notin PostsIn(Tail(io)) /\ n \notin Moved + 2 .. Len(posts)
    BY <1>1, <1>3, <1>4, <1>5
  <2>4. InIo' = Moved + 2 .. Len(posts)
    BY <1>2, <1>3, <2>1, <2>2, <2>3
  <2>5. Moved' + 1 = Moved + 2
    BY <1>1, <1>7, <1>8
  <2>6. QED  BY <1>3, <2>4, <2>5 DEF IoInOrder, Increasing
<1>11. HandlersNumbered'
  <2>1. ASSUME NEW h \in handlers'
        PROVE  h.id \in 1 .. Moved' /\ h.priority = posts[h.id] /\ h.order = 0 - h.id
    <3>1. CASE h = new
      BY <1>1, <1>5, <1>7, <1>8, <1>9, <3>1
    <3>2. CASE h \in handlers
      <4>1. h.id \in 1 .. Moved /\ h.priority = posts[h.id] /\ h.order = 0 - h.id
        BY <3>2 DEF IInv, Queued, HandlersNumbered
      <4>2. QED  BY <1>1, <1>7, <1>8, <4>1
    <3>3. QED  BY <1>6, <3>1, <3>2
  <2>2. QED  BY <2>1 DEF HandlersNumbered
<1>12. InHandlers' = InHandlers \cup {n} /\ Executed' = Executed
  BY <1>6, <1>9 DEF InHandlers, Executed
<1>13. MovedOnce'
  <2>1. n \notin Executed
    BY <1>1, <1>5
  <2>2. 1 .. Moved' = 1 .. Moved \cup {n}
    BY <1>1, <1>5, <1>7, <1>8
  <2>3. QED  BY <1>12, <2>1, <2>2 DEF IInv, Queued, MovedOnce
<1>14. QueuedAreLater'
  <2>1. \A k \in Executed : k < n
    BY <1>1, <1>5
  <2>2. QED  BY <1>6, <1>9, <1>12, <2>1 DEF IInv, Queued, QueuedAreLater
<1>15. FifoWithinPriority'
  BY DEF IInv, Queued, FifoWithinPriority
<1>16. handlers' \subseteq [id : Nat, priority : Int, order : Int]
  BY <1>6, <1>9 DEF IInv, TypeOK
<1>17. QED
  BY <1>8, <1>10, <1>11, <1>13, <1>14, <1>15, <1>16 DEF Queued

LEMMA RunIoStep ==
  ASSUME IInv, RunIo, pc' = "poll"
  PROVE  IInv'
<1> DEFINE h == Head(io)
<1>1. /\ io # <<>> /\ io \in Seq(IoHandlers) /\ Increasing(io) /\ PostsIn(io) = InIo
      /\ UNCHANGED <<more, signals, executed, visible>>
  BY DEF RunIo, Ready, IInv, TypeOK, IoHandlers, IoInOrder, InIo
<1>2. /\ Tail(io) \in Seq(IoHandlers) /\ Increasing(Tail(io))
      /\ \A n : n \in PostsIn(io) <=>
                n \in PostsIn(Tail(io)) \/ (h.kind = "post" /\ n = h.id)
  BY <1>1, HandlerTaken
<1>3. CASE h.kind = "post" /\ Add(h.id) /\ io' = Tail(io) /\ UNCHANGED <<posts, stopped>>
  <2>1. /\ IoInOrder' /\ Queued' /\ Moved' = Moved + 1 /\ order' \in -Len(posts) .. 0
        /\ handlers' \subseteq [id : Nat, priority : Int, order : Int]
    BY <1>1, <1>3, AddStep
  <2>2. TypeOK'
    BY <1>1, <1>2, <1>3, <2>1 DEF IInv, TypeOK, IoHandlers, Places
  <2>3. visible' <= Moved'
    BY <1>1, <2>1, Sizes DEF IInv, TypeOK, EndsEmpty
  <2>4. QED  BY <2>1, <2>2, <2>3 DEF IInv, EndsEmpty
<1>4. CASE h.kind = "quit" /\ stopped' = TRUE /\ io' = Tail(io)
           /\ UNCHANGED <<posts, handlers, order>>
  <2>1. \A n : n \in PostsIn(Tail(io)) <=> n \in InIo
    BY <1>1, <1>2, <1>4
  <2>2. InIo' = InIo /\ Moved' = Moved
    BY <1>4, <2>1 DEF InIo, Moved
  <2>3. IoInOrder'
    BY <1>2, <1>4, <2>2 DEF IInv, IoInOrder, Increasing
  <2>4. Queued'
    BY <1>1, <1>4, SameQueued
  <2>5. TypeOK'
    BY <1>1, <1>2, <1>4 DEF IInv, TypeOK, IoHandlers, Places
  <2>6. EndsEmpty'
    BY <1>1, <2>2 DEF IInv, EndsEmpty
  <2>7. QED  BY <2>3, <2>4, <2>5, <2>6 DEF IInv
<1>5. CASE h.kind = "hup" /\ posts' = Append(posts, Medium)
           /\ io' = Append(Tail(io), Posted(Len(posts')))
           /\ UNCHANGED <<handlers, order, stopped>>
  <2>1. \A n : n \in PostsIn(Tail(io)) <=> n \in InIo
    BY <1>1, <1>2, <1>5
  <2>2. PostsIn(Tail(io)) = InIo /\ Medium \in Int
    <3>1. PostsIn(Tail(io)) = InIo
      BY <2>1
    <3>2. QED  BY <3>1 DEF Medium
  <2>3. io' \in Seq(IoHandlers) /\ IoInOrder'
    BY <1>1, <1>2, <1>5, <2>2, PostedLast
  <2>4. /\ posts' \in Seq(Int) /\ order' \in -Len(posts') .. 0
        /\ Moved' = Moved /\ Queued'
    BY <1>1, <1>5, <2>2, PostsGrow
  <2>5. TypeOK'
    BY <1>1, <1>5, <2>3, <2>4 DEF IInv, TypeOK, IoHandlers, Places
  <2>6. EndsEmpty'
    BY <1>1, <2>4 DEF IInv, EndsEmpty
  <2>7. QED  BY <2>3, <2>4, <2>5, <2>6 DEF IInv
<1>6. QED  BY <1>3, <1>4, <1>5, Zenon DEF RunIo

\* The handler at the top has run and is popped.
LEMMA HandlerReturnsStep ==
  ASSUME IInv, HandlerReturns
  PROVE  IInv'
<1> DEFINE n == Highest.id
<1>1. /\ executed' = Append(executed, n) /\ handlers' = handlers \ {Highest}
      /\ pc' = "loop" /\ more' = (handlers' # {}) /\ handlers # {}
      /\ UNCHANGED <<posts, io, order, stopped, signals, visible>>
  BY DEF HandlerReturns, Popped, IInv, EndsEmpty
<1>2. /\ Highest \in handlers
      /\ \A g \in handlers \ {Highest} : Below(g, Highest)
  BY <1>1, HighestIs
<1>3. /\ n \in 1 .. Moved /\ Highest.priority = posts[n] /\ Highest.order = 0 - n
      /\ n \in InHandlers /\ Moved \in Nat
  BY <1>2, Sizes DEF IInv, Queued, HandlersNumbered, InHandlers
<1>4. n \notin Executed /\ n \in Nat
  BY <1>3 DEF IInv, Queued, MovedOnce
<1>5. \A g \in handlers' : g.id # n /\ g \in handlers
  BY <1>1, <1>2, OneHandlerEach
<1> HIDE DEF n
<1>6. /\ executed \in Seq(Nat) /\ executed' \in Seq(Nat)
      /\ Len(executed) \in Nat /\ Len(executed') = Len(executed) + 1
      /\ \A i \in 1 .. Len(executed) : executed'[i] = executed[i]
      /\ executed'[Len(executed) + 1] = n
  BY <1>1, <1>4, AppendProperties, LenProperties DEF IInv, TypeOK
<1>7. ASSUME NEW i \in 1 .. Len(executed')
      PROVE  \/ i \in 1 .. Len(executed) /\ executed'[i] = executed[i]
                  /\ executed[i] \in Executed
             \/ i = Len(executed) + 1 /\ executed'[i] = n
  BY <1>6 DEF Executed
<1>8. Executed' = Executed \cup {n}
  <2>1. \A k : k \in Executed' => k \in Executed \cup {n}
    BY <1>7 DEF Executed
  <2>2. \A i \in 1 .. Len(executed) : i \in 1 .. Len(executed')
    BY <1>6
  <2>3. \A k : k \in Executed => k \in Executed'
    BY <1>6, <2>2 DEF Executed
  <2>4. Len(executed) + 1 \in 1 .. Len(executed')
    BY <1>6
  <2>5. n \in Executed'
    BY <1>6, <2>4 DEF Executed
  <2>6. QED  BY <2>1, <2>3, <2>5
<1>9. InHandlers' = InHandlers \ {n}
  <2>1. \A k : k \in InHandlers' => k \in InHandlers /\ k # n
    BY <1>5 DEF InHandlers
  <2>2. \A k : k \in InHandlers /\ k # n => k \in InHandlers'
    BY <1>1 DEF InHandlers, n
  <2>3. QED  BY <2>1, <2>2
<1>10. Moved' = Moved
  BY <1>1 DEF Moved
<1>11. HandlersNumbered'
  BY <1>1, <1>5, <1>10 DEF IInv, Queued, HandlersNumbered
<1>12. MovedOnce'
  <2>1. ASSUME NEW i \in 1 .. Len(executed'), NEW j \in 1 .. Len(executed'), i # j
        PROVE  executed'[i] # executed'[j]
    <3>1. CASE i = Len(executed) + 1
      <4>1. executed'[i] = n /\ executed'[j] \in Executed
        BY <1>6, <1>7, <2>1, <3>1
      <4>2. QED  BY <1>4, <4>1
    <3>2. CASE j = Len(executed) + 1
      <4>1. executed'[j] = n /\ executed'[i] \in Executed
        BY <1>6, <1>7, <2>1, <3>2
      <4>2. QED  BY <1>4, <4>1
    <3>3. CASE i # Len(executed) + 1 /\ j # Len(executed) + 1
      <4>1. i \in 1 .. Len(executed) /\ j \in 1 .. Len(executed)
            /\ executed'[i] = executed[i] /\ executed'[j] = executed[j]
        BY <1>7, <3>3
      <4>2. QED  BY <2>1, <4>1 DEF IInv, Queued, MovedOnce
    <3>4. QED  BY <3>1, <3>2, <3>3
  <2>2. InHandlers' \cup Executed' = 1 .. Moved' /\ InHandlers' \cap Executed' = {}
    BY <1>3, <1>8, <1>9, <1>10 DEF IInv, Queued, MovedOnce
  <2>3. QED  BY <2>1, <2>2 DEF MovedOnce
<1>13. QueuedAreLater'
  <2>1. ASSUME NEW g \in handlers', ~(g.priority < posts[n])
        PROVE  n < g.id
    <3>1. g \in handlers /\ Below(g, Highest)
      BY <1>1, <1>2, <2>1
    <3>2. g.order = 0 - g.id /\ g.id \in 1 .. Moved /\ g.priority = posts[g.id]
      BY <3>1 DEF IInv, Queued, HandlersNumbered
    <3>3. posts[g.id] \in Int
      BY <3>2, Sizes
    <3>4. g.order < Highest.order
      BY <1>3, <2>1, <3>1, <3>2, <3>3 DEF Below
    <3>5. QED  BY <1>3, <3>2, <3>4
  <2>2. \A k \in Executed : \A g \in handlers' : k < g.id \/ g.priority < posts[k]
    BY <1>5 DEF IInv, Queued, QueuedAreLater
  <2>3. QED  BY <1>1, <1>8, <2>1, <2>2 DEF QueuedAreLater
<1>14. FifoWithinPriority'
  <2>1. ASSUME NEW i \in 1 .. Len(executed'), NEW j \in 1 .. Len(executed'), i < j,
               posts[executed'[i]] = posts[executed'[j]]
        PROVE  executed'[i] < executed'[j]
    <3>1. i \in 1 .. Len(executed) /\ executed'[i] = executed[i]
          /\ executed[i] \in Executed
      BY <1>6, <1>7, <2>1
    <3>2. CASE j = Len(executed) + 1
      <4>1. executed'[j] = n
        BY <1>6, <3>2
      <4>2. posts[executed[i]] = Highest.priority
        BY <1>3, <2>1, <3>1, <4>1
      <4>3. posts[n] \in Int
        BY <1>3, Sizes
      <4>4. executed[i] < n
        BY <1>2, <1>3, <3>1, <4>2, <4>3 DEF IInv, Queued, QueuedAreLater, n
      <4>5. QED  BY <3>1, <4>1, <4>4
    <3>3. CASE j # Len(executed) + 1
      <4>1. j \in 1 .. Len(executed) /\ executed'[j] = executed[j]
        BY <1>7, <3>3
      <4>2. QED  BY <2>1, <3>1, <4>1 DEF IInv, Queued, FifoWithinPriority
    <3>4. QED  BY <3>2, <3>3
  <2>2. QED  BY <1>1, <2>1 DEF FifoWithinPriority
<1>15. IoInOrder'
  BY <1>1, <1>10 DEF IInv, IoInOrder, InIo, Increasing, PostsIn
<1>16. TypeOK'
  BY <1>1, <1>6 DEF IInv, TypeOK, Places
<1>17. EndsEmpty'
  BY <1>1, <1>10 DEF IInv, EndsEmpty
<1>18. QED
  BY <1>11, <1>12, <1>13, <1>14, <1>15, <1>16, <1>17 DEF IInv, Queued

\* A poll that finds nothing ready has moved all that was posted.
LEMMA PollNothingStep ==
  ASSUME IInv, PollNothing
  PROVE  IInv'
<1>1. /\ pc' = "execute"
      /\ visible' = IF io = <<>> THEN Len(posts) ELSE visible
      /\ UNCHANGED <<posts, io, handlers, order, more, stopped, signals, executed>>
  BY DEF PollNothing
<1>2. Len(posts) \in Nat /\ Moved \in Nat /\ Moved <= Len(posts) /\ Moved' = Moved
  BY <1>1, Sizes DEF Moved
<1>3. io = <<>> => Moved = Len(posts)
  <2>1. io = <<>> => InIo = {}
    BY EmptySeq DEF InIo, PostsIn
  <2>2. InIo = Moved + 1 .. Len(posts)
    BY DEF IInv, IoInOrder
  <2>3. Moved + 1 .. Len(posts) = {} => ~(Moved + 1 <= Len(posts))
    BY <1>2
  <2>4. QED  BY <1>2, <2>1, <2>2, <2>3
<1>4. EndsEmpty'
  BY <1>1, <1>2, <1>3 DEF IInv, EndsEmpty
<1>5. TypeOK' /\ IoInOrder'
  BY <1>1, <1>2
  DEF IInv, TypeOK, Places, IoInOrder, InIo, Increasing, PostsIn
<1>6. Queued'
  BY <1>1, SameQueued
<1>7. QED  BY <1>4, <1>5, <1>6 DEF IInv

\* The steps that only say where the main thread is.
LEMMA PlaceStep ==
  ASSUME IInv, UNCHANGED <<posts, io, handlers, order, signals, executed, visible>>,
         pc' \in Places, more' \in BOOLEAN, stopped' \in BOOLEAN,
         /\ pc' = "handler" => handlers # {}
         /\ pc' = "loop" /\ ~more' => handlers = {}
         /\ pc' \in {"shutdown", "returned"} => handlers = {}
  PROVE  IInv'
<1>1. Moved' = Moved
  BY DEF Moved
<1>2. TypeOK' /\ IoInOrder' /\ EndsEmpty'
  BY <1>1
  DEF IInv, TypeOK, IoInOrder, InIo, Increasing, PostsIn, EndsEmpty
<1>3. Queued'
  BY SameQueued
<1>4. QED  BY <1>2, <1>3 DEF IInv

-----------------------------------------------------------------------------
(* The theorems                                                            *)

LEMMA InitIInv == Init => IInv
<1> SUFFICES ASSUME Init PROVE IInv
  OBVIOUS
<1> USE DEF Init
<1>1. Len(<<>>) = 0 /\ <<>> \in Seq(Int) /\ <<>> \in Seq(Nat) /\ <<>> \in Seq(IoHandlers)
  BY EmptySeq
<1>2. TypeOK
  <2>1. posts \in Seq(Int) /\ io \in Seq(IoHandlers) /\ executed \in Seq(Nat)
        /\ order \in -Len(posts) .. 0
    BY <1>1
  <2>2. signals \in 0 .. MaxSignals
    BY ExecLoopAssumption
  <2>3. QED  BY <2>1, <2>2 DEF TypeOK, Places, IoHandlers
<1>3. InIo = {} /\ InHandlers = {} /\ Executed = {} /\ Moved = 0
  <2>1. InIo = {} /\ Executed = {}
    BY <1>1 DEF InIo, PostsIn, Executed
  <2>2. InHandlers = {}
    BY DEF InHandlers
  <2>3. Moved = 0
    BY DEF Moved
  <2>4. QED  BY <2>1, <2>2, <2>3
<1>4. 1 .. Moved = {} /\ Moved + 1 .. Len(posts) = {}
  BY <1>1, <1>3
<1>5. IoInOrder
  BY <1>1, <1>3, <1>4 DEF IoInOrder, Increasing
<1>6. HandlersNumbered /\ MovedOnce /\ QueuedAreLater /\ FifoWithinPriority
  BY <1>1, <1>3, <1>4
  DEF HandlersNumbered, MovedOnce, QueuedAreLater, FifoWithinPriority
<1>7. EndsEmpty
  BY <1>3 DEF EndsEmpty
<1>8. QED  BY <1>2, <1>5, <1>6, <1>7 DEF IInv, Queued

LEMMA NextIInv ==
  ASSUME IInv, [Next]_vars
  PROVE  IInv'
<1>1. CASE EnterExec
  BY <1>1, PlaceStep DEF EnterExec, Places, IInv, TypeOK
<1>2. CASE PollOne
  <2>1. RunIo /\ pc' = "poll"
    BY <1>2, Zenon DEF PollOne
  <2>2. QED  BY <2>1, RunIoStep
<1>3. CASE PollNothing
  BY <1>3, PollNothingStep
<1>4. CASE ExecuteHighest
  BY <1>4, PlaceStep DEF ExecuteHighest, Places, IInv, TypeOK
<1>5. CASE HandlerReturns
  BY <1>5, HandlerReturnsStep
<1>6. CASE HandlerThrows
  BY <1>6, PlaceStep DEF HandlerThrows, Places, IInv, TypeOK
<1>7. CASE Loop
  <2>1. CASE RunIo /\ pc' = "poll"
    BY <2>1, RunIoStep
  <2>2. CASE ~(RunIo /\ pc' = "poll")
    <3>1. /\ UNCHANGED <<posts, io, handlers, order, more, stopped, signals, executed,
                         visible>>
          /\ pc = "loop" /\ (pc' = "poll" \/ (pc' = "shutdown" /\ ~more))
      BY <1>7, <2>2, Zenon DEF Loop, GoesOn
    <3>2. QED  BY <3>1, PlaceStep DEF Places, IInv, TypeOK, EndsEmpty
  <2>3. QED  BY <2>1, <2>2
<1>8. CASE ShutdownReturns
  BY <1>8, PlaceStep DEF ShutdownReturns, Places, IInv, TypeOK, EndsEmpty
<1>9. CASE Quit
  BY <1>9, PlaceStep DEF Quit, Places, IInv, TypeOK, EndsEmpty
<1>10. CASE UNCHANGED vars
  BY <1>10, PlaceStep DEF vars, IInv, TypeOK, EndsEmpty
<1>11. ASSUME NEW p \in Priorities, Post(p)
       PROVE  IInv'
  BY <1>11, PostStep
<1>12. ASSUME NEW kind \in {"quit", "hup"}, Signal(kind)
       PROVE  IInv'
  BY <1>12, SignalStep
<1>13. QED
  BY <1>1, <1>2, <1>3, <1>4, <1>5, <1>6, <1>7, <1>8, <1>9, <1>10, <1>11, <1>12
  DEF Next, MainStep

(* IInv holds in every reachable state of the loop.                        *)
THEOREM Invariance == Spec => []IInv
<1>1. IInv /\ [Next]_vars => IInv'
  BY NextIInv
<1>2. QED  BY InitIInv, <1>1, PTL DEF Spec

(* Each posted handler is in one place, and there once: neither the hand-  *)
(* over from the io_service to the priority queue nor pop() loses one or   *)
(* runs it twice.                                                          *)
THEOREM NoHandlerLost == Spec => []LoopInv
<1>1. ASSUME IInv
      PROVE  LoopInv
  <2>1. /\ Moved \in Nat /\ Len(posts) \in Nat /\ Moved <= Len(posts)
        /\ InIo = Moved + 1 .. Len(posts) /\ InHandlers \cup Executed = 1 .. Moved
        /\ InHandlers \cap Executed = {}
    BY <1>1, Sizes DEF IInv, IoInOrder, Queued, MovedOnce
  <2>2. /\ 1 .. Len(posts) = (1 .. Moved) \cup (Moved + 1 .. Len(posts))
        /\ (1 .. Moved) \cap (Moved + 1 .. Len(posts)) = {}
    BY <2>1
  <2>3. /\ InIo \cup InHandlers \cup Executed = Ids
        /\ InIo \cap InHandlers = {} /\ Executed \cap (InIo \cup InHandlers) = {}
    BY <2>1, <2>2 DEF Ids
  <2>4. ASSUME NEW i \in 1 .. Len(io), NEW j \in 1 .. Len(io), i # j,
               io[i].kind = "post", io[j].kind = "post"
        PROVE  io[i].id # io[j].id
    <3>1. io \in Seq(IoHandlers)
      BY <1>1 DEF IInv, TypeOK, IoHandlers
    <3>2. io[i] \in IoHandlers /\ io[j] \in IoHandlers
      BY <3>1, ElementOfSeq
    <3>3. io[i].id \in Nat /\ io[j].id \in Nat
      BY <3>2 DEF IoHandlers
    <3>4. i < j \/ j < i
      BY <2>4
    <3>5. QED  BY <1>1, <2>4, <3>3, <3>4 DEF IInv, IoInOrder, Increasing
  <2>5. /\ \A g, h \in handlers : g.id = h.id => g = h
        /\ \A i, j \in 1 .. Len(executed) : i # j => executed[i] # executed[j]
    BY <1>1, OneHandlerEach DEF IInv, Queued, MovedOnce
  <2>6. QED  BY <1>1, <2>3, <2>4, <2>5 DEF LoopInv, NothingLost, IInv
<1>2. QED  BY <1>1, Invariance, PTL

(* Handlers run by priority and, within one, in the order of the posts;    *)
(* one that waits has been overtaken by higher priorities only.            *)
THEOREM OrderOfExecution == Spec => []RunInOrder
<1>1. ASSUME IInv
      PROVE  RunInOrder
  <2>1. ASSUME pc = "handler", NEW n \in 1 .. visible,
               n \notin Executed \cup {Highest.id}
        PROVE  \/ posts[n] < Highest.priority
               \/ posts[n] = Highest.priority /\ n > Highest.id
    <3>1. handlers # {} /\ visible <= Moved /\ Moved \in Nat /\ visible \in Nat
      BY <1>1, <2>1, Sizes DEF IInv, EndsEmpty, TypeOK
    <3>2. n \in 1 .. Moved
      BY <3>1
    <3>3. PICK g \in handlers : g.id = n
      BY <1>1, <2>1, <3>2 DEF IInv, Queued, MovedOnce, InHandlers
    <3>4. Highest \in handlers /\ Below(g, Highest)
      BY <1>1, <2>1, <3>1, <3>3, HighestIs
    <3>5. /\ g.priority = posts[n] /\ g.order = 0 - n
          /\ Highest.order = 0 - Highest.id /\ Highest.id \in 1 .. Moved
      BY <1>1, <3>3, <3>4 DEF IInv, Queued, HandlersNumbered
    <3>6. QED  BY <3>2, <3>4, <3>5 DEF Below
  <2>2. HigherFirst
    BY <2>1 DEF HigherFirst
  <2>3. ASSUME NEW i \in 1 .. Len(executed), NEW n \in Ids \ Executed, n < executed[i]
        PROVE  posts[n] < posts[executed[i]]
    <3>1. executed[i] \in Executed /\ executed[i] \in 1 .. Moved /\ Moved \in Nat
      BY <1>1, Sizes DEF Executed
    <3>2. n \in 1 .. Moved
      BY <2>3, <3>1 DEF Ids
    <3>3. PICK h \in handlers : h.id = n
      BY <1>1, <2>3, <3>2 DEF IInv, Queued, MovedOnce, InHandlers
    <3>4. h.priority = posts[n]
      BY <1>1, <3>3 DEF IInv, Queued, HandlersNumbered
    <3>5. executed[i] < h.id \/ h.priority < posts[executed[i]]
      BY <1>1, <3>1 DEF IInv, Queued, QueuedAreLater
    <3>6. QED  BY <2>3, <3>1, <3>2, <3>3, <3>4, <3>5
  <2>4. OnlyHigherOvertake
    BY <2>3 DEF OnlyHigherOvertake
  <2>5. QED  BY <1>1, <2>2, <2>4 DEF RunInOrder, IInv, Queued
<1>2. QED  BY <1>1, Invariance, PTL

(* shutdown() finds the priority queue empty.                              *)
THEOREM DrainedFirst == Spec => []DrainedBeforeShutdown
<1>1. IInv => DrainedBeforeShutdown
  BY DEF IInv, EndsEmpty, DrainedBeforeShutdown
<1>2. QED  BY <1>1, Invariance, PTL

-----------------------------------------------------------------------------
(* After quit()                                                            *)

\* How far the loop is from its end once it takes no more handlers: four
\* steps for each handler that is queued, and those that end the loop.
Remaining ==
  4 * Cardinality(handlers)
    + CASE pc = "startup" -> 5 [] pc = "poll" -> 4 [] pc = "execute" -> 3
        [] pc = "handler" -> 2 [] pc = "loop" -> IF more THEN 5 ELSE 2
        [] pc = "shutdown" -> 1 [] OTHER -> 0

\* Once the application is to quit it stays so, nothing more gets into the
\* priority queue, whatever is posted, and each step of the main thread brings
\* the end of exec() nearer.
QuitIsHeeded ==
  [][stopped => /\ stopped' /\ handlers' \subseteq handlers /\ order' = order
                /\ Remaining' <= Remaining
                /\ MainStep => Remaining' < Remaining]_vars

\* No handler, whatever its priority, overtakes a signal that waits in the
\* io_service: the signal moves up, or the application is to quit.
SignalsKeepTheirPlace ==
  [][\A i \in 1 .. Len(io) : io[i].kind = "quit" =>
       \/ i \in 1 .. Len(io') /\ io'[i] = io[i]
       \/ i > 1 /\ i - 1 \in 1 .. Len(io') /\ io'[i - 1] = io[i]
       \/ stopped']_vars

\* The number of steps is one: the queue is finite.
LEMMA FewHandlers ==
  ASSUME IInv, IsFiniteSet(handlers), [Next]_vars
  PROVE  IsFiniteSet(handlers')
<1>1. CASE RunIo
  <2>1. CASE handlers' = handlers
    BY <2>1
  <2>2. CASE Add(Head(io).id)
    BY <2>2, FS_AddElement DEF Add
  <2>3. QED  BY <1>1, <2>1, <2>2 DEF RunIo
<1>2. CASE HandlerReturns
  BY <1>2, FS_RemoveElement DEF HandlerReturns, Popped
<1>3. CASE ~RunIo /\ ~HandlerReturns
  <2>1. UNCHANGED handlers
    BY <1>3
       DEF Next, MainStep, EnterExec, PollOne, PollNothing, ExecuteHighest,
           HandlerThrows, Loop, ShutdownReturns, Quit, Post, Signal, vars
  <2>2. QED  BY <2>1
<1>4. QED  BY <1>1, <1>2, <1>3

\* A step that leaves the queue alone and goes on.
LEMMA FewerPlaces ==
  ASSUME NEW k \in Nat, NEW p \in Nat, NEW q \in Nat, q < p
  PROVE  4 * k + q < 4 * k + p /\ 4 * k + q <= 4 * k + p
OBVIOUS

LEMMA FewerHandlers ==
  ASSUME NEW k \in Nat, k > 0, NEW q \in 0 .. 5
  PROVE  4 * (k - 1) + q < 4 * k + 2
OBVIOUS

\* Place stands for the second summand of Remaining.
Place ==
  CASE pc = "startup" -> 5 [] pc = "poll" -> 4 [] pc = "execute" -> 3
    [] pc = "handler" -> 2 [] pc = "loop" -> IF more THEN 5 ELSE 2
    [] pc = "shutdown" -> 1 [] OTHER -> 0

LEMMA PlaceIs ==
  /\ Remaining = 4 * Cardinality(handlers) + Place
  /\ Place \in 0 .. 5
  /\ pc = "startup" => Place = 5
  /\ pc = "poll" => Place = 4
  /\ pc = "execute" => Place = 3
  /\ pc = "handler" => Place = 2
  /\ pc = "loop" /\ more => Place = 5
  /\ pc = "loop" /\ ~more => Place = 2
  /\ pc = "shutdown" => Place = 1
  /\ pc \in {"returned", "threw"} => Place = 0
BY DEF Place, Remaining

\* The same in the next state.
LEMMA PlaceIsNext ==
  /\ Remaining' = 4 * Cardinality(handlers') + Place'
  /\ Place' \in 0 .. 5
  /\ pc' = "poll" => Place' = 4
  /\ pc' = "execute" => Place' = 3
  /\ pc' = "handler" => Place' = 2
  /\ pc' = "loop" /\ ~more' => Place' = 2
  /\ pc' = "shutdown" => Place' = 1
  /\ pc' \in {"returned", "threw"} => Place' = 0
BY DEF Place, Remaining

LEMMA QuitStep ==
  ASSUME IInv, IsFiniteSet(handlers), Next, stopped
  PROVE  /\ stopped' /\ handlers' \subseteq handlers /\ order' = order
         /\ Remaining' <= Remaining
         /\ MainStep => Remaining' < Remaining
<1> DEFINE k == Cardinality(handlers)
<1>1. k \in Nat /\ (k = 0 <=> handlers = {})
  BY FS_CardinalityType, FS_EmptySet
<1>2. Place \in Nat /\ Place' \in Nat /\ Remaining = 4 * k + Place
  BY PlaceIs, PlaceIsNext
<1> HIDE DEF k
<1>3. ~RunIo
  BY DEF RunIo, Ready
<1>4. ASSUME UNCHANGED <<handlers, order, stopped>>, Place' < Place
      PROVE  /\ stopped' /\ handlers' \subseteq handlers /\ order' = order
             /\ Remaining' <= Remaining /\ Remaining' < Remaining
  <2>1. Remaining' = 4 * k + Place'
    BY <1>4, PlaceIsNext DEF k
  <2>2. 4 * k + Place' < 4 * k + Place /\ 4 * k + Place' <= 4 * k + Place
    BY <1>1, <1>2, <1>4, FewerPlaces
  <2>3. QED  BY <1>2, <1>4, <2>1, <2>2
<1>5. CASE EnterExec
  BY <1>4, <1>5, PlaceIs, PlaceIsNext DEF EnterExec
<1>6. CASE PollNothing
  BY <1>4, <1>6, PlaceIs, PlaceIsNext DEF PollNothing
<1>7. CASE ExecuteHighest
  <2>1. /\ UNCHANGED <<handlers, order, stopped>> /\ pc = "execute"
        /\ pc' = "handler" \/ (pc' = "loop" /\ ~more')
    BY <1>7 DEF ExecuteHighest
  <2>2. Place = 3 /\ Place' = 2
    BY <2>1, PlaceIs, PlaceIsNext
  <2>3. QED  BY <1>4, <2>1, <2>2
<1>8. CASE HandlerReturns
  <2>1. /\ handlers' = handlers \ {Highest} /\ handlers # {} /\ pc = "handler"
        /\ UNCHANGED <<order, stopped>>
    BY <1>8 DEF HandlerReturns, Popped, IInv, EndsEmpty
  <2>2. Highest \in handlers
    BY <2>1, HighestIs
  <2>3. Cardinality(handlers') = k - 1
    BY <2>1, <2>2, FS_RemoveElement DEF k
  <2>4. Remaining' = 4 * (k - 1) + Place' /\ Place' \in 0 .. 5
    BY <2>3, PlaceIsNext
  <2>5. Remaining = 4 * k + 2
    BY <1>2, <2>1, PlaceIs
  <2>6. k > 0
    BY <1>1, <2>1
  <2>7. 4 * (k - 1) + Place' < 4 * k + 2
    BY <1>1, <2>4, <2>6, FewerHandlers
  <2>8. Remaining' < Remaining
    BY <2>4, <2>5, <2>7
  <2>9. Remaining' \in Int /\ Remaining \in Int
    BY <1>1, <2>4, <2>5
  <2>10. QED  BY <2>1, <2>8, <2>9
<1>9. CASE HandlerThrows
  BY <1>4, <1>9, PlaceIs, PlaceIsNext DEF HandlerThrows
<1>10. CASE Loop
  <2>1. /\ UNCHANGED <<handlers, order, stopped>> /\ pc = "loop"
        /\ (more /\ pc' = "poll") \/ (~more /\ pc' = "shutdown")
    BY <1>3, <1>10 DEF Loop, GoesOn
  <2>2. CASE more /\ pc' = "poll"
    BY <1>4, <2>1, <2>2, PlaceIs, PlaceIsNext
  <2>3. CASE ~more /\ pc' = "shutdown"
    BY <1>4, <2>1, <2>3, PlaceIs, PlaceIsNext
  <2>4. QED  BY <2>1, <2>2, <2>3
<1>11. CASE ShutdownReturns
  BY <1>4, <1>11, PlaceIs, PlaceIsNext DEF ShutdownReturns
<1>12. CASE ~MainStep
  <2>1. UNCHANGED <<pc, handlers, order, more, stopped>>
    BY <1>12 DEF Next, Quit, Post, Signal
  <2>2. Place' = Place /\ Cardinality(handlers') = k
    BY <2>1 DEF Place, k
  <2>3. Remaining' = 4 * k + Place
    BY <2>2, PlaceIsNext
  <2>4. Remaining' = Remaining /\ Remaining \in Int
    BY <1>1, <1>2, <2>3
  <2>5. QED  BY <1>12, <2>1, <2>4
<1>13. ~PollOne
  BY <1>3 DEF PollOne
<1>14. QED
  BY <1>5, <1>6, <1>7, <1>8, <1>9, <1>10, <1>11, <1>12, <1>13 DEF MainStep

(* quit() ends the application, and the handlers that are posted after it  *)
(* do not hold it up: the number of steps that remain is bounded by the    *)
(* queue that quit() found.                                                *)
THEOREM QuitEndsTheLoop == Spec => [](Remaining \in Nat) /\ QuitIsHeeded
<1> DEFINE Finite == IsFiniteSet(handlers)
<1>1. Init => Finite
  BY FS_EmptySet DEF Init
<1>2. IInv /\ Finite /\ [Next]_vars => Finite'
  BY FewHandlers
<1>3. IInv /\ Finite => Remaining \in Nat
  <2>1. SUFFICES ASSUME IsFiniteSet(handlers) PROVE Remaining \in Nat
    OBVIOUS
  <2>2. Cardinality(handlers) \in Nat /\ Place \in Nat
    BY <2>1, FS_CardinalityType, PlaceIs
  <2>3. 4 * Cardinality(handlers) + Place \in Nat
    BY <2>2
  <2>4. QED  BY <2>3, PlaceIs
<1>4. IInv /\ Finite /\ [Next]_vars =>
        [stopped => /\ stopped' /\ handlers' \subseteq handlers /\ order' = order
                    /\ Remaining' <= Remaining
                    /\ MainStep => Remaining' < Remaining]_vars
  <2>1. SUFFICES ASSUME IInv, Finite, Next, stopped
                 PROVE  /\ stopped' /\ handlers' \subseteq handlers /\ order' = order
                        /\ Remaining' <= Remaining
                        /\ MainStep => Remaining' < Remaining
    BY Zenon
  <2>2. QED  BY <2>1, QuitStep
<1> HIDE DEF Finite
<1>5. QED  BY <1>1, <1>2, <1>3, <1>4, Invariance, PTL DEF Spec, QuitIsHeeded

\* The io_service takes its handlers in order.
LEMMA OneTaken ==
  ASSUME NEW queue \in Seq(IoHandlers), queue # <<>>, NEW i \in 1 .. Len(queue), i > 1
  PROVE  i - 1 \in 1 .. Len(Tail(queue)) /\ Tail(queue)[i - 1] = queue[i]
<1>1. Len(queue) \in Nat /\ Len(Tail(queue)) = Len(queue) - 1
  BY LenProperties, HeadTailProperties
<1>2. i - 1 \in 1 .. Len(Tail(queue))
  BY <1>1
<1>3. Tail(queue)[i - 1] = queue[i - 1 + 1]
  BY <1>2, HeadTailProperties
<1>4. i - 1 + 1 = i
  OBVIOUS
<1>5. QED  BY <1>2, <1>3, <1>4

LEMMA BehindTheRest ==
  ASSUME NEW queue \in Seq(IoHandlers), NEW h, NEW i \in 1 .. Len(queue),
         h \in IoHandlers
  PROVE  i \in 1 .. Len(Append(queue, h)) /\ Append(queue, h)[i] = queue[i]
<1>1. Len(queue) \in Nat /\ Len(Append(queue, h)) = Len(queue) + 1
  BY LenProperties, AppendProperties
<1>2. i \in 1 .. Len(Append(queue, h))
  BY <1>1
<1>3. QED  BY <1>2, AppendProperties

\* What happens to one signal.
KeepsPlace(i) ==
  \/ i \in 1 .. Len(io') /\ io'[i] = io[i]
  \/ i > 1 /\ i - 1 \in 1 .. Len(io') /\ io'[i - 1] = io[i]
  \/ stopped'

LEMMA SignalsStep ==
  ASSUME IInv, Next, NEW i \in 1 .. Len(io), io[i].kind = "quit"
  PROVE  KeepsPlace(i)
<1>1. io \in Seq(IoHandlers) /\ Len(io) \in Nat /\ posts \in Seq(Int)
      /\ Len(posts) \in Nat
  BY LenProperties DEF IInv, TypeOK, IoHandlers
<1>2. CASE RunIo
  <2> DEFINE h == Head(io)
  <2>1. io # <<>> /\ h = io[1] /\ Tail(io) \in Seq(IoHandlers)
    BY <1>1, <1>2, HeadTailProperties DEF RunIo, Ready
  <2>2. CASE i > 1
    <3>1. i - 1 \in 1 .. Len(Tail(io)) /\ Tail(io)[i - 1] = io[i]
      BY <1>1, <2>1, <2>2, OneTaken
    <3>2. CASE io' = Tail(io)
      BY <2>2, <3>1, <3>2 DEF KeepsPlace
    <3>3. CASE /\ posts' = Append(posts, Medium)
               /\ io' = Append(Tail(io), Posted(Len(posts')))
      <4>1. Len(posts') = Len(posts) + 1
        BY <1>1, <3>3, AppendProperties DEF Medium
      <4>2. Posted(Len(posts')) \in IoHandlers
        BY <1>1, <4>1 DEF Posted, IoHandlers
      <4>3. /\ i - 1 \in 1 .. Len(io')
            /\ io'[i - 1] = Tail(io)[i - 1]
        BY <2>1, <3>1, <3>3, <4>2, BehindTheRest
      <4>4. QED  BY <2>2, <3>1, <4>3 DEF KeepsPlace
    <3>4. QED  BY <1>2, <3>2, <3>3, Zenon DEF RunIo
  <2>3. CASE i = 1
    <3>1. h.kind = "quit"
      BY <2>1, <2>3
    <3>2. stopped'
      BY <1>2, <3>1 DEF RunIo
    <3>3. QED  BY <3>2 DEF KeepsPlace
  <2>4. QED  BY <1>1, <2>2, <2>3
<1>3. ASSUME NEW h \in IoHandlers, io' = Append(io, h)
      PROVE  KeepsPlace(i)
  BY <1>1, <1>3, BehindTheRest DEF KeepsPlace
<1>4. ASSUME NEW p \in Priorities, Post(p)
      PROVE  KeepsPlace(i)
  <2>1. io' = Append(io, Posted(Len(posts'))) /\ posts' = Append(posts, p) /\ p \in Int
    BY <1>4, ExecLoopAssumption DEF Post
  <2>2. Len(posts') = Len(posts) + 1
    BY <1>1, <2>1, AppendProperties
  <2>3. Posted(Len(posts')) \in IoHandlers
    BY <1>1, <2>2 DEF Posted, IoHandlers
  <2>4. QED  BY <1>3, <2>1, <2>3
<1>5. ASSUME NEW kind \in {"quit", "hup"}, Signal(kind)
      PROVE  KeepsPlace(i)
  <2>1. io' = Append(io, Plain(kind)) /\ Plain(kind) \in IoHandlers
    BY <1>5 DEF Signal, Plain, IoHandlers
  <2>2. QED  BY <1>3, <2>1
<1>6. CASE UNCHANGED io
  BY <1>6 DEF KeepsPlace
<1>7. CASE Quit
  BY <1>6, <1>7 DEF Quit
<1>8. CASE MainStep /\ ~RunIo
  <2>1. UNCHANGED io
    BY <1>8
       DEF MainStep, EnterExec, PollOne, PollNothing, ExecuteHighest,
           HandlerReturns, HandlerThrows, Loop, ShutdownReturns
  <2>2. QED  BY <1>6, <2>1
<1>9. QED  BY <1>2, <1>4, <1>5, <1>7, <1>8 DEF Next

(* A pending signal is reached after the handlers that were in the         *)
(* io_service before it, and after no other, of whatever priority.         *)
THEOREM SignalsAreNotOvertaken == Spec => SignalsKeepTheirPlace
<1>1. IInv /\ [Next]_vars =>
        [\A i \in 1 .. Len(io) : io[i].kind = "quit" =>
           \/ i \in 1 .. Len(io') /\ io'[i] = io[i]
           \/ i > 1 /\ i - 1 \in 1 .. Len(io') /\ io'[i - 1] = io[i]
           \/ stopped']_vars
  BY SignalsStep, Zenon DEF KeepsPlace
<1>2. QED  BY <1>1, Invariance, PTL DEF Spec, SignalsKeepTheirPlace

-----------------------------------------------------------------------------
(* The signals of startup(): SignalHandover is about what comes before the *)
(* loop of the same application.  It has variables of its own.             *)

CONSTANT MaxPlugins

VARIABLES main, left, thread, threadStopped, registered, pipe, pending, ready,
          is_quiting, raised, late

Handover == INSTANCE SignalHandover WITH stopped <- threadStopped

\* A reader moves all of the pipe to both queues, so that in each queue and
\* the pipe together there are at most the signals that were raised.
HandoverBounded ==
  /\ pipe + pending <= raised
  /\ pipe + ready <= raised

\* The types hold in every step only with these bounds.
HandoverIInv == Handover!HandoverInv /\ HandoverBounded

LEMMA HandoverNumbers ==
  ASSUME Handover!SignalHandoverAssumption, HandoverIInv
  PROVE  /\ MaxPlugins \in Nat /\ MaxSignals \in Nat
         /\ left \in Nat /\ left <= MaxPlugins
         /\ pipe \in Nat /\ pending \in Nat /\ ready \in Nat /\ raised \in Nat
         /\ raised <= MaxSignals
         /\ pipe + pending <= raised /\ pipe + ready <= raised
<1>1. MaxPlugins \in Nat /\ MaxSignals \in Nat
  BY DEF Handover!SignalHandoverAssumption
<1>2. Handover!TypeOK /\ HandoverBounded
  BY DEF HandoverIInv, Handover!HandoverInv
<1> QED
  BY <1>1, <1>2 DEF Handover!TypeOK, HandoverBounded

LEMMA HandoverInit ==
  ASSUME Handover!SignalHandoverAssumption, Handover!Init
  PROVE  HandoverIInv
<1>1. 0 \in 0 .. MaxSignals
  BY DEF Handover!SignalHandoverAssumption
<1>2. Handover!TypeOK
  BY <1>1 DEF Handover!Init, Handover!TypeOK
<1> QED
  BY <1>2 DEF Handover!Init, HandoverIInv, Handover!HandoverInv,
              Handover!OneRunsAtATime, HandoverBounded

\* Where the two threads are, after a step.
LEMMA HandoverControl ==
  ASSUME HandoverIInv, Handover!Next
  PROVE  /\ main' \in {"plugins", "joining", "exec", "exited"}
         /\ thread' \in {"running", "ended"}
         /\ {threadStopped', registered', is_quiting', late'} \subseteq BOOLEAN
         /\ main' \in {"exec", "exited"} => thread' = "ended"
<1>1. /\ main \in {"plugins", "joining", "exec", "exited"}
      /\ thread \in {"running", "ended"}
      /\ {threadStopped, registered, is_quiting, late} \subseteq BOOLEAN
      /\ main \in {"exec", "exited"} => thread = "ended"
  BY DEF HandoverIInv, Handover!HandoverInv, Handover!TypeOK, Handover!OneRunsAtATime
<1>2. CASE Handover!Raise
  BY <1>1, <1>2 DEF Handover!Raise
<1>3. CASE Handover!StartPlugin
  BY <1>1, <1>3 DEF Handover!StartPlugin
<1>4. CASE Handover!StopThread
  BY <1>1, <1>4 DEF Handover!StopThread
<1>5. CASE Handover!Rearm
  BY <1>1, <1>5 DEF Handover!Rearm, Handover!Joined
<1>6. CASE Handover!MainReads \/ Handover!ThreadReads
  BY <1>1, <1>6 DEF Handover!MainReads, Handover!ThreadReads, Handover!ReadPipe
<1>7. CASE Handover!MainQuits
  BY <1>1, <1>7 DEF Handover!MainQuits
<1>8. CASE Handover!Exit
  BY <1>1, <1>8 DEF Handover!Exit
<1>9. CASE Handover!ThreadQuits
  BY <1>1, <1>9 DEF Handover!ThreadQuits
<1>10. CASE Handover!ThreadEnds
  BY <1>1, <1>10 DEF Handover!ThreadEnds
<1> QED
  BY <1>2, <1>3, <1>4, <1>5, <1>6, <1>7, <1>8, <1>9, <1>10
     DEF Handover!Next, Handover!MainStep, Handover!ThreadStep

\* How many signals are where, after a step.
LEMMA HandoverCounts ==
  ASSUME Handover!SignalHandoverAssumption, HandoverIInv, Handover!Next
  PROVE  /\ left' \in 0 .. MaxPlugins
         /\ {pipe', pending', ready', raised'} \subseteq 0 .. MaxSignals
         /\ pipe' + pending' <= raised' /\ pipe' + ready' <= raised'
<1>1. /\ MaxPlugins \in Nat /\ MaxSignals \in Nat
      /\ left \in Nat /\ left <= MaxPlugins
      /\ pipe \in Nat /\ pending \in Nat /\ ready \in Nat /\ raised \in Nat
      /\ raised <= MaxSignals
      /\ pipe + pending <= raised /\ pipe + ready <= raised
  BY HandoverNumbers
<1>2. CASE Handover!Raise
  BY <1>1, <1>2 DEF Handover!Raise
<1>3. CASE Handover!StartPlugin
  BY <1>1, <1>3 DEF Handover!StartPlugin, Handover!MorePlugins
<1>4. CASE Handover!StopThread
  BY <1>1, <1>4 DEF Handover!StopThread
<1>5. CASE Handover!Rearm
  BY <1>1, <1>5 DEF Handover!Rearm
<1>6. CASE Handover!ReadPipe /\ UNCHANGED raised
  BY <1>1, <1>6 DEF Handover!ReadPipe
<1>7. CASE Handover!MainQuits
  BY <1>1, <1>7 DEF Handover!MainQuits
<1>8. CASE Handover!Exit
  BY <1>1, <1>8 DEF Handover!Exit
<1>9. CASE Handover!ThreadQuits
  BY <1>1, <1>9 DEF Handover!ThreadQuits
<1>10. CASE Handover!ThreadEnds
  BY <1>1, <1>10 DEF Handover!ThreadEnds
<1>11. Handover!MainReads \/ Handover!ThreadReads => Handover!ReadPipe /\ UNCHANGED raised
  BY DEF Handover!MainReads, Handover!ThreadReads, Handover!ReadPipe
<1> QED
  BY <1>2, <1>3, <1>4, <1>5, <1>6, <1>7, <1>8, <1>9, <1>10, <1>11
     DEF Handover!Next, Handover!MainStep, Handover!ThreadStep

LEMMA HandoverStep ==
  ASSUME Handover!SignalHandoverAssumption, HandoverIInv,
         [Handover!Next]_(Handover!vars)
  PROVE  HandoverIInv'
<1>1. CASE Handover!Next
  BY <1>1, HandoverControl, HandoverCounts
     DEF HandoverIInv, Handover!HandoverInv, Handover!TypeOK,
         Handover!OneRunsAtATime, HandoverBounded
<1>2. CASE UNCHANGED Handover!vars
  BY <1>2 DEF Handover!vars, HandoverIInv, Handover!HandoverInv, Handover!TypeOK,
              Handover!OneRunsAtATime, HandoverBounded
<1> QED
  BY <1>1, <1>2

(* The startup thread has ended before the main one arms its signal_set    *)
(* and runs its io_service: at no time do two reactors handle one signal.  *)
THEOREM OneReactorAtATime ==
  Handover!SignalHandoverAssumption => (Handover!Spec => []Handover!HandoverInv)
<1>1. ASSUME Handover!SignalHandoverAssumption
      PROVE  Handover!Spec => []Handover!HandoverInv
  <2>1. Handover!Init => HandoverIInv
    BY <1>1, HandoverInit
  <2>2. HandoverIInv /\ [Handover!Next]_(Handover!vars) => HandoverIInv'
    BY <1>1, HandoverStep
  <2>3. HandoverIInv => Handover!HandoverInv
    BY DEF HandoverIInv
  <2> QED
    BY <2>1, <2>2, <2>3, PTL DEF Handover!Spec
<1> QED
  BY <1>1

\* A signal raised after the startup thread ended waits where the main loop
\* finds it: in the pipe until that loop reads it, in its queue until a handler
\* runs.  It is lost with neither, not even between join() and the signal_set
\* of exec().
LateSignalIsKept ==
  late /\ main # "exited" => (pipe > 0 \/ ready > 0 \/ is_quiting)

\* Who waits in join() has stopped the service of the thread it waits for.
StoppedBeforeJoined == main = "joining" => threadStopped

\* What the main thread reads reaches its queue, and nobody else reads.
HandoverKept ==
  /\ late => thread = "ended"
  /\ main \in {"exec", "exited"} => registered
  /\ LateSignalIsKept
  /\ StoppedBeforeJoined

LEMMA HandoverKeptStep ==
  ASSUME HandoverIInv, HandoverKept, [Handover!Next]_(Handover!vars),
         Handover!SignalHandoverAssumption
  PROVE  HandoverKept'
<1>1. /\ thread \in {"running", "ended"}
      /\ main \in {"plugins", "joining", "exec", "exited"}
      /\ {threadStopped, registered, is_quiting, late} \subseteq BOOLEAN
  BY DEF HandoverIInv, Handover!HandoverInv, Handover!TypeOK
<1>2. /\ pipe \in Nat /\ ready \in Nat /\ pending \in Nat
  BY HandoverNumbers
<1>3. CASE Handover!Raise
  BY <1>1, <1>2, <1>3
     DEF Handover!Raise, HandoverKept, LateSignalIsKept, StoppedBeforeJoined
<1>4. CASE Handover!StartPlugin
  BY <1>4
     DEF Handover!StartPlugin, HandoverKept, LateSignalIsKept, StoppedBeforeJoined
<1>5. CASE Handover!StopThread
  BY <1>5
     DEF Handover!StopThread, HandoverKept, LateSignalIsKept, StoppedBeforeJoined
<1>6. CASE Handover!Rearm
  BY <1>6 DEF Handover!Rearm, HandoverKept, LateSignalIsKept, StoppedBeforeJoined
<1>7. CASE Handover!MainReads
  BY <1>2, <1>7
     DEF Handover!MainReads, Handover!ReadPipe, HandoverKept, LateSignalIsKept,
         StoppedBeforeJoined
<1>8. CASE Handover!MainQuits
  BY <1>8 DEF Handover!MainQuits, HandoverKept, LateSignalIsKept, StoppedBeforeJoined
<1>9. CASE Handover!Exit
  BY <1>9 DEF Handover!Exit, HandoverKept, LateSignalIsKept, StoppedBeforeJoined
<1>10. CASE Handover!ThreadReads
  BY <1>10
     DEF Handover!ThreadReads, Handover!ReadPipe, HandoverKept, LateSignalIsKept,
         StoppedBeforeJoined
<1>11. CASE Handover!ThreadQuits
  BY <1>11 DEF Handover!ThreadQuits, HandoverKept, LateSignalIsKept, StoppedBeforeJoined
<1>12. CASE Handover!ThreadEnds
  BY <1>12 DEF Handover!ThreadEnds, HandoverKept, LateSignalIsKept, StoppedBeforeJoined
<1>13. CASE UNCHANGED Handover!vars
  BY <1>13 DEF Handover!vars, HandoverKept, LateSignalIsKept, StoppedBeforeJoined
<1> QED
  BY <1>3, <1>4, <1>5, <1>6, <1>7, <1>8, <1>9, <1>10, <1>11, <1>12, <1>13
     DEF Handover!Next, Handover!MainStep, Handover!ThreadStep

(* No signal that comes after the startup thread ended is lost, whatever   *)
(* the two threads and the process's pipe do in between, and join() waits  *)
(* only for a thread that was told to end.                                 *)
THEOREM LateSignalsAreKept ==
  Handover!SignalHandoverAssumption =>
    (Handover!Spec => [](LateSignalIsKept /\ StoppedBeforeJoined))
<1>1. ASSUME Handover!SignalHandoverAssumption
      PROVE  Handover!Spec => [](LateSignalIsKept /\ StoppedBeforeJoined)
  <2>1. Handover!Init => HandoverIInv /\ HandoverKept
    <3>1. Handover!Init => HandoverIInv
      BY <1>1, HandoverInit
    <3>2. Handover!Init => HandoverKept
      BY DEF Handover!Init, HandoverKept, LateSignalIsKept, StoppedBeforeJoined
    <3> QED
      BY <3>1, <3>2
  <2>2. HandoverIInv /\ HandoverKept /\ [Handover!Next]_(Handover!vars)
          => HandoverIInv' /\ HandoverKept'
    BY <1>1, HandoverStep, HandoverKeptStep
  <2>3. HandoverKept => LateSignalIsKept /\ StoppedBeforeJoined
    BY DEF HandoverKept
  <2> QED
    BY <2>1, <2>2, <2>3, PTL DEF Handover!Spec
<1> QED
  BY <1>1
=============================================================================
