---------------------------- MODULE GuestDb_proofs ----------------------------
(***************************************************************************)
(* Proofs about the database of a guest program, for every finite set of   *)
(* tasks, every set of keys and values and every number of reader slots.   *)
(* What the coroutines do is not examined again: a step here is a step of  *)
(* GuestTasks, with awaited tasks that suspend before they end, or leaves  *)
(* them alone, so that the invariant of GuestTasks_proofs holds here too.  *)
(***************************************************************************)
EXTENDS GuestDb, FiniteSetTheorems, TLAPS

\* The same tasks as Guest, with the lemmas proved about them.
GP == INSTANCE GuestTasks_proofs WITH MayFinishAtOnce <- FALSE

Modes == {"none", "read", "write", "committed", "aborted"}

DbTypeOK ==
  /\ store \in Content
  /\ writer \in Tasks \cup {NoTask}
  /\ opened \subseteq Tasks
  /\ listed \in Tasks \cup {NoTask}
  /\ stats \in Nat /\ lost \in Nat
  /\ trx \in [Tasks -> Modes]
  /\ view \in [Tasks -> Content]
  /\ cursor \in [Tasks -> Keys \cup {NoKey}]
  /\ doomed \subseteq calls
  /\ wrote \in [Tasks -> SUBSET Keys]

LockHeld == \A t \in Tasks : writer = t <=> trx[t] = "write"

\* A transaction is open only while its task has not come to its final
\* suspend: the local that ends it is destroyed before.
OpenUnfinished == \A t \in Tasks : IsOpen(t) => GP!Unfinished(t)

\* The tasks whose transaction, by f, is a reader.
Reading(f) == {t \in Tasks : f[t] = "read"}
SlotsTaken == Cardinality(Reading(trx)) + stats + lost
ReadersFit == SlotsTaken <= MaxReaders

IInv ==
  /\ GP!IInv
  /\ DbTypeOK /\ LockHeld /\ OpenUnfinished /\ ReadersFit /\ WriterIsCurrent

-----------------------------------------------------------------------------
(* The two instances of GuestTasks say the same.                           *)

LEMMA RunningSame ==
  ASSUME NEW t \in Tasks
  PROVE  Guest!Running(t) <=> GP!Running(t)
BY Zenon DEF Guest!Running, GP!Running, Guest!Entry, GP!Entry, Guest!Last, GP!Last

LEMMA InitSame == Guest!Init <=> GP!Init
BY Zenon DEF Guest!Init, GP!Init

LEMMA CallSame ==
  ASSUME NEW t \in Tasks
  PROVE  /\ Guest!CallHost(t) => GP!CallHost(t)
         /\ Guest!HostAnswers(t) => GP!HostAnswers(t)
         /\ Guest!HostFails(t) => GP!HostFails(t)
         /\ Guest!Start(t) => GP!Start(t)
BY ZenonT(60)
   DEF Guest!CallHost, GP!CallHost, Guest!HostAnswers, GP!HostAnswers,
       Guest!HostFails, GP!HostFails, Guest!OutstandingAfter, GP!OutstandingAfter,
       Guest!Start, GP!Start, Guest!Running, GP!Running, Guest!Entry, GP!Entry,
       Guest!Last, GP!Last, Guest!Front, GP!Front

LEMMA AwaitSame ==
  ASSUME NEW t \in Tasks
  PROVE  /\ Guest!Detach(t) => GP!Detach(t)
         /\ Guest!FinalReturns(t) => GP!FinalReturns(t)
         /\ \A p \in Tasks : Guest!Await(p, t) => GP!Await(p, t)
BY ZenonT(60)
   DEF Guest!Detach, GP!Detach, Guest!AttachedAfter, GP!AttachedAfter,
       Guest!FinalReturns, GP!FinalReturns, Guest!Await, GP!Await,
       Guest!Running, GP!Running, Guest!Entry, GP!Entry,
       Guest!Last, GP!Last, Guest!Front, GP!Front

LEMMA FinishSame ==
  ASSUME NEW t \in Tasks
  PROVE  Guest!Finish(t) => GP!Finish(t)
BY ZenonT(60)
   DEF Guest!Finish, GP!Finish, Guest!InAwaitSuspend, GP!InAwaitSuspend,
       Guest!ResumedBy, GP!ResumedBy, Guest!Running, GP!Running,
       Guest!Entry, GP!Entry, Guest!Last, GP!Last, Guest!Front, GP!Front

LEMMA CardinalitySame ==
  ASSUME NEW S
  PROVE  Guest!Cardinality(S) = GP!Cardinality(S)
BY Zenon DEF Guest!Cardinality, GP!Cardinality, Guest!IsFiniteSet, GP!IsFiniteSet

LEMMA ThrowSame ==
  ASSUME NEW t \in Tasks
  PROVE  Guest!HostThrows(t) => GP!HostThrows(t)
<1>1. Guest!Unwound = GP!Unwound
  BY DEF Guest!Unwound, GP!Unwound
<1> QED
  BY <1>1, RunningSame, CardinalitySame, Zenon DEF Guest!HostThrows, GP!HostThrows

-----------------------------------------------------------------------------
(* What the steps do to the coroutines                                     *)

(* A step that leaves the coroutines alone.                                *)
LEMMA GuestRests ==
  ASSUME GP!IInv, UNCHANGED guestVars
  PROVE  GP!IInv' /\ GP!NoneEnds
<1>1. GP!IInv'
  <2>1. UNCHANGED GP!vars
    BY DEF guestVars, GP!vars
  <2> QED
    BY <2>1, GP!NextIInv, GuestDbAssumption DEF GuestDbAssumption
<1>2. GP!NoneEnds
  BY DEF guestVars, GP!NoneEnds, GP!Unfinished, GP!Live, GP!On, GP!OnIn
<1> QED
  BY <1>1, <1>2

(* Calls of the host, their answers, and what else tasks do: nobody ends.  *)
LEMMA GuestGoesOn ==
  ASSUME GP!IInv, NEW t \in Tasks,
         \/ Guest!CallHost(t) \/ Guest!HostAnswers(t) \/ Guest!HostFails(t)
         \/ Guest!HostThrows(t) \/ Guest!Start(t) \/ Guest!Detach(t)
         \/ Guest!FinalReturns(t) \/ \E p \in Tasks : Guest!Await(p, t)
  PROVE  GP!IInv' /\ GP!NoneEnds
<1>1. CASE Guest!CallHost(t)
  BY <1>1, CallSame, GP!CallHostIInv, GuestDbAssumption DEF GuestDbAssumption
<1>2. CASE Guest!HostAnswers(t)
  BY <1>2, CallSame, GP!HostAnswersIInv, GuestDbAssumption DEF GuestDbAssumption
<1>3. CASE Guest!HostFails(t)
  BY <1>3, CallSame, GP!HostFailsIInv, GuestDbAssumption DEF GuestDbAssumption
<1>4. CASE Guest!HostThrows(t)
  BY <1>4, ThrowSame, GP!HostThrowsIInv, GuestDbAssumption DEF GuestDbAssumption
<1>5. CASE Guest!Start(t)
  BY <1>5, CallSame, GP!StartIInv, GuestDbAssumption DEF GuestDbAssumption
<1>6. CASE Guest!Detach(t)
  BY <1>6, AwaitSame, GP!DetachIInv, GuestDbAssumption DEF GuestDbAssumption
<1>7. CASE Guest!FinalReturns(t)
  BY <1>7, AwaitSame, GP!FinalReturnsIInv, GuestDbAssumption DEF GuestDbAssumption
<1>8. CASE \E p \in Tasks : Guest!Await(p, t)
  BY <1>8, AwaitSame, GP!AwaitIInv, GuestDbAssumption DEF GuestDbAssumption
<1> QED
  BY <1>1, <1>2, <1>3, <1>4, <1>5, <1>6, <1>7, <1>8

(* A task ends, and nobody else.                                           *)
LEMMA GuestFinishes ==
  ASSUME GP!IInv, NEW t \in Tasks, Guest!Finish(t)
  PROVE  /\ GP!IInv'
         /\ \A u \in Tasks \ {t} : GP!Unfinished(u) => GP!Unfinished(u)'
BY FinishSame, GP!FinishIInv, GuestDbAssumption DEF GuestDbAssumption

(* A task that runs has not ended.                                         *)
LEMMA RunningUnfinished ==
  ASSUME GP!IInv, NEW t \in Tasks, Guest!Running(t)
  PROVE  GP!Unfinished(t)
BY RunningSame, GP!RunningTask, GuestDbAssumption DEF GuestDbAssumption

(* A new process begins with a guest that has no tasks.                    *)
LEMMA GuestBegins == GP!Init' => GP!IInv'
<1>1. GP!Init => GP!IInv
  BY GP!InitIInv, GuestDbAssumption DEF GuestDbAssumption
<1> QED
  BY <1>1, PTL

-----------------------------------------------------------------------------
(* Reader slots                                                            *)

LEMMA ReadingCount ==
  ASSUME NEW f
  PROVE  IsFiniteSet(Reading(f)) /\ Cardinality(Reading(f)) \in Nat
<1>1. IsFiniteSet(Tasks) /\ Reading(f) \subseteq Tasks
  BY GuestDbAssumption DEF GuestDbAssumption, Reading
<1>2. IsFiniteSet(Reading(f))
  BY <1>1, FS_Subset
<1> QED
  BY <1>2, FS_CardinalityType

(* A task that does not come to read takes no further slot.                *)
LEMMA SlotKept ==
  ASSUME NEW f, NEW g, \A t \in Tasks : g[t] = "read" => f[t] = "read"
  PROVE  Cardinality(Reading(g)) <= Cardinality(Reading(f))
<1>1. Reading(g) \subseteq Reading(f)
  BY DEF Reading
<1> QED
  BY <1>1, ReadingCount, FS_Subset

(* One task that comes to read takes at most one more.                     *)
LEMMA SlotTaken ==
  ASSUME NEW f, NEW g, NEW t \in Tasks,
         \A u \in Tasks \ {t} : g[u] = f[u]
  PROVE  Cardinality(Reading(g)) <= Cardinality(Reading(f)) + 1
<1>1. Reading(g) \subseteq Reading(f) \cup {t}
  BY DEF Reading
<1>2. /\ IsFiniteSet(Reading(f) \cup {t})
      /\ \/ Cardinality(Reading(f) \cup {t}) = Cardinality(Reading(f))
         \/ Cardinality(Reading(f) \cup {t}) = Cardinality(Reading(f)) + 1
  BY ReadingCount, FS_AddElement
<1>3. Cardinality(Reading(g)) <= Cardinality(Reading(f) \cup {t})
  BY <1>1, <1>2, FS_Subset
<1>4. Cardinality(Reading(f)) \in Nat /\ Cardinality(Reading(g)) \in Nat
  BY ReadingCount
<1> QED
  BY <1>2, <1>3, <1>4

LEMMA ReadersAreSlots == Readers = SlotsTaken
BY DEF Readers, SlotsTaken, Reading

-----------------------------------------------------------------------------
(* How the parts of the invariant are kept                                 *)

(* A step that begins and ends no transaction, unless with the task that   *)
(* has none open, and takes no slot.                                       *)
LEMMA TransactionsKept ==
  ASSUME IInv, GP!IInv', DbTypeOK',
         UNCHANGED <<trx, writer, stats, lost>>,
         \A t \in Tasks : IsOpen(t) => (GP!Unfinished(t) => GP!Unfinished(t)'),
         WriterIsCurrent'
  PROVE  IInv'
<1>1. LockHeld' /\ ReadersFit'
  BY DEF IInv, LockHeld, ReadersFit, SlotsTaken
<1>2. OpenUnfinished'
  BY DEF IInv, OpenUnfinished, IsOpen
<1> QED
  BY <1>1, <1>2 DEF IInv

(* Nobody writes and nobody commits.                                       *)
LEMMA ContentKept ==
  ASSUME IInv, UNCHANGED <<store, writer, view, wrote>>
  PROVE  WriterIsCurrent'
BY DEF IInv, WriterIsCurrent

LEMMA OpenDbIInv ==
  ASSUME IInv, NEW t \in Tasks, OpenDb(t)
  PROVE  IInv'
<1>1. GP!IInv' /\ GP!NoneEnds
  BY GuestGoesOn DEF OpenDb, Ask, IInv
<1>2. DbTypeOK'
  BY DEF OpenDb, Ask, IInv, DbTypeOK, Guest!CallHost
<1>3. WriterIsCurrent'
  BY ContentKept DEF OpenDb
<1> QED
  BY <1>1, <1>2, <1>3, TransactionsKept DEF OpenDb, GP!NoneEnds

(* Keys are numbers: a set of keys that is not empty has a least one.      *)
LEMMA LeastKey ==
  ASSUME NEW S \in SUBSET Keys, S # {}
  PROVE  \E k \in S : \A j \in S : k <= j
<1>1. S \in SUBSET Nat
  BY GuestDbAssumption DEF GuestDbAssumption
<1> QED
  BY <1>1, GP!LeastElement, GuestDbAssumption DEF GuestDbAssumption

LEMMA FirstOfType ==
  ASSUME NEW content, NEW S \in SUBSET Present(content)
  PROVE  FirstOf(S) \in Keys \cup {NoKey}
<1>1. S \subseteq Keys
  BY DEF Present
<1>2. CASE S = {}
  BY <1>2 DEF FirstOf
<1>3. CASE S # {}
  <2>1. \E k \in S : \A j \in S : k <= j
    BY <1>1, <1>3, LeastKey
  <2>2. FirstOf(S) \in S
    BY <1>3, <2>1 DEF FirstOf
  <2> QED
    BY <1>1, <2>2
<1> QED
  BY <1>2, <1>3

LEMMA CursorIInv ==
  ASSUME IInv, NEW t \in Tasks, Everything(t) \/ CursorNext(t)
  PROVE  IInv'
<1>1. \E works \in BOOLEAN : Ask(t, works)
  BY DEF Everything, CursorNext
<1>2. GP!IInv' /\ GP!NoneEnds
  BY <1>1, GuestGoesOn DEF Ask, IInv
<1>3. UNCHANGED <<store, writer, opened, listed, stats, lost, trx, view, wrote>>
  BY DEF Everything, CursorNext
<1>4. cursor' \in [Tasks -> Keys \cup {NoKey}]
  <2>1. FirstKey(t) \in Keys \cup {NoKey}
    BY FirstOfType DEF FirstKey
  <2>2. KeyBehind(t) \in Keys \cup {NoKey}
    <3>1. {k \in Present(view[t]) : k > cursor[t]} \in SUBSET Present(view[t])
      OBVIOUS
    <3> QED
      BY <3>1, FirstOfType DEF KeyBehind
  <2>3. CASE Everything(t)
    BY <2>1, <2>3 DEF Everything, IInv, DbTypeOK
  <2>4. CASE CursorNext(t)
    BY <2>2, <2>4 DEF CursorNext, IInv, DbTypeOK
  <2> QED
    BY <2>3, <2>4
<1>5. doomed' \subseteq calls'
  BY <1>1 DEF Ask, IInv, DbTypeOK, Guest!CallHost
<1>6. DbTypeOK'
  BY <1>3, <1>4, <1>5 DEF IInv, DbTypeOK
<1>7. WriterIsCurrent'
  BY <1>3, ContentKept
<1> QED
  BY <1>2, <1>3, <1>6, <1>7, TransactionsKept DEF GP!NoneEnds

LEMMA SetKVIInv ==
  ASSUME IInv, NEW t \in Tasks, NEW k \in Keys, NEW v \in Values, SetKV(t, k, v)
  PROVE  IInv'
<1>1. \E works \in BOOLEAN : Ask(t, works)
  BY DEF SetKV
<1>2. GP!IInv' /\ GP!NoneEnds
  BY <1>1, GuestGoesOn DEF Ask, IInv
<1>3. UNCHANGED <<store, writer, opened, listed, stats, lost, trx, cursor>>
  BY DEF SetKV
<1>4. doomed' \subseteq calls'
  BY <1>1 DEF Ask, IInv, DbTypeOK, Guest!CallHost
<1>5. CASE UNCHANGED <<view, wrote>>
  <2>1. DbTypeOK'
    BY <1>3, <1>4, <1>5 DEF IInv, DbTypeOK
  <2>2. WriterIsCurrent'
    BY <1>3, <1>5, ContentKept
  <2> QED
    BY <1>2, <1>3, <2>1, <2>2, TransactionsKept DEF GP!NoneEnds
<1>6. CASE /\ trx[t] = "write"
           /\ view' = [view EXCEPT ![t][k] = v]
           /\ wrote' = [wrote EXCEPT ![t] = @ \cup {k}]
  <2>1. writer = t
    BY <1>6 DEF IInv, LockHeld
  <2>2. /\ view \in [Tasks -> Content] /\ wrote \in [Tasks -> SUBSET Keys]
    BY DEF IInv, DbTypeOK
  <2>3. [view[t] EXCEPT ![k] = v] \in Content
    BY <2>2 DEF Content
  <2>4. DbTypeOK'
    BY <1>3, <1>4, <1>6, <2>2, <2>3 DEF IInv, DbTypeOK
  <2>5. WriterIsCurrent'
    <3> SUFFICES ASSUME NEW j \in Keys \ wrote'[t]
                 PROVE  view'[t][j] = store[j]
      BY <1>3, <2>1 DEF WriterIsCurrent
    <3>1. j # k /\ j \in Keys \ wrote[t]
      BY <1>6, <2>2
    <3>2. view'[t][j] = view[t][j]
      BY <1>6, <2>2, <3>1 DEF Content
    <3>3. writer # NoTask
      BY <2>1, GuestDbAssumption DEF GuestDbAssumption
    <3> QED
      BY <2>1, <3>1, <3>2, <3>3 DEF IInv, WriterIsCurrent
  <2> QED
    BY <1>2, <1>3, <2>4, <2>5, TransactionsKept DEF GP!NoneEnds
<1> QED
  BY <1>5, <1>6 DEF SetKV

(* The guest goes on, the database stays as it is.                         *)
LEMMA TaskStepIInv ==
  ASSUME IInv, NEW t \in Tasks, TaskStep(t) \/ Start(t) \/ EndAgain(t)
  PROVE  IInv'
<1>1. UNCHANGED dbVars
  BY DEF TaskStep, Start, EndAgain
<1>2. GP!IInv' /\ GP!NoneEnds
  <2>1. CASE Guest!Detach(t) \/ Guest!FinalReturns(t)
    BY <2>1, GuestGoesOn DEF IInv
  <2>2. CASE \E p \in Tasks : Guest!Await(p, t)
    BY <2>2, GuestGoesOn DEF IInv
  <2>3. CASE Guest!Start(t) \/ Guest!HostThrows(t)
    BY <2>3, GuestGoesOn DEF IInv
  <2> QED
    BY <2>1, <2>2, <2>3 DEF TaskStep, Start, EndAgain
<1>3. calls' = calls
  BY DEF TaskStep, Start, EndAgain, Guest!Detach, Guest!FinalReturns, Guest!Await,
         Guest!Start, Guest!HostThrows
<1>4. DbTypeOK'
  BY <1>1, <1>3 DEF IInv, DbTypeOK, dbVars
<1>5. WriterIsCurrent'
  BY <1>1, ContentKept DEF dbVars
<1> QED
  BY <1>1, <1>2, <1>4, <1>5, TransactionsKept DEF GP!NoneEnds, dbVars

LEMMA SettledIInv ==
  ASSUME IInv, NEW t \in Tasks, HostSettles(t)
  PROVE  IInv'
<1>1. GP!IInv' /\ GP!NoneEnds
  BY GuestGoesOn DEF HostSettles, HostAnswers, HostFails, IInv
<1>2. UNCHANGED <<store, writer, opened, listed, stats, lost, trx, view, cursor,
                  wrote>>
  BY DEF HostSettles, HostAnswers, HostFails, dbVars
<1>3. doomed' \subseteq calls'
  BY DEF HostSettles, HostAnswers, HostFails, CallsBack, dbVars, IInv, DbTypeOK,
     Guest!HostAnswers, Guest!HostFails, Guest!OutstandingAfter
<1>4. DbTypeOK'
  BY <1>2, <1>3 DEF IInv, DbTypeOK
<1>5. WriterIsCurrent'
  BY <1>2, ContentKept
<1> QED
  BY <1>1, <1>2, <1>4, <1>5, TransactionsKept DEF GP!NoneEnds

(* A transaction that begins, or that is refused.                          *)
LEMMA CreateTransactionIInv ==
  ASSUME IInv, NEW t \in Tasks, NEW mode \in {"read", "write"},
         CreateTransaction(t, mode)
  PROVE  IInv'
<1>1. /\ Guest!Running(t) /\ trx[t] = "none"
      /\ UNCHANGED <<store, opened, listed, stats, lost, cursor, doomed, wrote>>
  BY DEF CreateTransaction
<1>2. CASE Guest!HostThrows(t) /\ UNCHANGED <<trx, view, writer>>
  <2>1. GP!IInv' /\ GP!NoneEnds
    BY <1>2, GuestGoesOn DEF IInv
  <2>2. DbTypeOK'
    BY <1>1, <1>2 DEF IInv, DbTypeOK, Guest!HostThrows
  <2>3. WriterIsCurrent'
    BY <1>1, <1>2, ContentKept
  <2> QED
    BY <1>1, <1>2, <2>1, <2>2, <2>3, TransactionsKept DEF GP!NoneEnds
<1>3. CASE /\ IF mode = "write" THEN WriterFree ELSE Readers < MaxReaders
           /\ trx' = [trx EXCEPT ![t] = mode]
           /\ view' = [view EXCEPT ![t] = store]
           /\ writer' = IF mode = "write" THEN t ELSE writer
           /\ UNCHANGED guestVars
  <2>1. GP!IInv' /\ GP!NoneEnds
    BY <1>3, GuestRests DEF IInv
  <2>2. DbTypeOK'
    BY <1>1, <1>3 DEF IInv, DbTypeOK, guestVars, Modes
  <2>3. trx \in [Tasks -> Modes]
    BY DEF IInv, DbTypeOK
  <2>4. LockHeld'
    BY <1>1, <1>3, <2>3, GuestDbAssumption
       DEF IInv, LockHeld, WriterFree, GuestDbAssumption
  <2>5. OpenUnfinished'
    <3>1. GP!Unfinished(t)
      BY <1>1, RunningUnfinished DEF IInv
    <3> QED
      BY <1>3, <2>1, <2>3, <3>1 DEF IInv, OpenUnfinished, IsOpen, GP!NoneEnds
  <2>6. ReadersFit'
    <3>1. /\ Cardinality(Reading(trx)) \in Nat /\ Cardinality(Reading(trx')) \in Nat
          /\ stats \in Nat /\ lost \in Nat
      BY ReadingCount DEF IInv, DbTypeOK
    <3>2. MaxReaders \in Nat
      BY GuestDbAssumption DEF GuestDbAssumption
    <3>3. CASE mode = "write"
      <4>1. Cardinality(Reading(trx')) <= Cardinality(Reading(trx))
        BY <1>3, <2>3, <3>3, SlotKept
      <4> QED
        BY <1>1, <3>1, <3>2, <4>1 DEF IInv, ReadersFit, SlotsTaken
    <3>4. CASE mode = "read"
      <4>1. Cardinality(Reading(trx')) <= Cardinality(Reading(trx)) + 1
        BY <1>3, <2>3, SlotTaken
      <4>2. Cardinality(Reading(trx)) + stats + lost < MaxReaders
        BY <1>3, <3>4, ReadersAreSlots DEF SlotsTaken
      <4> QED
        BY <1>1, <3>1, <3>2, <4>1, <4>2 DEF ReadersFit, SlotsTaken
    <3> QED
      BY <3>3, <3>4
  <2>7. WriterIsCurrent'
    <3>1. view \in [Tasks -> Content]
      BY DEF IInv, DbTypeOK
    <3>2. CASE mode = "write"
      BY <1>1, <1>3, <3>1, <3>2 DEF WriterIsCurrent
    <3>3. CASE mode = "read"
      <4>1. writer' = writer /\ writer # t
        BY <1>1, <1>3, <3>3 DEF IInv, LockHeld
      <4> QED
        BY <1>1, <1>3, <3>1, <4>1 DEF IInv, WriterIsCurrent, DbTypeOK
    <3> QED
      BY <3>2, <3>3
  <2> QED
    BY <2>1, <2>2, <2>4, <2>5, <2>6, <2>7 DEF IInv
<1> QED
  BY <1>2, <1>3 DEF CreateTransaction

(* A transaction that ends, by whatever way: the lock and the slot go back *)
(* with it.  A commit of a writer is the one step that changes the content, *)
(* and then no other writer is open.                                       *)
LEMMA EndsIInv ==
  ASSUME IInv, NEW t \in Tasks, IsOpen(t),
         NEW how \in {"committed", "aborted"}, Ends(t, how),
         store' = store \/ (trx[t] = "write" /\ store' = view[t]),
         UNCHANGED <<listed, stats, lost, doomed, calls>>,
         opened' \subseteq opened,
         GP!IInv',
         \A u \in Tasks \ {t} : GP!Unfinished(u) => GP!Unfinished(u)'
  PROVE  IInv'
<1>1. /\ trx \in [Tasks -> Modes] /\ view \in [Tasks -> Content]
      /\ wrote \in [Tasks -> SUBSET Keys] /\ store \in Content
      /\ cursor \in [Tasks -> Keys \cup {NoKey}]
      /\ stats \in Nat /\ lost \in Nat
  BY DEF IInv, DbTypeOK
<1>2. /\ trx' = [trx EXCEPT ![t] = how]
      /\ view' = [view EXCEPT ![t] = Empty]
      /\ wrote' = [wrote EXCEPT ![t] = {}]
      /\ writer' = IF trx[t] = "write" THEN NoTask ELSE writer
      /\ cursor' = [cursor EXCEPT ![t] = NoKey]
  BY DEF Ends
<1>3. DbTypeOK'
  <2>1. Empty \in Content
    BY DEF Empty, Content
  <2>2. store' \in Content /\ view' \in [Tasks -> Content]
    BY <1>1, <1>2, <2>1
  <2>3. how \in Modes
    BY DEF Modes
  <2>4. trx' \in [Tasks -> Modes]
    BY <1>1, <1>2, <2>3
  <2>5. /\ wrote' \in [Tasks -> SUBSET Keys]
        /\ cursor' \in [Tasks -> Keys \cup {NoKey}]
    BY <1>1, <1>2
  <2>6. writer' \in Tasks \cup {NoTask}
    BY <1>2 DEF IInv, DbTypeOK
  <2> QED
    BY <2>2, <2>4, <2>5, <2>6 DEF IInv, DbTypeOK
<1>4. LockHeld'
  BY <1>1, <1>2, GuestDbAssumption DEF IInv, LockHeld, GuestDbAssumption
<1>5. OpenUnfinished'
  BY <1>1, <1>2 DEF IInv, OpenUnfinished, IsOpen
<1>6. ReadersFit'
  <2>1. Cardinality(Reading(trx')) <= Cardinality(Reading(trx))
    BY <1>1, <1>2, SlotKept
  <2>2. Cardinality(Reading(trx)) \in Nat /\ Cardinality(Reading(trx')) \in Nat
    BY ReadingCount
  <2>3. MaxReaders \in Nat
    BY GuestDbAssumption DEF GuestDbAssumption
  <2> QED
    BY <1>1, <2>1, <2>2, <2>3 DEF IInv, ReadersFit, SlotsTaken
<1>7. WriterIsCurrent'
  <2>1. CASE trx[t] = "write"
    BY <1>2, <2>1 DEF WriterIsCurrent
  <2>2. CASE trx[t] # "write"
    <3>1. store' = store /\ writer' = writer /\ writer # t
      BY <1>2, <2>2 DEF IInv, LockHeld
    <3>2. writer # NoTask => writer \in Tasks
      BY DEF IInv, DbTypeOK
    <3> QED
      BY <1>1, <1>2, <3>1, <3>2 DEF IInv, WriterIsCurrent
  <2> QED
    BY <2>1, <2>2
<1> QED
  BY <1>3, <1>4, <1>5, <1>6, <1>7 DEF IInv

LEMMA CommitIInv ==
  ASSUME IInv, NEW t \in Tasks, Commit(t) \/ Abort(t)
  PROVE  IInv'
<1>1. IsOpen(t) /\ UNCHANGED <<opened, listed, stats, lost, doomed>>
  BY DEF Commit, Abort
<1>2. calls' = calls
  BY DEF Commit, Abort, guestVars, Guest!HostThrows
<1>3. GP!IInv' /\ GP!NoneEnds
  <2>1. CASE UNCHANGED guestVars
    BY <2>1, GuestRests DEF IInv
  <2>2. CASE Guest!HostThrows(t)
    BY <2>2, GuestGoesOn DEF IInv
  <2> QED
    BY <2>1, <2>2 DEF Commit, Abort
<1>4. \A u \in Tasks \ {t} : GP!Unfinished(u) => GP!Unfinished(u)'
  BY <1>3 DEF GP!NoneEnds
<1>5. \/ Ends(t, "committed") \/ Ends(t, "aborted")
  BY DEF Commit, Abort
<1>6. store' = store \/ (trx[t] = "write" /\ store' = view[t])
  BY DEF Commit, Abort, Committed
<1> QED
  BY <1>1, <1>2, <1>3, <1>4, <1>5, <1>6, EndsIInv

LEMMA FinishIInv ==
  ASSUME IInv, NEW t \in Tasks, Finish(t)
  PROVE  IInv'
<1>1. /\ opened' = opened \ {t}
      /\ UNCHANGED <<store, listed, stats, lost, doomed>>
  BY DEF Finish
<1>2. calls' = calls
  BY DEF Finish, Guest!Finish, Guest!HostThrows
<1>3. CASE IsOpen(t) /\ Guest!Finish(t) /\ AbortedBy(t)
  <2>1. /\ GP!IInv'
        /\ \A u \in Tasks \ {t} : GP!Unfinished(u) => GP!Unfinished(u)'
    BY <1>3, GuestFinishes DEF IInv
  <2>2. opened' \subseteq opened
    BY <1>1
  <2> QED
    BY <1>1, <1>2, <1>3, <2>1, <2>2, EndsIInv DEF AbortedBy
<1>4. CASE UNCHANGED <<trx, writer, view, cursor, wrote>>
  <2>1. DbTypeOK'
    BY <1>1, <1>2, <1>4 DEF IInv, DbTypeOK
  <2>2. WriterIsCurrent'
    BY <1>1, <1>4, ContentKept
  <2>3. CASE trx[t] \in {"none", "committed"} /\ Guest!Finish(t)
    <3>1. /\ GP!IInv'
          /\ \A u \in Tasks \ {t} : GP!Unfinished(u) => GP!Unfinished(u)'
      BY <2>3, GuestFinishes DEF IInv
    <3>2. ~IsOpen(t)
      BY <2>3 DEF IsOpen
    <3> QED
      BY <1>1, <1>4, <2>1, <2>2, <3>1, <3>2, TransactionsKept
  <2>4. CASE Guest!HostThrows(t)
    <3>1. GP!IInv' /\ GP!NoneEnds
      BY <2>4, GuestGoesOn DEF IInv
    <3> QED
      BY <1>1, <1>4, <2>1, <2>2, <3>1, TransactionsKept DEF GP!NoneEnds
  <2>5. CASE IsOpen(t) /\ Guest!Finish(t) /\ AbortedBy(t)
    BY <1>3, <2>5
  <2> QED
    BY <2>3, <2>4, <2>5 DEF Finish
<1> QED
  BY <1>3, <1>4 DEF Finish

(* The two steps that take and leave slots without a transaction.          *)
LEMMA StatsIInv ==
  ASSUME IInv, (\E t \in Tasks : CloseDb(t)) \/ PrintStats
  PROVE  IInv'
<1>1. UNCHANGED <<guestVars, store, writer, trx, view, cursor, doomed, wrote>>
  BY DEF CloseDb, PrintStats
<1>2. GP!IInv' /\ GP!NoneEnds
  BY <1>1, GuestRests DEF IInv
<1>3. /\ Cardinality(Reading(trx)) \in Nat /\ stats \in Nat /\ lost \in Nat
      /\ MaxReaders \in Nat
  BY ReadingCount, GuestDbAssumption DEF IInv, DbTypeOK, GuestDbAssumption
<1>4. opened' \subseteq Tasks /\ listed' \in Tasks \cup {NoTask}
  BY DEF CloseDb, PrintStats, IInv, DbTypeOK
<1>5. /\ stats' \in Nat /\ lost' \in Nat
      /\ Cardinality(Reading(trx)) + stats' + lost' <= MaxReaders
  <2>1. Cardinality(Reading(trx)) + stats + lost <= MaxReaders
    BY DEF IInv, ReadersFit, SlotsTaken
  <2>2. CASE PrintStats
    BY <1>3, <2>1, <2>2 DEF PrintStats
  <2>3. ASSUME NEW t \in Tasks, CloseDb(t)
        PROVE  /\ stats' \in Nat /\ lost' \in Nat
               /\ Cardinality(Reading(trx)) + stats' + lost' <= MaxReaders
    <3>1. Readers = Cardinality(Reading(trx)) + stats + lost
      BY ReadersAreSlots DEF SlotsTaken
    <3>2. CASE UNCHANGED <<lost, stats>>
      BY <1>3, <2>1, <3>2
    <3>3. CASE /\ Readers < MaxReaders
               /\ lost' = lost + 1
               /\ stats' = IF Readers + 1 < MaxReaders THEN stats + 1 ELSE stats
      BY <1>3, <3>1, <3>3
    <3> QED
      BY <2>3, <3>2, <3>3 DEF CloseDb
  <2> QED
    BY <2>2, <2>3
<1>6. ReadersFit'
  BY <1>1, <1>5 DEF ReadersFit, SlotsTaken
<1>7. DbTypeOK'
  BY <1>1, <1>4, <1>5 DEF IInv, DbTypeOK, guestVars
<1>8. LockHeld' /\ OpenUnfinished' /\ WriterIsCurrent'
  <2>1. LockHeld'
    BY <1>1 DEF IInv, LockHeld
  <2>2. OpenUnfinished'
    BY <1>1, <1>2 DEF IInv, OpenUnfinished, IsOpen, GP!NoneEnds
  <2>3. WriterIsCurrent'
    BY <1>1, ContentKept
  <2> QED
    BY <2>1, <2>2, <2>3
<1> QED
  BY <1>2, <1>6, <1>7, <1>8 DEF IInv

\* A database that nobody has open.
Unopened ==
  /\ GP!IInv /\ store \in Content
  /\ writer = NoTask /\ opened = {} /\ listed = NoTask
  /\ stats = 0 /\ lost = 0
  /\ trx = [t \in Tasks |-> "none"]
  /\ view = [t \in Tasks |-> Empty]
  /\ cursor = [t \in Tasks |-> NoKey]
  /\ doomed = {}
  /\ wrote = [t \in Tasks |-> {}]

LEMMA UnopenedIInv == Unopened => IInv
<1> SUFFICES ASSUME Unopened PROVE IInv
  OBVIOUS
<1>1. DbTypeOK
  <2>1. Empty \in Content
    BY DEF Empty, Content
  <2>2. view \in [Tasks -> Content]
    BY <2>1 DEF Unopened
  <2> QED
    BY <2>2 DEF Unopened, DbTypeOK, Modes
<1>2. LockHeld
  BY GuestDbAssumption DEF Unopened, LockHeld, GuestDbAssumption
<1>3. OpenUnfinished
  BY DEF Unopened, OpenUnfinished, IsOpen
<1>4. ReadersFit
  <2>1. Reading(trx) = {}
    BY DEF Unopened, Reading
  <2>2. Cardinality(Reading(trx)) = 0
    BY <2>1, FS_EmptySet
  <2> QED
    BY <2>2, GuestDbAssumption DEF Unopened, ReadersFit, SlotsTaken, GuestDbAssumption
<1>5. WriterIsCurrent
  BY DEF Unopened, WriterIsCurrent
<1> QED
  BY <1>1, <1>2, <1>3, <1>4, <1>5 DEF Unopened, IInv

LEMMA InitIInv == Init => IInv
<1> SUFFICES ASSUME Init PROVE IInv
  OBVIOUS
<1>1. GP!IInv
  BY InitSame, GP!InitIInv, GuestDbAssumption DEF Init, GuestDbAssumption
<1>2. store \in Content
  BY DEF Init, Empty, Content
<1> QED
  BY <1>1, <1>2, UnopenedIInv DEF Init, Unopened

LEMMA UnopenedNext == Unopened' => IInv'
BY UnopenedIInv, PTL

LEMMA RestartIInv ==
  ASSUME IInv, Restart
  PROVE  IInv'
<1>1. GP!Init'
  BY DEF Restart, GP!Init
<1>2. GP!IInv'
  BY <1>1, GuestBegins
<1>3. store' \in Content
  BY DEF Restart, IInv, DbTypeOK
<1> QED
  BY <1>2, <1>3, UnopenedNext DEF Restart, Unopened

LEMMA NextIInv ==
  ASSUME IInv, [Next]_vars
  PROVE  IInv'
<1>1. CASE UNCHANGED vars
  <2>1. UNCHANGED <<guestVars, store, writer, opened, listed, stats, lost, trx,
                    view, cursor, doomed, wrote>>
    BY <1>1 DEF vars, dbVars
  <2>2. GP!IInv' /\ GP!NoneEnds
    BY <2>1, GuestRests DEF IInv
  <2>3. DbTypeOK'
    BY <2>1 DEF IInv, DbTypeOK, guestVars
  <2>4. WriterIsCurrent'
    BY <2>1, ContentKept
  <2> QED
    BY <2>1, <2>2, <2>3, <2>4, TransactionsKept DEF GP!NoneEnds
<1>2. ASSUME NEW t \in Tasks, DbStep(t)
      PROVE  IInv'
  BY <1>2, OpenDbIInv, CursorIInv, SetKVIInv, CreateTransactionIInv, CommitIInv,
     StatsIInv, TaskStepIInv DEF DbStep
<1>3. ASSUME NEW t \in Tasks, Finish(t) \/ TaskStep(t)
      PROVE  IInv'
  BY <1>3, FinishIInv, TaskStepIInv
<1>4. ASSUME NEW t \in Tasks, Start(t) \/ HostSettles(t)
      PROVE  IInv'
  BY <1>4, TaskStepIInv, SettledIInv
<1>5. CASE PrintStats \/ Restart
  BY <1>5, StatsIInv, RestartIInv
<1> QED
  BY <1>1, <1>2, <1>3, <1>4, <1>5 DEF Next, GuestStep

(* The inductive invariant holds for ever.                                 *)
THEOREM Invariance == Spec => []IInv
<1>1. IInv /\ [Next]_vars => IInv'
  BY NextIInv
<1> QED
  BY <1>1, InitIInv, PTL DEF Spec

LEMMA DbInvFollows == IInv => DbInv
<1> SUFFICES ASSUME IInv PROVE DbInv
  OBVIOUS
<1>1. Guest!TypeOK
  <2>1. GP!TypeOK
    BY DEF IInv, GP!IInv
  <2> QED
    BY <2>1, Zenon DEF Guest!TypeOK, GP!TypeOK, Guest!Places, GP!Places
<1>2. /\ Cardinality(Reading(trx)) \in Nat /\ stats \in Nat /\ lost \in Nat
      /\ MaxReaders \in Nat
      /\ Cardinality(Reading(trx)) + stats + lost <= MaxReaders
  BY ReadingCount, GuestDbAssumption
     DEF IInv, DbTypeOK, GuestDbAssumption, ReadersFit, SlotsTaken
<1>3. stats \in 0 .. MaxReaders /\ lost \in 0 .. MaxReaders
  BY <1>2
<1>4. TypeOK
  BY <1>1, <1>3 DEF TypeOK, IInv, DbTypeOK, Modes
<1>5. Readers <= MaxReaders
  BY <1>2, ReadersAreSlots DEF SlotsTaken
<1>6. NothingOutlivesItsTask
  <2>1. ASSUME NEW t \in Tasks, destroyed[t] > 0 \/ t \in leaked
        PROVE  ~IsOpen(t)
    <3>1. destroyed[t] \in Nat
      BY <1>1 DEF Guest!TypeOK
    <3>2. ~GP!Unfinished(t)
      BY <2>1, <3>1 DEF GP!Unfinished, GP!Live
    <3> QED
      BY <3>2 DEF IInv, OpenUnfinished
  <2> QED
    BY <1>5, <2>1 DEF NothingOutlivesItsTask, IInv, LockHeld
<1> QED
  BY <1>4, <1>6 DEF DbInv, IInv

(* The write lock is held by the one task whose write transaction is open, *)
(* no task that has ended has a transaction open, the readers fit into     *)
(* their slots, and what a writer began with is what is still there, for   *)
(* every set of tasks: no commit replaces what another one has written.    *)
THEOREM NoLockIsLeaked == Spec => []DbInv
BY Invariance, DbInvFollows, PTL

-----------------------------------------------------------------------------
(* The database is the store of KvStore                                    *)

\* The mode of the transaction of a task, as KvStore has it.
ModeIn(f) == [t \in Tasks |-> IF f[t] \in {"committed", "aborted"}
                              THEN "ended" ELSE f[t]]

LEMMA ModeOfOne ==
  ASSUME NEW f \in [Tasks -> Modes], NEW t \in Tasks
  PROVE  ModeIn(f)[t] = IF f[t] \in {"committed", "aborted"} THEN "ended" ELSE f[t]
BY DEF ModeIn

LEMMA ModeChange ==
  ASSUME NEW f \in [Tasks -> Modes], NEW t \in Tasks, NEW m \in Modes
  PROVE  ModeIn([f EXCEPT ![t] = m]) =
           [ModeIn(f) EXCEPT ![t] = IF m \in {"committed", "aborted"}
                                    THEN "ended" ELSE m]
BY DEF ModeIn

\* What the abstract specification calls its variables does not change.
Unseen == UNCHANGED <<store, trx, view, wrote>>

LEMMA UnseenStutters == Unseen => UNCHANGED Abstract!vars
BY DEF Unseen, Abstract!vars

LEMMA InitRefines == Init => Abstract!Init
BY DEF Init, Abstract!Init, Empty, Abstract!Empty

LEMMA BeginRefines ==
  ASSUME IInv, NEW t \in Tasks, NEW m \in {"read", "write"},
         trx[t] = "none", trx' = [trx EXCEPT ![t] = m],
         view' = [view EXCEPT ![t] = store], UNCHANGED <<store, wrote>>
  PROVE  Abstract!Begin(t, m)
<1>1. trx \in [Tasks -> Modes] /\ m \in Modes
  BY DEF IInv, DbTypeOK, Modes
<1>2. ModeIn(trx)[t] = "none"
  BY <1>1, ModeOfOne
<1>3. ModeIn(trx') = [ModeIn(trx) EXCEPT ![t] = m]
  BY <1>1, ModeChange
<1> QED
  BY <1>2, <1>3, Zenon DEF Abstract!Begin, ModeIn

LEMMA WriteRefines ==
  ASSUME IInv, NEW t \in Tasks, NEW k \in Keys, NEW v \in Values,
         trx[t] = "write", view' = [view EXCEPT ![t][k] = v],
         wrote' = [wrote EXCEPT ![t] = @ \cup {k}], UNCHANGED <<store, trx>>
  PROVE  Abstract!Write(t, k, v)
<1>1. ModeIn(trx)[t] = "write"
  BY ModeOfOne DEF IInv, DbTypeOK
<1>2. ModeIn(trx') = ModeIn(trx)
  OBVIOUS
<1> QED
  BY <1>1, <1>2, Zenon DEF Abstract!Write, ModeIn

(* A writer that commits puts its pages in place of the content, and they  *)
(* are the content but for what it has written: the abstract commit, which *)
(* changes nothing else.  Every other end gives up.                        *)
LEMMA EndsRefines ==
  ASSUME IInv, NEW t \in Tasks, IsOpen(t),
         NEW how \in {"committed", "aborted"}, Ends(t, how),
         store' = store \/ (trx[t] = "write" /\ store' = view[t])
  PROVE  Abstract!Commit(t) \/ Abstract!GiveUp(t)
<1>1. /\ trx \in [Tasks -> Modes] /\ view \in [Tasks -> Content]
      /\ store \in Content /\ how \in Modes
  BY DEF IInv, DbTypeOK, Modes
<1>2. ModeIn(trx') = [ModeIn(trx) EXCEPT ![t] = "ended"]
  BY <1>1, ModeChange DEF Ends
<1>3. Abstract!Ends(t)
  BY <1>2, Zenon DEF Ends, Abstract!Ends, Empty, Abstract!Empty, ModeIn
<1>4. CASE store' = store
  <2>1. ModeIn(trx)[t] \in {"read", "write"}
    BY <1>1, ModeOfOne DEF IsOpen
  <2> QED
    BY <1>3, <1>4, <2>1, Zenon DEF Abstract!GiveUp, ModeIn
<1>5. CASE trx[t] = "write" /\ store' = view[t]
  <2>1. ModeIn(trx)[t] = "write"
    BY <1>1, <1>5, ModeOfOne
  <2>2. \A k \in Keys \ wrote[t] : view[t][k] = store[k]
    <3>1. writer = t /\ writer # NoTask
      BY <1>5, GuestDbAssumption DEF IInv, LockHeld, GuestDbAssumption
    <3> QED
      BY <3>1 DEF IInv, WriterIsCurrent
  <2>3. store' = [k \in Keys |-> IF k \in wrote[t] THEN view[t][k] ELSE store[k]]
    BY <1>1, <1>5, <2>2 DEF Content
  <2> QED
    BY <1>3, <2>1, <2>3, Zenon DEF Abstract!Commit, ModeIn
<1> QED
  BY <1>4, <1>5

LEMMA RestartRefines == Restart => Abstract!Restart
BY DEF Restart, Abstract!Restart, Empty, Abstract!Empty

(* Every step of the database is a step of the store or is not seen there. *)
LEMMA NextRefines ==
  ASSUME IInv, [Next]_vars
  PROVE  [Abstract!Next]_Abstract!vars
<1>1. CASE UNCHANGED vars
  BY <1>1, UnseenStutters DEF Unseen, vars, dbVars
<1>2. ASSUME NEW t \in Tasks, OpenDb(t) \/ Everything(t) \/ CursorNext(t)
      PROVE  Unseen
  BY <1>2 DEF OpenDb, Everything, CursorNext, Unseen
<1>3. ASSUME NEW t \in Tasks, NEW k \in Keys, NEW v \in Values, SetKV(t, k, v)
      PROVE  Abstract!Write(t, k, v) \/ Unseen
  <2>1. UNCHANGED <<store, trx>>
    BY <1>3 DEF SetKV
  <2>2. CASE UNCHANGED <<view, wrote>>
    BY <2>1, <2>2 DEF Unseen
  <2>3. CASE /\ trx[t] = "write"
             /\ view' = [view EXCEPT ![t][k] = v]
             /\ wrote' = [wrote EXCEPT ![t] = @ \cup {k}]
    BY <2>1, <2>3, WriteRefines
  <2> QED
    BY <1>3, <2>2, <2>3 DEF SetKV
<1>4. ASSUME NEW t \in Tasks, NEW m \in {"read", "write"}, CreateTransaction(t, m)
      PROVE  Abstract!Begin(t, m) \/ Unseen
  <2>1. trx[t] = "none" /\ UNCHANGED <<store, wrote>>
    BY <1>4 DEF CreateTransaction
  <2>2. CASE UNCHANGED <<trx, view, writer>>
    BY <2>1, <2>2 DEF Unseen
  <2>3. CASE trx' = [trx EXCEPT ![t] = m] /\ view' = [view EXCEPT ![t] = store]
    BY <2>1, <2>3, BeginRefines
  <2> QED
    BY <1>4, <2>2, <2>3 DEF CreateTransaction
<1>5. ASSUME NEW t \in Tasks, Commit(t) \/ Abort(t)
      PROVE  Abstract!Commit(t) \/ Abstract!GiveUp(t)
  <2>1. IsOpen(t) /\ (Ends(t, "committed") \/ Ends(t, "aborted"))
    BY <1>5 DEF Commit, Abort
  <2>2. store' = store \/ (trx[t] = "write" /\ store' = view[t])
    BY <1>5 DEF Commit, Abort, Committed
  <2> QED
    BY <2>1, <2>2, EndsRefines
<1>6. ASSUME NEW t \in Tasks, Finish(t)
      PROVE  Abstract!Commit(t) \/ Abstract!GiveUp(t) \/ Unseen
  <2>1. store' = store
    BY <1>6 DEF Finish
  <2>2. CASE UNCHANGED <<trx, writer, view, cursor, wrote>>
    BY <2>1, <2>2 DEF Unseen
  <2>3. CASE IsOpen(t) /\ AbortedBy(t)
    BY <2>1, <2>3, EndsRefines DEF AbortedBy
  <2> QED
    BY <1>6, <2>2, <2>3 DEF Finish
<1>7. ASSUME NEW t \in Tasks,
             CloseDb(t) \/ EndAgain(t) \/ TaskStep(t) \/ Start(t) \/ HostSettles(t)
      PROVE  Unseen
  BY <1>7 DEF CloseDb, EndAgain, TaskStep, Start, HostSettles, HostAnswers,
     HostFails, dbVars, Unseen
<1>8. PrintStats => Unseen
  BY DEF PrintStats, Unseen
<1>9. CASE \E t \in Tasks : DbStep(t)
  <2>1. PICK t \in Tasks : DbStep(t)
    BY <1>9
  <2>2. CASE OpenDb(t) \/ Everything(t) \/ CursorNext(t) \/ CloseDb(t) \/ EndAgain(t)
    BY <1>2, <1>7, <2>2, UnseenStutters
  <2>3. CASE \E k \in Keys, v \in Values : SetKV(t, k, v)
    BY <1>3, <2>3, UnseenStutters DEF Abstract!Next
  <2>4. CASE \E m \in {"read", "write"} : CreateTransaction(t, m)
    BY <1>4, <2>4, UnseenStutters DEF Abstract!Next
  <2>5. CASE Commit(t) \/ Abort(t)
    BY <1>5, <2>5 DEF Abstract!Next
  <2> QED
    BY <2>1, <2>2, <2>3, <2>4, <2>5 DEF DbStep
<1>10. CASE \E t \in Tasks : Finish(t)
  BY <1>6, <1>10, UnseenStutters DEF Abstract!Next
<1>11. CASE \E t \in Tasks : TaskStep(t) \/ Start(t) \/ HostSettles(t)
  BY <1>7, <1>11, UnseenStutters
<1>12. CASE PrintStats \/ Restart
  BY <1>8, <1>12, UnseenStutters, RestartRefines DEF Abstract!Next
<1> QED
  BY <1>1, <1>9, <1>10, <1>11, <1>12 DEF Next, GuestStep

(* The database of a guest is the store of KvStore: transactions see the   *)
(* content as of their begin and their own writes, commits are atomic and  *)
(* lose nobody's writes, and what is committed outlives task and process.  *)
THEOREM Refinement == Spec => Refines
<1>1. IInv /\ [Next]_vars => [Abstract!Next]_Abstract!vars
  BY NextRefines
<1> QED
  BY <1>1, InitRefines, Invariance, PTL DEF Spec, Refines, Abstract!Spec

-----------------------------------------------------------------------------
(* What the transactions of the tasks may rely on, step by step            *)

\* Only a commit of the one writer changes the content, in the keys it has
\* written and in no other; so nothing else is lost, at a restart least of all.
OnlyCommitsChangeTheStore ==
  [][store' # store =>
       \E t \in Tasks :
         /\ trx[t] = "write" /\ trx'[t] = "committed"
         /\ \A k \in Keys :
              store'[k] = IF k \in wrote[t] THEN view[t][k] ELSE store[k]]_vars

\* What a transaction sees is what it saw before but for what a writer has
\* written itself in this step.
SnapshotsHold ==
  [][\A t \in Tasks :
       IsOpen(t) /\ trx'[t] = trx[t] =>
         /\ wrote[t] \subseteq wrote'[t]
         /\ \A k \in Keys :
              view'[t][k] # view[t][k] => trx[t] = "write" /\ k \in wrote'[t]]_vars

\* While the host has control the holder of the write lock waits, directly or
\* not, for the host or for a task that the host has failed.
LockWaitsForTheHost ==
  stack = <<>> /\ writer # NoTask =>
    \A S \in SUBSET Tasks :
      (writer \in S /\ \A p \in S : Guest!AwaitsLive(p) \subseteq S)
        => S \cap (calls \cup hung) # {}

\* In the second case the lock is lost until the process is restarted.
StuckLockIsLost ==
  [][\A t \in Tasks :
       writer = t /\ Guest!Stuck(t) =>
         \/ writer' = t /\ Guest!Stuck(t)'
         \/ Restart]_vars

\* The kinds of steps, as the transactions notice them.
Quiet == UNCHANGED <<store, writer, trx, view, wrote>>

Writing(t, k, v) ==
  /\ trx[t] = "write"
  /\ view' = [view EXCEPT ![t][k] = v]
  /\ wrote' = [wrote EXCEPT ![t] = @ \cup {k}]
  /\ UNCHANGED <<store, writer, trx>>

Begun(t, m) ==
  /\ trx[t] = "none" /\ (m = "write" => writer = NoTask)
  /\ trx' = [trx EXCEPT ![t] = m]
  /\ view' = [view EXCEPT ![t] = store]
  /\ writer' = IF m = "write" THEN t ELSE writer
  /\ UNCHANGED <<store, wrote>>

Ended(t, how) ==
  /\ Guest!Running(t) /\ IsOpen(t)
  /\ Ends(t, how)
  /\ store' = IF how = "committed" THEN Committed(t) ELSE store

LEMMA StepKinds ==
  ASSUME [Next]_vars
  PROVE  \/ Quiet \/ Restart
         \/ \E t \in Tasks, k \in Keys, v \in Values : Writing(t, k, v)
         \/ \E t \in Tasks, m \in {"read", "write"} : Begun(t, m)
         \/ \E t \in Tasks, how \in {"committed", "aborted"} : Ended(t, how)
<1>1. CASE UNCHANGED vars
  BY <1>1 DEF vars, dbVars, Quiet
<1>2. ASSUME NEW t \in Tasks,
             \/ OpenDb(t) \/ Everything(t) \/ CursorNext(t) \/ CloseDb(t)
             \/ EndAgain(t) \/ TaskStep(t) \/ Start(t) \/ HostSettles(t)
      PROVE  Quiet
  BY <1>2 DEF OpenDb, Everything, CursorNext, CloseDb, EndAgain, TaskStep, Start,
     HostSettles, HostAnswers, HostFails, dbVars, Quiet
<1>3. ASSUME NEW t \in Tasks, NEW k \in Keys, NEW v \in Values, SetKV(t, k, v)
      PROVE  Quiet \/ Writing(t, k, v)
  BY <1>3 DEF SetKV, Quiet, Writing
<1>4. ASSUME NEW t \in Tasks, NEW m \in {"read", "write"}, CreateTransaction(t, m)
      PROVE  Quiet \/ Begun(t, m)
  BY <1>4 DEF CreateTransaction, WriterFree, Quiet, Begun
<1>5. ASSUME NEW t \in Tasks, Commit(t)
      PROVE  Ended(t, "committed") \/ Ended(t, "aborted")
  BY <1>5 DEF Commit, Ended
<1>6. ASSUME NEW t \in Tasks, Abort(t)
      PROVE  Ended(t, "aborted")
  BY <1>6 DEF Abort, Ended
<1>7. ASSUME NEW t \in Tasks, Finish(t)
      PROVE  Quiet \/ Ended(t, "aborted")
  <2>1. CASE UNCHANGED <<trx, writer, view, cursor, wrote>>
    BY <1>7, <2>1 DEF Finish, Quiet
  <2>2. CASE IsOpen(t) /\ Guest!Finish(t) /\ AbortedBy(t)
    BY <1>7, <2>2 DEF Finish, AbortedBy, Ended, Guest!Finish
  <2> QED
    BY <1>7, <2>1, <2>2 DEF Finish
<1>8. PrintStats => Quiet
  BY DEF PrintStats, Quiet
<1>9. ASSUME NEW t \in Tasks, DbStep(t)
      PROVE  \/ Quiet
             \/ \E k \in Keys, v \in Values : Writing(t, k, v)
             \/ \E m \in {"read", "write"} : Begun(t, m)
             \/ \E how \in {"committed", "aborted"} : Ended(t, how)
  BY <1>2, <1>3, <1>4, <1>5, <1>6, <1>9 DEF DbStep
<1> QED
  BY <1>1, <1>2, <1>7, <1>8, <1>9 DEF Next, GuestStep

(* To the coroutines a step is one of GuestTasks, unless it is a restart.  *)
LEMMA GuestSteps ==
  ASSUME [Next]_vars
  PROVE  [GP!Next]_(GP!vars) \/ Restart
<1>1. ASSUME UNCHANGED guestVars
      PROVE  UNCHANGED GP!vars
  BY <1>1 DEF guestVars, GP!vars
<1>2. ASSUME NEW t \in Tasks,
             \/ Guest!CallHost(t) \/ Guest!HostAnswers(t) \/ Guest!HostFails(t)
             \/ Guest!HostThrows(t) \/ Guest!Start(t) \/ Guest!Detach(t)
             \/ Guest!FinalReturns(t) \/ Guest!Finish(t)
             \/ \E p \in Tasks : Guest!Await(p, t)
      PROVE  GP!Next
  <2>1. \/ GP!CallHost(t) \/ GP!HostAnswers(t) \/ GP!HostFails(t)
        \/ GP!HostThrows(t) \/ GP!Start(t) \/ GP!Detach(t)
        \/ GP!FinalReturns(t) \/ GP!Finish(t)
        \/ \E p \in Tasks : GP!Await(p, t)
    BY <1>2, CallSame, AwaitSame, FinishSame, ThrowSame
  <2> QED
    BY <2>1 DEF GP!Next, GP!GuestStep, GP!HostSettles
<1>3. ASSUME NEW t \in Tasks, DbStep(t) \/ Finish(t) \/ TaskStep(t) \/ Start(t) \/ HostSettles(t)
      PROVE  \/ UNCHANGED guestVars
             \/ Guest!CallHost(t) \/ Guest!HostAnswers(t) \/ Guest!HostFails(t)
             \/ Guest!HostThrows(t) \/ Guest!Start(t) \/ Guest!Detach(t)
             \/ Guest!FinalReturns(t) \/ Guest!Finish(t)
             \/ \E p \in Tasks : Guest!Await(p, t)
  <2>1. CASE \/ OpenDb(t) \/ Everything(t) \/ CursorNext(t)
             \/ \E k \in Keys, v \in Values : SetKV(t, k, v)
    BY <2>1 DEF OpenDb, Everything, CursorNext, SetKV, Ask
  <2>2. CASE \/ \E mode \in {"read", "write"} : CreateTransaction(t, mode)
             \/ Commit(t) \/ Abort(t) \/ EndAgain(t) \/ CloseDb(t)
    BY <2>2 DEF CreateTransaction, Commit, Abort, EndAgain, CloseDb
  <2>3. CASE Finish(t) \/ TaskStep(t) \/ Start(t) \/ HostSettles(t)
    BY <2>3 DEF Finish, TaskStep, Start, HostSettles, HostAnswers, HostFails
  <2> QED
    BY <1>3, <2>1, <2>2, <2>3 DEF DbStep
<1>4. CASE UNCHANGED vars \/ PrintStats
  BY <1>1, <1>4 DEF vars, PrintStats
<1> QED
  BY <1>1, <1>2, <1>3, <1>4 DEF Next, GuestStep

LEMMA NoCycleBegins == GP!Init' => GP!NoCycle'
<1>1. GP!Init => GP!NoCycle
  BY GP!NoCycleInit, GuestDbAssumption DEF GuestDbAssumption
<1> QED
  BY <1>1, PTL

LEMMA NoCycleNext ==
  ASSUME IInv, GP!NoCycle, [Next]_vars
  PROVE  GP!NoCycle'
<1>1. CASE [GP!Next]_(GP!vars)
  BY <1>1, GP!StepKeeps, GP!NoCycleKept, GuestDbAssumption
     DEF IInv, GP!Kept, GuestDbAssumption
<1>2. CASE Restart
  <2>1. GP!Init'
    BY <1>2 DEF Restart, GP!Init
  <2> QED
    BY <2>1, NoCycleBegins
<1> QED
  BY <1>1, <1>2, GuestSteps

(* The content changes by a commit, as a whole and in no key that the      *)
(* committing task has not written: not by a reader, a task that fails or  *)
(* ends, an abort, the statistics or a restart.                            *)
THEOREM StoreChangesByCommits == Spec => OnlyCommitsChangeTheStore
<1>1. ASSUME IInv, [Next]_vars, store' # store
      PROVE  \E t \in Tasks :
               /\ trx[t] = "write" /\ trx'[t] = "committed"
               /\ \A k \in Keys :
                    store'[k] = IF k \in wrote[t] THEN view[t][k] ELSE store[k]
  <2>1. PICK t \in Tasks, how \in {"committed", "aborted"} : Ended(t, how)
    BY <1>1, StepKinds DEF Quiet, Restart, Writing, Begun
  <2>2. trx[t] = "write" /\ how = "committed" /\ store' = view[t]
    BY <1>1, <2>1 DEF Ended, Committed
  <2>3. trx'[t] = "committed"
    BY <1>1, <2>1, <2>2 DEF Ended, Ends, IInv, DbTypeOK
  <2>4. writer = t /\ writer # NoTask
    BY <1>1, <2>2, GuestDbAssumption DEF IInv, LockHeld, GuestDbAssumption
  <2>5. \A k \in Keys \ wrote[t] : view[t][k] = store[k]
    BY <1>1, <2>4 DEF IInv, WriterIsCurrent
  <2> QED
    BY <2>2, <2>3, <2>5
<1>2. IInv /\ [Next]_vars =>
        [store' # store =>
           \E t \in Tasks :
             /\ trx[t] = "write" /\ trx'[t] = "committed"
             /\ \A k \in Keys :
                  store'[k] = IF k \in wrote[t] THEN view[t][k] ELSE store[k]]_vars
  BY <1>1
<1> QED
  BY <1>2, Invariance, PTL DEF Spec, OnlyCommitsChangeTheStore

(* A reader keeps its snapshot to its end, whoever commits meanwhile, and  *)
(* a writer sees its snapshot and what it has written itself.              *)
THEOREM SnapshotsAreKept == Spec => SnapshotsHold
<1>1. ASSUME IInv, [Next]_vars, NEW t \in Tasks, IsOpen(t), trx'[t] = trx[t]
      PROVE  /\ wrote[t] \subseteq wrote'[t]
             /\ \A k \in Keys :
                  view'[t][k] # view[t][k] => trx[t] = "write" /\ k \in wrote'[t]
  <2>1. /\ trx \in [Tasks -> Modes] /\ view \in [Tasks -> Content]
        /\ wrote \in [Tasks -> SUBSET Keys]
    BY <1>1 DEF IInv, DbTypeOK
  <2>2. CASE Quiet
    BY <2>2 DEF Quiet
  <2>3. ASSUME NEW u \in Tasks, NEW j \in Keys, NEW v \in Values, Writing(u, j, v)
        PROVE  /\ wrote[t] \subseteq wrote'[t]
               /\ \A k \in Keys :
                    view'[t][k] # view[t][k] => trx[t] = "write" /\ k \in wrote'[t]
    <3>1. CASE u = t
      BY <2>1, <2>3, <3>1 DEF Writing, Content
    <3>2. CASE u # t
      BY <2>1, <2>3, <3>2 DEF Writing
    <3> QED
      BY <3>1, <3>2
  <2>4. ASSUME NEW u \in Tasks, NEW m \in {"read", "write"}, Begun(u, m)
        PROVE  u # t /\ view'[t] = view[t] /\ wrote'[t] = wrote[t]
    BY <1>1, <2>1, <2>4 DEF Begun, IsOpen
  <2>5. ASSUME NEW u \in Tasks, NEW how \in {"committed", "aborted"}, Ended(u, how)
        PROVE  u # t /\ view'[t] = view[t] /\ wrote'[t] = wrote[t]
    BY <1>1, <2>1, <2>5 DEF Ended, Ends, IsOpen
  <2>6. ~Restart
    BY <1>1 DEF Restart, IsOpen
  <2> QED
    BY <1>1, <2>2, <2>3, <2>4, <2>5, <2>6, StepKinds
<1>2. IInv /\ [Next]_vars =>
        [\A t \in Tasks :
           IsOpen(t) /\ trx'[t] = trx[t] =>
             /\ wrote[t] \subseteq wrote'[t]
             /\ \A k \in Keys :
                  view'[t][k] # view[t][k] => trx[t] = "write" /\ k \in wrote'[t]]_vars
  BY <1>1
<1> QED
  BY <1>2, Invariance, PTL DEF Spec, SnapshotsHold

LEMMA LockWaits == IInv /\ GP!NoCycle => LockWaitsForTheHost
<1> SUFFICES ASSUME IInv, GP!NoCycle, stack = <<>>, writer # NoTask,
                    NEW S \in SUBSET Tasks, writer \in S,
                    \A p \in S : Guest!AwaitsLive(p) \subseteq S
             PROVE  S \cap (calls \cup hung) # {}
  BY DEF LockWaitsForTheHost
<1>1. writer \in Tasks /\ GP!Live(writer)
  <2>1. trx[writer] = "write"
    BY DEF IInv, LockHeld
  <2> QED
    BY <2>1 DEF IInv, OpenUnfinished, IsOpen, GP!Unfinished
<1>2. \A p \in S : GP!AwaitsLive(p) \subseteq S
  BY DEF GP!AwaitsLive, Guest!AwaitsLive, GP!Live, Guest!Live
<1>3. GP!WaitsEndAtTheHost
  BY GP!WaitsEndFollows, GuestDbAssumption DEF IInv, GuestDbAssumption
<1> QED
  BY <1>1, <1>2, <1>3 DEF GP!WaitsEndAtTheHost

(* The tasks of a database never wait for each other alone: the holder of  *)
(* the write lock has a call of the host, or a failed one, to wait for.    *)
THEOREM NoDeadlockUnderTheLock == Spec => []LockWaitsForTheHost
<1>1. GP!Init => GP!NoCycle
  BY GP!NoCycleInit, GuestDbAssumption DEF GuestDbAssumption
<1>2. Init => GP!NoCycle
  BY <1>1, InitSame DEF Init
<1>3. IInv /\ GP!NoCycle /\ [Next]_vars => GP!NoCycle'
  BY NoCycleNext
<1> QED
  BY <1>2, <1>3, Invariance, LockWaits, PTL DEF Spec

(* A failed call under the write lock loses the lock: its holder is stuck  *)
(* for ever and nobody else may end its transaction, so that no task of    *)
(* this process writes again.                                              *)
THEOREM OnlyRestartsFreeTheLock == Spec => StuckLockIsLost
<1>1. ASSUME IInv, [Next]_vars, ~Restart, NEW t \in Tasks, writer = t, Guest!Stuck(t)
      PROVE  writer' = t /\ Guest!Stuck(t)'
  <2>1. GP!IInv /\ t # NoTask
    BY <1>1, GuestDbAssumption DEF IInv, GuestDbAssumption
  <2>2. GP!Stuck(t)
    BY <1>1, Zenon DEF Guest!Stuck, GP!Stuck
  <2>3. GP!Kept
    BY <1>1, <2>1, GuestSteps, GP!StepKeeps, GuestDbAssumption DEF GuestDbAssumption
  <2>4. GP!Stuck(t)'
    BY <2>1, <2>2, <2>3, GP!StuckStays, GuestDbAssumption DEF GuestDbAssumption
  <2>5. Guest!Stuck(t)'
    BY <2>4, Zenon DEF Guest!Stuck, GP!Stuck
  <2>6. ~Guest!Running(t)
    BY <2>1, <2>2, RunningSame, GP!StuckDoesNotRun, GuestDbAssumption
       DEF GuestDbAssumption
  <2>7. ASSUME NEW u \in Tasks, NEW how \in {"committed", "aborted"}, Ended(u, how)
        PROVE  writer' = writer
    <3>1. u # t
      BY <2>6, <2>7 DEF Ended
    <3>2. trx[u] # "write"
      BY <1>1, <3>1 DEF IInv, LockHeld
    <3> QED
      BY <2>7, <3>2 DEF Ended, Ends
  <2>8. ASSUME NEW u \in Tasks, NEW m \in {"read", "write"}, Begun(u, m)
        PROVE  writer' = writer
    BY <1>1, <2>1, <2>8 DEF Begun
  <2>9. writer' = writer
    BY <1>1, <2>7, <2>8, StepKinds DEF Quiet, Writing
  <2> QED
    BY <1>1, <2>5, <2>9
<1>2. IInv /\ [Next]_vars =>
        [\A t \in Tasks :
           writer = t /\ Guest!Stuck(t) =>
             \/ writer' = t /\ Guest!Stuck(t)'
             \/ Restart]_vars
  BY <1>1
<1> QED
  BY <1>2, Invariance, PTL DEF Spec, StuckLockIsLost
=============================================================================
