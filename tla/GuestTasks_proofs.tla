-------------------------- MODULE GuestTasks_proofs --------------------------
(***************************************************************************)
(* Proofs about the coroutines of a guest program, for every set of tasks  *)
(* and every bound on the calls of the host.  They need the condition that *)
(* an awaited task suspends before it ends: without it the frame of a task *)
(* is destroyed twice.                                                     *)
(***************************************************************************)
EXTENDS GuestTasks, SequenceTheorems, FiniteSetTheorems, NaturalsInduction,
        WellFoundedInduction, TLAPS

(* Stacks, as values                                                       *)

\* t has an entry of this kind on the stack s.
OnIn(s, t, place) == \E i \in 1 .. Len(s) : s[i] = Entry(t, place)

\* Apart from host calls that have not returned, a task is on s at most once.
OneEntryIn(s) ==
  \A i, j \in 1 .. Len(s) :
    /\ s[i].task = s[j].task
    /\ s[i].at # "call" /\ s[j].at # "call"
    => i = j

\* What runs on top of an await_suspend is the task that is awaited, which
\* has not ended and belongs to the Task object there: parent and held are
\* continuation and attached.
AwaitedIn(s, parent, held) ==
  \A i \in 1 .. Len(s) :
    s[i].at = "await" /\ i < Len(s) =>
      /\ parent[s[i + 1].task] = s[i].task
      /\ s[i + 1].task \in held
      /\ s[i + 1].at # "final"

(* The invariant                                                           *)

On(t, place) == OnIn(stack, t, place)
OneEntry == OneEntryIn(stack)
AwaitedAbove == AwaitedIn(stack, continuation, attached)

\* t has not come to its final suspend.
Unfinished(t) == Live(t) /\ ~On(t, "final")

\* c is awaited by t and has not ended.
Child(c, t) == Unfinished(c) /\ continuation[c] = t

\* A task that has not been created has left no trace.
Fresh ==
  \A t \in Tasks :
    /\ t \notin used => destroyed[t] = 0 /\ continuation[t] = NoTask
    /\ continuation[t] \in used \cup {NoTask}

\* Who is on the stack is alive; who waits, or is held, has not ended.
Alive ==
  /\ \A t \in Tasks : On(t, "body") \/ On(t, "await") => Unfinished(t)
  /\ \A t \in Tasks : On(t, "final") => Live(t)
  /\ \A t \in calls \cup hung \cup attached : Unfinished(t)
  /\ \A t \in attached : continuation[t] # NoTask
  /\ \A c, p \in Tasks : Child(c, p) => Unfinished(p)

\* A task that has not ended runs, or waits for one thing: for the callback
\* of a call, for nothing at all, or for a task that it awaits.
Waiting ==
  \A t \in Tasks :
    /\ On(t, "body") =>
         /\ t \notin calls \cup hung /\ ~On(t, "await")
         /\ \A c \in Tasks : ~Child(c, t)
    /\ t \in calls => t \notin hung /\ \A c \in Tasks : ~Child(c, t)
    /\ t \in hung => \A c \in Tasks : ~Child(c, t)
    /\ On(t, "await") => \E c \in Tasks : Child(c, t)
    /\ \A c, d \in Tasks : Child(c, t) /\ Child(d, t) => c = d
    /\ Unfinished(t) =>
         \/ On(t, "body") \/ t \in calls \cup hung
         \/ \E c \in Tasks : Child(c, t)

\* t is held by a Task object whose await_suspend an exception has cut off.
Stranded(t) == t \in attached /\ ~On(continuation[t], "await")

\* Such a task never runs again: nobody resumes it, or it waits for another
\* one that is stranded.
StrandedWait ==
  \A t \in Tasks :
    Stranded(t) => \/ t \in hung
                   \/ \E c \in Tasks : continuation[c] = t /\ Stranded(c)

IInv ==
  /\ TypeOK /\ DestroyedOnce
  /\ OneEntry /\ AwaitedAbove
  /\ Fresh /\ Alive /\ Waiting /\ StrandedWait

-----------------------------------------------------------------------------
(* Lemmas about stacks                                                     *)

Resting == {"body", "await", "final"}
Entries(S) == [task : S, at : Places]

LEMMA EntryType ==
  ASSUME NEW S, NEW t \in S, NEW place \in Places
  PROVE  /\ Entry(t, place) \in Entries(S)
         /\ Entry(t, place).task = t /\ Entry(t, place).at = place
BY DEF Entry, Entries

LEMMA EntryParts ==
  ASSUME NEW S, NEW e \in Entries(S)
  PROVE  /\ e.task \in S /\ e.at \in Places
         /\ \A t, place : e = Entry(t, place) <=> (e.task = t /\ e.at = place)
BY DEF Entry, Entries

(* A stack of tasks of S is one of tasks of any larger set.                *)
LEMMA StackMonotone ==
  ASSUME NEW S, NEW T, S \subseteq T, NEW s \in Seq(Entries(S))
  PROVE  s \in Seq(Entries(T))
<1>1. Entries(S) \subseteq Entries(T)
  BY DEF Entries
<1> HIDE DEF Entries
<1>2. \A i \in 1 .. Len(s) : s[i] \in Entries(T)
  BY <1>1, ElementOfSeq
<1> QED
  BY <1>2

(* pop: the lower part of a stack.                                         *)
LEMMA Cut ==
  ASSUME NEW S, NEW s \in Seq(Entries(S)), NEW n \in 0 .. Len(s),
         OneEntryIn(s), NEW parent, NEW held, AwaitedIn(s, parent, held),
         NEW r, r = SubSeq(s, 1, n)
  PROVE  /\ r \in Seq(Entries(S)) /\ Len(r) = n
         /\ \A i \in 1 .. n : r[i] = s[i]
         /\ OneEntryIn(r) /\ AwaitedIn(r, parent, held)
         /\ \A t, place : OnIn(r, t, place) => OnIn(s, t, place)
<1> HIDE DEF Entries
<1>0. Len(s) \in Nat
  OBVIOUS
<1>1. /\ r \in Seq(Entries(S)) /\ Len(r) = n
      /\ \A i \in 1 .. n : r[i] = s[i]
  <2>1. \A i \in 1 .. n : s[i] \in Entries(S)
    BY <1>0, ElementOfSeq
  <2> QED
    BY <1>0, <2>1, SubSeqProperties
<1>2. OneEntryIn(r)
  BY <1>0, <1>1 DEF OneEntryIn
<1>3. AwaitedIn(r, parent, held)
  <2> SUFFICES ASSUME NEW i \in 1 .. n, r[i].at = "await", i < n
               PROVE  /\ parent[r[i + 1].task] = r[i].task
                      /\ r[i + 1].task \in held
                      /\ r[i + 1].at # "final"
    BY <1>1 DEF AwaitedIn
  <2>1. /\ i \in 1 .. Len(s) /\ i < Len(s) /\ r[i] = s[i]
        /\ i + 1 \in 1 .. n
    BY <1>0, <1>1
  <2>2. r[i + 1] = s[i + 1]
    BY <1>1, <2>1
  <2> QED
    BY <2>1, <2>2 DEF AwaitedIn
<1>4. ASSUME NEW t, NEW place, OnIn(r, t, place)
      PROVE  OnIn(s, t, place)
  BY <1>0, <1>1, <1>4 DEF OnIn
<1> QED
  BY <1>1, <1>2, <1>3, <1>4

(* The last entry of a stack, and what is on it without it.                *)
LEMMA Pop ==
  ASSUME NEW S, NEW s \in Seq(Entries(S)), s # <<>>,
         OneEntryIn(s), NEW parent, NEW held, AwaitedIn(s, parent, held)
  PROVE  /\ Front(s) \in Seq(Entries(S)) /\ Len(Front(s)) = Len(s) - 1
         /\ Last(s) \in Entries(S)
         /\ OneEntryIn(Front(s)) /\ AwaitedIn(Front(s), parent, held)
         /\ \A t : \A place \in Resting :
              OnIn(Front(s), t, place) <=>
                OnIn(s, t, place) /\ Last(s) # Entry(t, place)
         /\ OnIn(s, Last(s).task, Last(s).at)
         /\ Front(s) # <<>> /\ Last(Front(s)).at = "await" =>
              /\ parent[Last(s).task] = Last(Front(s)).task
              /\ Last(s).task \in held
              /\ OnIn(s, Last(Front(s)).task, "await")
<1> DEFINE n == Len(s) - 1
           r == Front(s)
<1>0. Len(s) \in Nat /\ Len(s) >= 1 /\ n \in 0 .. Len(s) /\ n + 1 = Len(s)
  BY EmptySeq
<1>1. r = SubSeq(s, 1, n)
  BY DEF Front
<1> HIDE DEF Entries, n, r
<1>2. /\ r \in Seq(Entries(S)) /\ Len(r) = n
      /\ \A i \in 1 .. n : r[i] = s[i]
      /\ OneEntryIn(r) /\ AwaitedIn(r, parent, held)
      /\ \A t, place : OnIn(r, t, place) => OnIn(s, t, place)
  <2>1. r \in Seq(Entries(S)) /\ Len(r) = n
    BY <1>0, <1>1, Cut
  <2>2. \A i \in 1 .. n : r[i] = s[i]
    BY <1>0, <1>1, Cut
  <2>3a. OneEntryIn(r)
    BY <1>0, <1>1, Cut
  <2>3b. AwaitedIn(r, parent, held)
    BY <1>0, <1>1, Cut
  <2>4. \A t, place : OnIn(r, t, place) => OnIn(s, t, place)
    BY <1>0, <1>1, Cut
  <2> QED
    BY <2>1, <2>2, <2>3a, <2>3b, <2>4
<1>3. Last(s) = s[n + 1] /\ Last(s) \in Entries(S)
  BY <1>0, ElementOfSeq DEF Last
<1>4. ASSUME NEW t, NEW place \in Resting
      PROVE  OnIn(r, t, place) <=> OnIn(s, t, place) /\ Last(s) # Entry(t, place)
  <2>0. place \in Places /\ place # "call"
    BY DEF Resting, Places
  <2>1. ASSUME OnIn(s, t, place), Last(s) # Entry(t, place)
        PROVE  OnIn(r, t, place)
    <3>1. PICK i \in 1 .. Len(s) : s[i] = Entry(t, place)
      BY <2>1 DEF OnIn
    <3>2. i \in 1 .. n
      BY <1>0, <1>3, <2>1, <3>1
    <3> QED
      BY <1>2, <3>1, <3>2 DEF OnIn
  <2>2. ASSUME OnIn(r, t, place), Last(s) = Entry(t, place)
        PROVE  FALSE
    <3>1. PICK i \in 1 .. n : s[i] = Entry(t, place)
      BY <1>2, <2>2 DEF OnIn
    <3>2. /\ i \in 1 .. Len(s) /\ n + 1 \in 1 .. Len(s) /\ i # n + 1
      BY <1>0
    <3>3. Entry(t, place).at # "call"
      BY <2>0 DEF Entry
    <3> QED
      BY <1>3, <2>2, <3>1, <3>2, <3>3 DEF OneEntryIn
  <2> QED
    BY <1>2, <2>1, <2>2
<1>5. OnIn(s, Last(s).task, Last(s).at)
  <2>1. n + 1 \in 1 .. Len(s)
    BY <1>0
  <2> QED
    BY <1>3, <2>1, EntryParts DEF OnIn
<1>6. ASSUME r # <<>>, Last(r).at = "await"
      PROVE  /\ parent[Last(s).task] = Last(r).task
             /\ Last(s).task \in held
             /\ OnIn(s, Last(r).task, "await")
  <2>1. n >= 1
    BY <1>0, <1>2, <1>6, EmptySeq
  <2>2. n \in 1 .. Len(s) /\ n < Len(s) /\ Last(r) = s[n]
    BY <1>0, <1>2, <2>1 DEF Last
  <2>3. s[n] \in Entries(S)
    BY <2>2, ElementOfSeq
  <2> QED
    BY <1>3, <1>6, <2>2, <2>3, EntryParts DEF AwaitedIn, OnIn
<1> QED
  BY <1>0, <1>2, <1>3, <1>4, <1>5, <1>6 DEF r, n

(* push: one more entry.                                                   *)
LEMMA Push ==
  ASSUME NEW S, NEW s \in Seq(Entries(S)), NEW e \in Entries(S),
         OneEntryIn(s), NEW parent, NEW held, AwaitedIn(s, parent, held),
         \/ e.at = "call"
         \/ \A place \in Resting : ~OnIn(s, e.task, place),
         s # <<>> /\ Last(s).at = "await" =>
           /\ parent[e.task] = Last(s).task
           /\ e.task \in held
           /\ e.at # "final",
         NEW r, r = Append(s, e)
  PROVE  /\ r \in Seq(Entries(S)) /\ Len(r) = Len(s) + 1
         /\ r # <<>> /\ Last(r) = e
         /\ OneEntryIn(r) /\ AwaitedIn(r, parent, held)
         /\ \A t, place :
              OnIn(r, t, place) <=> OnIn(s, t, place) \/ e = Entry(t, place)
<1> DEFINE n == Len(s)
<1> HIDE DEF Entries
<1>0. n \in Nat
  OBVIOUS
<1>1. /\ r \in Seq(Entries(S)) /\ Len(r) = n + 1
      /\ \A i \in 1 .. n : r[i] = s[i]
      /\ r[n + 1] = e
  BY AppendProperties
<1>2. r # <<>> /\ Last(r) = e
  BY <1>0, <1>1, EmptySeq DEF Last
<1>3. \A i \in 1 .. n + 1 : i \in 1 .. n \/ i = n + 1
  BY <1>0
<1>3a. \A i \in 1 .. n : i \in 1 .. n + 1
  BY <1>0
<1>3b. n + 1 \in 1 .. n + 1
  BY <1>0
<1>4. ASSUME NEW t, NEW place
      PROVE  OnIn(r, t, place) <=> OnIn(s, t, place) \/ e = Entry(t, place)
  <2> HIDE DEF n
  <2>1. OnIn(r, t, place) <=> \E i \in 1 .. n + 1 : r[i] = Entry(t, place)
    BY <1>1 DEF OnIn
  <2>2. OnIn(s, t, place) <=> \E i \in 1 .. n : s[i] = Entry(t, place)
    BY DEF OnIn, n
  <2> QED
    BY <1>1, <1>3, <1>3a, <1>3b, <2>1, <2>2, Zenon
<1>5. ASSUME e.at # "call", NEW i \in 1 .. n, s[i].task = e.task
      PROVE  s[i].at = "call"
  <2>1. s[i] \in Entries(S)
    BY <1>0, ElementOfSeq
  <2>2. s[i] = Entry(e.task, s[i].at) /\ s[i].at \in Places
    BY <1>5, <2>1, EntryParts
  <2>3. OnIn(s, e.task, s[i].at)
    BY <2>2 DEF OnIn
  <2> QED
    BY <1>5, <2>2, <2>3 DEF Resting, Places
<1>6. OneEntryIn(r)
  <2> SUFFICES ASSUME NEW i \in 1 .. n + 1, NEW j \in 1 .. n + 1,
                      r[i].task = r[j].task,
                      r[i].at # "call", r[j].at # "call"
               PROVE  i = j
    BY <1>1 DEF OneEntryIn
  <2>1. CASE i \in 1 .. n /\ j \in 1 .. n
    BY <1>1, <2>1 DEF OneEntryIn
  <2>2. CASE i \in 1 .. n /\ j = n + 1
    BY <1>1, <1>5, <2>2
  <2>3. CASE i = n + 1 /\ j \in 1 .. n
    BY <1>1, <1>5, <2>3
  <2> QED
    BY <1>3, <2>1, <2>2, <2>3
<1>7. AwaitedIn(r, parent, held)
  <2> SUFFICES ASSUME NEW i \in 1 .. n + 1, r[i].at = "await", i < n + 1
               PROVE  /\ parent[r[i + 1].task] = r[i].task
                      /\ r[i + 1].task \in held
                      /\ r[i + 1].at # "final"
    BY <1>1 DEF AwaitedIn
  <2>1. i \in 1 .. n /\ r[i] = s[i]
    BY <1>0, <1>1
  <2>2. CASE i < n
    <3>1. i + 1 \in 1 .. n
      BY <1>0, <2>1, <2>2
    <3> QED
      BY <1>1, <2>1, <2>2, <3>1 DEF AwaitedIn
  <2>3. CASE i = n
    <3>1. s # <<>> /\ Last(s) = s[i]
      BY <2>1, <2>3, EmptySeq DEF Last
    <3> QED
      BY <1>1, <2>1, <2>3, <3>1
  <2> QED
    BY <1>0, <2>1, <2>2, <2>3
<1> QED
  BY <1>1, <1>2, <1>4, <1>6, <1>7

-----------------------------------------------------------------------------
(* The stack of the program, seen from the invariant                       *)

\* What the invariant says of a stack.
GoodStack(s, tasks, parent, held) ==
  s \in Seq(Entries(tasks)) /\ OneEntryIn(s) /\ AwaitedIn(s, parent, held)

LEMMA StackIsGood ==
  ASSUME IInv
  PROVE  GoodStack(stack, used, continuation, attached)
BY DEF IInv, TypeOK, OneEntry, AwaitedAbove, GoodStack, Entries

(* Taking the top entry off.                                               *)
LEMMA PopStack ==
  ASSUME IInv, stack # <<>>
  PROVE  /\ GoodStack(Front(stack), used, continuation, attached)
         /\ Last(stack) \in Entries(used)
         /\ \A t : \A place \in Resting :
              OnIn(Front(stack), t, place) <=>
                OnIn(stack, t, place) /\ Last(stack) # Entry(t, place)
         /\ OnIn(stack, Last(stack).task, Last(stack).at)
         /\ Front(stack) # <<>> /\ Last(Front(stack)).at = "await" =>
              /\ continuation[Last(stack).task] = Last(Front(stack)).task
              /\ Last(stack).task \in attached
              /\ OnIn(stack, Last(Front(stack)).task, "await")
<1>1. /\ stack \in Seq(Entries(used)) /\ OneEntryIn(stack)
      /\ AwaitedIn(stack, continuation, attached)
  BY StackIsGood DEF GoodStack
<1>2. /\ Front(stack) \in Seq(Entries(used))
      /\ Last(stack) \in Entries(used)
  BY <1>1, Pop
<1>3. OneEntryIn(Front(stack))
  BY <1>1, Pop
<1>4. AwaitedIn(Front(stack), continuation, attached)
  BY <1>1, Pop
<1>5. \A t : \A place \in Resting :
        OnIn(Front(stack), t, place) <=>
          OnIn(stack, t, place) /\ Last(stack) # Entry(t, place)
  BY <1>1, Pop
<1>6. OnIn(stack, Last(stack).task, Last(stack).at)
  BY <1>1, Pop
<1>7. Front(stack) # <<>> /\ Last(Front(stack)).at = "await" =>
        /\ continuation[Last(stack).task] = Last(Front(stack)).task
        /\ Last(stack).task \in attached
        /\ OnIn(stack, Last(Front(stack)).task, "await")
  BY <1>1, Pop
<1> QED
  BY <1>2, <1>3, <1>4, <1>5, <1>6, <1>7 DEF GoodStack

(* A frame that runs, or may be resumed, has no entry in its way.          *)
LEMMA PushStack ==
  ASSUME NEW tasks, NEW parent, NEW held, NEW s,
         GoodStack(s, tasks, parent, held),
         NEW t \in tasks, NEW place \in Places,
         place = "call" \/ \A q \in Resting : ~OnIn(s, t, q),
         s # <<>> /\ Last(s).at = "await" =>
           parent[t] = Last(s).task /\ t \in held /\ place # "final"
  PROVE  LET r == Append(s, Entry(t, place))
         IN  /\ GoodStack(r, tasks, parent, held)
             /\ r # <<>> /\ Last(r) = Entry(t, place)
             /\ \A u : \A q \in Resting :
                  OnIn(r, u, q) <=>
                    OnIn(s, u, q) \/ (u = t /\ q = place)
<1> DEFINE e == Entry(t, place)
           r == Append(s, e)
<1>1. e \in Entries(tasks) /\ e.task = t /\ e.at = place
  BY EntryType
<1>2. \A u, q : e = Entry(u, q) <=> (t = u /\ place = q)
  BY <1>1, EntryParts
<1>3. /\ s \in Seq(Entries(tasks)) /\ OneEntryIn(s)
      /\ AwaitedIn(s, parent, held)
  BY DEF GoodStack
<1>3a. e.at = "call" \/ \A q \in Resting : ~OnIn(s, e.task, q)
  BY <1>1
<1>3b. s # <<>> /\ Last(s).at = "await" =>
         /\ parent[e.task] = Last(s).task
         /\ e.task \in held
         /\ e.at # "final"
  BY <1>1
<1> HIDE DEF e
<1>4. r \in Seq(Entries(tasks))
  BY <1>1, <1>3, <1>3a, <1>3b, Push
<1>5a. r # <<>>
  BY <1>1, <1>3, <1>3a, <1>3b, Push
<1>5b. Last(r) = e
  BY <1>1, <1>3, <1>3a, <1>3b, Push
<1>6. OneEntryIn(r)
  BY <1>1, <1>3, <1>3a, <1>3b, Push
<1>7. AwaitedIn(r, parent, held)
  BY <1>1, <1>3, <1>3a, <1>3b, Push
<1>8. \A u, q : OnIn(r, u, q) <=> OnIn(s, u, q) \/ e = Entry(u, q)
  BY <1>1, <1>3, <1>3a, <1>3b, Push
<1> QED
  BY <1>2, <1>4, <1>5a, <1>5b, <1>6, <1>7, <1>8 DEF GoodStack, e

-----------------------------------------------------------------------------
(* Steps that create and end no task                                       *)

(* What of the invariant the stack says, and what the rest.                *)
TypesBut ==
  /\ used \subseteq Tasks /\ attached \subseteq used
  /\ calls \subseteq used /\ hung \subseteq used /\ leaked \subseteq used
  /\ destroyed \in [Tasks -> Nat]
  /\ continuation \in [Tasks -> Tasks \cup {NoTask}]
  /\ made \in [Tasks -> 0 .. MaxCalls]

LEMMA PartsNext ==
  ASSUME TypesBut', DestroyedOnce',
         GoodStack(stack', used', continuation', attached'),
         Fresh', Alive', Waiting', StrandedWait'
  PROVE  IInv'
BY DEF IInv, TypesBut, TypeOK, GoodStack, Entries, OneEntry, AwaitedAbove

\* Every task that has not ended goes on.
NoneEnds == \A t \in Tasks : Unfinished(t) => Unfinished(t)'

(* One task t goes from one of the things that a task may wait for to      *)
(* another one, or stays where it is; nobody else notices.                 *)
LEMMA TaskMoves ==
  ASSUME IInv, NEW t \in Tasks,
         UNCHANGED <<used, destroyed, continuation, attached, leaked>>,
         made' \in [Tasks -> 0 .. MaxCalls],
         GoodStack(stack', used, continuation, attached),
         calls' \subseteq used, hung' \subseteq used, hung \subseteq hung',
         \A u \in Tasks :
           /\ OnIn(stack', u, "await") <=> OnIn(stack, u, "await")
           /\ OnIn(stack', u, "final") <=> OnIn(stack, u, "final"),
         \A u \in Tasks \ {t} :
           /\ OnIn(stack', u, "body") <=> OnIn(stack, u, "body")
           /\ u \in calls' <=> u \in calls
           /\ u \in hung' <=> u \in hung,
         \/ /\ OnIn(stack', t, "body") <=> OnIn(stack, t, "body")
            /\ t \in calls' <=> t \in calls
            /\ t \in hung' <=> t \in hung
         \/ /\ OnIn(stack, t, "body") \/ t \in calls
            /\ ~OnIn(stack, t, "await")
            /\ \/ OnIn(stack', t, "body") /\ t \notin calls' \cup hung'
               \/ ~OnIn(stack', t, "body") /\ t \in calls' /\ t \notin hung'
               \/ ~OnIn(stack', t, "body") /\ t \in hung' /\ t \notin calls'
  PROVE  IInv' /\ NoneEnds
<1>1. TypesBut' /\ DestroyedOnce'
  BY DEF IInv, TypeOK, TypesBut, DestroyedOnce
<1>2. Fresh'
  BY DEF IInv, Fresh
<1>3. \A u \in Tasks : Unfinished(u)' <=> Unfinished(u)
  BY DEF Unfinished, Live, On
<1>4. \A c, p \in Tasks : Child(c, p)' <=> Child(c, p)
  BY <1>3 DEF Child
<1>5. /\ OnIn(stack, t, "body") \/ t \in calls =>
           Unfinished(t) /\ \A c \in Tasks : ~Child(c, t)
      /\ hung \subseteq Tasks /\ calls \subseteq Tasks
      /\ hung' \subseteq Tasks /\ calls' \subseteq Tasks
      /\ attached \subseteq Tasks
  BY DEF IInv, TypeOK, Alive, Waiting, On
<1>6. Alive'
  <2>1. \A u \in Tasks : OnIn(stack', u, "body") \/ OnIn(stack', u, "await")
                           => Unfinished(u)
    BY <1>5 DEF IInv, Alive, On
  <2>2. \A u \in Tasks : OnIn(stack', u, "final") => Live(u)'
    BY DEF IInv, Alive, On, Live
  <2>3. \A u \in calls' \cup hung' \cup attached' : Unfinished(u)
    BY <1>5 DEF IInv, Alive
  <2>4. \A u \in attached' : continuation'[u] # NoTask
    BY DEF IInv, Alive
  <2>5. \A c, p \in Tasks : Child(c, p) => Unfinished(p)
    BY DEF IInv, Alive
  <2> QED
    BY <1>3, <1>4, <1>5, <2>1, <2>2, <2>3, <2>4, <2>5 DEF Alive, On
<1>7. Waiting'
  <2> SUFFICES ASSUME NEW u \in Tasks
      PROVE /\ OnIn(stack', u, "body") =>
                 /\ u \notin calls' \cup hung' /\ ~OnIn(stack', u, "await")
                 /\ \A c \in Tasks : ~Child(c, u)
            /\ u \in calls' => u \notin hung' /\ \A c \in Tasks : ~Child(c, u)
            /\ u \in hung' => \A c \in Tasks : ~Child(c, u)
            /\ OnIn(stack', u, "await") => \E c \in Tasks : Child(c, u)
            /\ \A c, d \in Tasks : Child(c, u) /\ Child(d, u) => c = d
            /\ Unfinished(u) =>
                 \/ OnIn(stack', u, "body") \/ u \in calls' \cup hung'
                 \/ \E c \in Tasks : Child(c, u)
    BY <1>3, <1>4, Zenon DEF Waiting, On
  <2>1. /\ OnIn(stack, u, "body") =>
             /\ u \notin calls \cup hung /\ ~OnIn(stack, u, "await")
             /\ \A c \in Tasks : ~Child(c, u)
        /\ u \in calls => u \notin hung /\ \A c \in Tasks : ~Child(c, u)
        /\ u \in hung => \A c \in Tasks : ~Child(c, u)
        /\ OnIn(stack, u, "await") => \E c \in Tasks : Child(c, u)
        /\ \A c, d \in Tasks : Child(c, u) /\ Child(d, u) => c = d
        /\ Unfinished(u) =>
             \/ OnIn(stack, u, "body") \/ u \in calls \cup hung
             \/ \E c \in Tasks : Child(c, u)
    BY DEF IInv, Waiting, On
  <2>2. CASE u # t
    BY <2>1, <2>2
  <2>3. CASE u = t
    BY <1>5, <2>1, <2>3
  <2> QED
    BY <2>2, <2>3
<1>8. StrandedWait'
  <2>1. \A u \in Tasks : Stranded(u)' <=> Stranded(u)
    <3>1. \A u \in attached : continuation[u] \in Tasks
      BY DEF IInv, TypeOK, Alive
    <3> QED
      BY <1>5, <3>1 DEF Stranded, On
  <2> QED
    BY <2>1 DEF IInv, StrandedWait
<1>9. GoodStack(stack', used', continuation', attached')
  OBVIOUS
<1>n. NoneEnds
  BY <1>3 DEF NoneEnds
<1> QED
  BY <1>1, <1>2, <1>6, <1>7, <1>8, <1>9, PartsNext, <1>n

(* The running task, and the stack below it.                               *)
LEMMA RunningTask ==
  ASSUME IInv, NEW t \in Tasks, Running(t)
  PROVE  /\ t \in used /\ Unfinished(t) /\ OnIn(stack, t, "body")
         /\ t \notin calls \cup hung
         /\ ~OnIn(stack, t, "await") /\ ~OnIn(stack, t, "final")
         /\ \A c \in Tasks : ~Child(c, t)
         /\ ~Stranded(t)
<1>1. stack # <<>> /\ Last(stack) = Entry(t, "body")
  BY DEF Running
<1>2. OnIn(stack, t, "body")
  BY <1>1, PopStack DEF Entry
<1>3. /\ t \in used /\ Unfinished(t) /\ ~OnIn(stack, t, "final")
  BY <1>2 DEF IInv, Alive, On, Unfinished, Live
<1>4. /\ t \notin calls \cup hung
      /\ ~OnIn(stack, t, "await")
      /\ \A c \in Tasks : ~Child(c, t)
  BY <1>2 DEF IInv, Waiting, On
<1>5. ASSUME Stranded(t) PROVE FALSE
  <2>1. PICK c \in Tasks : continuation[c] = t /\ Stranded(c)
    BY <1>4, <1>5 DEF IInv, StrandedWait
  <2>2. Child(c, t)
    BY <2>1 DEF IInv, Alive, Stranded, Child
  <2> QED
    BY <1>4, <2>2
<1> QED
  BY <1>2, <1>3, <1>4, <1>5

LEMMA BelowRunning ==
  ASSUME IInv, NEW t \in Tasks, Running(t)
  PROVE  /\ GoodStack(Front(stack), used, continuation, attached)
         /\ \A u : \A q \in Resting :
              OnIn(Front(stack), u, q) <=>
                OnIn(stack, u, q) /\ ~(u = t /\ q = "body")
         /\ \A q \in Resting : ~OnIn(Front(stack), t, q)
         /\ Front(stack) # <<>> /\ Last(Front(stack)).at = "await" =>
              /\ continuation[t] = Last(Front(stack)).task
              /\ t \in attached
              /\ OnIn(stack, continuation[t], "await")
<1>1. stack # <<>> /\ Last(stack) = Entry(t, "body")
  BY DEF Running
<1>2. GoodStack(Front(stack), used, continuation, attached)
  BY <1>1, PopStack
<1>3. \A u, q : Last(stack) = Entry(u, q) <=> (u = t /\ q = "body")
  BY <1>1 DEF Entry
<1>4. \A u : \A q \in Resting :
        OnIn(Front(stack), u, q) <=>
          OnIn(stack, u, q) /\ ~(u = t /\ q = "body")
  BY <1>1, <1>3, PopStack
<1>5. \A q \in Resting : ~OnIn(Front(stack), t, q)
  BY <1>4, RunningTask DEF Resting
<1>6. Front(stack) # <<>> /\ Last(Front(stack)).at = "await" =>
        /\ continuation[t] = Last(Front(stack)).task
        /\ t \in attached
        /\ OnIn(stack, continuation[t], "await")
  <2>1. Last(stack).task = t
    BY <1>1 DEF Entry
  <2> QED
    BY <1>1, <2>1, PopStack
<1> QED
  BY <1>2, <1>4, <1>5, <1>6

LEMMA CallHostIInv ==
  ASSUME IInv, NEW t \in Tasks, CallHost(t)
  PROVE  IInv' /\ NoneEnds
<1>1. Running(t)
  BY DEF CallHost
<1>2. /\ t \in used /\ OnIn(stack, t, "body")
      /\ t \notin hung /\ ~OnIn(stack, t, "await")
  BY <1>1, RunningTask
<1>3. stack' = Front(stack)
  BY DEF CallHost
<1>4. GoodStack(stack', used, continuation, attached)
  BY <1>1, <1>3, BelowRunning
<1>5. \A u : \A q \in Resting :
        OnIn(stack', u, q) <=> OnIn(stack, u, q) /\ ~(u = t /\ q = "body")
  BY <1>1, <1>3, BelowRunning
<1>6. /\ \A u \in Tasks :
           /\ OnIn(stack', u, "await") <=> OnIn(stack, u, "await")
           /\ OnIn(stack', u, "final") <=> OnIn(stack, u, "final")
      /\ \A u \in Tasks \ {t} :
           OnIn(stack', u, "body") <=> OnIn(stack, u, "body")
      /\ ~OnIn(stack', t, "body")
  BY <1>5 DEF Resting
<1>7. /\ calls' = calls \cup {t} /\ hung' = hung
      /\ UNCHANGED <<used, destroyed, continuation, attached, leaked>>
  BY DEF CallHost
<1>8. /\ made' \in [Tasks -> 0 .. MaxCalls]
      /\ calls \subseteq used /\ hung \subseteq used
  BY GuestTasksAssumption DEF CallHost, IInv, TypeOK, GuestTasksAssumption
<1> QED
  BY <1>2, <1>4, <1>6, <1>7, <1>8, TaskMoves

LEMMA CallHostAtOnceIInv ==
  ASSUME IInv, NEW t \in Tasks, CallHostAtOnce(t)
  PROVE  IInv' /\ NoneEnds
<1> DEFINE low == Front(stack)
           mid == Append(low, Entry(t, "call"))
<1>1. Running(t)
  BY DEF CallHostAtOnce
<1>2. t \in used /\ OnIn(stack, t, "body")
  BY <1>1, RunningTask
<1>3. GoodStack(low, used, continuation, attached)
  BY <1>1, BelowRunning
<1>4. \A u : \A q \in Resting :
        OnIn(low, u, q) <=> OnIn(stack, u, q) /\ ~(u = t /\ q = "body")
  BY <1>1, BelowRunning
<1>5. low # <<>> /\ Last(low).at = "await" =>
        continuation[t] = Last(low).task /\ t \in attached
  BY <1>1, BelowRunning
<1>6. \A q \in Resting : ~OnIn(low, t, q)
  BY <1>1, BelowRunning
<1>7. stack' = Append(mid, Entry(t, "body"))
  <2>1. stack' = low \o <<Entry(t, "call"), Entry(t, "body")>>
    BY DEF CallHostAtOnce
  <2>2. low \in Seq(Entries(used))
    BY <1>3 DEF GoodStack
  <2>3. Entry(t, "call") \in Entries(used) /\ Entry(t, "body") \in Entries(used)
    BY <1>2, EntryType DEF Places
  <2> QED
    BY <2>1, <2>2, <2>3
<1> HIDE DEF low
<1>8. /\ GoodStack(mid, used, continuation, attached)
      /\ mid # <<>> /\ Last(mid) = Entry(t, "call")
      /\ \A u : \A q \in Resting :
           OnIn(mid, u, q) <=> OnIn(low, u, q) \/ (u = t /\ q = "call")
  BY <1>2, <1>3, <1>5, PushStack DEF Places
<1>9. Last(mid).at # "await" /\ \A q \in Resting : ~OnIn(mid, t, q)
  BY <1>6, <1>8 DEF Entry, Resting
<1> HIDE DEF mid
<1>10. /\ GoodStack(stack', used, continuation, attached)
       /\ \A u : \A q \in Resting :
           OnIn(stack', u, q) <=> OnIn(mid, u, q) \/ (u = t /\ q = "body")
  BY <1>2, <1>7, <1>8, <1>9, PushStack DEF Places
<1>11. \A u \in Tasks : \A q \in Resting : OnIn(stack', u, q) <=> OnIn(stack, u, q)
  BY <1>2, <1>4, <1>8, <1>10 DEF Resting
<1>12. \A u \in Tasks : /\ OnIn(stack', u, "body") <=> OnIn(stack, u, "body")
                        /\ OnIn(stack', u, "await") <=> OnIn(stack, u, "await")
                        /\ OnIn(stack', u, "final") <=> OnIn(stack, u, "final")
  BY <1>11 DEF Resting
<1>13. UNCHANGED <<used, destroyed, continuation, attached, leaked, calls, hung>>
  BY DEF CallHostAtOnce
<1>14. /\ made' \in [Tasks -> 0 .. MaxCalls]
       /\ calls \subseteq used /\ hung \subseteq used
  BY GuestTasksAssumption
     DEF CallHostAtOnce, IInv, TypeOK, GuestTasksAssumption
<1>15. GoodStack(stack', used, continuation, attached)
  BY <1>10
<1> QED
  BY <1>12, <1>13, <1>14, <1>15, TaskMoves

LEMMA CallReturnsIInv ==
  ASSUME IInv, NEW t \in Tasks, CallReturns(t)
  PROVE  IInv' /\ NoneEnds
<1>1. /\ stack # <<>> /\ Last(stack) = Entry(t, "call")
      /\ stack' = Front(stack)
      /\ UNCHANGED <<used, destroyed, continuation, attached, leaked, calls, hung>>
  BY DEF CallReturns
<1>2. GoodStack(stack', used, continuation, attached)
  BY <1>1, PopStack
<1>3. \A u : \A q \in Resting : Last(stack) # Entry(u, q)
  BY <1>1 DEF Entry, Resting
<1>4. \A u : \A q \in Resting : OnIn(stack', u, q) <=> OnIn(stack, u, q)
  BY <1>1, <1>3, PopStack
<1>5. \A u \in Tasks : /\ OnIn(stack', u, "body") <=> OnIn(stack, u, "body")
                       /\ OnIn(stack', u, "await") <=> OnIn(stack, u, "await")
                       /\ OnIn(stack', u, "final") <=> OnIn(stack, u, "final")
  BY <1>4 DEF Resting
<1>6. /\ made' \in [Tasks -> 0 .. MaxCalls]
      /\ calls \subseteq used /\ hung \subseteq used
  BY DEF CallReturns, IInv, TypeOK
<1> QED
  BY <1>1, <1>2, <1>5, <1>6, TaskMoves

LEMMA HostAnswersIInv ==
  ASSUME IInv, NEW t \in Tasks, HostAnswers(t)
  PROVE  IInv' /\ NoneEnds
<1>1. /\ stack = <<>> /\ t \in calls /\ calls' = calls \ {t}
      /\ stack' = <<Entry(t, "body")>>
      /\ UNCHANGED <<used, destroyed, continuation, attached, leaked, hung, made>>
  BY DEF HostAnswers, OutstandingAfter
<1>2. /\ t \in used /\ t \notin hung
      /\ calls \subseteq used /\ hung \subseteq used
      /\ made \in [Tasks -> 0 .. MaxCalls]
  BY <1>1 DEF IInv, TypeOK, Waiting
<1>3. GoodStack(stack, used, continuation, attached)
  BY StackIsGood
<1>4. \A u, q : ~OnIn(stack, u, q)
  BY <1>1 DEF OnIn
<1>5. stack' = Append(stack, Entry(t, "body"))
  BY <1>1
<1>6a. "body" \in Places /\ ~(stack # <<>> /\ Last(stack).at = "await")
  BY <1>1 DEF Places
<1>6b. GoodStack(stack', used, continuation, attached)
  BY <1>2, <1>3, <1>4, <1>5, <1>6a, PushStack
<1>6. \A u : \A q \in Resting :
        OnIn(stack', u, q) <=> OnIn(stack, u, q) \/ (u = t /\ q = "body")
  BY <1>2, <1>3, <1>4, <1>5, <1>6a, PushStack
<1>7. /\ \A u \in Tasks :
           /\ OnIn(stack', u, "await") <=> OnIn(stack, u, "await")
           /\ OnIn(stack', u, "final") <=> OnIn(stack, u, "final")
      /\ \A u \in Tasks \ {t} :
           OnIn(stack', u, "body") <=> OnIn(stack, u, "body")
      /\ OnIn(stack', t, "body")
  BY <1>6 DEF Resting
<1> QED
  BY <1>1, <1>2, <1>4, <1>6b, <1>7, TaskMoves

LEMMA HostFailsIInv ==
  ASSUME IInv, NEW t \in Tasks, HostFails(t)
  PROVE  IInv' /\ NoneEnds
<1>1. /\ stack = <<>> /\ t \in calls /\ calls' = calls \ {t}
      /\ hung' = hung \cup {t}
      /\ UNCHANGED <<used, destroyed, continuation, attached, leaked, stack, made>>
  BY DEF HostFails, OutstandingAfter
<1>2. /\ t \in used
      /\ calls \subseteq used /\ hung \subseteq used
      /\ made \in [Tasks -> 0 .. MaxCalls]
  BY <1>1 DEF IInv, TypeOK
<1>3. GoodStack(stack', used, continuation, attached)
  BY <1>1, StackIsGood
<1>4. \A u, q : ~OnIn(stack, u, q)
  BY <1>1 DEF OnIn
<1> QED
  BY <1>1, <1>2, <1>3, <1>4, TaskMoves

-----------------------------------------------------------------------------
(* Steps that create a task                                                *)

(* A task that has not been created is nowhere.                            *)
LEMMA FreshTask ==
  ASSUME IInv, NEW t \in Tasks, t \notin used
  PROVE  /\ destroyed[t] = 0 /\ continuation[t] = NoTask
         /\ ~Live(t)
         /\ t \notin calls \cup hung \cup attached \cup leaked
         /\ \A q \in Resting : ~OnIn(stack, t, q)
         /\ \A c \in Tasks : continuation[c] # t
<1>1. /\ destroyed[t] = 0 /\ continuation[t] = NoTask /\ ~Live(t)
      /\ t \notin calls \cup hung \cup attached \cup leaked
  BY DEF IInv, TypeOK, Fresh, Live
<1>2. \A q \in Resting : ~OnIn(stack, t, q)
  BY <1>1 DEF IInv, Alive, On, Unfinished, Resting
<1>3. \A c \in Tasks : continuation[c] # t
  BY GuestTasksAssumption DEF IInv, Fresh, GuestTasksAssumption
<1> QED
  BY <1>1, <1>2, <1>3

LEMMA StartIInv ==
  ASSUME IInv, NEW t \in Tasks, Start(t)
  PROVE  IInv' /\ NoneEnds
<1>1. /\ stack # <<>> => Last(stack).at = "body"
      /\ t \notin used /\ used' = used \cup {t}
      /\ stack' = Append(stack, Entry(t, "body"))
      /\ UNCHANGED <<destroyed, continuation, attached, calls, hung, made, leaked>>
  BY DEF Start
<1>2. /\ destroyed[t] = 0 /\ continuation[t] = NoTask
      /\ t \notin calls \cup hung \cup attached \cup leaked
      /\ \A q \in Resting : ~OnIn(stack, t, q)
      /\ \A c \in Tasks : continuation[c] # t
  BY <1>1, FreshTask
<1>3. GoodStack(stack, used', continuation, attached)
  BY <1>1, StackIsGood, StackMonotone DEF GoodStack
<1>4. t \in used' /\ "body" \in Places
      /\ ~(stack # <<>> /\ Last(stack).at = "await")
  BY <1>1 DEF Places
<1>5. GoodStack(stack', used', continuation', attached')
  BY <1>1, <1>2, <1>3, <1>4, PushStack
<1>6. \A u : \A q \in Resting :
        OnIn(stack', u, q) <=> OnIn(stack, u, q) \/ (u = t /\ q = "body")
  BY <1>1, <1>2, <1>3, <1>4, PushStack
<1>7. /\ \A u \in Tasks :
           /\ OnIn(stack', u, "await") <=> OnIn(stack, u, "await")
           /\ OnIn(stack', u, "final") <=> OnIn(stack, u, "final")
           /\ OnIn(stack', u, "body") <=> OnIn(stack, u, "body") \/ u = t
      /\ ~OnIn(stack, t, "await") /\ ~OnIn(stack, t, "final")
  BY <1>2, <1>6 DEF Resting
<1>8. TypesBut' /\ DestroyedOnce' /\ Fresh'
  BY <1>1 DEF IInv, TypeOK, TypesBut, DestroyedOnce, Fresh
<1>9. /\ \A u \in Tasks \ {t} : Unfinished(u)' <=> Unfinished(u)
      /\ Unfinished(t)' /\ ~Unfinished(t)
      /\ \A u \in Tasks : Live(u) => Live(u)'
  BY <1>1, <1>2, <1>7 DEF Unfinished, Live, On
<1>10. \A c, p \in Tasks : Child(c, p)' <=> Child(c, p)
  BY <1>1, <1>2, <1>9, GuestTasksAssumption DEF Child, GuestTasksAssumption
<1>11. /\ calls \subseteq Tasks \ {t} /\ hung \subseteq Tasks \ {t}
       /\ attached \subseteq Tasks \ {t}
  BY <1>2 DEF IInv, TypeOK
<1>12. Alive'
  <2>1. \A u \in Tasks : OnIn(stack', u, "body") \/ OnIn(stack', u, "await")
                           => Unfinished(u)'
    BY <1>7, <1>9 DEF IInv, Alive, On
  <2>2. \A u \in Tasks : OnIn(stack', u, "final") => Live(u)'
    BY <1>7, <1>9 DEF IInv, Alive, On
  <2>3. \A u \in calls' \cup hung' \cup attached' : Unfinished(u)'
    BY <1>1, <1>9, <1>11 DEF IInv, Alive
  <2>4. \A u \in attached' : continuation'[u] # NoTask
    BY <1>1 DEF IInv, Alive
  <2>5. \A c, p \in Tasks : Child(c, p)' => Unfinished(p)'
    BY <1>9, <1>10 DEF IInv, Alive
  <2> QED
    BY <2>1, <2>2, <2>3, <2>4, <2>5 DEF Alive, On
<1>13. Waiting'
  <2> SUFFICES ASSUME NEW u \in Tasks
      PROVE /\ OnIn(stack', u, "body") =>
                 /\ u \notin calls \cup hung /\ ~OnIn(stack', u, "await")
                 /\ \A c \in Tasks : ~Child(c, u)
            /\ u \in calls => u \notin hung /\ \A c \in Tasks : ~Child(c, u)
            /\ u \in hung => \A c \in Tasks : ~Child(c, u)
            /\ OnIn(stack', u, "await") => \E c \in Tasks : Child(c, u)
            /\ \A c, d \in Tasks : Child(c, u) /\ Child(d, u) => c = d
            /\ Unfinished(u)' =>
                 \/ OnIn(stack', u, "body") \/ u \in calls \cup hung
                 \/ \E c \in Tasks : Child(c, u)
    BY <1>1, <1>10, Zenon DEF Waiting, On
  <2>1. CASE u # t
    BY <1>7, <1>9, <2>1 DEF IInv, Waiting, On
  <2>2. CASE u = t
    BY <1>2, <1>7, <2>2 DEF Child
  <2> QED
    BY <2>1, <2>2
<1>14. StrandedWait'
  <2>1. \A u \in Tasks : Stranded(u)' <=> Stranded(u)
    <3>1. \A u \in attached : continuation[u] \in Tasks
      BY DEF IInv, TypeOK, Alive
    <3> QED
      BY <1>1, <1>7, <3>1 DEF Stranded, On
  <2> QED
    BY <1>1, <2>1 DEF IInv, StrandedWait
<1>n. NoneEnds
  BY <1>9 DEF NoneEnds
<1> QED
  BY <1>5, <1>8, <1>12, <1>13, <1>14, PartsNext, <1>n

LEMMA DiscardIInv ==
  ASSUME IInv, NEW t \in Tasks, Discard(t)
  PROVE  IInv' /\ NoneEnds
<1>1. /\ t \notin used /\ used' = used \cup {t}
      /\ destroyed' = [destroyed EXCEPT ![t] = @ + 1]
      /\ UNCHANGED <<continuation, attached, stack, calls, hung, made, leaked>>
  BY DEF Discard
<1>2. /\ destroyed[t] = 0 /\ ~Live(t)
      /\ t \notin calls \cup hung \cup attached \cup leaked
      /\ \A q \in Resting : ~OnIn(stack, t, q)
  BY <1>1, FreshTask
<1>3. GoodStack(stack', used', continuation', attached')
  BY <1>1, StackIsGood, StackMonotone DEF GoodStack
<1>4. /\ destroyed' \in [Tasks -> Nat] /\ destroyed'[t] = 1
      /\ \A u \in Tasks \ {t} : destroyed'[u] = destroyed[u]
  BY <1>1, <1>2 DEF IInv, TypeOK
<1>5. TypesBut' /\ DestroyedOnce' /\ Fresh'
  BY <1>1, <1>4 DEF IInv, TypeOK, TypesBut, DestroyedOnce, Fresh
<1>6. \A u \in Tasks : Live(u)' <=> Live(u)
  BY <1>1, <1>2, <1>4 DEF Live
<1>7. \A u \in Tasks : Unfinished(u)' <=> Unfinished(u)
  BY <1>1, <1>6 DEF Unfinished, On
<1>8. \A c, p \in Tasks : Child(c, p)' <=> Child(c, p)
  BY <1>1, <1>7 DEF Child
<1>9. /\ calls \subseteq Tasks /\ hung \subseteq Tasks /\ attached \subseteq Tasks
  BY DEF IInv, TypeOK
<1>10. Alive'
  <2>1. \A u \in Tasks : OnIn(stack', u, "body") \/ OnIn(stack', u, "await")
                           => Unfinished(u)'
    BY <1>1, <1>7 DEF IInv, Alive, On
  <2>2. \A u \in Tasks : OnIn(stack', u, "final") => Live(u)'
    BY <1>1, <1>6 DEF IInv, Alive, On
  <2>3. \A u \in calls' \cup hung' \cup attached' : Unfinished(u)'
    BY <1>1, <1>7, <1>9 DEF IInv, Alive
  <2>4. \A u \in attached' : continuation'[u] # NoTask
    BY <1>1 DEF IInv, Alive
  <2>5. \A c, p \in Tasks : Child(c, p)' => Unfinished(p)'
    BY <1>7, <1>8 DEF IInv, Alive
  <2> QED
    BY <2>1, <2>2, <2>3, <2>4, <2>5 DEF Alive, On
<1>11. Waiting'
  BY <1>1, <1>7, <1>8, Zenon DEF IInv, Waiting, On
<1>12. StrandedWait'
  <2>1. \A u \in Tasks : Stranded(u)' <=> Stranded(u)
    BY <1>1 DEF Stranded, On
  <2> QED
    BY <1>1, <2>1 DEF IInv, StrandedWait
<1>n. NoneEnds
  BY <1>7 DEF NoneEnds
<1> QED
  BY <1>3, <1>5, <1>10, <1>11, <1>12, PartsNext, <1>n

-----------------------------------------------------------------------------
(* Awaiting a task, and the end of one                                     *)

(* Tasks that are created, or held, beside those of a stack do not matter  *)
(* to it.                                                                  *)
LEMMA GoodStackMonotone ==
  ASSUME NEW s, NEW tasks, NEW parent, NEW held,
         GoodStack(s, tasks, parent, held),
         NEW more, tasks \subseteq more,
         NEW parent2, \A u \in tasks : parent2[u] = parent[u],
         NEW held2, held \subseteq held2
  PROVE  GoodStack(s, more, parent2, held2)
<1>1. /\ s \in Seq(Entries(tasks)) /\ OneEntryIn(s)
      /\ AwaitedIn(s, parent, held)
  BY DEF GoodStack
<1>2. s \in Seq(Entries(more))
  BY <1>1, StackMonotone
<1>3. AwaitedIn(s, parent2, held2)
  <2> SUFFICES ASSUME NEW i \in 1 .. Len(s), s[i].at = "await", i < Len(s)
               PROVE  /\ parent2[s[i + 1].task] = s[i].task
                      /\ s[i + 1].task \in held2
                      /\ s[i + 1].at # "final"
    BY DEF AwaitedIn
  <2>0. Len(s) \in Nat
    BY <1>1
  <2>1. i + 1 \in 1 .. Len(s)
    BY <2>0
  <2>2. s[i + 1] \in Entries(tasks)
    BY <1>1, <2>1, ElementOfSeq
  <2>3. s[i + 1].task \in tasks
    BY <2>2, EntryParts
  <2>4. /\ parent[s[i + 1].task] = s[i].task
        /\ s[i + 1].task \in held
        /\ s[i + 1].at # "final"
    BY <1>1 DEF AwaitedIn
  <2> QED
    BY <2>3, <2>4
<1> QED
  BY <1>1, <1>2, <1>3 DEF GoodStack

LEMMA AwaitStack ==
  ASSUME IInv, NEW p \in Tasks, NEW t \in Tasks, Await(p, t)
  PROVE  /\ GoodStack(stack', used', continuation', attached')
         /\ \A u \in Tasks :
              /\ OnIn(stack', u, "body") <=>
                   (OnIn(stack, u, "body") /\ u # p) \/ u = t
              /\ OnIn(stack', u, "await") <=> OnIn(stack, u, "await") \/ u = p
              /\ OnIn(stack', u, "final") <=> OnIn(stack, u, "final")
<1> DEFINE low == Front(stack)
           mid == Append(low, Entry(p, "await"))
<1>1. /\ Running(p) /\ t \notin used /\ used' = used \cup {t}
      /\ continuation' = [continuation EXCEPT ![t] = p]
      /\ attached' = attached \cup {t}
      /\ stack' = low \o <<Entry(p, "await"), Entry(t, "body")>>
  BY DEF Await
<1>2. p \in used /\ p # t
  BY <1>1, RunningTask
<1>3. /\ \A u \in used : continuation'[u] = continuation[u]
      /\ continuation'[t] = p
  BY <1>1 DEF IInv, TypeOK
<1>4. GoodStack(low, used, continuation, attached)
  BY <1>1, BelowRunning
<1>5. GoodStack(low, used', continuation', attached')
  <2>1. used \subseteq used' /\ attached \subseteq attached'
    BY <1>1
  <2> HIDE DEF low
  <2> QED
    BY <1>3, <1>4, <2>1, GoodStackMonotone
<1>6. \A u : \A q \in Resting :
        OnIn(low, u, q) <=> OnIn(stack, u, q) /\ ~(u = p /\ q = "body")
  BY <1>1, BelowRunning
<1>7. low # <<>> /\ Last(low).at = "await" =>
        continuation'[p] = Last(low).task /\ p \in attached'
  BY <1>1, <1>2, <1>3, BelowRunning
<1>8. \A q \in Resting : ~OnIn(low, p, q)
  BY <1>1, BelowRunning
<1>9. \A q \in Resting : ~OnIn(low, t, q)
  BY <1>1, <1>6, FreshTask
<1>10. stack' = Append(mid, Entry(t, "body"))
  <2>1. low \in Seq(Entries(used))
    BY <1>4 DEF GoodStack
  <2>2. low \in Seq(Entries(used'))
    BY <1>5 DEF GoodStack
  <2>3. Entry(p, "await") \in Entries(used') /\ Entry(t, "body") \in Entries(used')
    BY <1>1, <1>2, EntryType DEF Places
  <2> HIDE DEF low
  <2> QED
    BY <1>1, <2>2, <2>3
<1> HIDE DEF low
<1>11a. p \in used' /\ t \in used' /\ "await" \in Places /\ "body" \in Places
  BY <1>1, <1>2 DEF Places
<1>11. GoodStack(mid, used', continuation', attached')
  BY <1>5, <1>7, <1>8, <1>11a, PushStack
<1>12. mid # <<>> /\ Last(mid) = Entry(p, "await")
  BY <1>5, <1>7, <1>8, <1>11a, PushStack
<1>13. \A u : \A q \in Resting :
         OnIn(mid, u, q) <=> OnIn(low, u, q) \/ (u = p /\ q = "await")
  BY <1>5, <1>7, <1>8, <1>11a, PushStack
<1>14. /\ Last(mid).task = p
       /\ \A q \in Resting : ~OnIn(mid, t, q)
  BY <1>2, <1>9, <1>12, <1>13 DEF Entry
<1> HIDE DEF mid
<1>15. mid # <<>> /\ Last(mid).at = "await" =>
         continuation'[t] = Last(mid).task /\ t \in attached'
  BY <1>1, <1>3, <1>14
<1>16. GoodStack(stack', used', continuation', attached')
  BY <1>10, <1>11, <1>11a, <1>14, <1>15, PushStack
<1>17. \A u : \A q \in Resting :
         OnIn(stack', u, q) <=> OnIn(mid, u, q) \/ (u = t /\ q = "body")
  BY <1>10, <1>11, <1>11a, <1>14, <1>15, PushStack
<1>18. \A u : \A q \in Resting :
         OnIn(stack', u, q) <=> \/ OnIn(stack, u, q) /\ ~(u = p /\ q = "body")
                                \/ u = p /\ q = "await"
                                \/ u = t /\ q = "body"
  BY <1>6, <1>13, <1>17
<1> QED
  BY <1>16, <1>18 DEF Resting

LEMMA AwaitIInv ==
  ASSUME IInv, NEW p \in Tasks, NEW t \in Tasks, Await(p, t)
  PROVE  IInv' /\ NoneEnds
<1>1. /\ Running(p) /\ t \notin used /\ used' = used \cup {t}
      /\ continuation' = [continuation EXCEPT ![t] = p]
      /\ attached' = attached \cup {t}
      /\ UNCHANGED <<destroyed, calls, hung, made, leaked>>
  BY DEF Await
<1>2. /\ p \in used /\ p # t /\ Unfinished(p) /\ p \notin calls \cup hung
      /\ OnIn(stack, p, "body")
      /\ ~OnIn(stack, p, "await") /\ ~OnIn(stack, p, "final")
      /\ \A c \in Tasks : ~Child(c, p)
  BY <1>1, RunningTask
<1>3. /\ destroyed[t] = 0 /\ continuation[t] = NoTask /\ ~Live(t)
      /\ t \notin calls \cup hung \cup attached \cup leaked
      /\ ~OnIn(stack, t, "body") /\ ~OnIn(stack, t, "await")
      /\ ~OnIn(stack, t, "final")
      /\ \A c \in Tasks : continuation[c] # t
  BY <1>1, FreshTask DEF Resting
<1>4. /\ continuation' \in [Tasks -> Tasks \cup {NoTask}]
      /\ continuation'[t] = p
      /\ \A u \in Tasks \ {t} : continuation'[u] = continuation[u]
      /\ calls \subseteq Tasks \ {t} /\ hung \subseteq Tasks \ {t}
      /\ attached \subseteq Tasks \ {t} /\ NoTask \notin Tasks
  BY <1>1, <1>3, GuestTasksAssumption DEF IInv, TypeOK, GuestTasksAssumption
<1>5. /\ GoodStack(stack', used', continuation', attached')
      /\ \A u \in Tasks :
           /\ OnIn(stack', u, "body") <=>
                (OnIn(stack, u, "body") /\ u # p) \/ u = t
           /\ OnIn(stack', u, "await") <=> OnIn(stack, u, "await") \/ u = p
           /\ OnIn(stack', u, "final") <=> OnIn(stack, u, "final")
  BY AwaitStack
<1>6. TypesBut' /\ DestroyedOnce'
  BY <1>1, <1>4 DEF IInv, TypeOK, TypesBut, DestroyedOnce
<1>7. Fresh'
  BY <1>1, <1>2, <1>4 DEF IInv, Fresh
<1>8. /\ \A u \in Tasks \ {t} : Unfinished(u)' <=> Unfinished(u)
      /\ Unfinished(t)' /\ ~Unfinished(t)
      /\ \A u \in Tasks : Live(u) => Live(u)'
  BY <1>1, <1>3, <1>5 DEF Unfinished, Live, On
<1>9. \A c, u \in Tasks : Child(c, u)' <=> Child(c, u) \/ (c = t /\ u = p)
  BY <1>3, <1>4, <1>8 DEF Child
<1>10. Alive'
  <2>1. \A u \in Tasks : OnIn(stack', u, "body") \/ OnIn(stack', u, "await")
                           => Unfinished(u)'
    BY <1>2, <1>5, <1>8 DEF IInv, Alive, On
  <2>2. \A u \in Tasks : OnIn(stack', u, "final") => Live(u)'
    BY <1>5, <1>8 DEF IInv, Alive, On
  <2>3. \A u \in calls' \cup hung' \cup attached' : Unfinished(u)'
    BY <1>1, <1>4, <1>8 DEF IInv, Alive
  <2>4. \A u \in attached' : continuation'[u] # NoTask
    BY <1>1, <1>4 DEF IInv, Alive
  <2>5. \A c, u \in Tasks : Child(c, u)' => Unfinished(u)'
    BY <1>2, <1>8, <1>9 DEF IInv, Alive
  <2> QED
    BY <2>1, <2>2, <2>3, <2>4, <2>5 DEF Alive, On
<1>11. Waiting'
  <2> SUFFICES ASSUME NEW u \in Tasks
      PROVE /\ OnIn(stack', u, "body") =>
                 /\ u \notin calls \cup hung /\ ~OnIn(stack', u, "await")
                 /\ \A c \in Tasks : ~Child(c, u)'
            /\ u \in calls => u \notin hung /\ \A c \in Tasks : ~Child(c, u)'
            /\ u \in hung => \A c \in Tasks : ~Child(c, u)'
            /\ OnIn(stack', u, "await") => \E c \in Tasks : Child(c, u)'
            /\ \A c, d \in Tasks : Child(c, u)' /\ Child(d, u)' => c = d
            /\ Unfinished(u)' =>
                 \/ OnIn(stack', u, "body") \/ u \in calls \cup hung
                 \/ \E c \in Tasks : Child(c, u)'
    BY <1>1, Zenon DEF Waiting, On
  <2>1. CASE u # t /\ u # p
    <3>1. \A c \in Tasks : Child(c, u)' <=> Child(c, u)
      BY <1>9, <2>1
    <3> QED
      BY <1>5, <1>8, <2>1, <3>1 DEF IInv, Waiting, On
  <2>2. CASE u = t
    <3>1. \A c \in Tasks : ~Child(c, t)'
      BY <1>2, <1>3, <1>9 DEF Child
    <3> QED
      BY <1>2, <1>3, <1>5, <2>2, <3>1
  <2>3. CASE u = p
    <3>1. \A c \in Tasks : Child(c, p)' <=> c = t
      BY <1>2, <1>9
    <3> QED
      BY <1>2, <1>5, <2>3, <3>1
  <2> QED
    BY <2>1, <2>2, <2>3
<1>12. StrandedWait'
  <2>1. \A u \in Tasks \ {t} : Stranded(u)' <=> Stranded(u)
    <3> SUFFICES ASSUME NEW u \in attached
                 PROVE  OnIn(stack', continuation[u], "await")
                          <=> OnIn(stack, continuation[u], "await")
      BY <1>1, <1>4 DEF Stranded, On
    <3>1. continuation[u] \in Tasks /\ Child(u, continuation[u])
      BY DEF IInv, TypeOK, Alive, Child
    <3>2. continuation[u] # p
      BY <1>2, <1>4, <3>1
    <3> QED
      BY <1>5, <3>1, <3>2
  <2>2. ~Stranded(t)'
    BY <1>4, <1>5 DEF Stranded, On
  <2> SUFFICES ASSUME NEW u \in Tasks, Stranded(u)'
               PROVE  \/ u \in hung
                      \/ \E c \in Tasks : continuation'[c] = u /\ Stranded(c)'
    BY <1>1, Zenon DEF StrandedWait
  <2>3. u # t /\ Stranded(u)
    BY <2>1, <2>2
  <2>4. \/ u \in hung
        \/ \E c \in Tasks : continuation[c] = u /\ Stranded(c)
    BY <2>3 DEF IInv, StrandedWait
  <2>5. ~Stranded(t)
    BY <1>3 DEF Stranded
  <2> QED
    BY <1>4, <2>1, <2>4, <2>5
<1>n. NoneEnds
  BY <1>8 DEF NoneEnds
<1> QED
  BY <1>5, <1>6, <1>7, <1>10, <1>11, <1>12, PartsNext, <1>n

LEMMA DetachIInv ==
  ASSUME IInv, NEW p \in Tasks, Detach(p)
  PROVE  IInv' /\ NoneEnds
<1>1. /\ stack # <<>> /\ Last(stack) = Entry(p, "await")
      /\ attached' = {t \in attached : continuation[t] # p}
      /\ stack' = Front(stack)
      /\ UNCHANGED <<used, destroyed, continuation, calls, hung, made, leaked>>
  BY DEF Detach, AttachedAfter
<1>2. \A u, q : Last(stack) = Entry(u, q) <=> (u = p /\ q = "await")
  BY <1>1 DEF Entry
<1>3. \A u : \A q \in Resting :
        OnIn(stack', u, q) <=> OnIn(stack, u, q) /\ ~(u = p /\ q = "await")
  BY <1>1, <1>2, PopStack
<1>4. /\ \A u \in Tasks :
           /\ OnIn(stack', u, "body") <=> OnIn(stack, u, "body")
           /\ OnIn(stack', u, "await") <=> OnIn(stack, u, "await") /\ u # p
           /\ OnIn(stack', u, "final") <=> OnIn(stack, u, "final")
      /\ OnIn(stack, p, "await")
  <2>1. OnIn(stack, p, "await")
    BY <1>1, PopStack DEF Entry
  <2> QED
    BY <1>3, <2>1 DEF Resting
<1>5. GoodStack(stack', used', continuation', attached')
  <2>1. GoodStack(Front(stack), used, continuation, attached)
    BY <1>1, PopStack
  <2>2. /\ stack' \in Seq(Entries(used)) /\ OneEntryIn(stack')
        /\ AwaitedIn(stack', continuation, attached)
    BY <1>1, <2>1 DEF GoodStack
  <2>3. AwaitedIn(stack', continuation, attached')
    <3> SUFFICES ASSUME NEW i \in 1 .. Len(stack'), stack'[i].at = "await",
                        i < Len(stack')
                 PROVE  /\ continuation[stack'[i + 1].task] = stack'[i].task
                        /\ stack'[i + 1].task \in attached'
                        /\ stack'[i + 1].at # "final"
      BY DEF AwaitedIn
    <3>1. /\ continuation[stack'[i + 1].task] = stack'[i].task
          /\ stack'[i + 1].task \in attached
          /\ stack'[i + 1].at # "final"
      BY <2>2 DEF AwaitedIn
    <3>2. stack'[i] \in Entries(used)
      BY <2>2, ElementOfSeq
    <3>3. stack'[i] = Entry(stack'[i].task, "await") /\ stack'[i].task \in used
      BY <3>2, EntryParts
    <3>4. OnIn(stack', stack'[i].task, "await")
      BY <3>3 DEF OnIn
    <3>5. stack'[i].task # p
      BY <1>3, <3>4 DEF Resting
    <3> QED
      BY <1>1, <3>1, <3>5
  <2> QED
    BY <1>1, <2>2, <2>3 DEF GoodStack
<1>6. TypesBut' /\ DestroyedOnce' /\ Fresh'
  BY <1>1 DEF IInv, TypeOK, TypesBut, DestroyedOnce, Fresh
<1>7. \A u \in Tasks : (Live(u)' <=> Live(u)) /\ (Unfinished(u)' <=> Unfinished(u))
  BY <1>1, <1>4 DEF Unfinished, Live, On
<1>8. \A c, u \in Tasks : Child(c, u)' <=> Child(c, u)
  BY <1>1, <1>7 DEF Child
<1>9. /\ calls \subseteq Tasks /\ hung \subseteq Tasks /\ attached \subseteq Tasks
      /\ attached' \subseteq attached
  BY <1>1 DEF IInv, TypeOK
<1>10. Alive'
  <2>1. \A u \in Tasks : OnIn(stack', u, "body") \/ OnIn(stack', u, "await")
                           => Unfinished(u)'
    BY <1>4, <1>7 DEF IInv, Alive, On
  <2>2. \A u \in Tasks : OnIn(stack', u, "final") => Live(u)'
    BY <1>4, <1>7 DEF IInv, Alive, On
  <2>3. \A u \in calls' \cup hung' \cup attached' : Unfinished(u)'
    BY <1>1, <1>7, <1>9 DEF IInv, Alive
  <2>4. \A u \in attached' : continuation'[u] # NoTask
    BY <1>1, <1>9 DEF IInv, Alive
  <2>5. \A c, u \in Tasks : Child(c, u)' => Unfinished(u)'
    BY <1>7, <1>8 DEF IInv, Alive
  <2> QED
    BY <2>1, <2>2, <2>3, <2>4, <2>5 DEF Alive, On
<1>11. Waiting'
  <2> SUFFICES ASSUME NEW u \in Tasks
      PROVE /\ OnIn(stack', u, "body") =>
                 /\ u \notin calls \cup hung /\ ~OnIn(stack', u, "await")
                 /\ \A c \in Tasks : ~Child(c, u)
            /\ u \in calls => u \notin hung /\ \A c \in Tasks : ~Child(c, u)
            /\ u \in hung => \A c \in Tasks : ~Child(c, u)
            /\ OnIn(stack', u, "await") => \E c \in Tasks : Child(c, u)
            /\ \A c, d \in Tasks : Child(c, u) /\ Child(d, u) => c = d
            /\ Unfinished(u) =>
                 \/ OnIn(stack', u, "body") \/ u \in calls \cup hung
                 \/ \E c \in Tasks : Child(c, u)
    BY <1>1, <1>7, <1>8, Zenon DEF Waiting, On
  <2> QED
    BY <1>4 DEF IInv, Waiting, On
<1>12. StrandedWait'
  <2>1. \A u \in Tasks : Stranded(u)' <=> Stranded(u)
    <3>1. \A u \in attached : continuation[u] \in Tasks
      BY DEF IInv, TypeOK, Alive
    <3> QED
      BY <1>1, <1>4, <3>1 DEF Stranded, On
  <2> QED
    BY <1>1, <2>1 DEF IInv, StrandedWait
<1>n. NoneEnds
  BY <1>7 DEF NoneEnds
<1> QED
  BY <1>5, <1>6, <1>10, <1>11, <1>12, PartsNext, <1>n

LEMMA FinalReturnsIInv ==
  ASSUME IInv, NEW t \in Tasks, FinalReturns(t)
  PROVE  IInv' /\ NoneEnds
<1>1. /\ stack # <<>> /\ Last(stack) = Entry(t, "final")
      /\ destroyed' = [destroyed EXCEPT ![t] = @ + 1]
      /\ stack' = Front(stack)
      /\ UNCHANGED <<used, continuation, attached, calls, hung, made, leaked>>
  BY DEF FinalReturns
<1>2. \A u, q : Last(stack) = Entry(u, q) <=> (u = t /\ q = "final")
  BY <1>1 DEF Entry
<1>3. \A u : \A q \in Resting :
        OnIn(stack', u, q) <=> OnIn(stack, u, q) /\ ~(u = t /\ q = "final")
  BY <1>1, <1>2, PopStack
<1>4. /\ \A u \in Tasks :
           /\ OnIn(stack', u, "body") <=> OnIn(stack, u, "body")
           /\ OnIn(stack', u, "await") <=> OnIn(stack, u, "await")
           /\ OnIn(stack', u, "final") <=> OnIn(stack, u, "final") /\ u # t
      /\ OnIn(stack, t, "final")
  <2>1. OnIn(stack, t, "final")
    BY <1>1, PopStack DEF Entry
  <2> QED
    BY <1>3, <2>1 DEF Resting
<1>5. GoodStack(stack', used', continuation', attached')
  BY <1>1, PopStack
<1>6. /\ Live(t) /\ destroyed[t] = 0 /\ destroyed'[t] = 1
      /\ destroyed' \in [Tasks -> Nat]
      /\ \A u \in Tasks \ {t} : destroyed'[u] = destroyed[u]
  BY <1>1, <1>4 DEF IInv, Alive, On, Live, TypeOK
<1>7. TypesBut' /\ DestroyedOnce' /\ Fresh'
  BY <1>1, <1>6 DEF IInv, TypeOK, TypesBut, DestroyedOnce, Fresh, Live
<1>8. \A u \in Tasks : Live(u)' <=> Live(u) /\ u # t
  BY <1>1, <1>6 DEF Live
<1>9. \A u \in Tasks : Unfinished(u)' <=> Unfinished(u)
  BY <1>4, <1>8 DEF Unfinished, On
<1>10. \A c, u \in Tasks : Child(c, u)' <=> Child(c, u)
  BY <1>1, <1>9 DEF Child
<1>11. /\ calls \subseteq Tasks /\ hung \subseteq Tasks /\ attached \subseteq Tasks
  BY DEF IInv, TypeOK
<1>12. Alive'
  <2>1. \A u \in Tasks : OnIn(stack', u, "body") \/ OnIn(stack', u, "await")
                           => Unfinished(u)'
    BY <1>4, <1>9 DEF IInv, Alive, On
  <2>2. \A u \in Tasks : OnIn(stack', u, "final") => Live(u)'
    BY <1>4, <1>8 DEF IInv, Alive, On
  <2>3. \A u \in calls' \cup hung' \cup attached' : Unfinished(u)'
    BY <1>1, <1>9, <1>11 DEF IInv, Alive
  <2>4. \A u \in attached' : continuation'[u] # NoTask
    BY <1>1 DEF IInv, Alive
  <2>5. \A c, u \in Tasks : Child(c, u)' => Unfinished(u)'
    BY <1>9, <1>10 DEF IInv, Alive
  <2> QED
    BY <2>1, <2>2, <2>3, <2>4, <2>5 DEF Alive, On
<1>13. Waiting'
  <2> SUFFICES ASSUME NEW u \in Tasks
      PROVE /\ OnIn(stack', u, "body") =>
                 /\ u \notin calls \cup hung /\ ~OnIn(stack', u, "await")
                 /\ \A c \in Tasks : ~Child(c, u)
            /\ u \in calls => u \notin hung /\ \A c \in Tasks : ~Child(c, u)
            /\ u \in hung => \A c \in Tasks : ~Child(c, u)
            /\ OnIn(stack', u, "await") => \E c \in Tasks : Child(c, u)
            /\ \A c, d \in Tasks : Child(c, u) /\ Child(d, u) => c = d
            /\ Unfinished(u) =>
                 \/ OnIn(stack', u, "body") \/ u \in calls \cup hung
                 \/ \E c \in Tasks : Child(c, u)
    BY <1>1, <1>9, <1>10, Zenon DEF Waiting, On
  <2> QED
    BY <1>4 DEF IInv, Waiting, On
<1>14. StrandedWait'
  <2>1. \A u \in Tasks : Stranded(u)' <=> Stranded(u)
    <3>1. \A u \in attached : continuation[u] \in Tasks
      BY DEF IInv, TypeOK, Alive
    <3> QED
      BY <1>1, <1>4, <3>1 DEF Stranded, On
  <2> QED
    BY <1>1, <2>1 DEF IInv, StrandedWait
<1>n. NoneEnds
  BY <1>9 DEF NoneEnds
<1> QED
  BY <1>5, <1>7, <1>12, <1>13, <1>14, PartsNext, <1>n

(* A task that an await_suspend still holds does not end: so the Task      *)
(* object that destroys its frame finds it never on the stack.             *)
LEMMA FinishingTask ==
  ASSUME IInv, ~MayFinishAtOnce, NEW t \in Tasks, Finish(t)
  PROVE  /\ ~OnIn(stack, continuation[t], "await")
         /\ t \notin attached
         /\ destroyed' = destroyed /\ attached' = attached
<1>1. Running(t) /\ ~InAwaitSuspend(t)
  BY DEF Finish
<1>2. ~OnIn(stack, continuation[t], "await")
  <2>1. DOMAIN stack = 1 .. Len(stack)
    BY DEF IInv, TypeOK
  <2> QED
    BY <1>1, <2>1 DEF InAwaitSuspend, OnIn
<1>3. t \notin attached
  BY <1>1, <1>2, RunningTask DEF Stranded, On
<1>4. /\ destroyed' = [destroyed EXCEPT ![t] = @ + 0]
      /\ attached' = attached \ {t}
  BY <1>3 DEF Finish
<1>5. destroyed \in [Tasks -> Nat]
  BY DEF IInv, TypeOK
<1>6. destroyed' = destroyed
  <2>1. destroyed[t] + 0 = destroyed[t]
    BY <1>5
  <2>2. [destroyed EXCEPT ![t] = destroyed[t]] = destroyed
    BY <1>5
  <2> QED
    BY <1>4, <2>1, <2>2
<1> QED
  BY <1>2, <1>3, <1>4, <1>6

LEMMA FinishStack ==
  ASSUME IInv, ~MayFinishAtOnce, NEW t \in Tasks, Finish(t)
  PROVE  /\ GoodStack(stack', used, continuation, attached)
         /\ \A u \in Tasks :
              /\ OnIn(stack', u, "body") <=>
                   (OnIn(stack, u, "body") /\ u # t) \/ u = continuation[t]
              /\ OnIn(stack', u, "await") <=> OnIn(stack, u, "await")
              /\ OnIn(stack', u, "final") <=> OnIn(stack, u, "final") \/ u = t
<1> DEFINE low == Front(stack)
           mid == Append(low, Entry(t, "final"))
           p == continuation[t]
<1>1. /\ Running(t)
      /\ stack' = low \o <<Entry(t, "final")>> \o ResumedBy(t)
  BY DEF Finish
<1>2. /\ t \in used /\ Unfinished(t) /\ ~OnIn(stack, t, "await")
      /\ OnIn(stack, t, "body")
      /\ \A c \in Tasks : ~Child(c, t)
  BY <1>1, RunningTask
<1>3. /\ ~OnIn(stack, p, "await") /\ t \notin attached
  BY FinishingTask
<1>4. GoodStack(low, used, continuation, attached)
  BY <1>1, BelowRunning
<1>5. \A u : \A q \in Resting :
        OnIn(low, u, q) <=> OnIn(stack, u, q) /\ ~(u = t /\ q = "body")
  BY <1>1, BelowRunning
<1>6. ~(low # <<>> /\ Last(low).at = "await")
  BY <1>1, <1>3, BelowRunning
<1>7. \A q \in Resting : ~OnIn(low, t, q)
  BY <1>1, BelowRunning
<1>8. "final" \in Places /\ "body" \in Places
  BY DEF Places
<1>9. low \o <<Entry(t, "final")>> = mid
  <2>1. low \in Seq(Entries(used)) /\ Entry(t, "final") \in Entries(used)
    BY <1>2, <1>4, <1>8, EntryType DEF GoodStack
  <2> HIDE DEF low
  <2> QED
    BY <2>1
<1> HIDE DEF low
<1>10. GoodStack(mid, used, continuation, attached)
  BY <1>2, <1>4, <1>6, <1>7, <1>8, PushStack
<1>11. mid # <<>> /\ Last(mid) = Entry(t, "final")
  BY <1>2, <1>4, <1>6, <1>7, <1>8, PushStack
<1>12. \A u : \A q \in Resting :
         OnIn(mid, u, q) <=> OnIn(low, u, q) \/ (u = t /\ q = "final")
  BY <1>2, <1>4, <1>6, <1>7, <1>8, PushStack
<1>13. Last(mid).at # "await"
  BY <1>11 DEF Entry
<1>14. mid \in Seq(Entries(used))
  BY <1>10 DEF GoodStack
<1> HIDE DEF mid
<1>15. CASE p = NoTask
  <2>1. stack' = mid
    <3>1. ResumedBy(t) = <<>>
      BY <1>15 DEF ResumedBy
    <3> QED
      BY <1>1, <1>9, <1>14, <3>1
  <2>2. \A u \in Tasks : u # p
    BY <1>15, GuestTasksAssumption DEF GuestTasksAssumption
  <2>3. \A u : \A q \in Resting :
          OnIn(stack', u, q) <=> \/ OnIn(stack, u, q) /\ ~(u = t /\ q = "body")
                                 \/ u = t /\ q = "final"
    BY <1>5, <1>12, <2>1
  <2> QED
    BY <1>10, <2>1, <2>2, <2>3 DEF Resting
<1>16. CASE p # NoTask
  <2>1. p \in Tasks /\ Child(t, p)
    BY <1>2, <1>16 DEF IInv, TypeOK, Child
  <2>2. /\ p \in used /\ p # t
        /\ ~OnIn(stack, p, "body") /\ ~OnIn(stack, p, "final")
    BY <1>2, <2>1 DEF IInv, Alive, Waiting, On, Unfinished, Live
  <2>3. \A q \in Resting : ~OnIn(mid, p, q)
    BY <1>3, <1>5, <1>12, <2>2 DEF Resting
  <2>4. stack' = Append(mid, Entry(p, "body"))
    <3>1. ResumedBy(t) = <<Entry(p, "body")>>
      BY <1>16 DEF ResumedBy
    <3>2. Entry(p, "body") \in Entries(used)
      BY <1>8, <2>2, EntryType
    <3> QED
      BY <1>1, <1>9, <1>14, <3>1, <3>2
  <2>5. GoodStack(stack', used, continuation, attached)
    BY <1>8, <1>10, <1>13, <2>2, <2>3, <2>4, PushStack
  <2>6. \A u : \A q \in Resting :
          OnIn(stack', u, q) <=> OnIn(mid, u, q) \/ (u = p /\ q = "body")
    BY <1>8, <1>10, <1>13, <2>2, <2>3, <2>4, PushStack
  <2>7. \A u : \A q \in Resting :
          OnIn(stack', u, q) <=> \/ OnIn(stack, u, q) /\ ~(u = t /\ q = "body")
                                 \/ u = t /\ q = "final"
                                 \/ u = p /\ q = "body"
    BY <1>5, <1>12, <2>6
  <2> QED
    BY <2>5, <2>7 DEF Resting
<1> QED
  BY <1>15, <1>16

LEMMA FinishIInv ==
  ASSUME IInv, ~MayFinishAtOnce, NEW t \in Tasks, Finish(t)
  PROVE  IInv' /\ \A u \in Tasks \ {t} : Unfinished(u) => Unfinished(u)'
<1> DEFINE p == continuation[t]
<1>1. /\ Running(t) /\ UNCHANGED <<used, continuation, calls, hung, made, leaked>>
      /\ destroyed' = destroyed /\ attached' = attached
  BY FinishingTask DEF Finish
<1>2. /\ t \in used /\ Unfinished(t)
      /\ t \notin calls \cup hung \cup attached
      /\ ~OnIn(stack, t, "await") /\ ~OnIn(stack, p, "await")
      /\ \A c \in Tasks : ~Child(c, t)
  BY <1>1, RunningTask, FinishingTask
<1>3. /\ GoodStack(stack', used', continuation', attached')
      /\ \A u \in Tasks :
           /\ OnIn(stack', u, "body") <=>
                (OnIn(stack, u, "body") /\ u # t) \/ u = p
           /\ OnIn(stack', u, "await") <=> OnIn(stack, u, "await")
           /\ OnIn(stack', u, "final") <=> OnIn(stack, u, "final") \/ u = t
  BY <1>1, FinishStack
<1>4. TypesBut' /\ DestroyedOnce' /\ Fresh'
  BY <1>1 DEF IInv, TypeOK, TypesBut, DestroyedOnce, Fresh
<1>5. /\ \A u \in Tasks : Live(u)' <=> Live(u)
      /\ \A u \in Tasks : Unfinished(u)' <=> Unfinished(u) /\ u # t
  BY <1>1, <1>3 DEF Live, Unfinished, On
<1>6. \A c, u \in Tasks : Child(c, u)' <=> Child(c, u) /\ c # t
  BY <1>1, <1>5 DEF Child
<1>7. p \in Tasks => /\ p # t /\ Child(t, p) /\ Unfinished(p)
                     /\ p \notin calls \cup hung
                     /\ \A c \in Tasks : Child(c, p) => c = t
  <2> SUFFICES ASSUME p \in Tasks
               PROVE  /\ p # t /\ Child(t, p) /\ Unfinished(p)
                      /\ p \notin calls \cup hung
                      /\ \A c \in Tasks : Child(c, p) => c = t
    OBVIOUS
  <2>1. Child(t, p)
    BY <1>2 DEF Child
  <2>2. p # t
    BY <1>2, <2>1
  <2>3. Unfinished(p)
    BY <2>1 DEF IInv, Alive
  <2>4. p \notin calls \cup hung /\ \A c \in Tasks : Child(c, p) => c = t
    BY <2>1 DEF IInv, Waiting
  <2> QED
    BY <2>1, <2>2, <2>3, <2>4
<1>8. /\ calls \subseteq Tasks \ {t} /\ hung \subseteq Tasks \ {t}
      /\ attached \subseteq Tasks \ {t}
  BY <1>2 DEF IInv, TypeOK
<1>9. \A c \in Tasks : \A u \in Tasks : Child(c, u) /\ c = t => u = p
  BY DEF Child
<1> HIDE DEF p
<1>10. Alive'
  <2>1. \A u \in Tasks : OnIn(stack', u, "body") \/ OnIn(stack', u, "await")
                           => Unfinished(u)'
    BY <1>2, <1>3, <1>5, <1>7 DEF IInv, Alive, On
  <2>2. \A u \in Tasks : OnIn(stack', u, "final") => Live(u)'
    BY <1>2, <1>3, <1>5 DEF IInv, Alive, On, Unfinished
  <2>3. \A u \in calls' \cup hung' \cup attached' : Unfinished(u)'
    BY <1>1, <1>5, <1>8 DEF IInv, Alive
  <2>4. \A u \in attached' : continuation'[u] # NoTask
    BY <1>1 DEF IInv, Alive
  <2>5. \A c, u \in Tasks : Child(c, u)' => Unfinished(u)'
    BY <1>2, <1>5, <1>6 DEF IInv, Alive
  <2> QED
    BY <2>1, <2>2, <2>3, <2>4, <2>5 DEF Alive, On
<1>11. Waiting'
  <2> SUFFICES ASSUME NEW u \in Tasks
      PROVE /\ OnIn(stack', u, "body") =>
                 /\ u \notin calls \cup hung /\ ~OnIn(stack', u, "await")
                 /\ \A c \in Tasks : ~Child(c, u)'
            /\ u \in calls => u \notin hung /\ \A c \in Tasks : ~Child(c, u)'
            /\ u \in hung => \A c \in Tasks : ~Child(c, u)'
            /\ OnIn(stack', u, "await") => \E c \in Tasks : Child(c, u)'
            /\ \A c, d \in Tasks : Child(c, u)' /\ Child(d, u)' => c = d
            /\ Unfinished(u)' =>
                 \/ OnIn(stack', u, "body") \/ u \in calls \cup hung
                 \/ \E c \in Tasks : Child(c, u)'
    BY <1>1, Zenon DEF Waiting, On
  <2>1. CASE u # t /\ u # p
    <3>1. \A c \in Tasks : Child(c, u)' <=> Child(c, u)
      BY <1>6, <1>9, <2>1
    <3> QED
      BY <1>3, <1>5, <2>1, <3>1 DEF IInv, Waiting, On
  <2>2. CASE u = t
    <3>1. \A c \in Tasks : ~Child(c, t)'
      BY <1>2, <1>6
    <3> QED
      BY <1>2, <1>3, <1>5, <1>7, <2>2, <3>1
  <2>3. CASE u = p
    <3>1. \A c \in Tasks : ~Child(c, u)'
      BY <1>6, <1>7, <2>3
    <3> QED
      BY <1>2, <1>3, <1>7, <2>3, <3>1
  <2> QED
    BY <2>1, <2>2, <2>3
<1>12. StrandedWait'
  <2>1. \A u \in Tasks : Stranded(u)' <=> Stranded(u)
    <3>1. \A u \in attached : continuation[u] \in Tasks
      BY DEF IInv, TypeOK, Alive
    <3> QED
      BY <1>1, <1>3, <3>1 DEF Stranded, On
  <2> QED
    BY <1>1, <2>1 DEF IInv, StrandedWait
<1> QED
  BY <1>3, <1>4, <1>5, <1>10, <1>11, <1>12, PartsNext

-----------------------------------------------------------------------------
(* An exception of the host                                                *)

\* Among the positions of a stack there is a lowest one.
LEMMA LeastElement ==
  ASSUME NEW T \in SUBSET Nat, T # {}
  PROVE  \E x \in T : \A y \in T : x <= y
<1> DEFINE R == OpToRel(<, Nat)
<1>1. IsWellFoundedOn(R, Nat)
  BY NatLessThanWellFounded, Zenon
<1>2. \A x, y \in Nat : x < y => <<x, y>> \in R
  BY DEF OpToRel
<1> HIDE DEF R
<1>3. PICK x \in T : \A y \in T : ~(<<y, x>> \in R)
  BY <1>1, WFMin
<1>4. \A y \in T : ~(y < x)
  BY <1>2, <1>3
<1> QED
  BY <1>3, <1>4

LEMMA PositionAbove ==
  ASSUME NEW n \in Nat, NEW m \in Nat, NEW i \in (m + 1) .. n, i # n
  PROVE  i < n /\ i + 1 \in 1 .. n /\ i + 1 \in (m + 1) .. n
OBVIOUS

(* What an exception unwinds is the upper part of the stack.               *)
LEMMA UnwoundPart ==
  ASSUME IInv, NEW t \in Tasks, Running(t)
  PROVE  \E m \in 0 .. Len(stack) :
           /\ m < Len(stack)
           /\ Unwound = (m + 1) .. Len(stack)
           /\ Len(stack) - Cardinality(Unwound) = m
<1> DEFINE n == Len(stack)
<1>0. /\ n \in Nat /\ n >= 1 /\ DOMAIN stack = 1 .. n
      /\ stack[n].at = "body"
  <2>1. stack \in Seq(Entries(used))
    BY StackIsGood DEF GoodStack
  <2>2. stack # <<>> /\ stack[n] = Entry(t, "body")
    BY DEF Running, Last
  <2> QED
    BY <2>1, <2>2, EmptySeq DEF Entry
<1> HIDE DEF n
<1>1. Unwound = {i \in 1 .. n : \A j \in i .. n : stack[j].at # "call"}
  BY <1>0 DEF Unwound, n
<1>2. n \in Unwound /\ Unwound \subseteq Nat
  <2>1. \A j \in n .. n : j = n
    BY <1>0
  <2>2. n \in 1 .. n /\ 1 .. n \subseteq Nat
    BY <1>0
  <2> QED
    BY <1>0, <1>1, <2>1, <2>2
<1>3. PICK x \in Unwound : \A y \in Unwound : x <= y
  BY <1>2, LeastElement
<1>4. x \in 1 .. n /\ \A j \in x .. n : stack[j].at # "call"
  BY <1>1
<1>5. Unwound = x .. n
  <2>1. ASSUME NEW i \in x .. n
        PROVE  i \in Unwound
    <3>1. i \in 1 .. n /\ \A j \in i .. n : j \in x .. n
      BY <1>0, <1>4
    <3> QED
      BY <1>1, <1>4, <3>1
  <2>2. ASSUME NEW i \in Unwound
        PROVE  i \in x .. n
    BY <1>0, <1>1, <1>3, <1>4
  <2> QED
    BY <2>1, <2>2
<1>6. Cardinality(Unwound) = n - x + 1
  <2>1. x \in Int /\ n \in Int /\ ~(x > n)
    BY <1>0, <1>4
  <2>2. Cardinality(x .. n) = IF x > n THEN 0 ELSE n - x + 1
    BY <2>1, FS_Interval
  <2> QED
    BY <1>5, <2>1, <2>2
<1>7. /\ x - 1 \in 0 .. n /\ x - 1 < n /\ x - 1 + 1 = x
      /\ n - (n - x + 1) = x - 1
  BY <1>0, <1>4
<1> QED
  BY <1>5, <1>6, <1>7 DEF n

\* t loses its entry of this kind to the exception.
Gone(t, place) == \E i \in Unwound : stack[i] = Entry(t, place)

LEMMA ThrowEffect ==
  ASSUME IInv, NEW t \in Tasks, HostThrows(t)
  PROVE  /\ GoodStack(stack', used, continuation, attached)
         /\ \A u : \A q \in Resting :
              /\ Gone(u, q) => OnIn(stack, u, q)
              /\ OnIn(stack', u, q) <=> OnIn(stack, u, q) /\ ~Gone(u, q)
         /\ hung' = hung \cup {u \in used : Gone(u, "body")}
         /\ leaked' = leaked \cup {u \in used : Gone(u, "final")}
         /\ \A u : Gone(u, "await") =>
              \E c \in attached : /\ continuation[c] = u
                                  /\ Gone(c, "body") \/ Gone(c, "await")
<1>1. Running(t) /\ stack' = SubSeq(stack, 1, Len(stack) - Cardinality(Unwound))
  BY DEF HostThrows
<1>2. PICK m \in 0 .. Len(stack) :
           /\ m < Len(stack)
           /\ Unwound = (m + 1) .. Len(stack)
           /\ Len(stack) - Cardinality(Unwound) = m
  BY <1>1, UnwoundPart
<1>3. /\ stack \in Seq(Entries(used)) /\ OneEntryIn(stack)
      /\ AwaitedIn(stack, continuation, attached)
      /\ Len(stack) \in Nat /\ DOMAIN stack = 1 .. Len(stack)
  BY StackIsGood DEF GoodStack
<1>4. stack' = SubSeq(stack, 1, m)
  BY <1>1, <1>2
<1>5. stack' \in Seq(Entries(used)) /\ Len(stack') = m
  BY <1>3, <1>4, Cut
<1>6. \A i \in 1 .. m : stack'[i] = stack[i]
  BY <1>3, <1>4, Cut
<1>7a. OneEntryIn(stack')
  BY <1>3, <1>4, Cut
<1>7b. AwaitedIn(stack', continuation, attached)
  BY <1>3, <1>4, Cut
<1>8. /\ Unwound \subseteq 1 .. Len(stack)
      /\ 1 .. m \subseteq 1 .. Len(stack)
      /\ \A i \in 1 .. Len(stack) : i \in 1 .. m <=> i \notin Unwound
  BY <1>2, <1>3
<1>9. \A i \in 1 .. Len(stack) :
        /\ stack[i].task \in used /\ stack[i].at \in Places
        /\ \A u, q : stack[i] = Entry(u, q) <=>
                       (stack[i].task = u /\ stack[i].at = q)
  <2> SUFFICES ASSUME NEW i \in 1 .. Len(stack)
               PROVE  /\ stack[i].task \in used /\ stack[i].at \in Places
                      /\ \A u, q : stack[i] = Entry(u, q) <=>
                                     (stack[i].task = u /\ stack[i].at = q)
    OBVIOUS
  <2>1. stack[i] \in Entries(used)
    BY <1>3, ElementOfSeq
  <2> QED
    BY <2>1, EntryParts
<1>10. ASSUME NEW u, NEW q \in Resting
       PROVE  /\ Gone(u, q) => OnIn(stack, u, q)
              /\ OnIn(stack', u, q) <=> OnIn(stack, u, q) /\ ~Gone(u, q)
  <2>1. Gone(u, q) => OnIn(stack, u, q)
    BY <1>8 DEF Gone, OnIn
  <2>2. OnIn(stack', u, q) => OnIn(stack, u, q)
    BY <1>5, <1>6, <1>8 DEF OnIn
  <2>3. OnIn(stack, u, q) /\ ~Gone(u, q) => OnIn(stack', u, q)
    BY <1>5, <1>6, <1>8 DEF OnIn, Gone
  <2>4. ASSUME OnIn(stack', u, q), Gone(u, q) PROVE FALSE
    <3>1. PICK i \in 1 .. m : stack[i] = Entry(u, q)
      BY <1>5, <1>6, <2>4 DEF OnIn
    <3>2. PICK j \in Unwound : stack[j] = Entry(u, q)
      BY <2>4 DEF Gone
    <3>3. i \in 1 .. Len(stack) /\ j \in 1 .. Len(stack) /\ i # j
      BY <1>8
    <3>4. Entry(u, q).at # "call"
      BY DEF Entry, Resting
    <3> QED
      BY <1>3, <3>1, <3>2, <3>3, <3>4 DEF OneEntryIn
  <2> QED
    BY <2>1, <2>2, <2>3, <2>4
<1>11. ASSUME NEW q
       PROVE  {stack[i].task : i \in {j \in Unwound : stack[j].at = q}}
                = {u \in used : Gone(u, q)}
  BY <1>8, <1>9 DEF Gone
<1>12. /\ hung' = hung \cup {u \in used : Gone(u, "body")}
       /\ leaked' = leaked \cup {u \in used : Gone(u, "final")}
  BY <1>11 DEF HostThrows
<1>13. ASSUME NEW u, Gone(u, "await")
       PROVE  \E c \in attached : /\ continuation[c] = u
                                  /\ Gone(c, "body") \/ Gone(c, "await")
  <2>1. PICK i \in Unwound : stack[i] = Entry(u, "await")
    BY <1>13 DEF Gone
  <2>2. i \in 1 .. Len(stack) /\ stack[i].task = u /\ stack[i].at = "await"
    BY <1>8, <1>9, <2>1
  <2>3. i # Len(stack)
    BY <1>1, <2>2 DEF Running, Last, Entry
  <2>4. i < Len(stack) /\ i + 1 \in 1 .. Len(stack) /\ i + 1 \in Unwound
    <3>1. Unwound = (m + 1) .. Len(stack)
      BY <1>2
    <3>2. i \in (m + 1) .. Len(stack) /\ m \in Nat
      BY <3>1
    <3>3. /\ i < Len(stack) /\ i + 1 \in 1 .. Len(stack)
          /\ i + 1 \in (m + 1) .. Len(stack)
      BY <1>3, <2>3, <3>2, PositionAbove
    <3> QED
      BY <3>1, <3>3
  <2>5. /\ continuation[stack[i + 1].task] = u
        /\ stack[i + 1].task \in attached
        /\ stack[i + 1].at # "final"
    BY <1>3, <2>2, <2>4 DEF AwaitedIn
  <2>6. stack[i + 1].at # "call"
    <3>1. i + 1 \in (i + 1) .. Len(stack)
      BY <1>3, <2>4
    <3> QED
      BY <2>4, <3>1 DEF Unwound
  <2>7. stack[i + 1].at = "body" \/ stack[i + 1].at = "await"
    BY <1>9, <2>4, <2>5, <2>6 DEF Places
  <2>8. stack[i + 1] = Entry(stack[i + 1].task, stack[i + 1].at)
    BY <1>9, <2>4
  <2>9. Gone(stack[i + 1].task, stack[i + 1].at)
    BY <2>4, <2>8 DEF Gone
  <2> QED
    BY <2>5, <2>7, <2>9
<1> QED
  BY <1>5, <1>7a, <1>7b, <1>10, <1>12, <1>13 DEF GoodStack

LEMMA HostThrowsIInv ==
  ASSUME IInv, NEW t \in Tasks, HostThrows(t)
  PROVE  IInv' /\ NoneEnds
<1> DEFINE bodies == {u \in used : Gone(u, "body")}
           finals == {u \in used : Gone(u, "final")}
           awaits == {u \in used : Gone(u, "await")}
<1>1. UNCHANGED <<used, destroyed, continuation, attached, calls, made>>
  BY DEF HostThrows
<1>2. hung' = hung \cup bodies /\ leaked' = leaked \cup finals
  BY ThrowEffect
<1>3. GoodStack(stack', used', continuation', attached')
  BY <1>1, ThrowEffect
<1>4. \A u \in Tasks : \A q \in Resting : OnIn(stack, u, q) => u \in used
  BY DEF IInv, Alive, On, Unfinished, Live, Resting
<1>5. \A u \in Tasks :
        /\ OnIn(stack', u, "body") <=> OnIn(stack, u, "body") /\ u \notin bodies
        /\ OnIn(stack', u, "await") <=> OnIn(stack, u, "await") /\ u \notin awaits
        /\ OnIn(stack', u, "final") <=> OnIn(stack, u, "final") /\ u \notin finals
  BY <1>4, ThrowEffect DEF Resting
<1>6. /\ \A u \in bodies : OnIn(stack, u, "body")
      /\ \A u \in awaits : OnIn(stack, u, "await")
      /\ \A u \in finals : OnIn(stack, u, "final")
  BY ThrowEffect DEF Resting
<1>7. /\ used \subseteq Tasks
      /\ bodies \subseteq used /\ awaits \subseteq used /\ finals \subseteq used
      /\ calls \subseteq Tasks /\ hung \subseteq Tasks /\ attached \subseteq Tasks
  BY DEF IInv, TypeOK
<1>8. \A u \in awaits : \E c \in attached : /\ continuation[c] = u
                                            /\ c \in bodies \cup awaits
  <2> SUFFICES ASSUME NEW u \in awaits
               PROVE  \E c \in attached : /\ continuation[c] = u
                                          /\ c \in bodies \cup awaits
    OBVIOUS
  <2>1. PICK c \in attached : /\ continuation[c] = u
                              /\ Gone(c, "body") \/ Gone(c, "await")
    BY ThrowEffect
  <2>2. c \in used
    BY DEF IInv, TypeOK
  <2> QED
    BY <2>1, <2>2
<1> HIDE DEF bodies, finals, awaits
<1>9. TypesBut' /\ DestroyedOnce' /\ Fresh'
  BY <1>1, <1>2, <1>7 DEF IInv, TypeOK, TypesBut, DestroyedOnce, Fresh
<1>10. \A u \in Tasks : Live(u)' <=> Live(u) /\ u \notin finals
  BY <1>1, <1>2 DEF Live
<1>11. \A u \in Tasks : Unfinished(u)' <=> Unfinished(u)
  BY <1>5, <1>6, <1>10 DEF Unfinished, On
<1>12. \A c, u \in Tasks : Child(c, u)' <=> Child(c, u)
  BY <1>1, <1>11 DEF Child
<1>13. Alive'
  <2>1. \A u \in Tasks : OnIn(stack', u, "body") \/ OnIn(stack', u, "await")
                           => Unfinished(u)'
    BY <1>5, <1>11 DEF IInv, Alive, On
  <2>2. \A u \in Tasks : OnIn(stack', u, "final") => Live(u)'
    BY <1>5, <1>10 DEF IInv, Alive, On
  <2>3. \A u \in calls' \cup hung' \cup attached' : Unfinished(u)'
    <3>1. \A u \in bodies : Unfinished(u)
      BY <1>6, <1>7 DEF IInv, Alive, On
    <3>2. \A u \in calls \cup hung \cup attached : Unfinished(u)
      BY DEF IInv, Alive
    <3> QED
      BY <1>1, <1>2, <1>7, <1>11, <3>1, <3>2
  <2>4. \A u \in attached' : continuation'[u] # NoTask
    BY <1>1 DEF IInv, Alive
  <2>5. \A c, u \in Tasks : Child(c, u)' => Unfinished(u)'
    BY <1>11, <1>12 DEF IInv, Alive
  <2> QED
    BY <2>1, <2>2, <2>3, <2>4, <2>5 DEF Alive, On
<1>14. Waiting'
  <2> SUFFICES ASSUME NEW u \in Tasks
      PROVE /\ OnIn(stack', u, "body") =>
                 /\ u \notin calls \cup hung' /\ ~OnIn(stack', u, "await")
                 /\ \A c \in Tasks : ~Child(c, u)
            /\ u \in calls => u \notin hung' /\ \A c \in Tasks : ~Child(c, u)
            /\ u \in hung' => \A c \in Tasks : ~Child(c, u)
            /\ OnIn(stack', u, "await") => \E c \in Tasks : Child(c, u)
            /\ \A c, d \in Tasks : Child(c, u) /\ Child(d, u) => c = d
            /\ Unfinished(u) =>
                 \/ OnIn(stack', u, "body") \/ u \in calls \cup hung'
                 \/ \E c \in Tasks : Child(c, u)
    BY <1>1, <1>11, <1>12, Zenon DEF Waiting, On
  <2>1. /\ OnIn(stack, u, "body") =>
             /\ u \notin calls \cup hung /\ ~OnIn(stack, u, "await")
             /\ \A c \in Tasks : ~Child(c, u)
        /\ u \in calls => u \notin hung /\ \A c \in Tasks : ~Child(c, u)
        /\ u \in hung => \A c \in Tasks : ~Child(c, u)
        /\ OnIn(stack, u, "await") => \E c \in Tasks : Child(c, u)
        /\ \A c, d \in Tasks : Child(c, u) /\ Child(d, u) => c = d
        /\ Unfinished(u) =>
             \/ OnIn(stack, u, "body") \/ u \in calls \cup hung
             \/ \E c \in Tasks : Child(c, u)
    BY DEF IInv, Waiting, On
  <2> QED
    BY <1>2, <1>5, <1>6, <2>1
<1>15. StrandedWait'
  <2>1. ASSUME NEW u \in attached
        PROVE  Stranded(u)' <=> Stranded(u) \/ continuation[u] \in awaits
    <3>1. continuation[u] \in Tasks
      BY DEF IInv, TypeOK, Alive
    <3> QED
      BY <1>1, <1>5, <3>1 DEF Stranded, On
  <2> SUFFICES ASSUME NEW u \in Tasks, Stranded(u)'
               PROVE  \/ u \in hung'
                      \/ \E c \in Tasks : continuation[c] = u /\ Stranded(c)'
    BY <1>1, Zenon DEF StrandedWait
  <2>2. u \in attached
    BY <1>1 DEF Stranded
  <2>3. CASE Stranded(u)
    <3>1. \/ u \in hung
          \/ \E c \in Tasks : continuation[c] = u /\ Stranded(c)
      BY <2>3 DEF IInv, StrandedWait
    <3>2. \A c \in Tasks : Stranded(c) => Stranded(c)'
      BY <2>1 DEF Stranded
    <3> QED
      BY <1>2, <3>1, <3>2
  <2>4. CASE continuation[u] \in awaits
    <3>1. PICK c \in attached : /\ continuation[c] = continuation[u]
                                /\ c \in bodies \cup awaits
      BY <1>8, <2>4
    <3>2. c = u
      <4>1. continuation[u] \in Tasks
        BY <1>7, <2>4
      <4>2. Child(c, continuation[u]) /\ Child(u, continuation[u])
        BY <2>2, <3>1 DEF IInv, Alive, Child
      <4> QED
        BY <1>7, <4>1, <4>2 DEF IInv, Waiting
    <3>3. CASE u \in bodies
      BY <1>2, <3>3
    <3>4. CASE u \in awaits
      <4>1. PICK d \in attached : continuation[d] = u
        BY <1>8, <3>4
      <4>2. Stranded(d)'
        BY <2>1, <3>4, <4>1
      <4> QED
        BY <1>7, <4>1, <4>2
    <3> QED
      BY <3>1, <3>2, <3>3, <3>4
  <2> QED
    BY <2>1, <2>2, <2>3, <2>4
<1>n. NoneEnds
  BY <1>11 DEF NoneEnds
<1> QED
  BY <1>3, <1>9, <1>13, <1>14, <1>15, PartsNext, <1>n

-----------------------------------------------------------------------------
(* The theorems                                                            *)

LEMMA InitIInv == Init => IInv
<1> SUFFICES ASSUME Init PROVE IInv
  OBVIOUS
<1>1. \A u, q : ~On(u, q)
  BY DEF Init, On, OnIn
<1>2. TypeOK /\ DestroyedOnce
  <2>1. stack \in Seq([task : used, at : Places])
    BY EmptySeq DEF Init
  <2>2. 0 \in 0 .. MaxCalls
    BY GuestTasksAssumption DEF GuestTasksAssumption
  <2> QED
    BY <2>1, <2>2 DEF Init, TypeOK, DestroyedOnce
<1>3. OneEntry /\ AwaitedAbove
  <2>1. \A i \in 1 .. Len(stack) : FALSE
    BY DEF Init
  <2> QED
    BY <2>1 DEF OneEntry, OneEntryIn, AwaitedAbove, AwaitedIn
<1>4. \A u \in Tasks : ~Unfinished(u)
  BY DEF Init, Unfinished, Live
<1>5. Fresh /\ Alive /\ Waiting /\ StrandedWait
  BY <1>1, <1>4 DEF Init, Fresh, Alive, Waiting, StrandedWait, Stranded, Child
<1> QED
  BY <1>2, <1>3, <1>5 DEF IInv

LEMMA NextIInv ==
  ASSUME IInv, ~MayFinishAtOnce, [Next]_vars
  PROVE  IInv'
<1>1. ASSUME UNCHANGED vars
      PROVE  IInv'
  BY <1>1 DEF vars, IInv, TypeOK, DestroyedOnce, OneEntry, AwaitedAbove, Fresh,
     Alive, Waiting, StrandedWait, Stranded, Child, Unfinished, Live, On
<1>2. ASSUME GuestStep
      PROVE  IInv'
  BY <1>2, DetachIInv, FinishIInv, FinalReturnsIInv, CallHostIInv,
     CallHostAtOnceIInv, CallReturnsIInv, HostThrowsIInv, AwaitIInv, DiscardIInv
     DEF GuestStep
<1>3. ASSUME NEW t \in Tasks, Start(t) \/ HostSettles(t)
      PROVE  IInv'
  BY <1>3, StartIInv, HostAnswersIInv, HostFailsIInv DEF HostSettles
<1> QED
  BY <1>1, <1>2, <1>3 DEF Next

(* The inductive invariant holds for ever, if awaited tasks suspend before *)
(* they end.                                                               *)
THEOREM Invariance == ~MayFinishAtOnce => (Spec => []IInv)
<1>1. ASSUME ~MayFinishAtOnce
      PROVE  Spec => []IInv
  <2>1. IInv /\ [Next]_vars => IInv'
    BY <1>1, NextIInv
  <2> QED
    BY <2>1, InitIInv, PTL DEF Spec
<1> QED
  BY <1>1

LEMMA FramesSafeFollows == IInv => FramesSafe
<1> SUFFICES ASSUME IInv PROVE FramesSafe
  OBVIOUS
<1>1. TypeOK /\ DestroyedOnce
  BY DEF IInv
<1>2. stack \in Seq(Entries(used)) /\ DOMAIN stack = 1 .. Len(stack)
  BY StackIsGood DEF GoodStack
<1>3. ASSUME NEW i \in DOMAIN stack, stack[i].at # "call"
      PROVE  Live(stack[i].task)
  <2>1. stack[i] \in Entries(used)
    BY <1>2, ElementOfSeq
  <2>2. /\ stack[i].task \in used /\ stack[i].at \in Places
        /\ stack[i] = Entry(stack[i].task, stack[i].at)
    BY <2>1, EntryParts
  <2>3. OnIn(stack, stack[i].task, stack[i].at)
    BY <1>2, <2>2 DEF OnIn
  <2>4. stack[i].task \in Tasks
    BY <1>1, <2>2 DEF TypeOK
  <2> QED
    BY <1>3, <2>2, <2>3, <2>4 DEF IInv, Alive, On, Unfinished, Places
<1>4. calls \cup attached \subseteq {t \in Tasks : Live(t)}
  BY DEF IInv, Alive, Unfinished, TypeOK
<1>5. ASSUME NEW t \in Tasks, Live(t), continuation[t] # NoTask
      PROVE  \/ Live(continuation[t])
             \/ \E i \in DOMAIN stack : stack[i] = Entry(t, "final")
  <2>1. CASE On(t, "final")
    BY <1>2, <2>1 DEF On, OnIn
  <2>2. CASE ~On(t, "final")
    <3>1. continuation[t] \in Tasks
      BY <1>1, <1>5 DEF TypeOK
    <3>2. Child(t, continuation[t])
      BY <1>5, <2>2 DEF Child, Unfinished
    <3> QED
      BY <3>1, <3>2 DEF IInv, Alive, Unfinished
  <2> QED
    BY <2>1, <2>2
<1> QED
  BY <1>1, <1>3, <1>4, <1>5 DEF FramesSafe, FramesAlive

(* The lifetimes of coroutine frames: none is destroyed twice, and neither *)
(* the code on the stack, nor a callback of the host, nor a Task object,   *)
(* nor the final suspend of a child touches one that was destroyed.        *)
THEOREM FramesOutliveTheirUse == ~MayFinishAtOnce => (Spec => []FramesSafe)
<1>1. ASSUME ~MayFinishAtOnce
      PROVE  Spec => []FramesSafe
  <2>1. Spec => []IInv
    BY <1>1, Invariance
  <2> QED
    BY <2>1, FramesSafeFollows, PTL
<1> QED
  BY <1>1

LEMMA NobodyForgottenFollows == IInv => NobodyForgotten
<1> SUFFICES ASSUME IInv, stack = <<>>, NEW t \in Tasks, Live(t)
             PROVE  (IF t \in calls THEN 1 ELSE 0)
                      + (IF t \in hung THEN 1 ELSE 0)
                      + Cardinality(AwaitsLive(t)) = 1
  BY DEF NobodyForgotten
<1>1. \A u, q : ~On(u, q)
  BY DEF On, OnIn
<1>2. Unfinished(t) /\ AwaitsLive(t) = {c \in Tasks : Child(c, t)}
  BY <1>1 DEF Unfinished, AwaitsLive, Child
<1>3. /\ t \in calls => t \notin hung /\ \A c \in Tasks : ~Child(c, t)
      /\ t \in hung => \A c \in Tasks : ~Child(c, t)
      /\ \A c, d \in Tasks : Child(c, t) /\ Child(d, t) => c = d
      /\ t \in calls \/ t \in hung \/ \E c \in Tasks : Child(c, t)
  BY <1>1, <1>2 DEF IInv, Waiting
<1>4. CASE t \in calls \/ t \in hung
  <2>1. AwaitsLive(t) = {}
    BY <1>2, <1>3, <1>4
  <2>2. Cardinality(AwaitsLive(t)) = 0
    BY <2>1, FS_EmptySet
  <2> QED
    BY <1>3, <1>4, <2>2
<1>5. CASE t \notin calls /\ t \notin hung
  <2>1. PICK c \in Tasks : Child(c, t)
    BY <1>3, <1>5
  <2>2. AwaitsLive(t) = {c}
    BY <1>2, <1>3, <2>1
  <2>3. Cardinality(AwaitsLive(t)) = 1
    BY <2>2, FS_Singleton
  <2> QED
    BY <1>5, <2>3
<1> QED
  BY <1>4, <1>5

(* Whenever control is back in the host every task that has not ended      *)
(* waits for exactly one thing: a call, a child, or, if the host has       *)
(* failed it, nothing any more.  So it is resumed once, or never.          *)
THEOREM EveryTaskWaitsForOneThing ==
  ~MayFinishAtOnce => (Spec => []NobodyForgotten)
<1>1. ASSUME ~MayFinishAtOnce
      PROVE  Spec => []NobodyForgotten
  <2>1. Spec => []IInv
    BY <1>1, Invariance
  <2> QED
    BY <2>1, NobodyForgottenFollows, PTL
<1> QED
  BY <1>1

-----------------------------------------------------------------------------
(* Where the waits of a guest lead                                         *)

\* However many tasks await each other, they do not do so in a circle, nor
\* without an end: among any of them one awaits none of the others.
NoCycle ==
  \A S \in SUBSET Tasks :
    S # {} => \E p \in S : \A c \in S : continuation[c] # p

\* Whenever control is back in the host, the tasks that a task which has not
\* ended waits for, directly or not, include one that waits for the host or
\* that the host has failed.  S is any set that holds with a task those that
\* it awaits.
WaitsEndAtTheHost ==
  stack = <<>> =>
    \A t \in Tasks : Live(t) =>
      \A S \in SUBSET Tasks :
        (t \in S /\ \A p \in S : AwaitsLive(p) \subseteq S)
          => S \cap (calls \cup hung) # {}

\* A task that ends, by whichever of the ways, has ended for good.
EndedForGood ==
  [][\A t \in Tasks :
       t \in used /\ ~Live(t) =>
         t \in used' /\ ~Live(t)' /\ destroyed'[t] = destroyed[t]]_vars

\* What the host gives up is never resumed, and neither is whoever waits for
\* it: being stuck lasts.
StuckForGood ==
  [][\A t \in Tasks : Stuck(t) => Stuck(t)' /\ Live(t)']_vars

\* The continuations are as they were, or those of a task that began just now.
OneMoreParent ==
  \/ continuation' = continuation
  \/ \E t, p \in Tasks : /\ t \notin used /\ t # p
                         /\ continuation' = [continuation EXCEPT ![t] = p]

LEMMA NoCycleInit == Init => NoCycle
BY GuestTasksAssumption DEF Init, NoCycle, GuestTasksAssumption

(* A task that begins awaits nobody, so that it closes no circle.          *)
LEMMA NoCycleKept ==
  ASSUME IInv, NoCycle, OneMoreParent
  PROVE  NoCycle'
<1> SUFFICES ASSUME NEW S \in SUBSET Tasks, S # {}
             PROVE  \E p \in S : \A c \in S : continuation'[c] # p
  BY DEF NoCycle
<1>1. PICK q \in S : \A c \in S : continuation[c] # q
  BY DEF NoCycle
<1>2. CASE continuation' = continuation
  BY <1>1, <1>2
<1>3. ASSUME NEW t \in Tasks, NEW p \in Tasks, t \notin used, t # p,
             continuation' = [continuation EXCEPT ![t] = p]
      PROVE  \E r \in S : \A c \in S : continuation'[c] # r
  <2>1. continuation \in [Tasks -> Tasks \cup {NoTask}]
    BY DEF IInv, TypeOK
  <2>2. \A c \in Tasks : continuation[c] # t
    BY <1>3, FreshTask
  <2>3. CASE t \in S
    BY <1>3, <2>1, <2>2, <2>3
  <2>4. CASE t \notin S
    BY <1>1, <1>3, <2>1, <2>4
  <2> QED
    BY <2>3, <2>4
<1> QED
  BY <1>2, <1>3 DEF OneMoreParent

\* What no step takes back, and whose frame it may destroy.
Kept ==
  /\ used \subseteq used' /\ hung \subseteq hung' /\ leaked \subseteq leaked'
  /\ \A u \in Tasks : destroyed'[u] # destroyed[u] => u \notin used \/ Live(u)
  /\ OneMoreParent

LEMMA StepKeeps ==
  ASSUME IInv, ~MayFinishAtOnce, [Next]_vars
  PROVE  Kept
<1>0. destroyed \in [Tasks -> Nat]
  BY DEF IInv, TypeOK
<1>1. ASSUME UNCHANGED <<used, destroyed, continuation, leaked>>, hung \subseteq hung'
      PROVE  Kept
  BY <1>1 DEF Kept, OneMoreParent
<1>2. CASE UNCHANGED vars
  BY <1>1, <1>2 DEF vars
<1>3. ASSUME NEW t \in Tasks,
             \/ Detach(t) \/ CallHost(t) \/ CallHostAtOnce(t) \/ CallReturns(t)
             \/ HostAnswers(t) \/ HostFails(t)
      PROVE  Kept
  BY <1>1, <1>3
     DEF Detach, CallHost, CallHostAtOnce, CallReturns, HostAnswers, HostFails
<1>4. ASSUME NEW t \in Tasks, Finish(t)
      PROVE  Kept
  BY <1>1, <1>4, FinishingTask DEF Finish
<1>5. ASSUME NEW t \in Tasks, FinalReturns(t)
      PROVE  Kept
  <2>1. /\ stack # <<>> /\ Last(stack) = Entry(t, "final")
        /\ destroyed' = [destroyed EXCEPT ![t] = @ + 1]
        /\ UNCHANGED <<used, continuation, hung, leaked>>
    BY <1>5 DEF FinalReturns
  <2>2. On(t, "final")
    BY <2>1, PopStack DEF On, Entry
  <2>3. Live(t)
    BY <2>2 DEF IInv, Alive
  <2> QED
    BY <1>0, <2>1, <2>3 DEF Kept, OneMoreParent
<1>6. ASSUME NEW t \in Tasks, HostThrows(t)
      PROVE  Kept
  <2>1. UNCHANGED <<used, destroyed, continuation>>
    BY <1>6 DEF HostThrows
  <2>2. hung \subseteq hung' /\ leaked \subseteq leaked'
    BY <1>6 DEF HostThrows
  <2> QED
    BY <2>1, <2>2 DEF Kept, OneMoreParent
<1>7. ASSUME NEW t \in Tasks, NEW p \in Tasks, Await(p, t)
      PROVE  Kept
  <2>1. /\ t \notin used /\ used' = used \cup {t}
        /\ continuation' = [continuation EXCEPT ![t] = p]
        /\ UNCHANGED <<destroyed, hung, leaked>>
    BY <1>7 DEF Await
  <2>2. p \in used
    BY <1>7, RunningTask DEF Await
  <2> QED
    BY <2>1, <2>2 DEF Kept, OneMoreParent
<1>8. ASSUME NEW t \in Tasks, Start(t) \/ Discard(t)
      PROVE  Kept
  BY <1>0, <1>8 DEF Start, Discard, Kept, OneMoreParent
<1> QED
  BY <1>2, <1>3, <1>4, <1>5, <1>6, <1>7, <1>8 DEF Next, GuestStep, HostSettles

LEMMA WaitsEndFollows == IInv /\ NoCycle => WaitsEndAtTheHost
<1> SUFFICES ASSUME IInv, NoCycle, stack = <<>>, NEW t \in Tasks, Live(t),
                    NEW S \in SUBSET Tasks, t \in S,
                    \A p \in S : AwaitsLive(p) \subseteq S,
                    S \cap (calls \cup hung) = {}
             PROVE  FALSE
  BY DEF WaitsEndAtTheHost
<1> DEFINE waiting == {u \in S : Live(u)}
<1>1. PICK p \in waiting : \A c \in waiting : continuation[c] # p
  <2>1. waiting \in SUBSET Tasks /\ waiting # {}
    OBVIOUS
  <2> HIDE DEF waiting
  <2> QED
    BY <2>1 DEF NoCycle
<1>2. \A u, q : ~On(u, q)
  BY DEF On, OnIn
<1>3. Unfinished(p) /\ p \in Tasks /\ p \notin calls \cup hung
  BY <1>2 DEF Unfinished
<1>4. PICK c \in Tasks : Child(c, p)
  BY <1>2, <1>3 DEF IInv, Waiting
<1>5. Live(c) /\ continuation[c] = p
  BY <1>4 DEF Child, Unfinished
<1>6. c \in AwaitsLive(p)
  BY <1>5 DEF AwaitsLive
<1> QED
  BY <1>1, <1>5, <1>6

(* The tasks of a guest do not wait for each other in a circle: while the  *)
(* host has control, every task that has not ended waits, directly or not, *)
(* for a call of the host or for a task that the host has failed.          *)
THEOREM TasksWaitForTheHost ==
  ~MayFinishAtOnce => (Spec => [](NoCycle /\ WaitsEndAtTheHost))
<1>1. ASSUME ~MayFinishAtOnce
      PROVE  Spec => [](NoCycle /\ WaitsEndAtTheHost)
  <2>1. Spec => []IInv
    BY <1>1, Invariance
  <2>2. IInv /\ NoCycle /\ [Next]_vars => NoCycle'
    BY <1>1, StepKeeps, NoCycleKept DEF Kept
  <2> QED
    BY <2>1, <2>2, NoCycleInit, WaitsEndFollows, PTL DEF Spec
<1> QED
  BY <1>1

(* An ended task stays ended and its frame is not touched again.           *)
THEOREM TasksEndForGood == ~MayFinishAtOnce => (Spec => EndedForGood)
<1>1. ASSUME ~MayFinishAtOnce
      PROVE  Spec => EndedForGood
  <2>1. Spec => []IInv
    BY <1>1, Invariance
  <2>2. ASSUME IInv, [Next]_vars, NEW t \in Tasks, t \in used, ~Live(t)
        PROVE  t \in used' /\ ~Live(t)' /\ destroyed'[t] = destroyed[t]
    <3>1. Kept
      BY <1>1, <2>2, StepKeeps
    <3> QED
      BY <2>2, <3>1 DEF Kept, Live
  <2>3. IInv /\ [Next]_vars =>
          [\A t \in Tasks :
             t \in used /\ ~Live(t) =>
               t \in used' /\ ~Live(t)' /\ destroyed'[t] = destroyed[t]]_vars
    BY <2>2
  <2> QED
    BY <2>1, <2>3, PTL DEF Spec, EndedForGood
<1> QED
  BY <1>1

(* Only a task that has not ended is stuck.                                *)
LEMMA StuckIsUnfinished ==
  ASSUME IInv, NEW t \in Tasks, Stuck(t)
  PROVE  Live(t)
<1> DEFINE S == {u \in Tasks : Unfinished(u)}
<1>1. hung \subseteq S
  BY DEF IInv, Alive, TypeOK
<1>2. ASSUME NEW c \in S
      PROVE  continuation[c] \in S \cup {NoTask}
  <2>1. continuation[c] \in Tasks \cup {NoTask}
    BY DEF IInv, TypeOK
  <2>2. CASE continuation[c] \in Tasks
    <3>1. Child(c, continuation[c])
      BY DEF Child
    <3> QED
      BY <2>2, <3>1 DEF IInv, Alive
  <2> QED
    BY <2>1, <2>2
<1>3. S \in SUBSET Tasks
  OBVIOUS
<1>4. t \in S
  <2> HIDE DEF S
  <2> QED
    BY <1>1, <1>2, <1>3 DEF Stuck
<1> QED
  BY <1>4 DEF Unfinished

(* Nor does it run: who runs awaits nobody and is not hung itself.         *)
LEMMA StuckDoesNotRun ==
  ASSUME IInv, NEW t \in Tasks, Stuck(t)
  PROVE  ~Running(t)
<1> SUFFICES ASSUME Running(t) PROVE FALSE
  OBVIOUS
<1> DEFINE S == {u \in Tasks \ {t} : Unfinished(u)}
<1>1. t \notin hung /\ \A c \in Tasks : ~Child(c, t)
  BY RunningTask
<1>2. hung \subseteq S
  BY <1>1 DEF IInv, Alive, TypeOK
<1>3. ASSUME NEW c \in S
      PROVE  continuation[c] \in S \cup {NoTask}
  <2>1. continuation[c] \in Tasks \cup {NoTask}
    BY DEF IInv, TypeOK
  <2>2. CASE continuation[c] \in Tasks
    <3>1. Child(c, continuation[c])
      BY DEF Child
    <3>2. continuation[c] # t
      BY <1>1, <3>1
    <3> QED
      BY <2>2, <3>1, <3>2 DEF IInv, Alive
  <2> QED
    BY <2>1, <2>2
<1>4. S \in SUBSET Tasks /\ t \notin S
  OBVIOUS
<1> HIDE DEF S
<1> QED
  BY <1>2, <1>3, <1>4 DEF Stuck

LEMMA StuckIsUnfinishedNext ==
  ASSUME NEW t \in Tasks
  PROVE  IInv' /\ Stuck(t)' => Live(t)'
<1>1. IInv /\ Stuck(t) => Live(t)
  BY StuckIsUnfinished
<1> QED
  BY <1>1, PTL

LEMMA StuckStays ==
  ASSUME IInv, Kept, NEW t \in Tasks, Stuck(t)
  PROVE  Stuck(t)'
<1> SUFFICES ASSUME NEW S \in SUBSET Tasks, hung' \subseteq S,
                    \A c \in S : continuation'[c] \in S \cup {NoTask}
             PROVE  t \in S
  BY DEF Stuck
<1>1. \A c \in S : continuation[c] \in S \cup {NoTask}
  <2>1. CASE continuation' = continuation
    BY <2>1
  <2>2. ASSUME NEW u \in Tasks, NEW p \in Tasks, u \notin used,
               continuation' = [continuation EXCEPT ![u] = p]
        PROVE  \A c \in S : continuation[c] \in S \cup {NoTask}
    <3>1. continuation[u] = NoTask
      BY <2>2, FreshTask
    <3>2. continuation \in [Tasks -> Tasks \cup {NoTask}]
      BY DEF IInv, TypeOK
    <3> QED
      BY <2>2, <3>1, <3>2
  <2> QED
    BY <2>1, <2>2 DEF Kept, OneMoreParent
<1>2. hung \subseteq S
  BY DEF Kept
<1> QED
  BY <1>1, <1>2 DEF Stuck

(* A call that the host has failed leaves the task that made it, and all   *)
(* that await it, unfinished for ever: being stuck is never undone.        *)
THEOREM StuckTasksStayStuck == ~MayFinishAtOnce => (Spec => StuckForGood)
<1>1. ASSUME ~MayFinishAtOnce
      PROVE  Spec => StuckForGood
  <2>1. Spec => []IInv
    BY <1>1, Invariance
  <2>2. ASSUME IInv, IInv', [Next]_vars, NEW t \in Tasks, Stuck(t)
        PROVE  Stuck(t)' /\ Live(t)'
    <3>1. Stuck(t)'
      BY <1>1, <2>2, StepKeeps, StuckStays
    <3> QED
      BY <2>2, <3>1, StuckIsUnfinishedNext
  <2>3. IInv /\ IInv' /\ [Next]_vars =>
          [\A t \in Tasks : Stuck(t) => Stuck(t)' /\ Live(t)']_vars
    BY <2>2
  <2> QED
    BY <2>1, <2>3, PTL DEF Spec, StuckForGood
<1> QED
  BY <1>1
=============================================================================
