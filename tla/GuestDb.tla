------------------------------- MODULE GuestDb -------------------------------
(***************************************************************************)
(* The database of a guest program: clintrinsics/database.hpp, its host    *)
(* handlers in packages/bios and the LMDB of packages/d, over the tasks of *)
(* GuestTasks.  Each task opens the one database for itself, begins at     *)
(* most one transaction and keeps it in a local, which its destructor      *)
(* aborts.                                                                 *)
(*                                                                         *)
(* A handler that is asynchronous for the guest works on LMDB before its   *)
(* first await, so its effect is part of the call and only the callback is *)
(* later.  The handlers of createTransaction, commitTransaction and        *)
(* abortTransaction return, or throw through the guest's code.             *)
(*                                                                         *)
(* LMDB and node-lmdb are external: one write transaction per process, a   *)
(* second one is refused with an exception; a limited number of readers;   *)
(* a commit replaces the whole content by the writer's pages.              *)
(***************************************************************************)
EXTENDS Naturals, Sequences, FiniteSets

CONSTANTS
  Tasks, NoTask, MaxCalls,  \* as in GuestTasks
  Keys,                     \* positive numbers, in the order of LMDB
  Values, NoValue,
  MaxReaders                \* reader slots of the LMDB environment

ASSUME GuestDbAssumption ==
  /\ IsFiniteSet(Tasks) /\ NoTask \notin Tasks
  /\ MaxCalls \in Nat
  /\ Keys \subseteq Nat \ {0}
  /\ NoValue \notin Values
  /\ MaxReaders \in Nat

VARIABLES
  used, destroyed, continuation, attached, stack, calls, hung, leaked, made,
  store,    \* what is on disk: the last committed content
  writer,   \* the task whose write transaction is open in the environment
  opened,   \* tasks with a database local that is not closed
  listed,   \* DbManager::dbs: the task whose handle was opened last
  stats,    \* printStats that wait for a cursor
  lost,     \* reader slots of transactions that nobody will end
  trx,      \* trx[t]: the transaction local of t
  view,     \* view[t]: the content its transaction sees
  cursor,   \* cursor[t]: the key its range has come to
  doomed,   \* outstanding calls that the host will fail
  wrote     \* history: wrote[t]: the keys t has put

Guest == INSTANCE GuestTasks WITH MayFinishAtOnce <- FALSE

guestVars == <<used, destroyed, continuation, attached, stack, calls, hung,
               leaked, made>>
dbVars == <<store, writer, opened, listed, stats, lost, trx, view, cursor,
            doomed, wrote>>
vars == <<guestVars, dbVars>>

NoKey == 0
Content == [Keys -> Values \cup {NoValue}]
Empty == [k \in Keys |-> NoValue]

Init ==
  /\ Guest!Init
  /\ store = Empty
  /\ writer = NoTask
  /\ opened = {} /\ listed = NoTask
  /\ stats = 0 /\ lost = 0
  /\ trx = [t \in Tasks |-> "none"]
  /\ view = [t \in Tasks |-> Empty]
  /\ cursor = [t \in Tasks |-> NoKey]
  /\ doomed = {}
  /\ wrote = [t \in Tasks |-> {}]

Readers == Cardinality({t \in Tasks : trx[t] = "read"}) + stats + lost
IsOpen(t) == trx[t] \in {"read", "write"}
Present(content) == {k \in Keys : content[k] # NoValue}
FirstOf(S) == IF S = {} THEN NoKey ELSE CHOOSE k \in S : \A j \in S : k <= j

-----------------------------------------------------------------------------
(* Calls that the host answers later                                       *)

\* The handler works, and will call back, unless what it does fails.
Ask(t, works) ==
  /\ Guest!CallHost(t)
  /\ doomed' = IF works THEN doomed ELSE doomed \cup {t}

\* Defect: node-lmdb would open a second write transaction.
AlwaysFree == TRUE

\* The environment has no write transaction.
WriterFree == writer = NoTask

\* openDb, which creates the database in a write transaction of its own that
\* ends before openDbi returns.  A second handle of a database that is open
\* takes the first one's place in dbs.
OpenDb(t) ==
  /\ t \notin opened /\ trx[t] = "none"
  /\ \/ /\ WriterFree
        /\ Ask(t, TRUE) /\ opened' = opened \cup {t} /\ listed' = t
     \/ Ask(t, FALSE) /\ UNCHANGED <<opened, listed>>
  /\ UNCHANGED <<store, writer, stats, lost, trx, view, cursor, wrote>>

\* transaction::setKV.
SetKV(t, k, v) ==
  /\ IsOpen(t)
  /\ \/ /\ trx[t] = "write" /\ Ask(t, TRUE)
        /\ view' = [view EXCEPT ![t][k] = v]
        /\ wrote' = [wrote EXCEPT ![t] = @ \cup {k}]
     \/ Ask(t, FALSE) /\ UNCHANGED <<view, wrote>>
  /\ UNCHANGED <<store, writer, opened, listed, stats, lost, trx, cursor>>

\* The key of a new cursor, and the key behind that of a cursor.
FirstKey(t) == FirstOf(Present(view[t]))
KeyBehind(t) == FirstOf({k \in Present(view[t]) : k > cursor[t]})

\* transaction::everything: the handler of createCursor throws if there is
\* nothing to point at.
Everything(t) ==
  /\ IsOpen(t)
  /\ cursor' = [cursor EXCEPT ![t] = FirstKey(t)]
  /\ Ask(t, FirstKey(t) # NoKey) \/ Ask(t, FALSE)
  /\ UNCHANGED <<store, writer, opened, listed, stats, lost, trx, view, wrote>>

\* ++iterator, in a loop that goes on while cursorHasValue.
CursorNext(t) ==
  /\ IsOpen(t) /\ cursor[t] # NoKey
  /\ cursor' = [cursor EXCEPT ![t] = KeyBehind(t)]
  /\ \E works \in BOOLEAN : Ask(t, works)
  /\ UNCHANGED <<store, writer, opened, listed, stats, lost, trx, view, wrote>>

\* Defect: the handler of setKV ends without its callback.
CallsBackUnlessWriting(t) == t \notin doomed /\ trx[t] # "write"

\* The handler reaches its wasmCallback.
CallsBack(t) == t \notin doomed

HostAnswers(t) == CallsBack(t) /\ Guest!HostAnswers(t) /\ UNCHANGED dbVars

HostFails(t) ==
  /\ t \in doomed
  /\ Guest!HostFails(t)
  /\ doomed' = doomed \ {t}
  /\ UNCHANGED <<store, writer, opened, listed, stats, lost, trx, view, cursor,
                 wrote>>

-----------------------------------------------------------------------------
(* Calls that return at once or throw                                      *)

\* database::createTransaction.
CreateTransaction(t, mode) ==
  /\ Guest!Running(t)
  /\ t \in opened /\ trx[t] = "none"
  /\ \/ /\ IF mode = "write" THEN WriterFree ELSE Readers < MaxReaders
        /\ trx' = [trx EXCEPT ![t] = mode]
        /\ view' = [view EXCEPT ![t] = store]
        /\ writer' = IF mode = "write" THEN t ELSE writer
        /\ UNCHANGED guestVars
     \/ /\ IF mode = "write" THEN ~WriterFree ELSE Readers = MaxReaders
        /\ Guest!HostThrows(t)
        /\ UNCHANGED <<trx, view, writer>>
  /\ UNCHANGED <<store, opened, listed, stats, lost, cursor, doomed, wrote>>

\* The transaction of t ends in the environment, and what it saw and its
\* cursors with it.
Ends(t, how) ==
  /\ trx' = [trx EXCEPT ![t] = how]
  /\ view' = [view EXCEPT ![t] = Empty]
  /\ wrote' = [wrote EXCEPT ![t] = {}]
  /\ writer' = IF trx[t] = "write" THEN NoTask ELSE writer
  /\ cursor' = [cursor EXCEPT ![t] = NoKey]

\* Defect: a reader writes its snapshot back.
WrittenBack(t) == view[t]

\* The content once t has committed.
Committed(t) == IF trx[t] = "write" THEN view[t] ELSE store

\* transaction::commit.  If it fails the transaction is over all the same.
Commit(t) ==
  /\ Guest!Running(t)
  /\ IsOpen(t)
  /\ \/ /\ Ends(t, "committed")
        /\ store' = Committed(t)
        /\ UNCHANGED guestVars
     \/ Ends(t, "aborted") /\ Guest!HostThrows(t) /\ UNCHANGED store
  /\ UNCHANGED <<opened, listed, stats, lost, doomed>>

\* transaction::abort, which leaves `committed` as it is.
Abort(t) ==
  /\ Guest!Running(t)
  /\ IsOpen(t)
  /\ Ends(t, "aborted")
  /\ UNCHANGED <<guestVars, store, opened, listed, stats, lost, doomed>>

\* commit or abort of a transaction that is over: LMDB's has been released,
\* and the handler throws.
EndAgain(t) ==
  /\ trx[t] \in {"committed", "aborted"}
  /\ Guest!HostThrows(t)
  /\ UNCHANGED dbVars

\* database::close.  If the handle is in dbs, printStats begins: it opens two
\* readers and waits for a cursor of the first; the second is never ended,
\* and neither is the first if the second is refused.
CloseDb(t) ==
  /\ Guest!Running(t)
  /\ t \in opened
  /\ opened' = opened \ {t}
  /\ listed' = IF listed = t THEN NoTask ELSE listed
  /\ IF listed = t /\ Readers < MaxReaders
     THEN /\ lost' = lost + 1
          /\ stats' = IF Readers + 1 < MaxReaders THEN stats + 1 ELSE stats
     ELSE UNCHANGED <<lost, stats>>
  /\ UNCHANGED <<guestVars, store, writer, trx, view, cursor, doomed, wrote>>

\* printStats goes on, over a database that has been closed meanwhile: it
\* comes to its end, or an exception leaves its reader open.
PrintStats ==
  /\ stack = <<>> /\ stats > 0
  /\ stats' = stats - 1
  /\ lost' \in {lost, lost + 1}
  /\ UNCHANGED <<guestVars, store, writer, opened, listed, trx, view, cursor,
                 doomed, wrote>>
-----------------------------------------------------------------------------
(* Tasks and the process                                                   *)

\* Defect: ~transaction does not abort.
LeftOpen(t) == UNCHANGED <<trx, writer, view, cursor, wrote>>

\* ~transaction of a transaction that is open.
AbortedBy(t) == Ends(t, "aborted")

\* co_return: the locals of t are destroyed, then it comes to final_suspend.
\* A transaction that was aborted before is aborted again, which throws.
Finish(t) ==
  /\ \/ /\ trx[t] \in {"none", "committed"}
        /\ Guest!Finish(t)
        /\ UNCHANGED <<trx, writer, view, cursor, wrote>>
     \/ IsOpen(t) /\ Guest!Finish(t) /\ AbortedBy(t)
     \/ /\ trx[t] = "aborted"
        /\ Guest!HostThrows(t)
        /\ UNCHANGED <<trx, writer, view, cursor, wrote>>
  /\ opened' = opened \ {t}
  /\ UNCHANGED <<store, listed, stats, lost, doomed>>

\* What else tasks do, with their locals as they are.
TaskStep(t) ==
  /\ \/ Guest!Detach(t) \/ Guest!FinalReturns(t)
     \/ \E p \in Tasks : Guest!Await(p, t)
  /\ UNCHANGED dbVars

Start(t) == Guest!Start(t) /\ UNCHANGED dbVars

\* The process ends, by a signal or an exception that nobody catches, and is
\* started again: LMDB finds the last commit on disk.
Restart ==
  /\ used' = {} /\ attached' = {} /\ calls' = {} /\ hung' = {} /\ leaked' = {}
  /\ destroyed' = [t \in Tasks |-> 0]
  /\ continuation' = [t \in Tasks |-> NoTask]
  /\ stack' = <<>>
  /\ made' = [t \in Tasks |-> 0]
  /\ writer' = NoTask
  /\ opened' = {} /\ listed' = NoTask
  /\ stats' = 0 /\ lost' = 0
  /\ trx' = [t \in Tasks |-> "none"]
  /\ view' = [t \in Tasks |-> Empty]
  /\ cursor' = [t \in Tasks |-> NoKey]
  /\ doomed' = {}
  /\ wrote' = [t \in Tasks |-> {}]
  /\ UNCHANGED store

-----------------------------------------------------------------------------
DbStep(t) ==
  \/ OpenDb(t) \/ Everything(t) \/ CursorNext(t)
  \/ \E k \in Keys, v \in Values : SetKV(t, k, v)
  \/ \E mode \in {"read", "write"} : CreateTransaction(t, mode)
  \/ Commit(t) \/ Abort(t) \/ EndAgain(t) \/ CloseDb(t)

GuestStep == \E t \in Tasks : DbStep(t) \/ Finish(t) \/ TaskStep(t)
HostSettles(t) == HostAnswers(t) \/ HostFails(t)

Next ==
  \/ GuestStep \/ PrintStats \/ Restart
  \/ \E t \in Tasks : Start(t) \/ HostSettles(t)

Spec == Init /\ [][Next]_vars

\* As in GuestTasks; the process need not restart.
FairSpec ==
  /\ Spec
  /\ WF_vars(GuestStep)
  /\ \A t \in Tasks : WF_vars(HostSettles(t))

-----------------------------------------------------------------------------
TypeOK ==
  /\ Guest!TypeOK
  /\ store \in Content
  /\ writer \in Tasks \cup {NoTask}
  /\ opened \subseteq Tasks
  /\ listed \in Tasks \cup {NoTask}
  /\ {stats, lost} \subseteq 0 .. MaxReaders
  /\ trx \in [Tasks -> {"none", "read", "write", "committed", "aborted"}]
  /\ view \in [Tasks -> Content]
  /\ cursor \in [Tasks -> Keys \cup {NoKey}]
  /\ doomed \subseteq calls
  /\ wrote \in [Tasks -> SUBSET Keys]

\* The lock of the environment is held by the one task whose write
\* transaction is open, and a task that has ended has no transaction open:
\* no path through a task, its commits, aborts, failures and ends leaks the
\* lock or a reader slot.
NothingOutlivesItsTask ==
  /\ \A t \in Tasks : writer = t <=> trx[t] = "write"
  /\ \A t \in Tasks : destroyed[t] > 0 \/ t \in leaked => ~IsOpen(t)
  /\ Readers <= MaxReaders

\* While a writer is open nobody else has changed what it began with: the
\* pages that its commit puts in place of the content are the content but
\* for its own writes.
WriterIsCurrent ==
  writer # NoTask =>
    \A k \in Keys \ wrote[writer] : view[writer][k] = store[k]

DbInv == TypeOK /\ NothingOutlivesItsTask /\ WriterIsCurrent

\* The database of the guest is the store of KvStore.tla: a commit is atomic
\* and loses no other commit, readers keep their snapshot, what is not
\* committed goes with the task or the process, what is committed stays.
Abstract == INSTANCE KvStore
              WITH store <- store, sees <- view, wrote <- wrote,
                   mode <- [t \in Tasks |-> IF trx[t] \in {"committed", "aborted"}
                                            THEN "ended" ELSE trx[t]]
Refines == Abstract!Spec

\* The write lock is given back, by commit, by abort or by the destructor,
\* unless the task that holds it waits for a host call that has failed, or
\* for a task that does: then only a restart frees it.
WritersEnd == \A t \in Tasks : writer = t ~> (writer # t \/ Guest!Stuck(t))
=============================================================================
