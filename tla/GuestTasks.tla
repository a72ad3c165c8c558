----------------------------- MODULE GuestTasks -----------------------------
(***************************************************************************)
(* The coroutines of a guest program (clintrinsics/coroutines.hpp) over    *)
(* the host that answers its calls (packages/bios).  A task runs on the    *)
(* call stack of whoever resumes it: the host, the task that awaits it, or *)
(* a task that has just finished.  Host and guest share one thread, so the *)
(* host's handlers go on only while no guest code is on the stack.         *)
(*                                                                         *)
(* A frame is the coroutine frame of a task; it is destroyed by falling    *)
(* off its final suspend point or by the Task object that still owns it.   *)
(***************************************************************************)
EXTENDS Naturals, Sequences, FiniteSets, SequencesExt

CONSTANTS
  Tasks,           \* the coroutines a guest program may create
  NoTask,          \* a null coroutine_handle
  MaxCalls,        \* bound: calls of the host by one task
  MayFinishAtOnce  \* an awaited task may end before it first suspends

ASSUME GuestTasksAssumption ==
  NoTask \notin Tasks /\ MaxCalls \in Nat /\ MayFinishAtOnce \in BOOLEAN

VARIABLES
  used,          \* tasks whose coroutine has been created
  destroyed,     \* destroyed[t]: how often the frame of t was destroyed
  continuation,  \* continuation[t]: the task that awaits t
  attached,      \* awaited tasks whose Task object still holds the promise
  stack,         \* the guest's call stack, the running entry last
  calls,         \* tasks that wait for the callback of a host call
  hung,          \* tasks that nobody will ever resume
  leaked,        \* ended tasks whose final_suspend was left by an exception
  made           \* made[t]: host calls of t so far

vars == <<used, destroyed, continuation, attached, stack, calls, hung, leaked,
          made>>

\* What a frame is on the stack for: its own code, a host call that has not
\* returned, await_suspend of a task it awaits, or its final_suspend.
Places == {"body", "call", "await", "final"}
Entry(t, place) == [task |-> t, at |-> place]

Running(t) == stack # <<>> /\ Last(stack) = Entry(t, "body")

Init ==
  /\ used = {} /\ attached = {} /\ calls = {} /\ hung = {}
  /\ leaked = {}
  /\ destroyed = [t \in Tasks |-> 0]
  /\ continuation = [t \in Tasks |-> NoTask]
  /\ stack = <<>>
  /\ made = [t \in Tasks |-> 0]

-----------------------------------------------------------------------------
(* Tasks                                                                   *)

\* TaskBase::start, from the host (an export, an event) or from a task.
Start(t) ==
  /\ stack # <<>> => Last(stack).at = "body"
  /\ t \notin used
  /\ used' = used \cup {t}
  /\ stack' = Append(stack, Entry(t, "body"))
  /\ UNCHANGED <<destroyed, continuation, attached, calls, hung, made, leaked>>

\* ~TaskBase of a task that was never started: its frame goes with it.
Discard(t) ==
  /\ stack # <<>> /\ Last(stack).at = "body"
  /\ t \notin used
  /\ used' = used \cup {t}
  /\ destroyed' = [destroyed EXCEPT ![t] = @ + 1]
  /\ UNCHANGED <<continuation, attached, stack, calls, hung, made, leaked>>

\* co_await of a task: await_suspend resumes it on top of its parent.
Await(p, t) ==
  /\ Running(p)
  /\ t \notin used
  /\ used' = used \cup {t}
  /\ continuation' = [continuation EXCEPT ![t] = p]
  /\ attached' = attached \cup {t}
  /\ stack' = Front(stack) \o <<Entry(p, "await"), Entry(t, "body")>>
  /\ UNCHANGED <<destroyed, calls, hung, made, leaked>>

\* Defect: the Task object keeps its promise.
StillAttached(p) == attached

\* What is attached after `promise = nullptr` in the Task object of p.
AttachedAfter(p) == {t \in attached : continuation[t] # p}

\* The rest of await_suspend, in the Task object inside the frame of p, once
\* the awaited task has suspended or ended.  p is suspended from here on.
Detach(p) ==
  /\ stack # <<>> /\ Last(stack) = Entry(p, "await")
  /\ attached' = AttachedAfter(p)
  /\ stack' = Front(stack)
  /\ UNCHANGED <<used, destroyed, continuation, calls, hung, made, leaked>>

\* Defect: final_suspend resumes nobody.
NobodyResumed(t) == <<>>

\* The task that final_suspend of t resumes.
ResumedBy(t) == IF continuation[t] = NoTask THEN <<>>
                ELSE <<Entry(continuation[t], "body")>>

\* t has not suspended yet: the await_suspend that resumed it waits below it.
InAwaitSuspend(t) ==
  \E i \in DOMAIN stack : stack[i] = Entry(continuation[t], "await")

\* co_return: final_suspend resumes the parent inside the call.  The first
\* thing the parent does is to destroy the temporary Task it awaited, which
\* destroys the frame of t if that Task still owns it.
Finish(t) ==
  /\ Running(t)
  /\ InAwaitSuspend(t) => MayFinishAtOnce
  /\ stack' = Front(stack) \o <<Entry(t, "final")>> \o ResumedBy(t)
  /\ destroyed' = [destroyed EXCEPT ![t] = @ + (IF t \in attached THEN 1 ELSE 0)]
  /\ attached' = attached \ {t}
  /\ UNCHANGED <<used, continuation, calls, hung, made, leaked>>

\* final_suspend returns suspend_never: control falls off the coroutine.
FinalReturns(t) ==
  /\ stack # <<>> /\ Last(stack) = Entry(t, "final")
  /\ destroyed' = [destroyed EXCEPT ![t] = @ + 1]
  /\ stack' = Front(stack)
  /\ UNCHANGED <<used, continuation, attached, calls, hung, made, leaked>>

-----------------------------------------------------------------------------
(* Calls of the host                                                       *)

\* CallAsyncAwaitable::await_suspend of a call that the host answers later.
CallHost(t) ==
  /\ Running(t)
  /\ made[t] < MaxCalls
  /\ made' = [made EXCEPT ![t] = @ + 1]
  /\ calls' = calls \cup {t}
  /\ stack' = Front(stack)
  /\ UNCHANGED <<used, destroyed, continuation, attached, hung, leaked>>

\* A handler without an await calls back before it returns: the callback
\* resumes the task on top of its own await_suspend.  A further call is left
\* to the task, so that the bound does not keep it from suspending.
CallHostAtOnce(t) ==
  /\ Running(t)
  /\ made[t] + 1 < MaxCalls
  /\ made' = [made EXCEPT ![t] = @ + 1]
  /\ stack' = Front(stack) \o <<Entry(t, "call"), Entry(t, "body")>>
  /\ UNCHANGED <<used, destroyed, continuation, attached, calls, hung, leaked>>

\* The handler returns into await_suspend, which touches nothing any more.
CallReturns(t) ==
  /\ stack # <<>> /\ Last(stack) = Entry(t, "call")
  /\ stack' = Front(stack)
  /\ UNCHANGED <<used, destroyed, continuation, attached, calls, hung, made,
                 leaked>>

\* Defect: the handler calls back and goes on to call back again.
StillOutstanding(t) == calls

\* The calls outstanding once that of t is settled.
OutstandingAfter(t) == calls \ {t}

\* A handler's promise resolves: wasmCallback enters post_process, which
\* resumes the task.
HostAnswers(t) ==
  /\ stack = <<>>
  /\ t \in calls
  /\ calls' = OutstandingAfter(t)
  /\ stack' = <<Entry(t, "body")>>
  /\ UNCHANGED <<used, destroyed, continuation, attached, hung, made, leaked>>

\* A handler throws through throwError, or what it awaits never settles: the
\* guest is not told.
HostFails(t) ==
  /\ stack = <<>>
  /\ t \in calls
  /\ calls' = OutstandingAfter(t)
  /\ hung' = hung \cup {t}
  /\ UNCHANGED <<used, destroyed, continuation, attached, stack, made, leaked>>

\* An exception of the host goes through the guest's frames, which have no
\* handlers of their own, down to the asynchronous handler whose callback
\* runs them, or to the event loop.
Unwound ==
  {i \in DOMAIN stack : \A j \in i .. Len(stack) : stack[j].at # "call"}

\* A synchronous import throws.  Code that it unwinds is not resumed, its
\* locals are not destroyed, and a final_suspend never comes to its end; a
\* task that was suspended when it ran the others goes on to wait.
HostThrows(t) ==
  /\ Running(t)
  /\ LET InPlace(place) ==
           {stack[i].task : i \in {j \in Unwound : stack[j].at = place}}
     IN  /\ hung' = hung \cup InPlace("body")
         /\ leaked' = leaked \cup InPlace("final")
  /\ stack' = SubSeq(stack, 1, Len(stack) - Cardinality(Unwound))
  /\ UNCHANGED <<used, destroyed, continuation, attached, calls, made>>

-----------------------------------------------------------------------------
GuestStep ==
  \E t \in Tasks :
    \/ Detach(t) \/ Finish(t) \/ FinalReturns(t)
    \/ CallHost(t) \/ CallHostAtOnce(t) \/ CallReturns(t) \/ HostThrows(t)
    \/ \E p \in Tasks : Await(p, t)
    \/ Discard(t)

HostSettles(t) == HostAnswers(t) \/ HostFails(t)

Next ==
  \/ GuestStep
  \/ \E t \in Tasks : Start(t) \/ HostSettles(t)

Spec == Init /\ [][Next]_vars

\* Guest code runs until it returns to the host.  The host answers every
\* call or fails it; nobody has to start anything.
FairSpec ==
  /\ Spec
  /\ WF_vars(GuestStep)
  /\ \A t \in Tasks : WF_vars(HostSettles(t))

-----------------------------------------------------------------------------
TypeOK ==
  /\ used \subseteq Tasks /\ attached \subseteq used
  /\ calls \subseteq used /\ hung \subseteq used /\ leaked \subseteq used
  /\ destroyed \in [Tasks -> Nat]
  /\ continuation \in [Tasks -> Tasks \cup {NoTask}]
  /\ stack \in Seq([task : used, at : Places])
  /\ made \in [Tasks -> 0 .. MaxCalls]

Live(t) == t \in used \ leaked /\ destroyed[t] = 0

\* A running task is destroyed automatically when it is done and only then:
\* no frame is destroyed a second time (~TaskBase against suspend_never).
DestroyedOnce == \A t \in Tasks : destroyed[t] <= 1

\* Nothing is left to touch a destroyed frame: neither the code on the
\* stack, nor a callback of the host, nor a Task object, nor the final
\* suspend of a child.  An await_suspend that waits for the host to return
\* touches its frame no more.
FramesAlive ==
  /\ \A i \in DOMAIN stack : stack[i].at # "call" => Live(stack[i].task)
  /\ calls \cup attached \subseteq {t \in Tasks : Live(t)}
  /\ \A t \in Tasks :
       Live(t) /\ continuation[t] # NoTask
         => \/ Live(continuation[t])
            \/ \E i \in DOMAIN stack : stack[i] = Entry(t, "final")

\* The lifetimes of frames are right across nested and late resumption.
FramesSafe == TypeOK /\ DestroyedOnce /\ FramesAlive

AwaitsLive(t) == {c \in Tasks : Live(c) /\ continuation[c] = t}

\* Whenever control is back in the host, a task that has not ended waits for
\* exactly one thing that can resume it: a call of its own or one child.  A
\* task nobody will resume is one the host has failed.
NobodyForgotten ==
  stack = <<>> =>
    \A t \in Tasks : Live(t) =>
      LET waits == (IF t \in calls THEN 1 ELSE 0)
                   + (IF t \in hung THEN 1 ELSE 0)
                   + Cardinality(AwaitsLive(t))
      IN  waits = 1

\* t or a task it waits for, directly or not, is hung: t is in every set
\* that contains the hung tasks and the parents of its members.
Stuck(t) ==
  \A S \in SUBSET Tasks :
    (hung \subseteq S /\ \A c \in S : continuation[c] \in S \cup {NoTask})
      => t \in S

\* Every task that was begun ends, unless a host call that it waits for
\* fails: resumption by callbacks and by final_suspend loses nobody.
TasksEnd == \A t \in Tasks : t \in used ~> (~Live(t) \/ Stuck(t))
=============================================================================
