------------------------------ MODULE ExecLoop ------------------------------
(***************************************************************************)
(* The main loop of an appbase application: application::exec and post     *)
(* (application.cpp, application.hpp) over execution_priority_queue.       *)
(*                                                                         *)
(* app().post(priority, f) goes through two queues.  boost::asio::post     *)
(* puts a handler into the io_service; when the loop polls it, its         *)
(* associated executor does not call f but adds it to the priority queue,  *)
(* and the loop executes one handler of that queue between two polls.  The *)
(* handlers of signals are plain handlers of the io_service and run while  *)
(* it is polled.                                                           *)
(*                                                                         *)
(* The n-th call of post is handler n.  Handlers, plugins that start and   *)
(* I/O completions call post; so may other threads, io_service allows it.  *)
(***************************************************************************)
EXTENDS Integers, Sequences

CONSTANTS
  Priorities,  \* the priorities handlers are posted with
  MaxPosts,    \* bound: calls of post
  MaxSignals   \* bound: signals the process gets

\* priority::medium is the one the SIGHUP handler posts with.
Medium == 50

ASSUME ExecLoopAssumption ==
  Priorities \subseteq Int /\ MaxPosts \in Nat /\ MaxSignals \in Nat

VARIABLES
  pc,        \* where the main thread is
  posts,     \* posts[n]: the priority of handler n
  io,        \* the handlers ready in the io_service
  handlers,  \* execution_priority_queue::handlers_
  order,     \* execution_priority_queue::order_, relative to its start
  more,      \* the local of exec()
  stopped,   \* the io_service is stopped: quit() has been called
  signals,   \* how many signals the process got
  executed,  \* history: the handlers that have returned, in order
  visible    \* history: Len(posts) when a poll last found nothing ready

vars == <<pc, posts, io, handlers, order, more, stopped, signals, executed,
          visible>>

Places == {"startup", "poll", "execute", "handler", "loop", "shutdown",
           "returned", "threw"}

Ids == 1 .. Len(posts)
Posted(n) == [kind |-> "post", id |-> n]
Plain(kind) == [kind |-> kind, id |-> 0]

Init ==
  /\ pc = "startup"
  /\ posts = <<>> /\ io = <<>> /\ handlers = {}
  /\ order = 0 /\ more = TRUE /\ stopped = FALSE
  /\ signals = 0 /\ executed = <<>> /\ visible = 0

-----------------------------------------------------------------------------
(* execution_priority_queue                                                *)

\* Defect: order_ counts up.
AddCountingUp(n) ==
  /\ order' = order + 1
  /\ handlers' = handlers \cup {[id |-> n, priority |-> posts[n], order |-> order']}

\* add: order_ counts down, so that of two equal priorities the handler
\* added first is the greater one.
Add(n) ==
  /\ order' = order - 1
  /\ handlers' = handlers \cup {[id |-> n, priority |-> posts[n], order |-> order']}

\* Defect: the priority is not compared.
BelowByOrder(a, b) == a.order < b.order

\* operator<, by which the std::priority_queue finds its top.
Below(a, b) ==
  a.priority < b.priority \/ (a.priority = b.priority /\ a.order < b.order)

Highest == CHOOSE h \in handlers : \A g \in handlers \ {h} : Below(g, h)

\* Defects: nothing, or everything, is removed.
NotPopped == handlers
AllPopped == {}

\* pop(), which removes what is at the top when the handler has returned.
Popped == handlers \ {Highest}

-----------------------------------------------------------------------------
(* Calls and events from outside the loop                                  *)

Post(p) ==
  /\ pc \notin {"returned", "threw"}
  /\ Len(posts) < MaxPosts
  /\ posts' = Append(posts, p)
  /\ io' = Append(io, Posted(Len(posts')))
  /\ UNCHANGED <<pc, handlers, order, more, stopped, signals, executed, visible>>

\* The handler of a signal set becomes ready: SIGINT, SIGTERM or SIGPIPE in
\* that of wait_for_signal, SIGHUP in that of start_sighup_handler.
Signal(kind) ==
  /\ pc \notin {"startup", "returned", "threw"}
  /\ signals < MaxSignals
  /\ signals' = signals + 1
  /\ io' = Append(io, Plain(kind))
  /\ UNCHANGED <<pc, posts, handlers, order, more, stopped, executed, visible>>

\* quit(), called by any thread at any moment: by a plugin that starts, by the
\* startup signal thread, by a handler or by a thread of a plugin's own.
Quit ==
  /\ pc \notin {"returned", "threw"} /\ ~stopped
  /\ stopped' = TRUE
  /\ UNCHANGED <<pc, posts, io, handlers, order, more, signals, executed, visible>>

-----------------------------------------------------------------------------
(* exec()                                                                  *)

EnterExec ==
  /\ pc = "startup"
  /\ pc' = "poll" /\ more' = TRUE
  /\ UNCHANGED <<posts, io, handlers, order, stopped, signals, executed, visible>>

\* poll_one or run_one finds a handler to run.
Ready == io # <<>> /\ ~stopped

\* Defect: run_one waits although the service is stopped.
NeverFinished == FALSE

\* run_one returns 0: the local io_service::work keeps it waiting otherwise.
Finished == stopped

\* Defect: quit() ends the loop at once.
MoreUnlessStopped == more /\ ~stopped

\* The left operand of the loop's condition.
GoesOn == more

\* The io_service runs the first ready handler.  A signal handler arms its
\* signal set again, quit() only stops the service, and SIGHUP is posted on.
RunIo ==
  /\ Ready
  /\ LET h == Head(io)
     IN  \/ /\ h.kind = "post"
            /\ Add(h.id)
            /\ io' = Tail(io)
            /\ UNCHANGED <<posts, stopped>>
         \/ /\ h.kind = "quit"
            /\ stopped' = TRUE
            /\ io' = Tail(io)
            /\ UNCHANGED <<posts, handlers, order>>
         \/ /\ h.kind = "hup"
            /\ posts' = Append(posts, Medium)
            /\ io' = Append(Tail(io), Posted(Len(posts')))
            /\ UNCHANGED <<handlers, order, stopped>>
  /\ UNCHANGED <<more, signals, executed, visible>>

\* while( io_serv->poll_one() ) {}
PollOne == pc = "poll" /\ RunIo /\ UNCHANGED pc

PollNothing ==
  /\ pc = "poll" /\ ~Ready
  /\ pc' = "execute"
  /\ visible' = IF io = <<>> THEN Len(posts) ELSE visible
  /\ UNCHANGED <<posts, io, handlers, order, more, stopped, signals, executed>>

\* more = pri_queue.execute_highest(), up to the call of the top handler.
ExecuteHighest ==
  /\ pc = "execute"
  /\ \/ handlers # {} /\ pc' = "handler" /\ UNCHANGED more
     \/ handlers = {} /\ pc' = "loop" /\ more' = FALSE
  /\ UNCHANGED <<posts, io, handlers, order, stopped, signals, executed, visible>>

\* The handler returns and is popped.
HandlerReturns ==
  /\ pc = "handler"
  /\ executed' = Append(executed, Highest.id)
  /\ handlers' = Popped
  /\ more' = (handlers' # {})
  /\ pc' = "loop"
  /\ UNCHANGED <<posts, io, order, stopped, signals, visible>>

\* Its exception leaves execute_highest() and exec(), without a shutdown().
HandlerThrows ==
  /\ pc = "handler"
  /\ pc' = "threw"
  /\ UNCHANGED <<posts, io, handlers, order, more, stopped, signals, executed,
                 visible>>

\* while( more || io_serv->run_one() ): run_one blocks until a handler is
\* ready, and returns 0 only when the service is stopped.
Loop ==
  /\ pc = "loop"
  /\ \/ /\ GoesOn
        /\ pc' = "poll"
        /\ UNCHANGED <<posts, io, handlers, order, more, stopped, signals,
                       executed, visible>>
     \/ ~GoesOn /\ RunIo /\ pc' = "poll"
     \/ /\ ~GoesOn /\ Finished
        /\ pc' = "shutdown"
        /\ UNCHANGED <<posts, io, handlers, order, more, stopped, signals,
                       executed, visible>>

\* shutdown() returns (PluginLifecycle has its steps) and so does exec().
ShutdownReturns ==
  /\ pc = "shutdown"
  /\ pc' = "returned"
  /\ UNCHANGED <<posts, io, handlers, order, more, stopped, signals, executed,
                 visible>>

-----------------------------------------------------------------------------
MainStep ==
  \/ EnterExec \/ PollOne \/ PollNothing \/ ExecuteHighest
  \/ HandlerReturns \/ HandlerThrows \/ Loop \/ ShutdownReturns

Next ==
  \/ MainStep \/ Quit
  \/ \E p \in Priorities : Post(p)
  \/ \E kind \in {"quit", "hup"} : Signal(kind)

Spec == Init /\ [][Next]_vars

(* The main thread runs, and a handler returns or throws.                  *)
FairSpec == Spec /\ WF_vars(MainStep)

-----------------------------------------------------------------------------
TypeOK ==
  /\ pc \in Places
  /\ posts \in Seq(Int)
  /\ io \in Seq([kind : {"post", "quit", "hup"}, id : Nat])
  /\ handlers \subseteq [id : Nat, priority : Int, order : Int]
  /\ order \in -Len(posts) .. 0
  /\ {more, stopped} \subseteq BOOLEAN
  /\ signals \in 0 .. MaxSignals
  /\ executed \in Seq(Nat)
  /\ visible \in Nat

PostsIn(queue) == {queue[i].id : i \in {j \in 1 .. Len(queue) : queue[j].kind = "post"}}
InIo == PostsIn(io)
InHandlers == {h.id : h \in handlers}
Executed == {executed[i] : i \in 1 .. Len(executed)}

(* A posted handler is in exactly one place: still in the io_service, in   *)
(* the priority queue, or executed, and there once.  The hand-over between *)
(* the two queues neither drops a handler nor runs it twice, and pop()     *)
(* removes the handler that has run.                                       *)
NothingLost ==
  /\ InIo \cup InHandlers \cup Executed = Ids
  /\ InIo \cap InHandlers = {} /\ Executed \cap (InIo \cup InHandlers) = {}
  /\ \A i, j \in 1 .. Len(io) :
       i # j /\ io[i].kind = "post" /\ io[j].kind = "post" => io[i].id # io[j].id
  /\ \A g, h \in handlers : g.id = h.id => g = h
  /\ \A i, j \in 1 .. Len(executed) : i # j => executed[i] # executed[j]

(* No handler is lost, and each variable keeps its type.                   *)
LoopInv == TypeOK /\ NothingLost

(* application.hpp: "larger ints run first".  When a handler runs, every   *)
(* handler of a higher priority that had been posted when the loop last    *)
(* found the io_service idle has already run, and so have the earlier ones *)
(* of its own priority.                                                    *)
HigherFirst ==
  pc = "handler" =>
    \A n \in 1 .. visible : n \notin Executed \cup {Highest.id} =>
      \/ posts[n] < Highest.priority
      \/ posts[n] = Highest.priority /\ n > Highest.id

(* "to maintain FIFO ordering in queue within priority": over the whole    *)
(* run, handlers of one priority are executed in the order of the posts.   *)
FifoWithinPriority ==
  \A i, j \in 1 .. Len(executed) :
    i < j /\ posts[executed[i]] = posts[executed[j]] => executed[i] < executed[j]

(* Whenever the earlier one was posted, and however polls and posts fall   *)
(* between the executions, a handler that still waits has been overtaken   *)
(* by handlers of higher priorities only.                                  *)
OnlyHigherOvertake ==
  \A i \in 1 .. Len(executed) : \A n \in Ids \ Executed :
    n < executed[i] => posts[n] < posts[executed[i]]

(* The order of execution: by priority, first in first out within one, and *)
(* no handler waits behind a later one unless that has a higher priority.  *)
RunInOrder == HigherFirst /\ FifoWithinPriority /\ OnlyHigherOvertake

(* Plugins are not shut down under a handler that is still queued: quit()  *)
(* ends the polling at once, but what the priority queue holds is executed *)
(* before shutdown() runs.                                                 *)
DrainedBeforeShutdown == pc \in {"shutdown", "returned"} => handlers = {}

-----------------------------------------------------------------------------
(* exec: "Wait until quit(), SIGINT or SIGTERM and then shutdown", unless  *)
(* a handler throws.  A pending signal is not starved by the handlers of   *)
(* the priority queue, whatever their priority.                            *)
QuitEndsExec ==
  (stopped \/ \E i \in 1 .. Len(io) : io[i].kind = "quit")
    ~> pc \in {"returned", "threw"}

(* There is a last post.                                                   *)
PostsEnd == <>[][posts' = posts]_vars

(* Every posted handler is executed, unless the application ends first,    *)
(* if the posts come to an end.  Without that condition it may not be: the *)
(* loop takes the highest priority and does not age the others, so that a  *)
(* handler that posts itself again and again keeps those of lower          *)
(* priorities waiting for ever, and posts that come faster than they are   *)
(* polled keep all of them waiting.  MaxPosts makes the condition true of  *)
(* every run of the model.                                                 *)
HandlersRun ==
  PostsEnd =>
    \A n \in 1 .. MaxPosts + MaxSignals :
      n \in Ids ~> (n \in Executed \/ stopped \/ pc = "threw")
==============================================================================
