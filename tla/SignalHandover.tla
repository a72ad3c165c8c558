--------------------------- MODULE SignalHandover ---------------------------
(***************************************************************************)
(* How application::startup (application.cpp) hands SIGINT, SIGTERM and    *)
(* SIGPIPE over from a thread that catches them while plugins start to the *)
(* io_service that exec() runs.                                            *)
(*                                                                         *)
(* Asio keeps one pipe for the process: the system's signal handler writes *)
(* the number of the signal to it, a reactor that is being run reads it,   *)
(* and every signal_set registered at that moment completes its async_wait *)
(* as a handler in the queue of its own io_service, or keeps the signal    *)
(* for the next async_wait.  A stopped io_service runs no handler.  A      *)
(* handler that is running when stop() is called is one that ran before:   *)
(* the main thread does nothing between stop() and join().                 *)
(***************************************************************************)
EXTENDS Naturals

CONSTANTS
  MaxPlugins,  \* bound: plugins that startup() starts
  MaxSignals   \* bound: signals raised

ASSUME SignalHandoverAssumption == MaxPlugins \in Nat /\ MaxSignals \in Nat

VARIABLES
  main,        \* where the main thread is
  left,        \* plugins still to be started
  thread,      \* the startup thread runs its io_service, or has ended
  stopped,     \* startup_thread_ios.stop() has been called
  registered,  \* the signal_set of the main io_service exists
  pipe,        \* signals written to the pipe of Asio and not yet read
  pending,     \* completed waits in the queue of startup_thread_ios
  ready,       \* completed waits in the queue of the main io_service
  is_quiting,  \* quit() has been called: io_serv is stopped as well
  raised,      \* how many signals were raised
  late         \* history: one was raised when the startup thread had ended

vars == <<main, left, thread, stopped, registered, pipe, pending, ready,
          is_quiting, raised, late>>

Init ==
  /\ main = "plugins"
  /\ left \in 0 .. MaxPlugins
  /\ thread = "running" /\ stopped = FALSE /\ registered = FALSE
  /\ pipe = 0 /\ pending = 0 /\ ready = 0
  /\ is_quiting = FALSE
  /\ raised = 0 /\ late = FALSE

-----------------------------------------------------------------------------
Raise ==
  /\ main # "exited" /\ raised < MaxSignals
  /\ raised' = raised + 1
  /\ pipe' = pipe + 1
  /\ late' = (late \/ thread = "ended")
  /\ UNCHANGED <<main, left, thread, stopped, registered, pending, ready,
                 is_quiting>>

\* A reactor empties the pipe into the queues of the registered sets.
ReadPipe ==
  /\ pipe > 0
  /\ pipe' = 0
  /\ pending' = pending + pipe
  /\ ready' = IF registered THEN ready + pipe ELSE ready
  /\ UNCHANGED <<main, left, thread, stopped, registered, is_quiting, raised, late>>

-----------------------------------------------------------------------------
(* The startup thread: startup_thread_ios.run()                            *)

ThreadReads == thread = "running" /\ ~stopped /\ ReadPipe

\* The handler of wait_for_signal calls quit() and waits again.
ThreadQuits ==
  /\ thread = "running" /\ ~stopped /\ pending > 0
  /\ pending' = pending - 1
  /\ is_quiting' = TRUE
  /\ UNCHANGED <<main, left, thread, stopped, registered, pipe, ready, raised, late>>

\* run() returns because the service is stopped: what is queued stays there.
ThreadEnds ==
  /\ thread = "running" /\ stopped
  /\ thread' = "ended"
  /\ UNCHANGED <<main, left, stopped, registered, pipe, pending, ready,
                 is_quiting, raised, late>>

-----------------------------------------------------------------------------
(* The main thread: startup(), then exec()                                 *)

\* The loop over initialized_plugins is not at its end.
MorePlugins == left > 0

StartPlugin ==
  /\ main = "plugins" /\ MorePlugins /\ ~is_quiting
  /\ left' = left - 1
  /\ UNCHANGED <<main, thread, stopped, registered, pipe, pending, ready,
                 is_quiting, raised, late>>

\* Defect: the thread is joined without a stop.
JoinWithoutStop ==
  /\ main = "plugins" /\ (~MorePlugins \/ is_quiting)
  /\ main' = "joining"
  /\ UNCHANGED <<left, thread, stopped, registered, pipe, pending, ready,
                 is_quiting, raised, late>>

\* clean_up_signal_thread(): stop, then join.
StopThread ==
  /\ main = "plugins" /\ (~MorePlugins \/ is_quiting)
  /\ main' = "joining"
  /\ stopped' = TRUE
  /\ UNCHANGED <<left, thread, registered, pipe, pending, ready, is_quiting,
                 raised, late>>

\* Defect: nobody waits for the thread.
Detached == TRUE

\* startup_thread.join() returns.
Joined == thread = "ended"

\* Defect: exec() has no signal_set.
NotRearmed ==
  /\ main = "joining" /\ Joined
  /\ main' = "exec"
  /\ pending' = 0
  /\ UNCHANGED <<left, thread, stopped, registered, pipe, ready, is_quiting,
                 raised, late>>

\* join() returns; setup_signal_handling_on_ios(get_io_service(), false).
\* The signal_set of startup() still exists, so no signal of the system is
\* missed meanwhile.  Leaving startup() destroys it with its service.
Rearm ==
  /\ main = "joining" /\ Joined
  /\ main' = "exec"
  /\ registered' = TRUE
  /\ pending' = 0
  /\ UNCHANGED <<left, thread, stopped, pipe, ready, is_quiting, raised, late>>

\* exec() polls the main io_service, unless quit() stopped it.
MainReads == main = "exec" /\ ~is_quiting /\ ReadPipe

MainQuits ==
  /\ main = "exec" /\ ~is_quiting /\ ready > 0
  /\ ready' = ready - 1
  /\ is_quiting' = TRUE
  /\ UNCHANGED <<main, left, thread, stopped, registered, pipe, pending, raised, late>>

\* exec() shuts down and returns.
Exit ==
  /\ main = "exec" /\ is_quiting
  /\ main' = "exited"
  /\ UNCHANGED <<left, thread, stopped, registered, pipe, pending, ready,
                 is_quiting, raised, late>>

-----------------------------------------------------------------------------
MainStep == StartPlugin \/ StopThread \/ Rearm \/ MainReads \/ MainQuits \/ Exit
ThreadStep == ThreadReads \/ ThreadQuits \/ ThreadEnds

Next == Raise \/ MainStep \/ ThreadStep

Spec == Init /\ [][Next]_vars

(* Both threads run; a plugin's startup returns.                           *)
FairSpec ==
  /\ Spec
  /\ WF_vars(MainStep)
  /\ WF_vars(ThreadStep)

-----------------------------------------------------------------------------
TypeOK ==
  /\ main \in {"plugins", "joining", "exec", "exited"}
  /\ left \in 0 .. MaxPlugins
  /\ thread \in {"running", "ended"}
  /\ {stopped, registered, is_quiting, late} \subseteq BOOLEAN
  /\ {pipe, pending, ready, raised} \subseteq 0 .. MaxSignals

(* The two services are never run at once, so that one signal is not       *)
(* handled by both: the main loop starts after the startup thread ended.   *)
(* HandoverInv adds the types.                                             *)
OneRunsAtATime == main \in {"exec", "exited"} => thread = "ended"
HandoverInv == TypeOK /\ OneRunsAtATime

(* A signal raised when the startup thread has already ended finds a       *)
(* reader, even before the main set is armed: it stays in the pipe.        *)
LateSignalsEnd == late ~> main = "exited"

(* README of appbase: "To trigger a graceful exit call quit() or send      *)
(* SIGTERM, SIGINT, or SIGPIPE to the process."                            *)
SignalsEnd == raised > 0 ~> main = "exited"

(* startup() returns, whatever the signal thread does: join() cannot hang. *)
StartupReturns == <>(main \in {"exec", "exited"})
==============================================================================
