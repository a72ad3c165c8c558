--------------------------- MODULE PluginLifecycle ---------------------------
(***************************************************************************)
(* The life of the plugins of an appbase application: application::        *)
(* initialize_impl, startup and shutdown (application.cpp) driving         *)
(* plugin<Impl>::initialize, startup and shutdown (application.hpp).       *)
(*                                                                         *)
(* initialize and startup recurse into the plugins a plugin requires, so   *)
(* the model keeps the call stack; a frame remembers the required plugins  *)
(* still to be visited.  plugin_initialize, plugin_startup and             *)
(* plugin_shutdown are the plugin's own code: they return or throw.  The   *)
(* thread that catches signals while plugins start, and any plugin once    *)
(* exec() runs, may call quit() between two steps of the main thread.      *)
(***************************************************************************)
EXTENDS Naturals, Sequences, FiniteSets

CONSTANT Plugins

\* An application is compiled from finitely many plugin classes.
ASSUME PluginsAssumption == IsFiniteSet(Plugins)

VARIABLES
  requires,             \* requires[p]: the APPBASE_PLUGIN_REQUIRES of p
  wanted,               \* plugins --plugin and the autostart list still name
  stage,                \* where the main thread is
  state,                \* state[p]: plugin<Impl>::_state
  stack,                \* the frames of plugin<Impl>::initialize or startup
  next,                 \* index of the loop of startup() or shutdown()
  initialized_plugins,  \* application::initialized_plugins
  running_plugins,      \* application::running_plugins
  is_quiting,           \* application_impl::_is_quiting
  failed,               \* an exception left initialize, startup or shutdown
  up                    \* history: plugins whose plugin_startup has returned

vars == <<requires, wanted, stage, state, stack, next, initialized_plugins,
          running_plugins, is_quiting, failed, up>>

Stages == {"initialize", "startup", "exec", "shutdown", "over"}
States == {"registered", "initialized", "started", "stopped"}

\* A C++ class can only require classes that are complete before it, so the
\* requirements have no cycle.
Acyclic(r) ==
  \E rank \in [Plugins -> 1 .. Cardinality(Plugins)] :
    \A p \in Plugins : \A d \in r[p] : rank[d] < rank[p]

Init ==
  /\ requires \in {r \in [Plugins -> SUBSET Plugins] : Acyclic(r)}
  /\ wanted \in SUBSET Plugins
  /\ stage = "initialize"
  /\ state = [p \in Plugins |-> "registered"]
  /\ stack = <<>>
  /\ next = 1
  /\ initialized_plugins = <<>>
  /\ running_plugins = <<>>
  /\ is_quiting = FALSE
  /\ failed = FALSE
  /\ up = {}

-----------------------------------------------------------------------------
(* plugin<Impl>::initialize and plugin<Impl>::startup                      *)

\* Defects: the required plugins are not visited, or only at startup.
FrameWithoutRequired(p) == [plugin |-> p, todo |-> {}]
FrameOnlyAtStartup(p) ==
  [plugin |-> p, todo |-> IF stage = "initialize" THEN {} ELSE requires[p]]

\* A call of initialize or startup that has set the state and visits the
\* required plugins.
Frame(p) == [plugin |-> p, todo |-> requires[p]]
Top == stack[Len(stack)]
Callers == SubSeq(stack, 1, Len(stack) - 1)

\* What a call does to a plugin: initialize acts on a registered one, startup
\* on an initialized one; the state changes before anything is visited.
Before == IF stage = "initialize" THEN "registered" ELSE "initialized"
After == IF stage = "initialize" THEN "initialized" ELSE "started"

Enter(p, callers) ==
  IF state[p] = Before
  THEN /\ state' = [state EXCEPT ![p] = After]
       /\ stack' = Append(callers, Frame(p))
  ELSE stack' = callers /\ UNCHANGED state

\* plugin_requires calls the visitor on the next required plugin.
VisitRequired ==
  /\ stack # <<>> /\ stage \in {"initialize", "startup"}
  /\ \E d \in Top.todo :
       Enter(d, Append(Callers, [Top EXCEPT !.todo = @ \ {d}]))
  /\ UNCHANGED <<requires, wanted, stage, next, initialized_plugins,
                 running_plugins, is_quiting, failed, up>>

\* plugin_initialize or plugin_startup returns; the application is notified.
PluginReturns ==
  /\ stack # <<>> /\ Top.todo = {}
  /\ \/ /\ stage = "initialize"
        /\ initialized_plugins' = Append(initialized_plugins, Top.plugin)
        /\ UNCHANGED <<running_plugins, up>>
     \/ /\ stage = "startup"
        /\ running_plugins' = Append(running_plugins, Top.plugin)
        /\ up' = up \cup {Top.plugin}
        /\ UNCHANGED initialized_plugins
  /\ stack' = Callers
  /\ UNCHANGED <<requires, wanted, stage, state, next, is_quiting, failed>>

-----------------------------------------------------------------------------
(* application::initialize_impl                                            *)

\* get_plugin(name).initialize for --plugin, or the autostart loop.
InitializeWanted ==
  /\ stage = "initialize" /\ stack = <<>>
  /\ \E p \in wanted : wanted' = wanted \ {p} /\ Enter(p, <<>>)
  /\ UNCHANGED <<requires, stage, next, initialized_plugins, running_plugins,
                 is_quiting, failed, up>>

\* initialize() returned true; main calls startup().
InitializeDone ==
  /\ stage = "initialize" /\ stack = <<>> /\ wanted = {}
  /\ stage' = "startup"
  /\ UNCHANGED <<requires, wanted, state, stack, next, initialized_plugins,
                 running_plugins, is_quiting, failed, up>>

\* plugin_initialize throws: main gets the exception, or false from the
\* autostart loop, and returns.
InitializeThrows ==
  /\ stage = "initialize" /\ stack # <<>> /\ Top.todo = {}
  /\ stage' = "over" /\ failed' = TRUE /\ stack' = <<>>
  /\ UNCHANGED <<requires, wanted, state, next, initialized_plugins,
                 running_plugins, is_quiting, up>>

-----------------------------------------------------------------------------
(* application::startup                                                    *)

StartNext ==
  /\ stage = "startup" /\ stack = <<>>
  /\ next <= Len(initialized_plugins) /\ ~is_quiting
  /\ Enter(initialized_plugins[next], <<>>)
  /\ next' = next + 1
  /\ UNCHANGED <<requires, wanted, stage, initialized_plugins,
                 running_plugins, is_quiting, failed, up>>

\* Defect: main returns when startup() was cut short.
StartupDoneReturns ==
  /\ stage = "startup" /\ stack = <<>>
  /\ next > Len(initialized_plugins) \/ is_quiting
  /\ stage' = IF is_quiting THEN "over" ELSE "exec"
  /\ UNCHANGED <<requires, wanted, state, stack, next, initialized_plugins,
                 running_plugins, is_quiting, failed, up>>

\* The loop is over or breaks; main calls exec().
StartupDone ==
  /\ stage = "startup" /\ stack = <<>>
  /\ next > Len(initialized_plugins) \/ is_quiting
  /\ stage' = "exec"
  /\ UNCHANGED <<requires, wanted, state, stack, next, initialized_plugins,
                 running_plugins, is_quiting, failed, up>>

\* Defect: the last plugin is left out.
EnterShutdownOffByOne ==
  /\ stage' = "shutdown"
  /\ next' = Len(running_plugins) - 1

\* shutdown() begins with the plugin started last.
EnterShutdown ==
  /\ stage' = "shutdown"
  /\ next' = Len(running_plugins)

\* Defect: the application is notified before plugin_startup is called.
StartupThrowsAfterNotice ==
  /\ stage = "startup" /\ stack # <<>> /\ Top.todo = {}
  /\ stack' = <<>> /\ failed' = TRUE
  /\ running_plugins' = Append(running_plugins, Top.plugin)
  /\ stage' = "shutdown" /\ next' = Len(running_plugins')
  /\ UNCHANGED <<requires, wanted, state, initialized_plugins, is_quiting, up>>

\* plugin_startup throws: shutdown() runs and the exception is thrown again.
StartupThrows ==
  /\ stage = "startup" /\ stack # <<>> /\ Top.todo = {}
  /\ stack' = <<>> /\ failed' = TRUE
  /\ EnterShutdown
  /\ UNCHANGED <<requires, wanted, state, initialized_plugins,
                 running_plugins, is_quiting, up>>

-----------------------------------------------------------------------------
(* quit, exec and shutdown                                                 *)

Quit ==
  /\ stage \in {"startup", "exec"} /\ ~is_quiting
  /\ is_quiting' = TRUE
  /\ UNCHANGED <<requires, wanted, stage, state, stack, next,
                 initialized_plugins, running_plugins, failed, up>>

\* Defect: the flag is set and the io_service not stopped.
NeverStopped == FALSE

\* quit() sets the flag and stops the io_service; nothing undoes either
\* before the loop of exec() is over.
Stopped == is_quiting

\* The loop of exec() ends only when the io_service was stopped.
ExecReturns ==
  /\ stage = "exec" /\ Stopped
  /\ EnterShutdown
  /\ UNCHANGED <<requires, wanted, state, stack, initialized_plugins,
                 running_plugins, is_quiting, failed, up>>

\* A handler throws: the exception leaves exec() for main, and shutdown() is
\* not called.
ExecThrows ==
  /\ stage = "exec"
  /\ stage' = "over" /\ failed' = TRUE
  /\ UNCHANGED <<requires, wanted, state, stack, next, initialized_plugins,
                 running_plugins, is_quiting, up>>

\* Defect: the order of startup.
VictimInOrder == running_plugins[Len(running_plugins) + 1 - next]

\* The plugin the loop of shutdown() is at.
Victim == running_plugins[next]

\* plugin_shutdown returns; the loop goes to the plugin started before.
ShutdownNext ==
  /\ stage = "shutdown" /\ next > 0
  /\ state' = IF state[Victim] = "started"
              THEN [state EXCEPT ![Victim] = "stopped"]
              ELSE state
  /\ next' = next - 1
  /\ UNCHANGED <<requires, wanted, stage, stack, initialized_plugins,
                 running_plugins, is_quiting, failed, up>>

\* plugin_shutdown throws: the exception leaves shutdown() and reaches main.
ShutdownThrows ==
  /\ stage = "shutdown" /\ next > 0
  /\ state[Victim] = "started"
  /\ state' = [state EXCEPT ![Victim] = "stopped"]
  /\ stage' = "over" /\ failed' = TRUE
  /\ UNCHANGED <<requires, wanted, stack, next, initialized_plugins,
                 running_plugins, is_quiting, up>>

\* The lists are cleared, the plugins destroyed, and quit() is called.
ShutdownDone ==
  /\ stage = "shutdown" /\ next = 0
  /\ stage' = "over"
  /\ initialized_plugins' = <<>> /\ running_plugins' = <<>>
  /\ is_quiting' = TRUE
  /\ UNCHANGED <<requires, wanted, state, stack, next, failed, up>>

-----------------------------------------------------------------------------
MainStep ==
  \/ InitializeWanted \/ InitializeDone \/ InitializeThrows
  \/ StartNext \/ StartupDone \/ StartupThrows
  \/ VisitRequired \/ PluginReturns
  \/ ExecReturns \/ ShutdownNext \/ ShutdownThrows \/ ShutdownDone

\* main() has returned.
Exited == stage = "over" /\ UNCHANGED vars

Next == MainStep \/ ExecThrows \/ Quit \/ Exited

Spec == Init /\ [][Next]_vars

(* The main thread keeps running and every plugin callback returns or      *)
(* throws.  Nobody has to call quit().                                     *)
FairSpec == Spec /\ WF_vars(MainStep)

-----------------------------------------------------------------------------
TypeOK ==
  /\ requires \in [Plugins -> SUBSET Plugins]
  /\ wanted \subseteq Plugins
  /\ stage \in Stages
  /\ state \in [Plugins -> States]
  /\ stack \in Seq([plugin : Plugins, todo : SUBSET Plugins])
  /\ next \in Nat
  /\ initialized_plugins \in Seq(Plugins)
  /\ running_plugins \in Seq(Plugins)
  /\ is_quiting \in BOOLEAN
  /\ failed \in BOOLEAN
  /\ up \subseteq Plugins

(* README: "Any dependent plugin ... will be Initialized or Started prior  *)
(* to the plugin being Initialized or Started."  In both lists a plugin    *)
(* comes after everything it requires, and appears once.                   *)
RequiredFirst(list) ==
  \A i \in 1 .. Len(list) :
    /\ \A d \in requires[list[i]] : \E j \in 1 .. i - 1 : list[j] = d
    /\ \A j \in 1 .. i - 1 : list[j] # list[i]

RequiredComeFirst ==
  RequiredFirst(initialized_plugins) /\ RequiredFirst(running_plugins)

(* The assertions at the end of initialize and startup: whoever calls them *)
(* leaves the plugin initialized, respectively started.  The callers are   *)
(* the visitor on a required plugin and the loops of the application.      *)
AssertionsHold ==
  /\ stage = "initialize" =>
       \A p \in Plugins : state[p] \in {"registered", "initialized"}
  /\ stage = "startup" /\ stack # <<>> =>
       \A d \in Top.todo : state[d] \in {"initialized", "started"}
  /\ stage = "startup" /\ stack = <<>> /\ next <= Len(initialized_plugins) =>
       state[initialized_plugins[next]] \in {"initialized", "started"}

(* Both together: each variable keeps its type and no assertion fails.     *)
LifecycleInv == TypeOK /\ AssertionsHold

(* README: "Shutdown is called in the reverse order of Startup."  While a  *)
(* plugin that started is not yet shut down, nothing it requires has been  *)
(* shut down, also when startup was left by quit() or by an exception.     *)
RequiredOutlive ==
  \A i \in 1 .. Len(running_plugins) :
    LET p == running_plugins[i]
    IN  state[p] = "started" =>
          \A d \in requires[p] : state[d] = "started"

(* When main returns without an exception, by whatever path, each plugin   *)
(* whose plugin_startup was entered has been shut down.                    *)
CleanExit ==
  stage = "over" /\ ~failed => \A p \in Plugins : state[p] # "started"

(* A plugin is shut down only after its own plugin_startup has returned,   *)
(* and once: not the plugin whose startup threw, nor those that were still *)
(* starting because they require it.                                       *)
ShutdownOnlyStarted ==
  [][\A p \in Plugins :
       state[p] # "stopped" /\ state'[p] = "stopped" =>
         state[p] = "started" /\ p \in up]_vars

(* Once quit() is called the main thread gets out of startup and exec and  *)
(* returns: no plugin is started any more after the one under way.         *)
QuitEnds == is_quiting ~> stage = "over"
==============================================================================
