--------------------------- MODULE MethodDispatch ---------------------------
(***************************************************************************)
(* appbase methods (method.hpp) and channels (channel.hpp).  Providers of  *)
(* a method register with a priority, and a call runs them through a       *)
(* dispatch policy.  first_success_policy has two bodies, one for methods  *)
(* that return a value and one for void methods.  The subscribers of a     *)
(* channel are the providers of the policy drop_exceptions; they have no   *)
(* priority of their own.  publish posts the call as a handler with the    *)
(* priority it is given, and the main loop hands on the publications it    *)
(* has polled, the highest priority first; ExecLoop models that loop.      *)
(*                                                                         *)
(* Boost.Signals2 keeps the providers sorted, lower priorities first and   *)
(* those of one priority in the order of registration.  Dereferencing its  *)
(* iterator runs a provider; advancing it skips those that have meanwhile  *)
(* been unregistered, and never reaches those registered during the call.  *)
(***************************************************************************)
EXTENDS Integers, Sequences, SequencesExt

CONSTANTS
  Providers,   \* what may be registered or subscribed, each at most once
  Priorities,  \* the priorities they register and publish with
  MaxCalls     \* bound: calls of the method, or of publish

ASSUME MethodDispatchAssumption == Priorities \subseteq Int /\ MaxCalls \in Nat

VARIABLES
  policy,     \* the DispatchPolicy and the kind of result of the method
  priority,   \* priority[p]: the one p registered with
  providers,  \* the connected providers in the order of the signal
  used,       \* providers that have ever been registered
  iterating,  \* what the current call has still to visit, the front running
  outcome,    \* how the last call ended
  calls,      \* how many calls were begun
  offered,    \* history: providers when the current call began
  ran,        \* history: the providers the current call has run, in order
  threw,      \* history: those of them that threw
  pending,    \* the publications, by number, whose handler has not run yet
  urgency,    \* urgency[n]: the priority the n-th one was published with
  visible,    \* calls as of the poll of this turn of the main loop, 0 before
  running,    \* the publication whose handler ran last
  seen,       \* history: seen[n]: visible when the handler of n ran
  joined,     \* history: joined[p]: calls when p subscribed
  received    \* history: received[p]: the publications p was called with

queueVars == <<pending, urgency, visible, running, seen>>
channelVars == <<queueVars, joined, received>>
vars == <<policy, priority, providers, used, iterating, outcome, calls,
          offered, ran, threw, channelVars>>

Policies ==
  {"first_success", "first_success_void", "first_provider", "drop_exceptions"}
IsChannel == policy = "drop_exceptions"
Idle == <<>>
NoOutcome == [kind |-> "none"]
Returned(p) == [kind |-> "returned", provider |-> p]
Failed == [kind |-> "threw"]
Done == [kind |-> "done"]
Undefined == [kind |-> "undefined"]

Init ==
  /\ policy \in Policies
  /\ priority \in [Providers -> Priorities]
  /\ IsChannel => \A p, q \in Providers : priority[p] = priority[q]
  /\ providers = <<>> /\ used = {}
  /\ iterating = Idle /\ outcome = NoOutcome
  /\ calls = 0 /\ offered = <<>> /\ ran = <<>> /\ threw = {}
  /\ pending = {} /\ urgency = [n \in 1 .. MaxCalls |-> 0]
  /\ visible = 0 /\ running = 0 /\ seen = [n \in 1 .. MaxCalls |-> 0]
  /\ joined = [p \in Providers |-> 0]
  /\ received = [p \in Providers |-> <<>>]

-----------------------------------------------------------------------------
\* Defect: the order of priorities is reversed.
HigherCalledFirst(q, p) == priority[q] >= priority[p]

\* The group order of the signal.
CalledFirst(q, p) == priority[q] <= priority[p]

\* Where a provider of the priority of p is inserted: behind every one of
\* the same or a lower priority.
InsertPlace(p) ==
  CHOOSE i \in 1 .. Len(providers) + 1 :
    /\ \A j \in 1 .. i - 1 : CalledFirst(providers[j], p)
    /\ i <= Len(providers) => ~CalledFirst(providers[i], p)

\* register_provider and subscribe.  A provider may do so while it runs.
Register(p) ==
  /\ p \notin used
  /\ used' = used \cup {p}
  /\ providers' = InsertAt(providers, InsertPlace(p), p)
  /\ joined' = [joined EXCEPT ![p] = calls]
  /\ UNCHANGED <<policy, priority, iterating, outcome, calls, offered, ran, threw,
                 queueVars, received>>

\* s without p, which is there at most once.
Without(s, p) ==
  IF Contains(s, p) THEN RemoveAt(s, CHOOSE i \in 1 .. Len(s) : s[i] = p) ELSE s

\* handle::unregister or unsubscribe, or ~handle.  A provider that is running
\* is not stopped.
Unregister(p) ==
  /\ Contains(providers, p)
  /\ providers' = Without(providers, p)
  /\ iterating' = IF iterating = Idle THEN Idle
                  ELSE <<Head(iterating)>> \o Without(Tail(iterating), p)
  /\ UNCHANGED <<policy, priority, used, outcome, calls, offered, ran, threw,
                 channelVars>>

-----------------------------------------------------------------------------
\* The combiner of the signal is called with the range of its slots.  With
\* no provider the loop of first_success throws at once and that of
\* drop_exceptions ends; first_provider dereferences the end of the range,
\* and the model ends there.
Emit ==
  /\ iterating = Idle /\ outcome # Undefined
  /\ offered' = providers /\ ran' = <<>> /\ threw' = {}
  /\ iterating' = providers
  /\ outcome' = CASE providers # <<>> -> NoOutcome
                  [] providers = <<>> /\ policy = "first_provider" -> Undefined
                  [] providers = <<>> /\ IsChannel -> Done
                  [] OTHER -> Failed
  /\ UNCHANGED <<policy, priority, providers, used, joined, received>>

\* method_caller::operator().
Call ==
  /\ ~IsChannel /\ calls < MaxCalls
  /\ Emit
  /\ calls' = calls + 1
  /\ UNCHANGED queueVars

\* Defect: one subscriber is not enough.
SeveralSubscribers == Len(providers) > 1

\* has_subscribers().
HasSubscribers == providers # <<>>

\* publish, by any thread and by a subscriber that is being called too:
\* without subscribers the data is gone, otherwise a copy goes with the
\* handler, which is posted to the io_service with the priority u.
Publish(u) ==
  /\ IsChannel /\ calls < MaxCalls
  /\ calls' = calls + 1
  /\ urgency' = [urgency EXCEPT ![calls'] = u]
  /\ pending' = IF HasSubscribers THEN pending \cup {calls'} ELSE pending
  /\ UNCHANGED <<policy, priority, providers, used, iterating, outcome, offered,
                 ran, threw, visible, running, seen, joined, received>>

\* The loop of poll_one puts what is posted by now into the priority queue.
Poll ==
  /\ IsChannel /\ iterating = Idle
  /\ pending # {} /\ visible < calls
  /\ visible' = calls
  /\ UNCHANGED <<policy, priority, providers, used, iterating, outcome, calls,
                 offered, ran, threw, pending, urgency, running, seen, joined,
                 received>>

\* Defect: the queue is not sorted by the priority.
OlderFirst(m, n) == m < n

\* operator< of the queued handlers: the priority, then the order in which
\* they were added.
RunsFirst(m, n) ==
  \/ urgency[m] > urgency[n]
  \/ urgency[m] = urgency[n] /\ m < n

\* execute_highest: the handler at the top of the queue runs, _signal(data),
\* for whoever is subscribed by now; before the next one the loop polls again.
RunPublished ==
  /\ IsChannel
  /\ \E n \in pending :
       /\ n <= visible
       /\ \A m \in pending \ {n} : m <= visible => RunsFirst(n, m)
       /\ pending' = pending \ {n} /\ running' = n
       /\ seen' = [seen EXCEPT ![n] = visible]
  /\ visible' = 0
  /\ Emit
  /\ UNCHANGED <<calls, urgency>>

\* The policy returns, or an exception leaves it.
Finish(result) == iterating' = Idle /\ outcome' = result

\* Defect: the iterator is incremented by the call as well.
AdvanceByTwo ==
  IF Len(iterating) <= 2
  THEN Finish(Failed)
  ELSE iterating' = Tail(Tail(iterating)) /\ UNCHANGED outcome

\* ++first, and the test of the loop: behind it is only the throw, or the end
\* of drop_exceptions.
Advance ==
  IF Len(iterating) = 1
  THEN Finish(IF IsChannel THEN Done ELSE Failed)
  ELSE iterating' = Tail(iterating) /\ UNCHANGED outcome

\* Defect: the result is not returned at once.
NeverReturns == FALSE

\* return *first; the void specialisation and drop_exceptions have only *first.
ReturnsAtSuccess == policy \in {"first_success", "first_provider"}

\* *first is run; a subscriber gets the data of the publication.
Called ==
  /\ iterating # Idle
  /\ ran' = Append(ran, Head(iterating))
  /\ received' = IF IsChannel
                 THEN [received EXCEPT ![Head(iterating)] = Append(@, running)]
                 ELSE received
  /\ UNCHANGED <<policy, priority, providers, used, calls, offered, queueVars,
                 joined>>

\* *first returns: the policies that return a value do so, the other loops go
\* on with the next provider.
ProviderReturns ==
  /\ Called
  /\ IF ReturnsAtSuccess THEN Finish(Returned(Head(iterating))) ELSE Advance
  /\ UNCHANGED threw

\* Defects: first_provider_policy goes on after an exception; an exception of
\* a subscriber keeps the data from those behind it.
CatchesAlways == TRUE
CatchesInMethods == policy \in {"first_success", "first_success_void"}

\* The policy has a try block around *first.
Catches == policy # "first_provider"

\* *first throws: first_success notes it, drop_exceptions does not; they go on.
ProviderThrows ==
  /\ Called
  /\ threw' = threw \cup {Head(iterating)}
  /\ IF Catches THEN Advance ELSE Finish(Failed)

-----------------------------------------------------------------------------
Next ==
  \/ \E p \in Providers : Register(p) \/ Unregister(p)
  \/ Call
  \/ \E u \in Priorities : Publish(u)
  \/ Poll \/ RunPublished
  \/ ProviderReturns \/ ProviderThrows

Spec == Init /\ [][Next]_vars

-----------------------------------------------------------------------------
TypeOK ==
  /\ policy \in Policies
  /\ priority \in [Providers -> Priorities]
  /\ {providers, iterating, offered, ran} \subseteq Seq(Providers)
  /\ Len(ran) <= Len(offered)
  /\ used \subseteq Providers /\ threw \subseteq Providers
  /\ outcome \in {NoOutcome, Failed, Undefined, Done}
                  \cup {Returned(p) : p \in Providers}
  /\ {calls, visible, running} \subseteq 0 .. MaxCalls
  /\ pending \subseteq 1 .. MaxCalls
  /\ urgency \in [1 .. MaxCalls -> Priorities \cup {0}]
  /\ seen \in [1 .. MaxCalls -> 0 .. MaxCalls]
  /\ joined \in [Providers -> 0 .. MaxCalls]
  /\ received \in [Providers -> Seq(1 .. MaxCalls)]

Ended == calls > 0 /\ iterating = Idle

(* "the priority of this provider, lower is called before higher": within  *)
(* one call no provider is run twice or after one of a higher priority,    *)
(* though providers come and go while it runs.                             *)
LowerCalledFirst ==
  \A i, j \in 1 .. Len(ran) :
    i < j => ran[i] # ran[j] /\ priority[ran[i]] <= priority[ran[j]]

(* The types and the order of one call.                                    *)
DispatchInv == TypeOK /\ LowerCalledFirst

(* "try providers sequentially until one succeeds without throwing": a     *)
(* method that returns a value returns that of the last provider it ran,   *)
(* every one before it threw, and it throws only if all of them did.       *)
FirstSuccess ==
  policy = "first_success" /\ Ended =>
    IF outcome = Failed
    THEN threw = ToSet(ran)
    ELSE /\ ran # <<>> /\ outcome = Returned(Last(ran))
         /\ threw = ToSet(Front(ran))

(* "only call the first provider": whatever it does, no second one runs.   *)
OnlyFirstCalled == policy = "first_provider" => Len(ran) <= 1

(* A call that throws has tried every provider that was registered when it *)
(* began and still is: changes made while it runs make it skip none.       *)
AllTried ==
  policy # "first_provider" /\ Ended /\ outcome = Failed =>
    ToSet(offered) \cap ToSet(providers) \subseteq ToSet(ran)

(* What the policies document, of every call of a method.                  *)
PoliciesKept == FirstSuccess /\ OnlyFirstCalled /\ AllTried

\* m may be handed on ahead of n: by its higher priority; or as the older one,
\* if the priorities are equal or n came too late for the poll before m.
MayPrecede(m, n) ==
  \/ urgency[m] > urgency[n]
  \/ m < n /\ (urgency[m] = urgency[n] \/ seen[m] < n)

(* A subscriber is called once with every publication made since it        *)
(* subscribed, except those whose handler has still to run, and in the     *)
(* order of their priorities and then of publication: only what was        *)
(* published too late for the poll is overtaken by a lower priority.       *)
(* Neither the exceptions of others, nor subscribers that come and go, nor *)
(* the delay between publish and the handler change that.                  *)
SubscribersGetAll ==
  \A p \in ToSet(providers) :
    /\ \A i, j \in 1 .. Len(received[p]) :
         i < j => MayPrecede(received[p][i], received[p][j])
    /\ IsChannel /\ iterating = Idle =>
         joined[p] + 1 .. calls \subseteq ToSet(received[p]) \cup pending

(* The comment of the void specialisation: "if none succeed throw an       *)
(* error".  So a call in which a provider succeeded does not throw.        *)
VoidThrowsOnlyIfNoneSucceeds ==
  policy = "first_success_void" /\ Ended =>
    (outcome = Failed => threw = ToSet(ran))
==============================================================================
