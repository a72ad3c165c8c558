------------------------------ MODULE Broadcast ------------------------------
(***************************************************************************)
(* What a clarionc node promises to the peers connected to its websocket   *)
(* endpoint (libraries/net): every message any of them sends is handed to  *)
(* every member, its sender included, and all members receive the messages *)
(* in one common order.                                                    *)
(*                                                                         *)
(* A message is the number it got when it was broadcast: the n-th message  *)
(* is n.  A session that joins after `count` messages receives count + 1,  *)
(* count + 2, ... without gap, repetition or exchange, up to the moment    *)
(* its stream is lost.                                                     *)
(***************************************************************************)
EXTENDS Naturals, Sequences

CONSTANT Sessions

VARIABLES
  count,     \* how many messages have been broadcast
  sessions,  \* the current members
  joinedAt,  \* joinedAt[s]: the value of count when s became a member
  delivered  \* delivered[s]: the messages written to the peer of s, in order

vars == <<count, sessions, joinedAt, delivered>>

Init ==
  /\ count = 0
  /\ sessions = {}
  /\ joinedAt = [s \in Sessions |-> 0]
  /\ delivered = [s \in Sessions |-> <<>>]

Join(s) ==
  /\ s \notin sessions
  /\ delivered[s] = <<>>
  /\ sessions' = sessions \cup {s}
  /\ joinedAt' = [joinedAt EXCEPT ![s] = count]
  /\ UNCHANGED <<count, delivered>>

\* Only a member can have a message broadcast.
Send ==
  /\ sessions # {}
  /\ count' = count + 1
  /\ UNCHANGED <<sessions, joinedAt, delivered>>

NextMessage(s) == joinedAt[s] + Len(delivered[s]) + 1

Deliver(s) ==
  /\ s \in sessions
  /\ NextMessage(s) <= count
  /\ delivered' = [delivered EXCEPT ![s] = Append(@, NextMessage(s))]
  /\ UNCHANGED <<count, sessions, joinedAt>>

Leave(s) ==
  /\ s \in sessions
  /\ sessions' = sessions \ {s}
  /\ UNCHANGED <<count, joinedAt, delivered>>

Next ==
  \/ Send
  \/ \E s \in Sessions : Join(s) \/ Deliver(s) \/ Leave(s)

Spec == Init /\ [][Next]_vars
==============================================================================
