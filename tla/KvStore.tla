------------------------------- MODULE KvStore -------------------------------
(***************************************************************************)
(* What the database promises the tasks of a guest program: a transaction  *)
(* sees the content as of its begin with its own writes on top, its writes *)
(* reach the content together at commit or not at all, a commit changes no *)
(* key that it has not written, and the content outlives the process.      *)
(***************************************************************************)
CONSTANTS
  Tasks,    \* who makes transactions, each at most one
  Keys,
  Values,
  NoValue   \* a key that is not there

VARIABLES
  store,  \* the committed content
  mode,   \* mode[t]: "none", "read", "write" or "ended"
  sees,   \* sees[t]: the content as the transaction of t sees it
  wrote   \* wrote[t]: the keys it has written

vars == <<store, mode, sees, wrote>>

Content == [Keys -> Values \cup {NoValue}]
Empty == [k \in Keys |-> NoValue]

Init ==
  /\ store = Empty
  /\ mode = [t \in Tasks |-> "none"]
  /\ sees = [t \in Tasks |-> Empty]
  /\ wrote = [t \in Tasks |-> {}]

Begin(t, m) ==
  /\ mode[t] = "none"
  /\ mode' = [mode EXCEPT ![t] = m]
  /\ sees' = [sees EXCEPT ![t] = store]
  /\ UNCHANGED <<store, wrote>>

Write(t, k, v) ==
  /\ mode[t] = "write"
  /\ sees' = [sees EXCEPT ![t][k] = v]
  /\ wrote' = [wrote EXCEPT ![t] = @ \cup {k}]
  /\ UNCHANGED <<store, mode>>

Ends(t) ==
  /\ mode' = [mode EXCEPT ![t] = "ended"]
  /\ sees' = [sees EXCEPT ![t] = Empty]
  /\ wrote' = [wrote EXCEPT ![t] = {}]

Commit(t) ==
  /\ mode[t] = "write"
  /\ store' = [k \in Keys |-> IF k \in wrote[t] THEN sees[t][k] ELSE store[k]]
  /\ Ends(t)

\* A reader is done, or a writer gives up.
GiveUp(t) == mode[t] \in {"read", "write"} /\ Ends(t) /\ UNCHANGED store

\* The process ends, and another one begins.
Restart ==
  /\ mode' = [t \in Tasks |-> "none"]
  /\ sees' = [t \in Tasks |-> Empty]
  /\ wrote' = [t \in Tasks |-> {}]
  /\ UNCHANGED store

Next ==
  \/ \E t \in Tasks :
       \/ \E m \in {"read", "write"} : Begin(t, m)
       \/ \E k \in Keys, v \in Values : Write(t, k, v)
       \/ Commit(t) \/ GiveUp(t)
  \/ Restart

Spec == Init /\ [][Next]_vars
==============================================================================
