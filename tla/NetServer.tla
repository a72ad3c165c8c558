------------------------------ MODULE NetServer ------------------------------
(***************************************************************************)
(* The server of one clarionc node: net_plugin starts the listener and the *)
(* connections to the remote endpoints; the listener turns an accepted     *)
(* socket into an http_session; the http_session answers requests one at a *)
(* time and hands its socket to a websocket_session when a request asks    *)
(* for the upgrade.  The websocket sessions are those of WebsocketSession. *)
(*                                                                         *)
(* A connection keeps one identity from accept to the end of its websocket *)
(* session.  Peers may send requests ahead of the responses (pipelining).  *)
(***************************************************************************)
EXTENDS Naturals, Sequences

CONSTANTS
  Sessions,     \* identities of connections, accepted or made
  Remotes,      \* those made to the --remote-endpoint options
  Requests,     \* the requests peers may send, see RequestType
  MaxRequests,  \* bound: requests a peer sends on one connection
  MaxMessages   \* bound: websocket messages in a behaviour

RequestType == [upgrade : BOOLEAN, method : {"get", "head", "other"},
                legalTarget : BOOLEAN, file : {"found", "absent", "error"},
                keepAlive : BOOLEAN]

ASSUME NetServerAssumption ==
  /\ Remotes \subseteq Sessions
  /\ Requests \subseteq RequestType
  /\ MaxRequests \in Nat /\ MaxMessages \in Nat

VARIABLES
  phase, sessions, reading, writing, posted, queue, broken, count, joinedAt,
  delivered

wsVars == <<phase, sessions, reading, writing, posted, queue, broken, count,
            joinedAt, delivered>>

WS == INSTANCE WebsocketSession

VARIABLES
  started,    \* net_plugin::plugin_startup has run
  listening,  \* the constructor of listener reached listen() without error
  accepting,  \* an async_accept is outstanding
  http,       \* http[c]: the http_session of connection c
  sent,       \* sent[c]: the requests the peer has sent on c
  parsed,     \* parsed[c]: how many of them http_session has read
  responses   \* responses[c]: the responses written, in order

httpVars == <<started, listening, accepting, http, sent, parsed, responses>>
vars == <<wsVars, httpVars>>

HttpPhases == {"none", "reading", "writing", "gone", "upgraded"}

Init ==
  /\ WS!Init
  /\ started = FALSE /\ listening = FALSE /\ accepting = FALSE
  /\ http = [c \in Sessions |-> "none"]
  /\ sent = [c \in Sessions |-> <<>>]
  /\ parsed = [c \in Sessions |-> 0]
  /\ responses = [c \in Sessions |-> <<>>]

-----------------------------------------------------------------------------
(* net_plugin and listener                                                 *)

\* open, set_option, bind or listen may fail; the constructor then returns
\* and run() is called all the same.
PluginStartup ==
  /\ ~started
  /\ started' = TRUE
  /\ listening' \in BOOLEAN
  /\ accepting' = TRUE
  /\ UNCHANGED <<wsVars, http, sent, parsed, responses>>

\* The coroutine spawned for a remote endpoint is entered.
ConnectRemote(c) ==
  /\ started
  /\ c \in Remotes
  /\ WS!Connect(c)
  /\ UNCHANGED httpVars

\* on_accept with a socket: a new http_session reads, and accept is armed
\* again.
OnAccept(c) ==
  /\ accepting /\ listening
  /\ c \notin Remotes
  /\ http[c] = "none"
  /\ http' = [http EXCEPT ![c] = "reading"]
  /\ UNCHANGED <<wsVars, started, listening, accepting, sent, parsed, responses>>

\* on_accept with an error returns before the acceptor is armed again.
OnAcceptError ==
  /\ accepting
  /\ accepting' = FALSE
  /\ UNCHANGED <<wsVars, started, listening, http, sent, parsed, responses>>

-----------------------------------------------------------------------------
(* http_session                                                            *)

PeerRequest(c) ==
  /\ http[c] \in {"reading", "writing"}
  /\ Len(sent[c]) < MaxRequests
  /\ \E r \in Requests : sent' = [sent EXCEPT ![c] = Append(@, r)]
  /\ UNCHANGED <<wsVars, started, listening, accepting, http, parsed, responses>>

\* handle_request: the first test that applies decides the status.
Status(r) ==
  CASE r.method = "other" \/ ~r.legalTarget -> "bad_request"
    [] r.method # "other" /\ r.legalTarget /\ r.file = "absent" -> "not_found"
    [] r.method # "other" /\ r.legalTarget /\ r.file = "error" ->
         "internal_server_error"
    [] OTHER -> "ok"

\* Every response copies keep_alive from the request; need_eof is its
\* negation, because every response has a content length.
Response(r) == [status |-> Status(r), needEof |-> ~r.keepAlive]

\* Defect: the request that arrived last.
LatestRequest(c) == sent[c][Len(sent[c])]

\* The request released from the parser that do_read made for it.
CurrentRequest(c) == sent[c][parsed[c]]

\* Defect: the http_session goes on after the upgrade.
OnRequestKeepsSocket(c) ==
  /\ http[c] = "reading"
  /\ parsed[c] < Len(sent[c])
  /\ parsed' = [parsed EXCEPT ![c] = @ + 1]
  /\ IF sent[c][parsed'[c]].upgrade
     THEN WS!Run(c) /\ UNCHANGED http
     ELSE http' = [http EXCEPT ![c] = "writing"] /\ UNCHANGED wsVars
  /\ UNCHANGED <<started, listening, accepting, sent, responses>>

\* Defect: the next request is read before the response is written.
OnRequestReadsAhead(c) ==
  /\ http[c] \in {"reading", "writing"}
  /\ parsed[c] < Len(sent[c])
  /\ parsed' = [parsed EXCEPT ![c] = @ + 1]
  /\ IF sent[c][parsed'[c]].upgrade
     THEN http' = [http EXCEPT ![c] = "upgraded"] /\ WS!Run(c)
     ELSE http' = [http EXCEPT ![c] = "writing"] /\ UNCHANGED wsVars
  /\ UNCHANGED <<started, listening, accepting, sent, responses>>

\* on_read with a request: the socket moves to a websocket_session, or one
\* response is started.
OnRequest(c) ==
  /\ http[c] = "reading"
  /\ parsed[c] < Len(sent[c])
  /\ parsed' = [parsed EXCEPT ![c] = @ + 1]
  /\ \/ /\ sent[c][parsed'[c]].upgrade
        /\ http' = [http EXCEPT ![c] = "upgraded"]
        /\ WS!Run(c)
     \/ /\ ~sent[c][parsed'[c]].upgrade
        /\ http' = [http EXCEPT ![c] = "writing"]
        /\ UNCHANGED wsVars
  /\ UNCHANGED <<started, listening, accepting, sent, responses>>

\* on_write: close after a response that needs it, or read again.
OnResponseWritten(c) ==
  /\ http[c] = "writing"
  /\ LET res == Response(CurrentRequest(c))
     IN  /\ responses' = [responses EXCEPT ![c] = Append(@, res)]
         /\ http' = [http EXCEPT ![c] = IF res.needEof THEN "gone" ELSE "reading"]
  /\ UNCHANGED <<wsVars, started, listening, accepting, sent, parsed>>

\* The http_session is destroyed, with its socket.
HttpEnds(c) ==
  /\ http[c] \in {"reading", "writing"}
  /\ http' = [http EXCEPT ![c] = "gone"]
  /\ UNCHANGED <<wsVars, started, listening, accepting, sent, parsed, responses>>

\* on_read sees the end of the stream or an error, or on_write an error.
HttpFails(c) == HttpEnds(c)

\* Defect: no expires_after.
NeverTimesOut(c) == FALSE

\* The 30 seconds that do_read allows for a request and its response end.
HttpTimesOut(c) == HttpEnds(c)

-----------------------------------------------------------------------------
HttpStep(c) ==
  \/ OnAccept(c) \/ PeerRequest(c) \/ OnRequest(c) \/ OnResponseWritten(c)
  \/ HttpFails(c) \/ HttpTimesOut(c)

SessionStep(c) == WS!Step(c) /\ UNCHANGED httpVars

Next ==
  \/ PluginStartup \/ OnAcceptError
  \/ \E c \in Sessions : ConnectRemote(c) \/ HttpStep(c) \/ SessionStep(c)

Spec == Init /\ [][Next]_vars

(* The io_context runs what it holds: a request that has arrived is read,  *)
(* a write completes or times out, a read that waits for a request times   *)
(* out, a handshake completes, fails or times out.  Peers need not send,   *)
(* connect or fail, and accept need not fail on a socket that listens.     *)
FairSpec ==
  /\ Spec
  /\ WF_vars(PluginStartup)
  /\ WF_vars(~listening /\ OnAcceptError)
  /\ \A c \in Sessions :
       /\ WF_vars(ConnectRemote(c))
       /\ WF_vars(OnRequest(c) \/ OnResponseWritten(c) \/ HttpTimesOut(c))
       /\ WF_vars((\/ WS!ConnectProgress(c) \/ WS!Opened(c)
                   \/ WS!OpenFailed(c)) /\ UNCHANGED httpVars)

-----------------------------------------------------------------------------
TypeOK ==
  /\ WS!TypeOK
  /\ {started, listening, accepting} \subseteq BOOLEAN
  /\ http \in [Sessions -> HttpPhases]
  /\ sent \in [Sessions -> Seq(Requests)]
  /\ parsed \in [Sessions -> 0 .. MaxRequests]
  /\ responses \in [Sessions -> Seq([status : {"bad_request", "not_found",
                                      "internal_server_error", "ok"},
                                     needEof : BOOLEAN])]

(* A socket has one owner.  Its http_session is over when the websocket    *)
(* session it was released to exists; a connection to a remote endpoint    *)
(* never had one.  ServerInv adds the types.                               *)
OneOwner ==
  \A c \in Sessions :
    phase[c] # "none" =>
      IF c \in Remotes THEN http[c] = "none" ELSE http[c] = "upgraded"

ServerInv == TypeOK /\ OneOwner

(* Pipelined requests are answered one by one in the order they were sent: *)
(* the k-th response is that of the k-th request, none of them answers an  *)
(* upgrade, and only the last one may announce the end of the connection.  *)
AnsweredInOrder ==
  \A c \in Sessions :
    /\ Len(responses[c]) <= parsed[c]
    /\ \A k \in 1 .. Len(responses[c]) :
         /\ responses[c][k] = Response(sent[c][k])
         /\ ~sent[c][k].upgrade
         /\ responses[c][k].needEof =>
              k = Len(responses[c]) /\ http[c] = "gone"

(* A socket goes to its websocket session only when nothing is owed on it: *)
(* every request that came before the upgrade on the same connection is    *)
(* answered, none of those answers announced the end of the connection,    *)
(* and none of those requests was an upgrade itself.                       *)
UpgradeComesLast ==
  \A c \in Sessions :
    http[c] = "upgraded" =>
      /\ parsed[c] = Len(responses[c]) + 1
      /\ sent[c][parsed[c]].upgrade
      /\ \A k \in 1 .. Len(responses[c]) :
           sent[c][k].keepAlive /\ ~sent[c][k].upgrade

(* An accepted connection does not stay in the server for ever: a peer may *)
(* send no more than MaxRequests requests, and when it falls silent, or    *)
(* stops reading a response, the timeout of do_read frees the socket.      *)
ConnectionsEnd ==
  \A c \in Sessions :
    http[c] \in {"reading", "writing"} ~> http[c] \in {"gone", "upgraded"}

(* Every upgrade and every remote connection ends up open or destroyed.    *)
HandshakesEnd ==
  \A c \in Sessions :
    phase[c] \in WS!Opening ~> phase[c] \in {"open", "destroyed"}
==============================================================================
