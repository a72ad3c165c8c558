-------------------------- MODULE NetServer_proofs --------------------------
(***************************************************************************)
(* Proofs about the server, for every set of connections and requests and  *)
(* every bound on them.  The websocket sessions are not examined again:    *)
(* what a step of the server does to them is a step of WebsocketSession or *)
(* nothing, so that the inductive invariant of WebsocketSession_proofs     *)
(* holds here as well, and the server adds its own.                        *)
(***************************************************************************)
EXTENDS NetServer, SequenceTheorems, TLAPS

\* The same specification as WS, with the lemmas proved about it.
WSP == INSTANCE WebsocketSession_proofs

(* How far the http_session of a connection is with the requests it was    *)
(* sent.  While it reads, every request it has read is answered; while it  *)
(* writes, the last one is not, and that is no upgrade; when it has given  *)
(* its socket away the last one is the upgrade.                            *)
Answering(c) ==
  /\ c \in Remotes => http[c] = "none"
  /\ Len(responses[c]) <= parsed[c]
  /\ parsed[c] <= Len(sent[c])
  /\ Len(sent[c]) <= MaxRequests
  /\ http[c] \in {"none", "reading"} => parsed[c] = Len(responses[c])
  /\ http[c] = "writing" =>
       parsed[c] = Len(responses[c]) + 1 /\ ~sent[c][parsed[c]].upgrade
  /\ http[c] = "upgraded" =>
       parsed[c] = Len(responses[c]) + 1 /\ sent[c][parsed[c]].upgrade

HttpTypeOK ==
  /\ {started, listening, accepting} \subseteq BOOLEAN
  /\ http \in [Sessions -> HttpPhases]
  /\ sent \in [Sessions -> Seq(Requests)]
  /\ parsed \in [Sessions -> 0 .. MaxRequests]
  /\ responses \in [Sessions -> Seq([status : {"bad_request", "not_found",
                                      "internal_server_error", "ok"},
                                     needEof : BOOLEAN])]

IInv ==
  /\ WSP!IInv
  /\ HttpTypeOK
  /\ OneOwner
  /\ \A c \in Sessions : Answering(c)
  /\ AnsweredInOrder

-----------------------------------------------------------------------------
(* The two instances of WebsocketSession say the same.                     *)

LEMMA InitSame == WS!Init <=> WSP!Init
BY DEF WS!Init, WSP!Init, WS!NoMessage, WSP!NoMessage

LEMMA TypeSame == WSP!IInv => WS!TypeOK
BY DEF WSP!IInv, WS!TypeOK, WSP!TypeOK, WS!NoMessage, WSP!NoMessage,
       WS!Message, WSP!Message, WS!Phases, WSP!Phases, WS!Opening, WSP!Opening

LEMMA StepSame ==
  ASSUME NEW c \in Sessions
  PROVE  /\ (WS!Step(c) => WSP!Step(c))
         /\ (WS!Run(c) => WSP!Run(c))
         /\ (WS!Connect(c) => WSP!Connect(c))
BY ZenonT(60)
   DEF WS!Step, WSP!Step, WS!Run, WSP!Run, WS!Connect, WSP!Connect,
       WS!ConnectProgress, WSP!ConnectProgress, WS!Opened, WSP!Opened,
       WS!OpenFailed, WSP!OpenFailed, WS!OnRead, WSP!OnRead,
       WS!OnReadError, WSP!OnReadError, WS!OnSend, WSP!OnSend,
       WS!OnWrite, WSP!OnWrite, WS!OnWriteError, WSP!OnWriteError,
       WS!ReleaseUnless, WSP!ReleaseUnless, WS!Destroy, WSP!Destroy,
       WS!Leave, WSP!Leave, WS!Join, WSP!Join, WS!Recipients, WSP!Recipients,
       WS!Alone, WSP!Alone, WS!Erased, WSP!Erased, WS!FirstOf, WSP!FirstOf,
       WS!NoMessage, WSP!NoMessage, WS!Opening, WSP!Opening

-----------------------------------------------------------------------------
(* What the steps of the server do to the websocket sessions               *)

(* Every step of the server is a step of one websocket session, or leaves  *)
(* all of them alone.                                                      *)
LEMMA NextIsSessionNext ==
  ASSUME [Next]_vars
  PROVE  WS!Next \/ UNCHANGED WS!vars
<1>1. CASE UNCHANGED vars
  BY <1>1 DEF vars, wsVars, WS!vars
<1>2. CASE PluginStartup \/ OnAcceptError
  BY <1>2 DEF PluginStartup, OnAcceptError, wsVars, WS!vars
<1>3. ASSUME NEW c \in Sessions, ConnectRemote(c)
      PROVE  WS!Next
  BY <1>3 DEF ConnectRemote, WS!Next
<1>4. ASSUME NEW c \in Sessions, HttpStep(c)
      PROVE  WS!Next \/ UNCHANGED WS!vars
  <2>1. CASE OnRequest(c)
    BY <2>1 DEF OnRequest, WS!Next, wsVars, WS!vars
  <2>2. CASE \/ OnAccept(c) \/ PeerRequest(c) \/ OnResponseWritten(c)
             \/ HttpFails(c) \/ HttpTimesOut(c)
    BY <2>2 DEF OnAccept, PeerRequest, OnResponseWritten, HttpFails,
                HttpTimesOut, HttpEnds, wsVars, WS!vars
  <2> QED
    BY <1>4, <2>1, <2>2 DEF HttpStep
<1>5. ASSUME NEW c \in Sessions, SessionStep(c)
      PROVE  WS!Next
  BY <1>5 DEF SessionStep, WS!Next
<1> QED
  BY <1>1, <1>2, <1>3, <1>4, <1>5 DEF Next

LEMMA WSNextSame == WS!Next => WSP!Next
BY StepSame DEF WS!Next, WSP!Next

(* The invariant of the websocket sessions is kept by composition.         *)
LEMMA SessionsIInv ==
  ASSUME WSP!IInv, [Next]_vars
  PROVE  WSP!IInv'
<1>1. WSP!Next \/ UNCHANGED WSP!vars
  BY NextIsSessionNext, WSNextSame DEF WS!vars, WSP!vars
<1> QED
  BY <1>1, WSP!NextIInv, NetServerAssumption DEF NetServerAssumption

(* A step of a session that exists creates no other one: an object that    *)
(* was never created has no handler to run.                                *)
LEMMA NoneStaysNone ==
  ASSUME WSP!IInv, NEW c \in Sessions, WS!Step(c), NEW t \in Sessions,
         phase[t] = "none"
  PROVE  phase'[t] = "none"
<1>1. /\ phase \in [Sessions -> WSP!Phases]
      /\ WSP!Lifecycle
      /\ WSP!Step(c)
  BY StepSame DEF WSP!IInv, WSP!TypeOK
<1>2. CASE WSP!ConnectProgress(c) \/ WSP!Opened(c)
  BY <1>1, <1>2 DEF WSP!ConnectProgress, WSP!Opened
<1>3. CASE WSP!OpenFailed(c)
  BY <1>1, <1>3 DEF WSP!OpenFailed, WSP!Destroy, WSP!Opening
<1>4. CASE WSP!OnRead(c)
  BY <1>4 DEF WSP!OnRead
<1>5. CASE \/ WSP!OnReadError(c) \/ WSP!OnSend(c)
           \/ WSP!OnWrite(c) \/ WSP!OnWriteError(c)
  <2>1. phase[c] = "open"
    BY <1>1, <1>5 DEF WSP!Lifecycle, WSP!Pending, WSP!OnReadError,
       WSP!OnSend, WSP!OnWrite, WSP!OnWriteError
  <2>2. phase' = phase \/ phase' = [phase EXCEPT ![c] = "destroyed"]
    BY <1>5 DEF WSP!OnReadError, WSP!OnSend, WSP!OnWrite, WSP!OnWriteError,
       WSP!ReleaseUnless, WSP!Destroy
  <2> QED
    BY <1>1, <2>1, <2>2
<1> QED
  BY <1>1, <1>2, <1>3, <1>4, <1>5 DEF WSP!Step

-----------------------------------------------------------------------------
(* The steps of the server's own part                                      *)

LEMMA InitIInv == Init => IInv
<1> SUFFICES ASSUME Init PROVE IInv
  OBVIOUS
<1>1. WSP!IInv
  BY InitSame, WSP!InitIInv, NetServerAssumption DEF Init, NetServerAssumption
<1>2. HttpTypeOK
  <2>1. 0 \in 0 .. MaxRequests
    BY NetServerAssumption DEF NetServerAssumption
  <2>2. \A S : <<>> \in Seq(S)
    BY EmptySeq
  <2> QED
    BY <2>1, <2>2 DEF Init, HttpTypeOK, HttpPhases
<1>3. OneOwner
  BY DEF Init, OneOwner, WS!Init
<1>4. ASSUME NEW c \in Sessions PROVE Answering(c)
  BY NetServerAssumption DEF Init, Answering, NetServerAssumption
<1>5. AnsweredInOrder
  <2>1. \A c \in Sessions : /\ responses[c] = <<>> /\ parsed[c] = 0
                           /\ Len(responses[c]) = 0
    BY DEF Init
  <2>2. \A k \in 1 .. 0 : FALSE
    OBVIOUS
  <2> SUFFICES ASSUME NEW c \in Sessions
               PROVE  /\ Len(responses[c]) <= parsed[c]
                      /\ 1 .. Len(responses[c]) = 1 .. 0
    BY <2>2 DEF AnsweredInOrder
  <2> QED
    BY <2>1
<1> QED
  BY <1>1, <1>2, <1>3, <1>4, <1>5 DEF IInv

(* The part of the invariant about one connection, put together: what the  *)
(* http_session and its peer have exchanged.                               *)
Exchange(c) ==
  /\ Answering(c)
  /\ \A k \in 1 .. Len(responses[c]) :
       /\ responses[c][k] = Response(sent[c][k])
       /\ ~sent[c][k].upgrade
       /\ responses[c][k].needEof =>
            k = Len(responses[c]) /\ http[c] = "gone"

LEMMA ExchangesSuffice ==
  ASSUME \A c \in Sessions : Exchange(c)
  PROVE  (\A c \in Sessions : Answering(c)) /\ AnsweredInOrder
BY DEF Exchange, AnsweredInOrder, Answering

LEMMA ExchangesHold ==
  ASSUME IInv
  PROVE  \A c \in Sessions : Exchange(c)
BY DEF Exchange, AnsweredInOrder, IInv

(* A connection whose requests, responses and http_session a step leaves   *)
(* alone keeps its part of the invariant.                                  *)
LEMMA ExchangeFrame ==
  ASSUME NEW c \in Sessions, Exchange(c),
         http'[c] = http[c], sent'[c] = sent[c], parsed'[c] = parsed[c],
         responses'[c] = responses[c]
  PROVE  Exchange(c)'
BY DEF Exchange, Answering

LEMMA ResponseType ==
  ASSUME NEW r \in RequestType
  PROVE  Response(r) \in [status : {"bad_request", "not_found",
                                    "internal_server_error", "ok"},
                          needEof : BOOLEAN]
<1>1. Status(r) \in {"bad_request", "not_found", "internal_server_error", "ok"}
  BY DEF Status, RequestType
<1> QED
  BY <1>1 DEF Response, RequestType

LEMMA AcceptIInv ==
  ASSUME IInv, NEW c \in Sessions, OnAccept(c)
  PROVE  /\ HttpTypeOK'
         /\ OneOwner'
         /\ \A t \in Sessions : Exchange(t)'
<1>1. HttpTypeOK'
  BY DEF IInv, HttpTypeOK, OnAccept, HttpPhases
<1>2. OneOwner'
  BY DEF IInv, HttpTypeOK, OnAccept, OneOwner, wsVars
<1>3. ASSUME NEW t \in Sessions PROVE Exchange(t)'
  <2>1. CASE t # c
    BY <2>1, ExchangesHold, ExchangeFrame DEF IInv, HttpTypeOK, OnAccept
  <2>2. CASE t = c
    <3>1. /\ http[c] = "none" /\ http'[c] = "reading" /\ c \notin Remotes
          /\ sent' = sent /\ parsed' = parsed /\ responses' = responses
      BY DEF IInv, HttpTypeOK, OnAccept
    <3> QED
      BY <2>2, <3>1, ExchangesHold DEF Exchange, Answering
  <2> QED
    BY <2>1, <2>2
<1> QED
  BY <1>1, <1>2, <1>3

LEMMA PeerRequestIInv ==
  ASSUME IInv, NEW c \in Sessions, PeerRequest(c)
  PROVE  /\ HttpTypeOK'
         /\ OneOwner'
         /\ \A t \in Sessions : Exchange(t)'
<1>0. PICK r \in Requests : sent' = [sent EXCEPT ![c] = Append(@, r)]
  BY DEF PeerRequest
<1>1. /\ sent[c] \in Seq(Requests)
      /\ sent'[c] = Append(sent[c], r)
      /\ \A t \in Sessions \ {c} : sent'[t] = sent[t]
      /\ sent' \in [Sessions -> Seq(Requests)]
  BY <1>0, AppendProperties DEF IInv, HttpTypeOK
<1>2. /\ Len(sent'[c]) = Len(sent[c]) + 1
      /\ \A k \in 1 .. Len(sent[c]) : sent'[c][k] = sent[c][k]
  BY <1>1, AppendProperties
<1>3. HttpTypeOK'
  BY <1>1 DEF IInv, HttpTypeOK, PeerRequest
<1>4. OneOwner'
  BY DEF IInv, PeerRequest, OneOwner, wsVars
<1>5. ASSUME NEW t \in Sessions PROVE Exchange(t)'
  <2>1. CASE t # c
    BY <1>1, <2>1, ExchangesHold, ExchangeFrame DEF PeerRequest
  <2>2. CASE t = c
    <3>1. /\ http[c] \in {"reading", "writing"} /\ http' = http
          /\ Len(sent[c]) < MaxRequests
          /\ parsed' = parsed /\ responses' = responses
          /\ parsed[c] \in Nat /\ Len(responses[c]) \in Nat
          /\ Len(sent[c]) \in Nat /\ MaxRequests \in Nat
      BY <1>1, LenProperties, NetServerAssumption
         DEF IInv, HttpTypeOK, PeerRequest, NetServerAssumption
    <3>2. Exchange(c)
      BY ExchangesHold
    <3>3. /\ Len(responses[c]) <= parsed[c] /\ parsed[c] <= Len(sent[c])
          /\ Len(sent'[c]) <= MaxRequests /\ parsed[c] <= Len(sent'[c])
      BY <1>2, <3>1, <3>2 DEF Exchange, Answering
    <3>4. http[c] = "writing" => sent'[c][parsed[c]] = sent[c][parsed[c]]
      BY <1>2, <3>1, <3>2, <3>3 DEF Exchange, Answering
    <3>5. Answering(c)'
      BY <3>1, <3>2, <3>3, <3>4 DEF Exchange, Answering
    <3>6. ASSUME NEW k \in 1 .. Len(responses[c])
          PROVE  sent'[c][k] = sent[c][k]
      BY <1>2, <3>1, <3>3
    <3> QED
      BY <2>2, <3>1, <3>2, <3>5, <3>6 DEF Exchange
  <2> QED
    BY <2>1, <2>2
<1> QED
  BY <1>3, <1>4, <1>5

LEMMA OnRequestIInv ==
  ASSUME IInv, NEW c \in Sessions, OnRequest(c)
  PROVE  /\ HttpTypeOK'
         /\ OneOwner'
         /\ \A t \in Sessions : Exchange(t)'
<1>1. /\ parsed' = [parsed EXCEPT ![c] = @ + 1]
      /\ http[c] = "reading" /\ parsed[c] < Len(sent[c])
      /\ sent' = sent /\ responses' = responses
      /\ started' = started /\ listening' = listening
      /\ accepting' = accepting
  BY DEF OnRequest
<1>2. /\ http \in [Sessions -> HttpPhases]
      /\ parsed \in [Sessions -> 0 .. MaxRequests]
      /\ parsed[c] \in Nat /\ Len(sent[c]) \in Nat /\ MaxRequests \in Nat
      /\ Len(responses[c]) \in Nat
  BY LenProperties, NetServerAssumption
     DEF IInv, HttpTypeOK, NetServerAssumption
<1>3. Exchange(c)
  BY ExchangesHold
<1>4. /\ parsed'[c] = parsed[c] + 1 /\ parsed'[c] <= Len(sent[c])
      /\ parsed'[c] \in 0 .. MaxRequests
      /\ parsed[c] = Len(responses[c])
  BY <1>1, <1>2, <1>3 DEF Exchange, Answering
<1>5. /\ parsed' \in [Sessions -> 0 .. MaxRequests]
      /\ \A t \in Sessions \ {c} : parsed'[t] = parsed[t]
  BY <1>1, <1>2, <1>4
<1>6. \/ /\ http' = [http EXCEPT ![c] = "upgraded"]
         /\ phase[c] = "none" /\ phase' = [phase EXCEPT ![c] = "accept"]
         /\ sent[c][parsed'[c]].upgrade
      \/ /\ http' = [http EXCEPT ![c] = "writing"]
         /\ phase' = phase /\ ~sent[c][parsed'[c]].upgrade
  BY DEF OnRequest, WS!Run, wsVars
<1>7. HttpTypeOK'
  <2>1. http' \in [Sessions -> HttpPhases]
    BY <1>2, <1>6 DEF HttpPhases
  <2> QED
    BY <1>1, <1>5, <2>1 DEF IInv, HttpTypeOK
<1>8. OneOwner'
  <2>1. c \notin Remotes /\ phase \in [Sessions -> WSP!Phases]
    BY <1>1, <1>3 DEF Exchange, Answering, IInv, WSP!IInv, WSP!TypeOK
  <2>2. phase[c] = "none"
    BY <1>1, <2>1 DEF IInv, OneOwner
  <2> QED
    BY <1>2, <1>6, <2>1, <2>2 DEF IInv, OneOwner
<1>9. ASSUME NEW t \in Sessions PROVE Exchange(t)'
  <2>1. CASE t # c
    <3>1. http'[t] = http[t]
      BY <1>2, <1>6, <2>1
    <3> QED
      BY <1>1, <1>5, <2>1, <3>1, ExchangesHold, ExchangeFrame
  <2>2. CASE t = c
    <3>1. http'[c] = "upgraded" \/ http'[c] = "writing"
      BY <1>2, <1>6
    <3>2. /\ http'[c] = "writing" => ~sent[c][parsed'[c]].upgrade
          /\ http'[c] = "upgraded" => sent[c][parsed'[c]].upgrade
      BY <1>2, <1>6
    <3>3. c \notin Remotes /\ Len(sent[c]) <= MaxRequests
      BY <1>1, <1>3 DEF Exchange, Answering
    <3>4. Answering(c)'
      BY <1>1, <1>2, <1>4, <3>1, <3>2, <3>3 DEF Answering
    <3>5. \A k \in 1 .. Len(responses[c]) : ~responses[c][k].needEof
      BY <1>1, <1>3 DEF Exchange
    <3> QED
      BY <1>1, <1>3, <2>2, <3>4, <3>5 DEF Exchange
  <2> QED
    BY <2>1, <2>2
<1> QED
  BY <1>7, <1>8, <1>9

LEMMA OnResponseWrittenIInv ==
  ASSUME IInv, NEW c \in Sessions, OnResponseWritten(c)
  PROVE  /\ HttpTypeOK'
         /\ OneOwner'
         /\ \A t \in Sessions : Exchange(t)'
<1> DEFINE res == Response(CurrentRequest(c))
           Res == [status : {"bad_request", "not_found",
                             "internal_server_error", "ok"},
                   needEof : BOOLEAN]
<1>1. /\ http[c] = "writing" /\ sent' = sent /\ parsed' = parsed
      /\ responses' = [responses EXCEPT ![c] = Append(@, res)]
      /\ http' = [http EXCEPT ![c] = IF res.needEof THEN "gone" ELSE "reading"]
      /\ started' = started /\ listening' = listening
      /\ accepting' = accepting /\ phase' = phase
  BY DEF OnResponseWritten, wsVars
<1>2. /\ http \in [Sessions -> HttpPhases]
      /\ responses \in [Sessions -> Seq(Res)]
      /\ sent[c] \in Seq(Requests)
      /\ parsed[c] \in Nat /\ Len(sent[c]) \in Nat /\ MaxRequests \in Nat
      /\ Len(responses[c]) \in Nat
  BY LenProperties, NetServerAssumption
     DEF IInv, HttpTypeOK, NetServerAssumption
<1>3. Exchange(c)
  BY ExchangesHold
<1>4. /\ parsed[c] = Len(responses[c]) + 1 /\ parsed[c] <= Len(sent[c])
      /\ ~sent[c][parsed[c]].upgrade
      /\ c \notin Remotes /\ Len(sent[c]) <= MaxRequests
  BY <1>1, <1>3 DEF Exchange, Answering
<1>5. sent[c][parsed[c]] \in Requests
  BY <1>2, <1>4, ElementOfSeq
<1>6. res \in Res
  BY <1>5, ResponseType, NetServerAssumption
     DEF CurrentRequest, NetServerAssumption
<1>7. /\ responses' \in [Sessions -> Seq(Res)]
      /\ responses'[c] = Append(responses[c], res)
      /\ \A t \in Sessions \ {c} : responses'[t] = responses[t]
  <2> HIDE DEF res, Res
  <2> QED
    BY <1>1, <1>2, <1>6, AppendProperties
<1>8. /\ Len(responses'[c]) = Len(responses[c]) + 1
      /\ \A k \in 1 .. Len(responses[c]) : responses'[c][k] = responses[c][k]
      /\ responses'[c][Len(responses[c]) + 1] = res
  <2> HIDE DEF res, Res
  <2> QED
    BY <1>2, <1>6, <1>7, AppendProperties
<1>9. /\ http' \in [Sessions -> HttpPhases]
      /\ http'[c] = IF res.needEof THEN "gone" ELSE "reading"
      /\ \A t \in Sessions \ {c} : http'[t] = http[t]
  <2> HIDE DEF res
  <2> QED
    BY <1>1, <1>2 DEF HttpPhases
<1>10. HttpTypeOK'
  BY <1>1, <1>7, <1>9 DEF IInv, HttpTypeOK
<1>11. OneOwner'
  <2>1. phase[c] = "none"
    BY <1>1, <1>4 DEF IInv, OneOwner
  <2> QED
    BY <1>1, <1>9, <2>1 DEF IInv, OneOwner
<1>12. ASSUME NEW t \in Sessions PROVE Exchange(t)'
  <2>1. CASE t # c
    BY <1>1, <1>7, <1>9, <2>1, ExchangesHold, ExchangeFrame
  <2>2. CASE t = c
    <3> HIDE DEF res
    <3>1. http'[c] \in {"gone", "reading"}
      BY <1>9
    <3>2. Answering(c)'
      BY <1>1, <1>2, <1>4, <1>8, <3>1 DEF Answering
    <3>3. ASSUME NEW k \in 1 .. Len(responses'[c])
          PROVE  /\ responses'[c][k] = Response(sent[c][k])
                 /\ ~sent[c][k].upgrade
                 /\ responses'[c][k].needEof =>
                      k = Len(responses'[c]) /\ http'[c] = "gone"
      <4>1. CASE k \in 1 .. Len(responses[c])
        BY <1>1, <1>3, <1>8, <4>1 DEF Exchange
      <4>2. CASE k = Len(responses[c]) + 1
        BY <1>4, <1>8, <1>9, <4>2 DEF res, CurrentRequest
      <4>3. k \in 1 .. Len(responses[c]) \/ k = Len(responses[c]) + 1
        BY <1>2, <1>8
      <4> QED
        BY <4>1, <4>2, <4>3
    <3> QED
      BY <1>1, <2>2, <3>2, <3>3 DEF Exchange
  <2> QED
    BY <2>1, <2>2
<1> QED
  BY <1>10, <1>11, <1>12

LEMMA HttpEndsIInv ==
  ASSUME IInv, NEW c \in Sessions, HttpEnds(c)
  PROVE  /\ HttpTypeOK'
         /\ OneOwner'
         /\ \A t \in Sessions : Exchange(t)'
<1>1. /\ http[c] \in {"reading", "writing"}
      /\ http \in [Sessions -> HttpPhases]
      /\ http' = [http EXCEPT ![c] = "gone"]
      /\ sent' = sent /\ parsed' = parsed /\ responses' = responses
      /\ phase' = phase
  BY DEF IInv, HttpTypeOK, HttpEnds, wsVars
<1>2. HttpTypeOK'
  BY <1>1 DEF IInv, HttpTypeOK, HttpEnds, HttpPhases
<1>3. Exchange(c)
  BY ExchangesHold
<1>4. OneOwner'
  BY <1>1 DEF IInv, OneOwner
<1>5. ASSUME NEW t \in Sessions PROVE Exchange(t)'
  <2>1. CASE t # c
    BY <1>1, <2>1, ExchangesHold, ExchangeFrame
  <2>2. CASE t = c
    BY <1>1, <1>3, <2>2 DEF Exchange, Answering
  <2> QED
    BY <2>1, <2>2
<1> QED
  BY <1>2, <1>4, <1>5

(* Steps that leave every http_session alone.                              *)
LEMMA OtherStepsIInv ==
  ASSUME IInv, UNCHANGED <<http, sent, parsed, responses>>,
         {started', listening', accepting'} \subseteq BOOLEAN,
         \A t \in Sessions : phase'[t] # "none" =>
           phase[t] # "none" \/ (t \in Remotes /\ http[t] = "none")
  PROVE  /\ HttpTypeOK'
         /\ OneOwner'
         /\ \A t \in Sessions : Exchange(t)'
<1>1. HttpTypeOK'
  BY DEF IInv, HttpTypeOK
<1>2. OneOwner'
  BY DEF IInv, OneOwner
<1> QED
  BY <1>1, <1>2, ExchangesHold, ExchangeFrame

LEMMA NextIInv ==
  ASSUME IInv, [Next]_vars
  PROVE  IInv'
<1> DEFINE Own == /\ HttpTypeOK'
                  /\ OneOwner'
                  /\ \A t \in Sessions : Exchange(t)'
<1>1. ASSUME UNCHANGED vars
      PROVE  Own
  <2>1. /\ UNCHANGED <<http, sent, parsed, responses>> /\ phase' = phase
        /\ {started', listening', accepting'} \subseteq BOOLEAN
    BY <1>1 DEF vars, httpVars, wsVars, IInv, HttpTypeOK
  <2> QED
    BY <2>1, OtherStepsIInv
<1>2. ASSUME PluginStartup \/ OnAcceptError
      PROVE  Own
  <2>1. /\ UNCHANGED <<http, sent, parsed, responses>> /\ phase' = phase
        /\ {started', listening', accepting'} \subseteq BOOLEAN
    BY <1>2 DEF PluginStartup, OnAcceptError, wsVars, IInv, HttpTypeOK
  <2> QED
    BY <2>1, OtherStepsIInv
<1>3. ASSUME NEW c \in Sessions, ConnectRemote(c)
      PROVE  Own
  <2>1. /\ UNCHANGED <<http, sent, parsed, responses>>
        /\ {started', listening', accepting'} \subseteq BOOLEAN
        /\ c \in Remotes /\ phase' = [phase EXCEPT ![c] = "resolve"]
        /\ phase \in [Sessions -> WSP!Phases]
    BY <1>3 DEF ConnectRemote, WS!Connect, httpVars, IInv, HttpTypeOK,
       WSP!IInv, WSP!TypeOK
  <2>2. http[c] = "none"
    BY <2>1 DEF IInv, Answering
  <2>3. \A t \in Sessions : phase'[t] # "none" =>
          phase[t] # "none" \/ (t \in Remotes /\ http[t] = "none")
    BY <2>1, <2>2
  <2> QED
    BY <2>1, <2>3, OtherStepsIInv
<1>4. ASSUME NEW c \in Sessions, HttpStep(c)
      PROVE  Own
  BY <1>4, AcceptIInv, PeerRequestIInv, OnRequestIInv, OnResponseWrittenIInv,
     HttpEndsIInv DEF HttpStep, HttpFails, HttpTimesOut
<1>5. ASSUME NEW c \in Sessions, SessionStep(c)
      PROVE  Own
  <2>1. /\ UNCHANGED <<http, sent, parsed, responses>>
        /\ {started', listening', accepting'} \subseteq BOOLEAN
        /\ WS!Step(c)
    BY <1>5 DEF SessionStep, httpVars, IInv, HttpTypeOK
  <2>2. \A t \in Sessions : phase'[t] # "none" =>
          phase[t] # "none" \/ (t \in Remotes /\ http[t] = "none")
    BY <2>1, NoneStaysNone DEF IInv
  <2> QED
    BY <2>1, <2>2, OtherStepsIInv
<1>6. Own
  BY <1>1, <1>2, <1>3, <1>4, <1>5 DEF Next
<1>7. (\A c \in Sessions : Answering(c)') /\ AnsweredInOrder'
  BY <1>6 DEF Exchange, AnsweredInOrder, Answering
<1>8. WSP!IInv'
  BY SessionsIInv DEF IInv
<1> QED
  BY <1>6, <1>7, <1>8 DEF IInv

-----------------------------------------------------------------------------
(* The theorems                                                            *)

(* The inductive invariant holds for ever.                                 *)
THEOREM Invariance == Spec => []IInv
BY InitIInv, NextIInv, PTL DEF Spec

(* A socket has one owner: a websocket session exists only when the        *)
(* http_session has released the socket to it, or when the node itself     *)
(* made the connection and no http_session ever had it; and every variable *)
(* has its type.                                                           *)
THEOREM OneOwnerPerSocket == Spec => []ServerInv
<1>1. IInv => ServerInv
  BY TypeSame DEF IInv, ServerInv, TypeOK, HttpTypeOK
<1> QED
  BY <1>1, Invariance, PTL

(* Pipelined requests are answered one by one in the order they were sent, *)
(* the upgrade by none of the responses, and nothing is written after the  *)
(* response that announces the end of the connection.                      *)
THEOREM PipelineOrder == Spec => []AnsweredInOrder
<1>1. IInv => AnsweredInOrder
  BY DEF IInv
<1> QED
  BY <1>1, Invariance, PTL

(* When a connection becomes a websocket, every request before the upgrade *)
(* has had its response, and none of them ended the connection.            *)
THEOREM UpgradesComeLast == Spec => []UpgradeComesLast
<1>1. ASSUME IInv
      PROVE  UpgradeComesLast
  <2> SUFFICES ASSUME NEW c \in Sessions, http[c] = "upgraded"
               PROVE  /\ parsed[c] = Len(responses[c]) + 1
                      /\ sent[c][parsed[c]].upgrade
                      /\ \A k \in 1 .. Len(responses[c]) :
                           sent[c][k].keepAlive /\ ~sent[c][k].upgrade
    BY DEF UpgradeComesLast
  <2>1. Exchange(c)
    BY <1>1, ExchangesHold
  <2>2. /\ parsed[c] = Len(responses[c]) + 1
        /\ sent[c][parsed[c]].upgrade
    BY <2>1 DEF Exchange, Answering
  <2>3. ASSUME NEW k \in 1 .. Len(responses[c])
        PROVE  sent[c][k].keepAlive /\ ~sent[c][k].upgrade
    <3>1. /\ responses[c][k] = Response(sent[c][k])
          /\ ~sent[c][k].upgrade
          /\ responses[c][k].needEof => http[c] = "gone"
      BY <2>1 DEF Exchange
    <3>2. sent[c] \in Seq(Requests) /\ parsed[c] \in Nat
      BY <1>1, NetServerAssumption DEF IInv, HttpTypeOK
    <3>3. Len(sent[c]) \in Nat
      BY <3>2, LenProperties
    <3>4. k \in 1 .. Len(sent[c])
      BY <2>1, <3>2, <3>3 DEF Exchange, Answering
    <3>5. sent[c][k] \in RequestType
      BY <3>2, <3>4, ElementOfSeq, NetServerAssumption
    <3>6. sent[c][k].keepAlive \in BOOLEAN
      BY <3>5 DEF RequestType
    <3>7. ~responses[c][k].needEof
      BY <3>1
    <3>8. responses[c][k].needEof = ~sent[c][k].keepAlive
      BY <3>1 DEF Response
    <3> QED
      BY <3>1, <3>7, <3>8, Zenon
  <2> QED
    BY <2>2, <2>3
<1> QED
  BY <1>1, Invariance, PTL

-----------------------------------------------------------------------------
(* What follows for the sessions of a server                               *)

\* The websocket_session of an accepted connection begins in the very step in
\* which its http_session releases the socket, and in no other; an http_session
\* that is over reads, answers and is sent nothing more.
HandOver(c) ==
  /\ c \notin Remotes =>
       (phase[c] = "none" /\ phase'[c] # "none"
          <=> http[c] # "upgraded" /\ http'[c] = "upgraded")
  /\ http[c] \in {"gone", "upgraded"} =>
       UNCHANGED <<http[c], sent[c], parsed[c], responses[c]>>

HandOverIsOneStep == [][\A c \in Sessions : HandOver(c)]_vars

\* What was answered stays answered: a step appends at most one response, and
\* only to those of an http_session that writes.
Answers(c) ==
  \/ responses'[c] = responses[c]
  \/ /\ http[c] = "writing"
     /\ Len(responses'[c]) = Len(responses[c]) + 1
     /\ \A k \in 1 .. Len(responses[c]) : responses'[c][k] = responses[c][k]

ResponsesOnlyGrow == [][\A c \in Sessions : Answers(c)]_vars

\* A step that touches neither the http_session of c nor begins its session.
Aside(c) ==
  /\ UNCHANGED <<http[c], sent[c], parsed[c], responses[c]>>
  /\ phase[c] = "none" => phase'[c] = "none" \/ c \in Remotes

LEMMA AsideKeeps ==
  ASSUME NEW c \in Sessions, Aside(c)
  PROVE  HandOver(c) /\ Answers(c)
BY DEF Aside, HandOver, Answers

LEMMA StepHandsOver ==
  ASSUME IInv, [Next]_vars, NEW c \in Sessions
  PROVE  HandOver(c) /\ Answers(c)
<1>1. /\ http \in [Sessions -> HttpPhases] /\ sent \in [Sessions -> Seq(Requests)]
      /\ parsed \in [Sessions -> 0 .. MaxRequests]
      /\ responses \in [Sessions -> Seq([status : {"bad_request", "not_found",
                                      "internal_server_error", "ok"},
                                     needEof : BOOLEAN])]
      /\ phase \in [Sessions -> WSP!Phases]
  BY DEF IInv, HttpTypeOK, WSP!IInv, WSP!TypeOK
<1>2. CASE UNCHANGED vars \/ PluginStartup \/ OnAcceptError
  BY <1>2, AsideKeeps DEF vars, wsVars, httpVars, PluginStartup, OnAcceptError, Aside
<1>3. ASSUME NEW d \in Sessions, ConnectRemote(d)
      PROVE  HandOver(c) /\ Answers(c)
  BY <1>1, <1>3, AsideKeeps DEF ConnectRemote, WS!Connect, httpVars, Aside
<1>4. ASSUME NEW d \in Sessions, SessionStep(d)
      PROVE  HandOver(c) /\ Answers(c)
  <2>1. WSP!IInv /\ WS!Step(d) /\ UNCHANGED httpVars
    BY <1>4 DEF SessionStep, IInv
  <2>2. phase[c] = "none" => phase'[c] = "none"
    BY <2>1, NoneStaysNone
  <2> QED
    BY <2>1, <2>2, AsideKeeps DEF httpVars, Aside
<1>5. ASSUME NEW d \in Sessions, d # c, HttpStep(d)
      PROVE  HandOver(c) /\ Answers(c)
  <2>1. CASE OnRequest(d)
    BY <1>1, <1>5, <2>1, AsideKeeps DEF OnRequest, WS!Run, wsVars, Aside
  <2>2. CASE OnAccept(d) \/ PeerRequest(d)
    BY <1>1, <1>5, <2>2, AsideKeeps DEF OnAccept, PeerRequest, wsVars, Aside
  <2>3. CASE OnResponseWritten(d)
    BY <1>1, <1>5, <2>3, AsideKeeps DEF OnResponseWritten, wsVars, Aside
  <2>4. CASE HttpFails(d) \/ HttpTimesOut(d)
    BY <1>1, <1>5, <2>4, AsideKeeps DEF HttpFails, HttpTimesOut, HttpEnds, wsVars, Aside
  <2> QED
    BY <1>5, <2>1, <2>2, <2>3, <2>4 DEF HttpStep
<1>6. CASE OnAccept(c)
  BY <1>1, <1>6 DEF OnAccept, wsVars, HandOver, Answers
<1>7. CASE PeerRequest(c)
  BY <1>1, <1>7 DEF PeerRequest, wsVars, HandOver, Answers
<1>8. CASE OnRequest(c)
  <2>1. http[c] = "reading" /\ UNCHANGED responses
    BY <1>8 DEF OnRequest
  <2>2. CASE http' = [http EXCEPT ![c] = "upgraded"] /\ WS!Run(c)
    BY <1>1, <2>1, <2>2 DEF WS!Run, HandOver, Answers
  <2>3. CASE http' = [http EXCEPT ![c] = "writing"] /\ UNCHANGED wsVars
    BY <1>1, <2>1, <2>3 DEF wsVars, HandOver, Answers
  <2> QED
    BY <1>8, <2>2, <2>3 DEF OnRequest
<1>9. CASE OnResponseWritten(c)
  <2> DEFINE res == Response(CurrentRequest(c))
  <2>1. /\ http[c] = "writing" /\ UNCHANGED wsVars
        /\ responses' = [responses EXCEPT ![c] = Append(@, res)]
        /\ http' = [http EXCEPT ![c] = IF res.needEof THEN "gone" ELSE "reading"]
    BY <1>9 DEF OnResponseWritten
  <2> HIDE DEF res
  <2>2. HandOver(c)
    BY <1>1, <2>1 DEF wsVars, HandOver
  <2>3. responses'[c] = Append(responses[c], res)
    BY <1>1, <2>1
  <2>4. /\ Len(responses'[c]) = Len(responses[c]) + 1
        /\ \A k \in 1 .. Len(responses[c]) : responses'[c][k] = responses[c][k]
    BY <1>1, <2>3
  <2> QED
    BY <2>1, <2>2, <2>4 DEF Answers
<1>10. CASE HttpFails(c) \/ HttpTimesOut(c)
  BY <1>1, <1>10 DEF HttpFails, HttpTimesOut, HttpEnds, wsVars, HandOver, Answers
<1> QED
  BY <1>2, <1>3, <1>4, <1>5, <1>6, <1>7, <1>8, <1>9, <1>10 DEF Next, HttpStep

(* A socket changes hands in one step, and whoever gave it away does not   *)
(* use it afterwards.                                                      *)
THEOREM SocketsAreHandedOver == Spec => HandOverIsOneStep
<1>1. IInv /\ [Next]_vars => [\A c \in Sessions : HandOver(c)]_vars
  BY StepHandsOver
<1> QED
  BY <1>1, Invariance, PTL DEF Spec, HandOverIsOneStep

(* A response that has been written is not changed or taken back.          *)
THEOREM ResponsesStay == Spec => ResponsesOnlyGrow
<1>1. IInv /\ [Next]_vars => [\A c \in Sessions : Answers(c)]_vars
  BY StepHandsOver
<1> QED
  BY <1>1, Invariance, PTL DEF Spec, ResponsesOnlyGrow

(* The sessions of a server, opened by upgrades and by the node itself,    *)
(* lose, repeat and reorder nothing, agree on one order, are registered    *)
(* exactly while they live, and never rest with a message left to write.   *)
THEOREM SessionsKeepTheirPromises ==
  Spec => [](/\ WSP!Segment /\ WSP!OneOrderForAll /\ WSP!RegistryIsExact
             /\ WSP!WritesFollowTheQueue /\ WSP!BacklogHasAHandler)
<1>1. WSP!IInv => /\ WSP!Segment /\ WSP!RegistryIsExact /\ WSP!WritesFollowTheQueue
  BY DEF WSP!IInv, WSP!WritesFollowTheQueue
<1>2. WSP!IInv => WSP!OneOrderForAll /\ WSP!BacklogHasAHandler
  BY WSP!OneOrderFollows, WSP!BacklogFollows, NetServerAssumption
     DEF NetServerAssumption
<1>3. IInv => WSP!IInv
  BY DEF IInv
<1> QED
  BY <1>1, <1>2, <1>3, Invariance, PTL

(* The members of a node's endpoint are served by the totally ordered      *)
(* broadcast of Broadcast.tla, over whatever the http_sessions do, and     *)
(* only a session whose stream failed leaves it.                           *)
THEOREM ServerBroadcasts == Spec => WSP!Refines /\ WSP!OnlyBrokenLeave
<1>1. MaxMessages \in Nat
  BY NetServerAssumption DEF NetServerAssumption
<1>2. WSP!Spec => WSP!Refines
  BY <1>1, WSP!Refinement
<1>3. WSP!Spec => WSP!OnlyBrokenLeave
  BY <1>1, WSP!MembersStay
<1>4. Init => WSP!Init
  BY InitSame DEF Init
<1>5. [Next]_vars => [WSP!Next]_(WSP!vars)
  BY NextIsSessionNext, WSNextSame DEF WS!vars, WSP!vars
<1> QED
  BY <1>2, <1>3, <1>4, <1>5, PTL DEF Spec, WSP!Spec
=============================================================================
