----------------------------- MODULE IpcServer ------------------------------
(***************************************************************************)
(* The daemon's IPC: JSON-RPC over a Unix socket (ipc/src/server.rs) and   *)
(* over WebSocket (ipc/src/ws.rs), the broadcast channel both take events  *)
(* from, and the one-shot client (ipc/src/client.rs).                      *)
(*                                                                         *)
(* A connection is served by one task that waits, in a select!, for the    *)
(* next request or the next event, and finishes one before it waits again. *)
(* On a Unix socket a second task moves events from the broadcast channel  *)
(* to a bounded queue of the connection.                                   *)
(*                                                                         *)
(* Events and a connection's messages are numbered in the order they are   *)
(* sent; contents are left out.                                            *)
(***************************************************************************)
EXTENDS Naturals, Sequences, FiniteSets, SequencesExt

CONSTANTS
  OneShot,       \* Unix connections opened by IpcClient::send_request
  Raw,           \* Unix connections of clients that send several requests
  Ws,            \* WebSocket connections
  Authorised,    \* the WebSocket connections with the right path and key
  BroadcastCap,  \* capacity of the broadcast channel, 256 in the code
  LocalCap,      \* capacity of a connection's event queue, 64 in the code
  PipeCap,       \* messages a connection holds on their way to the client
  MaxConns,      \* bound on the connections that are opened
  MaxMessages,   \* bound on the messages a client sends
  MaxEvents      \* bound on the events that are sent

Unix == OneShot \cup Raw
Conns == Unix \cup Ws

ASSUME IpcAssumption ==
  /\ OneShot \cap Raw = {} /\ Unix \cap Ws = {}
  /\ Authorised \subseteq Ws
  /\ BroadcastCap \in Nat \ {0} /\ LocalCap \in Nat \ {0}
  /\ PipeCap \in Nat \ {0}
  /\ MaxConns \in Nat /\ MaxMessages \in Nat /\ MaxEvents \in Nat

VARIABLES
  published,  \* number of events sent on the broadcast channel
  phase,      \* connection -> where its task is
  rx,         \* connection -> the last event its receiver has moved past
  base,       \* connection -> events sent before it subscribed
  dropped,    \* connection -> events its receiver was too slow for
  fwd,        \* Unix connection -> where its forwarder is
  held,       \* Unix connection -> the event the forwarder holds, or 0
  local,      \* Unix connection -> events queued for its task
  up,         \* connection -> what is on its way from the client
  line,       \* Unix connection -> what the pending read_line has consumed
  current,    \* connection -> the request being handled, or 0
  pending,    \* connection -> the message to be written, a sequence of 0 or 1
  out,        \* connection -> all that was written to the client
  read,       \* connection -> how much of out the client has read
  sent,       \* client -> number of messages it has begun to send
  asked,      \* client -> which of them are requests sent completely
  half,       \* client -> TRUE when the rest of a request is still to be sent
  eof,        \* client -> TRUE when it has closed its end
  result      \* one-shot client -> the outcome of send_request

eventVars == <<published, rx, base, dropped, fwd, held, local>>
taskVars == <<phase, line, current, pending, out>>
clientVars == <<read, sent, asked, half, eof, result>>
vars == <<eventVars, taskVars, clientVars, up>>

Serving == {"select", "handle", "write"}

\* What a client sends.  A request on a Unix socket may arrive in two pieces.
Piece(n, kind, part) == [n |-> n, kind |-> kind, part |-> part]

Kinds == {"request", "malformed", "blank", "ping", "binary", "close"}
Parts == {"whole", "head", "tail"}

\* What the server writes: an answer or an event with its number.
Line(type, n) == [type |-> type, n |-> n]

LineTypes == {"success", "error", "parse_error", "event", "pong"}

Init ==
  /\ published = 0
  /\ phase = [c \in Conns |-> "none"]
  /\ rx = [c \in Conns |-> 0] /\ base = [c \in Conns |-> 0]
  /\ dropped = [c \in Conns |-> {}]
  /\ fwd = [c \in Unix |-> "none"] /\ held = [c \in Unix |-> 0]
  /\ local = [c \in Unix |-> <<>>]
  /\ up = [c \in Conns |-> <<>>]
  /\ line = [c \in Unix |-> <<>>]
  /\ current = [c \in Conns |-> 0]
  /\ pending = [c \in Conns |-> <<>>]
  /\ out = [c \in Conns |-> <<>>] /\ read = [c \in Conns |-> 0]
  /\ sent = [c \in Conns |-> 0]
  /\ asked = [c \in Conns |-> {}]
  /\ half = [c \in Conns |-> FALSE]
  /\ eof = [c \in Conns |-> FALSE]
  /\ result = [c \in OneShot |-> "none"]

-----------------------------------------------------------------------------
(***************************************************************************)
(* Connections.  The listener's backlog lets a Unix client send before the *)
(* connection is accepted; a WebSocket client sends after the handshake.   *)
(***************************************************************************)
Connect(c) ==
  /\ phase[c] = "none"
  /\ Cardinality({d \in Conns : phase[d] # "none"}) < MaxConns
  /\ phase' = [phase EXCEPT ![c] = "backlog"]
  /\ UNCHANGED <<eventVars, line, current, pending, out, clientVars, up>>

\* The receiver subscribes at accept: earlier events are not for it.
Subscribe(c) ==
  /\ rx' = [rx EXCEPT ![c] = published]
  /\ base' = [base EXCEPT ![c] = published]

AcceptUnix(c) ==
  /\ phase[c] = "backlog"
  /\ phase' = [phase EXCEPT ![c] = "select"]
  /\ Subscribe(c)
  /\ fwd' = [fwd EXCEPT ![c] = "recv"]
  /\ UNCHANGED <<published, dropped, held, local, line, current, pending, out,
                 clientVars, up>>

AcceptTcp(c) ==
  /\ phase[c] = "backlog"
  /\ phase' = [phase EXCEPT ![c] = "handshake"]
  /\ Subscribe(c)
  /\ UNCHANGED <<published, dropped, fwd, held, local, line, current, pending,
                 out, clientVars, up>>

\* accept_ws checks the path and, when one is configured, the API key.
AcceptWs(c) ==
  /\ phase[c] = "handshake"
  /\ phase' = [phase EXCEPT ![c] =
                 IF c \in Authorised /\ ~eof[c] THEN "select" ELSE "closed"]
  /\ UNCHANGED <<eventVars, line, current, pending, out, clientVars, up>>

-----------------------------------------------------------------------------
(***************************************************************************)
(* Events.  A receiver that is more than the channel's capacity behind     *)
(* gets Lagged and skips to the oldest event still there.                  *)
(***************************************************************************)
SendEvent ==
  /\ published < MaxEvents
  /\ published' = published + 1
  /\ UNCHANGED <<rx, base, dropped, fwd, held, local, taskVars, clientVars, up>>

\* Faulty variant of Lagged: a full channel counts as too far behind.
Lagged_Full(c) == published - rx[c] >= BroadcastCap

Lagged(c) == published - rx[c] > BroadcastCap

SkipToOldest(c) ==
  LET oldest == published - BroadcastCap
  IN  /\ rx' = [rx EXCEPT ![c] = oldest]
      /\ dropped' = [dropped EXCEPT ![c] = @ \cup (rx[c] + 1)..oldest]

\* The forwarder: recv from the broadcast channel, then send to the queue.
ForwardRecv(c) ==
  /\ fwd[c] = "recv"
  /\ rx[c] < published
  /\ IF Lagged(c)
     THEN SkipToOldest(c) /\ UNCHANGED <<held, fwd>>
     ELSE /\ rx' = [rx EXCEPT ![c] = @ + 1]
          /\ held' = [held EXCEPT ![c] = rx[c] + 1]
          /\ fwd' = [fwd EXCEPT ![c] = "send"]
          /\ UNCHANGED dropped
  /\ UNCHANGED <<published, base, local, taskVars, clientVars, up>>

\* Faulty variant of ForwardSend: a full queue drops the event.
ForwardSend_Try(c) ==
  /\ fwd[c] = "send"
  /\ local' = [local EXCEPT ![c] = IF Len(@) < LocalCap THEN Append(@, held[c]) ELSE @]
  /\ fwd' = [fwd EXCEPT ![c] = IF phase[c] = "closed" THEN "done" ELSE "recv"]
  /\ held' = [held EXCEPT ![c] = 0]
  /\ UNCHANGED <<published, rx, base, dropped, taskVars, clientVars, up>>

\* send waits for room; it fails, and ends the forwarder, once the
\* connection's task is gone.
ForwardSend(c) ==
  /\ fwd[c] = "send"
  /\ \/ /\ phase[c] = "closed"
        /\ fwd' = [fwd EXCEPT ![c] = "done"]
        /\ UNCHANGED local
     \/ /\ phase[c] # "closed"
        /\ Len(local[c]) < LocalCap
        /\ local' = [local EXCEPT ![c] = Append(@, held[c])]
        /\ fwd' = [fwd EXCEPT ![c] = "recv"]
  /\ held' = [held EXCEPT ![c] = 0]
  /\ UNCHANGED <<published, rx, base, dropped, taskVars, clientVars, up>>

-----------------------------------------------------------------------------
(***************************************************************************)
(* The connection's task.                                                  *)
(***************************************************************************)

\* A line is a request when all of its pieces are there.
IsRequest(l) ==
  /\ \A i \in DOMAIN l : l[i].kind = "request" /\ l[i].n = l[1].n
  /\ l[1].part = "whole" \/ (Len(l) = 2 /\ l[1].part = "head")

IsBlank(l) == \A i \in DOMAIN l : l[i].kind = "blank"

\* A complete line or text message: answer it, or hand it to the handler.
Process(c, l) ==
  CASE IsRequest(l) ->
         /\ phase' = [phase EXCEPT ![c] = "handle"]
         /\ current' = [current EXCEPT ![c] = l[1].n]
         /\ UNCHANGED pending
    [] IsBlank(l) /\ c \in Unix ->
         UNCHANGED <<phase, current, pending>>
    [] OTHER ->
         /\ phase' = [phase EXCEPT ![c] = "write"]
         /\ pending' = [pending EXCEPT ![c] = <<Line("parse_error", 0)>>]
         /\ UNCHANGED current

\* The read_line branch consumes what has arrived; it completes at a newline.
ReadLine(c) ==
  /\ phase[c] = "select"
  /\ up[c] # <<>>
  /\ LET p == Head(up[c])
     IN  IF p.part = "head"
         THEN /\ line' = [line EXCEPT ![c] = Append(@, p)]
              /\ UNCHANGED <<phase, current, pending>>
         ELSE /\ line' = [line EXCEPT ![c] = <<>>]
              /\ Process(c, Append(line[c], p))
  /\ up' = [up EXCEPT ![c] = Tail(@)]
  /\ UNCHANGED <<eventVars, out, clientVars>>

\* At the end of the stream read_line returns what it has, or 0.
ReadEof(c) ==
  /\ phase[c] = "select"
  /\ eof[c] /\ up[c] = <<>>
  /\ IF line[c] = <<>>
     THEN /\ phase' = [phase EXCEPT ![c] = "closed"]
          /\ UNCHANGED <<line, current, pending>>
     ELSE /\ line' = [line EXCEPT ![c] = <<>>]
          /\ Process(c, line[c])
  /\ UNCHANGED <<eventVars, out, clientVars, up>>

\* Faulty variant of TakeLocalEvent: the queue is not popped.
TakeLocalEvent_Peek(c) ==
  /\ phase[c] = "select"
  /\ local[c] # <<>>
  /\ phase' = [phase EXCEPT ![c] = "write"]
  /\ pending' = [pending EXCEPT ![c] = <<Line("event", Head(local[c]))>>]
  /\ line' = [line EXCEPT ![c] = <<>>]
  /\ UNCHANGED <<eventVars, current, out, clientVars, up>>

\* The event branch wins the select!: the read_line future is dropped, and
\* with it what it has consumed.
TakeLocalEvent(c) ==
  /\ phase[c] = "select"
  /\ local[c] # <<>>
  /\ local' = [local EXCEPT ![c] = Tail(@)]
  /\ phase' = [phase EXCEPT ![c] = "write"]
  /\ pending' = [pending EXCEPT ![c] = <<Line("event", Head(local[c]))>>]
  /\ line' = [line EXCEPT ![c] = <<>>]
  /\ UNCHANGED <<published, rx, base, dropped, fwd, held, current, out,
                 clientVars, up>>

\* WebSocket: messages arrive whole.
TakeMessage(c) ==
  /\ phase[c] = "select"
  /\ up[c] # <<>>
  /\ LET p == Head(up[c])
     IN  CASE p.kind = "ping" ->
                /\ phase' = [phase EXCEPT ![c] = "write"]
                /\ pending' = [pending EXCEPT ![c] = <<Line("pong", p.n)>>]
                /\ UNCHANGED current
           [] p.kind = "binary" -> UNCHANGED <<phase, current, pending>>
           [] p.kind = "close" ->
                /\ phase' = [phase EXCEPT ![c] = "closed"]
                /\ UNCHANGED <<current, pending>>
           [] OTHER -> Process(c, <<p>>)
  /\ up' = [up EXCEPT ![c] = Tail(@)]
  /\ UNCHANGED <<eventVars, line, out, clientVars>>

TakeEof(c) ==
  /\ phase[c] = "select"
  /\ eof[c] /\ up[c] = <<>>
  /\ phase' = [phase EXCEPT ![c] = "closed"]
  /\ UNCHANGED <<eventVars, line, current, pending, out, clientVars, up>>

TakeBroadcast(c) ==
  /\ phase[c] = "select"
  /\ rx[c] < published
  /\ IF Lagged(c)
     THEN SkipToOldest(c) /\ UNCHANGED <<phase, pending>>
     ELSE /\ rx' = [rx EXCEPT ![c] = @ + 1]
          /\ phase' = [phase EXCEPT ![c] = "write"]
          /\ pending' = [pending EXCEPT ![c] = <<Line("event", rx[c] + 1)>>]
          /\ UNCHANGED dropped
  /\ UNCHANGED <<published, base, fwd, held, local, line, current, out,
                 clientVars, up>>

\* Faulty variant of HandlerReturns: an Err is not answered.
HandlerReturns_Silent(c, type) ==
  /\ phase[c] = "handle"
  /\ phase' = [phase EXCEPT ![c] = IF type = "error" THEN "select" ELSE "write"]
  /\ pending' = [pending EXCEPT ![c] =
                   IF type = "error" THEN <<>> ELSE <<Line(type, current[c])>>]
  /\ current' = [current EXCEPT ![c] = 0]
  /\ UNCHANGED <<eventVars, line, out, clientVars, up>>

\* The handler returns Ok or Err.
HandlerReturns(c, type) ==
  /\ phase[c] = "handle"
  /\ phase' = [phase EXCEPT ![c] = "write"]
  /\ pending' = [pending EXCEPT ![c] = <<Line(type, current[c])>>]
  /\ current' = [current EXCEPT ![c] = 0]
  /\ UNCHANGED <<eventVars, line, out, clientVars, up>>

\* Faulty variant of Write: the task does not leave the write.
Write_Again(c) ==
  /\ phase[c] = "write"
  /\ ~eof[c] /\ Len(out[c]) - read[c] < PipeCap
  /\ out' = [out EXCEPT ![c] = @ \o pending[c]]
  /\ UNCHANGED <<eventVars, phase, pending, line, current, clientVars, up>>

\* write_all waits for the client to read, and fails once the client is gone.
Write(c) ==
  /\ phase[c] = "write"
  /\ \/ /\ ~eof[c] /\ Len(out[c]) - read[c] < PipeCap
        /\ out' = [out EXCEPT ![c] = @ \o pending[c]]
        /\ phase' = [phase EXCEPT ![c] = "select"]
     \/ /\ eof[c]
        /\ phase' = [phase EXCEPT ![c] = "closed"]
        /\ UNCHANGED out
  /\ pending' = [pending EXCEPT ![c] = <<>>]
  /\ UNCHANGED <<eventVars, line, current, clientVars, up>>

-----------------------------------------------------------------------------
(***************************************************************************)
(* Clients.                                                                *)
(***************************************************************************)
MaySend(c) ==
  /\ ~eof[c] /\ ~half[c]
  /\ \/ c \in Unix /\ phase[c] \in Serving \cup {"backlog"}
     \/ c \in Ws /\ phase[c] \in Serving
  /\ sent[c] < (IF c \in OneShot THEN 1 ELSE MaxMessages)

ClientSend(c, kind, part) ==
  /\ MaySend(c)
  /\ up' = [up EXCEPT ![c] = Append(@, Piece(sent[c] + 1, kind, part))]
  /\ sent' = [sent EXCEPT ![c] = @ + 1]
  /\ half' = [half EXCEPT ![c] = part = "head"]
  /\ asked' = [asked EXCEPT ![c] =
                 IF kind = "request" /\ part = "whole" THEN @ \cup {sent[c] + 1} ELSE @]
  /\ UNCHANGED <<eventVars, taskVars, read, eof, result>>

ClientSendRest(c) ==
  /\ ~eof[c] /\ half[c]
  /\ up' = [up EXCEPT ![c] = Append(@, Piece(sent[c], "request", "tail"))]
  /\ half' = [half EXCEPT ![c] = FALSE]
  /\ asked' = [asked EXCEPT ![c] = @ \cup {sent[c]}]
  /\ UNCHANGED <<eventVars, taskVars, read, sent, eof, result>>

ClientRead(c) ==
  /\ ~eof[c]
  /\ read[c] < Len(out[c])
  /\ read' = [read EXCEPT ![c] = @ + 1]
  /\ UNCHANGED <<eventVars, taskVars, sent, asked, half, eof, result, up>>

ClientClose(c) ==
  /\ phase[c] # "none"
  /\ ~eof[c]
  /\ eof' = [eof EXCEPT ![c] = TRUE]
  /\ UNCHANGED <<eventVars, taskVars, read, sent, asked, half, result, up>>

\* The first line is parsed as a response; an event has neither the version
\* nor the id.  The id is not compared.
Parsed(l) ==
  CASE l.type = "success" -> "Ok"
    [] l.type \in {"error", "parse_error"} -> "DaemonError"
    [] OTHER -> "InvalidResponse"

\* send_request returns, which closes the connection.
ClientReturn(c) ==
  /\ sent[c] = 1 /\ ~half[c] /\ ~eof[c]
  /\ out[c] # <<>>
  /\ read' = [read EXCEPT ![c] = 1]
  /\ result' = [result EXCEPT ![c] = Parsed(out[c][1])]
  /\ eof' = [eof EXCEPT ![c] = TRUE]
  /\ UNCHANGED <<eventVars, taskVars, sent, asked, half, up>>

-----------------------------------------------------------------------------
ForwarderStep(c) == ForwardRecv(c) \/ ForwardSend(c)

UnixStep(c) ==
  \/ AcceptUnix(c) \/ ReadLine(c) \/ ReadEof(c) \/ TakeLocalEvent(c)

WsStep(c) ==
  \/ AcceptTcp(c) \/ AcceptWs(c) \/ TakeMessage(c) \/ TakeEof(c)
  \/ TakeBroadcast(c)

AnswerStep(c) ==
  \/ \E type \in {"success", "error"} : HandlerReturns(c, type)
  \/ Write(c)

OneShotStep(c) ==
  \/ \E part \in {"whole", "head"} : ClientSend(c, "request", part)
  \/ ClientSendRest(c)
  \/ ClientReturn(c)

ClientStep(c) ==
  \/ c \in OneShot /\ OneShotStep(c)
  \/ c \in Conns \ OneShot /\ (ClientSendRest(c) \/ ClientRead(c))

Next ==
  \/ SendEvent
  \/ \E c \in Conns : Connect(c) \/ AnswerStep(c) \/ ClientStep(c)
  \/ \E c \in Unix : ForwarderStep(c) \/ UnixStep(c)
  \/ \E c \in Ws : WsStep(c)
  \/ \E c \in Raw :
       \/ \E kind \in {"request", "malformed", "blank"} : ClientSend(c, kind, "whole")
       \/ ClientSend(c, "request", "head")
       \/ ClientClose(c)
  \/ \E c \in Ws :
       \/ \E kind \in {"request", "malformed", "ping", "binary", "close"} :
            ClientSend(c, kind, "whole")
       \/ ClientClose(c)

Spec == Init /\ [][Next]_vars

(***************************************************************************)
(* The runtime polls every task that can go on, handlers return, and a     *)
(* client that has not closed its end keeps reading and completes what it  *)
(* has begun to send; send_request runs to its end.                        *)
(***************************************************************************)
FairSpec ==
  /\ Spec
  /\ \A c \in Conns : WF_vars(AnswerStep(c)) /\ WF_vars(ClientStep(c))
  /\ \A c \in Unix : WF_vars(ForwarderStep(c)) /\ WF_vars(UnixStep(c))
  /\ \A c \in Ws : WF_vars(WsStep(c))

-----------------------------------------------------------------------------
Answers == {"success", "error"}

\* Every variable keeps its type, and every queue its capacity.
TypeOK ==
  /\ published \in Nat
  /\ phase \in [Conns -> Serving \cup {"none", "backlog", "handshake", "closed"}]
  /\ rx \in [Conns -> Nat] /\ base \in [Conns -> Nat]
  /\ dropped \in [Conns -> SUBSET Nat]
  /\ fwd \in [Unix -> {"none", "recv", "send", "done"}]
  /\ held \in [Unix -> Nat]
  /\ local \in [Unix -> Seq(Nat)]
  /\ up \in [Conns -> Seq([n : Nat, kind : Kinds, part : Parts])]
  /\ line \in [Unix -> Seq([n : Nat, kind : Kinds, part : Parts])]
  /\ current \in [Conns -> Nat]
  /\ pending \in [Conns -> Seq([type : LineTypes, n : Nat])]
  /\ out \in [Conns -> Seq([type : LineTypes, n : Nat])]
  /\ read \in [Conns -> Nat] /\ sent \in [Conns -> Nat]
  /\ asked \in [Conns -> SUBSET Nat]
  /\ half \in [Conns -> BOOLEAN] /\ eof \in [Conns -> BOOLEAN]
  /\ result \in [OneShot -> {"none", "Ok", "DaemonError", "InvalidResponse"}]
  /\ \A c \in Conns : read[c] <= Len(out[c]) /\ Len(out[c]) - read[c] <= PipeCap
  /\ \A c \in Unix : Len(local[c]) <= LocalCap

\* The numbers of the messages of some types in a sequence, and that they
\* ascend.
NumbersOf(s, types) == {s[i].n : i \in {j \in DOMAIN s : s[j].type \in types}}

InOrder(s, types) ==
  \A i, j \in DOMAIN s :
    i < j /\ s[i].type \in types /\ s[j].type \in types => s[i].n < s[j].n

Toward(c) == out[c] \o pending[c]

Answered(c) == NumbersOf(Toward(c), Answers)

\* A client sees answers in the order of its requests and none twice, though
\* events come in between (the task finishes one message before the next).
AnswersInOrder ==
  \A c \in Conns :
    /\ InOrder(Toward(c), Answers)
    /\ Answered(c) \subseteq asked[c]

Written(c) == NumbersOf(Toward(c), {"event"})

\* The events of a connection that are still on their way through the server.
Underway(c) ==
  (rx[c] + 1)..published \cup
    (IF c \in Unix THEN Range(local[c]) \cup ({held[c]} \ {0}) ELSE {})

\* A client sees events in the order they were sent, none twice and none from
\* before its connection (forwarder, queue and Lagged together).
EventsInOrder ==
  \A c \in Conns :
    /\ InOrder(Toward(c), {"event"})
    /\ \A e \in Written(c) : e > base[c]

\* While a connection is served, each event since it was accepted is written,
\* on its way, or was dropped by Lagged: nothing else loses an event.
EventsAccounted ==
  \A c \in Conns :
    phase[c] \in Serving =>
      (base[c] + 1)..published = Written(c) \cup Underway(c) \cup dropped[c]

Incoming(c) ==
  {up[c][i].n : i \in DOMAIN up[c]} \cup {current[c]} \cup
    (IF c \in Unix THEN {line[c][i].n : i \in DOMAIN line[c]} ELSE {})

Accounted(c) ==
  phase[c] \in Serving => asked[c] \subseteq Answered(c) \cup Incoming(c)

\* No request is lost on a WebSocket connection, nor on a Unix one to which
\* no event was written: it is on its way, being handled or answered.
RequestsKept ==
  \A c \in Conns : c \in Ws \/ Written(c) = {} => Accounted(c)

\* No queue outgrows its capacity for a client that does not read, and yet the
\* server loses neither events nor requests, those exceptions apart.
IpcInv == TypeOK /\ EventsAccounted /\ RequestsKept

\* Every request on a WebSocket connection is answered unless the connection
\* ends, however many events are sent and however slowly the client reads.
EventuallyAnswered ==
  \A c \in Ws : \A n \in 1..MaxMessages :
    n \in asked[c] ~> (n \in Answered(c) \/ phase[c] = "closed")

\* Every event sent while a Unix connection is served is written or dropped by
\* Lagged, unless the connection ends: forwarder, queue and task do not block
\* each other for good.
EventuallyForwarded ==
  \A c \in Unix : \A e \in 1..MaxEvents :
    (phase[c] \in Serving /\ base[c] < e /\ e <= published)
      ~> (e \in Written(c) \cup dropped[c] \/ phase[c] = "closed")

\* send_request has no timeout: whatever events come before, between or after
\* the pieces of its request, it reads a line and returns.  A piece is lost
\* only to an event, which is then the line it reads.
SendRequestReturns ==
  \A c \in OneShot : sent[c] = 1 ~> result[c] # "none"

-----------------------------------------------------------------------------
(***************************************************************************)
(* What a comment of the code says and the code does not do.               *)
(***************************************************************************)

\* "accepts connections, and dispatches JSON-RPC requests to an IpcHandler
\* implementation": no request is lost on a Unix socket either.
RequestsDispatched == \A c \in Unix : Accounted(c)
=============================================================================
