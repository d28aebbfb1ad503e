------------------------------- MODULE CommTcp -------------------------------
(***************************************************************************)
(* The comm layer over a TCP connection,                                   *)
(* src/port/posix/posix_transport_tcp.c.  The sockets do not block: a      *)
(* packet is written and read in pieces, through one buffer per side that  *)
(* serves both directions, and a flag per side says whose turn it is.      *)
(*                                                                         *)
(* A packet is two pieces: the first ends behind the header, which holds   *)
(* the sequence number, the second is the content.  What is read is        *)
(* whatever two pieces come next.  Every answer is well formed here, so a  *)
(* call never returns with its request pending, and none is refused.       *)
(***************************************************************************)
EXTENDS Comm

VARIABLES
  state,        \* posixTransportTcpClientContext.state
  requestSent,  \* the client waits for a response
  cbuf,         \* the client's buffer ...
  coff,         \* ... and the pieces of it already written or read
  listening,    \* the server has its listening socket
  accepted,     \* the server has accepted the connection
  requestRecv,  \* the server works on a request
  sbuf, soff,   \* the server's buffer
  c2s, s2c,     \* the pieces on their way, in both directions
  clean         \* history: no request was given up between its two pieces

sides == <<requestSent, cbuf, coff, requestRecv, sbuf, soff>>
links == <<state, listening, accepted>>
tcpVars == <<sides, links, c2s, s2c, clean>>
vars == <<seq, pending, timer, call, calls, outcome, srv, work, done,
          state, requestSent, cbuf, coff, listening, accepted,
          requestRecv, sbuf, soff, c2s, s2c, clean>>

\* posixTransportTcp_InitConnect starts to connect; the server may come later.
Init ==
  /\ ClientInit
  /\ ServerInit
  /\ state = "connect_wait"
  /\ requestSent = FALSE
  /\ cbuf = NoPacket /\ coff = 0
  /\ listening = FALSE
  /\ accepted = FALSE
  /\ requestRecv = FALSE
  /\ sbuf = NoPacket /\ soff = 0
  /\ c2s = <<>> /\ s2c = <<>>
  /\ clean = TRUE

Call == BeginCall /\ UNCHANGED <<serverVars, tcpVars>>

\* posixTransportTcp_SendRequest: nothing is sent while a response is awaited.
\* Mutant: that is not checked.
M_MayWrite == MaySend

MayWrite == MaySend /\ ~requestSent

\* posixTransportTcp_HandleConnect.  A refused connection is tried again.
Connect ==
  /\ MayWrite
  /\ \/ state = "unconnected" /\ state' = "connect_wait"
     \/ state = "connect_wait" /\ listening /\ state' = "connected"
     \/ state = "connect_wait" /\ ~listening /\ state' = "unconnected"
  /\ UNCHANGED <<clientVars, serverVars, sides, listening, accepted, c2s, s2c, clean>>

\* Mutant: a retry copies the packet of the caller over the one it has begun.
M_WriteTail ==
  /\ MayWrite
  /\ state = "connected"
  /\ coff = 1
  /\ c2s' = Append(c2s, Request)
  /\ coff' = 0
  /\ requestSent' = TRUE
  /\ Sent
  /\ UNCHANGED <<serverVars, links, cbuf, requestRecv, sbuf, soff, s2c, clean>>

\* posixTransportTcp_Send, when it can write the first piece only ...
WriteHead ==
  /\ MayWrite
  /\ state = "connected"
  /\ coff = 0
  /\ cbuf' = Request
  /\ c2s' = Append(c2s, Request)
  /\ coff' = 1
  /\ UNCHANGED <<clientVars, serverVars, links, requestSent, requestRecv, sbuf, soff, s2c, clean>>

\* ... and when it writes the rest of its buffer.
WriteTail ==
  /\ MayWrite
  /\ state = "connected"
  /\ coff = 1
  /\ c2s' = Append(c2s, cbuf)
  /\ coff' = 0
  /\ requestSent' = TRUE
  /\ Sent
  /\ UNCHANGED <<serverVars, links, cbuf, requestRecv, sbuf, soff, s2c, clean>>

\* With the split API the application may give up on a request that the
\* transport keeps refusing, and later make another.
GiveUp ==
  /\ MaySend
  /\ ReturnWith(Failed("ABORTED"))
  /\ clean' = (clean /\ coff = 0)
  /\ UNCHANGED <<pending, timer, serverVars, sides, links, c2s, s2c>>

\* posixTransportTcp_RecvResponse reads the first piece ...
ReadHead ==
  /\ MayRecv
  /\ requestSent
  /\ coff = 0
  /\ s2c # <<>>
  /\ cbuf' = Head(s2c)
  /\ s2c' = Tail(s2c)
  /\ coff' = 1
  /\ UNCHANGED <<clientVars, serverVars, links, requestSent, requestRecv, sbuf, soff, c2s, clean>>

\* ... and the rest.
ReadTail ==
  /\ MayRecv
  /\ requestSent
  /\ coff = 1
  /\ s2c # <<>>
  /\ s2c' = Tail(s2c)
  /\ coff' = 0
  /\ requestSent' = FALSE
  /\ Received([seq |-> cbuf.seq, req |-> Head(s2c).req])
  /\ UNCHANGED <<serverVars, links, cbuf, requestRecv, sbuf, soff, c2s, clean>>

\* The pieces may be late.
Timeout == Expired /\ UNCHANGED <<serverVars, tcpVars>>

Abort == AbortPending /\ UNCHANGED <<serverVars, tcpVars>>

\* posixTransportTcp_InitListen
Listen ==
  /\ ~listening
  /\ listening' = TRUE
  /\ UNCHANGED <<clientVars, serverVars, sides, state, accepted, c2s, s2c, clean>>

\* posixTransportTcp_RecvRequest accepts the connection first ...
Accept ==
  /\ srv = "poll"
  /\ listening
  /\ ~accepted
  /\ state = "connected"
  /\ accepted' = TRUE
  /\ UNCHANGED <<clientVars, serverVars, sides, state, listening, c2s, s2c, clean>>

\* ... and reads a request unless it works on one.
SrvReadHead ==
  /\ srv = "poll"
  /\ accepted
  /\ ~requestRecv
  /\ soff = 0
  /\ c2s # <<>>
  /\ sbuf' = Head(c2s)
  /\ c2s' = Tail(c2s)
  /\ soff' = 1
  /\ UNCHANGED <<clientVars, serverVars, links, requestSent, cbuf, coff, requestRecv, s2c, clean>>

SrvReadTail ==
  /\ srv = "poll"
  /\ accepted
  /\ ~requestRecv
  /\ soff = 1
  /\ c2s # <<>>
  /\ c2s' = Tail(c2s)
  /\ soff' = 0
  /\ requestRecv' = TRUE
  /\ RecvRequest([seq |-> sbuf.seq, req |-> Head(c2s).req])
  /\ UNCHANGED <<clientVars, links, requestSent, cbuf, coff, sbuf, s2c, clean>>

SrvHandle == Handle /\ UNCHANGED <<clientVars, tcpVars>>

\* posixTransportTcp_SendResponse, called until it is done.
SrvWriteHead ==
  /\ srv = "reply"
  /\ requestRecv
  /\ soff = 0
  /\ sbuf' = work
  /\ s2c' = Append(s2c, work)
  /\ soff' = 1
  /\ UNCHANGED <<clientVars, serverVars, links, requestSent, cbuf, coff, requestRecv, c2s, clean>>

\* Mutant: the server forgets that it has answered.
M_SrvWriteTail ==
  /\ srv = "reply"
  /\ requestRecv
  /\ soff = 1
  /\ s2c' = Append(s2c, sbuf)
  /\ soff' = 0
  /\ Replied
  /\ UNCHANGED <<clientVars, links, requestSent, cbuf, coff, requestRecv, sbuf, c2s, clean>>

SrvWriteTail ==
  /\ srv = "reply"
  /\ requestRecv
  /\ soff = 1
  /\ s2c' = Append(s2c, sbuf)
  /\ soff' = 0
  /\ requestRecv' = FALSE
  /\ Replied
  /\ UNCHANGED <<clientVars, links, requestSent, cbuf, coff, sbuf, c2s, clean>>

ClientStep == Connect \/ WriteHead \/ WriteTail \/ ReadHead \/ ReadTail
ServerStep ==
  \/ Listen \/ Accept \/ SrvReadHead \/ SrvReadTail
  \/ SrvHandle \/ SrvWriteHead \/ SrvWriteTail

Next == Call \/ ClientStep \/ GiveUp \/ Timeout \/ Abort \/ ServerStep

Spec == Init /\ [][Next]_vars

\* The client polls.
FairSpec == Spec /\ WF_vars(ClientStep)

\* The server polls, handles what it receives and answers.
FairServer == WF_vars(ServerStep)

\* A timer that runs expires unless an answer comes first.
FairTimer == Timed /\ WF_vars(Timeout)

\* The types of both sides, and of what is between them: never more than the
\* two pieces of one packet in either direction.
TypeOK ==
  /\ CommTypeOK
  /\ call \in {"idle", "send", "recv"}
  /\ srv \in {"poll", "handle", "reply"}
  /\ state \in {"unconnected", "connect_wait", "connected"}
  /\ {requestSent, requestRecv, listening, accepted, clean} \subseteq BOOLEAN
  /\ {cbuf, sbuf} \subseteq Packet
  /\ {coff, soff} \subseteq {0, 1}
  /\ c2s \in Seq(Packet) /\ Len(c2s) <= 2
  /\ s2c \in Seq(Packet) /\ Len(s2c) <= 2

(***************************************************************************)
(* Where the one packet is that is under way.  A side's buffer keeps the   *)
(* packet that it has sent or received.                                    *)
(***************************************************************************)
\* There is none,
Quiet ==
  /\ ~requestSent /\ coff = 0 /\ c2s = <<>>
  /\ srv = "poll" /\ soff = 0 /\ s2c = <<>>

\* its header is sent,
Begun ==
  /\ ~requestSent /\ coff = 1
  /\ srv = "poll" /\ s2c = <<>>
  /\ \/ soff = 0 /\ c2s = <<cbuf>>
     \/ soff = 1 /\ c2s = <<>> /\ sbuf = cbuf

\* all of it is, and the server has not read all of it,
Arriving ==
  /\ requestSent /\ coff = 0
  /\ srv = "poll" /\ s2c = <<>>
  /\ \/ soff = 0 /\ c2s = <<cbuf, cbuf>>
     \/ soff = 1 /\ c2s = <<cbuf>> /\ sbuf = cbuf

\* the server works on it,
Serving ==
  /\ requestSent /\ coff = 0 /\ c2s = <<>>
  /\ srv \in {"handle", "reply"} /\ work = cbuf /\ soff = 0 /\ s2c = <<>>

\* the header of the answer is sent,
Replying ==
  /\ requestSent /\ c2s = <<>>
  /\ srv = "reply" /\ work = cbuf /\ soff = 1 /\ sbuf = cbuf
  /\ \/ coff = 0 /\ s2c = <<cbuf>>
     \/ coff = 1 /\ s2c = <<>>

\* all of it is, and the client has not read all of it.
Leaving ==
  /\ requestSent /\ c2s = <<>>
  /\ srv = "poll" /\ soff = 0
  /\ \/ coff = 0 /\ s2c = <<cbuf, cbuf>>
     \/ coff = 1 /\ s2c = <<cbuf>>

OnePacket ==
  /\ Quiet \/ Begun \/ Arriving \/ Serving \/ Replying \/ Leaving
  /\ requestRecv = (srv # "poll")

\* The packet has the number the client expects, and is a request that was made.
Numbered ==
  /\ call = "recv" <=> pending
  /\ call # "idle" => calls > 0
  /\ pending => requestSent /\ cbuf.seq = seq
  /\ Begun => cbuf.seq = NextSeq
  /\ ~Quiet => cbuf.req > 0

\* It is the call's own, unless that of an earlier call was left half sent.
OwnPacket ==
  /\ Begun => call = "send" /\ cbuf.req = calls
  /\ pending => cbuf.req = calls

\* The answer to it comes after it was handled.
AnswerHandled ==
  srv = "reply" \/ Leaving => \E k \in DOMAIN done : done[k] = cbuf.req

\* As long as no request is given up in the middle, an answer is never put
\* together from the pieces of two, and never taken for that of another request.
CleanAnswersMatch == clean => AnswersMatch

\* A request whose first half is out is finished before anything else is sent:
\* every piece the server reads belongs to the packet whose header it has read.
PiecesMatch ==
  /\ srv = "poll" /\ soff = 1 /\ c2s # <<>> => Head(c2s) = sbuf
  /\ call = "recv" /\ coff = 1 /\ s2c # <<>> => Head(s2c) = cbuf

\* With a response timer no call polls for ever, though the server may have
\* stopped for good.
WaitsEnd == FairTimer => (call = "recv" ~> call # "recv")

TimedOut == \E n \in 1..MaxCalls : outcome[n].status = "TIMEOUT"

\* Every call returns, unless the answer to an abandoned request stands out.
CallsReturn ==
  FairServer => (call # "idle" ~> (call = "idle" \/ (requestSent /\ ~pending)))

\* After a timeout the client context stays usable: a call that the server is
\* there to answer returns.
UsableAfterTimeout ==
  FairServer => (TimedOut /\ call # "idle" ~> call = "idle")
=============================================================================
