------------------------------- MODULE CommMem -------------------------------
(***************************************************************************)
(* The comm layer over shared memory, src/wh_transport_mem.c: a request    *)
(* and a response buffer, each with a control word that holds a notify     *)
(* counter.  The client owns the request buffer while the counters agree,  *)
(* the server owns both while they differ.                                 *)
(*                                                                         *)
(* The two sides run on different cores: one action is what one of them    *)
(* does between two accesses to the words the other side writes.           *)
(***************************************************************************)
EXTENDS Comm

CONSTANTS NotifyMod,    \* notify counters are taken modulo this, 2^16
          MaxRestarts   \* bound: restarts of the client

ASSUME MemAssumption ==
  /\ NotifyMod \in Nat /\ NotifyMod > 1
  /\ MaxRestarts \in Nat

VARIABLES
  req,      \* request buffer: notify, data
  resp,     \* response buffer: notify, data
  srvReq,   \* SendResponse: the control word of the request it has read
  restarts, \* restarts of the client so far
  clean     \* history: none of them met a server at work on a request

memVars == <<req, resp, srvReq, restarts, clean>>
vars == <<seq, pending, timer, call, calls, outcome, srv, work, done,
          req, resp, srvReq, restarts, clean>>

Init ==
  /\ ClientInit
  /\ ServerInit
  /\ req = [notify |-> 0, data |-> NoPacket]
  /\ resp = [notify |-> 0, data |-> NoPacket]
  /\ srvReq = 0
  /\ restarts = 0
  /\ clean = TRUE

Answered == req.notify = resp.notify

Call == BeginCall /\ UNCHANGED <<serverVars, memVars>>

SendRefused == Refuse /\ UNCHANGED <<serverVars, memVars>>

\* Mutant: sends without waiting for the previous answer.
M_SendData ==
  /\ MaySend
  /\ call' = "notify"
  /\ req' = [req EXCEPT !.data = Request]
  /\ UNCHANGED <<seq, pending, timer, calls, outcome, serverVars, resp, srvReq, restarts, clean>>

\* wh_TransportMem_SendRequest: once the server has completed the previous
\* request, write the data ...
SendData ==
  /\ MaySend
  /\ Answered
  /\ call' = "notify"
  /\ req' = [req EXCEPT !.data = Request]
  /\ UNCHANGED <<seq, pending, timer, calls, outcome, serverVars, resp, srvReq, restarts, clean>>

\* ... then the control word.
SendNotify ==
  /\ call = "notify"
  /\ req' = [req EXCEPT !.notify = (@ + 1) % NotifyMod]
  /\ Sent
  /\ UNCHANGED <<serverVars, resp, srvReq, restarts, clean>>

\* wh_TransportMem_RecvResponse
RecvResponse ==
  /\ MayRecv
  /\ Answered
  /\ Received(resp.data)
  /\ UNCHANGED <<serverVars, memVars>>

Timeout ==
  /\ ~Answered
  /\ Expired
  /\ UNCHANGED <<serverVars, memVars>>

Abort == AbortPending /\ UNCHANGED <<serverVars, memVars>>

\* wh_CommClient_Cleanup and _Init, with wh_TransportMem_InitClear: the client
\* starts over and zeroes the request buffer, then the response buffer.
Restart ==
  /\ restarts < MaxRestarts
  /\ call # "clear"
  /\ restarts' = restarts + 1
  /\ seq' = 0
  /\ pending' = FALSE
  /\ timer' = FALSE
  /\ call' = "clear"
  /\ outcome' = IF call = "idle" THEN outcome ELSE [outcome EXCEPT ![calls] = Failed("ABORTED")]
  /\ clean' = (clean /\ Answered /\ srv = "poll")
  /\ req' = [notify |-> 0, data |-> NoPacket]
  /\ UNCHANGED <<calls, serverVars, resp, srvReq>>

\* Mutant: only the request buffer is cleared.
M_ClearResponse ==
  /\ call = "clear"
  /\ call' = "idle"
  /\ UNCHANGED <<seq, pending, timer, calls, outcome, serverVars, memVars>>

ClearResponse ==
  /\ call = "clear"
  /\ call' = "idle"
  /\ resp' = [notify |-> 0, data |-> NoPacket]
  /\ UNCHANGED <<seq, pending, timer, calls, outcome, serverVars, req, srvReq, restarts, clean>>

\* Mutant: takes a request that was answered already.
M_SrvRecv ==
  /\ req.data # NoPacket
  /\ RecvRequest(req.data)
  /\ UNCHANGED <<clientVars, memVars>>

\* wh_TransportMem_RecvRequest.  An empty buffer has no header: the comm layer
\* reports it as an error, and the server polls again.
SrvRecv ==
  /\ ~Answered
  /\ req.data # NoPacket
  /\ RecvRequest(req.data)
  /\ UNCHANGED <<clientVars, memVars>>

SrvHandle == Handle /\ UNCHANGED <<clientVars, memVars>>

\* wh_TransportMem_SendResponse: read the control word of the request as it is
\* now, and write the data ...
SrvReplyData ==
  /\ srv = "reply"
  /\ srv' = "notify"
  /\ resp' = [resp EXCEPT !.data = work]
  /\ srvReq' = req.notify
  /\ UNCHANGED <<clientVars, work, done, req, restarts, clean>>

\* ... then the control word of the response.
SrvReplyNotify ==
  /\ srv = "notify"
  /\ Replied
  /\ resp' = [resp EXCEPT !.notify = srvReq]
  /\ UNCHANGED <<clientVars, req, srvReq, restarts, clean>>

ClientStep == SendRefused \/ SendData \/ SendNotify \/ RecvResponse \/ ClearResponse
ServerStep == SrvRecv \/ SrvHandle \/ SrvReplyData \/ SrvReplyNotify

Next == Call \/ ClientStep \/ Timeout \/ Abort \/ Restart \/ ServerStep

Spec == Init /\ [][Next]_vars

\* A blocking call does not stop half way.
FairSpec == Spec /\ WF_vars(ClientStep)

\* The server's loop calls wh_Server_HandleRequestMessage again and again.
FairServer == WF_vars(ServerStep)

\* A timer that runs expires unless an answer comes first.
FairTimer == Timed /\ WF_vars(Timeout)

\* The types of the two buffers and of both endpoints.
TypeOK ==
  /\ CommTypeOK
  /\ call \in {"idle", "send", "notify", "recv", "clear"}
  /\ srv \in {"poll", "handle", "reply", "notify"}
  /\ req \in [notify: 0..(NotifyMod - 1), data: Packet]
  /\ resp \in [notify: 0..(NotifyMod - 1), data: Packet]
  /\ srvReq \in 0..(NotifyMod - 1)
  /\ restarts \in 0..MaxRestarts
  /\ clean \in BOOLEAN

(***************************************************************************)
(* Who owns the buffers, as long as no restart met a server at work.       *)
(***************************************************************************)
Answering == [seq |-> seq, req |-> calls]

\* A request is with the server, which owns both buffers.
Busy == call # "clear" /\ ~Answered

\* The two sides take turns: what each of them is doing follows from whether the
\* counters agree, and the buffers hold the request and the answer it is about.
Alternation ==
  /\ call = "clear" => srv = "poll" /\ req = [notify |-> 0, data |-> NoPacket]
  /\ srv # "poll" => Busy /\ work = req.data
  /\ call = "notify" => Answered /\ ~pending /\ req.data = Request
  /\ call = "recv" <=> pending
  /\ call \in {"send", "notify", "recv"} => calls > 0
  /\ call = "recv" => req.data = Answering
  /\ call = "recv" /\ Answered => resp.data = req.data
  /\ srv = "notify" => resp.data = work /\ srvReq = req.notify

\* The requests handled so far are older than the one the server works on, until
\* it has handled it, and than one that is still to be sent.
Succession ==
  /\ \A k \in DOMAIN done : done[k] <= calls
  /\ call \in {"send", "notify"} => \A k \in DOMAIN done : done[k] < calls
  /\ Busy => req.data.req <= calls
  /\ Busy /\ call = "send" => req.data.req < calls
  /\ Busy /\ srv \in {"poll", "handle"} => \A k \in DOMAIN done : done[k] < req.data.req
  /\ srv \in {"reply", "notify"} => \A k \in DOMAIN done : done[k] <= req.data.req
  /\ srv \in {"reply", "notify"} \/ (Answered /\ call = "recv") =>
       \E k \in DOMAIN done : done[k] = req.data.req

\* As long as the client restarts only when the server is idle, its sequence
\* number need not tell an old answer from a new one: the transport does.
CleanAnswersMatch == clean => AnswersMatch

\* ... and no request reaches the handlers twice, which a handler like the one
\* that increments a counter would not survive.
CleanHandledOnce == clean => HandledOnce

\* ... and neither side waits for ever for the other to give the buffers back,
\* whatever was abandoned before: every blocking call returns.
CallsReturn == FairServer => (call # "idle" ~> (call = "idle" \/ ~clean))

\* With a response timer no call polls for ever, though the server may have
\* stopped for good.
WaitsEnd == FairTimer => (call = "recv" ~> (call # "recv" \/ ~clean))
=============================================================================
