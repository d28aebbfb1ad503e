-------------------------------- MODULE Comm --------------------------------
(***************************************************************************)
(* The comm layer, src/wh_comm.c: a client endpoint with one outstanding   *)
(* request, a sequence number and a response timer (src/wh_timeout.c), and *)
(* a server endpoint with the loop of wh_Server_HandleRequestMessage.      *)
(*                                                                         *)
(* The operators here are the parts of each call that do not depend on the *)
(* transport.  CommMem and CommTcp add the transport, and make actions of  *)
(* them.  The client is the blocking API of src/wh_client.c: a call sends  *)
(* until the transport takes the request, and polls until an answer, an    *)
(* error or the timeout.  The polls that return NOTREADY change nothing.   *)
(*                                                                         *)
(* All requests are of one kind, so that only the sequence number tells    *)
(* them apart; the number of the call stands for the content.              *)
(***************************************************************************)
EXTENDS Integers, Sequences

CONSTANTS SeqMod,     \* sequence numbers are taken modulo this, 2^16
          MaxCalls,   \* bound: calls the client makes
          Timed       \* respTimeoutConfig is set

ASSUME CommAssumption ==
  /\ SeqMod \in Nat /\ SeqMod > 1
  /\ MaxCalls \in Nat
  /\ Timed \in BOOLEAN

VARIABLES
  seq,      \* whCommClient: the sequence number of the last request sent
  pending,  \* whCommClient: a request is outstanding
  timer,    \* whTimeout: the response timer runs
  call,     \* what the client's call is doing
  calls,    \* the number of the current call, or the last
  outcome,  \* what each call returned
  srv,      \* what wh_Server_HandleRequestMessage is doing
  work,     \* the packet in the server's buffer
  done      \* the requests the server has handled, in order

clientVars == <<seq, pending, timer, call, calls, outcome>>
serverVars == <<srv, work, done>>

\* A buffer of zeroes: it has no magic.  Requests are numbered from 1.
NoPacket == [seq |-> 0, req |-> 0]
Packet == [seq: 0..(SeqMod - 1), req: 0..MaxCalls]

\* What a call returned: a status and, with OK, the request that was answered.
Outcomes == [status: {"NONE", "OK", "TIMEOUT", "ABORTED", "PENDING"}, req: 0..MaxCalls]
Failed(status) == [status |-> status, req |-> 0]
Answer(p) == [status |-> "OK", req |-> p.req]

NextSeq == (seq + 1) % SeqMod

(***************************************************************************)
(* Client.                                                                 *)
(***************************************************************************)
ClientInit ==
  /\ seq = 0
  /\ pending = FALSE
  /\ timer = FALSE
  /\ call = "idle"
  /\ calls = 0
  /\ outcome = [n \in 1..MaxCalls |-> Failed("NONE")]

\* The application makes a blocking call.
BeginCall ==
  /\ call = "idle"
  /\ calls < MaxCalls
  /\ calls' = calls + 1
  /\ call' = "send"
  /\ UNCHANGED <<seq, pending, timer, outcome>>

\* The call returns to the application; a request it leaves pending stays so.
ReturnWith(result) ==
  /\ call' = "idle"
  /\ outcome' = [outcome EXCEPT ![calls] = result]
  /\ UNCHANGED <<seq, calls>>

Return(result) ==
  /\ pending' = FALSE
  /\ timer' = FALSE
  /\ ReturnWith(result)

\* wh_CommClient_SendRequest refuses to stack a request on another.
Refuse ==
  /\ call = "send"
  /\ pending
  /\ ReturnWith(Failed("PENDING"))
  /\ UNCHANGED <<pending, timer>>

\* It builds the packet before it asks the transport ...
MaySend == call = "send" /\ ~pending
Request == [seq |-> NextSeq, req |-> calls]

\* Mutant: the response timer is not started.
M_Sent ==
  /\ seq' = NextSeq
  /\ pending' = TRUE
  /\ timer' = FALSE
  /\ call' = "recv"
  /\ UNCHANGED <<calls, outcome>>

\* ... and counts it only once the transport has taken it.
Sent ==
  /\ seq' = NextSeq
  /\ pending' = TRUE
  /\ timer' = Timed
  /\ call' = "recv"
  /\ UNCHANGED <<calls, outcome>>

MayRecv == call = "recv" /\ pending

\* wh_CommClient_RecvResponse, when the transport delivers p.  Whatever p is,
\* the timer is stopped.  Zeroes have a bad magic, and leave the request pending;
\* a stale sequence number drops p, and the poll goes on without a timer.
Received(p) ==
  \/ /\ p # NoPacket
     /\ p.seq = seq
     /\ Return(Answer(p))
  \/ /\ p = NoPacket
     /\ timer' = FALSE
     /\ ReturnWith(Failed("ABORTED"))
     /\ UNCHANGED pending
  \/ /\ p # NoPacket
     /\ p.seq # seq
     /\ timer' = FALSE
     /\ UNCHANGED <<seq, pending, call, calls, outcome>>

\* The transport has nothing and the timer has expired.
Expired ==
  /\ MayRecv
  /\ timer
  /\ Return(Failed("TIMEOUT"))

\* wh_CommClient_AbortPending: the application gives up on the request, while it
\* polls for the answer or after a call that has left it pending.
AbortPending ==
  \/ /\ MayRecv
     /\ Return(Failed("ABORTED"))
  \/ /\ call = "idle"
     /\ pending
     /\ pending' = FALSE
     /\ timer' = FALSE
     /\ UNCHANGED <<seq, call, calls, outcome>>

(***************************************************************************)
(* Server.                                                                 *)
(***************************************************************************)
ServerInit ==
  /\ srv = "poll"
  /\ work = NoPacket
  /\ done = <<>>

\* wh_CommServer_RecvRequest hands over a packet.
RecvRequest(p) ==
  /\ srv = "poll"
  /\ srv' = "handle"
  /\ work' = p
  /\ UNCHANGED done

\* The handler of the group runs on the packet in place.
Handle ==
  /\ srv = "handle"
  /\ srv' = "reply"
  /\ done' = Append(done, work.req)
  /\ UNCHANGED work

\* wh_CommServer_SendResponse answers with the sequence number of the request;
\* it is sent whatever the handler returned.
Replied ==
  /\ srv' = "poll"
  /\ UNCHANGED <<work, done>>

(***************************************************************************)
(* Properties, of either transport.                                        *)
(***************************************************************************)
CommTypeOK ==
  /\ seq \in 0..(SeqMod - 1)
  /\ pending \in BOOLEAN
  /\ timer \in BOOLEAN
  /\ calls \in 0..MaxCalls
  /\ outcome \in [1..MaxCalls -> Outcomes]
  /\ work \in Packet
  /\ done \in Seq(0..MaxCalls)

\* The client processes the correct reply: what a call returns is the answer to
\* the request it sent, and the server has handled that request.
AnswersMatch ==
  \A n \in 1..MaxCalls : outcome[n].status = "OK" =>
    /\ outcome[n].req = n
    /\ \E k \in DOMAIN done : done[k] = n

\* The server handles no request twice, none that was not made, and none after
\* a later one, though calls are abandoned at any point.
HandledOnce ==
  \A j, k \in DOMAIN done : j < k => done[j] < done[k]
=============================================================================
