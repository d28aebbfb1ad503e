------------------------------ MODULE ClientProofs ------------------------------
(***************************************************************************)
(* Proofs about the client's requests: the DMA buffers and the bytes of    *)
(* its crypto requests (CryptoClient), and the comm layer under all of its *)
(* requests, over shared memory (CommMem) and over TCP (CommTcp).          *)
(***************************************************************************)
EXTENDS CryptoClient, SequenceTheorems, TLAPS

CONSTANTS SeqMod, MaxCalls, Timed,     \* those of the comm layer
          NotifyMod, MaxRestarts       \* ... and of the shared memory
VARIABLES
  seq, outstanding, timer, calling, calls, outcome, srv, work, done,
  req, resp, srvReq, restarts, clean,
  link, requestSent, cbuf, coff, listening, accepted, requestRecv, sbuf, soff,
  c2s, s2c

\* The comm layer's own pending and call are not those of CryptoClient.
Mem == INSTANCE CommMem WITH pending <- outstanding, call <- calling
Tcp == INSTANCE CommTcp WITH pending <- outstanding, call <- calling, state <- link

(***************************************************************************)
(* The DMA buffers of the client's crypto requests, for any number of hash *)
(* objects and buffers and any block and message size: every buffer mapped *)
(* is released once, and the server keeps away from a buffer that has been *)
(* released unless a request for random bytes was given up.                *)
(*                                                                         *)
(* MappingsReturned is inductive by itself: that the stash is empty when   *)
(* nothing is outstanding is what lets a request overwrite it, and the     *)
(* fail-fast check keeps a refused one away from the stash of another.     *)
(* A buffer that the client's allow list refuses is never in the stash.    *)
(* The second result needs to know of the request that the server has not  *)
(* answered yet that it is the one outstanding.                            *)
(***************************************************************************)

\* A request for random bytes that the server has not seen is the one
\* outstanding, unless it was given up.
RngOutstanding ==
  IsRequest /\ net.op = "rng" /\ ~strayed =>
    pending # None /\ pending.kind = "rng" /\ pending.buf = net.buf

IInv == MappingsReturned /\ RngOutstanding

\* A request is not to be taken for none.
LEMMA PendingReal ==
  ASSUME NEW k \in {"update", "dma", "final", "rng"}, NEW o \in Obj \union {None}, NEW b \in Buf
  PROVE  [kind |-> k, of |-> o, buf |-> b] # None
BY CryptoAssumption

\* After a response nothing is outstanding, stashed or mapped.
LEMMA ReceiveReleases ==
  ASSUME MappingsReturned, pending # None, Receive
  PROVE  MappingsReturned'
<1>1. CASE pending.kind \in {"dma", "rng"}
  BY <1>1 DEF Receive, MappingsReturned
<1>2. CASE pending.kind \notin {"dma", "rng"}
  BY <1>2 DEF Receive, MappingsReturned
<1> QED BY <1>1, <1>2

\* A response leaves a request for random bytes behind only when that one is
\* given up.
LEMMA ReceiveLeaves ==
  ASSUME Receive, IsRequest /\ net.op = "rng" => strayed'
  PROVE  RngOutstanding'
<1>1. CASE IsAnswer
  BY <1>1 DEF Receive, Left, RngOutstanding, IsRequest
<1>2. CASE ~IsAnswer /\ net.op = "rng"
  BY <1>2 DEF Receive, Left, GivenUp, RngOutstanding, IsRequest
<1>3. CASE ~IsAnswer /\ net.op # "rng"
  BY <1>3 DEF Receive, Left, GivenUp, Message, RngOutstanding, IsRequest
<1> QED BY <1>1, <1>2, <1>3

\* Both parts after a response to a hash request.
LEMMA HashResponse ==
  ASSUME IInv, pending # None, pending.kind # "rng", Receive, strayed' = strayed
  PROVE  IInv'
<1>1. MappingsReturned'
  BY ReceiveReleases DEF IInv
<1>2. RngOutstanding'
  BY ReceiveLeaves DEF IInv, RngOutstanding
<1> QED BY <1>1, <1>2 DEF IInv

\* Nothing of the transport, the stash or the mappings changes.
LEMMA Quiet ==
  ASSUME IInv, UNCHANGED <<pending, net, stash, mapped, strayed>>
  PROVE  IInv'
BY DEF IInv, MappingsReturned, RngOutstanding, IsRequest

\* An inline update or the end of a hash is sent when nothing is outstanding.
LEMMA Sent ==
  ASSUME NEW m, m.op = "sha", NEW k, k \notin {"dma", "rng"}, NEW o,
         IInv, pending = None, net' = m,
         pending' = [kind |-> k, of |-> o, buf |-> None],
         UNCHANGED <<stash, mapped, strayed>>
  PROVE  IInv'
<1>1. stash = None /\ mapped \intersect Listed = {}
  BY DEF IInv, MappingsReturned
<1>2. MappingsReturned'
  BY <1>1 DEF MappingsReturned
<1>3. RngOutstanding'
  BY DEF RngOutstanding, IsRequest
<1> QED BY <1>2, <1>3 DEF IInv

\* A buffer that the allow list refuses is none of those accounted for.
LEMMA Stranded ==
  ASSUME IInv, NEW b, Strand(b), UNCHANGED <<pending, net, stash, strayed>>
  PROVE  IInv'
<1>1. mapped' \intersect Listed = mapped \intersect Listed
  BY DEF Strand
<1>2. MappingsReturned'
  BY <1>1 DEF IInv, MappingsReturned
<1>3. RngOutstanding'
  BY DEF IInv, RngOutstanding, IsRequest
<1> QED BY <1>2, <1>3 DEF IInv

\* The three ways an inline update may go.
LEMMA InlineUpdate ==
  ASSUME IInv, NEW o \in Obj, NEW p, Absorb(o, p) \/ Send(o, p) \/ Refuse(o, p),
         strayed' = strayed
  PROVE  IInv'
<1>1. CASE Absorb(o, p) \/ Refuse(o, p)
  BY <1>1, Quiet DEF Absorb, Refuse
<1>2. CASE Send(o, p)
  <2>1. Message(sha[o], p, None, FALSE).op = "sha"
    BY DEF Message
  <2> QED BY <1>2, <2>1, Sent DEF Send, CanSend
<1> QED BY <1>1, <1>2

\* And an update by DMA.
LEMMA DmaUpdate ==
  ASSUME IInv, NEW o \in Obj, NEW b \in Buf, NEW p,
         AbsorbDma(o, p) \/ SendDma(o, p, b) \/ RefuseDma(o, p, b), strayed' = strayed
  PROVE  IInv'
<1>1. CASE AbsorbDma(o, p)
  BY <1>1, Quiet DEF AbsorbDma, Absorb
<1>2. CASE SendDma(o, p, b)
  <2>1. pending = None /\ stash = None /\ mapped \intersect Listed = {} /\ b # None
    BY <1>2, CryptoAssumption DEF SendDma, CanSend, IInv, MappingsReturned
  <2>2. pending' = [kind |-> "dma", of |-> o, buf |-> b] /\ pending' # None
    BY <1>2, PendingReal DEF SendDma
  <2>3. MappingsReturned'
    <3>1. CASE p.size > 0
      <4>1. b \in Listed /\ mapped' = mapped \union {b} /\ stash' = b
        BY <1>2, <3>1 DEF SendDma
      <4> QED BY <2>1, <2>2, <4>1 DEF MappingsReturned
    <3>2. CASE ~(p.size > 0)
      BY <1>2, <2>1, <3>2 DEF SendDma, MappingsReturned
    <3> QED BY <3>1, <3>2
  <2>4. RngOutstanding'
    BY <1>2 DEF SendDma, Message, RngOutstanding, IsRequest
  <2> QED BY <2>3, <2>4 DEF IInv
<1>3. CASE RefuseDma(o, p, b)
  <2>1. UNCHANGED <<pending, net, stash, strayed>>
    BY <1>3 DEF RefuseDma, IInv, MappingsReturned
  <2>2. UNCHANGED mapped \/ Strand(b)
    BY <1>3 DEF RefuseDma
  <2> QED BY <2>1, <2>2, Quiet, Stranded
<1> QED BY <1>1, <1>2, <1>3

\* The end of a hash is sent.
LEMMA FinalSent ==
  ASSUME IInv, NEW o \in Obj, SendFinal(o), strayed' = strayed
  PROVE  IInv'
<1>1. FinalMessage(o).op = "sha"
  BY DEF FinalMessage, Message
<1> QED BY <1>1, Sent DEF SendFinal, CanSend

\* The server handles a request.
LEMMA Handled ==
  ASSUME IInv, NEW a, a.is = "answer", Answer(a),
         UNCHANGED <<pending, stash, mapped, strayed>>
  PROVE  IInv'
<1>1. MappingsReturned'
  BY DEF IInv, MappingsReturned
<1>2. RngOutstanding'
  BY DEF Answer, RngOutstanding, IsRequest
<1> QED BY <1>1, <1>2 DEF IInv

\* Every step keeps the invariant.
LEMMA Inductive ==
  ASSUME IInv, [Next]_vars, call # None => call.of \in Obj /\ call.buf \in Buf \union {None}
  PROVE  IInv'
<1>1. CASE \E o \in Obj : UpdateRequest(o)
  BY <1>1, InlineUpdate DEF UpdateRequest
<1>2. CASE \E o \in Obj : UpdateResponse(o)
  BY <1>2, HashResponse DEF UpdateResponse, Answered, Failed
<1>3. CASE \E o \in Obj : FinalRequest(o)
  BY <1>3, FinalSent DEF FinalRequest
<1>4. CASE \E o \in Obj : FinalResponse(o)
  BY <1>4, HashResponse DEF FinalResponse, Answered, Failed, Digested
<1>5. CASE \E o \in Obj : Restart(o)
  BY <1>5, Quiet DEF Restart
<1>6. CASE \E o \in Obj : Sha256(o)
  BY <1>6, Quiet DEF Sha256, Call, state
<1>7. CASE \E o \in Obj, b \in Buf : Fill(o, b)
  BY <1>7, Quiet DEF Fill, state
<1>8. CASE \E o \in Obj, b \in Buf : DmaUpdateRequest(o, b)
  BY <1>8, DmaUpdate DEF DmaUpdateRequest
<1>9. CASE \E o \in Obj, b \in Buf : Sha256Dma(o, b)
  BY <1>9, Quiet DEF Sha256Dma, Call, state
<1>10. CASE \E b \in Buf : RngDmaRequest(b)
  <2>1. PICK b \in Buf : RngDmaRequest(b)
    BY <1>10
  <2>2. CASE Strand(b) /\ UNCHANGED <<pending, net, stash>>
    BY <2>1, <2>2, Stranded DEF RngDmaRequest
  <2>3. CASE ~(Strand(b) /\ UNCHANGED <<pending, net, stash>>)
    <3>1. stash = None /\ mapped \intersect Listed = {} /\ b # None
      BY <2>1, CryptoAssumption DEF RngDmaRequest, IInv, MappingsReturned
    <3>2. /\ pending' = [kind |-> "rng", of |-> None, buf |-> b] /\ pending' # None
          /\ stash' = b /\ b \in Listed /\ mapped' = mapped \union {b}
      BY <2>1, <2>3, PendingReal DEF RngDmaRequest
    <3>3. MappingsReturned'
      BY <3>1, <3>2 DEF MappingsReturned
    <3>4. RngOutstanding'
      BY <2>1, <2>3, <3>2 DEF RngDmaRequest, RngOutstanding
    <3> QED BY <3>3, <3>4 DEF IInv
  <2> QED BY <2>2, <2>3
<1>11. CASE RngDmaResponse
  <2>1. MappingsReturned'
    BY <1>11, ReceiveReleases DEF RngDmaResponse, Answered, Failed, IInv
  <2>2. IsRequest /\ net.op = "rng" => strayed'
    BY <1>11 DEF RngDmaResponse, Answered, IsAnswer, IsRequest
  <2>3. RngOutstanding'
    BY <1>11, <2>2, ReceiveLeaves DEF RngDmaResponse
  <2> QED BY <2>1, <2>3 DEF IInv
<1>12. CASE CallUpdate
  <2>1. CASE call.buf = None
    BY <1>12, <2>1, InlineUpdate, Quiet DEF CallUpdate
  <2>2. CASE call.buf # None
    <3>1. \/ \E p : Absorb(call.of, p) \/ SendDma(call.of, p, call.buf)
          \/ UNCHANGED <<pending, net, stash>> /\ (UNCHANGED mapped \/ Strand(call.buf))
      BY <1>12, <2>2 DEF CallUpdate
    <3>2. UNCHANGED strayed
      BY <1>12 DEF CallUpdate
    <3>3. call.of \in Obj /\ call.buf \in Buf
      BY <1>12, <2>2 DEF CallUpdate
    <3>4. CASE \E p : Absorb(call.of, p) \/ SendDma(call.of, p, call.buf)
      <4>1. PICK p : Absorb(call.of, p) \/ SendDma(call.of, p, call.buf)
        BY <3>4
      <4>2. CASE Absorb(call.of, p)
        BY <3>2, <3>3, <4>2, InlineUpdate
      <4>3. CASE SendDma(call.of, p, call.buf)
        BY <3>2, <3>3, <4>3, DmaUpdate
      <4> QED BY <4>1, <4>2, <4>3
    <3>5. CASE UNCHANGED <<pending, net, stash>> /\ (UNCHANGED mapped \/ Strand(call.buf))
      BY <3>2, <3>3, <3>5, Quiet, Stranded
    <3> QED BY <3>1, <3>4, <3>5
  <2> QED BY <2>1, <2>2
<1>13. CASE CallUpdateResponse
  BY <1>13, HashResponse DEF CallUpdateResponse, Answered, Failed
<1>14. CASE CallFinal
  BY <1>14, FinalSent, Quiet DEF CallFinal
<1>15. CASE CallFinalResponse
  BY <1>15, HashResponse DEF CallFinalResponse, Answered, Failed, Digested
<1>16. CASE CallReturn
  BY <1>16, Quiet DEF CallReturn, state
<1>17. CASE HandleSha256
  BY <1>17, Handled DEF HandleSha256
<1>18. CASE HandleRngDma
  BY <1>18, Handled DEF HandleRngDma
<1>19. CASE HandleFails
  BY <1>19, Handled DEF HandleFails, Fault
<1>20. CASE UNCHANGED vars
  BY <1>20, Quiet DEF vars
<1> QED
  BY <1>1, <1>2, <1>3, <1>4, <1>5, <1>6, <1>7, <1>8, <1>9, <1>10, <1>11, <1>12,
     <1>13, <1>14, <1>15, <1>16, <1>17, <1>18, <1>19, <1>20 DEF Next

\* A blocking call is about an object and, by DMA, a buffer.
CallTyped == call # None => call.of \in Obj /\ call.buf \in Buf \union {None}

\* A blocking call keeps its object and buffer to the end.
LEMMA CallStaysTyped ==
  ASSUME CallTyped, [Next]_vars
  PROVE  CallTyped'
<1>1. CASE \E o \in Obj : Sha256(o)
  BY <1>1 DEF Sha256, Call, CallTyped
<1>2. CASE \E o \in Obj, b \in Buf : Sha256Dma(o, b)
  BY <1>2 DEF Sha256Dma, Call, CallTyped
<1>3. CASE CallUpdate
  <2>1. CASE call' = None
    BY <2>1 DEF CallTyped
  <2>2. CASE \E r : call' = [call EXCEPT !.rest = r]
    BY <1>3, <2>2 DEF CallUpdate, CallTyped
  <2> QED BY <1>3, <2>1, <2>2 DEF CallUpdate, Abort
<1>4. CASE call' = call \/ call' = None
  BY <1>4 DEF CallTyped
<1> QED
  BY <1>1, <1>2, <1>3, <1>4
  DEF Next, vars, UpdateRequest, UpdateResponse, FinalRequest, FinalResponse, Restart,
      Fill, DmaUpdateRequest, RngDmaRequest, RngDmaResponse, CallUpdateResponse,
      CallFinal, CallFinalResponse, CallReturn, HandleSha256, HandleRngDma,
      HandleFails, Abort

\* The inductive invariant holds in every reachable state.
THEOREM Invariant == Spec => [](IInv /\ CallTyped)
<1>1. Init => IInv /\ CallTyped
  BY DEF Init, IInv, MappingsReturned, RngOutstanding, IsRequest, CallTyped
<1>2. IInv /\ CallTyped /\ [Next]_vars => IInv' /\ CallTyped'
  BY Inductive, CallStaysTyped DEF CallTyped
<1> QED BY <1>1, <1>2, PTL DEF Spec

\* Every buffer that a PRE callback has mapped is the one in the stash of
\* the outstanding request: nothing is lost or released twice, whichever
\* call fails and whenever the timer expires.
THEOREM BuffersReturned == Spec => []MappingsReturned
<1>1. IInv /\ CallTyped => MappingsReturned
  BY DEF IInv
<1> QED BY <1>1, Invariant, PTL

\* mem is a function on the buffers.
MemTyped == mem = [b \in Buf |-> mem[b]]

\* What the client may do to mem: it makes no noise.
Tidy == \/ mem' = mem
        \/ \E b, x : mem' = [mem EXCEPT ![b] = x] /\ ~x.noise
        \/ mem' = [b \in Buf |-> mem'[b]] /\ \A b \in Buf : mem'[b] = mem[b] \/ mem'[b] = Free

\* A tidy step keeps the shape of mem and adds no noise.
LEMMA TidyStep ==
  ASSUME MemTyped, Tidy
  PROVE  MemTyped' /\ \A b \in Buf : mem'[b].noise => mem[b].noise
<1>1. CASE mem' = mem
  BY <1>1 DEF MemTyped
<1>2. CASE \E b, x : mem' = [mem EXCEPT ![b] = x] /\ ~x.noise
  BY <1>2 DEF MemTyped
<1>3. CASE mem' = [b \in Buf |-> mem'[b]] /\ \A b \in Buf : mem'[b] = mem[b] \/ mem'[b] = Free
  BY <1>3 DEF MemTyped, Free
<1> QED BY <1>1, <1>2, <1>3 DEF Tidy

\* The server writes to the buffer of the request and to no other.
LEMMA ServerWrites ==
  ASSUME MemTyped, NEW x, mem' = [mem EXCEPT ![x].noise = TRUE]
  PROVE  MemTyped' /\ \A b \in Buf : mem'[b] # mem[b] => b = x
BY DEF MemTyped

\* Giving a buffer back is tidy.
LEMMA DoneTidy ==
  ASSUME NEW b, Done(b)
  PROVE  Tidy
<1>1. ~Free.noise
  BY DEF Free
<1> QED BY <1>1 DEF Done, Tidy

\* The client's steps are tidy.
LEMMA ClientTidy ==
  ASSUME [Next]_vars, ~HandleRngDma, ~HandleFails
  PROVE  Tidy
<1>1. CASE \E o \in Obj, b \in Buf : Fill(o, b)
  <2>1. PICK o \in Obj, b \in Buf : Fill(o, b)
    BY <1>1
  <2>2. PICK n \in 1 .. MaxLen - Len(want[o]) :
          mem' = [mem EXCEPT ![b] = [data |-> Input(o, n), noise |-> FALSE]]
    BY <2>1 DEF Fill
  <2>3. ~[data |-> Input(o, n), noise |-> FALSE].noise
    OBVIOUS
  <2> QED BY <2>2, <2>3 DEF Tidy
<1>2. CASE \E o \in Obj : Restart(o)
  <2>1. PICK o \in Obj : Restart(o)
    BY <1>2
  <2> QED BY <2>1 DEF Restart, Tidy
<1>3. CASE \E b : Done(b)
  BY <1>3, DoneTidy
<1>4. CASE mem' = mem
  BY <1>4 DEF Tidy
<1> QED
  BY <1>1, <1>2, <1>3, <1>4
  DEF Next, vars, UpdateRequest, UpdateResponse, FinalRequest, FinalResponse, Sha256,
      Sha256Dma, Call, DmaUpdateRequest, RngDmaRequest, RngDmaResponse, CallUpdate,
      CallUpdateResponse, CallFinal, CallFinalResponse, CallReturn, HandleSha256, Abort

\* A step of the server on a request for random bytes.
LEMMA ServerQuiet ==
  ASSUME RngOutstanding, MemTyped, IsRequest, net.op = "rng",
         mem' = [mem EXCEPT ![net.buf].noise = TRUE]
  PROVE  /\ MemTyped'
         /\ \A b \in Buf : ~mem[b].noise /\ mem'[b].noise =>
              strayed \/ (pending # None /\ pending.buf = b)
<1>1. MemTyped' /\ \A b \in Buf : mem'[b] # mem[b] => b = net.buf
  BY ServerWrites
<1> QED BY <1>1 DEF RngOutstanding

\* Every step keeps the shape of mem and is quiet.
LEMMA QuietStep ==
  ASSUME RngOutstanding, MemTyped, [Next]_vars
  PROVE  /\ MemTyped'
         /\ \A b \in Buf : ~mem[b].noise /\ mem'[b].noise =>
              strayed \/ (pending # None /\ pending.buf = b)
<1>1. CASE HandleRngDma
  BY <1>1, ServerQuiet DEF HandleRngDma
<1>2. CASE HandleFails
  <2>1. CASE mem' = mem
    BY <2>1 DEF MemTyped
  <2>2. CASE net.op = "rng" /\ mem' = [mem EXCEPT ![net.buf].noise = TRUE]
    BY <1>2, <2>2, ServerQuiet DEF HandleFails
  <2> QED BY <1>2, <2>1, <2>2 DEF HandleFails
<1>3. CASE ~HandleRngDma /\ ~HandleFails
  BY <1>3, ClientTidy, TidyStep
<1> QED BY <1>1, <1>2, <1>3

\* The server writes to a client's buffer only while the request for it is
\* outstanding, unless a request for random bytes has been given up.
THEOREM BuffersQuiet == Spec => BuffersStayQuiet
<1>1. Init => MemTyped
  BY DEF Init, MemTyped
<1>2. IInv /\ MemTyped /\ [Next]_vars =>
        /\ MemTyped'
        /\ [\A b \in Buf : ~mem[b].noise /\ mem'[b].noise =>
              strayed \/ (pending # None /\ pending.buf = b)]_vars
  BY QuietStep DEF IInv
<1> QED BY <1>1, <1>2, Invariant, PTL DEF Spec, BuffersStayQuiet

(***************************************************************************)
(* The bytes of a hash, for any number of objects and buffers, any input   *)
(* and any block and message size.  First what a request is packed with    *)
(* (Packs), then the types (Kept): an update is told from a refused one    *)
(* only by what the transport holds, so that the objects, the buffers, the *)
(* call, the request and the transport have to be typed together.  Last    *)
(* the count of the bytes (Counted), which rests on both.                  *)
(***************************************************************************)

\* A part of a sequence of bytes is one, and how long it is.
LEMMA PartTyped ==
  ASSUME NEW s \in Bytes, NEW m \in Nat, NEW n \in Nat, m + n <= Len(s)
  PROVE  /\ SubSeq(s, m + 1, m + n) \in Bytes
         /\ Len(SubSeq(s, m + 1, m + n)) = n
         /\ \A i \in 1 .. n : SubSeq(s, m + 1, m + n)[i] = s[m + i]
<1>1. \A i \in m + 1 .. m + n : s[i] \in Byte
  BY ElementOfSeq, LenProperties DEF Bytes
<1>2. Len(s) \in Nat
  BY LenProperties DEF Bytes
<1> QED BY <1>1, <1>2, SubSeqProperties DEF Bytes

LEMMA PrefixTyped ==
  ASSUME NEW s \in Bytes, NEW n \in Nat, n <= Len(s)
  PROVE  /\ SubSeq(s, 1, n) \in Bytes
         /\ Len(SubSeq(s, 1, n)) = n
         /\ \A i \in 1 .. n : SubSeq(s, 1, n)[i] = s[i]
<1>1. 0 + n <= Len(s) /\ 0 + 1 = 1 /\ 0 + n = n /\ 0 \in Nat
  OBVIOUS
<1>2. /\ SubSeq(s, 0 + 1, 0 + n) \in Bytes
      /\ Len(SubSeq(s, 0 + 1, 0 + n)) = n
      /\ \A i \in 1 .. n : SubSeq(s, 0 + 1, 0 + n)[i] = s[0 + i]
  BY <1>1, PartTyped
<1> QED BY <1>1, <1>2

LEMMA SuffixTyped ==
  ASSUME NEW s \in Bytes, NEW n \in Nat, n <= Len(s)
  PROVE  /\ Suffix(s, n) \in Bytes
         /\ Len(Suffix(s, n)) = Len(s) - n
         /\ \A i \in 1 .. Len(s) - n : Suffix(s, n)[i] = s[n + i]
<1>1. Len(s) \in Nat
  BY LenProperties DEF Bytes
<1>2. \A i \in n + 1 .. Len(s) : s[i] \in Byte
  BY <1>1, ElementOfSeq DEF Bytes
<1>3. /\ SubSeq(s, n + 1, Len(s)) \in Seq(Byte)
      /\ Len(SubSeq(s, n + 1, Len(s))) = IF n + 1 <= Len(s) THEN Len(s) - (n + 1) + 1 ELSE 0
      /\ \A i \in 1 .. Len(s) - (n + 1) + 1 : SubSeq(s, n + 1, Len(s))[i] = s[(n + 1) + i - 1]
  BY <1>1, <1>2, SubSeqProperties
<1> QED BY <1>1, <1>3 DEF Suffix, Bytes

LEMMA ConcatTyped ==
  ASSUME NEW s \in Bytes, NEW t \in Bytes
  PROVE  /\ s \o t \in Bytes
         /\ Len(s \o t) = Len(s) + Len(t)
         /\ Len(s) \in Nat /\ Len(t) \in Nat
         /\ \A i \in 1 .. Len(s) + Len(t) :
              (s \o t)[i] = IF i <= Len(s) THEN s[i] ELSE t[i - Len(s)]
BY ConcatProperties, LenProperties DEF Bytes

\* Two sequences that agree with the two parts of a third.
LEMMA Joined ==
  ASSUME NEW s \in Bytes, NEW a \in Bytes, NEW b \in Bytes, Len(s) = Len(a) + Len(b),
         \A i \in 1 .. Len(a) : a[i] = s[i],
         \A i \in 1 .. Len(b) : b[i] = s[Len(a) + i]
  PROVE  a \o b = s
<1>1. a \o b \in Bytes /\ Len(a \o b) = Len(s) /\ Len(a) \in Nat /\ Len(b) \in Nat
  BY ConcatTyped
<1>2. ASSUME NEW i \in 1 .. Len(s)
      PROVE  (a \o b)[i] = s[i]
  <2>1. (a \o b)[i] = IF i <= Len(a) THEN a[i] ELSE b[i - Len(a)]
    BY <1>1, ConcatTyped
  <2>2. CASE i <= Len(a)
    BY <1>1, <2>1, <2>2
  <2>3. CASE ~(i <= Len(a))
    <3>1. i - Len(a) \in 1 .. Len(b) /\ Len(a) + (i - Len(a)) = i
      BY <1>1, <2>3
    <3> QED BY <2>1, <2>3, <3>1
  <2> QED BY <2>2, <2>3
<1> QED BY <1>1, <1>2, SeqEqual DEF Bytes

\* Cut in two, a sequence is put together again.
LEMMA Halves ==
  ASSUME NEW s \in Bytes, NEW n \in Nat, n <= Len(s)
  PROVE  SubSeq(s, 1, n) \o Suffix(s, n) = s
<1>1. Len(s) \in Nat
  BY LenProperties DEF Bytes
<1>2. /\ SubSeq(s, 1, n) \in Bytes /\ Len(SubSeq(s, 1, n)) = n
      /\ \A i \in 1 .. n : SubSeq(s, 1, n)[i] = s[i]
  BY PrefixTyped
<1>3. /\ Suffix(s, n) \in Bytes /\ Len(Suffix(s, n)) = Len(s) - n
      /\ \A i \in 1 .. Len(s) - n : Suffix(s, n)[i] = s[n + i]
  BY SuffixTyped
<1>4. Len(s) = Len(SubSeq(s, 1, n)) + Len(Suffix(s, n))
  BY <1>1, <1>2, <1>3
<1>5. \A i \in 1 .. Len(SubSeq(s, 1, n)) : SubSeq(s, 1, n)[i] = s[i]
  BY <1>2
<1>6. \A i \in 1 .. Len(Suffix(s, n)) : Suffix(s, n)[i] = s[Len(SubSeq(s, 1, n)) + i]
  BY <1>2, <1>3
<1> QED BY <1>2, <1>3, <1>4, <1>5, <1>6, Joined

\* The whole blocks of a length.
LEMMA WholeBlocks ==
  ASSUME NEW a \in Nat
  PROVE  /\ (a \div Block) \in Nat
         /\ (a \div Block) * Block \in Nat
         /\ (a \div Block) * Block <= a
         /\ a - (a \div Block) * Block < Block
BY CryptoAssumption

LEMMA InlineBlocks ==
  /\ (Inline \div Block) \in Nat
  /\ (Inline \div Block) * Block = Inline
  /\ Block <= Inline
BY CryptoAssumption

LEMMA BlocksMonotone ==
  ASSUME NEW m \in Nat, NEW n \in Nat, m <= n
  PROVE  m * Block <= n * Block
BY CryptoAssumption

LEMMA BlocksDivide ==
  ASSUME NEW m \in Nat
  PROVE  m * Block \in Nat /\ (m * Block) % Block = 0
BY CryptoAssumption

\* What of the input a request has the server read itself.
Part(in, p) == IF p.size = 0 THEN <<>> ELSE SubSeq(in, p.from + 1, p.from + p.size)

\* A well packed request: whole blocks, as many as fit, that together with
\* what stays are the buffered bytes and the input.
Packs(p, f, in) ==
  /\ p.data \in Bytes /\ p.tail \in Bytes /\ p.size \in Nat
  /\ ~NoBlock(p) => p.from \in Nat /\ p.from + p.size <= Len(in)
  /\ Len(p.tail) < Block
  /\ (Len(p.data) % Block) = 0 /\ (p.size % Block) = 0 /\ Len(p.data) <= Inline
  /\ f \o in = (p.data \o Part(in, p)) \o p.tail

LEMMA PackPacks ==
  ASSUME NEW s \in Hashing, Len(s.buff) < Block, NEW in \in Bytes, Len(in) <= Capacity(s)
  PROVE  Packs(Pack(s, in), s.buff, in)
<1> DEFINE all == s.buff \o in
           k == Min2(Len(all) \div Block, Inline \div Block)
           n == k * Block
<1>1. s.buff \in Bytes /\ Len(s.buff) \in Nat /\ Len(in) \in Nat
  BY LenProperties DEF Hashing, Bytes
<1>2. all \in Bytes /\ Len(all) = Len(s.buff) + Len(in) /\ Len(all) \in Nat
  BY <1>1, ConcatTyped
<1>3. Len(all) < Inline + Block
  BY <1>1, <1>2, CryptoAssumption DEF Capacity
<1> HIDE DEF all
<1>4. /\ (Len(all) \div Block) \in Nat
      /\ (Len(all) \div Block) * Block \in Nat
      /\ (Len(all) \div Block) * Block <= Len(all)
      /\ Len(all) - (Len(all) \div Block) * Block < Block
  BY <1>2, WholeBlocks
<1>5. (Inline \div Block) \in Nat /\ (Inline \div Block) * Block = Inline
  BY InlineBlocks
<1>6. k \in Nat /\ k <= Inline \div Block /\ k <= Len(all) \div Block
      /\ (k = Inline \div Block \/ k = Len(all) \div Block)
  BY <1>4, <1>5 DEF Min2
<1> HIDE DEF k
<1>7. n \in Nat /\ (n % Block) = 0
  BY <1>6, BlocksDivide
<1>8. n <= Inline /\ n <= Len(all)
  <2>1. n <= (Inline \div Block) * Block /\ n <= (Len(all) \div Block) * Block
    BY <1>4, <1>5, <1>6, BlocksMonotone
  <2> HIDE DEF n
  <2>2. n <= Inline
    BY <1>5, <2>1
  <2> DEFINE m == (Len(all) \div Block) * Block
  <2>3. m \in Nat /\ m <= Len(all) /\ n <= m
    BY <1>4, <2>1
  <2> HIDE DEF m
  <2>4. n <= Len(all)
    BY <1>2, <1>7, <2>3
  <2> QED BY <2>2, <2>4
<1>9. Len(all) - n < Block
  <2>1. CASE k = Inline \div Block
    BY <1>2, <1>3, <1>5, <2>1, CryptoAssumption
  <2>2. CASE k = Len(all) \div Block
    BY <1>4, <2>2
  <2> QED BY <1>6, <2>1, <2>2
<1> HIDE DEF n
<1> DEFINE p == [data |-> SubSeq(all, 1, n), from |-> 0, size |-> 0, tail |-> Suffix(all, n)]
<1>10. Pack(s, in) = p
  BY DEF Pack, p, n, k, all
<1>11. SubSeq(all, 1, n) \in Bytes /\ Len(SubSeq(all, 1, n)) = n
  BY <1>2, <1>7, <1>8, PrefixTyped
<1>12. Suffix(all, n) \in Bytes /\ Len(Suffix(all, n)) = Len(all) - n
  BY <1>2, <1>7, <1>8, SuffixTyped
<1>13. SubSeq(all, 1, n) \o Suffix(all, n) = all
  BY <1>2, <1>7, <1>8, Halves
<1>14. SubSeq(all, 1, n) \o <<>> = SubSeq(all, 1, n)
  BY <1>11, ConcatEmptySeq DEF Bytes
<1>15. Part(in, p) = <<>>
  BY DEF Part, p
<1>16. all = (p.data \o Part(in, p)) \o p.tail
  BY <1>13, <1>14, <1>15
<1>17. (0 % Block) = 0
  BY CryptoAssumption
<1>18. Packs(p, s.buff, in)
  <2> SUFFICES /\ p.data \in Bytes /\ p.tail \in Bytes /\ p.size \in Nat
               /\ p.from \in Nat /\ p.from + p.size <= Len(in)
               /\ Len(p.tail) < Block
               /\ (Len(p.data) % Block) = 0 /\ (p.size % Block) = 0 /\ Len(p.data) <= Inline
    BY <1>16 DEF Packs, all
  <2> QED BY <1>1, <1>7, <1>8, <1>9, <1>11, <1>12, <1>17
<1> QED BY <1>10, <1>18

\* The same by DMA, where only a block that was begun before is copied.
LEMMA PackDmaPacks ==
  ASSUME NEW s \in Hashing, Len(s.buff) < Block, NEW in \in Bytes
  PROVE  Packs(PackDma(s, in), s.buff, in)
<1> DEFINE all == s.buff \o in
           n == IF s.buff # <<>> /\ Len(all) >= Block THEN Block ELSE 0
           size == (Len(Suffix(all, n)) \div Block) * Block
           from == Len(in) - Len(Suffix(all, n))
           d == SubSeq(all, 1, n)
           t == Suffix(all, n + size)
           p == [data |-> d, from |-> from, size |-> size, tail |-> t]
<1>1. s.buff \in Bytes /\ Len(s.buff) \in Nat /\ Len(in) \in Nat /\ Block \in Nat \ {0}
  BY LenProperties, CryptoAssumption DEF Hashing, Bytes
<1>2. all \in Bytes /\ Len(all) = Len(s.buff) + Len(in) /\ Len(all) \in Nat
  BY <1>1, ConcatTyped
<1>3. PackDma(s, in) = p
  BY DEF PackDma
<1>4. ASSUME NEW i \in 1 .. Len(in)
      PROVE  all[Len(s.buff) + i] = in[i]
  <2>1. Len(s.buff) + i \in 1 .. Len(s.buff) + Len(in)
    BY <1>1
  <2>2. all[Len(s.buff) + i] =
          IF Len(s.buff) + i <= Len(s.buff) THEN s.buff[Len(s.buff) + i]
          ELSE in[(Len(s.buff) + i) - Len(s.buff)]
    BY <1>1, <2>1, ConcatTyped
  <2>3. ~(Len(s.buff) + i <= Len(s.buff)) /\ (Len(s.buff) + i) - Len(s.buff) = i
    BY <1>1
  <2> QED BY <2>2, <2>3
<1> HIDE DEF all
<1>5. /\ n \in Nat /\ n <= Len(all) /\ n <= Inline /\ (n % Block) = 0
      /\ s.buff # <<>> /\ n = 0 => Len(all) < Block
      /\ Len(s.buff) <= n \/ n = 0
  <2>1. (0 % Block) = 0 /\ (Block % Block) = 0 /\ Block <= Inline /\ Inline \in Nat
    BY <1>1, InlineBlocks, CryptoAssumption
  <2>2. CASE s.buff # <<>> /\ Len(all) >= Block
    BY <1>1, <1>2, <2>1, <2>2
  <2>3. CASE ~(s.buff # <<>> /\ Len(all) >= Block)
    BY <1>1, <1>2, <2>1, <2>3
  <2> QED BY <2>2, <2>3
<1> HIDE DEF n
<1>6. /\ Suffix(all, n) \in Bytes /\ Len(Suffix(all, n)) = Len(all) - n
      /\ Len(all) - n \in Nat
  <2>1. Len(all) - n \in Nat
    BY <1>2, <1>5
  <2>2. Suffix(all, n) \in Bytes /\ Len(Suffix(all, n)) = Len(all) - n
    BY <1>2, <1>5, SuffixTyped
  <2> QED BY <2>1, <2>2
<1>7. /\ size \in Nat /\ (size % Block) = 0
      /\ size <= Len(all) - n /\ (Len(all) - n) - size < Block
  <2>1. ((Len(all) - n) \div Block) \in Nat
    BY <1>6, WholeBlocks
  <2> QED BY <1>6, <2>1, WholeBlocks, BlocksDivide
<1>8. from = n - Len(s.buff)
  BY <1>1, <1>2, <1>5, <1>6
<1> HIDE DEF size, from
<1>9. /\ d \in Bytes /\ Len(d) = n /\ \A i \in 1 .. n : d[i] = all[i]
  BY <1>2, <1>5, PrefixTyped
<1>10. n + size \in Nat /\ n + size <= Len(all)
  BY <1>2, <1>5, <1>7
<1>11. t \in Bytes /\ Len(t) = Len(all) - (n + size)
  BY <1>2, <1>10, SuffixTyped
<1>12. Len(t) < Block
  BY <1>1, <1>2, <1>5, <1>7, <1>11
<1>13. ~NoBlock(p) => from \in Nat /\ from + size <= Len(in)
  <2>1. CASE Len(s.buff) <= n
    BY <1>1, <1>2, <1>5, <1>7, <1>8, <2>1
  <2>2. CASE n = 0 /\ s.buff = <<>>
    <3>1. Len(s.buff) = 0
      BY <2>2, EmptySeq
    <3> QED BY <1>1, <1>2, <1>5, <1>7, <1>8, <2>2, <3>1
  <2>3. CASE n = 0 /\ s.buff # <<>>
    <3>1. size = 0
      <4>1. Len(all) < Block /\ size <= Len(all)
        BY <1>2, <1>5, <1>7, <2>3
      <4> QED BY <1>1, <1>2, <1>7, <4>1
    <3>2. d = <<>>
      BY <1>9, <2>3, EmptySeq DEF Bytes
    <3> QED BY <3>1, <3>2 DEF NoBlock
  <2> QED BY <1>5, <2>1, <2>2, <2>3
<1>14. all = (d \o Part(in, p)) \o t
  <2>1. d \o Suffix(all, n) = all
    BY <1>2, <1>5, Halves
  <2>2. CASE size = 0
    <3>1. Part(in, p) = <<>> /\ t = Suffix(all, n)
      BY <1>5, <2>2 DEF Part
    <3>2. d \o <<>> = d
      BY <1>9, ConcatEmptySeq DEF Bytes
    <3> QED BY <2>1, <3>1, <3>2
  <2>3. CASE size # 0
    <3>1. ~NoBlock(p)
      BY <2>3 DEF NoBlock
    <3>2. from \in Nat /\ from + size <= Len(in)
      BY <1>13, <3>1
    <3> DEFINE q == SubSeq(in, from + 1, from + size)
    <3>3. /\ q \in Bytes /\ Len(q) = size
          /\ \A i \in 1 .. size : q[i] = in[from + i]
      BY <1>7, <3>2, PartTyped
    <3>4. Part(in, p) = q
      BY <2>3 DEF Part
    <3> HIDE DEF q, d, t, p
    <3>5. d \o q \in Bytes /\ Len(d \o q) = n + size
      BY <1>9, <3>3, ConcatTyped
    <3>6. ASSUME NEW i \in 1 .. n + size
          PROVE  (d \o q)[i] = all[i]
      <4>1. (d \o q)[i] = IF i <= n THEN d[i] ELSE q[i - n]
        BY <1>9, <3>3, ConcatTyped
      <4>2. CASE i <= n
        BY <1>5, <1>9, <4>1, <4>2
      <4>3. CASE ~(i <= n)
        <5>1. i - n \in 1 .. size
          BY <1>5, <1>7, <4>3
        <5>2. from + (i - n) \in 1 .. Len(in)
          BY <1>1, <1>7, <3>2, <5>1
        <5>3. q[i - n] = in[from + (i - n)]
          BY <3>3, <5>1
        <5>4. in[from + (i - n)] = all[Len(s.buff) + (from + (i - n))]
          BY <1>4, <5>2
        <5>5. Len(s.buff) + (from + (i - n)) = i
          BY <1>1, <1>5, <1>8
        <5> QED BY <4>1, <4>3, <5>3, <5>4, <5>5
      <4> QED BY <4>2, <4>3
    <3> DEFINE m == n + size
    <3>7. \A i \in 1 .. Len(t) : t[i] = all[(n + size) + i]
      <4>1. m \in Nat /\ m <= Len(all) /\ t = Suffix(all, m) /\ Len(t) = Len(all) - m
        BY <1>10, <1>11 DEF t
      <4> HIDE DEF m
      <4>2. \A i \in 1 .. Len(t) : t[i] = all[m + i]
        <5>1. Len(Suffix(all, m)) = Len(all) - m
          BY <4>1
        <5>2. \A i \in 1 .. Len(all) - m : Suffix(all, m)[i] = all[m + i]
          BY <1>2, <4>1, SuffixTyped
        <5> QED BY <4>1, <5>1, <5>2
      <4> QED BY <4>2 DEF m
    <3>8. (d \o q) \o t = all
      <4>1. Len(all) = Len(d \o q) + Len(t)
        BY <1>2, <1>10, <1>11, <3>5
      <4>2. \A i \in 1 .. Len(d \o q) : (d \o q)[i] = all[i]
        BY <3>5, <3>6
      <4>3. \A i \in 1 .. Len(t) : t[i] = all[Len(d \o q) + i]
        BY <3>5, <3>7
      <4> QED BY <1>2, <1>11, <3>5, <4>1, <4>2, <4>3, Joined
    <3> QED BY <3>4, <3>8
  <2> QED BY <2>2, <2>3
<1>15. Packs(p, s.buff, in)
  <2> HIDE DEF d, t
  <2> SUFFICES /\ p.data \in Bytes /\ p.tail \in Bytes /\ p.size \in Nat
               /\ ~NoBlock(p) => p.from \in Nat /\ p.from + p.size <= Len(in)
               /\ Len(p.tail) < Block
               /\ (Len(p.data) % Block) = 0 /\ (p.size % Block) = 0 /\ Len(p.data) <= Inline
    BY <1>14 DEF Packs, all
  <2> QED BY <1>5, <1>7, <1>9, <1>11, <1>12, <1>13
<1> QED BY <1>3, <1>15

\* The objects: typed, with less than a block in the partial block.
ObjectsTyped ==
  /\ sha \in [Obj -> Hashing] /\ \A o \in Obj : Len(sha[o].buff) < Block
  /\ want \in [Obj -> Bytes]
  /\ broken \subseteq Obj

\* A buffer holds bytes of objects, never random ones: these are only read there.
MemHolds == \A b \in Buf : mem[b].data \in Seq(Obj \X Nat)

CallRecord == [of : Obj, buf : Buf \union {None}, rest : Bytes, final : BOOLEAN,
               saved : Hashing, had : Bytes]

\* A blocking call has the input it has not taken yet in its buffer, and
\* what is outstanding is its own.
CallKept ==
  call # None =>
    /\ call \in CallRecord /\ call.of \notin broken /\ Len(call.saved.buff) < Block
    /\ call.buf # None /\ call.rest # <<>> => mem[call.buf].data = call.rest
    /\ pending # None => /\ pending.kind # "rng" /\ pending.of = call.of
                         /\ pending.kind = "final" => call.rest = <<>>

\* What is outstanding, and whose bytes are in the buffer it uses.
PendingKept ==
  pending # None =>
    /\ pending.kind \in {"update", "dma", "final", "rng"}
    /\ pending.kind # "rng" => pending.of \in Obj \ broken
    /\ pending.kind \in {"update", "final"} => pending.buf = None
    /\ pending.kind \in {"dma", "rng"} => pending.buf \in Buf
    /\ pending.kind = "rng" => pending.of = None /\ mem[pending.buf].data = <<>>
    /\ pending.kind = "dma" /\ call = None =>
         \A i \in DOMAIN mem[pending.buf].data : mem[pending.buf].data[i][1] = pending.of

ShaRequest == [is : {"request"}, op : {"sha"}, hash : Bytes, len : Nat, data : Bytes,
               buf : Buf \union {None}, from : Nat, size : Nat, final : BOOLEAN]
RngRequest == [is : {"request"}, op : {"rng"}, buf : Buf]

\* A hash request that the server accepts, and that fits the message.
Fits(m) == m \in ShaRequest /\ Acceptable(m) /\ Len(m.data) <= Inline

\* The transport holds the request that is outstanding, or one that was
\* given up, or the answer.
NetKept ==
  /\ IsRequest => net \in RngRequest \/ Fits(net)
  /\ pending # None =>
       /\ IsRequest \/ IsAnswer
       /\ IsRequest /\ pending.kind = "rng" => net.op = "rng"
       /\ IsRequest /\ pending.kind # "rng" =>
            /\ net.op = "sha"
            /\ net.size > 0 => /\ pending.kind = "dma" /\ net.buf = pending.buf
                               /\ net.from + net.size <= Len(mem[net.buf].data)
       /\ IsAnswer /\ net.ok /\ pending.kind # "rng" => net.hash \in Bytes /\ net.len \in Nat

Kept == ObjectsTyped /\ MemTyped /\ MemHolds /\ CallKept /\ PendingKept /\ NetKept


\* The records of a request, an answer and a call are not to be taken for none.
LEMMA RecordsReal ==
  /\ \A m \in ShaRequest : m # None
  /\ \A m \in RngRequest : m # None
  /\ \A m \in CallRecord : m # None
  /\ \A k \in BOOLEAN : [is |-> "answer", ok |-> k] # None
  /\ \A h \in Bytes, l \in Nat : [is |-> "answer", ok |-> TRUE, hash |-> h, len |-> l] # None
<1>1. \A h \in Bytes, l \in Nat :
        [is |-> "answer", ok |-> TRUE, hash |-> h, len |-> l]
          \in [is : {"answer"}, ok : BOOLEAN, hash : Bytes, len : Nat]
  OBVIOUS
<1>2. \A k \in BOOLEAN : [is |-> "answer", ok |-> k] \in [is : {"answer"}, ok : BOOLEAN]
  OBVIOUS
<1>3. /\ None \notin ShaRequest /\ None \notin RngRequest /\ None \notin CallRecord
      /\ None \notin [is : {"answer"}, ok : BOOLEAN]
      /\ None \notin [is : {"answer"}, ok : BOOLEAN, hash : Bytes, len : Nat]
  BY CryptoAssumption, Zenon DEF ShaRequest, RngRequest, CallRecord
<1>4. /\ \A m \in ShaRequest : m # None
      /\ \A m \in RngRequest : m # None
      /\ \A m \in CallRecord : m # None
  BY <1>3, Zenon
<1>5. \A k \in BOOLEAN : [is |-> "answer", ok |-> k] # None
  BY <1>2, <1>3, Zenon
<1>6. \A h \in Bytes, l \in Nat :
        [is |-> "answer", ok |-> TRUE, hash |-> h, len |-> l] # None
  BY <1>1, <1>3, Zenon
<1> QED BY <1>4, <1>5, <1>6

LEMMA EmptyTyped == /\ <<>> \in Bytes /\ Len(<<>>) = 0
                    /\ Fresh \in Hashing /\ Fresh.buff = <<>> /\ Len(Fresh.buff) < Block
                    /\ \A s \in Bytes : Len(s) \in Nat /\ (s # <<>> => Len(s) > 0)
BY EmptySeq, LenProperties, CryptoAssumption DEF Bytes, Fresh, Hashing

\* What an object becomes keeps the objects typed.
LEMMA ObjectChange ==
  ASSUME ObjectsTyped, NEW o \in Obj, NEW s \in Hashing, Len(s.buff) < Block,
         sha' = [sha EXCEPT ![o] = s], want' \in [Obj -> Bytes], broken' \subseteq Obj
  PROVE  ObjectsTyped'
<1>1. sha' \in [Obj -> Hashing]
  BY DEF ObjectsTyped
<1>2. \A x \in Obj : sha'[x] = IF x = o THEN s ELSE sha[x]
  BY DEF ObjectsTyped
<1>3. \A x \in Obj : Len(sha'[x].buff) < Block
  BY <1>2 DEF ObjectsTyped
<1> QED BY <1>1, <1>3 DEF ObjectsTyped

LEMMA BuffChange ==
  ASSUME ObjectsTyped, NEW o \in Obj, NEW t \in Bytes, Len(t) < Block,
         sha' = [sha EXCEPT ![o].buff = t], want' \in [Obj -> Bytes], broken' \subseteq Obj
  PROVE  ObjectsTyped'
<1> DEFINE s == [sha[o] EXCEPT !.buff = t]
<1>1. sha[o] \in Hashing
  BY DEF ObjectsTyped
<1>2. s \in Hashing /\ s.buff = t
  BY <1>1 DEF Hashing
<1>3. sha' = [sha EXCEPT ![o] = s]
  OBVIOUS
<1> HIDE DEF s
<1> QED BY <1>2, <1>3, ObjectChange

LEMMA ObjectsSame ==
  ASSUME ObjectsTyped, sha' = sha, want' \in [Obj -> Bytes], broken' \subseteq Obj
  PROVE  ObjectsTyped'
BY DEF ObjectsTyped

\* Input is typed, and so is what the server reads of a buffer.
LEMMA InputTyped ==
  ASSUME ObjectsTyped, NEW o \in Obj, NEW n \in Nat
  PROVE  /\ Input(o, n) \in Seq(Obj \X Nat) /\ Input(o, n) \in Bytes /\ Len(Input(o, n)) = n
         /\ \A i \in DOMAIN Input(o, n) : Input(o, n)[i][1] = o
<1> DEFINE s == Input(o, n)
<1>1. want[o] \in Bytes /\ Len(want[o]) \in Nat
  BY EmptyTyped DEF ObjectsTyped
<1>2. s \in [1 .. n -> Obj \X Nat] /\ \A i \in 1 .. n : s[i][1] = o
  BY <1>1 DEF Input
<1>3. s \in Seq(Obj \X Nat)
  BY <1>2, SeqDef
<1>4. Len(s) = n /\ DOMAIN s = 1 .. n
  BY <1>2, <1>3, LenProperties
<1>5. s \in Bytes
  BY <1>3, SeqMonotonic DEF Bytes, Byte
<1> QED BY <1>2, <1>3, <1>4, <1>5

LEMMA ContentTyped ==
  ASSUME MemHolds, NEW b \in Buf
  PROVE  /\ mem[b].data \in Bytes /\ Content(b) \in Bytes
         /\ Len(Content(b)) = Len(mem[b].data)
<1>1. mem[b].data \in Seq(Obj \X Nat)
  BY DEF MemHolds
<1>2. mem[b].data \in Bytes
  BY <1>1, SeqMonotonic DEF Bytes, Byte
<1>3. Len(mem[b].data) \in Nat /\ DOMAIN mem[b].data = 1 .. Len(mem[b].data)
  BY <1>2, LenProperties DEF Bytes
<1> DEFINE n == Len(mem[b].data)
           s == [i \in DOMAIN mem[b].data |-> Noise]
<1>4. s \in [1 .. n -> Byte]
  BY <1>3 DEF Byte
<1>5. s \in Bytes
  BY <1>3, <1>4, SeqDef DEF Bytes
<1>6. Len(s) = n
  BY <1>3, <1>4, <1>5, LenProperties DEF Bytes
<1> HIDE DEF s
<1>7. Content(b) = s \/ Content(b) = mem[b].data
  BY DEF Content, s
<1> QED BY <1>2, <1>5, <1>6, <1>7

\* The messages fit.
LEMMA UpdateFits ==
  ASSUME NEW s \in Hashing, NEW p, NEW f, NEW in, Packs(p, f, in), ~NoBlock(p),
         NEW b \in Buf \union {None}
  PROVE  Fits(Message(s, p, b, FALSE))
<1> DEFINE m == Message(s, p, b, FALSE)
<1>1. m \in ShaRequest
  BY DEF Packs, Message, ShaRequest, Hashing
<1>2. m.data = p.data /\ m.size = p.size /\ ~m.final
  BY DEF Message
<1> HIDE DEF m
<1>3. (Len(m.data) % Block) = 0 /\ (m.size % Block) = 0 /\ Len(m.data) <= Inline
  BY <1>2 DEF Packs
<1>4. Fits(m)
  BY <1>1, <1>2, <1>3, Zenon DEF Fits, Acceptable
<1> QED BY <1>4 DEF m

LEMMA FinalFits ==
  ASSUME ObjectsTyped, NEW o \in Obj
  PROVE  Fits(FinalMessage(o)) /\ FinalMessage(o).size = 0 /\ FinalMessage(o).op = "sha"
<1> DEFINE m == FinalMessage(o)
<1>1. sha[o] \in Hashing /\ Len(sha[o].buff) < Block
  BY DEF ObjectsTyped
<1>2. m \in ShaRequest
  BY <1>1 DEF FinalMessage, Message, ShaRequest, Hashing
<1>3. m.data = sha[o].buff /\ m.size = 0 /\ m.final /\ m.op = "sha"
  BY DEF FinalMessage, Message
<1>4. Len(sha[o].buff) <= Inline
  <2>1. Len(sha[o].buff) \in Nat
    BY <1>1, EmptyTyped DEF Hashing
  <2> QED BY <1>1, <2>1, InlineBlocks, CryptoAssumption
<1> HIDE DEF m
<1>5. Fits(m)
  BY <1>1, <1>2, <1>3, <1>4, Zenon DEF Fits, Acceptable
<1> QED BY <1>3, <1>5 DEF m

LEMMA GivenUpFits ==
  ASSUME NetKept, IsRequest
  PROVE  GivenUp \in RngRequest \/ Fits(GivenUp)
<1>1. CASE net.op = "rng"
  <2>1. ~Fits(net)
    BY <1>1 DEF Fits, ShaRequest
  <2> QED BY <1>1, <2>1 DEF NetKept, GivenUp
<1>2. CASE net.op # "rng"
  <2> DEFINE p == Pack(Fresh, <<>>)
             m == Message(Fresh, p, None, FALSE)
  <2>1. Capacity(Fresh) \in Nat
    BY EmptyTyped, InlineBlocks, CryptoAssumption DEF Capacity
  <2>2. Packs(p, Fresh.buff, <<>>) 
    BY <2>1, EmptyTyped, PackPacks
  <2>3. p.from = 0 /\ p.size = 0
    BY DEF Pack
  <2> HIDE DEF p
  <2>4. m \in ShaRequest
    BY <2>2, <2>3, EmptyTyped DEF Packs, Message, ShaRequest, Hashing
  <2>5. m.data = p.data /\ m.size = p.size /\ ~m.final
    BY DEF Message
  <2>6. GivenUp = m
    BY <1>2 DEF GivenUp, p
  <2> HIDE DEF m
  <2>7. (Len(m.data) % Block) = 0 /\ (m.size % Block) = 0 /\ Len(m.data) <= Inline
    BY <2>2, <2>5 DEF Packs
  <2> QED BY <2>4, <2>5, <2>6, <2>7, Zenon DEF Fits, Acceptable
<1> QED BY <1>1, <1>2

\* While the request and what it uses stay as they are, so do its facts.
LEMMA RequestSame ==
  ASSUME PendingKept, NetKept, UNCHANGED <<pending, net>>,
         pending # None =>
           /\ pending.kind # "rng" => pending.of \in Obj \ broken'
           /\ pending.kind \in {"dma", "rng"} => mem'[pending.buf].data = mem[pending.buf].data
           /\ pending.kind = "dma" /\ call' = None => call = None
  PROVE  PendingKept' /\ NetKept'
<1>1. PendingKept'
  BY DEF PendingKept
<1>2. NetKept'
  BY DEF NetKept, PendingKept, IsRequest, IsAnswer
<1> QED BY <1>1, <1>2

\* Nothing is outstanding after a response.
LEMMA RequestOver ==
  ASSUME NetKept, pending # None, Receive
  PROVE  PendingKept' /\ NetKept' /\ pending' = None
<1>1. pending' = None /\ net' = Left
  BY DEF Receive
<1>2. CASE IsAnswer
  BY <1>1, <1>2 DEF Left, PendingKept, NetKept, IsRequest
<1>3. CASE ~IsAnswer
  <2>1. IsRequest
    BY <1>3 DEF NetKept
  <2>2. net' \in RngRequest \/ Fits(net')
    BY <1>1, <1>3, <2>1, GivenUpFits DEF Left
  <2>3. Fits(net)' <=> Fits(net')
    BY DEF Fits, Acceptable
  <2> QED BY <1>1, <2>2, <2>3 DEF PendingKept, NetKept
<1> QED BY <1>2, <1>3

\* A hash request goes out.
LEMMA RequestSent ==
  ASSUME NEW k \in {"update", "dma", "final"}, NEW o \in Obj \ broken', NEW b \in Buf \union {None},
         NEW m, Fits(m), m.size > 0 => k = "dma" /\ m.buf = b /\ m.from + m.size <= Len(mem'[b].data),
         k \in {"update", "final"} <=> b = None,
         k = "dma" /\ call' = None =>
           \A i \in DOMAIN mem'[b].data : mem'[b].data[i][1] = o,
         pending' = [kind |-> k, of |-> o, buf |-> b], net' = m
  PROVE  PendingKept' /\ NetKept'
<1>1. pending'.kind = k /\ pending'.of = o /\ pending'.buf = b
  OBVIOUS
<1>2. PendingKept'
  BY <1>1 DEF PendingKept
<1>3. m \in ShaRequest /\ m # None
  BY RecordsReal DEF Fits
<1>4. m.is = "request" /\ m.op = "sha"
  BY <1>3 DEF ShaRequest
<1>5. Fits(net)' <=> Fits(net')
  BY DEF Fits, Acceptable
<1>6. IsRequest'
  BY <1>3, <1>4 DEF IsRequest
<1>7. ~IsAnswer'
  BY <1>4 DEF IsAnswer
<1>8. NetKept'
  BY <1>1, <1>4, <1>5, <1>6, <1>7 DEF NetKept
<1> QED BY <1>2, <1>8

\* The server has answered.
LEMMA RequestAnswered ==
  ASSUME PendingKept, NetKept, IsRequest, NEW a,
         pending # None => a # None /\ a.is = "answer",
         pending # None /\ a.ok /\ net.op = "sha" => a.hash \in Bytes /\ a.len \in Nat,
         Answer(a), UNCHANGED <<pending, call, broken>>,
         \A b \in Buf : mem'[b].data = mem[b].data
  PROVE  PendingKept' /\ NetKept'
<1>1. PendingKept'
  BY DEF PendingKept
<1>2. CASE pending = None
  <2>1. net' = None /\ pending' = None
    BY <1>2 DEF Answer
  <2>2. ~IsRequest'
    BY <2>1 DEF IsRequest
  <2> QED BY <1>1, <2>1, <2>2, Zenon DEF NetKept
<1>3. CASE pending # None
  <2>1. net' = a /\ IsAnswer' /\ ~IsRequest'
    BY <1>3 DEF Answer, IsAnswer, IsRequest
  <2>2. pending.kind # "rng" => net.op = "sha"
    BY <1>3 DEF NetKept
  <2>3. pending' = pending
    OBVIOUS
  <2>4. net'.ok /\ pending.kind # "rng" => net'.hash \in Bytes /\ net'.len \in Nat
    BY <1>3, <2>1, <2>2, Zenon
  <2> QED BY <1>1, <2>1, <2>3, <2>4, Zenon DEF NetKept
<1> QED BY <1>1, <1>2, <1>3

\* Calls: none, or one whose buffer and request stay as they are.
LEMMA CallSame ==
  ASSUME CallKept, UNCHANGED <<call, broken>>,
         call # None =>
           /\ UNCHANGED pending
              \/ pending' = None
              \/ /\ pending'.kind # "rng" /\ pending'.of = call.of
                 /\ pending'.kind = "final" => call.rest = <<>>
           /\ call.buf # None => mem'[call.buf].data = mem[call.buf].data
  PROVE  CallKept'
BY DEF CallKept

\* The fields of an object that a step does not set stay.
LEMMA BuffSame ==
  ASSUME NEW s \in Hashing
  PROVE  [s EXCEPT !.buff = s.buff] = s
BY DEF Hashing

LEMMA DigestSet ==
  ASSUME NEW s \in Hashing, NEW h \in Bytes, NEW l \in Nat
  PROVE  [s EXCEPT !.hash = h, !.len = l] = [hash |-> h, len |-> l, buff |-> s.buff]
<1>1. PICK t : t = [s EXCEPT !.hash = h]
  OBVIOUS
<1>2. t \in Hashing /\ t.hash = h /\ t.buff = s.buff
  BY <1>1 DEF Hashing
<1>3. [t EXCEPT !.len = l] = [hash |-> h, len |-> l, buff |-> s.buff]
  BY <1>2 DEF Hashing
<1>4. [s EXCEPT !.hash = h, !.len = l] = [t EXCEPT !.len = l]
  BY <1>1
<1> QED BY <1>3, <1>4

\* Whatever is done to the buffers, they hold bytes of objects.
LEMMA MemStays ==
  ASSUME MemTyped, MemHolds, mem' = mem
  PROVE  MemTyped' /\ MemHolds'
BY DEF MemTyped, MemHolds

LEMMA MemFilled ==
  ASSUME MemTyped, MemHolds, NEW b, NEW x, x.data \in Seq(Obj \X Nat), mem' = [mem EXCEPT ![b] = x]
  PROVE  MemTyped' /\ MemHolds'
<1>1. mem' = [y \in Buf |-> IF y = b THEN x ELSE mem[y]]
  BY DEF MemTyped
<1> QED BY <1>1 DEF MemTyped, MemHolds

LEMMA MemFreed ==
  ASSUME MemTyped, MemHolds, NEW b, Done(b)
  PROVE  MemTyped' /\ MemHolds'
<1>1. Free.data \in Seq(Obj \X Nat)
  BY EmptySeq DEF Free
<1> QED BY <1>1, MemStays, MemFilled DEF Done

LEMMA MemWritten ==
  ASSUME MemTyped, MemHolds, NEW b, mem' = [mem EXCEPT ![b].noise = TRUE]
  PROVE  MemTyped' /\ MemHolds' /\ \A x \in Buf : mem'[x].data = mem[x].data
<1>1. mem' = [y \in Buf |-> IF y = b THEN [mem[y] EXCEPT !.noise = TRUE] ELSE mem[y]]
  BY DEF MemTyped
<1>2. \A y \in Buf : [mem[y] EXCEPT !.noise = TRUE].data = mem[y].data
  OBVIOUS
<1>3. \A x \in Buf : mem'[x].data = mem[x].data
  BY <1>1, <1>2
<1>4. MemTyped'
  BY <1>1 DEF MemTyped
<1> QED BY <1>3, <1>4 DEF MemHolds

\* An update takes its input: absorbed, or sent with or without an address.
LEMMA Taken ==
  ASSUME ObjectsTyped, MemHolds, PendingKept, NetKept, NEW o \in Obj \ broken,
         NEW b \in Buf \union {None}, NEW in \in Bytes, NEW p, Packs(p, sha[o].buff, in),
         b = None => p.size = 0, b # None => in = Content(b),
         Absorb(o, p) \/ (b = None /\ Send(o, p)) \/ (b # None /\ SendDma(o, p, b)),
         mem' = mem \/ (Absorb(o, p) /\ pending = None), broken' = broken,
         want' \in [Obj -> Bytes], call' = None => call = None,
         b # None /\ call' = None => \A i \in DOMAIN mem[b].data : mem[b].data[i][1] = o
  PROVE  /\ ObjectsTyped' /\ PendingKept' /\ NetKept'
         /\ \/ pending' = pending
            \/ pending'.kind \in {"update", "dma"} /\ pending'.of = o
<1>1. p.tail \in Bytes /\ Len(p.tail) < Block /\ sha[o] \in Hashing
  BY DEF Packs, ObjectsTyped
<1>2. ObjectsTyped'
  <2>1. sha' = [sha EXCEPT ![o].buff = p.tail]
    BY DEF Absorb, Send, SendDma
  <2>2. broken' \subseteq Obj
    BY DEF ObjectsTyped
  <2> QED BY <1>1, <2>1, <2>2, BuffChange
<1>3. CASE Absorb(o, p)
  <2>1. UNCHANGED <<pending, net>>
    BY <1>3 DEF Absorb
  <2>2. pending # None => mem' = mem /\ (pending.kind # "rng" => pending.of \in Obj \ broken')
    BY DEF PendingKept
  <2>3. PendingKept' /\ NetKept'
    BY <2>1, <2>2, RequestSame
  <2> QED BY <1>2, <2>1, <2>3
<1>4. CASE ~Absorb(o, p)
  <2> DEFINE k == IF b = None THEN "update" ELSE "dma"
             m == Message(sha[o], p, b, FALSE)
  <2>1. /\ pending' = [kind |-> k, of |-> o, buf |-> b] /\ net' = m
        /\ mem' = mem /\ ~NoBlock(p)
    BY <1>4 DEF Send, SendDma
  <2>2. Fits(m)
    BY <1>1, <2>1, UpdateFits
  <2>3. m.size = p.size /\ m.buf = b /\ m.from = p.from
    BY DEF Message
  <2>4. b # None => p.from + p.size <= Len(mem'[b].data)
    <3>1. p.from + p.size <= Len(in)
      BY <2>1 DEF Packs
    <3> QED BY <2>1, <3>1, ContentTyped
  <2> HIDE DEF m
  <2>5. m.size > 0 => k = "dma" /\ m.buf = b /\ m.from + m.size <= Len(mem'[b].data)
    BY <1>1, <2>3, <2>4 DEF Packs
  <2>6. k \in {"update", "final"} <=> b = None
    OBVIOUS
  <2>7. k = "dma" /\ call' = None => \A i \in DOMAIN mem'[b].data : mem'[b].data[i][1] = o
    BY <2>1
  <2>8. k \in {"update", "dma"} /\ k \in {"update", "dma", "final"} /\ o \in Obj \ broken'
    OBVIOUS
  <2> HIDE DEF k
  <2>9. PendingKept' /\ NetKept'
    BY <2>1, <2>2, <2>5, <2>6, <2>7, <2>8, RequestSent
  <2> QED BY <1>2, <2>1, <2>8, <2>9
<1> QED BY <1>3, <1>4

\* It does not, and is undone.
LEMMA NotTaken ==
  ASSUME ObjectsTyped, PendingKept, NetKept, NEW o \in Obj,
         sha' = sha \/ sha' = [sha EXCEPT ![o].buff = @],
         UNCHANGED <<pending, net, mem, call, broken>>, want' = want
  PROVE  ObjectsTyped' /\ PendingKept' /\ NetKept'
<1>1. sha' = sha
  <2>1. sha[o] \in Hashing /\ sha \in [Obj -> Hashing]
    BY DEF ObjectsTyped
  <2>2. [sha[o] EXCEPT !.buff = sha[o].buff] = sha[o]
    BY <2>1, BuffSame
  <2>3. [sha EXCEPT ![o] = sha[o]] = sha
    BY <2>1
  <2> QED BY <2>2, <2>3
<1>2. ObjectsTyped'
  BY <1>1, ObjectsSame DEF ObjectsTyped
<1>3. pending # None /\ pending.kind # "rng" => pending.of \in Obj \ broken'
  BY DEF PendingKept
<1> QED BY <1>2, <1>3, RequestSame

\* An object with the digest that came back.
LEMMA ResumedTyped ==
  ASSUME ObjectsTyped, NetKept, NEW o \in Obj, Answered({"update", "dma"}, o)
  PROVE  /\ Resumed(o) \in Hashing /\ Len(Resumed(o).buff) < Block
         /\ Resumed(o).hash = net.hash /\ Resumed(o).len = net.len
         /\ Resumed(o).buff = sha[o].buff
<1>1. net.hash \in Bytes /\ net.len \in Nat
  BY DEF NetKept, Answered
<1>2. sha[o] \in Hashing /\ Len(sha[o].buff) < Block
  BY DEF ObjectsTyped
<1>3. Resumed(o) = [hash |-> net.hash, len |-> net.len, buff |-> sha[o].buff]
  BY <1>1, <1>2, DigestSet DEF Resumed
<1> QED BY <1>1, <1>2, <1>3 DEF Hashing

\* The updates that do not wait.
LEMMA UpdateRequestKept ==
  ASSUME Kept, NEW o \in Obj, UpdateRequest(o)
  PROVE  Kept'
<1> USE DEF Kept
<1>1. /\ call = None /\ o \notin broken
      /\ UNCHANGED <<mem, call, broken>>
  BY DEF UpdateRequest, Open
<1>2. PICK n \in 1 .. MaxLen - Len(want[o]) :
        LET p == Pack(sha[o], Input(o, n)) IN
        /\ n <= Capacity(sha[o])
        /\ \/ /\ Absorb(o, p) \/ Send(o, p)
              /\ want' = [want EXCEPT ![o] = @ \o Input(o, n)]
           \/ Refuse(o, p) /\ UNCHANGED want
  BY DEF UpdateRequest
<1> DEFINE in == Input(o, n)
           p == Pack(sha[o], in)
<1>3. n \in Nat
  <2>1. MaxLen - Len(want[o]) \in Int
    BY EmptyTyped, CryptoAssumption DEF ObjectsTyped
  <2> QED BY <2>1
<1>4. in \in Bytes /\ Len(in) = n
  BY <1>3, InputTyped
<1>5. Packs(p, sha[o].buff, in) /\ p.size = 0
  <2>1. sha[o] \in Hashing /\ Len(sha[o].buff) < Block
    BY DEF ObjectsTyped
  <2>2. p.size = 0
    BY DEF Pack
  <2> QED BY <1>2, <1>4, <2>1, <2>2, PackPacks
<1>6. ObjectsTyped' /\ PendingKept' /\ NetKept'
  <2>1. CASE (Absorb(o, p) \/ Send(o, p)) /\ want' = [want EXCEPT ![o] = @ \o in]
    <3>1. want[o] \o in \in Bytes
      BY <1>4, ConcatTyped DEF ObjectsTyped
    <3>2. want' \in [Obj -> Bytes]
      BY <2>1, <3>1 DEF ObjectsTyped
    <3> HIDE DEF in, p
    <3>3. None \in Buf \union {None} /\ o \in Obj \ broken
      BY <1>1
    <3> HIDE DEF Kept
    <3>4. ObjectsTyped /\ MemHolds /\ PendingKept /\ NetKept
      BY DEF Kept
    <3> QED BY <1>1, <1>4, <1>5, <2>1, <3>2, <3>3, <3>4, Taken
  <2>2. CASE Refuse(o, p) /\ UNCHANGED want
    BY <1>1, <2>2, NotTaken DEF Refuse, Undone
  <2> QED BY <1>2, <2>1, <2>2
<1>7. CallKept' /\ MemTyped' /\ MemHolds'
  BY <1>1, MemStays DEF CallKept
<1> QED BY <1>6, <1>7

\* One more or less of the broken objects, and a new or reset history.
LEMMA WantChange ==
  ASSUME ObjectsTyped, NEW o \in Obj, NEW w \in Bytes, want' = [want EXCEPT ![o] = w]
  PROVE  want' \in [Obj -> Bytes]
BY DEF ObjectsTyped

LEMMA UpdateResponseKept ==
  ASSUME Kept, NEW o \in Obj, UpdateResponse(o)
  PROVE  Kept'
<1> USE DEF Kept
<1>1. /\ call = None /\ call' = None /\ want' = want /\ Receive /\ Done(pending.buf)
      /\ pending # None
  BY DEF UpdateResponse, Answered, Failed
<1>2. PendingKept' /\ NetKept'
  BY <1>1, RequestOver
<1>3. MemTyped' /\ MemHolds'
  BY <1>1, MemFreed
<1>4. CallKept'
  BY <1>1 DEF CallKept
<1>5. ObjectsTyped'
  <2>1. CASE Answered({"update", "dma"}, o) /\ sha' = [sha EXCEPT ![o] = Resumed(o)] /\ broken' = broken
    <3>1. Resumed(o) \in Hashing /\ Len(Resumed(o).buff) < Block
      BY <2>1, ResumedTyped
    <3>2. want' \in [Obj -> Bytes] /\ broken' \subseteq Obj
      BY <1>1, <2>1 DEF ObjectsTyped
    <3> QED BY <2>1, <3>1, <3>2, ObjectChange
  <2>2. CASE broken' = broken \union {o} /\ sha' = sha
    BY <1>1, <2>2, ObjectsSame DEF ObjectsTyped
  <2> QED BY <2>1, <2>2 DEF UpdateResponse
<1> QED BY <1>2, <1>3, <1>4, <1>5

\* The end of a hash goes out.
LEMMA FinalTaken ==
  ASSUME ObjectsTyped, NEW o \in Obj \ broken, SendFinal(o), broken' = broken
  PROVE  /\ PendingKept' /\ NetKept' /\ sha' = sha
         /\ pending' # None /\ pending'.kind = "final" /\ pending'.of = o
<1> DEFINE m == FinalMessage(o)
<1>1. Fits(m) /\ m.size = 0
  BY FinalFits
<1>2. /\ pending' = [kind |-> "final", of |-> o, buf |-> None] /\ net' = m /\ sha' = sha
  BY DEF SendFinal
<1> HIDE DEF m
<1>3. /\ "final" \in {"update", "dma", "final"} /\ o \in Obj \ broken' /\ None \in Buf \union {None}
      /\ ~(m.size > 0)
  BY <1>1
<1>4. PendingKept' /\ NetKept'
  BY <1>1, <1>2, <1>3, RequestSent
<1>5. pending' # None
  BY <1>2, CryptoAssumption
<1> QED BY <1>2, <1>4, <1>5

LEMMA FinalRequestKept ==
  ASSUME Kept, NEW o \in Obj, FinalRequest(o)
  PROVE  Kept'
<1> USE DEF Kept
<1>1. /\ call = None /\ UNCHANGED <<mem, call, want, broken>> /\ o \notin broken /\ SendFinal(o)
  BY DEF FinalRequest
<1>2. PendingKept' /\ NetKept' /\ sha' = sha
  BY <1>1, FinalTaken
<1>3. ObjectsTyped'
  BY <1>1, <1>2 DEF ObjectsTyped
<1>4. CallKept' /\ MemTyped' /\ MemHolds'
  BY <1>1, MemStays DEF CallKept
<1> QED BY <1>2, <1>3, <1>4

\* The digest came back.
LEMMA DigestedTyped ==
  ASSUME ObjectsTyped, NEW o \in Obj, Digested(o), broken' = broken
  PROVE  ObjectsTyped'
<1>1. want' \in [Obj -> Bytes]
  BY EmptyTyped, WantChange DEF Digested
<1>2. sha' = [sha EXCEPT ![o] = Fresh] /\ broken' \subseteq Obj
  BY DEF Digested, ObjectsTyped
<1> QED BY <1>1, <1>2, EmptyTyped, ObjectChange

LEMMA FinalResponseKept ==
  ASSUME Kept, NEW o \in Obj, FinalResponse(o)
  PROVE  Kept'
<1> USE DEF Kept
<1>1. /\ call = None /\ UNCHANGED <<mem, call, broken>> /\ Receive /\ pending # None
      /\ Digested(o) \/ UNCHANGED <<sha, want>>
  BY DEF FinalResponse, Answered, Failed, Digested
<1>2. PendingKept' /\ NetKept'
  BY <1>1, RequestOver
<1>3. ObjectsTyped'
  BY <1>1, DigestedTyped DEF ObjectsTyped
<1>4. CallKept' /\ MemTyped' /\ MemHolds'
  BY <1>1, MemStays DEF CallKept
<1> QED BY <1>2, <1>3, <1>4

\* A broken object starts anew; the bytes of another stay in its buffer.
LEMMA RestartKept ==
  ASSUME Kept, NEW o \in Obj, Restart(o)
  PROVE  Kept'
<1> USE DEF Kept
<1>1. /\ call = None /\ UNCHANGED <<pending, net, call>> /\ o \in broken
      /\ sha' = [sha EXCEPT ![o] = Fresh] /\ want' = [want EXCEPT ![o] = <<>>]
      /\ broken' = broken \ {o}
      /\ mem' = [b \in Buf |-> IF LaidIn(o, b) THEN Free ELSE mem[b]]
  BY DEF Restart
<1>2. ObjectsTyped'
  <2>1. want' \in [Obj -> Bytes] /\ broken' \subseteq Obj
    BY <1>1, EmptyTyped, WantChange DEF ObjectsTyped
  <2> QED BY <1>1, <2>1, EmptyTyped, ObjectChange
<1>3. MemTyped' /\ MemHolds'
  <2>1. Free.data \in Seq(Obj \X Nat)
    BY EmptySeq DEF Free
  <2> QED BY <1>1, <2>1 DEF MemTyped, MemHolds
<1>4. CallKept'
  BY <1>1 DEF CallKept
<1>5. ASSUME pending # None, pending.kind \in {"dma", "rng"}
      PROVE  mem'[pending.buf].data = mem[pending.buf].data
  <2> DEFINE b == pending.buf
  <2>1. b \in Buf
    BY <1>5 DEF PendingKept
  <2>2. CASE pending.kind = "dma"
    <3>1. pending.of # o /\ \A i \in DOMAIN mem[b].data : mem[b].data[i][1] = pending.of
      BY <1>1, <1>5, <2>2 DEF PendingKept
    <3>2. ~LaidIn(o, b)
      BY <3>1 DEF LaidIn
    <3> QED BY <1>1, <2>1, <3>2
  <2>3. CASE pending.kind = "rng"
    BY <1>1, <1>5, <2>1, <2>3 DEF PendingKept, Free
  <2> QED BY <1>5, <2>2, <2>3
<1>6. PendingKept' /\ NetKept'
  <2>1. pending # None =>
          /\ pending.kind # "rng" => pending.of \in Obj \ broken'
          /\ pending.kind \in {"dma", "rng"} => mem'[pending.buf].data = mem[pending.buf].data
          /\ pending.kind = "dma" /\ call' = None => call = None
    BY <1>1, <1>5 DEF PendingKept
  <2> QED BY <1>1, <2>1, RequestSame
<1> QED BY <1>2, <1>3, <1>4, <1>6

\* The application fills a buffer that no request uses.
LEMMA FillKept ==
  ASSUME Kept, NEW o \in Obj, NEW b \in Buf, Fill(o, b)
  PROVE  Kept'
<1> USE DEF Kept
<1>1. /\ call = None /\ UNCHANGED <<sha, pending, net, call, want, broken>>
      /\ pending # None => pending.buf # b
  BY DEF Fill, state
<1>2. PICK n \in 1 .. MaxLen - Len(want[o]) :
        mem' = [mem EXCEPT ![b] = [data |-> Input(o, n), noise |-> FALSE]]
  BY DEF Fill
<1>3. n \in Nat
  <2>1. MaxLen - Len(want[o]) \in Int
    BY EmptyTyped, CryptoAssumption DEF ObjectsTyped
  <2> QED BY <2>1
<1> DEFINE x == [data |-> Input(o, n), noise |-> FALSE]
<1>4. x.data \in Seq(Obj \X Nat)
  BY <1>3, InputTyped
<1> HIDE DEF x
<1>5. MemTyped' /\ MemHolds'
  BY <1>2, <1>4, MemFilled DEF x
<1>6. \A y \in Buf : y # b => mem'[y] = mem[y]
  BY <1>2 DEF MemTyped
<1>7. PendingKept' /\ NetKept'
  <2>1. pending # None /\ pending.kind \in {"dma", "rng"} =>
          mem'[pending.buf].data = mem[pending.buf].data
    BY <1>1, <1>6 DEF PendingKept
  <2>2. pending # None /\ pending.kind # "rng" => pending.of \in Obj \ broken'
    BY <1>1 DEF PendingKept
  <2> QED BY <1>1, <2>1, <2>2, RequestSame
<1> QED BY <1>1, <1>5, <1>7 DEF ObjectsTyped, CallKept

\* An update by DMA takes what is in the buffer.
LEMMA DmaUpdateRequestKept ==
  ASSUME Kept, NEW o \in Obj, NEW b \in Buf, DmaUpdateRequest(o, b)
  PROVE  Kept'
<1> USE DEF Kept
<1> DEFINE in == Content(b)
           p == PackDma(sha[o], in)
<1>1. /\ call = None /\ o \notin broken /\ UNCHANGED <<call, broken>>
      /\ mem[b].data = Input(o, Len(mem[b].data))
      /\ \/ /\ \/ AbsorbDma(o, p) /\ Done(b)
               \/ SendDma(o, p, b) /\ mem' = mem
            /\ want' = [want EXCEPT ![o] = @ \o mem[b].data]
         \/ RefuseDma(o, p, b) /\ UNCHANGED <<mem, want>>
  BY DEF DmaUpdateRequest, Open
<1>2. mem[b].data \in Bytes /\ in \in Bytes
  BY ContentTyped
<1>3. \A i \in DOMAIN mem[b].data : mem[b].data[i][1] = o
  BY <1>1, <1>2, EmptyTyped, InputTyped
<1>4. Packs(p, sha[o].buff, in)
  BY <1>2, PackDmaPacks DEF ObjectsTyped
<1>5. CallKept'
  BY <1>1 DEF CallKept
<1>6. MemTyped' /\ MemHolds'
  BY <1>1, MemStays, MemFreed
<1>7. ObjectsTyped' /\ PendingKept' /\ NetKept'
  <2>1. CASE /\ \/ AbsorbDma(o, p) /\ Done(b)
                \/ SendDma(o, p, b) /\ mem' = mem
             /\ want' = [want EXCEPT ![o] = @ \o mem[b].data]
    <3>1. want[o] \o mem[b].data \in Bytes
      BY <1>2, ConcatTyped DEF ObjectsTyped
    <3>2. want' \in [Obj -> Bytes]
      BY <2>1, <3>1, WantChange
    <3>3. b \in Buf \union {None} /\ o \in Obj \ broken /\ b # None /\ in = Content(b)
      BY <1>1, CryptoAssumption
    <3>4. /\ Absorb(o, p) \/ (b # None /\ SendDma(o, p, b))
          /\ mem' = mem \/ (Absorb(o, p) /\ pending = None)
      BY <2>1, <3>3 DEF AbsorbDma
    <3> HIDE DEF in, p
    <3>5. ObjectsTyped /\ MemHolds /\ PendingKept /\ NetKept
      OBVIOUS
    <3> HIDE DEF Kept
    <3> QED BY <1>1, <1>2, <1>3, <1>4, <3>2, <3>3, <3>4, <3>5, Taken
  <2>2. CASE RefuseDma(o, p, b) /\ UNCHANGED <<mem, want>>
    <3>1. sha' = [sha EXCEPT ![o].buff = @] /\ UNCHANGED <<pending, net>>
      BY <2>2 DEF RefuseDma, Undone
    <3> QED BY <1>1, <2>2, <3>1, NotTaken
  <2> QED BY <1>1, <2>1, <2>2
<1> QED BY <1>5, <1>6, <1>7

\* A request for random bytes.
LEMMA RngDmaRequestKept ==
  ASSUME Kept, NEW b \in Buf, RngDmaRequest(b)
  PROVE  Kept'
<1> USE DEF Kept
<1>1. /\ call = None /\ pending = None /\ mem[b].data = <<>>
      /\ UNCHANGED <<sha, mem, call, want, broken>>
  BY DEF RngDmaRequest
<1>2. ObjectsTyped' /\ CallKept' /\ MemTyped' /\ MemHolds'
  BY <1>1, MemStays DEF ObjectsTyped, CallKept
<1>3. CASE UNCHANGED <<pending, net>>
  BY <1>1, <1>2, <1>3, RequestSame
<1>4. CASE ~UNCHANGED <<pending, net>>
  <2> DEFINE m == [is |-> "request", op |-> "rng", buf |-> b]
  <2>1. pending' = [kind |-> "rng", of |-> None, buf |-> b] /\ net' = m
    BY <1>4 DEF RngDmaRequest
  <2>2. m \in RngRequest /\ m # None
    BY RecordsReal DEF RngRequest
  <2>3. IsRequest' /\ ~IsAnswer'
    BY <2>1, <2>2 DEF IsRequest, IsAnswer
  <2>4. PendingKept'
    BY <1>1, <2>1 DEF PendingKept
  <2>5. NetKept'
    BY <2>1, <2>2, <2>3 DEF NetKept
  <2> QED BY <1>2, <2>4, <2>5
<1> QED BY <1>3, <1>4

LEMMA RngDmaResponseKept ==
  ASSUME Kept, RngDmaResponse
  PROVE  Kept'
<1> USE DEF Kept
<1>1. /\ call = None /\ UNCHANGED <<sha, call, want, broken>>
      /\ Receive /\ pending # None /\ Done(pending.buf)
  BY DEF RngDmaResponse, Answered, Failed
<1> QED BY <1>1, RequestOver, MemFreed DEF ObjectsTyped, CallKept

\* A blocking call begins.
LEMMA CallBegins ==
  ASSUME Kept, NEW o \in Obj, NEW b \in Buf \union {None}, NEW in \in Bytes, NEW final \in BOOLEAN,
         b # None => mem[b].data = in, Call(o, b, in, final)
  PROVE  Kept'
<1> USE DEF Kept
<1>1. /\ pending = None /\ o \notin broken /\ UNCHANGED <<sha, pending, net, mem, broken>>
      /\ want' = [want EXCEPT ![o] = @ \o in]
      /\ call' = [of |-> o, buf |-> b, rest |-> in, final |-> final,
                  saved |-> sha[o], had |-> want[o]]
  BY DEF Call, state
<1>2. sha[o] \in Hashing /\ Len(sha[o].buff) < Block /\ want[o] \in Bytes
  BY DEF ObjectsTyped
<1>3. ObjectsTyped'
  <2>1. want[o] \o in \in Bytes
    BY <1>2, ConcatTyped
  <2>2. want' \in [Obj -> Bytes]
    BY <1>1, <2>1, WantChange
  <2> QED BY <1>1, <2>2, ObjectsSame DEF ObjectsTyped
<1>4. call' \in CallRecord
  BY <1>1, <1>2 DEF CallRecord
<1>5. CallKept'
  BY <1>1, <1>2, <1>4 DEF CallKept
<1>6. PendingKept' /\ NetKept'
  BY <1>1, RequestSame
<1> QED BY <1>1, <1>3, <1>5, <1>6, MemStays

LEMMA Sha256Kept ==
  ASSUME Kept, NEW o \in Obj, Sha256(o)
  PROVE  Kept'
<1>1. PICK n \in 0 .. MaxLen - Len(want[o]), final \in BOOLEAN : Call(o, None, Input(o, n), final)
  BY DEF Sha256
<1>2. n \in Nat
  <2>1. MaxLen - Len(want[o]) \in Int
    BY EmptyTyped, CryptoAssumption DEF Kept, ObjectsTyped
  <2> QED BY <2>1
<1>3. Input(o, n) \in Bytes /\ None \in Buf \union {None}
  BY <1>2, InputTyped DEF Kept
<1> QED BY <1>1, <1>3, CallBegins

LEMMA Sha256DmaKept ==
  ASSUME Kept, NEW o \in Obj, NEW b \in Buf, Sha256Dma(o, b)
  PROVE  Kept'
<1>1. PICK final \in BOOLEAN : Call(o, b, mem[b].data, final)
  BY DEF Sha256Dma
<1>2. mem[b].data \in Bytes /\ b \in Buf \union {None}
  BY ContentTyped DEF Kept
<1> QED BY <1>1, <1>2, CallBegins

\* It fails, and puts the object back.
LEMMA Aborted ==
  ASSUME Kept, call # None, Abort, broken' = broken
  PROVE  ObjectsTyped' /\ CallKept' /\ MemTyped' /\ MemHolds'
<1> USE DEF Kept
<1>1. PICK o \in Obj : o = call.of
  BY DEF CallKept, CallRecord
<1>2. /\ call.saved \in Hashing /\ Len(call.saved.buff) < Block /\ call.had \in Bytes
  BY DEF CallKept, CallRecord
<1>3. /\ sha' = [sha EXCEPT ![o] = call.saved] /\ want' = [want EXCEPT ![o] = call.had]
      /\ call' = None /\ Done(call.buf)
  BY <1>1 DEF Abort, Restored
<1>4. want' \in [Obj -> Bytes] /\ broken' \subseteq Obj
  BY <1>2, <1>3, WantChange DEF ObjectsTyped
<1>5. ObjectsTyped'
  BY <1>2, <1>3, <1>4, ObjectChange
<1>6. CallKept'
  BY <1>3 DEF CallKept
<1> QED BY <1>3, <1>5, <1>6, MemFreed

\* What a call gives to an update: input typed and packed.
LEMMA CallPacks ==
  ASSUME Kept, call # None, call.rest # <<>>,
         NEW o, o = call.of, NEW n, NEW in,
         IF call.buf = None
         THEN n = Min2(Len(call.rest), Capacity(sha[o])) /\ in = SubSeq(call.rest, 1, n)
         ELSE n = Len(call.rest) /\ in = Content(call.buf),
         NEW p, p = IF call.buf = None THEN Pack(sha[o], in) ELSE PackDma(sha[o], in)
  PROVE  /\ o \in Obj \ broken /\ n \in Nat /\ n <= Len(call.rest)
         /\ in \in Bytes /\ Len(in) = n /\ Packs(p, sha[o].buff, in)
         /\ call.buf = None => p.size = 0
<1> USE DEF Kept
<1>1. /\ o \in Obj \ broken /\ call.rest \in Bytes /\ Len(call.rest) \in Nat
      /\ sha[o] \in Hashing /\ Len(sha[o].buff) < Block /\ Len(sha[o].buff) \in Nat
      /\ call.buf \in Buf \union {None}
  BY EmptyTyped DEF CallKept, CallRecord, ObjectsTyped, Hashing
<1>2. CASE call.buf = None
  <2>1. Capacity(sha[o]) \in Nat
    BY <1>1, InlineBlocks, CryptoAssumption DEF Capacity
  <2>2. n \in Nat /\ n <= Len(call.rest) /\ n <= Capacity(sha[o])
    BY <1>1, <1>2, <2>1 DEF Min2
  <2>3. in \in Bytes /\ Len(in) = n
    <3>1. in = SubSeq(call.rest, 1, n)
      BY <1>2
    <3>2. SubSeq(call.rest, 1, n) \in Bytes /\ Len(SubSeq(call.rest, 1, n)) = n
      BY <1>1, <2>2, PrefixTyped
    <3> QED BY <3>1, <3>2
  <2>4. Packs(p, sha[o].buff, in)
    BY <1>1, <1>2, <2>2, <2>3, PackPacks
  <2>5. p.size = 0
    BY <1>2 DEF Pack
  <2> QED BY <1>1, <2>2, <2>3, <2>4, <2>5
<1>3. CASE call.buf # None
  <2>1. mem[call.buf].data = call.rest /\ call.buf \in Buf
    BY <1>1, <1>3 DEF CallKept
  <2>2. in \in Bytes /\ Len(in) = n
    BY <1>3, <2>1, ContentTyped
  <2>3. Packs(p, sha[o].buff, in)
    BY <1>1, <1>3, <2>2, PackDmaPacks
  <2> QED BY <1>1, <1>3, <2>2, <2>3
<1> QED BY <1>2, <1>3

LEMMA CallUpdateKept ==
  ASSUME Kept, CallUpdate
  PROVE  Kept'
<1> USE DEF Kept
<1>1. PICK o, n, in, p :
        /\ o = call.of
        /\ IF call.buf = None
           THEN n = Min2(Len(call.rest), Capacity(sha[o])) /\ in = SubSeq(call.rest, 1, n)
           ELSE n = Len(call.rest) /\ in = Content(call.buf)
        /\ p = IF call.buf = None THEN Pack(sha[o], in) ELSE PackDma(sha[o], in)
  <2>1. PICK o, n : o = call.of /\ n = IF call.buf = None THEN Min2(Len(call.rest), Capacity(sha[o]))
                                       ELSE Len(call.rest)
    OBVIOUS
  <2>2. PICK in, p : /\ in = IF call.buf = None THEN SubSeq(call.rest, 1, n) ELSE Content(call.buf)
                     /\ p = IF call.buf = None THEN Pack(sha[o], in) ELSE PackDma(sha[o], in)
    OBVIOUS
  <2> QED BY <2>1, <2>2
<1>2. /\ call # None /\ pending = None /\ call.rest # <<>> /\ broken' = broken
      /\ \/ /\ \/ Absorb(o, p)
               \/ call.buf = None /\ Send(o, p)
               \/ call.buf # None /\ SendDma(o, p, call.buf)
            /\ call' = [call EXCEPT !.rest = Suffix(@, n)]
            /\ UNCHANGED <<mem, want>>
         \/ Abort /\ UNCHANGED <<pending, net>>
  BY <1>1 DEF CallUpdate
<1>3. /\ o \in Obj \ broken /\ n \in Nat /\ n <= Len(call.rest)
      /\ in \in Bytes /\ Packs(p, sha[o].buff, in)
      /\ call.buf = None => p.size = 0
  <2>1. IF call.buf = None
        THEN n = Min2(Len(call.rest), Capacity(sha[o])) /\ in = SubSeq(call.rest, 1, n)
        ELSE n = Len(call.rest) /\ in = Content(call.buf)
    BY <1>1
  <2>2. o = call.of /\ p = IF call.buf = None THEN Pack(sha[o], in) ELSE PackDma(sha[o], in)
    BY <1>1
  <2>3. Kept /\ call # None /\ call.rest # <<>>
    BY <1>2
  <2> HIDE DEF Kept
  <2> QED BY <2>1, <2>2, <2>3, CallPacks
<1>4. CASE Abort /\ UNCHANGED <<pending, net>>
  BY <1>2, <1>4, Aborted, RequestSame
<1>5. CASE /\ \/ Absorb(o, p)
              \/ call.buf = None /\ Send(o, p)
              \/ call.buf # None /\ SendDma(o, p, call.buf)
           /\ call' = [call EXCEPT !.rest = Suffix(@, n)]
           /\ UNCHANGED <<mem, want>>
  <2> DEFINE r == Suffix(call.rest, n)
  <2>1. call \in CallRecord /\ call.rest \in Bytes /\ call.buf \in Buf \union {None}
    BY <1>2 DEF CallKept, CallRecord
  <2>2. r \in Bytes /\ (n = Len(call.rest) => r = <<>>)
    <3>1. r \in Bytes /\ Len(r) = Len(call.rest) - n
      BY <1>3, <2>1, SuffixTyped
    <3>2. n = Len(call.rest) => ~(Len(r) > 0)
      BY <1>3, <3>1
    <3> HIDE DEF r
    <3> QED BY <3>1, <3>2, EmptyTyped
  <2> HIDE DEF r
  <2>3. call' = [call EXCEPT !.rest = r]
    BY <1>5 DEF r
  <2>4. /\ call' \in CallRecord /\ call' # None /\ call'.of = o /\ call'.buf = call.buf
        /\ call'.rest = r /\ call'.saved = call.saved
    BY <1>1, <2>1, <2>2, <2>3, RecordsReal DEF CallRecord
  <2>5. call.buf # None => in = Content(call.buf) /\ r = <<>>
    BY <1>1, <2>2
  <2>6. want' \in [Obj -> Bytes]
    BY <1>5 DEF ObjectsTyped
  <2>7. ObjectsTyped /\ MemHolds /\ PendingKept /\ NetKept
    OBVIOUS
  <2>8. /\ ObjectsTyped' /\ PendingKept' /\ NetKept'
        /\ \/ pending' = pending
           \/ pending'.kind \in {"update", "dma"} /\ pending'.of = o
    <3> HIDE DEF Kept
    <3> QED BY <1>2, <1>3, <1>5, <2>1, <2>4, <2>5, <2>6, <2>7, Taken
  <2>9. CallKept'
    BY <1>1, <1>2, <2>4, <2>5, <2>8 DEF CallKept
  <2> QED BY <1>5, <2>8, <2>9, MemStays
<1> QED BY <1>2, <1>4, <1>5

LEMMA CallUpdateResponseKept ==
  ASSUME Kept, CallUpdateResponse
  PROVE  Kept'
<1> USE DEF Kept
<1>1. call # None /\ pending # None /\ Receive /\ broken' = broken
  BY DEF CallUpdateResponse, Answered, Failed
<1>2. PendingKept' /\ NetKept' /\ pending' = None
  BY <1>1, RequestOver
<1>3. CASE Abort
  BY <1>1, <1>2, <1>3, Aborted
<1>4. CASE ~Abort
  <2>1. PICK o \in Obj : o = call.of
    BY <1>1 DEF CallKept, CallRecord
  <2>2. /\ Answered({"update", "dma"}, o) /\ sha' = [sha EXCEPT ![o] = Resumed(o)]
        /\ UNCHANGED <<mem, call, want>>
    BY <1>4, <2>1 DEF CallUpdateResponse
  <2>3. want' \in [Obj -> Bytes] /\ broken' \subseteq Obj
    BY <1>1, <2>2 DEF ObjectsTyped
  <2>4. ObjectsTyped'
    BY <2>2, <2>3, ResumedTyped, ObjectChange
  <2> QED BY <1>1, <1>2, <2>2, <2>4, MemStays, CallSame
<1> QED BY <1>3, <1>4

LEMMA CallFinalKept ==
  ASSUME Kept, CallFinal
  PROVE  Kept'
<1> USE DEF Kept
<1>1. call # None /\ pending = None /\ call.rest = <<>> /\ broken' = broken
  BY DEF CallFinal
<1>2. CASE Abort /\ UNCHANGED <<pending, net>>
  BY <1>1, <1>2, Aborted, RequestSame
<1>3. CASE SendFinal(call.of) /\ UNCHANGED <<mem, call, want>>
  <2>1. call.of \in Obj \ broken
    BY <1>1 DEF CallKept, CallRecord
  <2>2. /\ PendingKept' /\ NetKept' /\ sha' = sha
        /\ pending' # None /\ pending'.kind = "final" /\ pending'.of = call.of
    BY <1>1, <1>3, <2>1, FinalTaken
  <2>3. CallKept'
    BY <1>1, <1>3, <2>2 DEF CallKept
  <2> QED BY <1>1, <1>3, <2>2, <2>3, MemStays DEF ObjectsTyped
<1> QED BY <1>2, <1>3 DEF CallFinal

LEMMA CallFinalResponseKept ==
  ASSUME Kept, CallFinalResponse
  PROVE  Kept'
<1> USE DEF Kept
<1>1. call # None /\ pending # None /\ Receive /\ broken' = broken
  BY DEF CallFinalResponse, Answered, Failed, Digested
<1>2. PendingKept' /\ NetKept' /\ pending' = None
  BY <1>1, RequestOver
<1>3. CASE Abort
  BY <1>1, <1>2, <1>3, Aborted
<1>4. CASE Digested(call.of) /\ call' = None /\ Done(call.buf)
  <2>1. PICK o \in Obj : o = call.of
    BY <1>1 DEF CallKept, CallRecord
  <2>2. Digested(o)
    BY <1>4, <2>1
  <2> QED BY <1>1, <1>2, <1>4, <2>2, DigestedTyped, MemFreed DEF CallKept
<1> QED BY <1>3, <1>4 DEF CallFinalResponse

LEMMA CallReturnKept ==
  ASSUME Kept, CallReturn
  PROVE  Kept'
<1>1. /\ pending = None /\ UNCHANGED <<sha, pending, net, want, broken>>
      /\ call' = None /\ Done(call.buf)
  BY DEF CallReturn, state
<1> QED BY <1>1, RequestSame, MemFreed DEF Kept, CallKept, ObjectsTyped

\* What a hash request has the server digest.
LEMMA DigestibleTyped ==
  ASSUME Kept, IsRequest, pending # None, pending.kind # "rng"
  PROVE  /\ Fits(net) /\ Digestible(net) \in Bytes
         /\ Digestible(net) = net.data \o (IF net.size = 0 THEN <<>>
                                           ELSE SubSeq(Content(net.buf), net.from + 1, net.from + net.size))
<1> USE DEF Kept
<1>1. Fits(net)
  BY DEF NetKept, RngRequest
<1>2. net.data \in Bytes /\ net.size \in Nat /\ net.from \in Nat
  BY <1>1 DEF Fits, ShaRequest
<1>3. CASE net.size = 0
  BY <1>1, <1>2, <1>3, EmptyTyped, ConcatTyped DEF Digestible
<1>4. CASE net.size # 0
  <2>1. net.buf \in Buf /\ net.from + net.size <= Len(mem[net.buf].data)
    BY <1>2, <1>4 DEF NetKept, PendingKept
  <2>2. Content(net.buf) \in Bytes /\ net.from + net.size <= Len(Content(net.buf))
    BY <2>1, ContentTyped
  <2>3. SubSeq(Content(net.buf), net.from + 1, net.from + net.size) \in Bytes
    BY <1>2, <2>2, PartTyped
  <2> QED BY <1>1, <1>2, <1>4, <2>3, ConcatTyped DEF Digestible
<1> QED BY <1>3, <1>4

LEMMA HandleSha256Kept ==
  ASSUME Kept, HandleSha256
  PROVE  Kept'
<1> USE DEF Kept
<1> DEFINE h == net.hash \o Digestible(net)
           l == net.len + Len(Digestible(net))
           a == [is |-> "answer", ok |-> TRUE, hash |-> h, len |-> l]
<1>1. /\ IsRequest /\ net.op = "sha" /\ Answer(a)
      /\ UNCHANGED <<sha, pending, mem, call, want, broken>>
  BY DEF HandleSha256
<1>2. pending # None => h \in Bytes /\ l \in Nat
  <2> SUFFICES ASSUME pending # None PROVE h \in Bytes /\ l \in Nat
    OBVIOUS
  <2>1. pending.kind # "rng"
    BY <1>1 DEF NetKept
  <2>2. Fits(net) /\ Digestible(net) \in Bytes
    BY <1>1, <2>1, DigestibleTyped
  <2>3. net.hash \in Bytes /\ net.len \in Nat /\ Len(Digestible(net)) \in Nat
    BY <2>2, EmptyTyped DEF Fits, ShaRequest
  <2>4. h \in Bytes
    BY <2>2, <2>3, ConcatTyped
  <2>5. l \in Nat
    BY <2>3
  <2> QED BY <2>4, <2>5
<1> HIDE DEF h, l
<1>3. a.is = "answer" /\ a.hash = h /\ a.len = l
  OBVIOUS
<1>4. pending # None => a # None
  BY <1>2, RecordsReal
<1> HIDE DEF a
<1>5. PendingKept' /\ NetKept'
  BY <1>1, <1>2, <1>3, <1>4, RequestAnswered
<1>6. CallKept'
  BY <1>1, CallSame
<1> QED BY <1>1, <1>5, <1>6, MemStays DEF ObjectsTyped

\* The server writes random bytes, or answers without a digest.
LEMMA OtherAnswerKept ==
  ASSUME Kept, IsRequest, NEW k \in BOOLEAN, Answer([is |-> "answer", ok |-> k]),
         k => net.op = "rng",
         mem' = mem \/ mem' = [mem EXCEPT ![net.buf].noise = TRUE],
         UNCHANGED <<sha, pending, call, want, broken>>
  PROVE  Kept'
<1> USE DEF Kept
<1> DEFINE a == [is |-> "answer", ok |-> k]
<1>1. a # None /\ a.is = "answer" /\ Answer(a) /\ a.ok = k
  BY RecordsReal
<1> HIDE DEF a
<1>2. MemTyped' /\ MemHolds' /\ \A b \in Buf : mem'[b].data = mem[b].data
  BY MemStays, MemWritten
<1>3. ~(a.ok /\ net.op = "sha")
  BY <1>1
<1>4. PendingKept' /\ NetKept'
  BY <1>1, <1>2, <1>3, RequestAnswered
<1>5. CallKept'
  BY <1>2, CallSame DEF CallKept, CallRecord
<1> QED BY <1>2, <1>4, <1>5 DEF ObjectsTyped

\* Every step keeps what is typed.
LEMMA KeptStep ==
  ASSUME Kept, [Next]_vars
  PROVE  Kept'
<1>1. CASE HandleRngDma
  BY <1>1, OtherAnswerKept DEF HandleRngDma
<1>2. CASE HandleFails
  BY <1>2, OtherAnswerKept DEF HandleFails, Fault
<1>3. CASE UNCHANGED vars
  BY <1>3, RequestSame, MemStays, CallSame DEF vars, Kept, ObjectsTyped, PendingKept
<1> QED
  BY <1>1, <1>2, <1>3, UpdateRequestKept, UpdateResponseKept, FinalRequestKept,
     FinalResponseKept, RestartKept, Sha256Kept, FillKept, DmaUpdateRequestKept,
     Sha256DmaKept, RngDmaRequestKept, RngDmaResponseKept, CallUpdateKept,
     CallUpdateResponseKept, CallFinalKept, CallFinalResponseKept, CallReturnKept,
     HandleSha256Kept
  DEF Next

\* Kept is an invariant: objects, buffers, call, request and transport stay
\* typed, every hash request on the transport passes the server's checks on
\* its size and lies within the buffer it names, no partial block reaches a
\* whole one, and what a blocking call has not taken yet is in its buffer.
THEOREM BytesKept == Spec => []Kept
<1>1. Init => Kept
  <2> SUFFICES ASSUME Init PROVE Kept
    OBVIOUS
  <2>1. ObjectsTyped
    BY EmptyTyped DEF Init, ObjectsTyped
  <2>2. MemTyped /\ MemHolds
    BY EmptySeq DEF Init, MemTyped, MemHolds, Free
  <2>3. CallKept /\ PendingKept /\ NetKept
    BY DEF Init, CallKept, PendingKept, NetKept, IsRequest
  <2> QED BY <2>1, <2>2, <2>3 DEF Kept
<1>2. Kept /\ [Next]_vars => Kept'
  BY KeptStep
<1> QED BY <1>1, <1>2, PTL DEF Spec

\* No request of this client fails the server's checks on its size: whatever
\* an object holds and however much it is given, an update carries whole
\* blocks that fit a message and the end of a hash less than a block.
THEOREM NoneRefused == Spec => []RequestsAccepted
<1>1. Kept => RequestsAccepted
  BY DEF Kept, NetKept, Fits, RngRequest, RequestsAccepted
<1> QED BY <1>1, BytesKept, PTL

(***************************************************************************)
(* No byte is lost, taken twice or out of order.  The digest an object is  *)
(* going to have, its partial block and what a call has not taken yet make *)
(* up the bytes it has accepted (Accounted); a step that concerns another  *)
(* object leaves this as it is (Apart), and one that concerns it moves     *)
(* bytes from one of the three to the one before (GoodMove).  To that come *)
(* what a blocking call would put back (SavedGood), where random bytes may *)
(* be (NoiseStrayed) and what the last request carries (EndGood).          *)
(***************************************************************************)

\* Equal, but for some bytes of N in the first.
Alike(N, s, t) == Len(s) = Len(t) /\ \A i \in 1 .. Len(s) : s[i] = t[i] \/ s[i] \in N

\* A digest h of l bytes, a partial block f and input u still to be taken
\* account for the bytes w.
Good(N, h, l, f, u, w) == Alike(N, (h \o f) \o u, w) /\ l = Len(h)

\* The prover takes concatenation apart where it sees it.
Cat(s, t) == s \o t

LEMMA CatAssociative ==
  ASSUME NEW s \in Bytes, NEW t \in Bytes, NEW u \in Bytes
  PROVE  Cat(Cat(s, t), u) = Cat(s, Cat(t, u))
BY SMT DEF Bytes, Cat

\* What is moved across changes nothing of the whole.
LEMMA Regroup ==
  ASSUME NEW h \in Bytes, NEW f \in Bytes, NEW c \in Bytes, NEW r \in Bytes,
         NEW d \in Bytes, NEW t \in Bytes, Cat(f, c) = Cat(d, t)
  PROVE  Cat(Cat(Cat(h, d), t), r) = Cat(Cat(h, f), Cat(c, r))
<1>1. Cat(h, f) \in Bytes
  BY ConcatTyped DEF Cat
<1>3. Cat(Cat(h, d), t) = Cat(h, Cat(d, t))
  BY CatAssociative
<1>4. Cat(Cat(h, f), c) = Cat(h, Cat(f, c))
  BY CatAssociative
<1>5. Cat(Cat(Cat(h, f), c), r) = Cat(Cat(h, f), Cat(c, r))
  BY <1>1, CatAssociative
<1> QED BY <1>3, <1>4, <1>5

\* The same, said of concatenations.
Regroups(h, f, c, r, d, t) ==
  f \o c = d \o t => ((h \o d) \o t) \o r = (h \o f) \o (c \o r)

LEMMA Regrouped == \A h, f, c, r, d, t \in Bytes : Regroups(h, f, c, r, d, t)
<1>1. \A h, f, c, r, d, t \in Bytes :
        Cat(f, c) = Cat(d, t) => Cat(Cat(Cat(h, d), t), r) = Cat(Cat(h, f), Cat(c, r))
  BY Regroup
<1> QED BY <1>1, Zenon DEF Cat, Regroups

LEMMA AlikeMore ==
  ASSUME NEW N, NEW M, N \subseteq M, NEW s, NEW t, Alike(N, s, t)
  PROVE  Alike(M, s, t)
BY DEF Alike

LEMMA AlikeSelf ==
  ASSUME NEW N, NEW s
  PROVE  Alike(N, s, s)
BY DEF Alike

LEMMA AlikeTrans ==
  ASSUME NEW N, NEW s, NEW t, NEW u, Alike(N, s, t), Alike(N, t, u)
  PROVE  Alike(N, s, u)
BY DEF Alike

LEMMA AlikeConcat ==
  ASSUME NEW N, NEW s \in Bytes, NEW t \in Bytes, NEW c \in Bytes, NEW d \in Bytes,
         Alike(N, s, t), Alike(N, c, d)
  PROVE  Alike(N, s \o c, t \o d)
<1>1. /\ Len(s) = Len(t) /\ Len(c) = Len(d) /\ Len(s) \in Nat /\ Len(c) \in Nat
      /\ Len(s \o c) = Len(s) + Len(c) /\ Len(t \o d) = Len(s) + Len(c)
  <2>1. Len(s) = Len(t) /\ Len(c) = Len(d)
    BY DEF Alike
  <2>2. Len(s) \in Nat /\ Len(c) \in Nat /\ Len(s \o c) = Len(s) + Len(c)
    BY ConcatTyped
  <2>3. Len(t \o d) = Len(t) + Len(d)
    BY ConcatTyped
  <2> QED BY <2>1, <2>2, <2>3
<1>2. ASSUME NEW i \in 1 .. Len(s) + Len(c)
      PROVE  (s \o c)[i] = (t \o d)[i] \/ (s \o c)[i] \in N
  <2>1. /\ (s \o c)[i] = IF i <= Len(s) THEN s[i] ELSE c[i - Len(s)]
        /\ (t \o d)[i] = IF i <= Len(s) THEN t[i] ELSE d[i - Len(s)]
    <3>1. i \in 1 .. Len(s) + Len(c) /\ i \in 1 .. Len(t) + Len(d)
      BY <1>1
    <3>2. (s \o c)[i] = IF i <= Len(s) THEN s[i] ELSE c[i - Len(s)]
      BY <3>1, ConcatTyped
    <3>3. (t \o d)[i] = IF i <= Len(t) THEN t[i] ELSE d[i - Len(t)]
      BY <3>1, ConcatTyped
    <3> QED BY <1>1, <3>2, <3>3
  <2>2. CASE i <= Len(s)
    <3>1. i \in 1 .. Len(s)
      BY <1>1, <2>2
    <3> QED BY <2>1, <2>2, <3>1 DEF Alike
  <2>3. CASE ~(i <= Len(s))
    <3>1. i - Len(s) \in 1 .. Len(c)
      BY <1>1, <2>3
    <3> QED BY <2>1, <2>3, <3>1 DEF Alike
  <2> QED BY <2>2, <2>3
<1> QED BY <1>1, <1>2 DEF Alike

\* More input is taken on ...
LEMMA GoodMore ==
  ASSUME NEW N, NEW h \in Bytes, NEW l, NEW f \in Bytes, NEW w \in Bytes, NEW in \in Bytes,
         Good(N, h, l, f, <<>>, w)
  PROVE  Good(N, h, l, f, in, w \o in)
<1>1. h \o f \in Bytes /\ (h \o f) \o <<>> = h \o f
  BY ConcatTyped, ConcatEmptySeq DEF Bytes
<1>2. Alike(N, h \o f, w)
  BY <1>1 DEF Good
<1> DEFINE s == h \o f
<1> HIDE DEF s
<1>3. Alike(N, s \o in, w \o in)
  BY <1>1, <1>2, AlikeSelf, AlikeConcat DEF s
<1> QED BY <1>3 DEF Good, s

\* ... and some of it is moved under the digest or into the partial block,
\* read from where it may have become random.
LEMMA GoodMove ==
  ASSUME NEW N, NEW h \in Bytes, NEW l, NEW f \in Bytes, NEW w \in Bytes,
         NEW c0 \in Bytes, NEW c \in Bytes, NEW r \in Bytes, NEW d \in Bytes, NEW t \in Bytes,
         Good(N, h, l, f, c0 \o r, w), Alike(N, c, c0), f \o c = d \o t
  PROVE  Good(N, h \o d, l + Len(d), t, r, w)
<1>1. /\ h \o f \in Bytes /\ h \o d \in Bytes /\ d \o t \in Bytes /\ c \o r \in Bytes
      /\ c0 \o r \in Bytes /\ f \o c \in Bytes
      /\ Len(h \o d) = Len(h) + Len(d)
  BY ConcatTyped
<1>2. ((h \o d) \o t) \o r = (h \o f) \o (c \o r)
  <2>1. Regroups(h, f, c, r, d, t)
    BY Regrouped, Zenon
  <2> QED BY <2>1, Zenon DEF Regroups
<1>3. Alike(N, c \o r, c0 \o r)
  BY AlikeSelf, AlikeConcat
<1>4. Alike(N, (h \o f) \o (c \o r), (h \o f) \o (c0 \o r))
  BY <1>1, <1>3, AlikeSelf, AlikeConcat
<1>5. Alike(N, (h \o f) \o (c0 \o r), w) /\ l = Len(h)
  BY DEF Good
<1>6. Alike(N, (h \o f) \o (c \o r), w)
  BY <1>4, <1>5, AlikeTrans
<1>7. l + Len(d) = Len(h \o d)
  BY <1>1, <1>5
<1> QED BY <1>2, <1>6, <1>7 DEF Good

\* The same when nothing goes under the digest.
LEMMA GoodStay ==
  ASSUME NEW N, NEW h \in Bytes, NEW l, NEW f \in Bytes, NEW w \in Bytes,
         NEW c0 \in Bytes, NEW c \in Bytes, NEW r \in Bytes, NEW t \in Bytes,
         Good(N, h, l, f, c0 \o r, w), Alike(N, c, c0), f \o c = t
  PROVE  Good(N, h, l, t, r, w)
<1>1. <<>> \in Bytes /\ <<>> \o t = t /\ h \o <<>> = h /\ Len(<<>>) = 0 /\ l + 0 = l
  BY EmptyTyped, ConcatEmptySeq, ConcatTyped DEF Bytes, Good
<1>2. PICK e \in Bytes : e = <<>>
  BY <1>1
<1>3. f \o c = e \o t
  BY <1>1, <1>2
<1>4. Good(N, h \o e, l + Len(e), t, r, w)
  BY <1>3, GoodMove
<1> QED BY <1>1, <1>2, <1>4

\* Nothing is left out of the last request.
LEMMA GoodEnd ==
  ASSUME NEW N, NEW h \in Bytes, NEW l, NEW f \in Bytes, NEW w \in Bytes,
         Good(N, h, l, f, <<>>, w)
  PROVE  Alike(N, h \o f, w) /\ l + Len(f) = Len(w)
<1>1. h \o f \in Bytes /\ (h \o f) \o <<>> = h \o f /\ Len(h \o f) = Len(h) + Len(f)
  BY ConcatTyped, ConcatEmptySeq DEF Bytes
<1> QED BY <1>1 DEF Good, Alike

LEMMA GoodLater ==
  ASSUME NEW N, NEW M, N \subseteq M, NEW h, NEW l, NEW f, NEW u, NEW w, Good(N, h, l, f, u, w)
  PROVE  Good(M, h, l, f, u, w)
BY AlikeMore DEF Good

LEMMA GoodFresh == \A N : Good(N, Fresh.hash, Fresh.len, Fresh.buff, <<>>, <<>>)
<1>1. <<>> \in Bytes /\ <<>> \o <<>> = <<>> /\ Len(<<>>) = 0
  BY EmptyTyped, ConcatEmptySeq DEF Bytes
<1> QED BY <1>1, AlikeSelf DEF Good, Fresh

\* The random bytes that may have got into what was hashed.
Stray == IF strayed THEN {Noise} ELSE {}

Updating(o) == pending # None /\ pending.kind \in {"update", "dma"} /\ pending.of = o
Failing(o) == Updating(o) /\ IsAnswer /\ ~net.ok

\* An object of use accounts for its bytes, but while its update has failed
\* on the server and the client does not know yet.
Accounted(o) ==
  o \notin broken /\ ~Failing(o) =>
    Good(Stray, Ahead(o).hash, Ahead(o).len, sha[o].buff, Ungiven(o), want[o])

\* So does what a blocking call would put back.
SavedGood ==
  call # None =>
    Good(Stray, call.saved.hash, call.saved.len, call.saved.buff, <<>>, call.had)

\* Bytes in a buffer are random only when a request for some was given up.
NoiseStrayed == \A b \in Buf : mem[b].noise /\ mem[b].data # <<>> => strayed

\* The last request of an object carries all of it, and its answer covers it.
EndGood ==
  pending # None /\ pending.kind = "final" =>
    /\ IsRequest =>
         /\ net.hash = sha[pending.of].hash /\ net.len = sha[pending.of].len
         /\ net.data = sha[pending.of].buff /\ net.size = 0
    /\ IsAnswer /\ net.ok =>
         Alike(Stray, net.hash, want[pending.of]) /\ net.len = Len(want[pending.of])

Counted == (\A o \in Obj : Accounted(o)) /\ SavedGood /\ NoiseStrayed /\ EndGood

LEMMA FieldsSet ==
  ASSUME NEW s \in Hashing, NEW h, NEW l
  PROVE  [s EXCEPT !.hash = h, !.len = l].hash = h /\ [s EXCEPT !.hash = h, !.len = l].len = l
BY DEF Hashing

\* What an object is going to be.
AheadFacts ==
  Kept => \A o \in Obj :
    /\ sha[o] \in Hashing /\ want[o] \in Bytes /\ Ungiven(o) \in Bytes
    /\ ~Updating(o) => Ahead(o).hash = sha[o].hash /\ Ahead(o).len = sha[o].len
    /\ Updating(o) /\ IsAnswer => Ahead(o).hash = net.hash /\ Ahead(o).len = net.len
    /\ Updating(o) /\ ~IsAnswer =>
         /\ Ahead(o).hash = net.hash \o Digestible(net)
         /\ Ahead(o).len = net.len + Len(Digestible(net))
    /\ ~Failing(o) => Ahead(o).hash \in Bytes

LEMMA AheadKnown == AheadFacts
<1> SUFFICES ASSUME Kept, NEW o \in Obj
             PROVE  /\ sha[o] \in Hashing /\ want[o] \in Bytes /\ Ungiven(o) \in Bytes
                    /\ ~Updating(o) => Ahead(o).hash = sha[o].hash /\ Ahead(o).len = sha[o].len
                    /\ Updating(o) /\ IsAnswer => Ahead(o).hash = net.hash /\ Ahead(o).len = net.len
                    /\ Updating(o) /\ ~IsAnswer =>
                         /\ Ahead(o).hash = net.hash \o Digestible(net)
                         /\ Ahead(o).len = net.len + Len(Digestible(net))
                    /\ ~Failing(o) => Ahead(o).hash \in Bytes
  BY DEF AheadFacts
<1>1. sha[o] \in Hashing /\ want[o] \in Bytes /\ sha[o].hash \in Bytes
  BY DEF Kept, ObjectsTyped, Hashing
<1>2. Ungiven(o) \in Bytes
  BY EmptyTyped DEF Ungiven, Kept, CallKept, CallRecord
<1>3. CASE ~Updating(o)
  BY <1>1, <1>2, <1>3 DEF Updating, Ahead
<1>4. CASE Updating(o) /\ IsAnswer
  <2>1. Ahead(o) = Resumed(o)
    BY <1>4 DEF Updating, Ahead
  <2>2. [sha[o] EXCEPT !.hash = net.hash, !.len = net.len].hash = net.hash
        /\ [sha[o] EXCEPT !.hash = net.hash, !.len = net.len].len = net.len
    BY <1>1, FieldsSet
  <2>3. net.ok => net.hash \in Bytes
    BY <1>4 DEF Updating, Kept, NetKept
  <2> QED BY <1>1, <1>2, <1>4, <2>1, <2>2, <2>3 DEF Resumed, Failing
<1>5. CASE Updating(o) /\ ~IsAnswer
  <2> DEFINE h == net.hash \o Digestible(net)
             l == net.len + Len(Digestible(net))
  <2>1. Ahead(o) = [sha[o] EXCEPT !.hash = h, !.len = l]
    BY <1>5 DEF Updating, Ahead
  <2>2. Fits(net) /\ Digestible(net) \in Bytes
    BY <1>5, DigestibleTyped DEF Updating, Kept, NetKept
  <2>3. h \in Bytes
    BY <2>2, ConcatTyped DEF Fits, ShaRequest
  <2> HIDE DEF h, l
  <2>4. Ahead(o).hash = h /\ Ahead(o).len = l
    BY <1>1, <2>1, FieldsSet
  <2> QED BY <1>1, <1>2, <1>5, <2>3, <2>4 DEF h, l
<1> QED BY <1>3, <1>4, <1>5

\* Nothing is subtracted from the random bytes there may be.
LEMMA StrayMore ==
  ASSUME strayed => strayed'
  PROVE  Stray \subseteq Stray'
BY Zenon DEF Stray

\* An object that a step leaves alone: what is outstanding stays, or was not
\* an update of it and is not going to be.
Apart(o) ==
  \/ ~Updating(o) /\ ~Updating(o)'
  \/ UNCHANGED <<pending, net>>
     /\ (Updating(o) /\ pending.kind = "dma" => mem'[pending.buf] = mem[pending.buf])

LEMMA AheadSame ==
  ASSUME Kept, Kept', NEW o \in Obj, Apart(o),
         sha'[o].hash = sha[o].hash, sha'[o].len = sha[o].len
  PROVE  /\ Ahead(o).hash' = Ahead(o).hash /\ Ahead(o).len' = Ahead(o).len
         /\ Failing(o)' <=> Failing(o)
<1>1. AheadFacts /\ AheadFacts'
  BY AheadKnown, PTL
<1>2. CASE ~Updating(o) /\ ~Updating(o)'
  BY <1>1, <1>2 DEF AheadFacts, Failing
<1>3. CASE UNCHANGED <<pending, net>>
           /\ (Updating(o) /\ pending.kind = "dma" => mem'[pending.buf] = mem[pending.buf])
  <2>1. /\ Updating(o)' <=> Updating(o)
        /\ IsAnswer' <=> IsAnswer
        /\ Failing(o)' <=> Failing(o)
    BY <1>3 DEF Updating, Failing, IsAnswer
  <2>2. Updating(o) /\ ~IsAnswer => Digestible(net)' = Digestible(net)
    <3> SUFFICES ASSUME Updating(o), ~IsAnswer PROVE Digestible(net)' = Digestible(net)
      OBVIOUS
    <3>1. net.size = 0 \/ (pending.kind = "dma" /\ net.buf = pending.buf)
      BY DEF Updating, Kept, NetKept, Fits, ShaRequest, RngRequest
    <3>2. CASE net.size = 0
      BY <1>3, <3>2 DEF Digestible
    <3>3. CASE pending.kind = "dma" /\ net.buf = pending.buf
      <4>1. mem'[net.buf] = mem[net.buf] /\ net' = net
        BY <1>3, <3>3
      <4> QED BY <4>1 DEF Digestible, Content
    <3> QED BY <3>1, <3>2, <3>3
  <2>3. CASE ~Updating(o)
    BY <1>1, <2>1, <2>3 DEF AheadFacts
  <2>4. CASE Updating(o) /\ IsAnswer
    BY <1>1, <1>3, <2>1, <2>4 DEF AheadFacts
  <2>5. CASE Updating(o) /\ ~IsAnswer
    BY <1>1, <1>3, <2>1, <2>2, <2>5 DEF AheadFacts
  <2> QED BY <2>1, <2>3, <2>4, <2>5
<1> QED BY <1>2, <1>3 DEF Apart

\* It goes on accounting for its bytes.
LEMMA AccountSame ==
  ASSUME Kept, Kept', NEW o \in Obj, Apart(o), Accounted(o), strayed => strayed',
         o \in broken => o \in broken',
         sha'[o] = sha[o], want'[o] = want[o], Ungiven(o)' = Ungiven(o)
  PROVE  Accounted(o)'
<1>1. /\ Ahead(o).hash' = Ahead(o).hash /\ Ahead(o).len' = Ahead(o).len
      /\ Failing(o)' <=> Failing(o)
  BY AheadSame
<1> SUFFICES ASSUME o \notin broken', ~Failing(o)'
             PROVE  Good(Stray, Ahead(o).hash, Ahead(o).len, sha[o].buff, Ungiven(o), want[o])'
  BY DEF Accounted
<1>2. Good(Stray, Ahead(o).hash, Ahead(o).len, sha[o].buff, Ungiven(o), want[o])
  BY <1>1 DEF Accounted
<1>3. Good(Stray', Ahead(o).hash, Ahead(o).len, sha[o].buff, Ungiven(o), want[o])
  BY <1>2, StrayMore, GoodLater
<1> QED BY <1>1, <1>3

\* When nothing was outstanding, an object that is not sent for is left alone.
LEMMA ApartIdle ==
  ASSUME NEW o, pending = None,
         pending' = None \/ pending'.kind \notin {"update", "dma"} \/ pending'.of # o
  PROVE  Apart(o)
BY DEF Apart, Updating

\* So is every other object than the one a response is for.
LEMMA ApartOver ==
  ASSUME NEW o, pending' = None,
         pending.kind \notin {"update", "dma"} \/ pending.of # o
  PROVE  Apart(o)
BY DEF Apart, Updating

\* All objects but one are left alone.
LEMMA OthersSame ==
  ASSUME Kept, Kept', \A x \in Obj : Accounted(x), strayed => strayed',
         NEW o, \A x \in Obj : x # o =>
           /\ Apart(x) /\ sha'[x] = sha[x] /\ want'[x] = want[x] /\ Ungiven(x)' = Ungiven(x)
           /\ x \in broken => x \in broken',
         o \in Obj => Accounted(o)'
  PROVE  \A x \in Obj : Accounted(x)'
<1> SUFFICES ASSUME NEW x \in Obj PROVE Accounted(x)'
  OBVIOUS
<1>1. CASE x = o
  BY <1>1
<1>2. CASE x # o
  BY <1>2, AccountSame
<1> QED BY <1>1, <1>2

\* All are.
LEMMA AllSame ==
  ASSUME Kept, Kept', \A x \in Obj : Accounted(x), strayed => strayed',
         sha' = sha, want' = want, broken \subseteq broken',
         \A x \in Obj : Apart(x) /\ Ungiven(x)' = Ungiven(x)
  PROVE  \A x \in Obj : Accounted(x)'
<1> SUFFICES ASSUME NEW x \in Obj PROVE Accounted(x)'
  OBVIOUS
<1> QED BY AccountSame

\* What the server is going to digest of a request that goes out.
LEMMA SentDigest ==
  ASSUME NEW s, NEW p, NEW b, NEW in, p.size # 0 => in = Content(b), mem' = mem,
         net' = Message(s, p, b, FALSE)
  PROVE  Digestible(net)' = p.data \o Part(in, p)
<1>1. net'.data = p.data /\ net'.size = p.size /\ net'.from = p.from /\ net'.buf = b
  BY DEF Message
<1>2. CASE p.size = 0
  BY <1>1, <1>2 DEF Digestible, Part
<1>3. CASE p.size # 0
  <2>1. Content(net.buf)' = in
    BY <1>1, <1>3 DEF Content
  <2> QED BY <1>1, <1>3, <2>1 DEF Digestible, Part
<1> QED BY <1>2, <1>3

\* An update takes c0, read as in, of what there was to take.
LEMMA TakenGood ==
  ASSUME Kept, Kept', NEW o \in Obj, NEW b \in Buf \union {None}, NEW in \in Bytes, NEW p,
         Packs(p, sha[o].buff, in), b = None => p.size = 0, b # None => in = Content(b),
         Absorb(o, p) \/ (b = None /\ Send(o, p)) \/ (b # None /\ SendDma(o, p, b)),
         mem' = mem \/ (Absorb(o, p) /\ pending = None), strayed' = strayed,
         NEW c0 \in Bytes, NEW r \in Bytes, NEW w \in Bytes, Alike(Stray, in, c0),
         ~Failing(o) => Good(Stray, Ahead(o).hash, Ahead(o).len, sha[o].buff, c0 \o r, w)
  PROVE  /\ ~Failing(o)' => Good(Stray', Ahead(o).hash', Ahead(o).len', sha'[o].buff, r, w)
         /\ \A x \in Obj : x # o => Apart(x) /\ sha'[x] = sha[x]
<1>1. AheadFacts /\ AheadFacts'
  BY AheadKnown, PTL
<1>2. sha[o] \in Hashing /\ sha[o].buff \in Bytes /\ sha \in [Obj -> Hashing]
  BY DEF Kept, ObjectsTyped, Hashing
<1>3. p.tail \in Bytes /\ p.data \in Bytes /\ p.size \in Nat
      /\ sha[o].buff \o in = (p.data \o Part(in, p)) \o p.tail
  BY DEF Packs
<1>4. sha' = [sha EXCEPT ![o].buff = p.tail]
  BY DEF Absorb, Send, SendDma
<1>5. /\ sha'[o].buff = p.tail /\ sha'[o].hash = sha[o].hash /\ sha'[o].len = sha[o].len
      /\ \A x \in Obj : x # o => sha'[x] = sha[x]
  BY <1>2, <1>4 DEF Hashing
<1>6. Stray' = Stray
  BY DEF Stray
<1>7. CASE Absorb(o, p)
  <2>1. \A x \in Obj : Apart(x)
    BY <1>7 DEF Absorb, Apart, Updating
  <2>2. /\ Ahead(o).hash' = Ahead(o).hash /\ Ahead(o).len' = Ahead(o).len
        /\ Failing(o)' <=> Failing(o)
    BY <1>5, <2>1, AheadSame
  <2>3. sha[o].buff \o in = p.tail
    <3>1. p.data = <<>> /\ Part(in, p) = <<>>
      BY <1>7 DEF Absorb, NoBlock, Part
    <3>2. <<>> \o <<>> = <<>> /\ <<>> \o p.tail = p.tail
      BY <1>3, EmptyTyped, ConcatEmptySeq DEF Bytes
    <3> QED BY <1>3, <3>1, <3>2
  <2>4. ~Failing(o) => Good(Stray, Ahead(o).hash, Ahead(o).len, p.tail, r, w)
    <3> SUFFICES ASSUME ~Failing(o) PROVE Good(Stray, Ahead(o).hash, Ahead(o).len, p.tail, r, w)
      OBVIOUS
    <3>1. Ahead(o).hash \in Bytes
      BY <1>1 DEF AheadFacts
    <3> QED BY <1>2, <1>3, <2>3, <3>1, GoodStay
  <2> QED BY <1>5, <1>6, <2>1, <2>2, <2>4
<1>8. CASE ~Absorb(o, p)
  <2> DEFINE k == IF b = None THEN "update" ELSE "dma"
             d == p.data \o Part(in, p)
  <2>1. /\ pending = None /\ pending' = [kind |-> k, of |-> o, buf |-> b]
        /\ net' = Message(sha[o], p, b, FALSE) /\ ~NoBlock(p) /\ mem' = mem
    BY <1>8 DEF Send, SendDma, CanSend
  <2>2. pending'.of = o /\ pending'.kind = k /\ pending' # None
    <3>1. k \in {"update", "dma", "final", "rng"} /\ o \in Obj \union {None}
      OBVIOUS
    <3>2. [kind |-> k, of |-> o, buf |-> b] \in [kind: {"update", "dma", "final", "rng"},
            of: Obj \union {None}, buf: Buf \union {None}]
      BY <3>1
    <3> HIDE DEF k
    <3> QED BY <2>1, <3>2, CryptoAssumption
  <2>3. ~Updating(o) /\ Updating(o)'
    BY <2>1, <2>2 DEF Updating
  <2>4. \A x \in Obj : x # o => Apart(x)
    BY <2>1, <2>2, ApartIdle
  <2>5. Digestible(net)' = d
    <3>1. p.size # 0 => in = Content(b)
      OBVIOUS
    <3> QED BY <2>1, <3>1, SentDigest
  <2>6. d \in Bytes
    <3>1. CASE p.size = 0
      BY <1>3, <3>1, EmptyTyped, ConcatTyped DEF Part
    <3>2. CASE p.size # 0
      <4>1. p.from \in Nat /\ p.from + p.size <= Len(in)
        BY <2>1 DEF Packs
      <4>2. SubSeq(in, p.from + 1, p.from + p.size) \in Bytes
        BY <1>3, <4>1, PartTyped
      <4> QED BY <1>3, <3>2, <4>2, ConcatTyped DEF Part
    <3> QED BY <3>1, <3>2
  <2>7. ~IsAnswer' /\ net'.hash = sha[o].hash /\ net'.len = sha[o].len
    BY <2>1 DEF Message, IsAnswer
  <2>8. Good(Stray, sha[o].hash, sha[o].len, sha[o].buff, c0 \o r, w)
    BY <1>1, <2>3 DEF AheadFacts, Failing
  <2> HIDE DEF d
  <2>9. Good(Stray, sha[o].hash \o d, sha[o].len + Len(d), p.tail, r, w)
    <3>1. sha[o].hash \in Bytes /\ sha[o].buff \o in = d \o p.tail
      BY <1>2, <1>3 DEF Hashing, d
    <3> QED BY <1>2, <1>3, <2>6, <2>8, <3>1, GoodMove
  <2>10. Ahead(o).hash' = sha[o].hash \o d /\ Ahead(o).len' = sha[o].len + Len(d)
    BY <1>1, <2>3, <2>5, <2>7 DEF AheadFacts
  <2> QED BY <1>5, <1>6, <2>4, <2>9, <2>10
<1> QED BY <1>7, <1>8

\* The last request stays as it is while what it covers does.
LEMMA EndSame ==
  ASSUME EndGood, UNCHANGED <<pending, net>>, strayed => strayed',
         pending # None /\ pending.kind = "final" =>
           sha'[pending.of] = sha[pending.of] /\ want'[pending.of] = want[pending.of]
  PROVE  EndGood'
<1>1. CASE ~(pending # None /\ pending.kind = "final")
  BY <1>1, Zenon DEF EndGood
<1>2. CASE pending # None /\ pending.kind = "final"
  <2> DEFINE o == pending.of
  <2>1. /\ IsRequest' <=> IsRequest
        /\ IsAnswer' /\ net'.ok <=> IsAnswer /\ net.ok
        /\ pending'.of = o /\ net'.hash = net.hash /\ net'.len = net.len
        /\ net'.data = net.data /\ net'.size = net.size
    BY DEF IsRequest, IsAnswer
  <2>2. IsAnswer /\ net.ok => Alike(Stray', net.hash, want[o]) /\ net.len = Len(want[o])
    BY <1>2, StrayMore, AlikeMore DEF EndGood
  <2>3. IsRequest => /\ net.hash = sha[o].hash /\ net.len = sha[o].len
                     /\ net.data = sha[o].buff /\ net.size = 0
    BY <1>2 DEF EndGood
  <2> QED BY <1>2, <2>1, <2>2, <2>3 DEF EndGood
<1> QED BY <1>1, <1>2

LEMMA EndNone ==
  ASSUME pending' = None \/ pending'.kind # "final"
  PROVE  EndGood'
BY Zenon DEF EndGood

LEMMA EndSent ==
  ASSUME NEW o \in Obj, SendFinal(o)
  PROVE  EndGood'
<1>1. /\ pending' = [kind |-> "final", of |-> o, buf |-> None] /\ net' = FinalMessage(o) /\ sha' = sha
  BY DEF SendFinal
<1>2. /\ net'.hash = sha[o].hash /\ net'.len = sha[o].len /\ net'.data = sha[o].buff
      /\ net'.size = 0 /\ net'.is = "request" /\ pending'.of = o
  BY <1>1 DEF FinalMessage, Message
<1> QED BY <1>1, <1>2 DEF EndGood, IsAnswer

\* What a call would put back stays good.
LEMMA SavedSame ==
  ASSUME SavedGood, strayed => strayed',
         call' # None => call # None /\ call'.saved = call.saved /\ call'.had = call.had
  PROVE  SavedGood'
<1> SUFFICES ASSUME call' # None
             PROVE  Good(Stray', call'.saved.hash, call'.saved.len, call'.saved.buff, <<>>, call'.had)
  BY DEF SavedGood
<1>1. Good(Stray, call.saved.hash, call.saved.len, call.saved.buff, <<>>, call.had)
  BY DEF SavedGood
<1> QED BY <1>1, StrayMore, GoodLater

\* Random bytes stay where they are.
LEMMA NoiseSame ==
  ASSUME NoiseStrayed, strayed => strayed',
         \A b \in Buf : mem'[b] = mem[b] \/ mem'[b].data = <<>> \/ ~mem'[b].noise
  PROVE  NoiseStrayed'
BY Zenon DEF NoiseStrayed

LEMMA NoiseDone ==
  ASSUME MemTyped, NoiseStrayed, strayed => strayed', NEW b, Done(b)
  PROVE  NoiseStrayed'
<1>1. \A x \in Buf : mem'[x] = mem[x] \/ mem'[x] = Free
  BY DEF Done, MemTyped
<1>2. Free.data = <<>>
  BY DEF Free
<1>3. \A x \in Buf : mem'[x] = mem[x] \/ mem'[x].data = <<>>
  BY <1>1, <1>2
<1> QED BY <1>3, NoiseSame

LEMMA NoiseWritten ==
  ASSUME Kept, RngOutstanding, NoiseStrayed, IsRequest, net.op = "rng", strayed' = strayed,
         mem' = [mem EXCEPT ![net.buf].noise = TRUE]
  PROVE  NoiseStrayed'
<1>1. /\ \A x \in Buf : mem'[x].data = mem[x].data
      /\ \A x \in Buf : x # net.buf => mem'[x] = mem[x]
  BY MemWritten DEF Kept, MemTyped
<1>2. ~strayed => mem[net.buf].data = <<>>
  BY DEF RngOutstanding, Kept, PendingKept
<1> SUFFICES ASSUME NEW x \in Buf, mem'[x].noise, mem'[x].data # <<>>, ~strayed PROVE FALSE
  BY Zenon DEF NoiseStrayed
<1>3. CASE x = net.buf
  BY <1>1, <1>2, <1>3
<1>4. CASE x # net.buf
  BY <1>1, <1>4, Zenon DEF NoiseStrayed
<1> QED BY <1>3, <1>4

\* What is read of a buffer is what was put there, but for random bytes.
LEMMA ContentAlike ==
  ASSUME MemHolds, NoiseStrayed, NEW b \in Buf
  PROVE  Alike(Stray, Content(b), mem[b].data)
<1>1. /\ mem[b].data \in Bytes /\ Len(mem[b].data) \in Nat
      /\ Content(b) \in Bytes /\ Len(Content(b)) = Len(mem[b].data)
      /\ DOMAIN mem[b].data = 1 .. Len(mem[b].data)
  BY ContentTyped, LenProperties DEF Bytes
<1>2. CASE ~mem[b].noise
  <2>1. Content(b) = mem[b].data
    BY <1>2 DEF Content
  <2> QED BY <2>1, AlikeSelf
<1>3. CASE mem[b].noise /\ mem[b].data = <<>>
  BY <1>1, <1>3, EmptyTyped DEF Alike
<1>4. CASE mem[b].noise /\ mem[b].data # <<>>
  <2>1. Noise \in Stray
    <3>1. strayed
      BY <1>4 DEF NoiseStrayed
    <3> QED BY <3>1 DEF Stray
  <2>2. \A i \in 1 .. Len(mem[b].data) : Content(b)[i] = Noise
    <3>1. Content(b) = [i \in DOMAIN mem[b].data |-> Noise]
      BY <1>4 DEF Content
    <3> QED BY <1>1, <3>1
  <2> QED BY <1>1, <2>1, <2>2 DEF Alike
<1> QED BY <1>2, <1>3, <1>4

\* Nothing is left to be taken outside a call.
LEMMA UngivenNone ==
  ASSUME call = None
  PROVE  \A o : Ungiven(o) = <<>>
BY DEF Ungiven

LEMMA UpdateRequestCounted ==
  ASSUME Kept, Kept', Counted, NEW o \in Obj, UpdateRequest(o)
  PROVE  Counted'
<1>1. /\ call = None /\ call' = None /\ o \notin broken
      /\ ~(pending # None /\ pending.kind = "final" /\ pending.of = o)
      /\ UNCHANGED <<mem, broken, strayed>>
  BY DEF UpdateRequest, Open
<1>2. PICK n \in 1 .. MaxLen - Len(want[o]) :
        LET p == Pack(sha[o], Input(o, n)) IN
        /\ n <= Capacity(sha[o])
        /\ \/ /\ Absorb(o, p) \/ Send(o, p)
              /\ want' = [want EXCEPT ![o] = @ \o Input(o, n)]
           \/ Refuse(o, p) /\ UNCHANGED want
  BY DEF UpdateRequest
<1> DEFINE in == Input(o, n)
           p == Pack(sha[o], in)
<1>3. n \in Nat
  <2>1. MaxLen - Len(want[o]) \in Int
    BY EmptyTyped, CryptoAssumption DEF Kept, ObjectsTyped
  <2> QED BY <2>1
<1>4. in \in Bytes /\ Len(in) = n
  BY <1>3, InputTyped DEF Kept
<1>5. Packs(p, sha[o].buff, in) /\ p.size = 0
  <2>1. sha[o] \in Hashing /\ Len(sha[o].buff) < Block
    BY DEF Kept, ObjectsTyped
  <2>2. p.size = 0
    BY DEF Pack
  <2> QED BY <1>2, <1>4, <2>1, <2>2, PackPacks
<1>6. /\ \A x : Ungiven(x) = <<>> /\ Ungiven(x)' = <<>>
      /\ SavedGood' /\ NoiseStrayed'
  BY <1>1, SavedSame, NoiseSame DEF Ungiven, Counted
<1>7. CASE (Absorb(o, p) \/ Send(o, p)) /\ want' = [want EXCEPT ![o] = @ \o in]
  <2> HIDE DEF p, in
  <2>1. /\ sha[o].buff \in Bytes /\ want[o] \in Bytes /\ want[o] \o in \in Bytes
        /\ want \in [Obj -> Bytes]
    BY <1>4, ConcatTyped DEF Kept, ObjectsTyped, Hashing
  <2>2. ~Failing(o) => Good(Stray, Ahead(o).hash, Ahead(o).len, sha[o].buff, in \o <<>>, want[o] \o in)
    <3> SUFFICES ASSUME ~Failing(o)
                 PROVE  Good(Stray, Ahead(o).hash, Ahead(o).len, sha[o].buff, in \o <<>>, want[o] \o in)
      OBVIOUS
    <3>1. Ahead(o).hash \in Bytes
      BY AheadKnown DEF AheadFacts
    <3>2. Good(Stray, Ahead(o).hash, Ahead(o).len, sha[o].buff, <<>>, want[o])
      BY <1>1, <1>6 DEF Counted, Accounted
    <3>3. Good(Stray, Ahead(o).hash, Ahead(o).len, sha[o].buff, in, want[o] \o in)
      BY <1>4, <2>1, <3>1, <3>2, GoodMore
    <3>4. in \o <<>> = in
      BY <1>4, ConcatEmptySeq DEF Bytes
    <3> QED BY <3>3, <3>4
  <2>3. /\ None \in Buf \union {None} /\ <<>> \in Bytes
        /\ Absorb(o, p) \/ (None = None /\ Send(o, p)) \/ (None # None /\ SendDma(o, p, None))
    BY <1>7, EmptyTyped
  <2>4. /\ ~Failing(o)' => Good(Stray', Ahead(o).hash', Ahead(o).len', sha'[o].buff, <<>>, want[o] \o in)
        /\ \A x \in Obj : x # o => Apart(x) /\ sha'[x] = sha[x]
    BY <1>1, <1>4, <1>5, <2>1, <2>2, <2>3, AlikeSelf, TakenGood
  <2>5. want'[o] = want[o] \o in /\ \A x \in Obj : x # o => want'[x] = want[x]
    BY <1>7, <2>1
  <2>6. Accounted(o)'
    BY <1>6, <2>4, <2>5 DEF Accounted
  <2>7. \A x \in Obj : Accounted(x)'
    BY <1>1, <1>6, <2>4, <2>5, <2>6, OthersSame DEF Counted
  <2>8. EndGood'
    <3>1. CASE Absorb(o, p)
      <4>1. pending # None /\ pending.kind = "final" =>
              sha'[pending.of] = sha[pending.of] /\ want'[pending.of] = want[pending.of]
        BY <1>1, <2>4, <2>5 DEF Kept, PendingKept
      <4> QED BY <1>1, <3>1, <4>1, EndSame DEF Absorb, Counted
    <3>2. CASE Send(o, p)
      BY <3>2, EndNone DEF Send
    <3> QED BY <1>7, <3>1, <3>2
  <2> QED BY <1>6, <2>7, <2>8 DEF Counted
<1>8. CASE Refuse(o, p) /\ UNCHANGED want
  <2>1. sha' = sha /\ UNCHANGED <<pending, net>>
    <3>1. sha[o] \in Hashing /\ sha \in [Obj -> Hashing]
      BY DEF Kept, ObjectsTyped
    <3>2. [sha[o] EXCEPT !.buff = sha[o].buff] = sha[o]
      BY <3>1, BuffSame
    <3>3. sha' = [sha EXCEPT ![o].buff = @] /\ UNCHANGED <<pending, net>>
      BY <1>8 DEF Refuse, Undone
    <3> QED BY <3>1, <3>2, <3>3
  <2>2. \A x \in Obj : Apart(x)
    BY <1>1, <2>1 DEF Apart
  <2> QED BY <1>1, <1>6, <1>8, <2>1, <2>2, AllSame, EndSame DEF Counted
<1> QED BY <1>2, <1>7, <1>8

\* An object with the digest that came back accounts for what it did.
LEMMA ResumedGood ==
  ASSUME Kept, Kept', NEW o \in Obj \ broken, Answered({"update", "dma"}, o), Accounted(o),
         sha' = [sha EXCEPT ![o] = Resumed(o)], want' = want, Ungiven(o)' = Ungiven(o),
         pending' = None, strayed' = strayed
  PROVE  Accounted(o)'
<1>1. AheadFacts /\ AheadFacts'
  BY AheadKnown, PTL
<1>2. Updating(o) /\ IsAnswer /\ ~Failing(o) /\ ~Updating(o)'
  BY DEF Answered, Updating, Failing
<1>3. Good(Stray, net.hash, net.len, sha[o].buff, Ungiven(o), want[o])
  BY <1>1, <1>2 DEF Accounted, AheadFacts
<1>4. sha'[o].hash = net.hash /\ sha'[o].len = net.len /\ sha'[o].buff = sha[o].buff
  BY ResumedTyped DEF Kept, ObjectsTyped
<1>5. Ahead(o).hash' = net.hash /\ Ahead(o).len' = net.len
  BY <1>1, <1>2, <1>4 DEF AheadFacts
<1>6. Stray' = Stray
  BY DEF Stray
<1> QED BY <1>3, <1>4, <1>5, <1>6 DEF Accounted

\* An object that starts anew has nothing to account for.
LEMMA FreshGood ==
  ASSUME Kept', NEW o \in Obj, ~Updating(o)', sha'[o] = Fresh, want'[o] = <<>>,
         Ungiven(o)' = <<>>
  PROVE  Accounted(o)'
<1>1. AheadFacts'
  BY AheadKnown, PTL
<1>2. Ahead(o).hash' = Fresh.hash /\ Ahead(o).len' = Fresh.len
  BY <1>1 DEF AheadFacts
<1> QED BY <1>2, GoodFresh DEF Accounted

LEMMA UpdateResponseCounted ==
  ASSUME Kept, Kept', Counted, NEW o \in Obj, UpdateResponse(o)
  PROVE  Counted'
<1>1. /\ call = None /\ call' = None /\ UNCHANGED <<want, strayed>> /\ Done(pending.buf)
      /\ pending # None /\ pending.of = o /\ pending' = None
      /\ broken \subseteq broken'
  BY DEF UpdateResponse, Answered, Failed, Receive
<1>2. /\ \A x : Ungiven(x) = <<>> /\ Ungiven(x)' = <<>>
      /\ SavedGood' /\ NoiseStrayed' /\ EndGood'
  BY <1>1, SavedSame, NoiseDone, EndNone DEF Ungiven, Counted, Kept
<1>3. o \notin broken
  BY <1>1 DEF UpdateResponse, Answered, Failed, Kept, PendingKept
<1>4. Accounted(o)'
  <2>1. CASE Answered({"update", "dma"}, o) /\ sha' = [sha EXCEPT ![o] = Resumed(o)]
    BY <1>1, <1>2, <1>3, <2>1, ResumedGood DEF Counted
  <2>2. CASE broken' = broken \union {o}
    BY <2>2 DEF Accounted
  <2> QED BY <2>1, <2>2 DEF UpdateResponse
<1>5. \A x \in Obj : x # o => Apart(x) /\ sha'[x] = sha[x]
  <2>1. \A x \in Obj : x # o => Apart(x)
    BY <1>1, ApartOver
  <2> QED BY <2>1 DEF UpdateResponse, Kept, ObjectsTyped
<1>6. \A x \in Obj : Accounted(x)'
  BY <1>1, <1>2, <1>4, <1>5, OthersSame DEF Counted
<1> QED BY <1>2, <1>6 DEF Counted

\* The end of a hash goes out.
LEMMA FinalSentCounted ==
  ASSUME Kept, Kept', Counted, NEW o \in Obj, SendFinal(o),
         UNCHANGED <<mem, call, want, broken, strayed>>
  PROVE  Counted'
<1>1. /\ pending = None /\ pending' = [kind |-> "final", of |-> o, buf |-> None] /\ sha' = sha
  BY DEF SendFinal, CanSend
<1>2. \A x \in Obj : Apart(x) /\ Ungiven(x)' = Ungiven(x)
  BY <1>1, ApartIdle DEF Ungiven
<1>3. \A x \in Obj : Accounted(x)'
  BY <1>1, <1>2, AllSame DEF Counted
<1> QED BY <1>3, SavedSame, NoiseSame, EndSent DEF Counted

LEMMA FinalRequestCounted ==
  ASSUME Kept, Kept', Counted, NEW o \in Obj, FinalRequest(o)
  PROVE  Counted'
BY FinalSentCounted DEF FinalRequest

LEMMA FinalResponseCounted ==
  ASSUME Kept, Kept', Counted, NEW o \in Obj, FinalResponse(o)
  PROVE  Counted'
<1>1. /\ call = None /\ call' = None /\ UNCHANGED <<mem, broken, strayed>>
      /\ pending # None /\ pending.kind = "final" /\ pending' = None
      /\ \/ sha' = [sha EXCEPT ![o] = Fresh] /\ want' = [want EXCEPT ![o] = <<>>]
         \/ UNCHANGED <<sha, want>>
  BY DEF FinalResponse, Answered, Failed, Receive, Digested
<1>2. /\ \A x : Ungiven(x) = <<>> /\ Ungiven(x)' = <<>>
      /\ SavedGood' /\ NoiseStrayed' /\ EndGood'
  BY <1>1, SavedSame, NoiseSame, EndNone DEF Ungiven, Counted
<1>3. \A x \in Obj : Apart(x) /\ ~Updating(x)'
  BY <1>1, ApartOver DEF Updating
<1>4. \A x \in Obj : Accounted(x)'
  <2>1. CASE UNCHANGED <<sha, want>>
    BY <1>1, <1>2, <1>3, <2>1, AllSame DEF Counted
  <2>2. CASE sha' = [sha EXCEPT ![o] = Fresh] /\ want' = [want EXCEPT ![o] = <<>>]
    <3>1. /\ sha'[o] = Fresh /\ want'[o] = <<>>
          /\ \A x \in Obj : x # o => sha'[x] = sha[x] /\ want'[x] = want[x]
      BY <2>2 DEF Kept, ObjectsTyped
    <3>2. Accounted(o)'
      BY <1>2, <1>3, <3>1, FreshGood
    <3> QED BY <1>1, <1>2, <1>3, <3>1, <3>2, OthersSame DEF Counted
  <2> QED BY <1>1, <2>1, <2>2
<1> QED BY <1>2, <1>4 DEF Counted

LEMMA RestartCounted ==
  ASSUME Kept, Kept', Counted, NEW o \in Obj, Restart(o)
  PROVE  Counted'
<1>1. /\ call = None /\ call' = None /\ UNCHANGED <<pending, net, strayed>> /\ o \in broken
      /\ sha' = [sha EXCEPT ![o] = Fresh] /\ want' = [want EXCEPT ![o] = <<>>]
      /\ broken' = broken \ {o}
      /\ mem' = [b \in Buf |-> IF LaidIn(o, b) THEN Free ELSE mem[b]]
  BY DEF Restart
<1>2. /\ \A x : Ungiven(x) = <<>> /\ Ungiven(x)' = <<>>
      /\ SavedGood'
  BY <1>1, SavedSame DEF Ungiven, Counted
<1>3. NoiseStrayed'
  <2>1. \A b \in Buf : mem'[b] = mem[b] \/ mem'[b].data = <<>>
    BY <1>1 DEF Free
  <2> QED BY <1>1, <2>1, NoiseSame DEF Counted
<1>4. /\ sha'[o] = Fresh /\ want'[o] = <<>>
      /\ \A x \in Obj : x # o => sha'[x] = sha[x] /\ want'[x] = want[x]
  BY <1>1 DEF Kept, ObjectsTyped
<1>5. pending # None /\ pending.kind # "rng" => pending.of # o
  BY <1>1 DEF Kept, PendingKept
<1>6. EndGood'
  BY <1>1, <1>4, <1>5, EndSame DEF Counted, Kept, PendingKept
<1>7. ASSUME NEW x \in Obj
      PROVE  Apart(x)
  <2>1. ASSUME Updating(x), pending.kind = "dma"
        PROVE  mem'[pending.buf] = mem[pending.buf]
    <3>1. /\ pending.buf \in Buf /\ pending.of # o
          /\ \A i \in DOMAIN mem[pending.buf].data : mem[pending.buf].data[i][1] = pending.of
      BY <1>1, <1>5, <2>1 DEF Kept, PendingKept, Updating
    <3>2. ~LaidIn(o, pending.buf)
      BY <3>1 DEF LaidIn
    <3> QED BY <1>1, <3>1, <3>2
  <2> QED BY <1>1, <2>1 DEF Apart
<1>8. Accounted(o)'
  <2>1. ~Updating(o)'
    BY <1>1, <1>5 DEF Updating
  <2> QED BY <1>2, <1>4, <2>1, FreshGood
<1>9. \A x \in Obj : Accounted(x)'
  BY <1>1, <1>2, <1>4, <1>7, <1>8, OthersSame DEF Counted
<1> QED BY <1>2, <1>3, <1>6, <1>9 DEF Counted

LEMMA FillCounted ==
  ASSUME Kept, Kept', Counted, NEW o \in Obj, NEW b \in Buf, Fill(o, b)
  PROVE  Counted'
<1>1. /\ call = None /\ UNCHANGED <<sha, pending, net, call, want, broken, strayed>>
      /\ pending # None => pending.buf # b
  BY DEF Fill, state
<1>2. PICK n \in 1 .. MaxLen - Len(want[o]) :
        mem' = [mem EXCEPT ![b] = [data |-> Input(o, n), noise |-> FALSE]]
  BY DEF Fill
<1>3. \A x \in Buf : x # b => mem'[x] = mem[x]
  BY <1>2 DEF Kept, MemTyped
<1>4. ~mem'[b].noise
  <2>1. mem'[b] = [data |-> Input(o, n), noise |-> FALSE]
    BY <1>2 DEF Kept, MemTyped
  <2> QED BY <2>1
<1>5. NoiseStrayed'
  <2>1. \A x \in Buf : mem'[x] = mem[x] \/ mem'[x].data = <<>> \/ ~mem'[x].noise
    BY <1>3, <1>4
  <2> QED BY <1>1, <2>1, NoiseSame DEF Counted
<1>6. \A x \in Obj : Apart(x) /\ Ungiven(x)' = Ungiven(x)
  <2>1. \A x \in Obj : Updating(x) /\ pending.kind = "dma" => mem'[pending.buf] = mem[pending.buf]
    BY <1>1, <1>3 DEF Updating, Kept, PendingKept
  <2> QED BY <1>1, <2>1 DEF Apart, Ungiven
<1>7. \A x \in Obj : Accounted(x)'
  BY <1>1, <1>6, AllSame DEF Counted
<1> QED BY <1>1, <1>5, <1>7, SavedSame, EndSame DEF Counted

LEMMA DmaUpdateRequestCounted ==
  ASSUME Kept, Kept', Counted, NEW o \in Obj, NEW b \in Buf, DmaUpdateRequest(o, b)
  PROVE  Counted'
<1> DEFINE in == Content(b)
           c0 == mem[b].data
           p == PackDma(sha[o], in)
<1>1. /\ call = None /\ call' = None /\ o \notin broken
      /\ ~(pending # None /\ pending.kind = "final" /\ pending.of = o)
      /\ UNCHANGED <<broken, strayed>>
      /\ \/ /\ \/ AbsorbDma(o, p) /\ Done(b)
               \/ SendDma(o, p, b) /\ mem' = mem
            /\ want' = [want EXCEPT ![o] = @ \o c0]
         \/ RefuseDma(o, p, b) /\ UNCHANGED <<mem, want>>
  BY DEF DmaUpdateRequest, Open
<1>2. c0 \in Bytes /\ in \in Bytes /\ Alike(Stray, in, c0)
  BY ContentTyped, ContentAlike DEF Kept, Counted
<1>3. Packs(p, sha[o].buff, in)
  BY <1>2, PackDmaPacks DEF Kept, ObjectsTyped
<1>4. /\ \A x : Ungiven(x) = <<>> /\ Ungiven(x)' = <<>>
      /\ SavedGood' /\ NoiseStrayed'
  <2>1. NoiseStrayed'
    BY <1>1, NoiseSame, NoiseDone DEF Counted, Kept
  <2> QED BY <1>1, <2>1, SavedSame DEF Ungiven, Counted
<1>5. CASE /\ \/ AbsorbDma(o, p) /\ Done(b)
              \/ SendDma(o, p, b) /\ mem' = mem
           /\ want' = [want EXCEPT ![o] = @ \o c0]
  <2>1. /\ sha[o].buff \in Bytes /\ want[o] \in Bytes /\ want[o] \o c0 \in Bytes
        /\ want \in [Obj -> Bytes]
    BY <1>2, ConcatTyped DEF Kept, ObjectsTyped, Hashing
  <2>2. b \in Buf \union {None} /\ b # None /\ <<>> \in Bytes /\ in = Content(b)
    BY EmptyTyped, CryptoAssumption
  <2>3. /\ Absorb(o, p) \/ (b # None /\ SendDma(o, p, b))
        /\ mem' = mem \/ (Absorb(o, p) /\ pending = None)
        /\ pending = None
    BY <1>5, <2>2 DEF AbsorbDma, SendDma, CanSend
  <2> HIDE DEF p, in, c0
  <2>4. ~Failing(o) => Good(Stray, Ahead(o).hash, Ahead(o).len, sha[o].buff, c0 \o <<>>, want[o] \o c0)
    <3> SUFFICES ASSUME ~Failing(o)
                 PROVE  Good(Stray, Ahead(o).hash, Ahead(o).len, sha[o].buff, c0 \o <<>>, want[o] \o c0)
      OBVIOUS
    <3>1. Ahead(o).hash \in Bytes
      BY AheadKnown DEF AheadFacts
    <3>2. Good(Stray, Ahead(o).hash, Ahead(o).len, sha[o].buff, <<>>, want[o])
      BY <1>1, <1>4 DEF Counted, Accounted
    <3>3. Good(Stray, Ahead(o).hash, Ahead(o).len, sha[o].buff, c0, want[o] \o c0)
      BY <1>2, <2>1, <3>1, <3>2, GoodMore
    <3>4. c0 \o <<>> = c0
      BY <1>2, ConcatEmptySeq DEF Bytes
    <3> QED BY <3>3, <3>4
  <2>5. /\ ~Failing(o)' => Good(Stray', Ahead(o).hash', Ahead(o).len', sha'[o].buff, <<>>, want[o] \o c0)
        /\ \A x \in Obj : x # o => Apart(x) /\ sha'[x] = sha[x]
    BY <1>1, <1>2, <1>3, <2>1, <2>2, <2>3, <2>4, TakenGood
  <2>6. want'[o] = want[o] \o c0 /\ \A x \in Obj : x # o => want'[x] = want[x]
    BY <1>5, <2>1
  <2>7. Accounted(o)'
    BY <1>4, <2>5, <2>6 DEF Accounted
  <2>8. \A x \in Obj : Accounted(x)'
    BY <1>1, <1>4, <2>5, <2>6, <2>7, OthersSame DEF Counted
  <2>9. EndGood'
    <3>1. CASE Absorb(o, p)
      BY <2>3, <3>1, EndNone DEF Absorb
    <3>2. CASE SendDma(o, p, b)
      <4>1. pending' = [kind |-> "dma", of |-> o, buf |-> b]
        BY <3>2 DEF SendDma
      <4>2. pending'.kind # "final"
        BY <4>1
      <4> QED BY <4>2, EndNone
    <3> QED BY <2>3, <3>1, <3>2
  <2> QED BY <1>4, <2>8, <2>9 DEF Counted
<1>6. CASE RefuseDma(o, p, b) /\ UNCHANGED <<mem, want>>
  <2>1. sha' = sha /\ UNCHANGED <<pending, net>>
    <3>1. sha[o] \in Hashing /\ sha \in [Obj -> Hashing]
      BY DEF Kept, ObjectsTyped
    <3>2. [sha[o] EXCEPT !.buff = sha[o].buff] = sha[o]
      BY <3>1, BuffSame
    <3>3. sha' = [sha EXCEPT ![o].buff = @] /\ UNCHANGED <<pending, net>>
      BY <1>6 DEF RefuseDma, Undone
    <3> QED BY <3>1, <3>2, <3>3
  <2>2. \A x \in Obj : Apart(x)
    BY <1>6, <2>1 DEF Apart
  <2> QED BY <1>1, <1>4, <1>6, <2>1, <2>2, AllSame, EndSame DEF Counted
<1> QED BY <1>1, <1>5, <1>6

LEMMA RngDmaRequestCounted ==
  ASSUME Kept, Kept', Counted, NEW b \in Buf, RngDmaRequest(b)
  PROVE  Counted'
<1>1. /\ pending = None /\ UNCHANGED <<sha, mem, call, want, broken, strayed>>
      /\ pending' = None \/ pending'.kind = "rng"
  BY DEF RngDmaRequest
<1>2. \A x \in Obj : Apart(x) /\ Ungiven(x)' = Ungiven(x)
  BY <1>1, ApartIdle DEF Ungiven
<1>3. \A x \in Obj : Accounted(x)'
  BY <1>1, <1>2, AllSame DEF Counted
<1>4. EndGood'
  BY <1>1, EndNone
<1> QED BY <1>1, <1>3, <1>4, SavedSame, NoiseSame DEF Counted

LEMMA RngDmaResponseCounted ==
  ASSUME Kept, Kept', Counted, RngDmaResponse
  PROVE  Counted'
<1>1. /\ UNCHANGED <<sha, call, want, broken>> /\ Done(pending.buf)
      /\ pending # None /\ pending.kind = "rng" /\ pending' = None
  BY DEF RngDmaResponse, Answered, Failed, Receive
<1>2. strayed => strayed'
  BY Zenon DEF RngDmaResponse
<1>3. \A x \in Obj : Apart(x) /\ Ungiven(x)' = Ungiven(x)
  BY <1>1, ApartOver DEF Ungiven
<1>4. \A x \in Obj : Accounted(x)'
  BY <1>1, <1>2, <1>3, AllSame DEF Counted
<1>5. EndGood' /\ NoiseStrayed'
  BY <1>1, <1>2, EndNone, NoiseDone DEF Counted, Kept
<1> QED BY <1>1, <1>2, <1>4, <1>5, SavedSame DEF Counted

\* A blocking call begins: its input is still to be taken, and what it
\* would put back is the object as it is.
LEMMA CallBeginsCounted ==
  ASSUME Kept, Kept', Counted, NEW o \in Obj, NEW b \in Buf \union {None}, NEW in \in Bytes,
         NEW final \in BOOLEAN, Call(o, b, in, final)
  PROVE  Counted'
<1>1. /\ call = None /\ pending = None /\ o \notin broken
      /\ UNCHANGED <<sha, pending, net, mem, broken, strayed>>
      /\ want' = [want EXCEPT ![o] = @ \o in]
      /\ call' = [of |-> o, buf |-> b, rest |-> in, final |-> final,
                  saved |-> sha[o], had |-> want[o]]
  BY DEF Call, state
<1>2. sha[o] \in Hashing /\ want[o] \in Bytes /\ sha[o].hash \in Bytes /\ sha[o].buff \in Bytes
  BY DEF Kept, ObjectsTyped, Hashing
<1>3. /\ call'.of = o /\ call'.rest = in /\ call'.saved = sha[o] /\ call'.had = want[o]
  BY <1>1
<1>4. call' # None
  <2>1. call' \in CallRecord
    BY <1>1, <1>2 DEF CallRecord
  <2> QED BY <2>1, RecordsReal
<1>5. /\ Ungiven(o)' = in /\ \A x : Ungiven(x) = <<>>
      /\ \A x : x # o => Ungiven(x)' = <<>>
  BY <1>1, <1>3, <1>4 DEF Ungiven
<1>6. \A x \in Obj : Apart(x) /\ ~Updating(x) /\ ~Updating(x)'
  BY <1>1 DEF Apart, Updating
<1>7. /\ want'[o] = want[o] \o in
      /\ \A x \in Obj : x # o => want'[x] = want[x]
  BY <1>1 DEF Kept, ObjectsTyped
<1>8. Stray' = Stray
  BY <1>1 DEF Stray
<1>9. Good(Stray, sha[o].hash, sha[o].len, sha[o].buff, <<>>, want[o])
  <2>1. Accounted(o) /\ ~Failing(o)
    BY <1>6 DEF Counted, Failing
  <2>2. Ahead(o).hash = sha[o].hash /\ Ahead(o).len = sha[o].len
    BY <1>6, AheadKnown DEF AheadFacts
  <2> QED BY <1>1, <1>5, <2>1, <2>2 DEF Accounted
<1>10. Accounted(o)'
  <2>1. Good(Stray, sha[o].hash, sha[o].len, sha[o].buff, in, want[o] \o in)
    BY <1>2, <1>9, GoodMore
  <2>2. AheadFacts'
    BY AheadKnown, PTL
  <2>3. Ahead(o).hash' = sha[o].hash /\ Ahead(o).len' = sha[o].len
    BY <1>1, <1>6, <2>2 DEF AheadFacts
  <2> QED BY <1>1, <1>5, <1>7, <1>8, <2>1, <2>3 DEF Accounted
<1>11. \A x \in Obj : Accounted(x)'
  BY <1>1, <1>5, <1>6, <1>7, <1>10, OthersSame DEF Counted
<1>12. SavedGood'
  BY <1>3, <1>8, <1>9 DEF SavedGood
<1>13. NoiseStrayed' /\ EndGood'
  BY <1>1, NoiseSame, EndNone DEF Counted
<1> QED BY <1>11, <1>12, <1>13 DEF Counted

LEMMA Sha256Counted ==
  ASSUME Kept, Kept', Counted, NEW o \in Obj, Sha256(o)
  PROVE  Counted'
<1>1. PICK n \in 0 .. MaxLen - Len(want[o]), final \in BOOLEAN : Call(o, None, Input(o, n), final)
  BY DEF Sha256
<1>2. n \in Nat
  <2>1. MaxLen - Len(want[o]) \in Int
    BY EmptyTyped, CryptoAssumption DEF Kept, ObjectsTyped
  <2> QED BY <2>1
<1>3. Input(o, n) \in Bytes /\ None \in Buf \union {None}
  BY <1>2, InputTyped DEF Kept
<1> QED BY <1>1, <1>3, CallBeginsCounted

LEMMA Sha256DmaCounted ==
  ASSUME Kept, Kept', Counted, NEW o \in Obj, NEW b \in Buf, Sha256Dma(o, b)
  PROVE  Counted'
<1>1. PICK final \in BOOLEAN : Call(o, b, mem[b].data, final)
  BY DEF Sha256Dma
<1>2. mem[b].data \in Bytes /\ b \in Buf \union {None}
  BY ContentTyped DEF Kept
<1> QED BY <1>1, <1>2, CallBeginsCounted

\* A call that fails puts back an object that accounts for what it had.
LEMMA AbortCounted ==
  ASSUME Kept, Kept', Counted, call # None, Abort, pending' = None,
         UNCHANGED <<broken, strayed>>, \A x \in Obj : x # call.of => Apart(x)
  PROVE  Counted'
<1>1. PICK o \in Obj : o = call.of
  BY DEF Kept, CallKept, CallRecord
<1>2. /\ sha' = [sha EXCEPT ![o] = call.saved] /\ want' = [want EXCEPT ![o] = call.had]
      /\ call' = None /\ Done(call.buf)
  BY <1>1 DEF Abort, Restored
<1>3. /\ sha'[o] = call.saved /\ want'[o] = call.had
      /\ \A x \in Obj : x # o => sha'[x] = sha[x] /\ want'[x] = want[x]
  BY <1>2 DEF Kept, ObjectsTyped
<1>4. /\ \A x : Ungiven(x)' = <<>>
      /\ \A x : x # o => Ungiven(x) = <<>>
  BY <1>1, <1>2 DEF Ungiven
<1>5. Accounted(o)'
  <2>1. AheadFacts'
    BY AheadKnown, PTL
  <2>2. Ahead(o).hash' = call.saved.hash /\ Ahead(o).len' = call.saved.len
    BY <1>3, <2>1 DEF AheadFacts, Updating
  <2>3. Good(Stray, call.saved.hash, call.saved.len, call.saved.buff, <<>>, call.had)
    BY DEF Counted, SavedGood
  <2>4. Stray' = Stray
    BY DEF Stray
  <2> QED BY <1>3, <1>4, <2>2, <2>3, <2>4 DEF Accounted
<1>6. \A x \in Obj : Accounted(x)'
  BY <1>1, <1>3, <1>4, <1>5, OthersSame DEF Counted
<1>7. SavedGood' /\ NoiseStrayed' /\ EndGood'
  BY <1>2, NoiseDone, EndNone DEF SavedGood, Counted, Kept
<1> QED BY <1>6, <1>7 DEF Counted

\* All of a sequence.
LEMMA Whole ==
  ASSUME NEW s \in Bytes
  PROVE  SubSeq(s, 1, Len(s)) = s
<1>1. Len(s) \in Nat /\ <<>> \in Bytes /\ Len(<<>>) = 0
  BY EmptyTyped
<1>2. SubSeq(s, 1, Len(s)) \in Bytes /\ Len(SubSeq(s, 1, Len(s))) = Len(s)
      /\ \A i \in 1 .. Len(s) : SubSeq(s, 1, Len(s))[i] = s[i]
  BY <1>1, PrefixTyped
<1> QED BY <1>1, <1>2, SeqEqual DEF Bytes

\* The call takes some of its input, or fails and puts the object back.
LEMMA CallUpdateCounted ==
  ASSUME Kept, Kept', Counted, CallUpdate
  PROVE  Counted'
<1>1. PICK o, n, in, p :
        /\ o = call.of
        /\ IF call.buf = None
           THEN n = Min2(Len(call.rest), Capacity(sha[o])) /\ in = SubSeq(call.rest, 1, n)
           ELSE n = Len(call.rest) /\ in = Content(call.buf)
        /\ p = IF call.buf = None THEN Pack(sha[o], in) ELSE PackDma(sha[o], in)
  <2>1. PICK o, n : o = call.of /\ n = IF call.buf = None THEN Min2(Len(call.rest), Capacity(sha[o]))
                                       ELSE Len(call.rest)
    OBVIOUS
  <2>2. PICK in, p : /\ in = IF call.buf = None THEN SubSeq(call.rest, 1, n) ELSE Content(call.buf)
                     /\ p = IF call.buf = None THEN Pack(sha[o], in) ELSE PackDma(sha[o], in)
    OBVIOUS
  <2> QED BY <2>1, <2>2
<1>2. /\ call # None /\ pending = None /\ call.rest # <<>> /\ UNCHANGED <<broken, strayed>>
      /\ \/ /\ \/ Absorb(o, p)
               \/ call.buf = None /\ Send(o, p)
               \/ call.buf # None /\ SendDma(o, p, call.buf)
            /\ call' = [call EXCEPT !.rest = Suffix(@, n)]
            /\ UNCHANGED <<mem, want>>
         \/ Abort /\ UNCHANGED <<pending, net>>
  BY <1>1 DEF CallUpdate
<1>3. /\ o \in Obj \ broken /\ n \in Nat /\ n <= Len(call.rest)
      /\ in \in Bytes /\ Packs(p, sha[o].buff, in)
      /\ call.buf = None => p.size = 0
  <2>1. IF call.buf = None
        THEN n = Min2(Len(call.rest), Capacity(sha[o])) /\ in = SubSeq(call.rest, 1, n)
        ELSE n = Len(call.rest) /\ in = Content(call.buf)
    BY <1>1
  <2>2. o = call.of /\ p = IF call.buf = None THEN Pack(sha[o], in) ELSE PackDma(sha[o], in)
    BY <1>1
  <2>3. Kept /\ call # None /\ call.rest # <<>>
    BY <1>2
  <2> HIDE DEF Kept
  <2> QED BY <2>1, <2>2, <2>3, CallPacks
<1>4. CASE Abort /\ UNCHANGED <<pending, net>>
  <2>1. \A x \in Obj : Apart(x)
    BY <1>2, <1>4 DEF Apart, Updating
  <2> QED BY <1>2, <1>4, <2>1, AbortCounted
<1>5. CASE /\ \/ Absorb(o, p)
              \/ call.buf = None /\ Send(o, p)
              \/ call.buf # None /\ SendDma(o, p, call.buf)
           /\ call' = [call EXCEPT !.rest = Suffix(@, n)]
           /\ UNCHANGED <<mem, want>>
  <2> DEFINE r == Suffix(call.rest, n)
             c0 == SubSeq(call.rest, 1, n)
  <2>1. call \in CallRecord /\ call.rest \in Bytes /\ call.buf \in Buf \union {None}
    BY <1>2 DEF Kept, CallKept, CallRecord
  <2>2. r \in Bytes /\ c0 \in Bytes /\ c0 \o r = call.rest
    BY <1>3, <2>1, SuffixTyped, PrefixTyped, Halves
  <2>3. Alike(Stray, in, c0)
    <3>1. CASE call.buf = None
      BY <1>1, <3>1, AlikeSelf
    <3>2. CASE call.buf # None
      <4>1. mem[call.buf].data = call.rest /\ call.buf \in Buf
        BY <1>2, <2>1, <3>2 DEF Kept, CallKept
      <4>2. Alike(Stray, in, call.rest)
        BY <1>1, <3>2, <4>1, ContentAlike DEF Kept, Counted
      <4>3. c0 = call.rest
        BY <1>1, <2>1, <3>2, Whole
      <4> QED BY <4>2, <4>3
    <3> QED BY <3>1, <3>2
  <2> HIDE DEF r, c0
  <2>4. call' = [call EXCEPT !.rest = r]
    BY <1>5 DEF r
  <2>5. /\ call' # None /\ call'.of = o /\ call'.rest = r /\ call'.saved = call.saved
        /\ call'.had = call.had
    BY <1>1, <2>1, <2>2, <2>4, RecordsReal DEF CallRecord
  <2>6. /\ Ungiven(o) = call.rest /\ Ungiven(o)' = r
        /\ \A x : x # o => Ungiven(x) = <<>> /\ Ungiven(x)' = <<>>
    BY <1>1, <1>2, <2>5 DEF Ungiven
  <2>7. ~Failing(o) => Good(Stray, Ahead(o).hash, Ahead(o).len, sha[o].buff, c0 \o r, want[o])
    BY <1>3, <2>2, <2>6 DEF Counted, Accounted
  <2>8. o \in Obj /\ want[o] \in Bytes /\ want' = want /\ mem' = mem /\ strayed' = strayed
    BY <1>2, <1>3, <1>5 DEF Kept, ObjectsTyped
  <2>9. call.buf # None => in = Content(call.buf)
    BY <1>1
  <2>10. /\ ~Failing(o)' => Good(Stray', Ahead(o).hash', Ahead(o).len', sha'[o].buff, r, want[o])
         /\ \A x \in Obj : x # o => Apart(x) /\ sha'[x] = sha[x]
    BY <1>3, <1>5, <2>1, <2>2, <2>3, <2>7, <2>8, <2>9, TakenGood
  <2>11. Accounted(o)'
    BY <2>6, <2>8, <2>10 DEF Accounted
  <2>12. \A x \in Obj : Accounted(x)'
    BY <1>2, <2>6, <2>8, <2>10, <2>11, OthersSame DEF Counted
  <2>13. EndGood'
    <3>1. CASE Absorb(o, p)
      BY <1>2, <3>1, EndNone DEF Absorb
    <3>2. CASE Send(o, p)
      BY <3>2, EndNone DEF Send
    <3>3. CASE SendDma(o, p, call.buf)
      <4>1. pending' = [kind |-> "dma", of |-> o, buf |-> call.buf]
        BY <3>3 DEF SendDma
      <4>2. pending'.kind # "final"
        BY <4>1
      <4> QED BY <4>2, EndNone
    <3> QED BY <1>5, <3>1, <3>2, <3>3
  <2>14. SavedGood' /\ NoiseStrayed'
    BY <1>2, <2>5, <2>8, SavedSame, NoiseSame DEF Counted
  <2> QED BY <2>12, <2>13, <2>14 DEF Counted
<1> QED BY <1>2, <1>4, <1>5

LEMMA CallUpdateResponseCounted ==
  ASSUME Kept, Kept', Counted, CallUpdateResponse
  PROVE  Counted'
<1>1. /\ call # None /\ pending # None /\ pending.of = call.of /\ pending' = None
      /\ UNCHANGED <<broken, strayed>>
  BY DEF CallUpdateResponse, Answered, Failed, Receive
<1>2. \A x \in Obj : x # call.of => Apart(x)
  BY <1>1, ApartOver
<1>3. CASE Abort
  BY <1>1, <1>2, <1>3, AbortCounted
<1>4. CASE ~Abort
  <2>1. PICK o \in Obj \ broken : o = call.of
    BY <1>1 DEF Kept, CallKept, CallRecord
  <2>2. /\ Answered({"update", "dma"}, o) /\ sha' = [sha EXCEPT ![o] = Resumed(o)]
        /\ UNCHANGED <<mem, call, want>>
    BY <1>4, <2>1 DEF CallUpdateResponse
  <2>3. \A x : Ungiven(x)' = Ungiven(x)
    BY <2>2 DEF Ungiven
  <2>4. \A x \in Obj : x # o => sha'[x] = sha[x]
    BY <2>2 DEF Kept, ObjectsTyped
  <2>5. Accounted(o)'
    BY <1>1, <2>2, <2>3, ResumedGood DEF Counted
  <2>6. \A x \in Obj : Accounted(x)'
    BY <1>1, <1>2, <2>1, <2>2, <2>3, <2>4, <2>5, OthersSame DEF Counted
  <2>7. SavedGood' /\ NoiseStrayed' /\ EndGood'
    BY <1>1, <2>2, SavedSame, NoiseSame, EndNone DEF Counted
  <2> QED BY <2>6, <2>7 DEF Counted
<1> QED BY <1>3, <1>4

LEMMA CallFinalCounted ==
  ASSUME Kept, Kept', Counted, CallFinal
  PROVE  Counted'
<1>1. call # None /\ pending = None /\ UNCHANGED <<broken, strayed>>
  BY DEF CallFinal
<1>2. CASE Abort /\ UNCHANGED <<pending, net>>
  <2>1. \A x \in Obj : Apart(x)
    BY <1>1, <1>2 DEF Apart, Updating
  <2> QED BY <1>1, <1>2, <2>1, AbortCounted
<1>3. CASE SendFinal(call.of) /\ UNCHANGED <<mem, call, want>>
  <2>1. PICK o \in Obj : o = call.of
    BY <1>1 DEF Kept, CallKept, CallRecord
  <2> QED BY <1>1, <1>3, <2>1, FinalSentCounted
<1> QED BY <1>2, <1>3 DEF CallFinal

LEMMA CallFinalResponseCounted ==
  ASSUME Kept, Kept', Counted, CallFinalResponse
  PROVE  Counted'
<1>1. /\ call # None /\ pending # None /\ pending.kind = "final" /\ pending' = None
      /\ UNCHANGED <<broken, strayed>>
  BY DEF CallFinalResponse, Answered, Failed, Digested, Receive
<1>2. \A x \in Obj : Apart(x) /\ ~Updating(x)'
  BY <1>1, ApartOver DEF Updating
<1>3. CASE Abort
  BY <1>1, <1>2, <1>3, AbortCounted
<1>4. CASE Digested(call.of) /\ call' = None /\ Done(call.buf)
  <2>1. PICK o \in Obj : o = call.of
    BY <1>1 DEF Kept, CallKept, CallRecord
  <2>2. /\ sha'[o] = Fresh /\ want'[o] = <<>>
        /\ \A x \in Obj : x # o => sha'[x] = sha[x] /\ want'[x] = want[x]
    BY <1>4, <2>1 DEF Digested, Kept, ObjectsTyped
  <2>3. /\ \A x : Ungiven(x)' = <<>>
        /\ \A x : x # o => Ungiven(x) = <<>>
    BY <1>4, <2>1 DEF Ungiven
  <2>4. Accounted(o)'
    BY <1>2, <2>2, <2>3, FreshGood
  <2>5. \A x \in Obj : Accounted(x)'
    BY <1>1, <1>2, <2>2, <2>3, <2>4, OthersSame DEF Counted
  <2>6. SavedGood' /\ NoiseStrayed' /\ EndGood'
    BY <1>1, <1>4, NoiseDone, EndNone DEF SavedGood, Counted, Kept
  <2> QED BY <2>5, <2>6 DEF Counted
<1> QED BY <1>3, <1>4 DEF CallFinalResponse

LEMMA CallReturnCounted ==
  ASSUME Kept, Kept', Counted, CallReturn
  PROVE  Counted'
<1>1. /\ pending = None /\ call # None /\ call.rest = <<>>
      /\ UNCHANGED <<sha, pending, net, want, broken, strayed>>
      /\ call' = None /\ Done(call.buf)
  BY DEF CallReturn, state
<1>2. \A x : Ungiven(x) = <<>> /\ Ungiven(x)' = <<>>
  BY <1>1 DEF Ungiven
<1>3. \A x \in Obj : Apart(x)
  BY <1>1 DEF Apart, Updating
<1>4. \A x \in Obj : Accounted(x)'
  BY <1>1, <1>2, <1>3, AllSame DEF Counted
<1>5. SavedGood' /\ NoiseStrayed' /\ EndGood'
  BY <1>1, NoiseDone, EndNone DEF SavedGood, Counted, Kept
<1> QED BY <1>4, <1>5 DEF Counted

\* The server's answer says what the client was going to have.
LEMMA HandleSha256Counted ==
  ASSUME Kept, Kept', Counted, HandleSha256
  PROVE  Counted'
<1> DEFINE h == net.hash \o Digestible(net)
           l == net.len + Len(Digestible(net))
           a == [is |-> "answer", ok |-> TRUE, hash |-> h, len |-> l]
<1>1. /\ IsRequest /\ net.op = "sha" /\ Answer(a)
      /\ UNCHANGED <<sha, pending, mem, call, want, broken, strayed>>
  BY DEF HandleSha256
<1>2. \A x : Ungiven(x)' = Ungiven(x)
  BY <1>1 DEF Ungiven
<1>3. SavedGood' /\ NoiseStrayed' /\ Stray' = Stray
  BY <1>1, SavedSame, NoiseSame DEF Counted, Stray
<1>4. CASE pending = None
  <2>1. \A x \in Obj : Apart(x)
    BY <1>1, <1>4 DEF Apart, Updating
  <2> QED BY <1>1, <1>2, <1>3, <1>4, <2>1, AllSame, EndNone DEF Counted
<1>5. CASE pending # None
  <2>1. a.is = "answer" /\ a.hash = h /\ a.len = l /\ a.ok = TRUE
    OBVIOUS
  <2>2. net' = a /\ ~IsAnswer
    BY <1>1, <1>5 DEF Answer, IsRequest, IsAnswer
  <2> HIDE DEF a
  <2>3. AheadFacts /\ AheadFacts'
    BY AheadKnown, PTL
  <2>4. \A x \in Obj : Updating(x)' <=> Updating(x)
    BY <1>1 DEF Updating
  <2>5. \A x \in Obj : ~Failing(x)
    BY <2>2, Zenon DEF Failing
  <2>6. ASSUME NEW x \in Obj, Updating(x)
        PROVE  Accounted(x)'
    <3>1. CASE IsAnswer'
      <4>1. Ahead(x).hash = h /\ Ahead(x).len = l
        BY <2>2, <2>3, <2>6 DEF AheadFacts
      <4>2. Ahead(x).hash' = net'.hash /\ Ahead(x).len' = net'.len
        BY <2>3, <2>4, <2>6, <3>1 DEF AheadFacts
      <4> HIDE DEF h, l
      <4>3. Ahead(x).hash' = Ahead(x).hash /\ Ahead(x).len' = Ahead(x).len
        BY <2>1, <2>2, <4>1, <4>2
      <4>4. Accounted(x)
        BY DEF Counted
      <4> QED BY <1>1, <1>2, <1>3, <2>5, <4>3, <4>4 DEF Accounted
    <3>2. IsAnswer'
      <4>1. pending # None /\ ~IsRequest' => IsAnswer'
        BY <1>1, <1>5 DEF Kept, NetKept
      <4>2. ~IsRequest'
        BY <2>1, <2>2 DEF IsRequest
      <4> QED BY <1>5, <4>1, <4>2
    <3> QED BY <3>1, <3>2
  <2>7. ASSUME NEW x \in Obj, ~Updating(x)
        PROVE  Accounted(x)'
    <3>1. Apart(x)
      BY <2>4, <2>7 DEF Apart
    <3>2. /\ sha'[x] = sha[x] /\ want'[x] = want[x] /\ Ungiven(x)' = Ungiven(x)
          /\ strayed => strayed'
          /\ x \in broken => x \in broken'
          /\ Accounted(x)
      BY <1>1, <1>2 DEF Counted
    <3> QED BY <3>1, <3>2, AccountSame
  <2>8. EndGood'
    <3> SUFFICES ASSUME pending'.kind = "final"
                 PROVE  EndGood'
      BY EndNone
    <3>1. PICK o \in Obj \ broken : o = pending.of /\ o = pending'.of
      BY <1>1, <1>5 DEF Kept, PendingKept
    <3>2. /\ net.hash = sha[o].hash /\ net.len = sha[o].len
          /\ net.data = sha[o].buff /\ net.size = 0
      BY <1>1, <1>5, <3>1 DEF Counted, EndGood
    <3>3. sha[o].hash \in Bytes /\ sha[o].buff \in Bytes /\ want[o] \in Bytes
      BY DEF Kept, ObjectsTyped, Hashing
    <3>4. Digestible(net) = sha[o].buff
      <4>1. Digestible(net) = net.data \o <<>>
        BY <3>2 DEF Digestible
      <4>2. sha[o].buff \o <<>> = sha[o].buff
        BY <3>3, ConcatEmptySeq DEF Bytes
      <4> QED BY <3>2, <4>1, <4>2
    <3>5. ~Updating(o)
      BY <1>1, <1>5 DEF Updating
    <3>6. Ahead(o).hash = sha[o].hash /\ Ahead(o).len = sha[o].len
      BY <2>3, <3>5 DEF AheadFacts
    <3>7. Ungiven(o) = <<>>
      BY <1>1, <1>5, <3>1 DEF Ungiven, Kept, CallKept
    <3>8. Good(Stray, sha[o].hash, sha[o].len, sha[o].buff, <<>>, want[o])
      BY <2>5, <3>1, <3>6, <3>7 DEF Counted, Accounted
    <3>9. Alike(Stray, sha[o].hash \o sha[o].buff, want[o])
          /\ sha[o].len + Len(sha[o].buff) = Len(want[o])
      BY <3>3, <3>8, GoodEnd
    <3>10. net'.hash = sha[o].hash \o sha[o].buff /\ net'.len = sha[o].len + Len(sha[o].buff)
      BY <2>1, <2>2, <3>2, <3>4
    <3>11. ~IsRequest'
      BY <2>1, <2>2 DEF IsRequest
    <3>12. Alike(Stray', net'.hash, want'[o]) /\ net'.len = Len(want'[o])
      BY <1>1, <1>3, <3>9, <3>10
    <3> QED BY <3>1, <3>11, <3>12 DEF EndGood
  <2> QED BY <1>3, <2>6, <2>7, <2>8 DEF Counted
<1> QED BY <1>4, <1>5

\* Random bytes, or an answer without a digest, concern no hash that works out.
LEMMA OtherAnswerCounted ==
  ASSUME Kept, Kept', RngOutstanding, Counted, IsRequest,
         NEW k \in BOOLEAN, Answer([is |-> "answer", ok |-> k]),
         k => net.op = "rng",
         mem' = mem \/ (net.op = "rng" /\ mem' = [mem EXCEPT ![net.buf].noise = TRUE]),
         UNCHANGED <<sha, pending, call, want, broken, strayed>>
  PROVE  Counted'
<1>1. \A x : Ungiven(x)' = Ungiven(x)
  BY DEF Ungiven
<1>2. SavedGood' /\ NoiseStrayed'
  BY SavedSame, NoiseSame, NoiseWritten DEF Counted
<1>3. \A x \in Obj : Updating(x)' <=> Updating(x)
  BY DEF Updating
<1>4. pending # None => net'.is = "answer" /\ net'.ok = k /\ IsAnswer' /\ ~IsRequest'
  <2> SUFFICES ASSUME pending # None
               PROVE  net'.is = "answer" /\ net'.ok = k /\ IsAnswer' /\ ~IsRequest'
    OBVIOUS
  <2>1. net' = [is |-> "answer", ok |-> k]
    BY DEF Answer
  <2>2. net' # None
    BY <2>1, RecordsReal
  <2>3. net'.is = "answer" /\ net'.ok = k
    BY <2>1
  <2> QED BY <2>2, <2>3 DEF IsAnswer, IsRequest
<1>5. pending # None /\ pending.kind # "rng" => net.op = "sha" /\ k = FALSE
  BY DEF Kept, NetKept
<1>6. ASSUME NEW x \in Obj, Updating(x)
      PROVE  Accounted(x)'
  <2>1. pending # None /\ k = FALSE
    BY <1>5, <1>6 DEF Updating
  <2>2. Failing(x)'
    BY <1>3, <1>4, <1>6, <2>1 DEF Failing
  <2> QED BY <2>2 DEF Accounted
<1>7. ASSUME NEW x \in Obj, ~Updating(x)
      PROVE  Accounted(x)'
  <2>1. Apart(x)
    BY <1>3, <1>7 DEF Apart
  <2>2. Accounted(x)
    BY DEF Counted
  <2> QED BY <1>1, <2>1, <2>2, AccountSame
<1>8. EndGood'
  <2> SUFFICES ASSUME pending' # None, pending'.kind = "final"
               PROVE  EndGood'
    BY EndNone
  <2>1. net'.ok = FALSE /\ ~IsRequest'
    BY <1>4, <1>5
  <2> QED BY <2>1 DEF EndGood
<1> QED BY <1>2, <1>6, <1>7, <1>8 DEF Counted

\* Every step keeps count of the bytes.
LEMMA CountedStep ==
  ASSUME Kept, Kept', RngOutstanding, Counted, [Next]_vars
  PROVE  Counted'
<1>1. CASE HandleRngDma
  BY <1>1, OtherAnswerCounted DEF HandleRngDma
<1>2. CASE HandleFails
  BY <1>2, OtherAnswerCounted DEF HandleFails, Fault
<1>3. CASE UNCHANGED vars
  <2>1. \A x \in Obj : Apart(x) /\ Ungiven(x)' = Ungiven(x)
    BY <1>3 DEF vars, Apart, Ungiven
  <2> QED BY <1>3, <2>1, AllSame, SavedSame, NoiseSame, EndSame DEF vars, Counted
<1> QED
  BY <1>1, <1>2, <1>3, UpdateRequestCounted, UpdateResponseCounted, FinalRequestCounted,
     FinalResponseCounted, RestartCounted, Sha256Counted, FillCounted, DmaUpdateRequestCounted,
     Sha256DmaCounted, RngDmaRequestCounted, RngDmaResponseCounted, CallUpdateCounted,
     CallUpdateResponseCounted, CallFinalCounted, CallFinalResponseCounted, CallReturnCounted,
     HandleSha256Counted
  DEF Next

LEMMA CountedInit ==
  ASSUME Init
  PROVE  Counted
<1>1. \A o \in Obj : Accounted(o)
  <2> SUFFICES ASSUME NEW o \in Obj PROVE Accounted(o)
    OBVIOUS
  <2>1. sha[o] = Fresh /\ want[o] = <<>> /\ pending = None /\ call = None
    BY DEF Init
  <2>2. Ahead(o) = Fresh /\ Ungiven(o) = <<>>
    BY <2>1 DEF Ahead, Ungiven
  <2> QED BY <2>1, <2>2, GoodFresh DEF Accounted
<1>2. SavedGood /\ NoiseStrayed /\ EndGood
  BY DEF Init, SavedGood, NoiseStrayed, EndGood, Free
<1> QED BY <1>1, <1>2 DEF Counted

\* Counted is an invariant: at every step of a client and its server each
\* object accounts for the bytes it has accepted, and so does what a blocking
\* call would put back and what the last request of a hash carries.
THEOREM BytesCounted == Spec => []Counted
<1>1. Init => Counted
  BY CountedInit
<1>2. /\ Kept /\ Kept' /\ IInv /\ Counted /\ [Next]_vars
      => Counted'
  BY CountedStep DEF IInv
<1> QED BY <1>1, <1>2, BytesKept, Invariant, PTL DEF Spec

\* Equal but for random bytes, said in two ways.
LEMMA AlikeIsSame ==
  ASSUME NEW s \in Bytes, NEW t, Alike(Stray, s, t)
  PROVE  Same(s, t)
<1>1. DOMAIN s = 1 .. Len(s)
  BY LenProperties DEF Bytes
<1> QED BY <1>1 DEF Alike, Same, Stray

\* Every byte that an object has accepted is, once and in order, under its
\* digest, on its way there, in its partial block or still to be taken by the
\* call in progress, but for random bytes when a request for them was given
\* up; refused, failed and abandoned calls leave no trace.
THEOREM BytesAccounted == Spec => []InputAccounted
<1>1. Kept /\ Counted => InputAccounted
  <2> SUFFICES ASSUME Kept, Counted, NEW o \in Obj \ broken,
                      pending # None /\ pending.of = o /\ IsAnswer => net.ok
               PROVE  /\ Same(Ahead(o).hash \o sha[o].buff \o Ungiven(o), want[o])
                      /\ Ahead(o).len = Len(Ahead(o).hash)
                      /\ Len(sha[o].buff) < Block
    BY Zenon DEF InputAccounted
  <2>1. ~Failing(o) /\ Accounted(o)
    BY Zenon DEF Failing, Updating, Counted
  <2>2. Good(Stray, Ahead(o).hash, Ahead(o).len, sha[o].buff, Ungiven(o), want[o])
    BY <2>1 DEF Accounted
  <2>3. Ahead(o).hash \in Bytes /\ sha[o].buff \in Bytes /\ Ungiven(o) \in Bytes
    BY <2>1, AheadKnown DEF AheadFacts, Hashing
  <2>4. (Ahead(o).hash \o sha[o].buff) \o Ungiven(o) \in Bytes
    BY <2>3, ConcatTyped
  <2>5. Same((Ahead(o).hash \o sha[o].buff) \o Ungiven(o), want[o])
    BY <2>2, <2>4, AlikeIsSame DEF Good
  <2>6. Ahead(o).len = Len(Ahead(o).hash)
    BY <2>2 DEF Good
  <2> QED BY <2>5, <2>6 DEF Kept, ObjectsTyped
<1> QED BY <1>1, BytesKept, BytesCounted, PTL

\* The digest that is given out covers exactly the bytes accepted since the
\* object was new, with their length, unless the server wrote random bytes
\* late into a buffer whose request had been given up.
THEOREM DigestsCorrect == Spec => []DigestsRight
<1>1. Kept /\ Counted => DigestsRight
  <2> SUFFICES ASSUME Kept, Counted, pending # None, pending.kind = "final", IsAnswer, net.ok
               PROVE  Same(net.hash, want[pending.of]) /\ net.len = Len(want[pending.of])
    BY Zenon DEF DigestsRight
  <2>1. Alike(Stray, net.hash, want[pending.of]) /\ net.len = Len(want[pending.of])
    BY Zenon DEF Counted, EndGood
  <2>2. net.hash \in Bytes
    BY DEF Kept, NetKept
  <2> QED BY <2>1, <2>2, AlikeIsSame
<1> QED BY <1>1, BytesKept, BytesCounted, PTL

(***************************************************************************)
(* The comm layer over shared memory.  What keeps a late answer from being *)
(* taken for that of another call is not the sequence number but that the  *)
(* two sides take turns with the buffers (Alternation), and what keeps a   *)
(* request from being handled twice is that the server's counter follows   *)
(* the client's (Succession).  Both hold until a side restarts at a moment *)
(* when the other is at work.                                              *)
(***************************************************************************)
\* What a configuration has to be.
MemOK == Mem!CommAssumption /\ Mem!MemAssumption

\* The inductive invariant.
MemClean == Mem!Alternation /\ Mem!Succession /\ Mem!AnswersMatch /\ Mem!HandledOnce
MemInv == Mem!TypeOK /\ (clean => MemClean)

\* A counter that has been advanced is in range, and another.
LEMMA Turn ==
  ASSUME NEW n \in Nat, n > 1, NEW k \in 0..(n - 1)
  PROVE  (k + 1) % n \in 0..(n - 1) /\ (k + 1) % n # k
OBVIOUS

\* Packets, and what calls return.
LEMMA MemPackets ==
  ASSUME MemOK
  PROVE  /\ Mem!NoPacket \in Mem!Packet /\ Mem!NoPacket.req = 0
         /\ \A p \in Mem!Packet : /\ p.seq \in 0..(SeqMod - 1) /\ p.req \in 0..MaxCalls
                                 /\ Mem!Answer(p) \in Mem!Outcomes
         /\ \A s \in {"NONE", "OK", "TIMEOUT", "ABORTED", "PENDING"} :
              Mem!Failed(s) \in Mem!Outcomes
BY DEF MemOK, Mem!NoPacket, Mem!Packet, Mem!Answer, Mem!Failed, Mem!Outcomes

\* The next request is a packet, and none of zeroes.
LEMMA MemRequest ==
  ASSUME MemOK, Mem!TypeOK
  PROVE  /\ Mem!Request \in Mem!Packet /\ Mem!NextSeq \in 0..(SeqMod - 1)
         /\ Mem!Request = [seq |-> Mem!NextSeq, req |-> calls]
         /\ calls > 0 => Mem!Request # Mem!NoPacket
<1>1. Mem!NextSeq \in 0..(SeqMod - 1)
  BY DEF MemOK, Mem!TypeOK, Mem!CommTypeOK, Mem!NextSeq
<1> QED BY <1>1 DEF Mem!TypeOK, Mem!CommTypeOK, Mem!Request, Mem!Packet, Mem!NoPacket

\* The two counters differ after either side has advanced its own.
LEMMA MemNotify ==
  ASSUME MemOK, Mem!TypeOK
  PROVE  /\ (req.notify + 1) % NotifyMod \in 0..(NotifyMod - 1)
         /\ (req.notify + 1) % NotifyMod # req.notify
BY DEF MemOK, Mem!TypeOK

\* The requests handled are numbers, and one more is added at the end.
LEMMA MemDone ==
  ASSUME MemOK, Mem!TypeOK
  PROVE  /\ MaxCalls \in Nat /\ calls \in Nat /\ work.req \in 0..MaxCalls /\ req.data.req \in Nat
         /\ DOMAIN done = 1..Len(done) /\ Len(done) \in Nat
         /\ \A k \in DOMAIN done : done[k] \in Nat
         /\ LET more == Append(done, work.req)
            IN  /\ more \in Seq(0..MaxCalls)
                /\ DOMAIN more = 1..(Len(done) + 1)
                /\ \A k \in DOMAIN done : more[k] = done[k]
                /\ more[Len(done) + 1] = work.req
<1>1. MaxCalls \in Nat /\ calls \in Nat /\ work.req \in 0..MaxCalls /\ req.data.req \in Nat
  BY MemPackets DEF MemOK, Mem!TypeOK, Mem!CommTypeOK
<1>2. done \in Seq(0..MaxCalls)
  BY DEF Mem!TypeOK, Mem!CommTypeOK
<1>3. DOMAIN done = 1..Len(done) /\ Len(done) \in Nat /\ \A k \in DOMAIN done : done[k] \in 0..MaxCalls
  BY <1>2, LenProperties
<1>4. Append(done, work.req) \in Seq(0..MaxCalls)
  BY <1>1, <1>2
<1>5. /\ Len(Append(done, work.req)) = Len(done) + 1
      /\ \A k \in 1..Len(done) : Append(done, work.req)[k] = done[k]
      /\ Append(done, work.req)[Len(done) + 1] = work.req
  OBVIOUS
<1> QED BY <1>1, <1>4

\* What an action leaves alone is named in tuples.
USE DEF Mem!serverVars, Mem!memVars, Mem!clientVars

LEMMA MemInit ==
  ASSUME MemOK, Mem!Init
  PROVE  MemInv
<1> USE DEF Mem!Init, Mem!ClientInit, Mem!ServerInit
<1>1. Mem!TypeOK
  <2>1. outcome \in [1..MaxCalls -> Mem!Outcomes]
    BY MemPackets
  <2>2. 0 \in 0..(SeqMod - 1) /\ 0 \in 0..(NotifyMod - 1) /\ 0 \in 0..MaxCalls
        /\ 0 \in 0..MaxRestarts
    BY DEF MemOK
  <2>3. done \in Seq(0..MaxCalls)
    OBVIOUS
  <2> QED BY <2>2, <2>3, MemPackets DEF Mem!TypeOK, Mem!CommTypeOK
<1>2. Mem!Alternation /\ Mem!HandledOnce
  BY DEF Mem!Alternation, Mem!HandledOnce
<1>3. Mem!Succession
  BY DEF Mem!Succession, Mem!Answered, Mem!Busy
<1>4. Mem!AnswersMatch
  BY DEF Mem!AnswersMatch, Mem!Failed
<1> QED BY <1>1, <1>2, <1>3, <1>4 DEF MemInv, MemClean

\* The application makes a call.
LEMMA MemCall ==
  ASSUME MemOK, MemInv, Mem!Call
  PROVE  MemInv'
<1> USE DEF Mem!Call, Mem!BeginCall
<1>1. Mem!TypeOK'
  BY DEF MemOK, MemInv, Mem!TypeOK, Mem!CommTypeOK
<1> SUFFICES ASSUME clean' PROVE MemClean'
  BY <1>1 DEF MemInv
<1>2. clean /\ MemClean /\ Mem!TypeOK
  BY DEF MemInv
<1>3. Mem!Alternation'
  BY <1>2 DEF MemClean, Mem!Alternation, Mem!Answered, Mem!Busy, Mem!TypeOK, Mem!CommTypeOK
<1>4. Mem!Succession'
  BY <1>2, MemDone DEF MemClean, Mem!Succession, Mem!Answered, Mem!Busy
<1>5. Mem!AnswersMatch'
  BY <1>2 DEF MemClean, Mem!AnswersMatch
<1>6. Mem!HandledOnce'
  BY <1>2 DEF MemClean, Mem!HandledOnce
<1> QED BY <1>3, <1>4, <1>5, <1>6 DEF MemClean

\* A request is not stacked on another.
LEMMA MemSendRefused ==
  ASSUME MemOK, MemInv, Mem!SendRefused
  PROVE  MemInv'
<1> USE DEF Mem!SendRefused, Mem!Refuse, Mem!ReturnWith
<1>1. Mem!TypeOK'
  BY MemPackets DEF MemInv, Mem!TypeOK, Mem!CommTypeOK
<1> SUFFICES ASSUME clean' PROVE MemClean'
  BY <1>1 DEF MemInv
<1>2. clean /\ MemClean /\ Mem!TypeOK
  BY DEF MemInv
<1>3. Mem!Alternation'
  BY <1>2 DEF MemClean, Mem!Alternation
<1>4. Mem!Succession'
  BY <1>2 DEF MemClean, Mem!Alternation
<1>5. Mem!AnswersMatch'
  BY <1>2 DEF MemClean, Mem!Alternation
<1>6. Mem!HandledOnce'
  BY <1>2 DEF MemClean, Mem!Alternation
<1> QED BY <1>3, <1>4, <1>5, <1>6 DEF MemClean

\* The client may write its request only when the server has given the buffers back.
LEMMA MemSendData ==
  ASSUME MemOK, MemInv, Mem!SendData
  PROVE  MemInv'
<1> USE DEF Mem!SendData, Mem!MaySend
<1>1. Mem!TypeOK'
  BY MemRequest DEF MemInv, Mem!TypeOK, Mem!CommTypeOK
<1> SUFFICES ASSUME clean' PROVE MemClean'
  BY <1>1 DEF MemInv
<1>2. clean /\ MemClean /\ Mem!TypeOK
  BY DEF MemInv
<1>3. Mem!Alternation'
  BY <1>2 DEF MemClean, Mem!Request, Mem!NextSeq, Mem!Alternation, Mem!Answered, Mem!Busy
<1>4. Mem!Succession'
  BY <1>2, MemRequest, MemDone DEF MemClean, Mem!Alternation, Mem!Succession, Mem!Busy
<1>5. Mem!AnswersMatch'
  BY <1>2 DEF MemClean, Mem!AnswersMatch
<1>6. Mem!HandledOnce'
  BY <1>2 DEF MemClean, Mem!HandledOnce
<1> QED BY <1>3, <1>4, <1>5, <1>6 DEF MemClean

\* With the control word the buffers go to the server.
LEMMA MemSendNotify ==
  ASSUME MemOK, MemInv, Mem!SendNotify
  PROVE  MemInv'
<1> USE DEF Mem!SendNotify, Mem!Sent
<1>1. Mem!TypeOK'
  BY MemRequest, MemNotify DEF MemOK, MemInv, Mem!TypeOK, Mem!CommTypeOK
<1> SUFFICES ASSUME clean' PROVE MemClean'
  BY <1>1 DEF MemInv
<1>2. clean /\ MemClean /\ Mem!TypeOK
  BY DEF MemInv
<1>3. Mem!Alternation'
  BY <1>2, MemRequest, MemNotify DEF MemClean, Mem!Alternation, Mem!Answered, Mem!Busy,
       Mem!Answering
<1>4. Mem!Succession'
  BY <1>2, MemRequest, MemNotify, MemDone DEF MemClean, Mem!Alternation, Mem!Succession,
       Mem!Answered
<1>5. Mem!AnswersMatch'
  BY <1>2 DEF MemClean, Mem!AnswersMatch
<1>6. Mem!HandledOnce'
  BY <1>2 DEF MemClean, Mem!HandledOnce
<1> QED BY <1>3, <1>4, <1>5, <1>6 DEF MemClean

\* What the client reads when it has the buffers is the answer to its request.
LEMMA MemRecvResponse ==
  ASSUME MemOK, MemInv, Mem!RecvResponse
  PROVE  MemInv'
<1> USE DEF Mem!RecvResponse, Mem!MayRecv, Mem!ReturnWith
<1>1. Mem!TypeOK'
  <2>1. Mem!TypeOK
    BY DEF MemInv
  <2>2. resp.data \in Mem!Packet
    BY <2>1 DEF Mem!TypeOK
  <2>3. outcome' \in [1..MaxCalls -> Mem!Outcomes] /\ outstanding' \in BOOLEAN /\ timer' \in BOOLEAN
    BY <2>1, MemPackets DEF Mem!Received, Mem!Return, Mem!TypeOK, Mem!CommTypeOK
  <2>4. seq' = seq /\ calls' = calls /\ calling' \in {calling, "idle"}
    BY DEF Mem!Received, Mem!Return
  <2> QED BY <2>1, <2>3, <2>4 DEF Mem!TypeOK, Mem!CommTypeOK
<1> SUFFICES ASSUME clean' PROVE MemClean'
  BY <1>1 DEF MemInv
<1>2. clean /\ MemClean /\ Mem!TypeOK
  BY DEF MemInv
<1>2a. /\ req.data = Mem!Answering /\ resp.data = Mem!Answering
       /\ outstanding' = FALSE /\ timer' = FALSE /\ calling' = "idle"
       /\ outcome' = [outcome EXCEPT ![calls] = Mem!Answer(Mem!Answering)]
       /\ UNCHANGED <<seq, calls>>
  <2>1. req.data = Mem!Answering /\ resp.data = Mem!Answering /\ calls > 0
    BY <1>2 DEF MemClean, Mem!Alternation
  <2>2. Mem!Answering # Mem!NoPacket /\ Mem!Answering.seq = seq
    BY <2>1 DEF Mem!Answering, Mem!NoPacket
  <2> QED BY <2>1, <2>2 DEF Mem!Received, Mem!Return
<1>3. Mem!Alternation'
  BY <1>2, <1>2a DEF MemClean, Mem!Alternation, Mem!Busy
<1>4. Mem!Succession'
  BY <1>2, <1>2a DEF MemClean, Mem!Succession, Mem!Answered, Mem!Busy
<1>5. Mem!AnswersMatch'
  BY <1>2, <1>2a DEF MemClean, Mem!Succession, Mem!AnswersMatch, Mem!Answer, Mem!Answering
<1>6. Mem!HandledOnce'
  BY <1>2 DEF MemClean, Mem!HandledOnce
<1> QED BY <1>3, <1>4, <1>5, <1>6 DEF MemClean

\* The timer expires.
LEMMA MemTimeout ==
  ASSUME MemOK, MemInv, Mem!Timeout
  PROVE  MemInv'
<1> USE DEF Mem!Timeout, Mem!Expired, Mem!MayRecv, Mem!Return, Mem!ReturnWith
<1>1. Mem!TypeOK'
  BY MemPackets DEF MemInv, Mem!TypeOK, Mem!CommTypeOK
<1> SUFFICES ASSUME clean' PROVE MemClean'
  BY <1>1 DEF MemInv
<1>2. clean /\ MemClean /\ Mem!TypeOK
  BY DEF MemInv
<1>3. Mem!Alternation'
  BY <1>2 DEF MemClean, Mem!Alternation, Mem!Answered, Mem!Busy
<1>4. Mem!Succession'
  BY <1>2 DEF MemClean, Mem!Succession, Mem!Busy
<1>5. Mem!AnswersMatch'
  BY <1>2 DEF MemClean, Mem!AnswersMatch, Mem!Failed
<1>6. Mem!HandledOnce'
  BY <1>2 DEF MemClean, Mem!HandledOnce
<1> QED BY <1>3, <1>4, <1>5, <1>6 DEF MemClean

\* The application gives up.
LEMMA MemAbort ==
  ASSUME MemOK, MemInv, Mem!Abort
  PROVE  MemInv'
<1> USE DEF Mem!Abort, Mem!AbortPending, Mem!MayRecv, Mem!Return, Mem!ReturnWith
<1>1. Mem!TypeOK'
  BY MemPackets DEF MemInv, Mem!TypeOK, Mem!CommTypeOK
<1> SUFFICES ASSUME clean' PROVE MemClean'
  BY <1>1 DEF MemInv
<1>2. clean /\ MemClean /\ Mem!TypeOK
  BY DEF MemInv
<1>3. Mem!Alternation'
  BY <1>2 DEF MemClean, Mem!Alternation, Mem!Answered, Mem!Busy
<1>4. Mem!Succession'
  BY <1>2 DEF MemClean, Mem!Succession, Mem!Answered, Mem!Busy
<1>5. Mem!AnswersMatch'
  BY <1>2, MemDone DEF MemClean, Mem!Alternation, Mem!Succession, Mem!AnswersMatch, Mem!Failed,
       Mem!Answer, Mem!Answering, Mem!TypeOK, Mem!CommTypeOK
<1>6. Mem!HandledOnce'
  BY <1>2 DEF MemClean, Mem!HandledOnce
<1> QED BY <1>3, <1>4, <1>5, <1>6 DEF MemClean

\* The client restarts while the server is idle.
LEMMA MemRestart ==
  ASSUME MemOK, MemInv, Mem!Restart
  PROVE  MemInv'
<1> USE DEF Mem!Restart
<1>1. Mem!TypeOK'
  <2>1. Mem!TypeOK
    BY DEF MemInv
  <2>2. outcome' \in [1..MaxCalls -> Mem!Outcomes]
    BY <2>1, MemPackets DEF Mem!TypeOK, Mem!CommTypeOK
  <2>3. 0 \in 0..(SeqMod - 1) /\ 0 \in 0..(NotifyMod - 1) /\ restarts' \in 0..MaxRestarts
    BY <2>1 DEF MemOK, Mem!TypeOK
  <2> QED BY <2>1, <2>3, MemPackets DEF Mem!TypeOK, Mem!CommTypeOK
<1> SUFFICES ASSUME clean' PROVE MemClean'
  BY <1>1 DEF MemInv
<1>2. clean /\ MemClean /\ Mem!TypeOK
  BY DEF MemInv
<1>3. Mem!Alternation'
  BY DEF Mem!Alternation
<1>4. Mem!Succession'
  BY <1>2 DEF MemClean, Mem!Succession, Mem!Busy
<1>5. Mem!AnswersMatch'
  BY <1>2 DEF MemClean, Mem!Alternation, Mem!AnswersMatch, Mem!Failed
<1>6. Mem!HandledOnce'
  BY <1>2 DEF MemClean, Mem!HandledOnce
<1> QED BY <1>3, <1>4, <1>5, <1>6 DEF MemClean

\* The client connects again and clears the response.
LEMMA MemClearResponse ==
  ASSUME MemOK, MemInv, Mem!ClearResponse
  PROVE  MemInv'
<1> USE DEF Mem!ClearResponse
<1>1. Mem!TypeOK'
  BY MemPackets DEF MemOK, MemInv, Mem!TypeOK, Mem!CommTypeOK
<1> SUFFICES ASSUME clean' PROVE MemClean'
  BY <1>1 DEF MemInv
<1>2. clean /\ MemClean /\ Mem!TypeOK
  BY DEF MemInv
<1>3. Mem!Alternation'
  BY <1>2 DEF MemClean, Mem!Alternation
<1>4. Mem!Succession'
  BY <1>2 DEF MemClean, Mem!Alternation, Mem!Succession, Mem!Answered, Mem!Busy
<1>5. Mem!AnswersMatch'
  BY <1>2 DEF MemClean, Mem!AnswersMatch
<1>6. Mem!HandledOnce'
  BY <1>2 DEF MemClean, Mem!HandledOnce
<1> QED BY <1>3, <1>4, <1>5, <1>6 DEF MemClean

\* The server finds a request that it has not answered.
LEMMA MemSrvRecv ==
  ASSUME MemOK, MemInv, Mem!SrvRecv
  PROVE  MemInv'
<1> USE DEF Mem!SrvRecv, Mem!RecvRequest
<1>1. Mem!TypeOK'
  BY DEF MemInv, Mem!TypeOK, Mem!CommTypeOK
<1> SUFFICES ASSUME clean' PROVE MemClean'
  BY <1>1 DEF MemInv
<1>2. clean /\ MemClean /\ Mem!TypeOK
  BY DEF MemInv
<1>3. Mem!Alternation'
  BY <1>2 DEF MemClean, Mem!Alternation, Mem!Answered, Mem!Busy, Mem!Answering
<1>4. Mem!Succession'
  BY <1>2 DEF MemClean, Mem!Succession, Mem!Answered, Mem!Busy
<1>5. Mem!AnswersMatch'
  BY <1>2 DEF MemClean, Mem!AnswersMatch
<1>6. Mem!HandledOnce'
  BY <1>2 DEF MemClean, Mem!HandledOnce
<1> QED BY <1>3, <1>4, <1>5, <1>6 DEF MemClean

\* The server handles the request, which is later than those before it.
LEMMA MemSrvHandle ==
  ASSUME MemOK, MemInv, Mem!SrvHandle
  PROVE  MemInv'
<1> USE DEF Mem!SrvHandle, Mem!Handle
<1>1. Mem!TypeOK'
  BY MemDone DEF MemInv, Mem!TypeOK, Mem!CommTypeOK
<1> SUFFICES ASSUME clean' PROVE MemClean'
  BY <1>1 DEF MemInv
<1>2. clean /\ MemClean /\ Mem!TypeOK
  BY DEF MemInv
<1>2a. /\ DOMAIN done' = 1..(Len(done) + 1) /\ Len(done) \in Nat
       /\ \A k \in 1..Len(done) : done'[k] = done[k] /\ done[k] \in Nat
       /\ done'[Len(done) + 1] = work.req /\ DOMAIN done = 1..Len(done)
  BY <1>2, MemDone
<1>3. Mem!Alternation'
  BY <1>2 DEF MemClean, Mem!Alternation, Mem!Answered, Mem!Busy, Mem!Answering
<1>4. Mem!Succession'
  <2>1. /\ srv = "handle" /\ srv' = "reply" /\ Mem!Busy /\ work = req.data /\ calling # "clear"
        /\ work.req <= calls /\ (calling = "send" => work.req < calls)
        /\ \A k \in DOMAIN done : done[k] < work.req
    BY <1>2 DEF MemClean, Mem!Alternation, Mem!Succession
  <2>2. \A k \in DOMAIN done' : done'[k] <= work.req
    BY <2>1, MemDone, <1>2
  <2>3. \E k \in DOMAIN done' : done'[k] = work.req
    OBVIOUS
  <2>4. /\ req' = req /\ resp' = resp /\ calling' = calling /\ calls' = calls
        /\ calling \notin {"notify"} /\ (calling = "send" => work.req < calls)
    BY <1>2, <2>1 DEF MemClean, Mem!Alternation, Mem!Busy
  <2>5. calls \in Nat /\ work.req \in Nat /\ \A k \in DOMAIN done' : done'[k] \in Nat
    BY <1>2, MemDone
  <2> QED BY <2>1, <2>4, <2>5 DEF Mem!Succession
<1>5. Mem!AnswersMatch'
  BY <1>2 DEF MemClean, Mem!AnswersMatch
<1>6. Mem!HandledOnce'
  BY <1>2 DEF MemClean, Mem!Alternation, Mem!Succession, Mem!HandledOnce
<1> QED BY <1>3, <1>4, <1>5, <1>6 DEF MemClean

\* The server writes its answer while the buffers are its own ...
LEMMA MemSrvReplyData ==
  ASSUME MemOK, MemInv, Mem!SrvReplyData
  PROVE  MemInv'
<1> USE DEF Mem!SrvReplyData
<1>1. Mem!TypeOK'
  BY DEF MemInv, Mem!TypeOK, Mem!CommTypeOK
<1> SUFFICES ASSUME clean' PROVE MemClean'
  BY <1>1 DEF MemInv
<1>2. clean /\ MemClean /\ Mem!TypeOK
  BY DEF MemInv
<1>3. Mem!Alternation'
  BY <1>2 DEF MemClean, Mem!Alternation, Mem!Answered, Mem!Busy, Mem!Answering
<1>4. Mem!Succession'
  BY <1>2 DEF MemClean, Mem!Succession
<1>5. Mem!AnswersMatch'
  BY <1>2 DEF MemClean, Mem!AnswersMatch
<1>6. Mem!HandledOnce'
  BY <1>2 DEF MemClean, Mem!HandledOnce
<1> QED BY <1>3, <1>4, <1>5, <1>6 DEF MemClean

\* ... and gives them back.
LEMMA MemSrvReplyNotify ==
  ASSUME MemOK, MemInv, Mem!SrvReplyNotify
  PROVE  MemInv'
<1> USE DEF Mem!SrvReplyNotify, Mem!Replied
<1>1. Mem!TypeOK'
  BY DEF MemInv, Mem!TypeOK, Mem!CommTypeOK
<1> SUFFICES ASSUME clean' PROVE MemClean'
  BY <1>1 DEF MemInv
<1>2. clean /\ MemClean /\ Mem!TypeOK
  BY DEF MemInv
<1>3. Mem!Alternation'
  BY <1>2 DEF MemClean, Mem!Alternation, Mem!Busy, Mem!Answering
<1>4. Mem!Succession'
  BY <1>2 DEF MemClean, Mem!Alternation, Mem!Succession, Mem!Answered, Mem!Busy
<1>5. Mem!AnswersMatch'
  BY <1>2 DEF MemClean, Mem!AnswersMatch
<1>6. Mem!HandledOnce'
  BY <1>2 DEF MemClean, Mem!HandledOnce
<1> QED BY <1>3, <1>4, <1>5, <1>6 DEF MemClean

\* Every step keeps the invariant.
LEMMA MemNext ==
  ASSUME MemOK, MemInv, [Mem!Next]_(Mem!vars)
  PROVE  MemInv'
<1>1. CASE Mem!Call \/ Mem!Timeout \/ Mem!Abort \/ Mem!Restart
  BY <1>1, MemCall, MemTimeout, MemAbort, MemRestart
<1>2. CASE Mem!ClientStep
  BY <1>2, MemSendRefused, MemSendData, MemSendNotify, MemRecvResponse, MemClearResponse
       DEF Mem!ClientStep
<1>3. CASE Mem!ServerStep
  BY <1>3, MemSrvRecv, MemSrvHandle, MemSrvReplyData, MemSrvReplyNotify DEF Mem!ServerStep
<1>4. CASE UNCHANGED Mem!vars
  <2> USE <1>4 DEF Mem!vars
  <2>1. Mem!TypeOK'
    BY DEF MemInv, Mem!TypeOK, Mem!CommTypeOK
  <2>6. /\ calling' = calling /\ srv' = srv /\ req' = req /\ resp' = resp /\ work' = work
        /\ calls' = calls /\ seq' = seq /\ srvReq' = srvReq /\ done' = done /\ outcome' = outcome
        /\ outstanding' = outstanding
    OBVIOUS
  <2>7. Mem!Request' = Mem!Request
    BY DEF Mem!Request, Mem!NextSeq
  <2>2. Mem!Alternation => Mem!Alternation'
    BY <2>7 DEF Mem!Alternation, Mem!Answering, Mem!Answered, Mem!Busy
  <2>5. Mem!Succession => Mem!Succession'
    BY DEF Mem!Succession, Mem!Answered, Mem!Busy
  <2>3. Mem!AnswersMatch => Mem!AnswersMatch'
    BY DEF Mem!AnswersMatch
  <2>4. Mem!HandledOnce => Mem!HandledOnce'
    BY DEF Mem!HandledOnce
  <2> QED BY <2>1, <2>2, <2>3, <2>4, <2>5 DEF MemInv, MemClean
<1> QED BY <1>1, <1>2, <1>3, <1>4 DEF Mem!Next

\* Over shared memory the state is well typed, and while no side has restarted
\* at a bad moment the buffers change hands and the requests follow each other.
THEOREM MemInvariant ==
  ASSUME MemOK
  PROVE  Mem!Spec => []MemInv
<1>1. Mem!Init => MemInv
  BY MemInit
<1>2. MemInv /\ [Mem!Next]_(Mem!vars) => MemInv'
  BY MemNext
<1> QED BY <1>1, <1>2, PTL DEF Mem!Spec

\* What a call returns is the answer to its own request.
THEOREM MemAnswers ==
  ASSUME MemOK
  PROVE  Mem!Spec => []Mem!CleanAnswersMatch
<1>1. MemInv => Mem!CleanAnswersMatch
  BY DEF MemInv, MemClean, Mem!CleanAnswersMatch
<1> QED BY <1>1, MemInvariant, PTL

\* The server handles requests once, and in the order they were made in.
THEOREM MemHandled ==
  ASSUME MemOK
  PROVE  Mem!Spec => []Mem!CleanHandledOnce
<1>1. MemInv => Mem!CleanHandledOnce
  BY DEF MemInv, MemClean, Mem!CleanHandledOnce
<1> QED BY <1>1, MemInvariant, PTL

(***************************************************************************)
(* The comm layer over TCP.  There is never more than one packet under way *)
(* (OnePacket), so the pieces a side reads belong together; a call that    *)
(* timed out leaves its packet there, and the number in it keeps it apart  *)
(* from the next.                                                          *)
(***************************************************************************)
\* What a configuration has to be.
TcpOK == Tcp!CommAssumption

\* The inductive invariant.
TcpNumbers == Tcp!Numbered /\ Tcp!AnswerHandled
TcpClean == Tcp!OwnPacket /\ Tcp!AnswersMatch
TcpInv == Tcp!TypeOK /\ Tcp!OnePacket /\ TcpNumbers /\ (clean => TcpClean)

\* Packets, and what calls return.
LEMMA TcpPackets ==
  ASSUME TcpOK
  PROVE  /\ Tcp!NoPacket \in Tcp!Packet /\ Tcp!NoPacket.req = 0
         /\ \A p \in Tcp!Packet : /\ p.seq \in 0..(SeqMod - 1) /\ p.req \in 0..MaxCalls
                                 /\ Tcp!Answer(p) \in Tcp!Outcomes
                                 /\ p = [seq |-> p.seq, req |-> p.req]
         /\ \A s \in {"NONE", "OK", "TIMEOUT", "ABORTED", "PENDING"} :
              Tcp!Failed(s) \in Tcp!Outcomes
BY DEF TcpOK, Tcp!NoPacket, Tcp!Packet, Tcp!Answer, Tcp!Failed, Tcp!Outcomes

\* The next request is a packet, and none of zeroes.
LEMMA TcpRequest ==
  ASSUME TcpOK, Tcp!TypeOK
  PROVE  /\ Tcp!Request \in Tcp!Packet /\ Tcp!NextSeq \in 0..(SeqMod - 1)
         /\ Tcp!Request.seq = Tcp!NextSeq /\ Tcp!Request.req = calls
<1>1. Tcp!NextSeq \in 0..(SeqMod - 1)
  BY DEF TcpOK, Tcp!TypeOK, Tcp!CommTypeOK, Tcp!NextSeq
<1> QED BY <1>1 DEF Tcp!TypeOK, Tcp!CommTypeOK, Tcp!Request, Tcp!Packet

\* The requests handled are numbers, and one more is added at the end.
LEMMA TcpDone ==
  ASSUME TcpOK, Tcp!TypeOK
  PROVE  /\ MaxCalls \in Nat /\ calls \in Nat /\ work.req \in 0..MaxCalls
         /\ DOMAIN done = 1..Len(done) /\ Len(done) \in Nat
         /\ LET more == Append(done, work.req)
            IN  /\ more \in Seq(0..MaxCalls)
                /\ DOMAIN more = 1..(Len(done) + 1)
                /\ \A k \in DOMAIN done : more[k] = done[k]
                /\ more[Len(done) + 1] = work.req
<1>1. MaxCalls \in Nat /\ calls \in Nat /\ work.req \in 0..MaxCalls
  BY TcpPackets DEF TcpOK, Tcp!TypeOK, Tcp!CommTypeOK
<1>2. done \in Seq(0..MaxCalls)
  BY DEF Tcp!TypeOK, Tcp!CommTypeOK
<1>3. DOMAIN done = 1..Len(done) /\ Len(done) \in Nat
  OBVIOUS
<1>4. Append(done, work.req) \in Seq(0..MaxCalls)
  BY <1>1, <1>2
<1>5. /\ Len(Append(done, work.req)) = Len(done) + 1
      /\ \A k \in 1..Len(done) : Append(done, work.req)[k] = done[k]
      /\ Append(done, work.req)[Len(done) + 1] = work.req
  OBVIOUS
<1> QED BY <1>1, <1>4

\* Of the pieces of a packet there are two.
LEMMA Pieces ==
  ASSUME NEW p
  PROVE  /\ Append(<<>>, p) = <<p>> /\ Append(<<p>>, p) = <<p, p>>
         /\ Head(<<p>>) = p /\ Tail(<<p>>) = <<>> /\ Head(<<p, p>>) = p /\ Tail(<<p, p>>) = <<p>>
         /\ <<p>> # <<>> /\ <<p, p>> # <<>> /\ <<p>> # <<p, p>>
<1> DEFINE S == {p}
<1>1. <<p>> \in Seq(S) /\ p \in S /\ <<p, p>> \in Seq(S)
  OBVIOUS
<1>2. /\ Append(<<p>>, p) \in Seq(S) /\ Len(Append(<<p>>, p)) = 2
      /\ \A i \in 1..2 : Append(<<p>>, p)[i] = p
  OBVIOUS
<1>3. Len(<<p, p>>) = 2 /\ \A i \in 1..2 : <<p, p>>[i] = p
  OBVIOUS
<1>4. Append(<<p>>, p) = <<p, p>>
  <2> HIDE DEF S
  <2> QED BY <1>1, <1>2, <1>3, SeqEqual
<1>5. Append(<<>>, p) = <<p>>
  OBVIOUS
<1>6. Head(<<p>>) = p /\ Tail(<<p>>) = <<>>
  OBVIOUS
<1>7. Head(<<p, p>>) = p /\ Tail(<<p, p>>) = <<p>>
  OBVIOUS
<1>8. <<p>> # <<>> /\ <<p, p>> # <<>> /\ <<p>> # <<p, p>>
  OBVIOUS
<1> QED BY <1>4

\* They have a type, and so has what is on its way when the rest has.
TcpTyped ==
  /\ Tcp!CommTypeOK
  /\ calling \in {"idle", "send", "recv"}
  /\ srv \in {"poll", "handle", "reply"}
  /\ link \in {"unconnected", "connect_wait", "connected"}
  /\ {requestSent, requestRecv, listening, accepted, clean} \subseteq BOOLEAN
  /\ {cbuf, sbuf} \subseteq Tcp!Packet
  /\ {coff, soff} \subseteq {0, 1}

LEMMA PiecesTyped ==
  ASSUME NEW S, NEW p \in S, NEW c \in {<<>>, <<p>>, <<p, p>>}
  PROVE  c \in Seq(S) /\ Len(c) <= 2
<1>1. CASE c = <<>>
  BY <1>1
<1>2. CASE c = <<p>>
  <2>1. <<p>> \in Seq(S) /\ Len(<<p>>) = 1
    OBVIOUS
  <2> QED BY <1>2
<1>3. CASE c = <<p, p>>
  <2>1. <<p, p>> \in Seq(S) /\ Len(<<p, p>>) = 2
    OBVIOUS
  <2> QED BY <1>3
<1> QED BY <1>1, <1>2, <1>3

LEMMA TcpTypes == TcpTyped /\ Tcp!OnePacket => Tcp!TypeOK
<1> SUFFICES ASSUME TcpTyped, Tcp!OnePacket PROVE Tcp!TypeOK
  OBVIOUS
<1>1. c2s \in {<<>>, <<cbuf>>, <<cbuf, cbuf>>} /\ s2c \in {<<>>, <<cbuf>>, <<cbuf, cbuf>>}
  BY DEF Tcp!OnePacket, Tcp!Quiet, Tcp!Begun, Tcp!Arriving, Tcp!Serving, Tcp!Replying,
       Tcp!Leaving
<1>2. cbuf \in Tcp!Packet
  BY DEF TcpTyped
<1>3. c2s \in Seq(Tcp!Packet) /\ Len(c2s) <= 2 /\ s2c \in Seq(Tcp!Packet) /\ Len(s2c) <= 2
  BY <1>1, <1>2, PiecesTyped
<1> QED BY <1>3 DEF TcpTyped, Tcp!TypeOK

\* What an action leaves alone is named in tuples.
USE DEF Tcp!serverVars, Tcp!tcpVars, Tcp!clientVars, Tcp!sides, Tcp!links

LEMMA TcpInit ==
  ASSUME TcpOK, Tcp!Init
  PROVE  TcpInv
<1> USE DEF Tcp!Init, Tcp!ClientInit, Tcp!ServerInit
<1>1. Tcp!TypeOK
  <2>1. outcome \in [1..MaxCalls -> Tcp!Outcomes]
    BY TcpPackets
  <2>2. 0 \in 0..(SeqMod - 1) /\ 0 \in 0..MaxCalls
    BY DEF TcpOK
  <2>3. done \in Seq(0..MaxCalls)
    OBVIOUS
  <2>4. Tcp!CommTypeOK
    BY <2>2, <2>3, TcpPackets DEF Tcp!CommTypeOK
  <2>5. TcpTyped
    BY <2>4, TcpPackets DEF TcpTyped
  <2>6. Tcp!OnePacket
    BY DEF Tcp!OnePacket, Tcp!Quiet
  <2> QED BY <2>5, <2>6, TcpTypes
<1>2. Tcp!OnePacket
  BY DEF Tcp!OnePacket, Tcp!Quiet
<1>2a. Tcp!OwnPacket
  BY DEF Tcp!OwnPacket, Tcp!Begun
<1>3. TcpNumbers
  BY DEF TcpNumbers, Tcp!Numbered, Tcp!Quiet, Tcp!Begun, Tcp!AnswerHandled, Tcp!Leaving
<1>4. Tcp!AnswersMatch
  BY DEF Tcp!AnswersMatch, Tcp!Failed
<1> QED BY <1>1, <1>2, <1>2a, <1>3, <1>4 DEF TcpInv, TcpClean

\* The application makes a call; a packet may still be under way.
LEMMA TcpCall ==
  ASSUME TcpOK, TcpInv, Tcp!Call
  PROVE  TcpInv'
<1> USE DEF Tcp!Call, Tcp!BeginCall
<1>1. Tcp!TypeOK /\ Tcp!OnePacket /\ TcpTyped
  BY DEF TcpInv, TcpTyped, Tcp!TypeOK
<1>2. Tcp!OnePacket'
  BY <1>1 DEF Tcp!OnePacket, Tcp!Quiet, Tcp!Begun, Tcp!Arriving, Tcp!Serving, Tcp!Replying,
       Tcp!Leaving
<1>3. Tcp!TypeOK'
  <2>1. TcpTyped'
    BY <1>1, TcpDone DEF TcpTyped, Tcp!CommTypeOK
  <2> QED BY <1>2, <2>1, TcpTypes, PTL
<1>4. Tcp!Numbered'
  BY <1>1 DEF TcpInv, TcpNumbers, TcpTyped, Tcp!CommTypeOK, Tcp!Quiet, Tcp!Begun, Tcp!Numbered,
       Tcp!NextSeq
<1>5. Tcp!AnswerHandled'
  BY DEF TcpInv, TcpNumbers, Tcp!Leaving, Tcp!AnswerHandled
<1>6. clean' => Tcp!OwnPacket'
  BY DEF TcpInv, TcpNumbers, TcpClean, Tcp!Begun, Tcp!Numbered, Tcp!OwnPacket
<1>7. clean' => Tcp!AnswersMatch'
  BY DEF TcpInv, TcpClean, Tcp!AnswersMatch
<1> QED BY <1>2, <1>3, <1>4, <1>5, <1>6, <1>7 DEF TcpInv, TcpNumbers, TcpClean

\* The connection comes up, or is refused.
LEMMA TcpConnect ==
  ASSUME TcpOK, TcpInv, Tcp!Connect
  PROVE  TcpInv'
<1> USE DEF Tcp!Connect, Tcp!MayWrite, Tcp!MaySend
<1>1. Tcp!TypeOK /\ Tcp!OnePacket /\ TcpTyped
  BY DEF TcpInv, TcpTyped, Tcp!TypeOK
<1>2. Tcp!OnePacket'
  BY <1>1 DEF Tcp!OnePacket, Tcp!Quiet, Tcp!Begun, Tcp!Arriving, Tcp!Serving, Tcp!Replying,
       Tcp!Leaving
<1>3. Tcp!TypeOK'
  <2>1. TcpTyped'
    BY <1>1 DEF TcpTyped, Tcp!CommTypeOK
  <2> QED BY <1>2, <2>1, TcpTypes, PTL
<1>4. Tcp!Numbered'
  BY DEF TcpInv, TcpNumbers, Tcp!Quiet, Tcp!Begun, Tcp!Numbered, Tcp!NextSeq
<1>5. Tcp!AnswerHandled'
  BY DEF TcpInv, TcpNumbers, Tcp!Leaving, Tcp!AnswerHandled
<1>6. clean' => Tcp!OwnPacket'
  BY DEF TcpInv, TcpClean, Tcp!Begun, Tcp!OwnPacket
<1>7. clean' => Tcp!AnswersMatch'
  BY DEF TcpInv, TcpClean, Tcp!AnswersMatch
<1> QED BY <1>2, <1>3, <1>4, <1>5, <1>6, <1>7 DEF TcpInv, TcpNumbers, TcpClean

\* The header of a request is sent only when nothing is under way ...
LEMMA TcpWriteHead ==
  ASSUME TcpOK, TcpInv, Tcp!WriteHead
  PROVE  TcpInv'
<1> USE DEF Tcp!WriteHead, Tcp!MayWrite, Tcp!MaySend
<1>1. Tcp!TypeOK /\ Tcp!OnePacket /\ TcpTyped
  BY DEF TcpInv, TcpTyped, Tcp!TypeOK
<1>2. Tcp!OnePacket'
  <2>1. Tcp!Quiet
    BY <1>1 DEF Tcp!OnePacket, Tcp!Begun, Tcp!Arriving, Tcp!Serving, Tcp!Replying, Tcp!Leaving
  <2>2. Tcp!Begun'
    BY <2>1 DEF Tcp!Quiet, Tcp!Begun
  <2> QED BY <1>1, <2>2 DEF Tcp!OnePacket
<1>3. Tcp!TypeOK'
  <2>1. TcpTyped'
    BY <1>1, TcpRequest DEF TcpTyped, Tcp!CommTypeOK
  <2> QED BY <1>2, <2>1, TcpTypes, PTL
<1>4. Tcp!Numbered'
  BY TcpRequest DEF TcpInv, TcpNumbers, Tcp!Numbered, Tcp!NextSeq
<1>5. Tcp!AnswerHandled'
  BY <1>1 DEF Tcp!OnePacket, Tcp!Quiet, Tcp!Begun, Tcp!Arriving, Tcp!Serving, Tcp!Replying,
       Tcp!Leaving, Tcp!AnswerHandled
<1>6. clean' => Tcp!OwnPacket'
  BY <1>1, TcpRequest DEF Tcp!OwnPacket
<1>7. clean' => Tcp!AnswersMatch'
  BY DEF TcpInv, TcpClean, Tcp!AnswersMatch
<1> QED BY <1>2, <1>3, <1>4, <1>5, <1>6, <1>7 DEF TcpInv, TcpNumbers, TcpClean

\* ... and the rest is that of the packet that was begun.
LEMMA TcpWriteTail ==
  ASSUME TcpOK, TcpInv, Tcp!WriteTail
  PROVE  TcpInv'
<1> USE DEF Tcp!WriteTail, Tcp!MayWrite, Tcp!MaySend, Tcp!Sent
<1>1. Tcp!TypeOK /\ Tcp!OnePacket /\ TcpTyped
  BY DEF TcpInv, TcpTyped, Tcp!TypeOK
<1>2. Tcp!OnePacket'
  <2>1. Tcp!Begun
    BY <1>1 DEF Tcp!OnePacket, Tcp!Quiet, Tcp!Arriving, Tcp!Serving, Tcp!Replying, Tcp!Leaving
  <2>2. CASE soff = 0
    <3>1. c2s' = <<cbuf, cbuf>>
      <4>1. c2s' = Append(<<cbuf>>, cbuf)
        <5>1. c2s' = Append(c2s, cbuf)
          OBVIOUS
        <5>2. c2s = <<cbuf>>
          BY <2>1, <2>2 DEF Tcp!Begun
        <5> QED BY <5>2
      <4> QED BY <4>1, Pieces
    <3>2. Tcp!Arriving'
      BY <2>1, <2>2, <3>1 DEF Tcp!Begun, Tcp!Arriving
    <3> QED BY <1>1, <3>2 DEF Tcp!OnePacket
  <2>3. CASE soff = 1
    <3>1. c2s' = <<cbuf>>
      BY <2>1, <2>3 DEF Tcp!Begun
    <3>2. Tcp!Arriving'
      BY <2>1, <2>3 DEF Tcp!Begun, Tcp!Arriving
    <3> QED BY <1>1, <3>2 DEF Tcp!OnePacket
  <2> QED BY <2>1, <2>2, <2>3 DEF Tcp!Begun
<1>3. Tcp!TypeOK'
  <2>1. TcpTyped'
    BY <1>1, TcpRequest DEF TcpTyped, TcpOK, Tcp!CommTypeOK
  <2> QED BY <1>2, <2>1, TcpTypes, PTL
<1>4. Tcp!Numbered'
  BY DEF TcpInv, TcpNumbers, Tcp!OnePacket, Tcp!Quiet, Tcp!Begun, Tcp!Arriving, Tcp!Serving,
       Tcp!Replying, Tcp!Leaving, Tcp!Numbered
<1>5. Tcp!AnswerHandled'
  BY DEF TcpInv, TcpNumbers, Tcp!Begun, Tcp!Leaving, Tcp!AnswerHandled
<1>6. clean' => Tcp!OwnPacket'
  BY DEF TcpInv, TcpClean, Tcp!OnePacket, Tcp!Quiet, Tcp!Begun, Tcp!Arriving, Tcp!Serving,
       Tcp!Replying, Tcp!Leaving, Tcp!OwnPacket
<1>7. clean' => Tcp!AnswersMatch'
  BY DEF TcpInv, TcpClean, Tcp!AnswersMatch
<1> QED BY <1>2, <1>3, <1>4, <1>5, <1>6, <1>7 DEF TcpInv, TcpNumbers, TcpClean

\* A request given up before its header is sent leaves nothing behind.
LEMMA TcpGiveUp ==
  ASSUME TcpOK, TcpInv, Tcp!GiveUp
  PROVE  TcpInv'
<1> USE DEF Tcp!GiveUp, Tcp!MaySend, Tcp!ReturnWith
<1>1. Tcp!TypeOK /\ Tcp!OnePacket /\ TcpTyped
  BY DEF TcpInv, TcpTyped, Tcp!TypeOK
<1>2. Tcp!OnePacket'
  BY <1>1 DEF Tcp!OnePacket, Tcp!Quiet, Tcp!Begun, Tcp!Arriving, Tcp!Serving, Tcp!Replying,
       Tcp!Leaving
<1>3. Tcp!TypeOK'
  <2>1. TcpTyped'
    BY <1>1, TcpPackets DEF TcpTyped, Tcp!CommTypeOK
  <2> QED BY <1>2, <2>1, TcpTypes, PTL
<1>4. Tcp!Numbered'
  BY DEF TcpInv, TcpNumbers, Tcp!Quiet, Tcp!Begun, Tcp!Numbered, Tcp!NextSeq
<1>5. Tcp!AnswerHandled'
  BY DEF TcpInv, TcpNumbers, Tcp!Leaving, Tcp!AnswerHandled
<1>6. clean' => Tcp!OwnPacket'
  BY <1>1 DEF TcpTyped, Tcp!Begun, Tcp!OwnPacket
<1>7. clean' => Tcp!AnswersMatch'
  BY <1>1 DEF TcpInv, TcpClean, TcpTyped, Tcp!AnswersMatch, Tcp!Failed
<1> QED BY <1>2, <1>3, <1>4, <1>5, <1>6, <1>7 DEF TcpInv, TcpNumbers, TcpClean

\* The client reads the header of the answer ...
LEMMA TcpReadHead ==
  ASSUME TcpOK, TcpInv, Tcp!ReadHead
  PROVE  TcpInv'
<1> USE DEF Tcp!ReadHead, Tcp!MayRecv
<1>1. Tcp!TypeOK /\ Tcp!OnePacket /\ TcpTyped
  BY DEF TcpInv, TcpTyped, Tcp!TypeOK
<1>2. Tcp!OnePacket'
  <2>1. \/ Tcp!Replying /\ s2c = <<cbuf>>
        \/ Tcp!Leaving /\ s2c = <<cbuf, cbuf>>
    BY <1>1 DEF Tcp!OnePacket, Tcp!Quiet, Tcp!Begun, Tcp!Arriving, Tcp!Serving, Tcp!Replying,
         Tcp!Leaving
  <2>2. CASE Tcp!Replying /\ s2c = <<cbuf>>
    <3>1. Tcp!Replying'
      BY <2>2 DEF Tcp!Replying
    <3> QED BY <1>1, <3>1 DEF Tcp!OnePacket
  <2>3. CASE Tcp!Leaving /\ s2c = <<cbuf, cbuf>>
    <3>1. Tcp!Leaving'
      BY <2>3 DEF Tcp!Leaving
    <3> QED BY <1>1, <3>1 DEF Tcp!OnePacket
  <2> QED BY <2>1, <2>2, <2>3
<1>3. Tcp!TypeOK'
  <2>1. TcpTyped'
    <3>1. cbuf' \in Tcp!Packet
      BY <1>1 DEF TcpTyped, Tcp!OnePacket, Tcp!Quiet, Tcp!Begun, Tcp!Arriving, Tcp!Serving,
           Tcp!Replying, Tcp!Leaving
    <3> QED BY <1>1, <3>1 DEF TcpTyped, Tcp!CommTypeOK
  <2> QED BY <1>2, <2>1, TcpTypes, PTL
<1>4. Tcp!Numbered'
  BY DEF TcpInv, TcpNumbers, Tcp!OnePacket, Tcp!Quiet, Tcp!Begun, Tcp!Arriving, Tcp!Serving,
       Tcp!Replying, Tcp!Leaving, Tcp!Numbered
<1>5. Tcp!AnswerHandled'
  BY DEF TcpInv, TcpNumbers, Tcp!OnePacket, Tcp!Quiet, Tcp!Begun, Tcp!Arriving, Tcp!Serving,
       Tcp!Replying, Tcp!Leaving, Tcp!AnswerHandled
<1>6. clean' => Tcp!OwnPacket'
  BY DEF TcpInv, TcpClean, Tcp!OnePacket, Tcp!Quiet, Tcp!Begun, Tcp!Arriving, Tcp!Serving,
       Tcp!Replying, Tcp!Leaving, Tcp!OwnPacket
<1>7. clean' => Tcp!AnswersMatch'
  BY DEF TcpInv, TcpClean, Tcp!AnswersMatch
<1> QED BY <1>2, <1>3, <1>4, <1>5, <1>6, <1>7 DEF TcpInv, TcpNumbers, TcpClean

\* ... and its content, which belongs to it.
LEMMA TcpReadTail ==
  ASSUME TcpOK, TcpInv, Tcp!ReadTail
  PROVE  TcpInv'
<1> USE DEF Tcp!ReadTail, Tcp!MayRecv
<1>1. Tcp!TypeOK /\ Tcp!OnePacket /\ TcpTyped
  BY DEF TcpInv, TcpTyped, Tcp!TypeOK
<1>2a. Tcp!Leaving /\ s2c = <<cbuf>>
  BY <1>1 DEF Tcp!OnePacket, Tcp!Quiet, Tcp!Begun, Tcp!Arriving, Tcp!Serving, Tcp!Replying,
       Tcp!Leaving
<1>2b. [seq |-> cbuf.seq, req |-> Head(s2c).req] = cbuf /\ s2c' = <<>>
  BY <1>1, <1>2a, TcpPackets DEF TcpTyped
<1>2c. /\ outstanding' = FALSE /\ timer' = FALSE /\ calling' = "idle"
       /\ outcome' = [outcome EXCEPT ![calls] = Tcp!Answer(cbuf)]
       /\ UNCHANGED <<seq, calls>>
  <2>1. cbuf # Tcp!NoPacket
    BY DEF TcpInv, TcpNumbers, Tcp!Numbered, Tcp!Quiet, Tcp!NoPacket
  <2>2. cbuf.seq = seq
    BY DEF TcpInv, TcpNumbers, Tcp!Numbered
  <2> QED BY <1>2b, <2>1, <2>2 DEF Tcp!Received, Tcp!Return, Tcp!ReturnWith
<1>2. Tcp!OnePacket'
  BY <1>1, <1>2a DEF Tcp!OnePacket, Tcp!Quiet, Tcp!Leaving
<1>3. Tcp!TypeOK'
  <2>1. TcpTyped'
    BY <1>1, <1>2c, TcpPackets DEF TcpTyped, Tcp!CommTypeOK
  <2> QED BY <1>2, <2>1, TcpTypes, PTL
<1>4. Tcp!Numbered'
  BY <1>2c DEF TcpInv, TcpNumbers, Tcp!Quiet, Tcp!Begun, Tcp!Numbered
<1>5. Tcp!AnswerHandled'
  BY DEF TcpInv, TcpNumbers, Tcp!OnePacket, Tcp!Quiet, Tcp!Begun, Tcp!Arriving, Tcp!Serving,
       Tcp!Replying, Tcp!AnswerHandled
<1>6. clean' => Tcp!OwnPacket'
  BY <1>2c DEF Tcp!Begun, Tcp!OwnPacket
<1>7. clean' => Tcp!AnswersMatch'
  <2> SUFFICES ASSUME clean PROVE Tcp!AnswersMatch'
    OBVIOUS
  <2>1. Tcp!AnswersMatch /\ cbuf.req = calls
    BY DEF TcpInv, TcpClean, Tcp!OwnPacket
  <2>2. \E k \in DOMAIN done : done[k] = cbuf.req
    BY <1>2a DEF TcpInv, TcpNumbers, Tcp!AnswerHandled
  <2> QED BY <1>2c, <2>1, <2>2 DEF Tcp!AnswersMatch, Tcp!Answer
<1> QED BY <1>2, <1>3, <1>4, <1>5, <1>6, <1>7 DEF TcpInv, TcpNumbers, TcpClean

\* A call that has timed out leaves its packet under way.
LEMMA TcpTimeout ==
  ASSUME TcpOK, TcpInv, Tcp!Timeout
  PROVE  TcpInv'
<1> USE DEF Tcp!Timeout, Tcp!Expired, Tcp!MayRecv, Tcp!Return, Tcp!ReturnWith
<1>1. Tcp!TypeOK /\ Tcp!OnePacket /\ TcpTyped
  BY DEF TcpInv, TcpTyped, Tcp!TypeOK
<1>2. Tcp!OnePacket'
  BY <1>1 DEF Tcp!OnePacket, Tcp!Quiet, Tcp!Begun, Tcp!Arriving, Tcp!Serving, Tcp!Replying,
       Tcp!Leaving
<1>3. Tcp!TypeOK'
  <2>1. TcpTyped'
    BY <1>1, TcpPackets DEF TcpTyped, Tcp!CommTypeOK
  <2> QED BY <1>2, <2>1, TcpTypes, PTL
<1>4. Tcp!Numbered'
  BY DEF TcpInv, TcpNumbers, Tcp!Quiet, Tcp!Begun, Tcp!Numbered
<1>5. Tcp!AnswerHandled'
  BY DEF TcpInv, TcpNumbers, Tcp!Leaving, Tcp!AnswerHandled
<1>6. clean' => Tcp!OwnPacket'
  BY DEF TcpInv, TcpClean, Tcp!Begun, Tcp!OwnPacket
<1>7. clean' => Tcp!AnswersMatch'
  BY DEF TcpInv, TcpClean, Tcp!AnswersMatch, Tcp!Failed
<1> QED BY <1>2, <1>3, <1>4, <1>5, <1>6, <1>7 DEF TcpInv, TcpNumbers, TcpClean

\* So does one that is given up.
LEMMA TcpAbort ==
  ASSUME TcpOK, TcpInv, Tcp!Abort
  PROVE  TcpInv'
<1> USE DEF Tcp!Abort, Tcp!AbortPending, Tcp!MayRecv, Tcp!Return, Tcp!ReturnWith
<1>1. Tcp!TypeOK /\ Tcp!OnePacket /\ TcpTyped
  BY DEF TcpInv, TcpTyped, Tcp!TypeOK
<1>2. Tcp!OnePacket'
  BY <1>1 DEF Tcp!OnePacket, Tcp!Quiet, Tcp!Begun, Tcp!Arriving, Tcp!Serving, Tcp!Replying,
       Tcp!Leaving
<1>3. Tcp!TypeOK'
  <2>1. TcpTyped'
    BY <1>1, TcpPackets DEF TcpTyped, Tcp!CommTypeOK
  <2> QED BY <1>2, <2>1, TcpTypes, PTL
<1>4. Tcp!Numbered'
  BY DEF TcpInv, TcpNumbers, Tcp!Quiet, Tcp!Begun, Tcp!Numbered
<1>5. Tcp!AnswerHandled'
  BY DEF TcpInv, TcpNumbers, Tcp!Leaving, Tcp!AnswerHandled
<1>6. clean' => Tcp!OwnPacket'
  BY DEF TcpInv, TcpClean, Tcp!Begun, Tcp!OwnPacket
<1>7. clean' => Tcp!AnswersMatch'
  <2>1. outcome' = outcome \/ outcome' = [outcome EXCEPT ![calls] = Tcp!Failed("ABORTED")]
    OBVIOUS
  <2>2. ASSUME clean PROVE Tcp!AnswersMatch
    BY <2>2 DEF TcpInv, TcpClean
  <2>3. CASE outcome' = outcome
    BY <2>2, <2>3 DEF Tcp!AnswersMatch
  <2>4. CASE outcome' = [outcome EXCEPT ![calls] = Tcp!Failed("ABORTED")]
    BY <2>2, <2>4 DEF Tcp!AnswersMatch, Tcp!Failed
  <2> QED BY <2>3, <2>4
<1> QED BY <1>2, <1>3, <1>4, <1>5, <1>6, <1>7 DEF TcpInv, TcpNumbers, TcpClean

\* The server starts to listen ...
LEMMA TcpListen ==
  ASSUME TcpOK, TcpInv, Tcp!Listen
  PROVE  TcpInv'
<1> USE DEF Tcp!Listen
<1>1. Tcp!TypeOK /\ Tcp!OnePacket /\ TcpTyped
  BY DEF TcpInv, TcpTyped, Tcp!TypeOK
<1>2. Tcp!OnePacket'
  BY <1>1 DEF Tcp!OnePacket, Tcp!Quiet, Tcp!Begun, Tcp!Arriving, Tcp!Serving, Tcp!Replying,
       Tcp!Leaving
<1>3. Tcp!TypeOK'
  <2>1. TcpTyped'
    BY <1>1 DEF TcpTyped, Tcp!CommTypeOK
  <2> QED BY <1>2, <2>1, TcpTypes, PTL
<1>4. Tcp!Numbered'
  BY DEF TcpInv, TcpNumbers, Tcp!Quiet, Tcp!Begun, Tcp!Numbered, Tcp!NextSeq
<1>5. Tcp!AnswerHandled'
  BY DEF TcpInv, TcpNumbers, Tcp!Leaving, Tcp!AnswerHandled
<1>6. clean' => Tcp!OwnPacket'
  BY DEF TcpInv, TcpClean, Tcp!Begun, Tcp!OwnPacket
<1>7. clean' => Tcp!AnswersMatch'
  BY DEF TcpInv, TcpClean, Tcp!AnswersMatch
<1> QED BY <1>2, <1>3, <1>4, <1>5, <1>6, <1>7 DEF TcpInv, TcpNumbers, TcpClean

\* ... and accepts the connection.
LEMMA TcpAccept ==
  ASSUME TcpOK, TcpInv, Tcp!Accept
  PROVE  TcpInv'
<1> USE DEF Tcp!Accept
<1>1. Tcp!TypeOK /\ Tcp!OnePacket /\ TcpTyped
  BY DEF TcpInv, TcpTyped, Tcp!TypeOK
<1>2. Tcp!OnePacket'
  BY <1>1 DEF Tcp!OnePacket, Tcp!Quiet, Tcp!Begun, Tcp!Arriving, Tcp!Serving, Tcp!Replying,
       Tcp!Leaving
<1>3. Tcp!TypeOK'
  <2>1. TcpTyped'
    BY <1>1 DEF TcpTyped, Tcp!CommTypeOK
  <2> QED BY <1>2, <2>1, TcpTypes, PTL
<1>4. Tcp!Numbered'
  BY DEF TcpInv, TcpNumbers, Tcp!Quiet, Tcp!Begun, Tcp!Numbered, Tcp!NextSeq
<1>5. Tcp!AnswerHandled'
  BY DEF TcpInv, TcpNumbers, Tcp!Leaving, Tcp!AnswerHandled
<1>6. clean' => Tcp!OwnPacket'
  BY DEF TcpInv, TcpClean, Tcp!Begun, Tcp!OwnPacket
<1>7. clean' => Tcp!AnswersMatch'
  BY DEF TcpInv, TcpClean, Tcp!AnswersMatch
<1> QED BY <1>2, <1>3, <1>4, <1>5, <1>6, <1>7 DEF TcpInv, TcpNumbers, TcpClean

\* The server reads the header of a request ...
LEMMA TcpSrvReadHead ==
  ASSUME TcpOK, TcpInv, Tcp!SrvReadHead
  PROVE  TcpInv'
<1> USE DEF Tcp!SrvReadHead
<1>1. Tcp!TypeOK /\ Tcp!OnePacket /\ TcpTyped
  BY DEF TcpInv, TcpTyped, Tcp!TypeOK
<1>2. Tcp!OnePacket'
  <2>1. \/ Tcp!Begun /\ c2s = <<cbuf>>
        \/ Tcp!Arriving /\ c2s = <<cbuf, cbuf>>
    BY <1>1 DEF Tcp!OnePacket, Tcp!Quiet, Tcp!Begun, Tcp!Arriving, Tcp!Serving, Tcp!Replying,
         Tcp!Leaving
  <2>2. CASE Tcp!Begun /\ c2s = <<cbuf>>
    <3>1. Tcp!Begun'
      BY <2>2 DEF Tcp!Begun
    <3> QED BY <1>1, <3>1 DEF Tcp!OnePacket
  <2>3. CASE Tcp!Arriving /\ c2s = <<cbuf, cbuf>>
    <3>1. Tcp!Arriving'
      BY <2>3 DEF Tcp!Arriving
    <3> QED BY <1>1, <3>1 DEF Tcp!OnePacket
  <2> QED BY <2>1, <2>2, <2>3
<1>3. Tcp!TypeOK'
  <2>1. TcpTyped'
    <3>1. sbuf' \in Tcp!Packet
      BY <1>1 DEF TcpTyped, Tcp!OnePacket, Tcp!Quiet, Tcp!Begun, Tcp!Arriving, Tcp!Serving,
           Tcp!Replying, Tcp!Leaving
    <3> QED BY <1>1, <3>1 DEF TcpTyped, Tcp!CommTypeOK
  <2> QED BY <1>2, <2>1, TcpTypes, PTL
<1>4. Tcp!Numbered'
  BY DEF TcpInv, TcpNumbers, Tcp!OnePacket, Tcp!Quiet, Tcp!Begun, Tcp!Arriving, Tcp!Serving,
       Tcp!Replying, Tcp!Leaving, Tcp!Numbered, Tcp!NextSeq
<1>5. Tcp!AnswerHandled'
  BY DEF Tcp!Leaving, Tcp!AnswerHandled
<1>6. clean' => Tcp!OwnPacket'
  BY DEF TcpInv, TcpClean, Tcp!OnePacket, Tcp!Quiet, Tcp!Begun, Tcp!Arriving, Tcp!Serving,
       Tcp!Replying, Tcp!Leaving, Tcp!OwnPacket
<1>7. clean' => Tcp!AnswersMatch'
  BY DEF TcpInv, TcpClean, Tcp!AnswersMatch
<1> QED BY <1>2, <1>3, <1>4, <1>5, <1>6, <1>7 DEF TcpInv, TcpNumbers, TcpClean

\* ... and its content, which belongs to it.
LEMMA TcpSrvReadTail ==
  ASSUME TcpOK, TcpInv, Tcp!SrvReadTail
  PROVE  TcpInv'
<1> USE DEF Tcp!SrvReadTail, Tcp!RecvRequest
<1>1. Tcp!TypeOK /\ Tcp!OnePacket /\ TcpTyped
  BY DEF TcpInv, TcpTyped, Tcp!TypeOK
<1>2a. Tcp!Arriving /\ c2s = <<cbuf>> /\ sbuf = cbuf
  BY <1>1 DEF Tcp!OnePacket, Tcp!Quiet, Tcp!Begun, Tcp!Arriving, Tcp!Serving, Tcp!Replying,
       Tcp!Leaving
<1>2b. work' = cbuf /\ c2s' = <<>>
  BY <1>1, <1>2a, TcpPackets DEF TcpTyped
<1>2. Tcp!OnePacket'
  <2>1. Tcp!Serving'
    BY <1>2a, <1>2b DEF Tcp!Arriving, Tcp!Serving
  <2> QED BY <2>1 DEF Tcp!OnePacket
<1>3. Tcp!TypeOK'
  <2>1. TcpTyped'
    BY <1>1, <1>2b DEF TcpTyped, Tcp!CommTypeOK
  <2> QED BY <1>2, <2>1, TcpTypes, PTL
<1>4. Tcp!Numbered'
  BY DEF TcpInv, TcpNumbers, Tcp!Quiet, Tcp!Begun, Tcp!Numbered
<1>5. Tcp!AnswerHandled'
  BY DEF Tcp!Leaving, Tcp!AnswerHandled
<1>6. clean' => Tcp!OwnPacket'
  BY DEF TcpInv, TcpClean, Tcp!Begun, Tcp!OwnPacket
<1>7. clean' => Tcp!AnswersMatch'
  BY DEF TcpInv, TcpClean, Tcp!AnswersMatch
<1> QED BY <1>2, <1>3, <1>4, <1>5, <1>6, <1>7 DEF TcpInv, TcpNumbers, TcpClean

\* The server handles the packet it has read.
LEMMA TcpSrvHandle ==
  ASSUME TcpOK, TcpInv, Tcp!SrvHandle
  PROVE  TcpInv'
<1> USE DEF Tcp!SrvHandle, Tcp!Handle
<1>1. Tcp!TypeOK /\ Tcp!OnePacket /\ TcpTyped
  BY DEF TcpInv, TcpTyped, Tcp!TypeOK
<1>2. Tcp!OnePacket'
  BY <1>1 DEF Tcp!OnePacket, Tcp!Quiet, Tcp!Begun, Tcp!Arriving, Tcp!Serving, Tcp!Replying,
       Tcp!Leaving
<1>3. Tcp!TypeOK'
  <2>1. TcpTyped'
    BY <1>1, TcpPackets DEF TcpTyped, Tcp!CommTypeOK
  <2> QED BY <1>2, <2>1, TcpTypes, PTL
<1>4. Tcp!Numbered'
  BY DEF TcpInv, TcpNumbers, Tcp!Quiet, Tcp!Begun, Tcp!Numbered
<1>5. Tcp!AnswerHandled'
  BY DEF TcpInv, TcpNumbers, Tcp!OnePacket, Tcp!Quiet, Tcp!Begun, Tcp!Arriving, Tcp!Serving,
       Tcp!Replying, Tcp!AnswerHandled
<1>6. clean' => Tcp!OwnPacket'
  BY DEF TcpInv, TcpClean, Tcp!Begun, Tcp!OwnPacket
<1>7. clean' => Tcp!AnswersMatch'
  BY DEF TcpInv, TcpClean, Tcp!AnswersMatch
<1> QED BY <1>2, <1>3, <1>4, <1>5, <1>6, <1>7 DEF TcpInv, TcpNumbers, TcpClean

\* The server sends the header of the answer ...
LEMMA TcpSrvWriteHead ==
  ASSUME TcpOK, TcpInv, Tcp!SrvWriteHead
  PROVE  TcpInv'
<1> USE DEF Tcp!SrvWriteHead
<1>1. Tcp!TypeOK /\ Tcp!OnePacket /\ TcpTyped
  BY DEF TcpInv, TcpTyped, Tcp!TypeOK
<1>2. Tcp!OnePacket'
  <2>1. Tcp!Serving
    BY <1>1 DEF Tcp!OnePacket, Tcp!Quiet, Tcp!Begun, Tcp!Arriving, Tcp!Replying, Tcp!Leaving
  <2>2. Tcp!Replying'
    BY <2>1 DEF Tcp!Serving, Tcp!Replying
  <2> QED BY <2>2 DEF Tcp!OnePacket
<1>3. Tcp!TypeOK'
  <2>1. TcpTyped'
    BY <1>1 DEF TcpTyped, Tcp!CommTypeOK
  <2> QED BY <1>2, <2>1, TcpTypes, PTL
<1>4. Tcp!Numbered'
  BY DEF TcpInv, TcpNumbers, Tcp!Quiet, Tcp!Begun, Tcp!Numbered
<1>5. Tcp!AnswerHandled'
  BY DEF TcpInv, TcpNumbers, Tcp!AnswerHandled
<1>6. clean' => Tcp!OwnPacket'
  BY DEF TcpInv, TcpClean, Tcp!Begun, Tcp!OwnPacket
<1>7. clean' => Tcp!AnswersMatch'
  BY DEF TcpInv, TcpClean, Tcp!AnswersMatch
<1> QED BY <1>2, <1>3, <1>4, <1>5, <1>6, <1>7 DEF TcpInv, TcpNumbers, TcpClean

\* ... and the rest of it.
LEMMA TcpSrvWriteTail ==
  ASSUME TcpOK, TcpInv, Tcp!SrvWriteTail
  PROVE  TcpInv'
<1> USE DEF Tcp!SrvWriteTail, Tcp!Replied
<1>1. Tcp!TypeOK /\ Tcp!OnePacket /\ TcpTyped
  BY DEF TcpInv, TcpTyped, Tcp!TypeOK
<1>2. Tcp!OnePacket'
  <2>1. Tcp!Replying
    BY <1>1 DEF Tcp!OnePacket, Tcp!Quiet, Tcp!Begun, Tcp!Arriving, Tcp!Serving, Tcp!Leaving
  <2>2. CASE coff = 0
    <3>1. s2c' = <<cbuf, cbuf>>
      <4>1. s2c' = Append(<<cbuf>>, cbuf)
        <5>1. s2c' = Append(s2c, sbuf)
          OBVIOUS
        <5>2. s2c = <<cbuf>> /\ sbuf = cbuf
          BY <2>1, <2>2 DEF Tcp!Replying
        <5> QED BY <5>2
      <4> QED BY <4>1, Pieces
    <3>2. Tcp!Leaving'
      BY <2>1, <2>2, <3>1 DEF Tcp!Leaving, Tcp!Replying
    <3> QED BY <3>2 DEF Tcp!OnePacket
  <2>3. CASE coff = 1
    <3>1. s2c' = <<cbuf>>
      BY <2>1, <2>3 DEF Tcp!Replying
    <3>2. Tcp!Leaving'
      BY <2>1, <2>3 DEF Tcp!Leaving, Tcp!Replying
    <3> QED BY <3>2 DEF Tcp!OnePacket
  <2> QED BY <2>1, <2>2, <2>3 DEF Tcp!Replying
<1>3. Tcp!TypeOK'
  <2>1. TcpTyped'
    BY <1>1 DEF TcpTyped, Tcp!CommTypeOK
  <2> QED BY <1>2, <2>1, TcpTypes, PTL
<1>4. Tcp!Numbered'
  BY DEF TcpInv, TcpNumbers, Tcp!Quiet, Tcp!Begun, Tcp!Numbered
<1>5. Tcp!AnswerHandled'
  BY DEF TcpInv, TcpNumbers, Tcp!AnswerHandled
<1>6. clean' => Tcp!OwnPacket'
  BY DEF TcpInv, TcpClean, Tcp!Begun, Tcp!OwnPacket
<1>7. clean' => Tcp!AnswersMatch'
  BY DEF TcpInv, TcpClean, Tcp!AnswersMatch
<1> QED BY <1>2, <1>3, <1>4, <1>5, <1>6, <1>7 DEF TcpInv, TcpNumbers, TcpClean

\* Every step keeps the invariant.
LEMMA TcpNext ==
  ASSUME TcpOK, TcpInv, [Tcp!Next]_(Tcp!vars)
  PROVE  TcpInv'
<1>1. CASE Tcp!Call \/ Tcp!GiveUp \/ Tcp!Timeout \/ Tcp!Abort
  BY <1>1, TcpCall, TcpGiveUp, TcpTimeout, TcpAbort
<1>2. CASE Tcp!ClientStep
  BY <1>2, TcpConnect, TcpWriteHead, TcpWriteTail, TcpReadHead, TcpReadTail DEF Tcp!ClientStep
<1>3. CASE Tcp!ServerStep
  BY <1>3, TcpListen, TcpAccept, TcpSrvReadHead, TcpSrvReadTail, TcpSrvHandle,
     TcpSrvWriteHead, TcpSrvWriteTail DEF Tcp!ServerStep
<1>4. CASE UNCHANGED Tcp!vars
  BY <1>4 DEF Tcp!vars, TcpInv, TcpNumbers, TcpClean, Tcp!TypeOK, Tcp!CommTypeOK, Tcp!OnePacket,
     Tcp!Quiet, Tcp!Begun, Tcp!Arriving, Tcp!Serving, Tcp!Replying, Tcp!Leaving, Tcp!Numbered,
     Tcp!NextSeq, Tcp!AnswerHandled, Tcp!OwnPacket, Tcp!AnswersMatch
<1> QED BY <1>1, <1>2, <1>3, <1>4 DEF Tcp!Next

\* Over TCP the state is well typed, one packet is under way at a time, and as
\* long as none was given up half sent it is that of the call.
THEOREM TcpInvariant ==
  ASSUME TcpOK
  PROVE  Tcp!Spec => []TcpInv
<1>1. Tcp!Init => TcpInv
  BY TcpInit
<1>2. TcpInv /\ [Tcp!Next]_(Tcp!vars) => TcpInv'
  BY TcpNext
<1> QED BY <1>1, <1>2, PTL DEF Tcp!Spec

\* An answer is never put together from the pieces of two, and never taken for
\* that of another request, unless a request was given up between its pieces.
THEOREM TcpAnswers ==
  ASSUME TcpOK
  PROVE  Tcp!Spec => []Tcp!CleanAnswersMatch
<1>1. TcpInv => Tcp!CleanAnswersMatch
  BY DEF TcpInv, TcpClean, Tcp!CleanAnswersMatch
<1> QED BY <1>1, TcpInvariant, PTL

\* Every piece that either side reads belongs to the packet whose header it has
\* read, whatever was given up.
THEOREM TcpPieces ==
  ASSUME TcpOK
  PROVE  Tcp!Spec => []Tcp!PiecesMatch
<1>1. TcpInv => Tcp!PiecesMatch
  BY Pieces DEF TcpInv, TcpNumbers, Tcp!OnePacket, Tcp!Quiet, Tcp!Begun, Tcp!Arriving,
     Tcp!Serving, Tcp!Replying, Tcp!Leaving, Tcp!Numbered, Tcp!PiecesMatch
<1> QED BY <1>1, TcpInvariant, PTL
===============================================================================
