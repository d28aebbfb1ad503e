----------------------------- MODULE CryptoClient -----------------------------
(***************************************************************************)
(* The client's hash and random requests and the server's handlers for     *)
(* them: wh_Client_Sha256* and wh_Client_RngGenerateDma* of                *)
(* src/wh_client_crypto.c, _HandleSha256, _HandleSha256Dma and             *)
(* _HandleRngDma of src/wh_server_crypto.c.  SHA-224, SHA-384 and SHA-512  *)
(* repeat the code of SHA-256 with other sizes.                            *)
(*                                                                         *)
(* The server keeps nothing of a hash between requests: the object on the  *)
(* client holds the chaining state and a partial block, and whole blocks   *)
(* travel, copied into the message or, by DMA, read from client memory     *)
(* when the server gets to the request.  The hash is taken to be perfect,  *)
(* so that a chaining state is the sequence of bytes that went into it;    *)
(* the length, which the code carries apart, is kept apart here.           *)
(*                                                                         *)
(* Below is the comm layer over shared memory with what Comm and CommMem   *)
(* show of it: one request outstanding, an answer only to its own request, *)
(* no request before the server has answered the last one, and a response  *)
(* timer that may expire first.  A DMA address is the client's own.  The   *)
(* port's PRE callback, which maps it, may refuse; after the callback the  *)
(* client's allow list may, in wh_Client_DmaProcessClientAddress.          *)
(***************************************************************************)
EXTENDS Sequences, Integers, FiniteSets

CONSTANTS Obj,       \* hash objects of one client
          Buf,       \* client buffers for DMA
          Listed,    \* buffers that the client's own allow list lets pass
          Block,     \* WC_SHA256_BLOCK_SIZE
          Inline,    \* WH_MESSAGE_CRYPTO_SHA256_MAX_INLINE_UPDATE_SZ
          MaxLen,    \* bound: bytes hashed into one object
          Noise,     \* a random byte
          None

Byte == (Obj \X Nat) \union {Noise}
Bytes == Seq(Byte)
Hashing == [hash : Bytes, len : Nat, buff : Bytes]

\* Whole blocks fit a message, and None is none of the records below.
ASSUME CryptoAssumption ==
  /\ Block \in Nat \ {0}
  /\ Inline \in Nat \ {0}
  /\ Inline % Block = 0
  /\ MaxLen \in Nat
  /\ Listed \subseteq Buf
  /\ None \notin Obj \union Buf
  /\ None \notin [kind: {"update", "dma", "final", "rng"},
                  of: Obj \union {None}, buf: Buf \union {None}]
  /\ None \notin [is : {"request"}, op : {"sha"}, hash : Bytes, len : Nat, data : Bytes,
                  buf : Buf \union {None}, from : Nat, size : Nat, final : BOOLEAN]
  /\ None \notin [is : {"request"}, op : {"rng"}, buf : Buf]
  /\ None \notin [is : {"answer"}, ok : BOOLEAN]
  /\ None \notin [is : {"answer"}, ok : BOOLEAN, hash : Bytes, len : Nat]
  /\ None \notin [of : Obj, buf : Buf \union {None}, rest : Bytes, final : BOOLEAN,
                  saved : Hashing, had : Bytes]

VARIABLES sha,       \* the objects: digest, length and partial block
          pending,   \* the request whose response is outstanding
          net,       \* the transport: a request, an answer, or None
          stash,     \* dma.asyncCtx: the buffer to release in the response
          mapped,    \* buffers that a PRE callback holds
          mem,       \* what the application has put in the buffers
          call,      \* the blocking call in progress
          want,      \* history: the bytes each object has accepted
          broken,    \* history: objects whose update failed on the server
          strayed    \* history: a request for random bytes was given up

state == <<sha, pending, net, stash, mapped>>
vars == <<sha, pending, net, stash, mapped, mem, call, want, broken, strayed>>

Fresh == [hash |-> <<>>, len |-> 0, buff |-> <<>>]
Free == [data |-> <<>>, noise |-> FALSE]

Init == /\ sha = [o \in Obj |-> Fresh]
        /\ pending = None
        /\ net = None
        /\ stash = None
        /\ mapped = {}
        /\ mem = [b \in Buf |-> Free]
        /\ call = None
        /\ want = [o \in Obj |-> <<>>]
        /\ broken = {}
        /\ strayed = FALSE

Min2(m, n) == IF m < n THEN m ELSE n
Suffix(s, n) == SubSeq(s, n + 1, Len(s))

\* The next n bytes of what the application hashes with o.
Input(o, n) == [i \in 1 .. n |-> <<o, Len(want[o]) + i>>]
Content(b) == IF mem[b].noise THEN [i \in DOMAIN mem[b].data |-> Noise]
              ELSE mem[b].data

(***************************************************************************)
(* Packing: buffered bytes and input make whole blocks and a tail          *)
(***************************************************************************)
M_Capacity(s) == Inline + Block - Len(s.buff)
Capacity(s) == Inline + Block - 1 - Len(s.buff)

\* What a message carries itself, the range it has the server read (an
\* offset and a size in the buffer), and what stays on the client.
Pack(s, in) ==
  LET all == s.buff \o in
      n == Min2(Len(all) \div Block, Inline \div Block) * Block
  IN [data |-> SubSeq(all, 1, n), from |-> 0, size |-> 0, tail |-> Suffix(all, n)]

\* By DMA only a block that was begun before is copied.
M_PackDma(s, in) ==
  LET all == s.buff \o in
      n == IF s.buff # <<>> /\ Len(all) >= Block THEN Block ELSE 0
      size == (Len(Suffix(all, n)) \div Block) * Block
  IN [data |-> SubSeq(all, 1, n), from |-> 0, size |-> size,
      tail |-> Suffix(all, n + size)]
PackDma(s, in) ==
  LET all == s.buff \o in
      n == IF s.buff # <<>> /\ Len(all) >= Block THEN Block ELSE 0
      size == (Len(Suffix(all, n)) \div Block) * Block
  IN [data |-> SubSeq(all, 1, n), from |-> Len(in) - Len(Suffix(all, n)),
      size |-> size, tail |-> Suffix(all, n + size)]

NoBlock(p) == p.data = <<>> /\ p.size = 0

(***************************************************************************)
(* Requests and responses, as far as both ways of calling share them       *)
(***************************************************************************)
IsRequest == net # None /\ net.is = "request"
IsAnswer == net # None /\ net.is = "answer"
CanSend == pending = None /\ ~IsRequest

Message(s, p, b, final) ==
  [is |-> "request", op |-> "sha", hash |-> s.hash, len |-> s.len, data |-> p.data,
   buf |-> b, from |-> p.from, size |-> p.size, final |-> final]

Absorb(o, p) == /\ NoBlock(p)
                /\ sha' = [sha EXCEPT ![o].buff = p.tail]
                /\ UNCHANGED <<pending, net, stash, mapped>>

Send(o, p) ==
  /\ ~NoBlock(p) /\ CanSend
  /\ sha' = [sha EXCEPT ![o].buff = p.tail]
  /\ pending' = [kind |-> "update", of |-> o, buf |-> None]
  /\ net' = Message(sha[o], p, None, FALSE)
  /\ UNCHANGED <<stash, mapped>>

\* The send fails, as it must while another request is outstanding, and
\* what was done to the partial block is undone.
M_Undone(old, new) == new
Undone(old, new) == old
Refuse(o, p) ==
  /\ ~NoBlock(p)
  /\ sha' = [sha EXCEPT ![o].buff = Undone(@, p.tail)]
  /\ UNCHANGED <<pending, net, stash, mapped>>

AbsorbDma(o, p) == pending = None /\ Absorb(o, p)

SendDma(o, p, b) ==
  /\ ~NoBlock(p) /\ CanSend
  /\ p.size > 0 => b \in Listed
  /\ sha' = [sha EXCEPT ![o].buff = p.tail]
  /\ pending' = [kind |-> "dma", of |-> o, buf |-> b]
  /\ net' = Message(sha[o], p, b, FALSE)
  /\ stash' = IF p.size > 0 THEN b ELSE None
  /\ mapped' = IF p.size > 0 THEN mapped \union {b} ELSE mapped

\* The allow list refuses what PRE has mapped, and nobody releases it.
Strand(b) == b \notin Listed /\ mapped' = mapped \union {b}

\* PRE or the allow list refuses the buffer, or the send fails and POST
\* releases it.  While another request is outstanding its stash is not to
\* be touched.
M_RefuseDma(o, p, b) ==
  /\ pending = None => ~NoBlock(p)
  /\ stash' = None
  /\ sha' = sha
  /\ UNCHANGED <<pending, net, mapped>>
RefuseDma(o, p, b) ==
  /\ pending = None => ~NoBlock(p)
  /\ stash' = IF pending = None THEN None ELSE stash
  /\ sha' = [sha EXCEPT ![o].buff = Undone(@, IF pending = None THEN p.tail ELSE @)]
  /\ UNCHANGED mapped \/ (pending = None /\ p.size > 0 /\ Strand(b))
  /\ UNCHANGED <<pending, net>>

FinalMessage(o) ==
  Message(sha[o], [data |-> sha[o].buff, from |-> 0, size |-> 0], None, TRUE)
SendFinal(o) ==
  /\ CanSend
  /\ pending' = [kind |-> "final", of |-> o, buf |-> None]
  /\ net' = FinalMessage(o)
  /\ UNCHANGED <<sha, stash, mapped>>

\* The response is there, and says ok.
Answered(kinds, o) ==
  pending # None /\ pending.kind \in kinds /\ pending.of = o /\ IsAnswer /\ net.ok
\* It says that the server failed, or the timer has expired without it.
Failed(kinds, o) ==
  /\ pending # None /\ pending.kind \in kinds /\ pending.of = o
  /\ IsAnswer => ~net.ok

\* RecvResponse ends the request; a buffer of it is released whatever came.
\* Of a request that is given up only what the server may still write is
\* kept: its answer will be dropped.
GivenUp == IF net.op = "rng" THEN net ELSE Message(Fresh, Pack(Fresh, <<>>), None, FALSE)
Left == IF IsAnswer THEN None ELSE GivenUp
Receive == /\ pending' = None
           /\ net' = Left
           /\ IF pending.kind \in {"dma", "rng"}
              THEN stash' = None /\ mapped' = mapped \ {stash}
              ELSE UNCHANGED <<stash, mapped>>

Resumed(o) == [sha[o] EXCEPT !.hash = net.hash, !.len = net.len]

\* The application is done with a buffer.
Done(b) == mem' = IF b = None THEN mem ELSE [mem EXCEPT ![b] = Free]

Digested(o) == /\ Receive
               /\ sha' = [sha EXCEPT ![o] = Fresh]
               /\ want' = [want EXCEPT ![o] = <<>>]

(***************************************************************************)
(* The calls that do not wait                                              *)
(***************************************************************************)
\* o's next bytes lie in a buffer and go by DMA.
LaidIn(o, b) == \E i \in DOMAIN mem[b].data : mem[b].data[i][1] = o
Laid(o) == \E b \in Buf : LaidIn(o, b)

\* An application that goes on while a request is outstanding, which the
\* header tells it not to, is refused or only fills partial blocks; what it
\* may not do is add to an object that is being finalized.
Open(o) == o \notin broken /\ ~(pending # None /\ pending.kind = "final" /\ pending.of = o)

Fill(o, b) ==
  /\ call = None /\ Open(o) /\ ~Laid(o)
  /\ mem[b].data = <<>> /\ (pending # None => pending.buf # b)
  /\ \E n \in 1 .. MaxLen - Len(want[o]) :
       mem' = [mem EXCEPT ![b] = [data |-> Input(o, n), noise |-> FALSE]]
  /\ UNCHANGED <<state, call, want, broken, strayed>>

UpdateRequest(o) ==
  /\ call = None /\ Open(o) /\ ~Laid(o)
  /\ \E n \in 1 .. MaxLen - Len(want[o]) :
       LET p == Pack(sha[o], Input(o, n)) IN
       /\ n <= Capacity(sha[o])
       /\ \/ /\ Absorb(o, p) \/ Send(o, p)
             /\ want' = [want EXCEPT ![o] = @ \o Input(o, n)]
          \/ Refuse(o, p) /\ UNCHANGED want
  /\ UNCHANGED <<mem, call, broken, strayed>>

DmaUpdateRequest(o, b) ==
  /\ call = None /\ Open(o)
  /\ pending # None => pending.buf # b
  /\ mem[b].data # <<>> /\ mem[b].data = Input(o, Len(mem[b].data))
  /\ LET p == PackDma(sha[o], Content(b))
         more == [want EXCEPT ![o] = @ \o mem[b].data]
     IN \/ AbsorbDma(o, p) /\ Done(b) /\ want' = more
        \/ SendDma(o, p, b) /\ UNCHANGED mem /\ want' = more
        \/ RefuseDma(o, p, b) /\ UNCHANGED <<mem, want>>
  /\ UNCHANGED <<call, broken, strayed>>

\* An update that fails on the server has left the partial block ahead of
\* the digest: the object is of no use, and the application starts it anew.
UpdateResponse(o) ==
  /\ call = None
  /\ \/ /\ Answered({"update", "dma"}, o)
        /\ sha' = [sha EXCEPT ![o] = Resumed(o)]
        /\ UNCHANGED broken
     \/ /\ Failed({"update", "dma"}, o)
        /\ broken' = broken \union {o}
        /\ UNCHANGED sha
  /\ Receive /\ Done(pending.buf)
  /\ UNCHANGED <<call, want, strayed>>

Restart(o) ==
  /\ call = None /\ o \in broken
  /\ sha' = [sha EXCEPT ![o] = Fresh]
  /\ want' = [want EXCEPT ![o] = <<>>]
  /\ broken' = broken \ {o}
  /\ mem' = [b \in Buf |-> IF LaidIn(o, b) THEN Free ELSE mem[b]]
  /\ UNCHANGED <<pending, net, stash, mapped, call, strayed>>

\* Also the DMA variant, which sends no address.
FinalRequest(o) ==
  /\ call = None /\ o \notin broken /\ ~Laid(o)
  /\ SendFinal(o)
  /\ UNCHANGED <<mem, call, want, broken, strayed>>

FinalResponse(o) ==
  /\ call = None
  /\ \/ Answered({"final"}, o) /\ Digested(o)
     \/ Failed({"final"}, o) /\ Receive /\ UNCHANGED <<sha, want>>
  /\ UNCHANGED <<mem, call, broken, strayed>>

RngDmaRequest(b) ==
  /\ call = None /\ pending = None /\ mem[b].data = <<>>
  /\ \/ /\ ~IsRequest /\ b \in Listed
        /\ pending' = [kind |-> "rng", of |-> None, buf |-> b]
        /\ net' = [is |-> "request", op |-> "rng", buf |-> b]
        /\ stash' = b /\ mapped' = mapped \union {b}
     \/ Strand(b) /\ UNCHANGED <<pending, net, stash>>
  /\ UNCHANGED <<sha, mem, call, want, broken, strayed>>

RngDmaResponse ==
  /\ call = None
  /\ \/ Answered({"rng"}, None) /\ UNCHANGED strayed
     \/ Failed({"rng"}, None) /\ strayed' = (strayed \/ IsRequest)
  /\ Receive /\ Done(pending.buf)
  /\ UNCHANGED <<sha, call, want, broken>>

(***************************************************************************)
(* The blocking calls wh_Client_Sha256 and wh_Client_Sha256Dma             *)
(***************************************************************************)
Call(o, b, in, final) ==
  /\ call = None /\ pending = None /\ o \notin broken
  /\ in # <<>> \/ final
  /\ call' = [of |-> o, buf |-> b, rest |-> in, final |-> final,
              saved |-> sha[o], had |-> want[o]]
  /\ want' = [want EXCEPT ![o] = @ \o in]
  /\ UNCHANGED <<state, mem, broken, strayed>>
Sha256(o) == ~Laid(o) /\ \E n \in 0 .. MaxLen - Len(want[o]) : \E final \in BOOLEAN :
               Call(o, None, Input(o, n), final)
Sha256Dma(o, b) == \E final \in BOOLEAN :
  mem[b].data = Input(o, Len(mem[b].data)) /\ Call(o, b, mem[b].data, final)

\* Any failure puts the object back as it was.
Restored == call.saved
Abort == /\ sha' = [sha EXCEPT ![call.of] = Restored]
         /\ want' = [want EXCEPT ![call.of] = call.had]
         /\ call' = None
         /\ Done(call.buf)

CallUpdate ==
  /\ call # None /\ pending = None /\ call.rest # <<>>
  /\ LET o == call.of
         n == IF call.buf = None THEN Min2(Len(call.rest), Capacity(sha[o]))
              ELSE Len(call.rest)
         p == IF call.buf = None THEN Pack(sha[o], SubSeq(call.rest, 1, n))
              ELSE PackDma(sha[o], Content(call.buf))
     IN \/ /\ \/ Absorb(o, p)
              \/ call.buf = None /\ Send(o, p)
              \/ call.buf # None /\ SendDma(o, p, call.buf)
           /\ call' = [call EXCEPT !.rest = Suffix(@, n)]
           /\ UNCHANGED <<mem, want>>
        \/ /\ ~NoBlock(p) /\ Abort /\ UNCHANGED <<pending, net, stash>>
           /\ UNCHANGED mapped \/ (call.buf # None /\ p.size > 0 /\ Strand(call.buf))
  /\ UNCHANGED <<broken, strayed>>

CallUpdateResponse ==
  /\ call # None
  /\ \/ /\ Answered({"update", "dma"}, call.of)
        /\ sha' = [sha EXCEPT ![call.of] = Resumed(call.of)]
        /\ UNCHANGED <<mem, call, want>>
     \/ Failed({"update", "dma"}, call.of) /\ Abort
  /\ Receive
  /\ UNCHANGED <<broken, strayed>>

CallFinal ==
  /\ call # None /\ pending = None /\ call.rest = <<>> /\ call.final
  /\ \/ SendFinal(call.of) /\ UNCHANGED <<mem, call, want>>
     \/ Abort /\ UNCHANGED <<pending, net, stash, mapped>>
  /\ UNCHANGED <<broken, strayed>>

CallFinalResponse ==
  /\ call # None
  /\ \/ Answered({"final"}, call.of) /\ Digested(call.of) /\ call' = None /\ Done(call.buf)
     \/ Failed({"final"}, call.of) /\ Receive /\ Abort
  /\ UNCHANGED <<broken, strayed>>

CallReturn ==
  /\ call # None /\ pending = None /\ call.rest = <<>> /\ ~call.final
  /\ call' = None /\ Done(call.buf)
  /\ UNCHANGED <<state, want, broken, strayed>>

(***************************************************************************)
(* The server                                                              *)
(***************************************************************************)
Acceptable(m) ==
  IF m.final THEN Len(m.data) < Block /\ m.size = 0
  ELSE Len(m.data) % Block = 0 /\ m.size % Block = 0

Digestible(m) ==
  m.data \o (IF m.size = 0 THEN <<>> ELSE SubSeq(Content(m.buf), m.from + 1, m.from + m.size))

\* The answer to a request that was given up is dropped by its sequence number.
Answer(a) == net' = IF pending = None THEN None ELSE a
Fault == [is |-> "answer", ok |-> FALSE]

HandleSha256 ==
  /\ IsRequest /\ net.op = "sha" /\ Acceptable(net)
  /\ Answer([is |-> "answer", ok |-> TRUE, hash |-> net.hash \o Digestible(net),
             len |-> net.len + Len(Digestible(net))])
  /\ UNCHANGED <<sha, pending, stash, mapped, mem, call, want, broken, strayed>>

HandleRngDma ==
  /\ IsRequest /\ net.op = "rng"
  /\ Answer([is |-> "answer", ok |-> TRUE])
  /\ mem' = [mem EXCEPT ![net.buf].noise = TRUE]
  /\ UNCHANGED <<sha, pending, stash, mapped, call, want, broken, strayed>>

\* The request is malformed, the address is not allowed, or wolfCrypt fails,
\* which may have written to the buffer before.
HandleFails ==
  /\ IsRequest
  /\ Answer(Fault)
  /\ \/ UNCHANGED mem
     \/ net.op = "rng" /\ mem' = [mem EXCEPT ![net.buf].noise = TRUE]
  /\ UNCHANGED <<sha, pending, stash, mapped, call, want, broken, strayed>>

Next ==
  \/ \E o \in Obj : \/ UpdateRequest(o) \/ UpdateResponse(o)
                    \/ FinalRequest(o) \/ FinalResponse(o)
                    \/ Restart(o) \/ Sha256(o)
  \/ \E o \in Obj, b \in Buf :
       Fill(o, b) \/ DmaUpdateRequest(o, b) \/ Sha256Dma(o, b)
  \/ \E b \in Buf : RngDmaRequest(b)
  \/ RngDmaResponse
  \/ CallUpdate \/ CallUpdateResponse \/ CallFinal \/ CallFinalResponse \/ CallReturn
  \/ HandleSha256 \/ HandleRngDma \/ HandleFails

Spec == Init /\ [][Next]_vars

(***************************************************************************)
(* Properties                                                              *)
(***************************************************************************)
\* Equal, but for random bytes when a request for them was given up.
Same(s, t) ==
  /\ Len(s) = Len(t)
  /\ \A i \in DOMAIN s : s[i] = t[i] \/ (strayed /\ s[i] = Noise)

\* The object as it is going to be when the outstanding update has worked.
Ahead(o) ==
  IF ~(pending # None /\ pending.kind \in {"update", "dma"} /\ pending.of = o) THEN sha[o]
  ELSE IF IsAnswer THEN Resumed(o)
  ELSE [sha[o] EXCEPT !.hash = net.hash \o Digestible(net), !.len = net.len + Len(Digestible(net))]

Ungiven(o) == IF call # None /\ call.of = o THEN call.rest ELSE <<>>

\* Every byte that an object has accepted is, once and in order, under its
\* digest, on its way there, in its partial block, or still to be taken by
\* the call in progress; refused, failed and abandoned calls leave no trace.
\* An update that fails on the server is the exception for the calls that
\* do not wait; the blocking calls undo it.
InputAccounted ==
  \A o \in Obj \ broken :
    (pending # None /\ pending.of = o /\ IsAnswer => net.ok) =>
      /\ Same(Ahead(o).hash \o sha[o].buff \o Ungiven(o), want[o])
      /\ Ahead(o).len = Len(Ahead(o).hash)
      /\ Len(sha[o].buff) < Block

\* The digest that is about to be given out covers exactly the bytes
\* accepted since the object was new, with their length, unless the server
\* wrote random bytes late into a buffer whose request had been given up.
DigestsRight ==
  pending # None /\ pending.kind = "final" /\ IsAnswer /\ net.ok =>
    Same(net.hash, want[pending.of]) /\ net.len = Len(want[pending.of])

\* No request of this client fails the server's checks on its size: a
\* message holds at most what fits, whole blocks before the end and less
\* than one at the end.
RequestsAccepted ==
  IsRequest /\ net.op = "sha" => Acceptable(net) /\ Len(net.data) <= Inline

\* Each buffer that PRE has mapped is the one in the stash of the request
\* that is outstanding: none is lost, none released while it is in use.
\* Buffers that the client's own allow list refuses are the exception: they
\* stay mapped, although src/wolfhsm/wh_client_crypto.h:146 says that on
\* failure any acquired mapping is released before returning.
MappingsReturned ==
  /\ mapped \intersect Listed = {stash} \ {None}
  /\ stash # None => pending # None /\ pending.kind \in {"dma", "rng"} /\ pending.buf = stash

\* The server writes to a buffer only while its request is outstanding,
\* unless one has been given up: without that clause the property fails,
\* although the comment at src/wh_client_crypto.c:415 has it that after the
\* response function the buffer is safe to read whatever the error was.
BuffersStayQuiet ==
  [][\A b \in Buf : ~mem[b].noise /\ mem'[b].noise =>
       strayed \/ (pending # None /\ pending.buf = b)]_vars
=============================================================================
