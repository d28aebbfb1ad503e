----------------------------- MODULE CallsProofs -----------------------------
(***************************************************************************)
(* For any number of key ids, and any calls of the table: no call takes a  *)
(* key of the application away, none evicts by hand what something else    *)
(* handles, and no key is left behind, provided that the calls that take   *)
(* an id back after WH_ERROR_ABORTED are never denied.                     *)
(*                                                                         *)
(* The three are not inductive by themselves.  That a call holds no key of *)
(* its own while its use request is under way, or while a request that was *)
(* given up is still to be handled, is what keeps the server's evictions   *)
(* away from them; that an import in progress owns only keys that are in   *)
(* the cache is what makes the id of the next import a new one.            *)
(***************************************************************************)
EXTENDS Calls, TLAPS

Importing == call # None /\ call.at \in {"import", "imported"}

\* A call that waits has its own request or an answer to it under way; a
\* message that nobody waits for is a request.
Paired ==
  /\ net # None /\ net.live =>
       call # None /\ call.at \in {"imported", "wait", "evicted"}
  /\ call # None /\ call.at \in {"imported", "wait", "evicted"} =>
       net # None /\ net.live
  /\ Waiting("imported") => net.kind \in {"cache", "ok", "fail"}
  /\ Waiting("wait") => net.kind \in {"use"} \union Answers
  /\ Waiting("evicted") => net.kind \in {"evict", "ok", "fail"}
  /\ net # None /\ ~net.live => net.kind \in {"cache", "use", "evict"}

\* The keys that a call has imported are there until it asks for their use.
OwnKept ==
  /\ Importing => call.own \subseteq cache
  /\ Importing => call.row.on.evicts \/ (call.own = {} /\ DOMAIN call.keys = {})
  /\ Waiting("import") /\ net # None => call.own = {}
  /\ Waiting("wait") => call.own = {}

\* What a message speaks of is not the application's, and an answer with a key
\* speaks of one that is there.
Spoken ==
  net # None =>
    /\ net.ids \intersect known = {}
    /\ net.kind \in {"ok", "empty"} => net.ids \subseteq cache
    /\ net.kind \in {"cache", "fail", "denied"} => net.ids = {}
    /\ net.kind = "use" => net.on.evicts \/ net.ids = {}

\* The request under way is the call's own, and its answer fits.
Asked ==
  /\ Waiting("imported") /\ net.kind = "ok" => \E id \in Key : net.ids = {id}
  /\ Waiting("evicted") /\ net.kind = "ok" => net.ids = {}
  /\ Waiting("wait") =>
       /\ net.kind = "use" => /\ net.out = call.out
                              /\ net.deniable = (call.row.undo \in Deniable)
       /\ net.kind = "denied" => call.row.undo \in Deniable
       /\ net.kind = "empty" /\ call.out # None => net.ids = {call.out}

Kept == KnownStay /\ OwnIsFresh /\ NoneLeftBehind

IInv == TypeOK /\ Paired /\ OwnKept /\ Spoken /\ Asked /\ Kept

-----------------------------------------------------------------------------
\* What all rows of the table have in common: a call that imports asks a
\* handler that evicts, which stores no key.
LEMMA RowFacts ==
  ASSUME NEW row \in Rows
  PROVE  /\ row.imports \in 0 .. 2 /\ row.undo \in Undos
         /\ row.on.evicts \in BOOLEAN
         /\ row.on.makes \in {"none", "key", "public", "stored", "new"}
         /\ row.on.evicts \/ row.imports = 0
         /\ row.on.makes = "stored" => ~row.on.evicts
<1> DEFINE Ordinary(r) ==
      /\ r.imports \in 0 .. 2 /\ r.undo \in Undos
      /\ r.on.evicts \in BOOLEAN
      /\ r.on.makes \in {"none", "key", "public", "stored", "new"}
      /\ r.on.evicts \/ r.imports = 0
      /\ r.on.makes = "stored" => ~r.on.evicts
<1>1. ASSUME NEW i \in 0 .. 2, NEW u \in Undos, NEW e \in BOOLEAN,
             NEW m \in {"none", "key", "public", "stored", "new"},
             e \/ i = 0, m = "stored" => ~e
      PROVE  Ordinary(Calling(i, u, Handler(e, m)))
  BY <1>1 DEF Calling, Handler
<1> HIDE DEF Ordinary
<1>2. ASSUME NEW i \in {1, 2}, NEW m \in {"none", "key"}
      PROVE  Ordinary(Calling(i, "never", Handler(TRUE, m)))
  <2>1. i \in 0 .. 2 /\ "never" \in Undos /\ m \in {"none", "key", "public", "stored", "new"} /\ m # "stored"
    BY <1>2 DEF Undos
  <2> QED BY <2>1, <1>1
<1>3. ASSUME NEW u \in Undos, NEW m \in {"key", "public", "stored", "new"}
      PROVE  Ordinary(Calling(0, u, Handler(FALSE, m)))
  <2>1. 0 \in 0 .. 2 /\ m \in {"none", "key", "public", "stored", "new"}
    BY <1>3
  <2> QED BY <2>1, <1>1
<1>4. ASSUME row \in Users PROVE Ordinary(row)
  BY <1>2, <1>4 DEF Users, RsaFunction, RsaGetSize, EccSign, EccVerify,
    EccMakePub, EccCheckPubKey, Ed25519Sign, Ed25519Verify, Ed25519SignDma,
    Ed25519VerifyDma, MlDsaSign, MlDsaVerify, MlDsaSignDma, MlDsaVerifyDma,
    MlKemEncapsulate, MlKemDecapsulate, MlKemEncapsulateDma,
    MlKemDecapsulateDma, EccSharedSecret, EccSharedSecretCacheKey,
    Curve25519SharedSecret, Curve25519SharedSecretCacheKey,
    HandleRsaFunction, HandleRsaGetSize, HandleEccSign, HandleEccVerify,
    HandleEccMakePub, HandleEccCheckPubKey, HandleEd25519Sign,
    HandleEd25519Verify, HandleEd25519SignDma, HandleEd25519VerifyDma,
    HandleMlDsaSign, HandleMlDsaVerify, HandleMlDsaSignDma,
    HandleMlDsaVerifyDma, HandleMlKemEncaps, HandleMlKemDecaps,
    HandleMlKemEncapsDma, HandleMlKemDecapsDma, HandleEccSharedSecret,
    HandleCurve25519SharedSecret
<1>5. ASSUME row \in Makers PROVE Ordinary(row)
  BY <1>3, <1>5 DEF Makers, Undos, RsaMakeCacheKey, EccMakeCacheKey,
    Curve25519MakeCacheKey, Ed25519MakeCacheKey, MlDsaMakeCacheKey,
    MlKemMakeCacheKey, RsaMakeCacheKeyAndExportPublic,
    EccMakeCacheKeyAndExportPublic, Curve25519MakeCacheKeyAndExportPublic,
    Ed25519MakeCacheKeyAndExportPublic, MlDsaMakeCacheKeyAndExportPublic,
    MlKemMakeCacheKeyAndExportPublic, MlDsaMakeCacheKeyDma,
    MlKemMakeCacheKeyDma, LmsMakeKeyDma, XmssMakeKeyDma, HkdfMakeCacheKey,
    CmacKdfMakeCacheKey, KeyCache, HandleRsaKeyGen, HandleEccKeyGen,
    HandleCurve25519KeyGen, HandleEd25519KeyGen, HandleMlDsaKeyGen,
    HandleMlKemKeyGen, HandleMlDsaKeyGenDma, HandleMlKemKeyGenDma,
    HandleLmsKeyGenDma, HandleXmssKeyGenDma, HandleHkdf, HandleCmacKdf,
    HandleKeyCache, HandleKeyCacheRandom,
    HandleKeyCacheDma, HandleKeyUnwrapAndCache, KeyCacheRandom, KeyCacheDma,
    KeyUnwrapAndCache
<1>6. Ordinary(row)
  BY <1>4, <1>5 DEF Rows
<1> QED BY <1>6 DEF Ordinary

\* Neither a call nor a message is to be taken for none.
LEMMA Real ==
  /\ None \notin CallSet
  /\ None \notin Short \union Use
BY CallsAssumption

-----------------------------------------------------------------------------
\* Nothing is cached, sent or owned at first.
LEMMA InitInv == Init => IInv
BY DEF Init, IInv, TypeOK, Paired, OwnKept, Spoken, Asked, Kept, KnownStay, OwnIsFresh,
       NoneLeftBehind, Carried, Waiting, Importing

\* The application starts a call.
LEMMA StartInv ==
  ASSUME IInv, NEW row \in Rows, NEW out \in Key \union {None},
         NEW keys \in [1 .. row.imports -> Key \union {None}], Start(row, keys, out)
  PROVE  IInv'
<1> USE DEF IInv
<1>1. keys \in KeyLists /\ (row.imports = 0 => DOMAIN keys = {})
  BY RowFacts DEF KeyLists
<1>2. call' \in CallSet
  BY <1>1 DEF Start, CallSet
<1>3. TypeOK'
  BY <1>2 DEF Start, TypeOK
<1>4. Paired'
  BY DEF Start, Paired, Waiting
<1>5. OwnKept'
  BY <1>1, RowFacts DEF Start, OwnKept, Waiting, Importing
<1>6. Spoken'
  BY DEF Start, Spoken
<1>7. Asked'
  BY DEF Start, Asked, Waiting
<1>8. Kept'
  BY DEF Start, Kept, KnownStay, OwnIsFresh, NoneLeftBehind, Carried
<1> QED BY <1>3, <1>4, <1>5, <1>6, <1>7, <1>8

\* A call that has moved on, or has other keys to evict, is still a call.
LEMMA Moved ==
  ASSUME call \in CallSet, NEW own \in SUBSET Key,
         NEW a \in {"import", "imported", "wait", "evict", "evicted"},
         call' = [call EXCEPT !.own = own, !.at = a]
  PROVE  /\ call' \in CallSet /\ call' # None
         /\ call'.own = own /\ call'.at = a
         /\ call'.row = call.row /\ call'.keys = call.keys /\ call'.out = call.out
BY Real DEF CallSet

\* The same with the same keys to evict.
LEMMA MovedOn ==
  ASSUME call \in CallSet,
         NEW a \in {"import", "imported", "wait", "evict", "evicted"},
         call' = [call EXCEPT !.at = a]
  PROVE  /\ call' \in CallSet /\ call' # None
         /\ call'.own = call.own /\ call'.at = a
         /\ call'.row = call.row /\ call'.keys = call.keys /\ call'.out = call.out
BY Real DEF CallSet

\* A message that has been sent.
LEMMA SentShort ==
  ASSUME NEW k \in {"cache", "evict"} \union Answers, NEW ids \in SUBSET Key,
         net' = [kind |-> k, ids |-> ids, live |-> TRUE]
  PROVE  /\ net' \in Short /\ net' # None
         /\ net'.kind = k /\ net'.ids = ids /\ net'.live
<1>1. net'.live
  BY Zenon
<1>2. net' \in Short
  BY DEF Short
<1>3. net'.kind = k /\ net'.ids = ids
  OBVIOUS
<1> QED BY <1>1, <1>2, <1>3, Real

\* What the transport holds after an answer.
LEMMA Replied ==
  ASSUME TypeOK, net # None, NEW rc \in Answers, NEW ids \in SUBSET Key, Reply(rc, ids)
  PROVE  /\ net' \in Short \union {None}
         /\ net.live => net' # None /\ net'.kind = rc /\ net'.ids = ids /\ net'.live
         /\ ~net.live => net' = None
<1>1. CASE net.live
  BY <1>1, SentShort DEF Reply
<1>2. CASE ~net.live
  BY <1>2 DEF Reply
<1> QED BY <1>1, <1>2

\* The application evicts a key.
LEMMA KeyEvictInv ==
  ASSUME IInv, NEW k \in Key, KeyEvict(k)
  PROVE  IInv'
<1> USE DEF IInv
<1>1. KeyCache \in Rows /\ <<>> \in KeyLists
  <2>1. <<>> \in [1 .. 0 -> Key \union {None}]
    OBVIOUS
  <2> QED BY <2>1 DEF KeyLists, Rows, Makers
<1>2. /\ call' \in CallSet /\ call' # None /\ call'.own = {k} /\ call'.at = "evict"
  BY <1>1, Real DEF KeyEvict, CallSet
<1>3. TypeOK'
  BY <1>2 DEF KeyEvict, TypeOK, Short, Use
<1>4. Paired'
  BY <1>2 DEF KeyEvict, Paired, Waiting, Requested, Answers
<1>5. OwnKept'
  BY <1>2 DEF KeyEvict, Paired, OwnKept, Spoken, Waiting, Importing, Requested
<1>6. Spoken'
  BY <1>2 DEF KeyEvict, TypeOK, Paired, OwnKept, Spoken, Waiting, Requested
<1>7. Asked'
  BY <1>2 DEF KeyEvict, Paired, OwnKept, Spoken, Asked, Waiting, Requested
<1>8. Kept'
  BY <1>2 DEF KeyEvict, TypeOK, Paired, OwnKept, Spoken, Asked, Kept, KnownStay, OwnIsFresh, NoneLeftBehind, Carried, Waiting, Importing, Requested
<1> QED BY <1>3, <1>4, <1>5, <1>6, <1>7, <1>8

\* An import is sent.
LEMMA ImportInv ==
  ASSUME IInv, Import
  PROVE  IInv'
<1> USE DEF IInv
<1>1. call \in CallSet /\ call # None
  BY DEF Import, TypeOK, Waiting
<1>2. /\ call' \in CallSet /\ call' # None
      /\ call'.own = call.own /\ call'.at = "imported"
      /\ call'.row = call.row /\ call'.keys = call.keys /\ call'.out = call.out
  BY <1>1, MovedOn DEF Import
<1>a. /\ net = None /\ net' \in Short /\ net' # None
      /\ net'.kind = "cache" /\ net'.ids = {} /\ net'.live
  BY SentShort DEF Import, Send
<1>3. TypeOK'
  BY <1>1, <1>2, <1>a DEF Import, TypeOK, Short, Use
<1>4. Paired'
  BY <1>1, <1>2, <1>a DEF Import, Paired, Waiting, Requested, Answers
<1>5. OwnKept'
  BY <1>1, <1>2, <1>a DEF Import, Paired, OwnKept, Spoken, Waiting, Importing, Requested
<1>6. Spoken'
  BY <1>1, <1>2, <1>a DEF Import, TypeOK, Paired, OwnKept, Spoken, Waiting, Requested
<1>7. Asked'
  BY <1>1, <1>2, <1>a DEF Import, Paired, OwnKept, Spoken, Asked, Waiting, Requested
<1>8. Kept'
  BY <1>1, <1>2, <1>a DEF Import, TypeOK, Paired, OwnKept, Spoken, Asked, Kept, KnownStay, OwnIsFresh, NoneLeftBehind, Carried, Waiting, Importing, Requested
<1> QED BY <1>3, <1>4, <1>5, <1>6, <1>7, <1>8

\* An import fails.
LEMMA ImportFailsInv ==
  ASSUME IInv, ImportFails
  PROVE  IInv'
<1> USE DEF IInv
<1>1. call \in CallSet /\ call # None
  BY DEF ImportFails, TypeOK, Waiting
<1>2. /\ call' \in CallSet /\ call' # None
      /\ call'.own = call.own /\ call'.at = "evict"
      /\ call'.row = call.row /\ call'.keys = call.keys /\ call'.out = call.out
  BY <1>1, MovedOn DEF ImportFails
<1>3. TypeOK'
  BY <1>1, <1>2 DEF ImportFails, TypeOK, Short, Use
<1>4. Paired'
  BY <1>1, <1>2 DEF ImportFails, Paired, Waiting, Requested, Answers
<1>5. OwnKept'
  BY <1>1, <1>2 DEF ImportFails, Paired, OwnKept, Spoken, Waiting, Importing, Requested
<1>6. Spoken'
  BY <1>1, <1>2 DEF ImportFails, TypeOK, Paired, OwnKept, Spoken, Waiting, Requested
<1>7. Asked'
  BY <1>1, <1>2 DEF ImportFails, Paired, OwnKept, Spoken, Asked, Waiting, Requested
<1>8. Kept'
  BY <1>1, <1>2 DEF ImportFails, TypeOK, Paired, OwnKept, Spoken, Asked, Kept, KnownStay, OwnIsFresh, NoneLeftBehind, Carried, Waiting, Importing, Requested
<1> QED BY <1>3, <1>4, <1>5, <1>6, <1>7, <1>8

\* A call gives up before its request.
LEMMA GiveUpInv ==
  ASSUME IInv, GiveUp
  PROVE  IInv'
<1> USE DEF IInv
<1>1. call \in CallSet /\ call # None
  BY DEF GiveUp, TypeOK, Waiting
<1>2. /\ call' \in CallSet /\ call' # None
      /\ call'.own = call.own /\ call'.at = "evict"
      /\ call'.row = call.row /\ call'.keys = call.keys /\ call'.out = call.out
  BY <1>1, MovedOn DEF GiveUp
<1>3. TypeOK'
  BY <1>1, <1>2 DEF GiveUp, TypeOK, Short, Use
<1>4. Paired'
  BY <1>1, <1>2 DEF GiveUp, Paired, Waiting, Requested, Answers
<1>5. OwnKept'
  BY <1>1, <1>2 DEF GiveUp, Paired, OwnKept, Spoken, Waiting, Importing, Requested
<1>6. Spoken'
  BY <1>1, <1>2 DEF GiveUp, TypeOK, Paired, OwnKept, Spoken, Waiting, Requested
<1>7. Asked'
  BY <1>1, <1>2 DEF GiveUp, Paired, OwnKept, Spoken, Asked, Waiting, Requested
<1>8. Kept'
  BY <1>1, <1>2 DEF GiveUp, TypeOK, Paired, OwnKept, Spoken, Asked, Kept, KnownStay, OwnIsFresh, NoneLeftBehind, Carried, Waiting, Importing, Requested
<1> QED BY <1>3, <1>4, <1>5, <1>6, <1>7, <1>8

\* The request is sent.
LEMMA RequestInv ==
  ASSUME IInv, Request
  PROVE  IInv'
<1> USE DEF IInv
<1>1. call \in CallSet /\ call # None
  BY DEF Request, TypeOK, Waiting
<1>2. /\ call' \in CallSet /\ call' # None
      /\ call'.own = {} /\ call'.at = "wait"
      /\ call'.row = call.row /\ call'.keys = call.keys /\ call'.out = call.out
  BY <1>1, Moved DEF Request
<1>a. net = None /\ call.row \in Rows /\ call.row.on \in {row.on : row \in Rows}
  BY <1>1 DEF Request, CallSet
<1>b. /\ net' \in Use /\ net' # None
      /\ net'.kind = "use" /\ net'.ids = call.own /\ net'.live
      /\ net'.out = call.out /\ net'.on = call.row.on
      /\ net'.deniable = (call.row.undo \in Deniable)
  <2>1. net' = [kind |-> "use", ids |-> call.own, live |-> TRUE, out |-> call.out,
                on |-> call.row.on, deniable |-> call.row.undo \in Deniable]
    BY DEF Request
  <2>2. net'.live /\ net'.deniable = (call.row.undo \in Deniable)
    BY <2>1, Zenon
  <2>3. call.own \in SUBSET Key /\ call.out \in Key \union {None}
    BY <1>1 DEF CallSet
  <2>4. net' \in Use
    BY <1>a, <2>1, <2>3 DEF Use
  <2>5. net'.kind = "use" /\ net'.ids = call.own /\ net'.out = call.out /\ net'.on = call.row.on
    BY <2>1
  <2> QED BY <2>2, <2>4, <2>5, Real
<1>3. TypeOK'
  BY <1>1, <1>2, <1>a, <1>b DEF Request, TypeOK, Short, Use, Importing, Kept, OwnIsFresh
<1>4. Paired'
  BY <1>1, <1>2, <1>a, <1>b DEF Request, Paired, Waiting, Requested, Answers, Importing, Kept, OwnIsFresh
<1>5. OwnKept'
  BY <1>1, <1>2, <1>a, <1>b DEF Request, Paired, OwnKept, Spoken, Waiting, Importing, Requested, Importing, Kept, OwnIsFresh
<1>6. Spoken'
  BY <1>1, <1>2, <1>a, <1>b DEF Request, TypeOK, Paired, OwnKept, Spoken, Waiting, Requested, Importing, Kept, OwnIsFresh
<1>7. Asked'
  BY <1>1, <1>2, <1>a, <1>b DEF Request, Paired, OwnKept, Spoken, Asked, Waiting, Requested, Importing, Kept, OwnIsFresh
<1>8. Kept'
  BY <1>1, <1>2, <1>a, <1>b DEF Request, TypeOK, Paired, OwnKept, Spoken, Asked, Kept, KnownStay, OwnIsFresh, NoneLeftBehind, Carried, Waiting, Importing, Requested, Importing, Kept, OwnIsFresh
<1> QED BY <1>3, <1>4, <1>5, <1>6, <1>7, <1>8

\* The call succeeds.
LEMMA AnsweredInv ==
  ASSUME IInv, Answered
  PROVE  IInv'
<1> USE DEF IInv
<1>1. call \in CallSet /\ call # None
  BY DEF Answered, TypeOK, Waiting
<1>2. /\ call' \in CallSet /\ call' # None
      /\ call'.own = call.own /\ call'.at = "evict"
      /\ call'.row = call.row /\ call'.keys = call.keys /\ call'.out = call.out
  BY <1>1, MovedOn DEF Answered
<1>a. net # None /\ net.ids \subseteq Key
  BY DEF Answered, Requested, TypeOK, Short, Use, Paired, Waiting
<1>3. TypeOK'
  BY <1>1, <1>2, <1>a DEF Answered, TypeOK, Short, Use
<1>4. Paired'
  BY <1>1, <1>2, <1>a DEF Answered, Paired, Waiting, Requested, Answers
<1>5. OwnKept'
  BY <1>1, <1>2, <1>a DEF Answered, Paired, OwnKept, Spoken, Waiting, Importing, Requested
<1>6. Spoken'
  BY <1>1, <1>2, <1>a DEF Answered, TypeOK, Paired, OwnKept, Spoken, Waiting, Requested
<1>7. Asked'
  BY <1>1, <1>2, <1>a DEF Answered, Paired, OwnKept, Spoken, Asked, Waiting, Requested
<1>8. Kept'
  BY <1>1, <1>2, <1>a DEF Answered, TypeOK, Paired, OwnKept, Spoken, Asked, Kept, KnownStay, OwnIsFresh, NoneLeftBehind, Carried, Waiting, Importing, Requested
<1> QED BY <1>3, <1>4, <1>5, <1>6, <1>7, <1>8

\* The timer expires.
LEMMA ExpireInv ==
  ASSUME IInv, Expire
  PROVE  IInv'
<1> USE DEF IInv
<1>1. call \in CallSet /\ call # None
  BY DEF Expire, TypeOK
<1>2. /\ call' \in CallSet /\ call' # None
      /\ call'.own = call.own /\ call'.at = "evict"
      /\ call'.row = call.row /\ call'.keys = call.keys /\ call'.out = call.out
  BY <1>1, MovedOn DEF Expire
<1>a. /\ net # None /\ net' \in Short \union Use /\ net' # None
      /\ net'.kind = net.kind /\ net'.ids = net.ids /\ ~net'.live
      /\ net.kind = "use" => net'.on = net.on
  <2>1. net # None /\ net \in Short \union Use
    BY DEF Expire, Paired, TypeOK
  <2>2. CASE net \in Short
    BY <2>1, <2>2, Real DEF Expire, Short, Answers
  <2>3. CASE net \in Use
    BY <2>1, <2>3, Real DEF Expire, Use
  <2> QED BY <2>1, <2>2, <2>3
<1>3. TypeOK'
  BY <1>1, <1>2, <1>a DEF Expire, TypeOK, Short, Use
<1>4. Paired'
  BY <1>1, <1>2, <1>a DEF Expire, Paired, Waiting, Requested, Answers
<1>5. OwnKept'
  BY <1>1, <1>2, <1>a DEF Expire, Paired, OwnKept, Spoken, Waiting, Importing, Requested
<1>6. Spoken'
  BY <1>1, <1>2, <1>a DEF Expire, TypeOK, Paired, OwnKept, Spoken, Waiting, Requested
<1>7. Asked'
  BY <1>1, <1>2, <1>a DEF Expire, Paired, OwnKept, Spoken, Asked, Waiting, Requested
<1>8. Kept'
  BY <1>1, <1>2, <1>a DEF Expire, TypeOK, Paired, OwnKept, Spoken, Asked, Kept, KnownStay, OwnIsFresh, NoneLeftBehind, Carried, Waiting, Importing, Requested
<1> QED BY <1>3, <1>4, <1>5, <1>6, <1>7, <1>8

\* A key is evicted by hand.
LEMMA EvictInv ==
  ASSUME IInv, Evict
  PROVE  IInv'
<1> USE DEF IInv
<1>1. call \in CallSet /\ call # None /\ call.at = "evict" /\ call.own \subseteq Key
  BY DEF Evict, TypeOK, Waiting, CallSet
<1>2. PICK k \in call.own :
        /\ Send("evict", {k})
        /\ call' = [call EXCEPT !.own = @ \ {k}, !.at = "evicted"]
  BY DEF Evict
<1>a. /\ call' \in CallSet /\ call' # None
      /\ call'.own = call.own \ {k} /\ call'.at = "evicted"
      /\ call'.row = call.row /\ call'.keys = call.keys /\ call'.out = call.out
  BY <1>1, <1>2, Moved
<1>b. /\ net = None /\ net' \in Short /\ net' # None
      /\ net'.kind = "evict" /\ net'.ids = {k} /\ net'.live
  BY <1>1, <1>2, SentShort DEF Send
<1>3. TypeOK'
  BY <1>1, <1>a, <1>b DEF Evict, TypeOK, Short, Use, Kept, OwnIsFresh
<1>4. Paired'
  BY <1>1, <1>a, <1>b DEF Evict, Paired, Waiting, Requested, Answers, Kept, OwnIsFresh
<1>5. OwnKept'
  BY <1>1, <1>a, <1>b DEF Evict, Paired, OwnKept, Spoken, Waiting, Importing, Requested, Kept, OwnIsFresh
<1>6. Spoken'
  BY <1>1, <1>a, <1>b DEF Evict, TypeOK, Paired, OwnKept, Spoken, Waiting, Requested, Kept, OwnIsFresh
<1>7. Asked'
  BY <1>1, <1>a, <1>b DEF Evict, Paired, OwnKept, Spoken, Asked, Waiting, Requested, Kept, OwnIsFresh
<1>8. Kept'
  BY <1>1, <1>a, <1>b DEF Evict, TypeOK, Paired, OwnKept, Spoken, Asked, Kept, KnownStay, OwnIsFresh, NoneLeftBehind, Carried, Waiting, Importing, Requested, Kept, OwnIsFresh
<1> QED BY <1>3, <1>4, <1>5, <1>6, <1>7, <1>8

\* Or cannot be.
LEMMA EvictRefusedInv ==
  ASSUME IInv, EvictRefused
  PROVE  IInv'
<1> USE DEF IInv
<1>1. call \in CallSet /\ call # None /\ call.at = "evict" /\ call.own \subseteq Key
  BY DEF EvictRefused, TypeOK, Waiting, CallSet
<1>2. PICK k \in call.own :
        /\ call' = [call EXCEPT !.own = @ \ {k}]
        /\ cache' = cache
        /\ adrift' = (adrift \union {k}) \intersect cache'
  BY DEF EvictRefused, Lose
<1>a. /\ call' \in CallSet /\ call' # None
      /\ call'.own = call.own \ {k} /\ call'.at = "evict"
  BY <1>1, <1>2, Real DEF CallSet
<1>3. TypeOK'
  BY <1>1, <1>2, <1>a DEF EvictRefused, TypeOK, Short, Use
<1>4. Paired'
  BY <1>1, <1>2, <1>a DEF EvictRefused, Paired, Waiting, Requested, Answers
<1>5. OwnKept'
  BY <1>1, <1>2, <1>a DEF EvictRefused, Paired, OwnKept, Spoken, Waiting, Importing, Requested
<1>6. Spoken'
  BY <1>1, <1>2, <1>a DEF EvictRefused, TypeOK, Paired, OwnKept, Spoken, Waiting, Requested
<1>7. Asked'
  BY <1>1, <1>2, <1>a DEF EvictRefused, Paired, OwnKept, Spoken, Asked, Waiting, Requested
<1>8. Kept'
  BY <1>1, <1>2, <1>a DEF EvictRefused, TypeOK, Paired, OwnKept, Spoken, Asked, Kept, KnownStay, OwnIsFresh, NoneLeftBehind, Carried, Waiting, Importing, Requested
<1> QED BY <1>3, <1>4, <1>5, <1>6, <1>7, <1>8

\* The eviction has been answered.
LEMMA EvictedInv ==
  ASSUME IInv, Evicted
  PROVE  IInv'
<1> USE DEF IInv
<1>1. call \in CallSet /\ call # None
  BY DEF Evicted, TypeOK, Waiting
<1>2. /\ call' \in CallSet /\ call' # None
      /\ call'.own = call.own /\ call'.at = "evict"
      /\ call'.row = call.row /\ call'.keys = call.keys /\ call'.out = call.out
  BY <1>1, MovedOn DEF Evicted
<1>3. TypeOK'
  BY <1>1, <1>2 DEF Evicted, TypeOK, Short, Use
<1>4. Paired'
  BY <1>1, <1>2 DEF Evicted, Paired, Waiting, Requested, Answers
<1>5. OwnKept'
  BY <1>1, <1>2 DEF Evicted, Paired, OwnKept, Spoken, Waiting, Importing, Requested
<1>6. Spoken'
  BY <1>1, <1>2 DEF Evicted, TypeOK, Paired, OwnKept, Spoken, Waiting, Requested
<1>7. Asked'
  BY <1>1, <1>2 DEF Evicted, Paired, OwnKept, Spoken, Asked, Waiting, Requested
<1>8. Kept'
  BY <1>1, <1>2 DEF Evicted, TypeOK, Paired, OwnKept, Spoken, Asked, Kept, KnownStay, OwnIsFresh, NoneLeftBehind, Carried, Waiting, Importing, Requested
<1> QED BY <1>3, <1>4, <1>5, <1>6, <1>7, <1>8

\* The call returns.
LEMMA ReturnInv ==
  ASSUME IInv, Return
  PROVE  IInv'
<1> USE DEF IInv
<1>3. TypeOK'
  BY  DEF Return, TypeOK, Short, Use
<1>4. Paired'
  BY <1>3 DEF Return, Paired, Waiting, Requested, Answers
<1>5. OwnKept'
  BY <1>3 DEF Return, Paired, OwnKept, Spoken, Waiting, Importing, Requested
<1>6. Spoken'
  BY <1>3 DEF Return, TypeOK, Paired, OwnKept, Spoken, Waiting, Requested
<1>7. Asked'
  BY <1>3 DEF Return, Paired, OwnKept, Spoken, Asked, Waiting, Requested
<1>8. Kept'
  BY <1>3 DEF Return, TypeOK, Paired, OwnKept, Spoken, Asked, Kept, KnownStay, OwnIsFresh, NoneLeftBehind, Carried, Waiting, Importing, Requested
<1> QED BY <1>3, <1>4, <1>5, <1>6, <1>7, <1>8

-----------------------------------------------------------------------------
\* Which call a request under way belongs to.
LEMMA Whose ==
  ASSUME IInv, NEW k \in {"cache", "use", "evict"}, Requested(k)
  PROVE  /\ net # None /\ net \in Short \union Use /\ net.ids \subseteq Key /\ net.live \in BOOLEAN
         /\ net.live => /\ call # None
                        /\ k = "cache" => call.at = "imported"
                        /\ k = "use" => call.at = "wait" /\ call.own = {}
                        /\ k = "evict" => call.at = "evicted"
         /\ ~net.live => call = None \/ call.at \in {"import", "evict"}
         /\ ~net.live /\ call # None /\ call.at = "import" => call.own = {}
<1> USE DEF IInv
<1>1. net # None /\ net.kind = k /\ net \in Short \union Use
  BY DEF Requested, TypeOK
<1>2. net.ids \subseteq Key /\ net.live \in BOOLEAN
  BY <1>1 DEF Short, Use
<1>3. net.live => call # None /\ call.at \in {"imported", "wait", "evicted"}
  BY <1>1 DEF Paired
<1>4. net.live => /\ k = "cache" => call.at = "imported"
                  /\ k = "use" => call.at = "wait" /\ call.own = {}
                  /\ k = "evict" => call.at = "evicted"
  BY <1>1, <1>3 DEF Paired, OwnKept, Waiting, Answers
<1>5. ~net.live => call = None \/ call.at \in {"import", "evict"}
  BY <1>1 DEF Paired, TypeOK, CallSet
<1>6. ~net.live /\ call # None /\ call.at = "import" => call.own = {}
  BY <1>1 DEF OwnKept, Waiting
<1> QED BY <1>1, <1>2, <1>3, <1>4, <1>5, <1>6

\* What an answer needs to leave the invariant standing: the key in it is in
\* the cache, nobody else's, and fits the request.
LEMMA AnswerInv ==
  ASSUME IInv, NEW k \in {"cache", "use", "evict"}, Requested(k),
         NEW rc \in Answers, NEW ids \in SUBSET Key, Reply(rc, ids),
         call' = call, known' \subseteq known, known' \subseteq cache',
         cache' \subseteq Key, adrift' \subseteq Key,
         ids \intersect known' = {},
         net.live /\ call.at = "imported" =>
           call.own \subseteq cache' /\ ids \intersect call.own = {},
         k = "evict" => ids = {},
         rc \in {"ok", "empty"} => ids \subseteq cache',
         rc \in {"fail", "denied"} => ids = {},
         k \in {"cache", "evict"} => rc \in {"ok", "fail"},
         k = "cache" /\ rc = "ok" => \E id \in Key : ids = {id},
         rc = "denied" => k = "use" /\ net.deniable,
         rc = "empty" /\ net.out # None => ids = {net.out},
         cache' \subseteq known' \union adrift' \union (IF net.live THEN ids ELSE {})
                          \union (IF call = None THEN {} ELSE call.own)
  PROVE  IInv'
<1> USE DEF IInv
<1>1. net # None /\ net.kind = k /\ net.ids \subseteq Key /\ net.live \in BOOLEAN
  BY Whose DEF Requested
<1>2. /\ net' \in Short \union {None}
      /\ net.live => net' # None /\ net'.kind = rc /\ net'.ids = ids /\ net'.live
      /\ ~net.live => net' = None
  BY <1>1, Replied
<1>3. TypeOK'
  BY <1>2 DEF TypeOK
<1>w. /\ net.live => /\ call # None
                     /\ k = "cache" => call.at = "imported"
                     /\ k = "use" => call.at = "wait" /\ call.own = {}
                     /\ k = "evict" => call.at = "evicted"
      /\ ~net.live => call = None \/ call.at \in {"import", "evict"}
      /\ ~net.live /\ call # None /\ call.at = "import" => call.own = {}
  BY Whose
<1>4. Paired'
  BY <1>1, <1>2, <1>w DEF Paired, Waiting, Answers
<1>5. OwnKept'
  BY <1>1, <1>2, <1>w DEF OwnKept, Waiting, Importing
<1>6. Spoken'
  BY <1>1, <1>2, <1>w DEF Spoken, Answers
<1>7. Asked'
  BY <1>1, <1>2, <1>w DEF Asked, Waiting, Answers
<1>8. Kept'
  <2>1. KnownStay'
    BY DEF KnownStay
  <2>2. OwnIsFresh'
    BY <1>1, <1>2, <1>w DEF Kept, OwnIsFresh, Carried
  <2>3. NoneLeftBehind'
    BY <1>1, <1>2 DEF NoneLeftBehind, Carried
  <2> QED BY <2>1, <2>2, <2>3 DEF Kept
<1> QED BY <1>3, <1>4, <1>5, <1>6, <1>7, <1>8

\* The server caches an imported key under an id that nothing has.
LEMMA HandleImportInv ==
  ASSUME IInv, HandleImport
  PROVE  IInv'
<1> USE DEF IInv
<1>1. Requested("cache") /\ call' = call /\ known' = known /\ known \subseteq cache /\ cache \subseteq Key
  BY DEF HandleImport, Kept, KnownStay, TypeOK
<1>2. net # None /\ net.ids = {} /\ net.live \in BOOLEAN
  BY <1>1, Whose DEF Requested, Spoken
<1>3. net.live => call # None /\ call.at = "imported" /\ call.own \subseteq cache
  BY <1>1, Whose DEF OwnKept, Importing
<1>4. cache \subseteq known \union adrift \union (IF call = None THEN {} ELSE call.own)
  BY <1>2 DEF Kept, NoneLeftBehind, Carried
<1>5. CASE \E id \in Ids(None) : /\ cache' = cache \union {id}
                                 /\ Reply("ok", {id})
                                 /\ Lose(IF net.live THEN {} ELSE {id})
  <2>1. PICK id \in Key \ cache : /\ cache' = cache \union {id}
                                  /\ Reply("ok", {id})
                                  /\ Lose(IF net.live THEN {} ELSE {id})
    BY <1>5 DEF Ids, FreeId
  <2>2. adrift' = (adrift \union (IF net.live THEN {} ELSE {id})) \intersect cache'
    BY <2>1 DEF Lose
  <2>3. cache' \subseteq known' \union adrift' \union (IF net.live THEN {id} ELSE {})
                        \union (IF call = None THEN {} ELSE call.own)
    BY <1>1, <1>4, <2>1, <2>2
  <2>4. /\ "cache" \in {"cache", "use", "evict"} /\ "ok" \in Answers /\ {id} \in SUBSET Key
        /\ cache' \subseteq Key /\ adrift' \subseteq Key /\ {id} \intersect known' = {}
        /\ known' \subseteq known /\ known' \subseteq cache' /\ {id} \subseteq cache'
    BY <1>1, <2>1, <2>2 DEF Answers
  <2>5. net.live /\ call.at = "imported" => call.own \subseteq cache' /\ {id} \intersect call.own = {}
    BY <1>3, <2>1
  <2> QED BY <1>1, <2>1, <2>3, <2>4, <2>5, AnswerInv
<1>6. CASE /\ UNCHANGED cache
           /\ Reply("fail", {})
           /\ Lose({})
  <2>1. /\ "cache" \in {"cache", "use", "evict"} /\ "fail" \in Answers /\ {} \in SUBSET Key
        /\ cache' \subseteq Key /\ adrift' \subseteq Key
        /\ known' \subseteq known /\ known' \subseteq cache'
    BY <1>1, <1>6 DEF Lose, Answers
  <2>2. cache' \subseteq known' \union adrift' \union (IF net.live THEN {} ELSE {})
                        \union (IF call = None THEN {} ELSE call.own)
    BY <1>1, <1>4, <1>6 DEF Lose
  <2>3. net.live /\ call.at = "imported" => call.own \subseteq cache'
    BY <1>3, <1>6
  <2> QED BY <1>1, <1>6, <2>1, <2>2, <2>3, AnswerInv
<1> QED BY <1>5, <1>6 DEF HandleImport

\* It evicts a key, or is not let to.
LEMMA HandleEvictInv ==
  ASSUME IInv, HandleEvict
  PROVE  IInv'
<1> USE DEF IInv
<1>1. Requested("evict") /\ call' = call /\ known' = known /\ known \subseteq cache /\ cache \subseteq Key
  BY DEF HandleEvict, Kept, KnownStay, TypeOK
<1>2. /\ net # None /\ net.ids \intersect known = {} /\ net.live \in BOOLEAN
      /\ net.live => call # None /\ call.at = "evicted"
  BY <1>1, Whose DEF Spoken
<1>3. cache \subseteq known \union adrift \union net.ids \union (IF call = None THEN {} ELSE call.own)
  BY <1>2 DEF Kept, NoneLeftBehind, Carried
<1>4. \E rc \in {"ok", "fail"}, gone \in {{}, net.ids} :
        /\ cache' = cache \ gone
        /\ Reply(rc, {})
        /\ Lose(net.ids \ gone)
  BY DEF HandleEvict, Lose
<1>5. PICK rc \in {"ok", "fail"}, gone \in {{}, net.ids} :
        /\ cache' = cache \ gone
        /\ Reply(rc, {})
        /\ Lose(net.ids \ gone)
  BY <1>4
<1>6. /\ "evict" \in {"cache", "use", "evict"} /\ rc \in Answers /\ {} \in SUBSET Key
      /\ cache' \subseteq Key /\ adrift' \subseteq Key
      /\ known' \subseteq known /\ known' \subseteq cache'
  BY <1>1, <1>2, <1>5 DEF Lose, Answers
<1>7. cache' \subseteq known' \union adrift' \union (IF net.live THEN {} ELSE {})
                      \union (IF call = None THEN {} ELSE call.own)
  BY <1>1, <1>3, <1>5 DEF Lose
<1> QED BY <1>1, <1>2, <1>5, <1>6, <1>7, AnswerInv

\* A use is denied, and with it the eviction.
LEMMA DenyInv ==
  ASSUME IInv, Deny
  PROVE  IInv'
<1> USE DEF IInv
<1>1. /\ Requested("use") /\ net.deniable /\ call' = call /\ known' = known /\ cache' = cache
      /\ known \subseteq cache /\ cache \subseteq Key /\ Reply("denied", {}) /\ Lose(net.ids)
  BY DEF Deny, Kept, KnownStay, TypeOK
<1>2. net # None /\ (net.live => call # None /\ call.at = "wait")
  BY <1>1, Whose
<1>3. cache \subseteq known \union adrift \union net.ids \union (IF call = None THEN {} ELSE call.own)
  BY <1>2 DEF Kept, NoneLeftBehind, Carried
<1>4. /\ "use" \in {"cache", "use", "evict"} /\ "denied" \in Answers /\ {} \in SUBSET Key
      /\ cache' \subseteq Key /\ adrift' \subseteq Key
      /\ known' \subseteq known /\ known' \subseteq cache'
  BY <1>1 DEF Lose, Answers
<1>5. cache' \subseteq known' \union adrift' \union (IF net.live THEN {} ELSE {})
                      \union (IF call = None THEN {} ELSE call.own)
  BY <1>1, <1>3 DEF Lose
<1> QED BY <1>1, <1>2, <1>4, <1>5, AnswerInv

\* What a use request says, and of which row it is.
LEMMA UseFacts ==
  ASSUME IInv, Requested("use")
  PROVE  /\ net # None /\ net.ids \subseteq Key /\ net.live \in BOOLEAN
         /\ net.out \in Key \union {None} /\ net.ids \intersect known = {}
         /\ net.live => call # None /\ call.at = "wait" /\ call.own = {}
         /\ net.on.evicts \/ net.ids = {}
         /\ net.on.makes = "stored" => ~net.on.evicts
<1> USE DEF IInv
<1>1. net \in Use
  BY DEF Requested, TypeOK, Short, Answers
<1>2. PICK row \in Rows : net.on = row.on
  BY <1>1 DEF Use
<1>3. net.on.makes = "stored" => ~net.on.evicts
  BY <1>2, RowFacts
<1>4. net.out \in Key \union {None}
  BY <1>1 DEF Use
<1>5. net.ids \intersect known = {} /\ (net.on.evicts \/ net.ids = {})
  BY DEF Requested, Spoken
<1> QED BY <1>3, <1>4, <1>5, Whose

\* A handler runs, keeps the key it made and evicts what it is to evict.
LEMMA HandleUseInv ==
  ASSUME IInv, HandleUse
  PROVE  IInv'
<1> USE DEF IInv
<1>1. Requested("use") /\ call' = call /\ known \subseteq cache /\ cache \subseteq Key
  BY DEF HandleUse, Kept, KnownStay, TypeOK
<1>2. PICK made \in IF net.on.makes = "none" THEN {{}} ELSE {{id} : id \in Ids(net.out)},
           rc \in {"ok", "empty"} :
        /\ rc = "empty" => net.on.makes = "public"
        /\ cache' = (cache \union made) \ ToEvict(made)
        /\ known' = known \ made
        /\ Reply(rc, made)
        /\ Lose(IF net.live THEN {} ELSE made)
  BY DEF HandleUse
<1>3. made \subseteq Key /\ (rc = "empty" /\ net.out # None => made = {net.out})
  BY <1>1, <1>2, UseFacts DEF Ids, FreeId
<1>4. ToEvict(made) = net.ids \ made
  BY <1>1, UseFacts DEF ToEvict
<1>5. cache \subseteq known \union adrift \union net.ids \union (IF call = None THEN {} ELSE call.own)
  BY <1>1, UseFacts DEF Kept, NoneLeftBehind, Carried
<1>6. /\ "use" \in {"cache", "use", "evict"} /\ rc \in Answers /\ made \in SUBSET Key
      /\ cache' \subseteq Key /\ adrift' \subseteq Key /\ made \subseteq cache'
      /\ known' \subseteq known /\ known' \subseteq cache' /\ made \intersect known' = {}
  BY <1>1, <1>2, <1>3, <1>4, UseFacts DEF Lose, Answers
<1>7. cache' \subseteq known' \union adrift' \union (IF net.live THEN made ELSE {})
                      \union (IF call = None THEN {} ELSE call.own)
  BY <1>2, <1>4, <1>5 DEF Lose
<1>8. net.live => call.at = "wait"
  BY <1>1, UseFacts
<1> QED BY <1>1, <1>2, <1>3, <1>6, <1>7, <1>8, AnswerInv

\* It fails and evicts all the same.
LEMMA HandleUseFailsInv ==
  ASSUME IInv, HandleUseFails
  PROVE  IInv'
<1> USE DEF IInv
<1>1. Requested("use") /\ call' = call /\ known \subseteq cache /\ cache \subseteq Key
  BY DEF HandleUseFails, Kept, KnownStay, TypeOK
<1>2. ToEvictAfterFailure = net.ids
  BY <1>1, UseFacts DEF ToEvictAfterFailure
<1> DEFINE target == Replaced(net)
<1>3. /\ known' = known \ target /\ Reply("fail", {})
      /\ Lose(target \union (cache' \ cache))
  BY DEF HandleUseFails
<1>4. target \subseteq Key
  BY <1>1, UseFacts DEF Replaced
<1>5. \/ cache' = cache \ net.ids
      \/ cache' = (cache \ target) \ net.ids
      \/ net.ids = {} /\ \E id \in Ids(net.out) : cache' = cache \union {id}
  BY <1>1, <1>2, UseFacts DEF HandleUseFails
<1>6. \A id \in Ids(net.out) : id \in Key
  BY <1>1, UseFacts DEF Ids, FreeId
<1>7. cache' \subseteq Key
  BY <1>1, <1>5, <1>6
<1> HIDE DEF target
<1>8. cache \subseteq known \union adrift \union net.ids \union (IF call = None THEN {} ELSE call.own)
  BY <1>1, UseFacts DEF Kept, NoneLeftBehind, Carried
<1>9. /\ "use" \in {"cache", "use", "evict"} /\ "fail" \in Answers /\ {} \in SUBSET Key
      /\ adrift' \subseteq Key /\ known' \subseteq known
  BY <1>3, <1>7 DEF Lose, Answers
<1>10. known' \subseteq cache'
  BY <1>1, <1>3, <1>5, UseFacts
<1>11. cache' \subseteq known' \union adrift' \union (IF net.live THEN {} ELSE {})
                       \union (IF call = None THEN {} ELSE call.own)
  BY <1>3, <1>5, <1>8 DEF Lose
<1>12. net.live => call.at = "wait"
  BY <1>1, UseFacts
<1> QED BY <1>1, <1>3, <1>7, <1>9, <1>10, <1>11, <1>12, AnswerInv

-----------------------------------------------------------------------------
\* A key object has been imported: its id is new to the call.
LEMMA ImportedInv ==
  ASSUME IInv, Imported
  PROVE  IInv'
<1> USE DEF IInv
<1>1. /\ call \in CallSet /\ call # None /\ call.at = "imported" /\ call.own \subseteq Key
      /\ net # None /\ net.kind = "ok" /\ net.live /\ net' = None
  BY DEF Imported, TypeOK, Waiting, Requested, CallSet, Paired
<1>2. PICK id \in net.ids, i \in Missing :
        call' = [call EXCEPT !.keys[i] = id, !.own = @ \union {id}, !.at = "import"]
  BY DEF Imported
<1>3. net.ids = {id} /\ id \in Key /\ id \in cache /\ id \notin known /\ id \notin call.own
  <2>1. net.ids = {id} /\ id \in Key
    BY <1>1, <1>2 DEF Asked, Waiting
  <2>2. id \in cache /\ id \notin known
    BY <1>1, <2>1 DEF Spoken
  <2>3. id \notin call.own
    BY <1>1, <2>1 DEF Kept, OwnIsFresh, Carried
  <2> QED BY <2>1, <2>2, <2>3
<1>4. [call.keys EXCEPT ![i] = id] \in KeyLists
  <2>1. PICK n \in 0 .. 2 : call.keys \in [1 .. n -> Key \union {None}]
    BY <1>1 DEF CallSet, KeyLists
  <2>2. [call.keys EXCEPT ![i] = id] \in [1 .. n -> Key \union {None}]
    BY <1>3, <2>1
  <2> QED BY <2>2 DEF KeyLists
<1>5. /\ call' \in CallSet /\ call' # None
      /\ call'.own = call.own \union {id} /\ call'.at = "import"
      /\ call'.row = call.row /\ call'.keys = [call.keys EXCEPT ![i] = id]
  <2>1. call' = [row |-> call.row, keys |-> [call.keys EXCEPT ![i] = id], out |-> call.out,
                 own |-> call.own \union {id}, at |-> "import"]
    BY <1>1, <1>2 DEF CallSet
  <2>2. call' \in CallSet
    BY <1>1, <1>3, <1>4, <2>1 DEF CallSet
  <2> QED BY <2>1, <2>2, Real
<1>6. i \in DOMAIN call.keys /\ call.row.on.evicts
  BY <1>1, <1>2 DEF Missing, OwnKept, Importing
<1>7. cache' = cache /\ known' = known /\ adrift' = adrift
  BY DEF Imported
<1>8. TypeOK'
  BY <1>1, <1>5, <1>7 DEF TypeOK
<1>9. Paired' /\ Spoken' /\ Asked'
  BY <1>1, <1>5 DEF Paired, Spoken, Asked, Waiting
<1>10. OwnKept'
  BY <1>1, <1>3, <1>5, <1>6, <1>7 DEF OwnKept, Waiting, Importing
<1>11. Kept'
  BY <1>1, <1>3, <1>5, <1>7 DEF Kept, KnownStay, OwnIsFresh, NoneLeftBehind, Carried
<1> QED BY <1>8, <1>9, <1>10, <1>11

\* A call without a key to return takes back what its request left behind, and
\* only that: this is where a denied call that goes by the error code would
\* take a key of the application.
LEMMA NotAnsweredInv ==
  ASSUME IInv, "aborted" \notin Deniable, NotAnswered
  PROVE  IInv'
<1> USE DEF IInv
<1>1. /\ call \in CallSet /\ call # None /\ call.at = "wait" /\ call.own = {}
      /\ net # None /\ net.live /\ net' = None /\ known' = known /\ cache' = cache
      /\ call.out \in Key \union {None} /\ call.row \in Rows
  BY DEF NotAnswered, TypeOK, Waiting, CallSet, Paired, OwnKept
<1>2. PICK rc \in Answers :
        /\ Requested(rc)
        /\ rc \in {"ok", "empty"} => call.row.undo # "never"
        /\ call' = [call EXCEPT !.own = Undone(rc), !.at = "evict"]
        /\ Lose(IF call.out = None THEN {} ELSE net.ids \ Undone(rc))
  BY DEF NotAnswered, Answers
<1>3. /\ net.kind = rc /\ net.ids \subseteq Key /\ net.ids \intersect known = {}
      /\ rc \in {"fail", "denied"} => net.ids = {}
  BY <1>1, <1>2 DEF Requested, TypeOK, Short, Use, Spoken
<1>4. call.row.undo \in Undos
  BY <1>1, RowFacts
<1>5. Undone(rc) \subseteq Key /\ Undone(rc) \intersect known = {}
  <2>1. CASE call.row.undo \in {"never", "parsed"}
    BY <1>3, <2>1 DEF Undone
  <2>2. CASE call.row.undo \in {"assigned", "aborted"} /\ call.out = None
    BY <1>3, <2>2 DEF Undone
  <2>3. CASE call.row.undo \in {"assigned", "aborted"} /\ call.out # None
    <3>1. CASE call.row.undo = "aborted" /\ rc = "empty"
      <4>1. net.ids = {call.out}
        BY <1>1, <1>3, <2>3, <3>1 DEF Asked, Waiting
      <4>2. Undone(rc) = {call.out}
        BY <2>3, <3>1 DEF Undone
      <4> QED BY <1>3, <4>1, <4>2
    <3>2. CASE call.row.undo = "aborted" /\ rc = "denied"
      BY <1>1, <1>3, <3>2 DEF Asked, Waiting
    <3>3. CASE ~(call.row.undo = "aborted" /\ rc \in {"empty", "denied"})
      BY <2>3, <3>3 DEF Undone
    <3> QED BY <3>1, <3>2, <3>3
  <2> QED BY <1>4, <2>1, <2>2, <2>3 DEF Undos
<1>6. call.out = None /\ net.ids # {} => net.ids \subseteq Undone(rc)
  <2>1. CASE rc \in {"ok", "empty"}
    BY <1>2, <1>4, <2>1 DEF Undone, Undos
  <2>2. CASE rc \in {"fail", "denied"}
    BY <1>3, <2>2
  <2> QED BY <2>1, <2>2 DEF Answers
<1>7. /\ call' \in CallSet /\ call' # None
      /\ call'.own = Undone(rc) /\ call'.at = "evict"
  BY <1>1, <1>2, <1>5, Moved
<1>8. TypeOK'
  BY <1>1, <1>2, <1>7 DEF TypeOK, Lose
<1>9. Paired' /\ Spoken' /\ Asked' /\ OwnKept'
  BY <1>1, <1>7 DEF Paired, Spoken, Asked, OwnKept, Waiting, Importing
<1>10. NoneLeftBehind'
  <2>1. cache \subseteq known \union adrift \union net.ids
    BY <1>1 DEF Kept, NoneLeftBehind, Carried
  <2>2. adrift' = (adrift \union (IF call.out = None THEN {} ELSE net.ids \ Undone(rc)))
                  \intersect cache
    BY <1>1, <1>2 DEF Lose
  <2>3. cache' \subseteq known' \union adrift' \union Undone(rc)
    BY <1>1, <1>6, <2>1, <2>2
  <2> QED BY <1>7, <2>3 DEF NoneLeftBehind
<1>11. Kept'
  BY <1>1, <1>5, <1>7, <1>10 DEF Kept, KnownStay, OwnIsFresh, Carried
<1> QED BY <1>8, <1>9, <1>11

-----------------------------------------------------------------------------
\* Every step keeps the invariant.
LEMMA NextInv ==
  ASSUME IInv, "aborted" \notin Deniable, [Next]_vars
  PROVE  IInv'
<1>1. CASE Client
  BY <1>1, StartInv, KeyEvictInv, ImportInv, ImportedInv, ImportFailsInv, GiveUpInv,
     RequestInv, AnsweredInv, NotAnsweredInv, ExpireInv, EvictInv, EvictRefusedInv,
     EvictedInv, ReturnInv DEF Client
<1>2. CASE Server
  BY <1>2, HandleImportInv, HandleEvictInv, DenyInv, HandleUseInv, HandleUseFailsInv
  DEF Server
<1>3. CASE UNCHANGED vars
  BY <1>3 DEF vars, IInv, TypeOK, Paired, OwnKept, Spoken, Asked, Kept, KnownStay,
              OwnIsFresh, NoneLeftBehind, Carried, Waiting, Importing
<1> QED BY <1>1, <1>2, <1>3 DEF Next

\* The inductive invariant, for any number of key ids and every call of the
\* table.
THEOREM Invariant ==
  ASSUME "aborted" \notin Deniable
  PROVE  Spec => []IInv
<1>1. Init => IInv
  BY InitInv
<1>2. IInv /\ [Next]_vars => IInv'
  BY NextInv
<1> QED BY <1>1, <1>2, PTL DEF Spec

\* No import, eviction or rollback of a call takes a key of the application.
THEOREM KeysStay ==
  ASSUME "aborted" \notin Deniable
  PROVE  Spec => []KnownStay
<1>1. IInv => KnownStay
  BY DEF IInv, Kept
<1> QED BY <1>1, Invariant, PTL

\* Nothing is evicted by hand that something else imports, uses or evicts.
THEOREM OwnStaysFresh ==
  ASSUME "aborted" \notin Deniable
  PROVE  Spec => []OwnIsFresh
<1>1. IInv => OwnIsFresh
  BY DEF IInv, Kept
<1> QED BY <1>1, Invariant, PTL

\* No key is left behind on the server outside the cases that are named.
THEOREM NoKeyLeftBehind ==
  ASSUME "aborted" \notin Deniable
  PROVE  Spec => []NoneLeftBehind
<1>1. IInv => NoneLeftBehind
  BY DEF IInv, Kept
<1> QED BY <1>1, Invariant, PTL
=============================================================================
