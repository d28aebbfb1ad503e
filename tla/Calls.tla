-------------------------------- MODULE Calls --------------------------------
(***************************************************************************)
(* The keys that client calls of src/wh_client_crypto.c put on the server  *)
(* for their own use, and the keys they make: one client's blocking calls, *)
(* one after another, against the handlers of src/wh_server_crypto.c and   *)
(* the key requests of src/wh_server_keystore.c.                           *)
(*                                                                         *)
(* A call whose key object is not on the server imports it first, asks for *)
(* the eviction together with the use, and evicts by hand when the use     *)
(* request was never sent.  A call that makes a key and also returns its   *)
(* public key takes the key back when it has no public key to return.      *)
(* Requests are refused while another is unanswered, response timers       *)
(* expire, authorisation denies a request before its handler sees it, and  *)
(* handlers fail.  CallTable says what each function does of this.         *)
(*                                                                         *)
(* Key is the client's key ids; a key that only NVM holds counts as absent *)
(* (Keystore has the cache over NVM).  The client maps the buffers of a    *)
(* DMA request for the length of the call; CryptoClient has those.         *)
(***************************************************************************)
EXTENDS CallTable, Integers, Sequences, FiniteSets

CONSTANTS Key,       \* key ids of one client
          Deniable,  \* the ways to undo that may meet a denied request
          None

Undos == {"never", "parsed", "assigned", "aborted"}
Answers == {"ok", "empty", "fail", "denied"}

\* The messages, and the calls.
Short == [kind : {"cache", "evict"} \union Answers, ids : SUBSET Key,
          live : BOOLEAN]
Use == [kind : {"use"}, ids : SUBSET Key, live : BOOLEAN,
        out : Key \union {None}, on : {row.on : row \in Rows},
        deniable : BOOLEAN]
KeyLists == UNION {[1 .. n -> Key \union {None}] : n \in 0 .. 2}
CallSet == [row : Rows, keys : KeyLists, out : Key \union {None},
            own : SUBSET Key,
            at : {"import", "imported", "wait", "evict", "evicted"}]

ASSUME CallsAssumption ==
  /\ None \notin Key \union Short \union Use \union CallSet
  /\ Deniable \subseteq Undos

VARIABLES cache,     \* keys the server holds for the client
          net,       \* the request or answer under way, or None
          call,      \* the blocking call in progress, or None
          known,     \* keys that the application has
          adrift     \* history: keys that no call will evict any more

vars == <<cache, net, call, known, adrift>>

Init == /\ cache = {}
        /\ net = None
        /\ call = None
        /\ known = {}
        /\ adrift = {}

-----------------------------------------------------------------------------
\* The ids that the message under way speaks of.
Carried == IF net = None THEN {} ELSE net.ids

\* A request, and whether its client still waits for the answer.
Send(kind, ids) ==
  /\ net = None
  /\ net' = [kind |-> kind, ids |-> ids, live |-> TRUE]

\* The answer to a request that was given up is dropped.
Reply(rc, ids) ==
  net' = IF net.live THEN [kind |-> rc, ids |-> ids, live |-> TRUE] ELSE None

\* Keys go adrift, and one that leaves the cache is adrift no more.
Lose(keys) == adrift' = (adrift \union keys) \intersect cache'

Requested(kind) == net # None /\ net.kind = kind
Waiting(at) == call # None /\ call.at = at

-----------------------------------------------------------------------------
(* The client. *)

Makes(row) == row.on.makes # "none"

\* A call names the key of each argument, None for an object that is not on
\* the server, and for a key it makes an id of its choice or None.
Start(row, keys, out) ==
  /\ call = None
  /\ keys \in [1 .. row.imports -> known \union {None}]
  /\ ~Makes(row) => out = None
  /\ row.on.makes = "new" => out # None
  /\ call' = [row |-> row, keys |-> keys, out |-> out, own |-> {},
              at |-> "import"]
  /\ UNCHANGED <<cache, net, known, adrift>>

\* The application evicts a key of its own.
KeyEvict(k) ==
  /\ call = None
  /\ k \in known
  /\ known' = known \ {k}
  /\ call' = [row |-> KeyCache, keys |-> <<>>, out |-> None, own |-> {k},
              at |-> "evict"]
  /\ UNCHANGED <<cache, net, adrift>>

Missing == {i \in DOMAIN call.keys : call.keys[i] = None}

Import ==
  /\ Waiting("import")
  /\ Missing # {}
  /\ Send("cache", {})
  /\ call' = [call EXCEPT !.at = "imported"]
  /\ UNCHANGED <<cache, known, adrift>>

Imported ==
  /\ Waiting("imported")
  /\ Requested("ok")
  /\ \E id \in net.ids, i \in Missing :
       call' = [call EXCEPT !.keys[i] = id, !.own = @ \union {id},
                            !.at = "import"]
  /\ net' = None
  /\ UNCHANGED <<cache, known, adrift>>

ImportFails ==
  /\ Waiting("imported")
  /\ Requested("fail")
  /\ call' = [call EXCEPT !.at = "evict"]
  /\ net' = None
  /\ UNCHANGED <<cache, known, adrift>>

\* A key object that cannot be serialised, a message too long, a buffer that
\* cannot be mapped, or a request refused because another is unanswered.
GiveUp ==
  /\ Waiting("import")
  /\ call' = [call EXCEPT !.at = "evict"]
  /\ UNCHANGED <<cache, net, known, adrift>>

\* Mutant: the call evicts by hand as well.
M_Request ==
  /\ Waiting("import")
  /\ Missing = {}
  /\ net = None
  /\ net' = [kind |-> "use", ids |-> call.own, live |-> TRUE, out |-> call.out,
             on |-> call.row.on, deniable |-> call.row.undo \in Deniable]
  /\ call' = [call EXCEPT !.at = "wait"]
  /\ UNCHANGED <<cache, known, adrift>>

\* The client asks for the eviction of what it imported together with the
\* use, and from then on no longer evicts by hand.
Request ==
  /\ Waiting("import")
  /\ Missing = {}
  /\ net = None
  /\ net' = [kind |-> "use", ids |-> call.own, live |-> TRUE, out |-> call.out,
             on |-> call.row.on, deniable |-> call.row.undo \in Deniable]
  /\ call' = [call EXCEPT !.own = {}, !.at = "wait"]
  /\ UNCHANGED <<cache, known, adrift>>

\* What a call takes back that has no key to return.  The answer "ok" may
\* carry a public key that does not parse, "empty" one that did not fit.
Undone(rc) ==
  CASE call.row.undo = "never" -> {}
    [] call.row.undo = "parsed" -> net.ids
    [] OTHER -> IF call.out = None THEN net.ids
                ELSE IF call.row.undo = "aborted" /\ rc \in {"empty", "denied"}
                     THEN {call.out}
                     ELSE {}

\* A call that wants no public key does not look whether there is one.
Answered ==
  /\ Waiting("wait")
  /\ Requested("ok") \/ (Requested("empty") /\ call.row.undo = "never")
  /\ call' = [call EXCEPT !.at = "evict"]
  /\ known' = known \union net.ids
  /\ net' = None
  /\ UNCHANGED <<cache, adrift>>

NotAnswered ==
  /\ Waiting("wait")
  /\ \E rc \in {"ok", "empty", "fail", "denied"} :
       /\ Requested(rc)
       /\ rc \in {"ok", "empty"} => call.row.undo # "never"
       /\ call' = [call EXCEPT !.own = Undone(rc), !.at = "evict"]
       /\ UNCHANGED cache
       /\ Lose(IF call.out = None THEN {} ELSE net.ids \ Undone(rc))
  /\ net' = None
  /\ UNCHANGED known

\* The response timer expires: the answer will be dropped.
Expire ==
  /\ call # None
  /\ call.at \in {"imported", "wait", "evicted"}
  /\ net.kind \in {"cache", "use", "evict"}
  /\ net' = [net EXCEPT !.live = FALSE]
  /\ call' = [call EXCEPT !.at = "evict"]
  /\ UNCHANGED <<cache, known, adrift>>

\* Eviction by hand; the client does not look at what becomes of it.
Evict ==
  /\ Waiting("evict")
  /\ \E k \in call.own :
       /\ Send("evict", {k})
       /\ call' = [call EXCEPT !.own = @ \ {k}, !.at = "evicted"]
  /\ UNCHANGED <<cache, known, adrift>>

EvictRefused ==
  /\ Waiting("evict")
  /\ net # None
  /\ \E k \in call.own :
       /\ call' = [call EXCEPT !.own = @ \ {k}]
       /\ UNCHANGED cache
       /\ Lose({k})
  /\ UNCHANGED <<net, known>>

Evicted ==
  /\ Waiting("evicted")
  /\ net.kind \in {"ok", "fail"}
  /\ call' = [call EXCEPT !.at = "evict"]
  /\ net' = None
  /\ UNCHANGED <<cache, known, adrift>>

Return ==
  /\ Waiting("evict")
  /\ call.own = {}
  /\ call' = None
  /\ UNCHANGED <<cache, net, known, adrift>>

-----------------------------------------------------------------------------
(* The server. *)

\* An id that a request names, or one that nothing has.
FreeId == Key \ cache
Ids(out) == IF out = None THEN FreeId ELSE {out}

\* The key that making another one under its id destroys.
Replaced(use) == IF use.on.makes \in {"none", "new"} \/ use.out = None
                 THEN {} ELSE {use.out}

HandleImport ==
  /\ Requested("cache")
  /\ \/ \E id \in Ids(None) :
          /\ cache' = cache \union {id}
          /\ Reply("ok", {id})
          /\ Lose(IF net.live THEN {} ELSE {id})
     \/ /\ UNCHANGED cache
        /\ Reply("fail", {})
        /\ Lose({})
  /\ UNCHANGED <<call, known>>

HandleEvict ==
  /\ Requested("evict")
  /\ \/ /\ cache' = cache \ net.ids
        /\ Reply("ok", {})
        /\ Lose({})
     \/ /\ UNCHANGED cache        \* denied
        /\ Reply("fail", {})
        /\ Lose(net.ids)
  /\ UNCHANGED <<call, known>>

\* The handler is never reached, and with it the eviction.
Deny ==
  /\ Requested("use")
  /\ net.deniable
  /\ UNCHANGED <<cache, known, call>>
  /\ Reply("denied", {})
  /\ Lose(net.ids)

\* Mutants: the key just made is evicted; a failed call evicts nothing.
\* "Evict even if the call failed"; but a key that the handler made under the
\* id of a key it is to evict stays.
M_ToEvict(made) == IF net.on.evicts THEN net.ids ELSE {}
ToEvict(made) == IF net.on.evicts THEN net.ids \ made ELSE {}
M_ToEvictAfterFailure == {}
ToEvictAfterFailure == IF net.on.evicts THEN net.ids ELSE {}

\* A handler leaves at most one key.  Making it evicts a key of that id.
HandleUse ==
  /\ Requested("use")
  /\ \E made \in IF net.on.makes = "none" THEN {{}}
                 ELSE {{id} : id \in Ids(net.out)} :
       /\ net.on.makes = "new" => made \intersect cache = {}
       /\ cache' = (cache \union made) \ ToEvict(made)
       /\ known' = known \ made
       /\ \E rc \in IF net.on.makes = "public" THEN {"ok", "empty"}
                    ELSE {"ok"} :
            Reply(rc, made)
       /\ Lose(IF net.live THEN {} ELSE made)
  /\ UNCHANGED call

\* It may fail before or after the old key of that id was evicted, and leave
\* the new key uncommitted.
HandleUseFails ==
  /\ Requested("use")
  /\ \/ cache' = cache \ ToEvictAfterFailure
     \/ cache' = (cache \ Replaced(net)) \ ToEvictAfterFailure
     \/ /\ net.on.makes = "stored"
        /\ \E id \in Ids(net.out) : cache' = cache \union {id}
  /\ known' = known \ Replaced(net)
  /\ Reply("fail", {})
  /\ Lose(Replaced(net) \union (cache' \ cache))
  /\ UNCHANGED call

-----------------------------------------------------------------------------
Client ==
  \/ \E row \in Rows, out \in Key \union {None} :
       \E keys \in [1 .. row.imports -> Key \union {None}] :
         Start(row, keys, out)
  \/ \E k \in Key : KeyEvict(k)
  \/ Import \/ Imported \/ ImportFails \/ GiveUp \/ Request
  \/ Answered \/ NotAnswered \/ Expire
  \/ Evict \/ EvictRefused \/ Evicted \/ Return
Server == HandleImport \/ HandleEvict \/ Deny \/ HandleUse \/ HandleUseFails

Next == Client \/ Server
Spec == Init /\ [][Next]_vars

-----------------------------------------------------------------------------
\* The messages and the calls are those above, and keys are ids of the client.
TypeOK == /\ cache \subseteq Key
          /\ net \in Short \union Use \union {None}
          /\ call \in CallSet \union {None}
          /\ known \subseteq Key
          /\ adrift \subseteq Key

\* A key that the application has, it has until it evicts it or a call of
\* its own has replaced it: no import, eviction after use, eviction by hand or
\* rollback takes a key away that the application made or cached.
KnownStay == known \subseteq cache

\* No key is left behind: one that the application does not have is a key
\* that a call or a message will evict or hand over, or one of the cases that
\* put keys adrift (an answer that nobody waits for, a denied or refused
\* eviction, a failed call on an id, a key whose commit failed).
NoneLeftBehind ==
  cache \subseteq known \union adrift \union Carried
                  \union (IF call = None THEN {} ELSE call.own)

\* A key that a call is to evict by hand is neither the application's nor one
\* that the message under way imports, uses or evicts: nothing is evicted twice,
\* with another key under the id by then.
OwnIsFresh ==
  call # None => call.own \intersect (known \union Carried) = {}
=============================================================================
