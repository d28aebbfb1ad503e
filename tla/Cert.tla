-------------------------------- MODULE Cert --------------------------------
(***************************************************************************)
(* The certificate manager with its verify cache: src/wh_server_cert.c,    *)
(* wolfhsm/wh_server_cert_cache.h, and the cache's place in src/wh_nvm.c.  *)
(*                                                                         *)
(* Trusted roots are NVM objects that all servers share; a server changes  *)
(* or uses them under the NVM lock, so that one request at a time holds    *)
(* it: job.  A verify walks the client's chain certificate by certificate  *)
(* and remembers in a cache, under the ids of the roots it has loaded,     *)
(* which CAs have passed.  The cache is the server's own, or, with         *)
(* WOLFHSM_CFG_CERTIFICATE_VERIFY_CACHE_GLOBAL, one for all with a lock of *)
(* its own, so that other clients clear, disable and enable it in the      *)
(* middle of a verify.                                                     *)
(*                                                                         *)
(* Below[a] stands for what a verifier that trusts a may accept: any       *)
(* relation closed under issuing.  A client's NVM requests on the id of a  *)
(* root, which leave the cache alone, are left out.                        *)
(***************************************************************************)
EXTENDS Integers

CONSTANTS Server,    \* server contexts, one client each
          Id,        \* NVM ids of trusted roots
          Cert,      \* certificates, told apart by their hash
          CA,        \* those that are CAs
          Issuer,    \* who signed a certificate
          Below,     \* what each certificate vouches for
          Count,     \* WOLFHSM_CFG_CERT_VERIFY_CACHE_COUNT
          Global,    \* one cache in the NVM context, not one per server
          None

ASSUME CertAssumption ==
  /\ Count \in Nat \ {0}
  /\ CA \subseteq Cert
  /\ Issuer \in [Cert -> Cert]
  /\ Below \in [Cert -> SUBSET Cert]
  /\ \A a \in Cert : a \in Below[a]
  /\ \A a \in Cert : \A c \in Cert : Issuer[c] \in Below[a] => c \in Below[a]
  /\ Global \in BOOLEAN
  /\ None \notin Server \union Id \union Cert

VARIABLES roots,     \* NVM: the certificate under each id
          cache,     \* the verify caches
          job        \* the request that holds the NVM lock

vars == <<roots, cache, job>>

Index == 0 .. Count - 1
Slot == [cert: Cert \union {None}, roots: SUBSET Id]    \* None: not committed
Blank == [cert |-> None, roots |-> {}]
Empty == [i \in Index |-> Blank]
Fresh == [slots |-> Empty, writeIdx |-> 0, enabled |-> TRUE]

Place == IF Global THEN {None} ELSE Server
CacheOf(s) == IF Global THEN None ELSE s

Job == [stage: {"idle", "evict", "next", "look", "insert"},
        server: Server \union {None},
        id: Id \union {None},       \* the root to evict
        loaded: SUBSET Id,          \* loadedRootNvmIds
        store: SUBSET Cert,         \* the wolfSSL certificate manager
        cert: Cert \union {None},   \* the certificate under the cursor
        active: BOOLEAN]            \* cacheActive, hashed
Idle == [stage |-> "idle", server |-> None, id |-> None, loaded |-> {},
         store |-> {}, cert |-> None, active |-> FALSE]

Init == /\ roots = [r \in Id |-> None]
        /\ cache = [p \in Place |-> Fresh]
        /\ job = Idle

(***************************************************************************)
(* The cache                                                               *)
(***************************************************************************)
\* A slot answers for a certificate under every set of roots that contains
\* its own.
M_Matches(slot, c, loaded) ==
  slot.cert = c /\ loaded \subseteq slot.roots
Matches(slot, c, loaded) ==
  slot.cert = c /\ slot.roots \subseteq loaded

Hit(k, c, loaded) ==
  /\ k.enabled
  /\ \E i \in Index : Matches(k.slots[i], c, loaded)

Inserted(k, c, loaded) ==
  [k EXCEPT !.slots = [@ EXCEPT ![k.writeIdx] = [cert |-> c, roots |-> loaded]],
            !.writeIdx = (@ + 1) % Count]

\* An entry is made once, and none while the cache is disabled.
M_Insert(k, c, loaded) ==
  IF \E i \in Index : k.slots[i] = [cert |-> c, roots |-> loaded]
  THEN k
  ELSE Inserted(k, c, loaded)
Insert(k, c, loaded) ==
  IF ~k.enabled \/ \E i \in Index : k.slots[i] = [cert |-> c, roots |-> loaded]
  THEN k
  ELSE Inserted(k, c, loaded)

Flushed(k) == [k EXCEPT !.slots = Empty, !.writeIdx = 0]

\* Every entry that depends on the root goes, whatever else it depends on.
M_Evicted(k, r) ==
  [k EXCEPT !.slots = [i \in Index |->
     [@[i] EXCEPT !.roots = IF @ = {r} THEN @ ELSE @ \ {r}]]]
Evicted(k, r) ==
  [k EXCEPT !.slots = [i \in Index |->
     IF r \in @[i].roots THEN Blank ELSE @[i]]]

(***************************************************************************)
(* Trusted roots.  A request that NVM or its policy refuses changes        *)
(* nothing.                                                                *)
(***************************************************************************)
Locked == job.stage # "idle"
Evict(s, r) == [Idle EXCEPT !.stage = "evict", !.server = s, !.id = r]

AddTrusted(s, r, c) ==
  /\ ~Locked
  /\ roots' = [roots EXCEPT ![r] = c]
  /\ job' = Evict(s, r)
  /\ UNCHANGED cache

EraseTrusted(s, r) ==
  /\ ~Locked
  /\ roots' = [roots EXCEPT ![r] = None]
  /\ job' = Evict(s, r)
  /\ UNCHANGED cache

\* The NVM backend reports an error of its last step, after the object has
\* gone; then nothing is evicted.
EraseTrustedFails(s, r) ==
  /\ ~Locked
  /\ roots' = [roots EXCEPT ![r] = None]
  /\ UNCHANGED <<cache, job>>

EvictRoot ==
  /\ job.stage = "evict"
  /\ cache' = [cache EXCEPT ![CacheOf(job.server)] = Evicted(@, job.id)]
  /\ job' = Idle
  /\ UNCHANGED roots

(***************************************************************************)
(* Verify.  Ids without an object are skipped; what is loaded must be a CA *)
(***************************************************************************)
VerifyMultiRoot(s, ids) ==
  LET loaded == {r \in ids : roots[r] # None}
  IN /\ ~Locked
     /\ loaded # {}
     /\ \A r \in loaded : roots[r] \in CA
     /\ job' = [Idle EXCEPT !.stage = "next", !.server = s, !.loaded = loaded,
                            !.store = {roots[r] : r \in loaded}]
     /\ UNCHANGED <<roots, cache>>

\* The next certificate of the chain; whether to use the cache is decided
\* here, under the cache's lock.
NextCert(c) ==
  /\ job.stage = "next"
  /\ job' = [job EXCEPT !.stage = "look", !.cert = c,
                        !.active = cache[CacheOf(job.server)].enabled]
  /\ UNCHANGED <<roots, cache>>

CacheHit ==
  job.active /\ Hit(cache[CacheOf(job.server)], job.cert, job.loaded)

Accept ==
  /\ job.stage = "look"
  /\ CacheHit \/ Issuer[job.cert] \in job.store
  /\ job' = [job EXCEPT !.stage = "insert"]
  /\ UNCHANGED <<roots, cache>>

\* Without a hit, wolfSSL may refuse: no issuer, out of date, the callback.
Reject ==
  /\ job.stage = "look"
  /\ ~CacheHit
  /\ job' = Idle
  /\ UNCHANGED <<roots, cache>>

\* Decoding, loading the CA or keeping the leaf's public key fails.
Abandon ==
  /\ job.stage = "insert"
  /\ job' = Idle
  /\ UNCHANGED <<roots, cache>>

\* A CA joins the certificate manager, and the cache.
M_Kept == job.active
Kept == job.active /\ job.cert \in CA

InsertVerified ==
  /\ job.stage = "insert"
  /\ IF Kept
       THEN cache' = [cache EXCEPT ![CacheOf(job.server)] =
                        Insert(@, job.cert, job.loaded)]
       ELSE UNCHANGED cache
  /\ job' = [job EXCEPT !.stage = "next", !.store = @ \union ({job.cert} \cap CA)]
  /\ UNCHANGED roots

EndVerify ==
  /\ job.stage = "next"
  /\ job' = Idle
  /\ UNCHANGED <<roots, cache>>

(***************************************************************************)
(* Control of the cache.  A server's own cache piggybacks on the NVM lock, *)
(* which CertInit does without; the global one has a lock of its own.      *)
(***************************************************************************)
Clear(s) ==
  /\ job.server # s
  /\ cache' = [cache EXCEPT ![CacheOf(s)] = Flushed(@)]
  /\ UNCHANGED <<roots, job>>

SetEnabled(s, enable) ==
  /\ job.server # s
  /\ Locked => Global
  /\ cache' = [cache EXCEPT ![CacheOf(s)] =
       [IF enable THEN @ ELSE Flushed(@) EXCEPT !.enabled = enable]]
  /\ UNCHANGED <<roots, job>>

Reset ==
  /\ cache' = [p \in Place |-> Fresh]
  /\ job' = Idle
  /\ UNCHANGED roots

Request(s) ==
  \/ \E r \in Id : \E c \in Cert : AddTrusted(s, r, c)
  \/ \E r \in Id : EraseTrusted(s, r)
  \/ \E r \in Id : EraseTrustedFails(s, r)
  \/ \E ids \in SUBSET Id : VerifyMultiRoot(s, ids)
  \/ Clear(s)
  \/ \E enable \in BOOLEAN : SetEnabled(s, enable)

Next ==
  \/ \E s \in Server : Request(s)
  \/ EvictRoot
  \/ \E c \in Cert : NextCert(c)
  \/ Accept
  \/ Reject
  \/ Abandon
  \/ InsertVerified
  \/ EndVerify
  \/ Reset

Spec == Init /\ [][Next]_vars

(***************************************************************************)
(* Properties                                                              *)
(***************************************************************************)
\* The variables keep their types: the write position of a cache stays
\* inside it, and stored root sets are sets of ids.
TypeOK ==
  /\ roots \in [Id -> Cert \union {None}]
  /\ cache \in [Place -> [slots: [Index -> Slot], writeIdx: Index,
                          enabled: BOOLEAN]]
  /\ job \in Job

\* One of these roots vouches for the certificate.
Rooted(c, ids) == \E r \in ids : roots[r] # None /\ c \in Below[roots[r]]

\* What a cache would answer for holds under the roots that NVM holds now:
\* an entry whose roots are all present is a certificate that one of them
\* vouches for, whatever was added, replaced, erased or lost since.  Until
\* the request that changed a root is done, entries under it are exempt.
CacheIsRooted ==
  \A p \in Place : \A i \in Index :
    LET e == cache[p].slots[i]
    IN (/\ e.cert # None
        /\ job.id \notin e.roots
        /\ \A r \in e.roots : roots[r] # None)
       => Rooted(e.cert, e.roots)

\* A verify trusts and accepts only what the loaded roots, as they are in
\* NVM, vouch for, although hits skip the check of the signature and other
\* clients clear and switch the cache meanwhile.
ChainIsRooted ==
  /\ \A c \in job.store : Rooted(c, job.loaded)
  /\ job.stage = "insert" => Rooted(job.cert, job.loaded)

\* A leaf is accepted only in a chain: its issuer has been verified before
\* it in the same request, and no memory of an earlier chain stands in.
LeafHasIssuer ==
  job.stage = "insert" /\ job.cert \notin CA => Issuer[job.cert] \in job.store

\* A disabled cache is empty, so that nothing from before revives when it is
\* enabled again, although a verify that found it enabled inserts later.
DisabledIsEmpty ==
  \A p \in Place : ~cache[p].enabled => cache[p].slots = Empty
=============================================================================
