----------------------------- MODULE CertProofs -----------------------------
(***************************************************************************)
(* What the verify cache promises, for any certificates, roots, number of  *)
(* slots and relation Below that is closed under issuing.  Mechanics holds *)
(* however the caches are laid out; Trust, the soundness of the cache,     *)
(* needs that whoever changes a root reaches every cache: one global       *)
(* cache, or a single server.                                              *)
(***************************************************************************)
EXTENDS Cert, TLAPS

OneCache == Global \/ \A s \in Server : \A t \in Server : s = t

\* What a request that holds the NVM lock may rely on.
JobOK ==
  /\ job.stage = "idle" => job = Idle
  /\ job.stage # "idle" => job.server \in Server
  /\ job.stage = "evict" => job.id \in Id /\ job.loaded = {} /\ job.store = {}
  /\ job.stage \in {"next", "look", "insert"} =>
       job.id = None /\ \A r \in job.loaded : roots[r] # None
  /\ job.stage \in {"look", "insert"} => job.cert \in Cert

\* Leaves are never in a cache.
OnlyCAs ==
  \A p \in Place : \A i \in Index :
    cache[p].slots[i].cert # None => cache[p].slots[i].cert \in CA

Mechanics == TypeOK /\ JobOK /\ OnlyCAs /\ LeafHasIssuer /\ DisabledIsEmpty
Trust == CacheIsRooted /\ ChainIsRooted

USE CertAssumption

(***************************************************************************)
(* The cache's operators                                                   *)
(***************************************************************************)
CacheType == [slots: [Index -> Slot], writeIdx: Index, enabled: BOOLEAN]

\* Every server finds a cache.
LEMMA CacheOfPlace == ASSUME NEW s \in Server PROVE CacheOf(s) \in Place
  BY DEF CacheOf, Place

\* A fresh cache, and one that is flushed, is a cache.
LEMMA FreshType == Fresh \in CacheType /\ Empty \in [Index -> Slot]
<1>1. Blank \in Slot
  BY DEF Blank, Slot
<1>2. 0 \in Index
  BY DEF Index
<1> QED
  BY <1>1, <1>2 DEF Fresh, Empty, CacheType

\* Emptying a cache keeps its switch.
LEMMA FlushedType ==
  ASSUME NEW k \in CacheType
  PROVE  /\ Flushed(k) \in CacheType
         /\ Flushed(k).slots = Empty
         /\ Flushed(k).enabled = k.enabled
<1>1. 0 \in Index
  BY DEF Index
<1> QED
  BY <1>1, FreshType DEF Flushed, CacheType

\* After an eviction a slot is blank or as it was, and none depends on r.
LEMMA EvictedType ==
  ASSUME NEW k \in CacheType, NEW r \in Id
  PROVE  /\ Evicted(k, r) \in CacheType
         /\ Evicted(k, r).enabled = k.enabled
         /\ \A i \in Index : Evicted(k, r).slots[i] =
              IF r \in k.slots[i].roots THEN Blank ELSE k.slots[i]
<1>1. Blank \in Slot
  BY DEF Blank, Slot
<1>2. [i \in Index |-> IF r \in k.slots[i].roots THEN Blank ELSE k.slots[i]]
        \in [Index -> Slot]
  BY <1>1 DEF CacheType
<1>3. Evicted(k, r) = [k EXCEPT !.slots =
        [i \in Index |-> IF r \in k.slots[i].roots THEN Blank ELSE k.slots[i]]]
  BY DEF Evicted, CacheType
<1> QED
  BY <1>2, <1>3 DEF CacheType

\* An insertion leaves each slot as it was or makes it the new entry, and
\* a disabled cache as it is.
LEMMA InsertType ==
  ASSUME NEW k \in CacheType, NEW c \in Cert, NEW loaded \in SUBSET Id
  PROVE  /\ Insert(k, c, loaded) \in CacheType
         /\ Insert(k, c, loaded).enabled = k.enabled
         /\ ~k.enabled => Insert(k, c, loaded) = k
         /\ \A i \in Index : Insert(k, c, loaded).slots[i] \in
              {k.slots[i], [cert |-> c, roots |-> loaded]}
<1>1. (k.writeIdx + 1) % Count \in Index
  BY DEF CacheType, Index
<1>2. [cert |-> c, roots |-> loaded] \in Slot
  BY DEF Slot
<1>3. [k.slots EXCEPT ![k.writeIdx] = [cert |-> c, roots |-> loaded]]
        \in [Index -> Slot]
  BY <1>2 DEF CacheType
<1>4. Inserted(k, c, loaded) = [k EXCEPT
        !.slots = [k.slots EXCEPT ![k.writeIdx] = [cert |-> c, roots |-> loaded]],
        !.writeIdx = (k.writeIdx + 1) % Count]
  BY DEF Inserted, CacheType
<1>5. /\ Inserted(k, c, loaded) \in CacheType
      /\ Inserted(k, c, loaded).enabled = k.enabled
      /\ Inserted(k, c, loaded).slots =
           [k.slots EXCEPT ![k.writeIdx] = [cert |-> c, roots |-> loaded]]
  BY <1>1, <1>3, <1>4 DEF CacheType
<1>6. \A i \in Index : Inserted(k, c, loaded).slots[i] \in
        {k.slots[i], [cert |-> c, roots |-> loaded]}
  BY <1>5 DEF CacheType
<1>7. CASE Insert(k, c, loaded) = k
  BY <1>7
<1>8. CASE k.enabled /\ Insert(k, c, loaded) = Inserted(k, c, loaded)
  BY <1>5, <1>6, <1>8
<1>9. \/ Insert(k, c, loaded) = k
      \/ k.enabled /\ Insert(k, c, loaded) = Inserted(k, c, loaded)
  BY DEF Insert, CacheType
<1> QED
  BY <1>7, <1>8, <1>9

(***************************************************************************)
(* Mechanics                                                               *)
(***************************************************************************)
LEMMA IdleOK == Idle \in Job /\ Idle.stage = "idle" /\ Idle.store = {}
                /\ Idle.id = None /\ Idle.server = None /\ Idle.loaded = {}
  BY DEF Idle, Job

\* Nothing runs at first.
LEMMA InitMechanics == Init => Mechanics
<1> SUFFICES ASSUME Init PROVE Mechanics
  OBVIOUS
<1>1. TypeOK
  BY FreshType, IdleOK DEF Init, TypeOK, CacheType
<1>2. JobOK /\ LeafHasIssuer
  BY IdleOK DEF Init, JobOK, LeafHasIssuer
<1>3. OnlyCAs /\ DisabledIsEmpty
  BY DEF Init, OnlyCAs, DisabledIsEmpty, Fresh, Empty, Blank
<1> QED
  BY <1>1, <1>2, <1>3 DEF Mechanics

\* One cache that changes keeps OnlyCAs and DisabledIsEmpty if its new
\* contents do.
LEMMA CacheStep ==
  ASSUME Mechanics, NEW p \in Place, NEW k \in CacheType,
         cache' = [cache EXCEPT ![p] = k],
         \A i \in Index : k.slots[i].cert # None => k.slots[i].cert \in CA,
         ~k.enabled => k.slots = Empty
  PROVE  /\ cache' \in [Place -> CacheType]
         /\ OnlyCAs' /\ DisabledIsEmpty'
<1>1. cache \in [Place -> CacheType]
  BY DEF Mechanics, TypeOK, CacheType
<1>2. cache' \in [Place -> CacheType]
  BY <1>1
<1>3. \A q \in Place : cache'[q] = IF q = p THEN k ELSE cache[q]
  BY <1>1
<1>4. OnlyCAs'
  BY <1>3 DEF OnlyCAs, Mechanics
<1>5. DisabledIsEmpty'
  BY <1>3 DEF DisabledIsEmpty, Mechanics
<1> QED
  BY <1>2, <1>4, <1>5

\* Requests that begin, and those that change roots.
LEMMA StartMechanics ==
  ASSUME Mechanics, NEW s \in Server,
         \/ \E r \in Id : \E c \in Cert : AddTrusted(s, r, c)
         \/ \E r \in Id : EraseTrusted(s, r)
         \/ \E r \in Id : EraseTrustedFails(s, r)
         \/ \E ids \in SUBSET Id : VerifyMultiRoot(s, ids)
  PROVE  Mechanics'
<1> USE DEF Mechanics
<1>1. cache' = cache
  BY DEF AddTrusted, EraseTrusted, EraseTrustedFails, VerifyMultiRoot
<1>2. OnlyCAs' /\ DisabledIsEmpty'
  BY <1>1 DEF OnlyCAs, DisabledIsEmpty
<1>3. CASE \E r \in Id : \E c \in Cert : AddTrusted(s, r, c)
  <2>1. PICK r \in Id, c \in Cert : AddTrusted(s, r, c)
    BY <1>3
  <2>2. roots' \in [Id -> Cert \union {None}]
    BY <2>1 DEF AddTrusted, TypeOK
  <2>3. /\ job' \in Job
        /\ job'.stage = "evict" /\ job'.server = s /\ job'.id = r
        /\ job'.loaded = {} /\ job'.store = {}
    BY <2>1 DEF AddTrusted, Evict, Idle, Job
  <2> QED
    BY <1>1, <1>2, <2>2, <2>3 DEF TypeOK, JobOK, LeafHasIssuer
<1>4. CASE \E r \in Id : EraseTrusted(s, r)
  <2>1. PICK r \in Id : EraseTrusted(s, r)
    BY <1>4
  <2>2. roots' \in [Id -> Cert \union {None}]
    BY <2>1 DEF EraseTrusted, TypeOK
  <2>3. /\ job' \in Job
        /\ job'.stage = "evict" /\ job'.server = s /\ job'.id = r
        /\ job'.loaded = {} /\ job'.store = {}
    BY <2>1 DEF EraseTrusted, Evict, Idle, Job
  <2> QED
    BY <1>1, <1>2, <2>2, <2>3 DEF TypeOK, JobOK, LeafHasIssuer
<1>5. CASE \E r \in Id : EraseTrustedFails(s, r)
  <2>1. PICK r \in Id : EraseTrustedFails(s, r)
    BY <1>5
  <2>2. roots' \in [Id -> Cert \union {None}]
    BY <2>1 DEF EraseTrustedFails, TypeOK
  <2>3. job' = job /\ job.stage = "idle"
    BY <2>1 DEF EraseTrustedFails, Locked
  <2> QED
    BY <1>1, <1>2, <2>2, <2>3 DEF TypeOK, JobOK, LeafHasIssuer
<1>6. CASE \E ids \in SUBSET Id : VerifyMultiRoot(s, ids)
  <2>1. PICK ids \in SUBSET Id : VerifyMultiRoot(s, ids)
    BY <1>6
  <2> DEFINE loaded == {r \in ids : roots[r] # None}
  <2>2. loaded \in SUBSET Id /\ {roots[r] : r \in loaded} \in SUBSET Cert
    BY DEF TypeOK
  <2>3. job' = [Idle EXCEPT !.stage = "next", !.server = s, !.loaded = loaded,
                            !.store = {roots[r] : r \in loaded}]
    BY <2>1 DEF VerifyMultiRoot
  <2>4. /\ job' \in Job
        /\ job'.stage = "next" /\ job'.server = s /\ job'.id = None
        /\ job'.loaded = loaded
    BY <2>2, <2>3 DEF Idle, Job
  <2>5. roots' = roots
    BY <2>1 DEF VerifyMultiRoot
  <2> QED
    BY <1>1, <1>2, <2>4, <2>5 DEF TypeOK, JobOK, LeafHasIssuer
<1> QED
  BY <1>3, <1>4, <1>5, <1>6
\* The steps of a verify.
LEMMA WalkMechanics ==
  ASSUME Mechanics,
         (\E c \in Cert : NextCert(c)) \/ Accept \/ Reject \/ Abandon \/ EndVerify
  PROVE  Mechanics'
<1> USE DEF Mechanics
<1>1. cache' = cache /\ roots' = roots
  BY DEF NextCert, Accept, Reject, Abandon, EndVerify
<1>2. OnlyCAs' /\ DisabledIsEmpty'
  BY <1>1 DEF OnlyCAs, DisabledIsEmpty
<1>3. CASE \E c \in Cert : NextCert(c)
  <2>1. PICK c \in Cert : NextCert(c)
    BY <1>3
  <2>2. job.stage = "next" /\ job.server \in Server /\ job \in Job
    BY <2>1 DEF NextCert, JobOK, TypeOK
  <2>3. cache[CacheOf(job.server)].enabled \in BOOLEAN
    BY <2>2, CacheOfPlace DEF TypeOK
  <2>4. /\ job' \in Job
        /\ job'.stage = "look" /\ job'.cert = c /\ job'.server = job.server
        /\ job'.id = job.id /\ job'.loaded = job.loaded
    BY <2>1, <2>2, <2>3 DEF NextCert, Job
  <2> QED
    BY <1>1, <1>2, <2>2, <2>4 DEF TypeOK, JobOK, LeafHasIssuer
<1>4. CASE Accept
  <2>1. job.stage = "look" /\ job \in Job
    BY <1>4 DEF Accept, TypeOK
  <2>2. job' = [job EXCEPT !.stage = "insert"]
    BY <1>4 DEF Accept
  <2>3. /\ job' \in Job
        /\ job'.stage = "insert" /\ job'.cert = job.cert
        /\ job'.server = job.server /\ job'.id = job.id
        /\ job'.loaded = job.loaded /\ job'.store = job.store
    BY <2>1, <2>2 DEF Job
  <2>4. ASSUME job.cert \notin CA PROVE Issuer[job.cert] \in job.store
    <3>1. ~CacheHit
      <4> SUFFICES ASSUME CacheHit PROVE FALSE
        OBVIOUS
      <4>1. PICK i \in Index : cache[CacheOf(job.server)].slots[i].cert = job.cert
        BY DEF CacheHit, Hit, Matches
      <4>2. job.cert \in Cert /\ CacheOf(job.server) \in Place
        BY <2>1, CacheOfPlace DEF JobOK
      <4> QED
        BY <2>4, <4>1, <4>2 DEF OnlyCAs
    <3> QED
      BY <1>4, <3>1 DEF Accept
  <2> QED
    BY <1>1, <1>2, <2>1, <2>3, <2>4 DEF TypeOK, JobOK, LeafHasIssuer
<1>5. CASE Reject \/ Abandon \/ EndVerify
  <2>1. job' = Idle
    BY <1>5 DEF Reject, Abandon, EndVerify
  <2> QED
    BY <1>1, <1>2, <2>1, IdleOK DEF TypeOK, JobOK, LeafHasIssuer
<1> QED
  BY <1>3, <1>4, <1>5

\* The steps that change a cache.
LEMMA CacheMechanics ==
  ASSUME Mechanics,
         \/ EvictRoot
         \/ InsertVerified
         \/ \E s \in Server : Clear(s)
         \/ \E s \in Server : \E enable \in BOOLEAN : SetEnabled(s, enable)
         \/ Reset
  PROVE  Mechanics'
<1> USE DEF Mechanics
<1>1. cache \in [Place -> CacheType]
  BY DEF TypeOK, CacheType
<1>2. roots' = roots
  BY DEF EvictRoot, InsertVerified, Clear, SetEnabled, Reset
<1>3. ASSUME cache' \in [Place -> CacheType] PROVE cache' \in [Place ->
        [slots: [Index -> Slot], writeIdx: Index, enabled: BOOLEAN]]
  BY <1>3 DEF CacheType
<1>4. CASE EvictRoot
  <2> DEFINE p == CacheOf(job.server)
             k == Evicted(cache[p], job.id)
  <2>1. job.stage = "evict" /\ job.id \in Id /\ p \in Place
    BY <1>4, CacheOfPlace DEF EvictRoot, JobOK
  <2>2. cache' = [cache EXCEPT ![p] = k] /\ job' = Idle
    BY <1>4 DEF EvictRoot
  <2>3. /\ k \in CacheType
        /\ k.enabled = cache[p].enabled
        /\ \A i \in Index : k.slots[i] =
             IF job.id \in cache[p].slots[i].roots THEN Blank ELSE cache[p].slots[i]
    BY <1>1, <2>1, EvictedType
  <2>4. \A i \in Index : k.slots[i].cert # None => k.slots[i].cert \in CA
    BY <2>1, <2>3 DEF OnlyCAs, Blank
  <2>5. ~k.enabled => k.slots = Empty
    <3> SUFFICES ASSUME ~k.enabled PROVE k.slots = Empty
      OBVIOUS
    <3>1. cache[p].slots = Empty
      BY <2>1, <2>3 DEF DisabledIsEmpty
    <3>2. \A i \in Index : k.slots[i] = Blank
      BY <2>3, <3>1 DEF Empty, Blank
    <3> QED
      BY <2>3, <3>2 DEF Empty, CacheType
  <2> HIDE DEF k, p
  <2>6. cache' \in [Place -> CacheType] /\ OnlyCAs' /\ DisabledIsEmpty'
    BY <2>1, <2>2, <2>3, <2>4, <2>5, CacheStep
  <2> QED
    BY <1>2, <1>3, <2>2, <2>6, IdleOK DEF TypeOK, JobOK, LeafHasIssuer
<1>5. CASE InsertVerified
  <2> DEFINE p == CacheOf(job.server)
             k == Insert(cache[p], job.cert, job.loaded)
  <2>1. /\ job.stage = "insert" /\ job.cert \in Cert /\ p \in Place
        /\ job.server \in Server /\ job.loaded \in SUBSET Id /\ job \in Job
    BY <1>5, CacheOfPlace DEF InsertVerified, JobOK, TypeOK, Job
  <2>2. job' = [job EXCEPT !.stage = "next",
                           !.store = job.store \union ({job.cert} \cap CA)]
    BY <1>5 DEF InsertVerified
  <2>3. /\ job' \in Job
        /\ job'.stage = "next" /\ job'.server = job.server /\ job'.id = job.id
        /\ job'.loaded = job.loaded
    BY <2>1, <2>2 DEF Job
  <2>4. JobOK' /\ LeafHasIssuer'
    BY <1>2, <2>1, <2>3 DEF JobOK, LeafHasIssuer
  <2>5. CASE ~Kept
    <3>1. cache' = cache
      BY <1>5, <2>5 DEF InsertVerified
    <3> QED
      BY <1>2, <2>3, <2>4, <3>1 DEF TypeOK, OnlyCAs, DisabledIsEmpty
  <2>6. CASE Kept
    <3>1. cache' = [cache EXCEPT ![p] = k] /\ job.cert \in CA
      BY <1>5, <2>6 DEF InsertVerified, Kept
    <3>2. /\ k \in CacheType
          /\ k.enabled = cache[p].enabled
          /\ ~cache[p].enabled => k = cache[p]
          /\ \A i \in Index : k.slots[i] \in
               {cache[p].slots[i], [cert |-> job.cert, roots |-> job.loaded]}
      BY <1>1, <2>1, InsertType
    <3>3. \A i \in Index : k.slots[i].cert # None => k.slots[i].cert \in CA
      BY <2>1, <3>1, <3>2 DEF OnlyCAs
    <3>4. ~k.enabled => k.slots = Empty
      BY <2>1, <3>2 DEF DisabledIsEmpty
    <3> HIDE DEF k, p
    <3>5. cache' \in [Place -> CacheType] /\ OnlyCAs' /\ DisabledIsEmpty'
      BY <2>1, <3>1, <3>2, <3>3, <3>4, CacheStep
    <3> QED
      BY <1>2, <1>3, <2>3, <2>4, <3>5 DEF TypeOK
  <2> QED
    BY <2>5, <2>6
<1>6. ASSUME NEW s \in Server, NEW k \in CacheType, job' = job,
             cache' = [cache EXCEPT ![CacheOf(s)] = k],
             \/ k.slots = Empty
             \/ k.slots = cache[CacheOf(s)].slots /\ k.enabled
      PROVE  Mechanics'
  <2>1. CacheOf(s) \in Place
    BY CacheOfPlace
  <2>2. \A i \in Index : k.slots[i].cert # None => k.slots[i].cert \in CA
    BY <1>6, <2>1 DEF OnlyCAs, Empty, Blank
  <2>3. ~k.enabled => k.slots = Empty
    BY <1>6
  <2>4. cache' \in [Place -> CacheType] /\ OnlyCAs' /\ DisabledIsEmpty'
    BY <1>6, <2>1, <2>2, <2>3, CacheStep
  <2> QED
    BY <1>2, <1>3, <1>6, <2>4 DEF TypeOK, JobOK, LeafHasIssuer
<1>7. CASE \E s \in Server : Clear(s)
  <2>1. PICK s \in Server : Clear(s)
    BY <1>7
  <2>2. cache' = [cache EXCEPT ![CacheOf(s)] = Flushed(cache[CacheOf(s)])] /\ job' = job
    BY <2>1 DEF Clear
  <2>3. /\ Flushed(cache[CacheOf(s)]) \in CacheType
        /\ Flushed(cache[CacheOf(s)]).slots = Empty
    BY <1>1, CacheOfPlace, FlushedType
  <2> QED
    BY <1>6, <2>2, <2>3
<1>8. CASE \E s \in Server : \E enable \in BOOLEAN : SetEnabled(s, enable)
  <2>1. PICK s \in Server, enable \in BOOLEAN : SetEnabled(s, enable)
    BY <1>8
  <2> DEFINE old == cache[CacheOf(s)]
             k == [IF enable THEN old ELSE Flushed(old) EXCEPT !.enabled = enable]
  <2>2. cache' = [cache EXCEPT ![CacheOf(s)] = k] /\ job' = job
    BY <2>1 DEF SetEnabled
  <2>3. old \in CacheType
    BY <1>1, CacheOfPlace
  <2>4. Flushed(old) \in CacheType /\ Flushed(old).slots = Empty
    BY <2>3, FlushedType
  <2>5. /\ k \in CacheType
        /\ k.slots = Empty \/ (k.slots = old.slots /\ k.enabled)
    BY <2>3, <2>4 DEF CacheType
  <2> QED
    BY <1>6, <2>2, <2>5
<1>9. CASE Reset
  <2>1. cache' = [p \in Place |-> Fresh] /\ job' = Idle
    BY <1>9 DEF Reset
  <2>2. OnlyCAs' /\ DisabledIsEmpty'
    BY <2>1 DEF OnlyCAs, DisabledIsEmpty, Fresh, Empty, Blank
  <2>3. cache' \in [Place -> CacheType]
    BY <2>1, FreshType
  <2> QED
    BY <1>2, <1>3, <2>1, <2>2, <2>3, IdleOK DEF TypeOK, JobOK, LeafHasIssuer
<1> QED
  BY <1>4, <1>5, <1>7, <1>8, <1>9

\* Every step keeps a verification and its certificate chain together.
LEMMA NextMechanics == Mechanics /\ [Next]_vars => Mechanics'
<1> SUFFICES ASSUME Mechanics, [Next]_vars PROVE Mechanics'
  OBVIOUS
<1>1. CASE \E s \in Server : Request(s)
  BY <1>1, StartMechanics, CacheMechanics DEF Request
<1>2. CASE EvictRoot \/ InsertVerified \/ Reset
  BY <1>2, CacheMechanics
<1>3. CASE (\E c \in Cert : NextCert(c)) \/ Accept \/ Reject \/ Abandon \/ EndVerify
  BY <1>3, WalkMechanics
<1>4. CASE UNCHANGED vars
  BY <1>4 DEF vars, Mechanics, TypeOK, JobOK, OnlyCAs, LeafHasIssuer, DisabledIsEmpty
<1> QED
  BY <1>1, <1>2, <1>3, <1>4 DEF Next

\* Types, the job's bookkeeping, that no leaf is ever cached, that a leaf
\* passes only after its issuer, and that a disabled cache is empty: in
\* every build and for every number of servers.
THEOREM Bookkeeping == Spec => []Mechanics
BY InitMechanics, NextMechanics, PTL DEF Spec

\* The variables keep their types.
THEOREM TypeCorrect == Spec => []TypeOK
<1>1. Mechanics => TypeOK
  BY DEF Mechanics
<1> QED
  BY <1>1, Bookkeeping, PTL

\* A leaf is accepted only behind its verified issuer, whatever the cache
\* has seen before.
THEOREM LeavesAreChained == Spec => []LeafHasIssuer
<1>1. Mechanics => LeafHasIssuer
  BY DEF Mechanics
<1> QED
  BY <1>1, Bookkeeping, PTL

\* Nothing survives in a disabled cache.
THEOREM DisableForgets == Spec => []DisabledIsEmpty
<1>1. Mechanics => DisabledIsEmpty
  BY DEF Mechanics
<1> QED
  BY <1>1, Bookkeeping, PTL

(***************************************************************************)
(* Trust                                                                   *)
(***************************************************************************)
\* With one cache, the one that a server finds is every cache.
LEMMA OnlyCache ==
  ASSUME OneCache, NEW s \in Server, NEW p \in Place
  PROVE  p = CacheOf(s)
  BY DEF OneCache, Place, CacheOf

\* Rooted, in terms of any assignment of certificates to ids.
Vouched(f, c, ids) == \E r \in ids : f[r] # None /\ c \in Below[f[r]]

\* The caches start empty.
LEMMA InitTrust == Init => Trust
<1> SUFFICES ASSUME Init PROVE Trust
  OBVIOUS
<1>1. CacheIsRooted
  BY DEF Init, CacheIsRooted, Fresh, Empty, Blank
<1>2. ChainIsRooted
  BY IdleOK DEF Init, ChainIsRooted
<1> QED
  BY <1>1, <1>2 DEF Trust

\* More loaded roots vouch for no less.
LEMMA RootedMonotone ==
  ASSUME NEW c, NEW S, NEW T, S \subseteq T, Rooted(c, S)
  PROVE  Rooted(c, T)
  BY DEF Rooted, Vouched

\* A step that changes no root, and ends or leaves alone a request that does
\* not wait to evict, keeps the claims of a cache that it leaves alone.
LEMMA SameClaims ==
  ASSUME Mechanics, Trust, roots' = roots, cache' = cache,
         job'.id = job.id
  PROVE  CacheIsRooted'
  BY DEF Trust, CacheIsRooted, Rooted, Vouched

\* Changing a root exempts the entries under it, until they are evicted or,
\* when the root is gone, for as long as it is.
LEMMA StartTrust ==
  ASSUME Mechanics, Trust, NEW s \in Server,
         \/ \E r \in Id : \E c \in Cert : AddTrusted(s, r, c)
         \/ \E r \in Id : EraseTrusted(s, r)
         \/ \E r \in Id : EraseTrustedFails(s, r)
  PROVE  Trust'
<1>1. cache' = cache /\ job = Idle /\ job.id = None
  BY IdleOK DEF AddTrusted, EraseTrusted, EraseTrustedFails, Locked, Mechanics, JobOK
<1>2. PICK r \in Id :
        /\ \A q \in Id \ {r} : roots'[q] = roots[q]
        /\ \/ job'.stage = "evict" /\ job'.id = r
           \/ job' = Idle /\ roots'[r] = None
        /\ job'.store = {}
  <2>1. ASSUME NEW r \in Id, NEW c \in Cert, AddTrusted(s, r, c)
        PROVE  /\ \A q \in Id \ {r} : roots'[q] = roots[q]
               /\ job'.stage = "evict" /\ job'.id = r /\ job'.store = {}
    BY <2>1 DEF AddTrusted, Evict, Idle, Mechanics, TypeOK
  <2>2. ASSUME NEW r \in Id, EraseTrusted(s, r)
        PROVE  /\ \A q \in Id \ {r} : roots'[q] = roots[q]
               /\ job'.stage = "evict" /\ job'.id = r /\ job'.store = {}
    BY <2>2 DEF EraseTrusted, Evict, Idle, Mechanics, TypeOK
  <2>3. ASSUME NEW r \in Id, EraseTrustedFails(s, r)
        PROVE  /\ \A q \in Id \ {r} : roots'[q] = roots[q]
               /\ job' = Idle /\ roots'[r] = None /\ job'.store = {}
    BY <1>1, <2>3, IdleOK DEF EraseTrustedFails, Mechanics, TypeOK
  <2> QED
    BY <2>1, <2>2, <2>3
<1>3. ChainIsRooted'
  BY <1>2, IdleOK DEF ChainIsRooted
<1>4. ASSUME NEW p \in Place, NEW i \in Index,
             cache'[p].slots[i].cert # None,
             job'.id \notin cache'[p].slots[i].roots,
             \A q \in cache'[p].slots[i].roots : roots'[q] # None
      PROVE  Vouched(roots', cache'[p].slots[i].cert, cache'[p].slots[i].roots)
  <2> DEFINE e == cache[p].slots[i]
  <2>1. e \in Slot /\ cache'[p].slots[i] = e
    BY <1>1 DEF Mechanics, TypeOK
  <2>2. e.roots \subseteq Id \ {r}
    BY <1>2, <1>4, <2>1 DEF Slot
  <2>3. \A q \in e.roots : roots'[q] = roots[q]
    BY <1>2, <2>2
  <2>4. job.id \notin e.roots
    BY <1>1, <2>2
  <2>5. Rooted(e.cert, e.roots)
    BY <1>4, <2>1, <2>3, <2>4 DEF Trust, CacheIsRooted
  <2> QED
    BY <2>1, <2>3, <2>5 DEF Rooted, Vouched
<1>5. CacheIsRooted'
  BY <1>4 DEF CacheIsRooted, Rooted, Vouched
<1> QED
  BY <1>3, <1>5 DEF Trust

\* The loaded roots vouch for themselves.
LEMMA VerifyTrust ==
  ASSUME Mechanics, Trust, NEW s \in Server, NEW ids \in SUBSET Id,
         VerifyMultiRoot(s, ids)
  PROVE  Trust'
<1> DEFINE loaded == {r \in ids : roots[r] # None}
<1>1. /\ job' = [Idle EXCEPT !.stage = "next", !.server = s, !.loaded = loaded,
                             !.store = {roots[r] : r \in loaded}]
      /\ cache' = cache /\ roots' = roots /\ job = Idle
  BY DEF VerifyMultiRoot, Locked, Mechanics, JobOK
<1>2. /\ job'.stage = "next" /\ job'.loaded = loaded
      /\ job'.store = {roots[r] : r \in loaded}
      /\ job'.id = job.id
  BY <1>1 DEF Idle
<1>3. \A r \in loaded : roots[r] \in Cert
  BY DEF Mechanics, TypeOK
<1>4. \A c \in job'.store : Vouched(roots', c, job'.loaded)
  BY <1>1, <1>2, <1>3 DEF Rooted, Vouched
<1> QED
  BY <1>1, <1>2, <1>4, SameClaims DEF Trust, ChainIsRooted, Rooted, Vouched

\* A certificate passes below a loaded root: with its issuer because what a
\* root vouches for is closed under issuing, with a hit because the roots of
\* the entry are all loaded, and so present.
LEMMA AcceptTrust ==
  ASSUME Mechanics, Trust, Accept
  PROVE  Rooted(job.cert, job.loaded)
<1>1. /\ job.stage = "look" /\ job.cert \in Cert /\ job.id = None
      /\ \A r \in job.loaded : roots[r] # None
      /\ job.loaded \in SUBSET Id /\ job.server \in Server
  BY DEF Accept, Mechanics, JobOK, TypeOK, Job
<1>2. CASE Issuer[job.cert] \in job.store
  <2>1. PICK r \in job.loaded :
          roots[r] # None /\ Issuer[job.cert] \in Below[roots[r]]
    BY <1>2 DEF Trust, ChainIsRooted, Rooted, Vouched
  <2>2. roots[r] \in Cert
    BY <1>1, <2>1 DEF Mechanics, TypeOK
  <2> QED
    BY <1>1, <2>1, <2>2 DEF Rooted, Vouched
<1>3. CASE CacheHit
  <2> DEFINE k == cache[CacheOf(job.server)]
  <2>1. PICK i \in Index : Matches(k.slots[i], job.cert, job.loaded)
    BY <1>3 DEF CacheHit, Hit
  <2>2. k.slots[i].cert = job.cert /\ k.slots[i].roots \subseteq job.loaded
    BY <2>1 DEF Matches
  <2>3. job.cert # None /\ job.id \notin k.slots[i].roots
    BY <1>1, <2>2
  <2>4. CacheOf(job.server) \in Place
    BY <1>1, CacheOfPlace
  <2>5. Rooted(k.slots[i].cert, k.slots[i].roots)
    BY <1>1, <2>2, <2>3, <2>4 DEF Trust, CacheIsRooted
  <2> QED
    BY <2>2, <2>5, RootedMonotone
<1> QED
  BY <1>2, <1>3 DEF Accept

\* The steps of a verification keep the caches rooted.
LEMMA WalkTrust ==
  ASSUME Mechanics, Trust,
         (\E c \in Cert : NextCert(c)) \/ Accept \/ Reject \/ Abandon \/ EndVerify
  PROVE  Trust'
<1>1. cache' = cache /\ roots' = roots
  BY DEF NextCert, Accept, Reject, Abandon, EndVerify
<1>2. /\ job.stage \in {"next", "look", "insert"} /\ job \in Job /\ job.id = None
  BY DEF NextCert, Accept, Reject, Abandon, EndVerify, Mechanics, JobOK, TypeOK
<1>3. CASE job' = Idle
  <2>1. job'.id = job.id /\ job'.store = {} /\ job'.stage = "idle"
    BY <1>2, <1>3, IdleOK
  <2> QED
    BY <1>1, <2>1, SameClaims DEF Trust, ChainIsRooted
<1>4. CASE \E c \in Cert : NextCert(c)
  <2>0. PICK c \in Cert : job' = [job EXCEPT !.stage = "look", !.cert = c,
                            !.active = cache[CacheOf(job.server)].enabled]
    BY <1>4 DEF NextCert
  <2>1. /\ job'.id = job.id /\ job'.store = job.store /\ job'.stage = "look"
        /\ job'.loaded = job.loaded
    BY <1>2, <2>0 DEF Job
  <2>2. CacheIsRooted'
    BY <1>1, <2>1, SameClaims
  <2>3. ChainIsRooted'
    BY <1>1, <2>1 DEF Trust, ChainIsRooted, Rooted
  <2> QED
    BY <2>2, <2>3 DEF Trust
<1>5. CASE Accept
  <2>1. /\ job'.id = job.id /\ job'.store = job.store /\ job'.stage = "insert"
        /\ job'.loaded = job.loaded /\ job'.cert = job.cert
    BY <1>2, <1>5 DEF Accept, Job
  <2> QED
    BY <1>1, <1>5, <2>1, AcceptTrust, SameClaims DEF Trust, ChainIsRooted, Rooted, Vouched
<1> QED
  BY <1>3, <1>4, <1>5 DEF Reject, Abandon, EndVerify

\* The eviction reaches the one cache there is, and so discharges the
\* exemption of the root's entries.
LEMMA EvictTrust ==
  ASSUME OneCache, Mechanics, Trust, EvictRoot
  PROVE  Trust'
<1> DEFINE p == CacheOf(job.server)
<1>1. /\ job.id \in Id /\ job.server \in Server /\ p \in Place
      /\ cache[p] \in CacheType
  BY CacheOfPlace DEF EvictRoot, Mechanics, JobOK, TypeOK, CacheType
<1>2. /\ cache' = [cache EXCEPT ![p] = Evicted(cache[p], job.id)]
      /\ roots' = roots /\ job' = Idle
  BY DEF EvictRoot
<1>3. \A i \in Index : cache'[p].slots[i] =
        IF job.id \in cache[p].slots[i].roots THEN Blank ELSE cache[p].slots[i]
  BY <1>1, <1>2, EvictedType DEF Mechanics, TypeOK
<1>4. ASSUME NEW q \in Place, NEW i \in Index, cache'[q].slots[i].cert # None,
             \A r \in cache'[q].slots[i].roots : roots'[r] # None
      PROVE  Vouched(roots', cache'[q].slots[i].cert, cache'[q].slots[i].roots)
  <2>1. q = p
    BY <1>1, OnlyCache
  <2>2. /\ job.id \notin cache[p].slots[i].roots
        /\ cache'[q].slots[i] = cache[p].slots[i]
    BY <1>3, <1>4, <2>1 DEF Blank
  <2>3. Rooted(cache[p].slots[i].cert, cache[p].slots[i].roots)
    BY <1>1, <1>2, <1>4, <2>2 DEF Trust, CacheIsRooted
  <2> QED
    BY <1>2, <2>2, <2>3 DEF Rooted, Vouched
<1>5. CacheIsRooted'
  BY <1>4 DEF CacheIsRooted, Rooted, Vouched
<1> QED
  BY <1>2, <1>5, IdleOK DEF Trust, ChainIsRooted

\* A new entry claims what the verify has established.
LEMMA InsertTrust ==
  ASSUME Mechanics, Trust, InsertVerified
  PROVE  Trust'
<1> DEFINE p == CacheOf(job.server)
<1>1. /\ job.stage = "insert" /\ job.cert \in Cert /\ p \in Place /\ job \in Job
      /\ job.loaded \in SUBSET Id /\ cache[p] \in CacheType
  BY CacheOfPlace DEF InsertVerified, Mechanics, JobOK, TypeOK, CacheType, Job
<1>2. Rooted(job.cert, job.loaded)
  BY <1>1 DEF Trust, ChainIsRooted
<1>3. /\ job'.store \subseteq job.store \union {job.cert}
      /\ job'.loaded = job.loaded /\ job'.id = job.id /\ job'.stage = "next"
      /\ roots' = roots
  BY <1>1 DEF InsertVerified, Job
<1>4. ChainIsRooted'
  BY <1>2, <1>3 DEF Trust, ChainIsRooted, Rooted, Vouched
<1>5. ASSUME NEW q \in Place, NEW i \in Index
      PROVE  cache'[q].slots[i] \in
               {cache[q].slots[i], [cert |-> job.cert, roots |-> job.loaded]}
  <2>1. CASE ~Kept
    BY <2>1 DEF InsertVerified
  <2>2. CASE Kept
    <3>1. cache' = [cache EXCEPT ![p] = Insert(cache[p], job.cert, job.loaded)]
      BY <2>2 DEF InsertVerified
    <3>2. \A j \in Index : Insert(cache[p], job.cert, job.loaded).slots[j] \in
            {cache[p].slots[j], [cert |-> job.cert, roots |-> job.loaded]}
      BY <1>1, InsertType
    <3> QED
      BY <1>1, <3>1, <3>2 DEF Mechanics, TypeOK
  <2> QED
    BY <2>1, <2>2
<1>6. CacheIsRooted'
  <2> SUFFICES ASSUME NEW q \in Place, NEW i \in Index,
                      job'.id \notin cache'[q].slots[i].roots,
                      cache'[q].slots[i].cert # None,
                      \A r \in cache'[q].slots[i].roots : roots'[r] # None
               PROVE  Vouched(roots', cache'[q].slots[i].cert, cache'[q].slots[i].roots)
    BY DEF CacheIsRooted, Rooted, Vouched
  <2>1. CASE cache'[q].slots[i] = cache[q].slots[i]
    BY <1>3, <2>1 DEF Trust, CacheIsRooted, Rooted, Vouched
  <2>2. CASE cache'[q].slots[i] = [cert |-> job.cert, roots |-> job.loaded]
    BY <1>2, <1>3, <2>2 DEF Rooted, Vouched
  <2> QED
    BY <1>5, <2>1, <2>2
<1> QED
  BY <1>4, <1>6 DEF Trust

\* Clearing, switching and a reset only ever take entries away.
LEMMA ControlTrust ==
  ASSUME Mechanics, Trust,
         \/ \E s \in Server : Clear(s)
         \/ \E s \in Server : \E enable \in BOOLEAN : SetEnabled(s, enable)
         \/ Reset
  PROVE  Trust'
<1>1. roots' = roots
  BY DEF Clear, SetEnabled, Reset
<1>2. job' = job \/ (job' = Idle /\ \A p \in Place : cache'[p].slots = Empty)
  BY DEF Clear, SetEnabled, Reset, Fresh
<1>3. ChainIsRooted'
  BY <1>1, <1>2, IdleOK DEF Trust, ChainIsRooted, Rooted, Vouched
<1>4. ASSUME NEW p \in Place
      PROVE  cache'[p].slots = cache[p].slots \/ cache'[p].slots = Empty
  <2>1. cache \in [Place -> CacheType]
    BY DEF Mechanics, TypeOK, CacheType
  <2>2. CASE \E s \in Server : Clear(s)
    <3>1. PICK s \in Server :
            cache' = [cache EXCEPT ![CacheOf(s)] = Flushed(cache[CacheOf(s)])]
      BY <2>2 DEF Clear
    <3>2. Flushed(cache[CacheOf(s)]).slots = Empty
      BY <2>1, CacheOfPlace, FlushedType
    <3> QED
      BY <2>1, <3>1, <3>2
  <2>3. CASE \E s \in Server : \E enable \in BOOLEAN : SetEnabled(s, enable)
    <3>1. PICK s \in Server, enable \in BOOLEAN : SetEnabled(s, enable)
      BY <2>3
    <3> DEFINE old == cache[CacheOf(s)]
               k == [IF enable THEN old ELSE Flushed(old) EXCEPT !.enabled = enable]
    <3>2. old \in CacheType
      BY <2>1, CacheOfPlace
    <3>3. Flushed(old) \in CacheType /\ Flushed(old).slots = Empty
      BY <3>2, FlushedType
    <3>4. k.slots = Empty \/ k.slots = old.slots
      BY <3>2, <3>3 DEF CacheType
    <3>5. cache' = [cache EXCEPT ![CacheOf(s)] = k]
      BY <3>1 DEF SetEnabled
    <3> QED
      BY <2>1, <3>4, <3>5
  <2>4. CASE Reset
    BY <2>4 DEF Reset, Fresh
  <2> QED
    BY <2>2, <2>3, <2>4
<1>5. CacheIsRooted'
  <2> SUFFICES ASSUME NEW p \in Place, NEW i \in Index,
                      job'.id \notin cache'[p].slots[i].roots,
                      cache'[p].slots[i].cert # None,
                      \A r \in cache'[p].slots[i].roots : roots'[r] # None
               PROVE  Vouched(roots', cache'[p].slots[i].cert, cache'[p].slots[i].roots)
    BY DEF CacheIsRooted, Rooted, Vouched
  <2>1. cache'[p].slots # Empty
    BY DEF Empty, Blank
  <2>2. cache'[p].slots = cache[p].slots /\ job' = job
    BY <1>2, <1>4, <2>1
  <2> QED
    BY <1>1, <2>2 DEF Trust, CacheIsRooted, Rooted, Vouched
<1> QED
  BY <1>3, <1>5 DEF Trust

\* So does every step when there is one cache.
LEMMA NextTrust ==
  ASSUME OneCache
  PROVE  Mechanics /\ Trust /\ [Next]_vars => Trust'
<1> SUFFICES ASSUME Mechanics, Trust, [Next]_vars PROVE Trust'
  OBVIOUS
<1>1. CASE \E s \in Server : Request(s)
  BY <1>1, StartTrust, VerifyTrust, ControlTrust DEF Request
<1>2. CASE EvictRoot
  BY <1>2, EvictTrust
<1>3. CASE InsertVerified
  BY <1>3, InsertTrust
<1>4. CASE Reset
  BY <1>4, ControlTrust
<1>5. CASE (\E c \in Cert : NextCert(c)) \/ Accept \/ Reject \/ Abandon \/ EndVerify
  BY <1>5, WalkTrust
<1>6. CASE UNCHANGED vars
  BY <1>6 DEF vars, Trust, CacheIsRooted, ChainIsRooted, Rooted, Vouched
<1> QED
  BY <1>1, <1>2, <1>3, <1>4, <1>5, <1>6 DEF Next

\* With one cache, what it would answer for holds under the roots that NVM
\* holds now.
THEOREM CacheSound ==
  ASSUME OneCache PROVE Spec => []CacheIsRooted
<1>1. Init => Mechanics /\ Trust
  BY InitMechanics, InitTrust
<1>2. Mechanics /\ Trust /\ [Next]_vars => Mechanics' /\ Trust'
  BY NextMechanics, NextTrust
<1>3. Trust => CacheIsRooted
  BY DEF Trust
<1> QED
  BY <1>1, <1>2, <1>3, PTL DEF Spec

\* With one cache, a verify accepts only what the loaded roots vouch for,
\* hits and interleaved control of the cache notwithstanding.
THEOREM VerifySound ==
  ASSUME OneCache PROVE Spec => []ChainIsRooted
<1>1. Init => Mechanics /\ Trust
  BY InitMechanics, InitTrust
<1>2. Mechanics /\ Trust /\ [Next]_vars => Mechanics' /\ Trust'
  BY NextMechanics, NextTrust
<1>3. Trust => ChainIsRooted
  BY DEF Trust
<1> QED
  BY <1>1, <1>2, <1>3, PTL DEF Spec
=============================================================================
