--------------------------- MODULE KeystoreProofs ---------------------------
(***************************************************************************)
(* Proofs about Keystore, for any number of keys, clients, server contexts *)
(* and slots: its state is well typed and big keys stay out of small       *)
(* slots; a key is in one slot of a cache at most; no index of a stateful  *)
(* key is signed with twice unless a client changed its server context;    *)
(* what was made non-exportable is never read out; a revoked key stays     *)
(* revoked; a slot marked committed can be given up without loss; and a    *)
(* request for one key takes nothing from any other.                       *)
(*                                                                         *)
(* No index twice: every copy of a key that a signature could start from,  *)
(* in NVM or in a cache, has an index past all released ones (Fresh), and  *)
(* past the one that is on its way out (OnItsWay).  A signature advances   *)
(* the first copy in the cache and the one in NVM, so there must be no     *)
(* other: one slot per cache (OneCopy), one cache per key (AtHome), and no *)
(* other id with the same material (OneOwner).                             *)
(*                                                                         *)
(* Revoked and sealed: the flags of every copy of a key are followed the   *)
(* same way, from the copies a step finds to the ones it leaves.           *)
(*                                                                         *)
(* Committed: each slot is compared with NVM by itself (SlotStored), and   *)
(* each request is followed slot by slot.                                  *)
(*                                                                         *)
(* Others: the slots a request for k changes were k's, empty or committed, *)
(* and are k's or empty afterwards (Spares), through every operation on a  *)
(* cache; what a committed slot gives up is found in NVM as it was.        *)
(***************************************************************************)
EXTENDS Keystore, WellFoundedInduction, TLAPS

\* One cache: its slots are well typed, its ids unique.
GoodCache(c) ==
  /\ c \in [Slot -> SlotState]
  /\ \A i \in Slot : c[i].id # Erased => c[i].obj # None /\ i \in SlotsFor(c[i].obj.kind)
  /\ \A i, j \in Slot : c[i].id = c[j].id /\ c[i].id # Erased => i = j

Holds(c, k, o) == \E i \in Slot : c[i].id = k /\ c[i].obj = o

\* The cache c becomes d: every key in d was in c as it is, or it is k and its
\* object is in S.
Edit(c, d, k, S) ==
  /\ GoodCache(d)
  /\ \A j \in KeyId, o \in KeyObject : Holds(d, j, o) => Holds(c, j, o) \/ (j = k /\ o \in S)
-----------------------------------------------------------------------------
(* One cache.                                                              *)

USE DEF Erased

\* The facts about the constants that the proofs use.
LEMMA Constants ==
  /\ KeyId \subseteq Nat \ {0} /\ Global \notin Server /\ Global \notin Client
  /\ Owner \in [KeyId -> Client \union {Global}]
  /\ SmallSlots \in Nat /\ BigSlots \in Nat /\ NvmSize \in Nat
  /\ MaxMaterial \in Nat /\ MaxIndex \in Nat /\ MaxMoves \in Nat
  /\ FlagSets \subseteq SUBSET Flags /\ ClientKinds \subseteq Kinds \ {"stateful"}
  /\ TrustedIds \subseteq KeyId /\ None \notin KeyObject /\ None \notin Caches
  /\ Slot \subseteq Nat /\ 0 \notin Slot
  /\ \A kind : SlotsFor(kind) \subseteq Slot
BY KeystoreAssumption DEF Erased, Slot, SlotsFor

\* A set of slots has a first one.
LEMMA FirstSlot ==
  ASSUME NEW T \in SUBSET Slot, T # {}
  PROVE  \E i \in T : \A j \in T : i <= j
<1>1. T \subseteq Nat
  BY Constants
<1>. DEFINE R == OpToRel(<, Nat)
<1>. HIDE DEF R
<1>2. PICK i \in T : \A j \in T : ~(<<j, i>> \in R)
  <2>1. IsWellFoundedOn(R, Nat)
    BY NatLessThanWellFounded DEF R
  <2>. QED  BY <1>1, <2>1, WFMin
<1>3. ASSUME NEW j \in T PROVE i <= j
  <2>1. <<j, i>> \in Nat \X Nat
    BY <1>1
  <2>2. ~(j < i)
    BY <2>1, <1>2 DEF OpToRel, R
  <2>. QED  BY <2>1, <2>2, <1>1
<1>. QED  BY <1>3

\* GetKeyCacheSlot returns a slot of the size that was asked for, or 0.
LEMMA SlotGot ==
  ASSUME NEW c, NEW kind, GetKeyCacheSlot(c, kind) # 0
  PROVE  GetKeyCacheSlot(c, kind) \in SlotsFor(kind)
<1>. DEFINE empty == {i \in SlotsFor(kind) : c[i].id = Erased}
            usable == IF empty # {} THEN empty
                      ELSE {i \in SlotsFor(kind) : c[i].committed}
<1>1. GetKeyCacheSlot(c, kind)
        = IF usable = {} THEN 0 ELSE CHOOSE i \in usable : \A j \in usable : i <= j
  BY DEF GetKeyCacheSlot
<1>2. usable \subseteq SlotsFor(kind)
  OBVIOUS
<1>. HIDE DEF usable
<1>3. usable # {}
  BY <1>1
<1>4. \E i \in usable : \A j \in usable : i <= j
  BY <1>2, <1>3, Constants, FirstSlot
<1>. QED  BY <1>1, <1>2, <1>3, <1>4

\* A lookup in a cache finds the one slot of the key.
LEMMA FindUnique ==
  ASSUME NEW c, GoodCache(c), NEW k \in KeyId, NEW i \in Slot, c[i].id = k
  PROVE  FindInCache(c, k) = i
<1>1. \A j \in Slot : c[j].id = k => j = i
  BY Constants DEF GoodCache
<1>2. \A j \in Slot : (c[j].id = k /\ \A l \in Slot : c[l].id = k => j <= l) <=> j = i
  BY <1>1, Constants
<1>. QED  BY <1>2 DEF FindInCache

\* A cached key is found in a slot that holds it.
LEMMA FindCached ==
  ASSUME NEW c, GoodCache(c), NEW k \in KeyId, Cached(c, k)
  PROVE  /\ FindInCache(c, k) \in Slot /\ c[FindInCache(c, k)].id = k
         /\ c[FindInCache(c, k)].obj \in KeyObject
         /\ Holds(c, k, c[FindInCache(c, k)].obj)
<1>1. PICK i \in Slot : c[i].id = k
  BY DEF Cached
<1>2. FindInCache(c, k) = i
  BY <1>1, FindUnique
<1>3. c[i].obj \in KeyObject
  BY <1>1, Constants DEF GoodCache, SlotState
<1>. QED  BY <1>1, <1>2, <1>3 DEF Holds

\* A slot that is filled with a key that is nowhere else in the cache.
LEMMA FillEdit ==
  ASSUME NEW c, GoodCache(c), NEW k \in KeyId, NEW S \in SUBSET KeyObject,
         NEW i \in Slot, NEW s \in SlotState,
         \A j \in Slot \ {i} : c[j].id # k,
         s.id # Erased => s.id = k /\ s.obj \in S /\ i \in SlotsFor(s.obj.kind)
  PROVE  Edit(c, [c EXCEPT ![i] = s], k, S)
<1>. DEFINE d == [c EXCEPT ![i] = s]
<1>1. d \in [Slot -> SlotState] /\ d[i] = s /\ \A j \in Slot \ {i} : d[j] = c[j]
  BY DEF GoodCache
<1>. HIDE DEF d
<1>2. GoodCache(d)
  <2>1. ASSUME NEW j \in Slot, d[j].id # Erased
        PROVE  d[j].obj # None /\ j \in SlotsFor(d[j].obj.kind)
    BY <1>1, <2>1, Constants DEF GoodCache
  <2>2. ASSUME NEW j \in Slot, NEW l \in Slot, d[j].id = d[l].id, d[j].id # Erased
        PROVE  j = l
    BY <1>1, <2>2 DEF GoodCache
  <2>. QED  BY <1>1, <2>1, <2>2 DEF GoodCache
<1>3. ASSUME NEW j \in KeyId, NEW o \in KeyObject, Holds(d, j, o)
      PROVE  Holds(c, j, o) \/ (j = k /\ o \in S)
  BY <1>1, <1>3, Constants DEF Holds
<1>. QED  BY <1>2, <1>3 DEF Edit, d

\* Evicting a key touches that key only and leaves no slot with it.
LEMMA EvictEdit ==
  ASSUME NEW c, GoodCache(c), NEW k \in KeyId
  PROVE  /\ Edit(c, EvictFromCache(c, k), k, {})
         /\ \A i \in Slot : EvictFromCache(c, k)[i].id # k
<1>1. CASE Cached(c, k)
  <2>1. FindInCache(c, k) \in Slot /\ c[FindInCache(c, k)].id = k
    BY <1>1, FindCached
  <2>2. \A j \in Slot \ {FindInCache(c, k)} : c[j].id # k
    BY <2>1, Constants DEF GoodCache
  <2>3. Empty \in SlotState /\ Empty.id = Erased
    BY DEF Empty, SlotState
  <2>4. EvictFromCache(c, k) = [c EXCEPT ![FindInCache(c, k)] = Empty]
    BY <1>1 DEF EvictFromCache
  <2>5. Edit(c, EvictFromCache(c, k), k, {})
    <3>. DEFINE i == FindInCache(c, k)
    <3>1. i \in Slot /\ (\A j \in Slot \ {i} : c[j].id # k) /\ {} \in SUBSET KeyObject
      BY <2>1, <2>2
    <3>. HIDE DEF i
    <3>2. Edit(c, [c EXCEPT ![i] = Empty], k, {})
      BY <3>1, <2>3, FillEdit
    <3>. QED  BY <3>2, <2>4 DEF i
  <2>6. \A i \in Slot : EvictFromCache(c, k)[i].id # k
    BY <2>2, <2>3, <2>4, <2>1, Constants DEF GoodCache
  <2>. QED  BY <2>5, <2>6
<1>2. CASE ~Cached(c, k)
  BY <1>2 DEF EvictFromCache, Edit, Cached
<1>. QED  BY <1>1, <1>2

\* Two edits for one key are an edit for it.
LEMMA EditTrans ==
  ASSUME NEW c, NEW d, NEW e, NEW k, NEW S, NEW T,
         Edit(c, d, k, S), Edit(d, e, k, T)
  PROVE  Edit(c, e, k, S \union T)
BY DEF Edit

\* Filling a slot for a key is an edit for that key.
LEMMA WithSlotEdit ==
  ASSUME NEW c, GoodCache(c), NEW k \in KeyId, NEW kind \in Kinds, NEW s \in SlotState,
         NEW S \in SUBSET KeyObject,
         s.id # Erased => s.id = k /\ s.obj \in S /\ s.obj.kind = kind
  PROVE  /\ Edit(c, WithSlot(c, k, kind, s), k, S)
         /\ HasRoom(c, k, kind) =>
              \E i \in Slot : WithSlot(c, k, kind, s)[i] = s
<1>. DEFINE rest == EvictFromCache(c, k)
            i == GetKeyCacheSlot(rest, kind)
<1>1. /\ Edit(c, rest, k, {})
      /\ \A j \in Slot : rest[j].id # k
  BY EvictEdit
<1>2. GoodCache(rest)
  BY <1>1 DEF Edit
<1>3. WithSlot(c, k, kind, s) = IF i = 0 THEN rest ELSE [rest EXCEPT ![i] = s]
  BY DEF WithSlot
<1>4. HasRoom(c, k, kind) <=> i # 0
  BY DEF HasRoom
<1>. HIDE DEF rest
<1>5. CASE i = 0
  BY <1>1, <1>3, <1>4, <1>5 DEF Edit
<1>6. CASE i # 0
  <2>1. i \in SlotsFor(kind) /\ i \in Slot
    BY <1>6, SlotGot, Constants
  <2>. HIDE DEF i
  <2>2. Edit(rest, [rest EXCEPT ![i] = s], k, S)
    BY <1>1, <1>2, <2>1, FillEdit
  <2>3. Edit(c, [rest EXCEPT ![i] = s], k, S)
    BY <1>1, <2>2, EditTrans, {} \union S = S
  <2>4. [rest EXCEPT ![i] = s][i] = s
    BY <1>2, <2>1 DEF GoodCache
  <2>. QED  BY <1>3, <1>6, <2>1, <2>3, <2>4
<1>. QED  BY <1>5, <1>6

\* A copy replaced by an object of the same kind: it is the only one of the key.
LEMMA ReplaceEdit ==
  ASSUME NEW c, GoodCache(c), NEW k \in KeyId, Cached(c, k), NEW o \in KeyObject,
         o.kind = c[FindInCache(c, k)].obj.kind
  PROVE  /\ \A b \in BOOLEAN : Edit(c, Updated(c, k, o, b), k, {o})
         /\ Edit(c, InPlace(c, k, o), k, {o})
         /\ \A b \in BOOLEAN, p \in KeyObject : Holds(Updated(c, k, o, b), k, p) => p = o
         /\ \A p \in KeyObject : Holds(InPlace(c, k, o), k, p) => p = o
<1>. DEFINE i == FindInCache(c, k)
<1>0. i \in Slot /\ c[i].id = k /\ c[i].obj \in KeyObject
  BY FindCached
<1>1. /\ i \in Slot /\ c[i].id = k /\ c[i].obj \in KeyObject
      /\ i \in SlotsFor(c[i].obj.kind) /\ c[i] \in SlotState
  <2>. HIDE DEF i
  <2>. QED  BY <1>0, Constants DEF GoodCache
<1>2. \A j \in Slot \ {i} : c[j].id # k
  BY <1>1, Constants DEF GoodCache
<1>3. o.kind = c[i].obj.kind
  OBVIOUS
<1>4. \A b : Updated(c, k, o, b) = [c EXCEPT ![i] = Holding(k, o, b)]
  BY DEF Updated
<1>5. InPlace(c, k, o) = [c EXCEPT ![i] = [c[i] EXCEPT !.obj = o]]
  <2>1. InPlace(c, k, o) = [c EXCEPT ![i].obj = o]
    BY DEF InPlace
  <2>. QED  BY <2>1
<1>. HIDE DEF i
<1>6. ASSUME NEW s \in SlotState, s.id = k, s.obj = o
      PROVE  /\ Edit(c, [c EXCEPT ![i] = s], k, {o})
             /\ \A p \in KeyObject : Holds([c EXCEPT ![i] = s], k, p) => p = o
  <2>1. {o} \in SUBSET KeyObject /\ s.obj \in {o} /\ i \in SlotsFor(s.obj.kind)
    BY <1>6, <1>1, <1>3
  <2>2. Edit(c, [c EXCEPT ![i] = s], k, {o})
    BY <1>6, <1>1, <1>2, <2>1, FillEdit
  <2>3. \A p \in KeyObject : Holds([c EXCEPT ![i] = s], k, p) => p = o
    BY <1>6, <1>1, <1>2 DEF Holds, GoodCache
  <2>. QED  BY <2>2, <2>3
<1>7. ASSUME NEW b \in BOOLEAN
      PROVE  Holding(k, o, b) \in SlotState /\ Holding(k, o, b).id = k /\ Holding(k, o, b).obj = o
  BY DEF Holding, SlotState
<1>8. /\ [c[i] EXCEPT !.obj = o] \in SlotState
      /\ [c[i] EXCEPT !.obj = o].id = k /\ [c[i] EXCEPT !.obj = o].obj = o
  BY <1>1 DEF SlotState
<1>9. ASSUME NEW b \in BOOLEAN
      PROVE  /\ Edit(c, Updated(c, k, o, b), k, {o})
             /\ \A p \in KeyObject : Holds(Updated(c, k, o, b), k, p) => p = o
  BY <1>4, <1>6, <1>7
<1>10. /\ Edit(c, InPlace(c, k, o), k, {o})
       /\ \A p \in KeyObject : Holds(InPlace(c, k, o), k, p) => p = o
  BY <1>5, <1>6, <1>8
<1>. QED  BY <1>9, <1>10
-----------------------------------------------------------------------------
(* All caches.                                                             *)

\* The types of the other variables.
Typed ==
  /\ nvm \in [KeyId -> KeyObject \union {None}]
  /\ at \in [Client -> Server]
  /\ signing \in [key: KeyId, mat: Material, index: 0..MaxIndex] \union {None}
  /\ made \in Material /\ released \in [Material -> 0..(MaxIndex + 1)]
  /\ reused \in BOOLEAN /\ moves \in [Client -> 0..MaxMoves]
  /\ revoked \subseteq KeyId /\ leaked \subseteq Material

GoodCaches(caches) ==
  /\ caches \in [Caches -> [Slot -> SlotState]]
  /\ \A x \in Caches : GoodCache(caches[x])

Caching == GoodCaches(cache)

\* Every key in a cache was there before, or it is k in its own cache and its
\* object is in S.
CachesChange(k, S) ==
  /\ GoodCaches(cache')
  /\ \A x \in Caches, j \in KeyId, o \in KeyObject :
       Holds(cache'[x], j, o) =>
         Holds(cache[x], j, o) \/ (x = CacheOf(k) /\ j = k /\ o \in S)

\* Every key belongs to one of the caches.
LEMMA CacheOfType ==
  ASSUME Typed, NEW k \in KeyId
  PROVE  CacheOf(k) \in Caches
BY Constants DEF Typed, CacheOf, Caches

\* Marking copies stale changes no key and no object.
LEMMA MarkStaleSame ==
  ASSUME NEW caches, NEW k \in KeyId, NEW y, GoodCaches(caches)
  PROVE  /\ GoodCaches(MarkStale(caches, k, y))
         /\ \A x \in Caches : \A j, o :
              Holds(MarkStale(caches, k, y)[x], j, o) <=> Holds(caches[x], j, o)
<1>. DEFINE new == MarkStale(caches, k, y)
<1>1. ASSUME NEW x \in Caches
      PROVE  /\ new[x] \in [Slot -> SlotState]
             /\ \A i \in Slot : new[x][i].id = caches[x][i].id /\ new[x][i].obj = caches[x][i].obj
  <2>0. caches[x] \in [Slot -> SlotState]
    BY DEF GoodCaches
  <2>1. \A s \in SlotState : /\ [s EXCEPT !.stale = TRUE] \in SlotState
                             /\ [s EXCEPT !.stale = TRUE].id = s.id
                             /\ [s EXCEPT !.stale = TRUE].obj = s.obj
    BY DEF SlotState
  <2>2. new[x] = IF x = y \/ ~Cached(caches[x], k) THEN caches[x]
                 ELSE [i \in Slot |-> IF caches[x][i].id = k
                                      THEN [caches[x][i] EXCEPT !.stale = TRUE]
                                      ELSE caches[x][i]]
    BY DEF MarkStale
  <2>. HIDE DEF new
  <2>3. CASE x = y \/ ~Cached(caches[x], k)
    BY <2>0, <2>2, <2>3
  <2>4. CASE ~(x = y \/ ~Cached(caches[x], k))
    BY <2>0, <2>1, <2>2, <2>4
  <2>. QED  BY <2>3, <2>4
<1>2. new \in [Caches -> [Slot -> SlotState]]
  <2>1. new = [x \in Caches |-> new[x]]
    BY DEF MarkStale
  <2>. HIDE DEF new
  <2>. QED  BY <1>1, <2>1
<1>3. ASSUME NEW x \in Caches
      PROVE  GoodCache(new[x]) /\ \A j, o : Holds(new[x], j, o) <=> Holds(caches[x], j, o)
  <2>1. GoodCache(caches[x])
    BY DEF GoodCaches
  <2>. HIDE DEF new
  <2>. QED  BY <1>1, <2>1 DEF GoodCache, Holds
<1>. QED  BY <1>2, <1>3 DEF GoodCaches

\* SetCache and Write change one cache as their argument says.
LEMMA SetCacheChanges ==
  ASSUME Typed, Caching, NEW k \in KeyId, NEW S \in SUBSET KeyObject,
         NEW c, Edit(cache[CacheOf(k)], c, k, S), SetCache(k, c)
  PROVE  CachesChange(k, S)
<1>. DEFINE x == CacheOf(k)
<1>1. x \in Caches /\ GoodCache(c)
  BY CacheOfType DEF Edit
<1>. HIDE DEF x
<1>2. cache' = [cache EXCEPT ![x] = c]
  BY DEF SetCache, x
<1>3. Edit(cache[x], c, k, S)
  BY DEF x
<1>4. cache'[x] = c /\ \A y \in Caches \ {x} : cache'[y] = cache[y]
  BY <1>1, <1>2 DEF Caching, GoodCaches
<1>5. GoodCaches(cache')
  <2>1. cache' \in [Caches -> [Slot -> SlotState]]
    BY <1>1, <1>2 DEF Caching, GoodCaches, GoodCache
  <2>2. \A y \in Caches : GoodCache(cache'[y])
    BY <1>1, <1>4 DEF Caching, GoodCaches
  <2>. QED  BY <2>1, <2>2 DEF GoodCaches
<1>6. ASSUME NEW y \in Caches, NEW j \in KeyId, NEW o \in KeyObject, Holds(cache'[y], j, o)
      PROVE  Holds(cache[y], j, o) \/ (y = x /\ j = k /\ o \in S)
  BY <1>3, <1>4, <1>6 DEF Edit
<1>. QED  BY <1>5, <1>6 DEF CachesChange, x

\* Writing a key changes its copies only.
LEMMA WriteChanges ==
  ASSUME Typed, Caching, NEW k \in KeyId, NEW S \in SUBSET KeyObject, NEW o,
         NEW c, Edit(cache[CacheOf(k)], c, k, S), Write(k, c, o)
  PROVE  CachesChange(k, S)
<1>. DEFINE x == CacheOf(k)
            caches == [cache EXCEPT ![x] = c]
<1>1. x \in Caches /\ GoodCache(c) /\ Edit(cache[x], c, k, S)
  BY CacheOfType DEF Edit
<1>. HIDE DEF x
<1>2. caches[x] = c /\ \A y \in Caches \ {x} : caches[y] = cache[y]
  BY <1>1 DEF Caching, GoodCaches
<1>3. GoodCaches(caches)
  BY <1>1, <1>2 DEF Caching, GoodCaches, GoodCache
<1>4. cache' = MarkStale(caches, k, x)
  BY DEF Write, x
<1>. HIDE DEF caches
<1>5. GoodCaches(cache')
  BY <1>3, <1>4, MarkStaleSame DEF Caching, GoodCaches
<1>6. ASSUME NEW y \in Caches, NEW j \in KeyId, NEW p \in KeyObject, Holds(cache'[y], j, p)
      PROVE  Holds(cache[y], j, p) \/ (y = x /\ j = k /\ p \in S)
  <2>1. Holds(caches[y], j, p)
    BY <1>3, <1>4, <1>6, MarkStaleSame
  <2>. QED  BY <1>1, <1>2, <2>1 DEF Edit
<1>. QED  BY <1>5, <1>6 DEF CachesChange, x

\* A request that goes past the caches.
LEMMA StaleChanges ==
  ASSUME Typed, Caching, NEW k \in KeyId, NEW y, cache' = MarkStale(cache, k, y)
  PROVE  CachesChange(k, {})
<1>1. GoodCaches(cache')
  BY MarkStaleSame DEF Caching, GoodCaches
<1>2. \A x \in Caches : \A j, o : Holds(cache'[x], j, o) <=> Holds(cache[x], j, o)
  BY MarkStaleSame DEF Caching, GoodCaches
<1>. QED  BY <1>1, <1>2 DEF CachesChange

\* A key that can be freshened is in its cache afterwards, as it was found.
LEMMA FreshenEdit ==
  ASSUME Typed, Caching, NEW k \in KeyId, CanFreshen(k)
  PROVE  /\ Known(k) /\ Current(k) \in KeyObject
         /\ GoodCache(Freshened(k)) /\ Cached(Freshened(k), k)
         /\ Freshened(k)[FindInCache(Freshened(k), k)].obj = Current(k)
         /\ Edit(cache[CacheOf(k)], Freshened(k), k, {Current(k)})
<1>. DEFINE c == cache[CacheOf(k)]
<1>1. GoodCache(c)
  BY CacheOfType DEF Caching, GoodCaches
<1>2. CASE IsCached(k)
  <2>1. Cached(c, k) /\ Freshened(k) = c /\ Current(k) = c[FindInCache(c, k)].obj /\ Known(k)
    BY <1>2 DEF IsCached, Freshened, Current, CachedObject, Known
  <2>. HIDE DEF c
  <2>2. c[FindInCache(c, k)].obj \in KeyObject
    BY <1>1, <2>1, FindCached
  <2>3. Edit(c, c, k, {Current(k)})
    BY <1>1 DEF Edit
  <2>. QED  BY <1>1, <2>1, <2>2, <2>3 DEF c
<1>3. CASE ~IsCached(k)
  <2>. DEFINE o == nvm[k]
              s == Holding(k, o, TRUE)
  <2>1. /\ o # None /\ HasRoom(c, k, o.kind) /\ Current(k) = o /\ Known(k)
        /\ Freshened(k) = WithSlot(c, k, o.kind, s)
    BY <1>3 DEF CanFreshen, Current, Freshened, Known
  <2>2. o \in KeyObject
    BY <2>1 DEF Typed
  <2>. HIDE DEF c, o
  <2>3. o.kind \in Kinds /\ {o} \in SUBSET KeyObject
    BY <2>2 DEF KeyObject
  <2>4. s \in SlotState /\ s.id = k /\ s.obj = o
    BY <2>2 DEF Holding, SlotState
  <2>. HIDE DEF s
  <2>5. Edit(c, WithSlot(c, k, o.kind, s), k, {o})
    BY <1>1, <2>3, <2>4, WithSlotEdit
  <2>6. PICK i \in Slot : WithSlot(c, k, o.kind, s)[i] = s
    <3>1. s.id # Erased => s.id = k /\ s.obj \in {o} /\ s.obj.kind = o.kind
      BY <2>4
    <3>. QED  BY <1>1, <2>1, <2>3, <2>4, <3>1, WithSlotEdit
  <2>7. GoodCache(Freshened(k)) /\ Freshened(k)[i].id = k /\ Freshened(k)[i].obj = o
    BY <2>1, <2>4, <2>5, <2>6 DEF Edit
  <2>8. Cached(Freshened(k), k) /\ FindInCache(Freshened(k), k) = i
    BY <2>7, FindUnique DEF Cached
  <2>. QED  BY <2>1, <2>2, <2>5, <2>7, <2>8 DEF c
<1>. QED  BY <1>2, <1>3
-----------------------------------------------------------------------------
(* The invariant.                                                          *)

InNvm(k, o) == nvm[k] = o /\ o # None
Copy(k, o) == InNvm(k, o) \/ \E x \in Caches : Holds(cache[x], k, o)

\* Whether an object may leave the server.
SameSeal(o, p) == "nonexportable" \in o.flags <=> "nonexportable" \in p.flags

\* A key of a client that never moved is in no cache but its own.
AtHome == \A k \in KeyId, x \in Caches, o \in KeyObject :
            Settled(k) /\ Holds(cache[x], k, o) => x = CacheOf(k)

\* A material was made before it is copied; the provisioned material 0 is not
\* the one of a stateful key.
Making ==
  /\ \A k \in KeyId, o \in KeyObject :
       Copy(k, o) => o.mat <= made /\ (o.mat = 0 => o.kind # "stateful")
  /\ \A m \in Material : m > made => released[m] = 0

\* A material that was made belongs to one key id.
OneOwner ==
  \A j, k \in KeyId, o, p \in KeyObject :
    Copy(j, o) /\ Copy(k, p) /\ o.mat = p.mat /\ o.mat # 0 => j = k

Fresh ==
  \A k \in KeyId, o \in KeyObject : Settled(k) /\ Copy(k, o) => o.index >= released[o.mat]

OnItsWay ==
  signing # None =>
    /\ signing.mat \in 1..made
    /\ \A k \in KeyId, o \in KeyObject : Copy(k, o) /\ o.mat = signing.mat => k = signing.key
    /\ Settled(signing.key) =>
         /\ signing.index >= released[signing.mat]
         /\ \A o \in KeyObject :
              Copy(signing.key, o) /\ o.mat = signing.mat => o.index > signing.index

\* All copies of a material are exportable, or none is.
Sealing ==
  \A j, k \in KeyId, o, p \in KeyObject :
    Copy(j, o) /\ Copy(k, p) /\ o.mat = p.mat => SameSeal(o, p)

Copies == AtHome /\ Making /\ OneOwner /\ Fresh /\ Sealing

IInv == Typed /\ Caching /\ Copies /\ OnItsWay /\ NoIndexReuse

\* An object that continues a copy of k: the same material, no earlier index, as
\* exportable as it was, and revoked if it was.
Continues(k, o) ==
  \E p \in KeyObject : /\ Copy(k, p) /\ p.mat = o.mat /\ p.kind = o.kind
                       /\ p.index <= o.index
                       /\ SameSeal(p, o) /\ (IsRevoked(p) => IsRevoked(o))

\* What a request does to the copies: those of k may become objects in S, which
\* continue copies of k, or one that is made of a new material.
Derives(k, S) ==
  /\ CachesChange(k, S)
  /\ \A j \in KeyId, o \in KeyObject : InNvm(j, o)' => InNvm(j, o) \/ (j = k /\ o \in S)
  /\ made' \in {made, made + 1}
  /\ \A o \in S : Continues(k, o) \/ (S = {o} /\ o.mat = made + 1 /\ made' = made + 1)

\* The same said of each copy.
Stems(k) ==
  \A j \in KeyId, o \in KeyObject : Copy(j, o)' =>
    Continues(j, o) \/ (j = k /\ o.mat = made + 1 /\ made' = made + 1)

\* The parts of a key object.
LEMMA ObjectType ==
  \A o \in KeyObject : o.mat \in Nat /\ o.mat \in Material /\ o.index \in 0..MaxIndex /\ o.index \in Nat
                       /\ o.kind \in Kinds /\ o.flags \in SUBSET Flags
BY Constants DEF KeyObject, Material

\* After a derived step every copy continues one from before, or is new.
LEMMA DerivedCopy ==
  ASSUME IInv, NEW k \in KeyId, NEW S \in SUBSET KeyObject, Derives(k, S),
         NEW j \in KeyId, NEW o \in KeyObject, Copy(j, o)'
  PROVE  \/ Continues(j, o)
         \/ j = k /\ S = {o} /\ o.mat = made + 1 /\ made' = made + 1
<1>1. Copy(j, o) \/ (j = k /\ o \in S)
  <2>1. CASE InNvm(j, o)'
    BY <2>1 DEF Derives, Copy
  <2>2. CASE ~InNvm(j, o)'
    <3>1. PICK x \in Caches : Holds(cache'[x], j, o)
      BY <2>2 DEF Copy, Holds, Caches
    <3>. QED  BY <3>1 DEF Derives, CachesChange, Copy
  <2>. QED  BY <2>1, <2>2
<1>2. Copy(j, o) => Continues(j, o)
  BY ObjectType DEF Continues, SameSeal
<1>. QED  BY <1>1, <1>2 DEF Derives

\* The copies stay in order while nobody moves and nothing is released.
LEMMA CopiesKept ==
  ASSUME IInv, Typed', NEW k \in KeyId, NEW S \in SUBSET KeyObject, Derives(k, S),
         UNCHANGED <<at, moves, released>>
  PROVE  Copies'
<1>0. \A j \in KeyId : (Settled(j) <=> Settled(j)') /\ CacheOf(j)' = CacheOf(j)
  BY DEF Settled, CacheOf
<1>1. AtHome'
  <2>1. SUFFICES ASSUME NEW j \in KeyId, NEW x \in Caches, NEW o \in KeyObject,
                        Settled(j), Holds(cache'[x], j, o)
                 PROVE  x = CacheOf(j)
    BY <1>0 DEF AtHome, Holds, Caches
  <2>. QED  BY <2>1 DEF Derives, CachesChange, IInv, Copies, AtHome
<1>2. made \in Nat /\ made' \in Nat /\ made' >= made /\ released' = released
      /\ released \in [Material -> Nat]
  BY Constants DEF IInv, Typed, Material, Derives
<1>3. ASSUME NEW j \in KeyId, NEW o \in KeyObject, Copy(j, o)'
      PROVE  /\ o.mat <= made' /\ (o.mat = 0 => o.kind # "stateful")
             /\ Settled(j) => o.index >= released[o.mat]
             /\ o.mat <= made \/ (j = k /\ o.mat = made + 1)
             /\ o.mat <= made =>
                  \E p \in KeyObject : Copy(j, p) /\ p.mat = o.mat /\ SameSeal(p, o)
             /\ ~(o.mat <= made) => S = {o}
  <2>1. CASE Continues(j, o)
    <3>1. PICK p \in KeyObject : /\ Copy(j, p) /\ p.mat = o.mat /\ p.kind = o.kind
                                 /\ p.index <= o.index /\ SameSeal(p, o)
      BY <2>1 DEF Continues
    <3>2. p.mat <= made /\ (p.mat = 0 => p.kind # "stateful")
      BY <3>1 DEF IInv, Copies, Making
    <3>3. Settled(j) => p.index >= released[p.mat]
      BY <3>1 DEF IInv, Copies, Fresh
    <3>. QED  BY <1>2, <3>1, <3>2, <3>3, ObjectType
  <2>2. CASE ~Continues(j, o)
    <3>1. j = k /\ S = {o} /\ o.mat = made + 1 /\ made' = made + 1
      BY <1>3, <2>2, DerivedCopy
    <3>2. released[o.mat] = 0
      BY <3>1, <1>2, ObjectType DEF IInv, Copies, Making
    <3>. QED  BY <1>2, <3>1, <3>2, ObjectType
  <2>. QED  BY <2>1, <2>2
<1>4. Making'
  <2>1. \A m \in Material : m > made' => released'[m] = 0
    BY <1>2, Constants DEF IInv, Copies, Making, Material
  <2>. QED  BY <1>3, <2>1 DEF Making, Material
<1>5. OneOwner'
  <2>1. SUFFICES ASSUME NEW i \in KeyId, NEW j \in KeyId, NEW o \in KeyObject, NEW p \in KeyObject,
                        Copy(i, o)', Copy(j, p)', o.mat = p.mat, o.mat # 0
                 PROVE  i = j
    BY DEF OneOwner
  <2>2. CASE o.mat <= made
    <3>1. PICK q \in KeyObject : Copy(i, q) /\ q.mat = o.mat
      BY <1>3, <2>1, <2>2
    <3>2. PICK r \in KeyObject : Copy(j, r) /\ r.mat = o.mat
      BY <1>3, <2>1, <2>2
    <3>. QED  BY <2>1, <3>1, <3>2 DEF IInv, Copies, OneOwner
  <2>3. CASE ~(o.mat <= made)
    BY <1>3, <2>1, <2>3
  <2>. QED  BY <2>2, <2>3
<1>6. Fresh'
  BY <1>0, <1>2, <1>3 DEF Fresh
<1>7. Sealing'
  <2>1. SUFFICES ASSUME NEW i \in KeyId, NEW j \in KeyId, NEW o \in KeyObject, NEW p \in KeyObject,
                        Copy(i, o)', Copy(j, p)', o.mat = p.mat
                 PROVE  SameSeal(o, p)
    BY DEF Sealing
  <2>2. CASE o.mat <= made
    <3>1. PICK q \in KeyObject : Copy(i, q) /\ q.mat = o.mat /\ SameSeal(q, o)
      BY <1>3, <2>1, <2>2
    <3>2. PICK r \in KeyObject : Copy(j, r) /\ r.mat = o.mat /\ SameSeal(r, p)
      BY <1>3, <2>1, <2>2
    <3>3. SameSeal(q, r)
      BY <3>1, <3>2 DEF IInv, Copies, Sealing
    <3>. QED  BY <3>1, <3>2, <3>3 DEF SameSeal
  <2>3. CASE ~(o.mat <= made)
    <3>1. S = {o} /\ S = {p}
      BY <1>3, <2>1, <2>3
    <3>. QED  BY <3>1 DEF SameSeal
  <2>. QED  BY <2>2, <2>3
<1>. QED  BY <1>1, <1>4, <1>5, <1>6, <1>7 DEF Copies

\* The steps of a request that signs nothing.
LEMMA QuietStep ==
  ASSUME IInv, Typed', NEW k \in KeyId, NEW S \in SUBSET KeyObject, Derives(k, S),
         UNCHANGED <<at, moves, released, reused>>, signing' = None
  PROVE  IInv' /\ Stems(k)
<1>1. Copies'
  BY CopiesKept
<1>2. Caching'
  BY DEF Derives, CachesChange, Caching
<1>3. OnItsWay'
  BY DEF OnItsWay
<1>4. NoIndexReuse'
  BY DEF IInv, NoIndexReuse
<1>5. Stems(k)
  BY DerivedCopy DEF Stems
<1>. QED  BY <1>1, <1>2, <1>3, <1>4, <1>5 DEF IInv
\* A step that makes no copy.
NoNewCopies == \A j \in KeyId, o \in KeyObject : Copy(j, o)' => Copy(j, o)
-----------------------------------------------------------------------------
(* The requests.                                                           *)

\* What the requests that sign nothing leave alone, apart from the copies.
Quiet == /\ UNCHANGED <<at, moves, released, reused>> /\ signing' = None
         /\ revoked' \subseteq KeyId /\ leaked' \subseteq Material

\* The current object of a known key is a copy of it.
LEMMA CurrentCopy ==
  ASSUME IInv, NEW k \in KeyId, Known(k)
  PROVE  Current(k) \in KeyObject /\ Copy(k, Current(k))
<1>1. CASE IsCached(k)
  <2>. DEFINE x == CacheOf(k)
  <2>1. x \in Caches
    BY CacheOfType DEF IInv
  <2>2. GoodCache(cache[x])
    BY <2>1 DEF IInv, Caching, GoodCaches
  <2>3. Cached(cache[x], k) /\ Current(k) = cache[x][FindInCache(cache[x], k)].obj
    BY <1>1 DEF IsCached, Current, CachedObject
  <2>. HIDE DEF x
  <2>4. Current(k) \in KeyObject /\ Holds(cache[x], k, Current(k))
    BY <2>2, <2>3, FindCached
  <2>. QED  BY <2>1, <2>4 DEF Copy
<1>2. CASE ~IsCached(k)
  <2>1. nvm[k] # None /\ Current(k) = nvm[k]
    BY <1>2 DEF Known, Current
  <2>2. nvm[k] \in KeyObject
    BY <2>1 DEF IInv, Typed
  <2>. QED  BY <2>1, <2>2 DEF Copy, InNvm
<1>. QED  BY <1>1, <1>2

\* A copy continues itself.
LEMMA CopyContinues ==
  ASSUME NEW k \in KeyId, NEW o \in KeyObject, Copy(k, o)
  PROVE  Continues(k, o)
BY ObjectType DEF Continues, SameSeal

\* A request that changes k's cache only.
LEMMA CacheStep ==
  ASSUME IInv, NEW k \in KeyId, NEW S \in SUBSET KeyObject, NEW c,
         Edit(cache[CacheOf(k)], c, k, S), SetCache(k, c), UNCHANGED nvm, Quiet,
         made' \in Material, made' \in {made, made + 1},
         \A o \in S : Continues(k, o) \/ (S = {o} /\ o.mat = made + 1 /\ made' = made + 1)
  PROVE  IInv' /\ Stems(k)
<1>1. CachesChange(k, S)
  BY SetCacheChanges DEF IInv
<1>2. Derives(k, S)
  BY <1>1 DEF Derives, InNvm
<1>3. Typed'
  BY DEF IInv, Typed, Quiet, Material
<1>. QED  BY <1>2, <1>3, QuietStep DEF Quiet

\* A request that changes k's cache and k's object in NVM.
LEMMA WriteStep ==
  ASSUME IInv, NEW k \in KeyId, NEW S \in SUBSET KeyObject, NEW c, NEW o \in S \union {None},
         Edit(cache[CacheOf(k)], c, k, S), Write(k, c, o), Quiet,
         made' \in Material, made' \in {made, made + 1},
         \A p \in S : Continues(k, p) \/ (S = {p} /\ p.mat = made + 1 /\ made' = made + 1)
  PROVE  IInv' /\ Stems(k)
<1>1. CachesChange(k, S)
  BY WriteChanges DEF IInv
<1>2. nvm' = [nvm EXCEPT ![k] = o]
  BY DEF Write
<1>3. \A j \in KeyId, p \in KeyObject : InNvm(j, p)' => InNvm(j, p) \/ (j = k /\ p \in S)
  BY <1>2, Constants DEF InNvm, IInv, Typed
<1>4. Derives(k, S)
  BY <1>1, <1>3 DEF Derives
<1>5. Typed'
  BY <1>2 DEF IInv, Typed, Quiet, Material
<1>. QED  BY <1>4, <1>5, QuietStep DEF Quiet

\* A request that changes k's object in NVM behind the caches.
LEMMA NvmStep ==
  ASSUME IInv, NEW k \in KeyId, NEW S \in SUBSET KeyObject, NEW o \in S \union {None},
         nvm' = [nvm EXCEPT ![k] = o], cache' = MarkStale(cache, k, None), Quiet,
         made' \in Material, made' \in {made, made + 1},
         \A p \in S : S = {p} /\ p.mat = made + 1 /\ made' = made + 1
  PROVE  IInv' /\ Stems(k)
<1>1. CachesChange(k, {})
  BY StaleChanges DEF IInv
<1>2. CachesChange(k, S)
  BY <1>1 DEF CachesChange
<1>3. \A j \in KeyId, p \in KeyObject : InNvm(j, p)' => InNvm(j, p) \/ (j = k /\ p \in S)
  BY Constants DEF InNvm, IInv, Typed
<1>4. Derives(k, S)
  BY <1>2, <1>3 DEF Derives
<1>5. Typed'
  BY DEF IInv, Typed, Quiet, Material
<1>. QED  BY <1>4, <1>5, QuietStep DEF Quiet

\* The same when k's cache only loses keys.
LEMMA LossStep ==
  ASSUME IInv, NEW k \in KeyId, NEW c, Edit(cache[CacheOf(k)], c, k, {}), Quiet,
         \/ SetCache(k, c) /\ UNCHANGED nvm
         \/ Write(k, c, None),
         made' \in Material, made' \in {made, made + 1}
  PROVE  IInv' /\ Stems(k)
<1>. DEFINE S == {}
<1>1. /\ S \in SUBSET KeyObject /\ None \in S \union {None}
      /\ \A o \in S : Continues(k, o) \/ (S = {o} /\ o.mat = made + 1 /\ made' = made + 1)
  OBVIOUS
<1>2. Edit(cache[CacheOf(k)], c, k, S)
  OBVIOUS
<1>. HIDE DEF S
<1>3. CASE SetCache(k, c) /\ UNCHANGED nvm
  BY <1>1, <1>2, <1>3, CacheStep
<1>4. CASE Write(k, c, None)
  BY <1>1, <1>2, <1>4, WriteStep
<1>. QED  BY <1>3, <1>4

\* The count of material made so far.
LEMMA MadeNat == ASSUME IInv PROVE made \in Nat /\ made \in Material
BY Constants DEF IInv, Typed, Material

\* A new object has new material.
LEMMA NewObjectType ==
  ASSUME IInv, NEW kind \in Kinds, NEW flags \in SUBSET Flags, made < MaxMaterial
  PROVE  /\ NewObject(kind, flags) \in KeyObject /\ NewObject(kind, flags).mat = made + 1
         /\ NewObject(kind, flags).kind = kind /\ made + 1 \in Material
BY MadeNat, Constants DEF NewObject, KeyObject, Material

\* The cache of a key is well formed.
LEMMA OwnCache ==
  ASSUME IInv, NEW k \in KeyId
  PROVE  CacheOf(k) \in Caches /\ GoodCache(cache[CacheOf(k)])
BY CacheOfType DEF IInv, Caching, GoodCaches

\* A slot filled with an object.
LEMMA HoldingType ==
  ASSUME NEW k \in KeyId, NEW o \in KeyObject, NEW b \in BOOLEAN
  PROVE  Holding(k, o, b) \in SlotState /\ Holding(k, o, b).id = k /\ Holding(k, o, b).obj = o
BY DEF Holding, SlotState

\* An empty slot.
LEMMA EmptyType == Empty \in SlotState /\ Empty.id = Erased
BY DEF Empty, SlotState

\* Without room the copy that was there is evicted all the same.
LEMMA NoRoomEdit ==
  ASSUME NEW c, GoodCache(c), NEW k \in KeyId, NEW kind, NEW s, ~HasRoom(c, k, kind)
  PROVE  Edit(c, WithSlot(c, k, kind, s), k, {})
<1>1. WithSlot(c, k, kind, s) = EvictFromCache(c, k)
  BY DEF HasRoom, WithSlot
<1>. QED  BY <1>1, EvictEdit

\* Eviction after an edit, as the requests do when asked to.
LEMMA EditEvict ==
  ASSUME NEW c, NEW d, NEW k \in KeyId, NEW S \in SUBSET KeyObject, Edit(c, d, k, S)
  PROVE  Edit(c, EvictFromCache(d, k), k, S)
<1>1. Edit(d, EvictFromCache(d, k), k, {})
  BY EvictEdit DEF Edit
<1>. QED  BY <1>1, EditTrans, S \union {} = S

\* A step that leaves the histories alone.
LEMMA Histories ==
  ASSUME IInv, UNCHANGED <<at, moves, released, reused, revoked, leaked>>, signing' = None
  PROVE  Quiet
BY DEF IInv, Typed, Quiet

\* A client caches a key.
LEMMA CacheKeyStep ==
  ASSUME IInv, NEW k \in KeyId, NEW kind \in ClientKinds, NEW flags \in FlagSets,
         CacheKey(k, kind, flags)
  PROVE  IInv' /\ Stems(k)
<1>. DEFINE c == cache[CacheOf(k)]
            o == NewObject(kind, flags \ ServerOnly)
            s == Holding(k, o, FALSE)
            d == WithSlot(c, k, kind, s)
<1>1. GoodCache(c) /\ kind \in Kinds /\ flags \ ServerOnly \in SUBSET Flags
  BY OwnCache, Constants
<1>2. o \in KeyObject /\ o.mat = made + 1 /\ o.kind = kind /\ made + 1 \in Material
  BY <1>1, NewObjectType DEF CacheKey
<1>3. Quiet
  BY Histories DEF CacheKey
<1>4. /\ SetCache(k, d) /\ UNCHANGED nvm
      /\ made' = IF HasRoom(c, k, kind) THEN made + 1 ELSE made
  BY DEF CacheKey
<1>5. made' \in Material /\ made' \in {made, made + 1}
  BY <1>2, <1>4, MadeNat
<1>. HIDE DEF o
<1>6. s \in SlotState /\ s.id = k /\ s.obj = o
  BY <1>2, HoldingType
<1>. HIDE DEF c, s
<1>7. CASE HasRoom(c, k, kind)
  <2>1. {o} \in SUBSET KeyObject /\ (s.id # Erased => s.id = k /\ s.obj \in {o} /\ s.obj.kind = kind)
    BY <1>2, <1>6
  <2>2. Edit(c, d, k, {o})
    BY <1>1, <1>6, <2>1, WithSlotEdit
  <2>. HIDE DEF d
  <2>. QED  BY <1>2, <1>3, <1>4, <1>5, <1>7, <2>1, <2>2, CacheStep DEF c
<1>8. CASE ~HasRoom(c, k, kind)
  <2>1. Edit(c, d, k, {})
    BY <1>1, <1>8, NoRoomEdit
  <2>. HIDE DEF d
  <2>. QED  BY <1>3, <1>4, <1>5, <2>1, LossStep DEF c
<1>. QED  BY <1>7, <1>8

\* A slot is taken and left empty.
LEMMA EmptySlotStep ==
  ASSUME IInv, NEW k \in KeyId, NEW kind \in Kinds, Quiet,
         SetCache(k, WithSlot(cache[CacheOf(k)], k, kind, Empty)), UNCHANGED <<nvm, made>>
  PROVE  IInv' /\ Stems(k)
<1>1. Edit(cache[CacheOf(k)], WithSlot(cache[CacheOf(k)], k, kind, Empty), k, {})
  BY OwnCache, EmptyType, WithSlotEdit, {} \in SUBSET KeyObject
<1>. QED  BY <1>1, MadeNat, LossStep

\* Caching fails after the slot was taken.
LEMMA CacheKeyFailsStep ==
  ASSUME IInv, NEW k \in KeyId, NEW kind \in {"small", "big"}, CacheKeyFails(k, kind)
  PROVE  IInv' /\ Stems(k)
<1>1. kind \in Kinds
  BY DEF Kinds
<1>2. Quiet
  BY Histories DEF CacheKeyFails, history
<1>. QED  BY <1>1, <1>2, EmptySlotStep DEF CacheKeyFails, history

\* Reading a key from NVM into its slot fails.
LEMMA FreshenFailsStep ==
  ASSUME IInv, NEW k \in KeyId, FreshenFails(k)
  PROVE  IInv' /\ Stems(k)
<1>1. nvm[k].kind \in Kinds
  BY ObjectType DEF FreshenFails, CanFreshen, IInv, Typed
<1>2. Quiet
  BY Histories DEF FreshenFails, history
<1>. QED  BY <1>1, <1>2, EmptySlotStep DEF FreshenFails, history

\* A key is evicted.
LEMMA EvictKeyStep ==
  ASSUME IInv, NEW k \in KeyId, EvictKey(k)
  PROVE  IInv' /\ Stems(k)
<1>1. Quiet
  BY Histories DEF EvictKey, history
<1>2. Edit(cache[CacheOf(k)], EvictFromCache(cache[CacheOf(k)], k), k, {})
  BY OwnCache, EvictEdit
<1>. QED  BY <1>1, <1>2, MadeNat, LossStep DEF EvictKey, history

\* A request that brings the key to the cache, and perhaps evicts it.
LEMMA FreshenStep ==
  ASSUME IInv, NEW k \in KeyId, CanFreshen(k), Quiet, UNCHANGED <<nvm, made>>,
         SetCache(k, Freshened(k)) \/ SetCache(k, EvictFromCache(Freshened(k), k))
  PROVE  IInv' /\ Stems(k)
<1>1. {Current(k)} \in SUBSET KeyObject /\ Edit(cache[CacheOf(k)], Freshened(k), k, {Current(k)})
  BY FreshenEdit DEF IInv
<1>2. Edit(cache[CacheOf(k)], EvictFromCache(Freshened(k), k), k, {Current(k)})
  BY <1>1, EditEvict
<1>3. \A o \in {Current(k)} : Continues(k, o)
  BY CurrentCopy, CopyContinues, FreshenEdit DEF IInv
<1>. HIDE DEF Quiet
<1>. QED  BY <1>1, <1>2, <1>3, MadeNat, CacheStep

\* A key is used.
LEMMA UseKeyStep ==
  ASSUME IInv, NEW k \in KeyId, NEW e \in BOOLEAN, UseKey(k, e)
  PROVE  IInv' /\ Stems(k)
<1>1. Quiet
  BY Histories DEF UseKey, history
<1>. QED  BY <1>1, FreshenStep DEF UseKey, history

\* What leaves the server is material that exists.
LEMMA Leaves ==
  ASSUME IInv, NEW o \in KeyObject, Leaving(o)
  PROVE  leaked' \subseteq Material
BY ObjectType DEF Leaving, IInv, Typed

\* A key is exported.
LEMMA ExportKeyStep ==
  ASSUME IInv, NEW k \in KeyId, ExportKey(k)
  PROVE  IInv' /\ Stems(k)
<1>1. Known(k)
  BY DEF ExportKey, CheckPolicy
<1>2. Current(k) \in KeyObject
  BY <1>1, CurrentCopy
<1>3. Quiet
  BY <1>2, Leaves DEF ExportKey, Quiet, IInv, Typed
<1>4. CASE CanFreshen(k)
  BY <1>3, <1>4, FreshenStep DEF ExportKey
<1>5. CASE ~CanFreshen(k)
  <2>1. nvm[k] # None /\ ~IsCached(k) /\ ~HasRoom(cache[CacheOf(k)], k, nvm[k].kind)
    BY <1>1, <1>5 DEF Known, CanFreshen
  <2>2. Edit(cache[CacheOf(k)], Freshened(k), k, {})
    BY <2>1, OwnCache, NoRoomEdit DEF Freshened
  <2>. QED  BY <1>3, <2>2, MadeNat, LossStep DEF ExportKey
<1>. QED  BY <1>4, <1>5

\* A key is committed.
LEMMA CommitKeyStep ==
  ASSUME IInv, NEW k \in KeyId, CommitKey(k)
  PROVE  IInv' /\ Stems(k)
<1>. DEFINE c == cache[CacheOf(k)]
            o == CachedObject(k)
            d == Updated(c, k, o, TRUE)
<1>1. Quiet /\ Write(k, d, o) /\ made' = made /\ Cached(c, k)
  BY Histories DEF CommitKey, history, IsCached
<1>2. o = Current(k) /\ Known(k) /\ o = c[FindInCache(c, k)].obj
  BY <1>1 DEF Known, Current, IsCached, CachedObject
<1>3. o \in KeyObject /\ Continues(k, o)
  BY <1>2, CurrentCopy, CopyContinues
<1>4. Edit(c, d, k, {o})
  <2>. HIDE DEF c, o
  <2>1. GoodCache(c)
    BY OwnCache DEF c
  <2>. QED  BY <1>1, <1>2, <1>3, <2>1, ReplaceEdit
<1>. HIDE DEF d, o
<1>5. {o} \in SUBSET KeyObject /\ o \in {o} \union {None} /\ \A p \in {o} : Continues(k, p)
  BY <1>3
<1>. QED  BY <1>1, <1>4, <1>5, MadeNat, WriteStep

\* A key is erased.
LEMMA EraseKeyStep ==
  ASSUME IInv, NEW k \in KeyId, EraseKey(k)
  PROVE  IInv' /\ Stems(k)
<1>. DEFINE c == cache[CacheOf(k)]
            d == EvictFromCache(c, k)
<1>1. Quiet /\ made' = made
  BY Histories DEF EraseKey, history
<1>2. Edit(c, d, k, {})
  BY OwnCache, EvictEdit
<1>3. (SetCache(k, d) /\ UNCHANGED nvm) \/ Write(k, d, None)
  BY DEF EraseKey
<1>. HIDE DEF d
<1>. QED  BY <1>1, <1>2, <1>3, MadeNat, LossStep

\* Revoking keeps material, kind and index.
LEMMA RevokeType ==
  ASSUME NEW o \in KeyObject
  PROVE  /\ Revoke(o) \in KeyObject /\ Revoke(o).mat = o.mat /\ Revoke(o).kind = o.kind
         /\ Revoke(o).index = o.index
         /\ SameSeal(o, Revoke(o)) /\ IsRevoked(Revoke(o))
BY DEF Revoke, KeyObject, Flags, SameSeal, IsRevoked

\* A key is revoked.
LEMMA RevokeKeyStep ==
  ASSUME IInv, NEW k \in KeyId, RevokeKey(k)
  PROVE  IInv' /\ Stems(k)
<1>. DEFINE c == cache[CacheOf(k)]
            d == Freshened(k)
            old == Current(k)
            o == Revoke(old)
<1>1. CanFreshen(k)
  BY DEF RevokeKey
<1>2. /\ old \in KeyObject /\ Known(k) /\ GoodCache(d) /\ Cached(d, k)
      /\ d[FindInCache(d, k)].obj = old /\ Edit(c, d, k, {old})
  BY <1>1, FreshenEdit DEF IInv
<1>3. Continues(k, old)
  BY <1>2, CurrentCopy, CopyContinues
<1>4. /\ o \in KeyObject /\ o.mat = old.mat /\ o.kind = old.kind /\ o.index = old.index
      /\ SameSeal(old, o) /\ IsRevoked(o)
  BY <1>2, RevokeType
<1>5. Continues(k, o)
  BY <1>3, <1>4 DEF Continues, SameSeal
<1>6. Quiet /\ made' = made
  BY DEF RevokeKey, Quiet, IInv, Typed
<1>7. \/ SetCache(k, d) /\ UNCHANGED nvm
      \/ Write(k, Updated(d, k, o, TRUE), o)
      \/ SetCache(k, InPlace(d, k, o)) /\ UNCHANGED nvm
  BY DEF RevokeKey
<1>. HIDE DEF c, d, o, old
<1>8. Edit(d, Updated(d, k, o, TRUE), k, {o}) /\ Edit(d, InPlace(d, k, o), k, {o})
  BY <1>2, <1>4, ReplaceEdit
<1>9. Edit(c, Updated(d, k, o, TRUE), k, {old, o}) /\ Edit(c, InPlace(d, k, o), k, {old, o})
  <2>1. /\ Edit(c, Updated(d, k, o, TRUE), k, {old} \union {o})
        /\ Edit(c, InPlace(d, k, o), k, {old} \union {o})
    BY <1>2, <1>8, EditTrans
  <2>2. {old} \union {o} = {old, o}
    OBVIOUS
  <2>. QED  BY <2>1, <2>2
<1>10. /\ {old, o} \in SUBSET KeyObject /\ {old} \in SUBSET KeyObject
       /\ o \in {old, o} \union {None}
       /\ \A p \in {old, o} : Continues(k, p)
  BY <1>2, <1>3, <1>4, <1>5
<1>11. CASE SetCache(k, d) /\ UNCHANGED nvm
  BY <1>2, <1>6, <1>10, <1>11, MadeNat, CacheStep DEF c
<1>12. CASE Write(k, Updated(d, k, o, TRUE), o)
  BY <1>6, <1>9, <1>10, <1>12, MadeNat, WriteStep DEF c
<1>13. CASE SetCache(k, InPlace(d, k, o)) /\ UNCHANGED nvm
  BY <1>6, <1>9, <1>10, <1>13, MadeNat, CacheStep DEF c
<1>. QED  BY <1>7, <1>11, <1>12, <1>13

\* A key with one-time signatures is made.
LEMMA StatefulKeyGenStep ==
  ASSUME IInv, NEW k \in KeyId, NEW flags \in FlagSets, StatefulKeyGen(k, flags)
  PROVE  IInv' /\ Stems(k)
<1>. DEFINE c == cache[CacheOf(k)]
            o == NewObject("stateful", (flags \ ServerOnly) \union {"nonexportable"})
            d(b) == WithSlot(c, k, "stateful", Holding(k, o, b))
<1>1. /\ GoodCache(c) /\ "stateful" \in Kinds
      /\ (flags \ ServerOnly) \union {"nonexportable"} \in SUBSET Flags
  BY OwnCache, Constants DEF Kinds, Flags
<1>2. o \in KeyObject /\ o.mat = made + 1 /\ o.kind = "stateful" /\ made + 1 \in Material
  BY <1>1, NewObjectType DEF StatefulKeyGen
<1>3. Quiet
  BY Histories DEF StatefulKeyGen
<1>4. \/ SetCache(k, EvictFromCache(c, k)) /\ UNCHANGED <<nvm, made>>
      \/ made' = made + 1 /\ Write(k, d(TRUE), o)
      \/ made' = made + 1 /\ SetCache(k, d(FALSE)) /\ UNCHANGED nvm
  BY DEF StatefulKeyGen
<1>. HIDE DEF o, c
<1>5. {o} \in SUBSET KeyObject /\ o \in {o} \union {None}
  BY <1>2
<1>6. ASSUME NEW b \in BOOLEAN PROVE Edit(c, d(b), k, {o})
  BY <1>1, <1>2, <1>5, HoldingType, WithSlotEdit
<1>7. CASE SetCache(k, EvictFromCache(c, k)) /\ UNCHANGED <<nvm, made>>
  <2>1. Edit(c, EvictFromCache(c, k), k, {})
    BY <1>1, EvictEdit
  <2>. QED  BY <1>3, <1>7, <2>1, MadeNat, LossStep DEF c
<1>8. Edit(c, d(TRUE), k, {o}) /\ Edit(c, d(FALSE), k, {o})
  BY <1>6
<1>. HIDE DEF d
<1>9. CASE made' = made + 1 /\ Write(k, d(TRUE), o)
  BY <1>2, <1>3, <1>5, <1>8, <1>9, MadeNat, WriteStep DEF c
<1>10. CASE made' = made + 1 /\ SetCache(k, d(FALSE)) /\ UNCHANGED nvm
  BY <1>2, <1>3, <1>5, <1>8, <1>10, MadeNat, CacheStep DEF c
<1>. QED  BY <1>4, <1>7, <1>9, <1>10

\* A stateful key's copy after one more signature.
LEMMA AdvancedType ==
  ASSUME NEW o \in KeyObject, o.index < MaxIndex
  PROVE  /\ Advanced(o) \in KeyObject /\ Advanced(o).mat = o.mat /\ Advanced(o).kind = o.kind
         /\ Advanced(o).index = o.index + 1 /\ Advanced(o).flags = o.flags
BY Constants DEF Advanced, KeyObject

\* The cache after the index was advanced in it.
LEMMA AdvanceEdit ==
  ASSUME IInv, NEW k \in KeyId, CanFreshen(k), Current(k).index < MaxIndex
  PROVE  LET old == Current(k)
             o == Advanced(old)
             d == InPlace(Freshened(k), k, o)
         IN /\ old \in KeyObject /\ Copy(k, old)
            /\ o \in KeyObject /\ o.mat = old.mat /\ o.kind = old.kind /\ o.index = old.index + 1
            /\ Edit(cache[CacheOf(k)], d, k, {old, o})
            /\ \A p \in KeyObject : Holds(d, k, p) => p = o
            /\ \A p \in {old, o} : Continues(k, p)
<1>. DEFINE c == cache[CacheOf(k)]
            f == Freshened(k)
            old == Current(k)
            o == Advanced(old)
            d == InPlace(f, k, o)
<1>1. /\ old \in KeyObject /\ Known(k) /\ GoodCache(f) /\ Cached(f, k)
      /\ f[FindInCache(f, k)].obj = old /\ Edit(c, f, k, {old})
  BY FreshenEdit DEF IInv
<1>2. Copy(k, old) /\ Continues(k, old)
  BY <1>1, CurrentCopy, CopyContinues
<1>3. /\ o \in KeyObject /\ o.mat = old.mat /\ o.kind = old.kind /\ o.index = old.index + 1
      /\ o.flags = old.flags
  BY <1>1, AdvancedType
<1>. HIDE DEF c, f, old, o
<1>4. Continues(k, o)
  BY <1>1, <1>2, <1>3, ObjectType DEF Continues, SameSeal, IsRevoked
<1>5. Edit(f, d, k, {o}) /\ \A p \in KeyObject : Holds(d, k, p) => p = o
  BY <1>1, <1>3, ReplaceEdit
<1>. HIDE DEF d
<1>6. Edit(c, d, k, {old, o})
  <2>1. Edit(c, d, k, {old} \union {o})
    BY <1>1, <1>5, EditTrans
  <2>2. {old} \union {o} = {old, o}
    OBVIOUS
  <2>. QED  BY <2>1, <2>2
<1>. QED  BY <1>1, <1>2, <1>3, <1>4, <1>5, <1>6 DEF c, f, old, o, d

\* Signing with such a key fails.
LEMMA SignFailsStep ==
  ASSUME IInv, NEW k \in KeyId, NEW e \in BOOLEAN, SignFails(k, e)
  PROVE  IInv' /\ Stems(k)
<1>. DEFINE c == cache[CacheOf(k)]
            old == Current(k)
            o == Advanced(old)
            d == InPlace(Freshened(k), k, o)
<1>1. CanFreshen(k) /\ old.index < MaxIndex
  BY DEF SignFails
<1>2. /\ old \in KeyObject /\ o \in KeyObject /\ Edit(c, d, k, {old, o})
      /\ \A p \in {old, o} : Continues(k, p)
  BY <1>1, AdvanceEdit
<1>3. Quiet /\ UNCHANGED <<nvm, made>>
  BY Histories DEF SignFails, history
<1>4. SetCache(k, d) \/ SetCache(k, EvictFromCache(d, k))
  BY DEF SignFails
<1>. HIDE DEF c, old, o, d
<1>5. {old, o} \in SUBSET KeyObject
  BY <1>2
<1>6. Edit(c, EvictFromCache(d, k), k, {old, o})
  BY <1>2, <1>5, EditEvict
<1>. QED  BY <1>2, <1>3, <1>4, <1>5, <1>6, MadeNat, CacheStep DEF c

\* The index is persisted: of the copies of the key in its own cache and in NVM
\* none is left that a later signature could reuse the index from, and there is
\* no other one as long as its client stays.
LEMMA SignPersistStep ==
  ASSUME IInv, NEW k \in KeyId, SignPersist(k)
  PROVE  IInv' /\ Stems(k)
<1>. DEFINE c == cache[CacheOf(k)]
            old == Current(k)
            o == Advanced(old)
            d == InPlace(Freshened(k), k, o)
<1>1. CanFreshen(k) /\ old.index < MaxIndex /\ old.kind = "stateful"
  BY DEF SignPersist
<1>2. /\ old \in KeyObject /\ o \in KeyObject /\ Edit(c, d, k, {old, o})
      /\ \A p \in {old, o} : Continues(k, p)
      /\ \A p \in KeyObject : Holds(d, k, p) => p = o
      /\ Copy(k, old) /\ o.index = old.index + 1 /\ o.mat = old.mat
  BY <1>1, AdvanceEdit
<1>3. /\ Write(k, d, o) /\ UNCHANGED <<at, history>>
      /\ signing' = [key |-> k, mat |-> old.mat, index |-> old.index]
  BY DEF SignPersist
<1>4. old.mat \in 1..made
  BY <1>1, <1>2, ObjectType, MadeNat DEF IInv, Copies, Making
<1>5. UNCHANGED <<at, made, released, reused, moves, revoked, leaked>>
  BY <1>3 DEF history
<1>6. nvm' = [nvm EXCEPT ![k] = o]
  BY <1>3 DEF Write
<1>7. cache'[CacheOf(k)] = d
  BY <1>3, OwnCache DEF Write, MarkStale, IInv, Caching, GoodCaches
<1>. HIDE DEF c, old, o, d
<1>8. {old, o} \in SUBSET KeyObject
  BY <1>2
<1>9. CachesChange(k, {old, o})
  BY <1>2, <1>3, <1>8, WriteChanges DEF IInv, c
<1>10. Derives(k, {old, o})
  <2>1. \A j \in KeyId, p \in KeyObject : InNvm(j, p)' => InNvm(j, p) \/ (j = k /\ p \in {old, o})
    BY <1>2, <1>6, Constants DEF InNvm, IInv, Typed
  <2>. QED  BY <1>2, <1>5, <1>9, <2>1, MadeNat DEF Derives
<1>11. Typed'
  <2>1. signing' \in [key: KeyId, mat: Material, index: 0..MaxIndex]
    BY <1>2, <1>3, ObjectType
  <2>2. nvm' \in [KeyId -> KeyObject \union {None}]
    BY <1>2, <1>6 DEF IInv, Typed
  <2>. QED  BY <1>5, <2>1, <2>2 DEF IInv, Typed, Material
<1>12. Copies'
  BY <1>5, <1>8, <1>10, <1>11, CopiesKept
<1>13. Caching'
  BY <1>9 DEF CachesChange, Caching
<1>14. NoIndexReuse'
  BY <1>5 DEF IInv, NoIndexReuse
<1>15. ASSUME NEW j \in KeyId, NEW p \in KeyObject, Copy(j, p)', p.mat = old.mat
       PROVE  j = k
  <2>1. Continues(j, p) \/ j = k
    BY <1>8, <1>10, <1>15, DerivedCopy
  <2>2. CASE Continues(j, p)
    <3>1. PICK q \in KeyObject : Copy(j, q) /\ q.mat = p.mat
      BY <2>2 DEF Continues
    <3>. QED  BY <1>2, <1>4, <1>15, <3>1, MadeNat, ObjectType DEF IInv, Copies, OneOwner
  <2>. QED  BY <2>1, <2>2
<1>16. ASSUME Settled(k), NEW p \in KeyObject, Copy(k, p)'
       PROVE  p = o
  <2>1. CASE InNvm(k, p)'
    BY <1>2, <1>6, <2>1 DEF InNvm, IInv, Typed
  <2>2. CASE ~InNvm(k, p)'
    <3>1. PICK x \in Caches : Holds(cache'[x], k, p)
      BY <1>16, <2>2 DEF Copy, Holds, Caches
    <3>2. x = CacheOf(k)
      BY <3>1, <1>9, <1>16 DEF CachesChange, IInv, Copies, AtHome
    <3>. QED  BY <1>2, <1>7, <3>1, <3>2
  <2>. QED  BY <2>1, <2>2
<1>17. OnItsWay'
  <2>1. Settled(k)' <=> Settled(k)
    BY <1>5 DEF Settled
  <2>2. /\ signing'.key = k /\ signing'.mat = old.mat /\ signing'.index = old.index
        /\ old.mat \in 1..made'
    BY <1>3, <1>4, <1>5
  <2>3. Settled(k) => old.index >= released'[old.mat]
    BY <1>2, <1>5 DEF IInv, Copies, Fresh
  <2>4. \A j \in KeyId, p \in KeyObject : Copy(j, p)' /\ p.mat = old.mat => j = k
    BY <1>15
  <2>5. \A p \in KeyObject : Settled(k) /\ Copy(k, p)' => p.index > old.index
    BY <1>2, <1>16, ObjectType
  <2>6. (Settled(signing.key))' <=> Settled(k)'
    BY <2>2 DEF Settled
  <2>7. \A p \in KeyObject : (Copy(signing.key, p))' <=> Copy(k, p)'
    BY <2>2 DEF Copy, InNvm, Holds
  <2>. QED  BY <2>1, <2>2, <2>3, <2>4, <2>5, <2>6, <2>7 DEF OnItsWay
<1>18. Stems(k)
  BY <1>8, <1>10, DerivedCopy DEF Stems
<1>. QED  BY <1>11, <1>12, <1>13, <1>14, <1>17, <1>18 DEF IInv

\* The signature leaves: its index is now the last one released.
LEMMA SignReleaseStep ==
  ASSUME IInv, NEW e \in BOOLEAN, SignRelease(e)
  PROVE  IInv' /\ NoNewCopies
<1>. DEFINE k == signing.key
            m == signing.mat
            n == signing.index
            c == cache[CacheOf(k)]
<1>1. k \in KeyId /\ m \in Material /\ n \in 0..MaxIndex /\ n \in Nat /\ signing # None
  BY Constants DEF SignRelease, IInv, Typed
<1>2. /\ m \in 1..made
      /\ \A j \in KeyId, o \in KeyObject : Copy(j, o) /\ o.mat = m => j = k
      /\ Settled(k) => /\ n >= released[m]
                       /\ \A o \in KeyObject : Copy(k, o) /\ o.mat = m => o.index > n
  BY <1>1 DEF IInv, OnItsWay
<1>3. /\ reused' = (reused \/ n < released[m])
      /\ released' = [released EXCEPT ![m] = n + 1]
      /\ signing' = None
      /\ UNCHANGED <<nvm, at, made, moves, revoked, leaked>>
      /\ SetCache(k, IF e THEN EvictFromCache(c, k) ELSE c)
  BY DEF SignRelease
<1>4. Edit(c, c, k, {}) /\ Edit(c, EvictFromCache(c, k), k, {})
  BY <1>1, OwnCache, EvictEdit DEF Edit
<1>5. CachesChange(k, {})
  BY <1>1, <1>3, <1>4, SetCacheChanges, {} \in SUBSET KeyObject DEF IInv
<1>. HIDE DEF c, k, m, n
<1>6. \A j \in KeyId, o \in KeyObject : Copy(j, o)' => Copy(j, o)
  BY <1>3, <1>5 DEF CachesChange, Copy, InNvm, Holds, Caches
<1>7. Typed'
  <2>1. released' \in [Material -> 0..(MaxIndex + 1)]
    BY <1>1, <1>3, Constants DEF IInv, Typed
  <2>. QED  BY <1>3, <2>1 DEF IInv, Typed, Material
<1>8. \A j \in KeyId : (Settled(j) <=> Settled(j)') /\ CacheOf(j)' = CacheOf(j)
  BY <1>3 DEF Settled, CacheOf
<1>9. AtHome'
  <2>1. SUFFICES ASSUME NEW j \in KeyId, NEW x \in Caches, NEW o \in KeyObject,
                        Settled(j), Holds(cache'[x], j, o)
                 PROVE  x = CacheOf(j)
    BY <1>8 DEF AtHome, Holds, Caches
  <2>. QED  BY <2>1, <1>5 DEF CachesChange, IInv, Copies, AtHome
<1>10. Making'
  <2>1. \A p \in Material : p > made => released'[p] = 0
    BY <1>2, <1>3, MadeNat DEF IInv, Typed, Copies, Making
  <2>. QED  BY <1>3, <1>6, <2>1 DEF IInv, Copies, Making, Material
<1>11. OneOwner'
  BY <1>6 DEF IInv, Copies, OneOwner
<1>12. Fresh'
  <2>1. SUFFICES ASSUME NEW j \in KeyId, NEW o \in KeyObject, Settled(j), Copy(j, o)
                 PROVE  o.index >= released'[o.mat]
    BY <1>6, <1>8 DEF Fresh
  <2>2. CASE o.mat = m
    BY <1>1, <1>2, <1>3, <2>1, <2>2, ObjectType DEF IInv, Typed
  <2>3. CASE o.mat # m
    BY <1>3, <2>1, <2>3, ObjectType DEF IInv, Typed, Copies, Fresh
  <2>. QED  BY <2>2, <2>3
<1>13. NoIndexReuse'
  <2>1. CASE Settled(k)
    <3>1. ~(n < released[m])
      BY <1>1, <1>2, <2>1, Constants DEF IInv, Typed
    <3>. QED  BY <1>3, <3>1 DEF IInv, Typed, NoIndexReuse
  <2>2. CASE ~Settled(k)
    <3>1. PICK d \in Client : moves[d] # 0
      BY <2>2 DEF Settled
    <3>2. moves[d] > 0
      BY <3>1, Constants DEF IInv, Typed
    <3>. QED  BY <1>3, <3>2 DEF NoIndexReuse
  <2>. QED  BY <2>1, <2>2
<1>14. Caching' /\ OnItsWay'
  BY <1>3, <1>5 DEF CachesChange, Caching, OnItsWay
<1>15. Sealing'
  BY <1>6 DEF IInv, Copies, Sealing
<1>. QED  BY <1>6, <1>7, <1>9, <1>10, <1>11, <1>12, <1>13, <1>14, <1>15 DEF IInv, Copies, NoNewCopies

\* A client writes the object of a key through NVM.
LEMMA NvmAddObjectStep ==
  ASSUME IInv, NEW k \in KeyId, NEW kind \in ClientKinds, NEW flags \in FlagSets,
         NvmAddObject(k, kind, flags)
  PROVE  IInv' /\ Stems(k)
<1>. DEFINE o == NewObject(kind, flags \ ServerOnly)
<1>1. kind \in Kinds /\ flags \ ServerOnly \in SUBSET Flags
  BY Constants
<1>2. o \in KeyObject /\ o.mat = made + 1 /\ made + 1 \in Material
  BY <1>1, NewObjectType DEF NvmAddObject
<1>3. Quiet
  BY Histories DEF NvmAddObject
<1>4. nvm' = [nvm EXCEPT ![k] = o] /\ cache' = MarkStale(cache, k, None) /\ made' = made + 1
  BY DEF NvmAddObject
<1>. HIDE DEF o
<1>5. {o} \in SUBSET KeyObject /\ o \in {o} \union {None}
  BY <1>2
<1>. QED  BY <1>2, <1>3, <1>4, <1>5, NvmStep

\* A client destroys it there.
LEMMA NvmDestroyObjectsStep ==
  ASSUME IInv, NEW k \in KeyId, NvmDestroyObjects(k)
  PROVE  IInv' /\ Stems(k)
<1>. DEFINE S == {}
<1>1. Quiet /\ made' = made
  BY Histories DEF NvmDestroyObjects, history
<1>2. nvm' = [nvm EXCEPT ![k] = None] /\ cache' = MarkStale(cache, k, None)
  BY DEF NvmDestroyObjects
<1>3. S \in SUBSET KeyObject /\ None \in S \union {None} /\ \A p \in S : S = {p} /\ p.mat = made + 1 /\ made' = made + 1
  OBVIOUS
<1>. HIDE DEF S
<1>. QED  BY <1>1, <1>2, <1>3, MadeNat, NvmStep

\* Steps that change no copy, at most lose some, and move no client.
LEMMA SameCopies ==
  ASSUME IInv, Typed', GoodCaches(cache'), UNCHANGED <<nvm, at, made, moves, released, reused>>,
         signing' = None,
         \A x \in Caches, j \in KeyId, o \in KeyObject : Holds(cache'[x], j, o) => Holds(cache[x], j, o)
  PROVE  IInv' /\ NoNewCopies
<1>1. \A j \in KeyId, o \in KeyObject : Copy(j, o)' => Copy(j, o)
  BY DEF Copy, InNvm, Holds, Caches
<1>2. \A j \in KeyId : (Settled(j) <=> Settled(j)') /\ CacheOf(j)' = CacheOf(j)
  BY DEF Settled, CacheOf
<1>3. AtHome'
  <2>1. SUFFICES ASSUME NEW j \in KeyId, NEW x \in Caches, NEW o \in KeyObject,
                        Settled(j), Holds(cache'[x], j, o)
                 PROVE  x = CacheOf(j)
    BY <1>2 DEF AtHome, Holds, Caches
  <2>. QED  BY <2>1 DEF IInv, Copies, AtHome
<1>4. Making' /\ OneOwner' /\ Sealing'
  BY <1>1 DEF IInv, Copies, Making, OneOwner, Sealing, Material
<1>5. Fresh'
  BY <1>1, <1>2 DEF IInv, Copies, Fresh
<1>6. Caching' /\ OnItsWay' /\ NoIndexReuse'
  BY DEF Caching, OnItsWay, IInv, NoIndexReuse
<1>. QED  BY <1>1, <1>3, <1>4, <1>5, <1>6 DEF IInv, Copies, NoNewCopies

\* A client reads it there.
LEMMA NvmReadStep ==
  ASSUME IInv, NEW k \in KeyId, NvmRead(k)
  PROVE  IInv' /\ NoNewCopies
<1>1. nvm[k] \in KeyObject
  BY DEF NvmRead, IInv, Typed
<1>2. leaked' \subseteq Material
  BY <1>1, Leaves DEF NvmRead
<1>3. UNCHANGED <<cache, nvm, at, signing, made, released, reused, moves, revoked>> /\ signing = None
  BY DEF NvmRead
<1>4. Typed' /\ GoodCaches(cache')
  BY <1>2, <1>3 DEF IInv, Typed, Caching, Material
<1>. QED  BY <1>3, <1>4, SameCopies

\* An empty cache is well formed and holds nothing.
LEMMA EmptyCache ==
  /\ GoodCache([i \in Slot |-> Empty])
  /\ \A k \in KeyId : \A o : ~Holds([i \in Slot |-> Empty], k, o)
<1>1. [i \in Slot |-> Empty] \in [Slot -> SlotState]
  BY EmptyType
<1>2. \A i \in Slot : [j \in Slot |-> Empty][i].id = Erased
  BY EmptyType
<1>. QED  BY <1>1, <1>2, Constants DEF GoodCache, Holds

\* A server starts.
LEMMA ServerInitStep ==
  ASSUME IInv, NEW s \in Server, ServerInit(s)
  PROVE  IInv' /\ NoNewCopies
<1>1. cache' = [cache EXCEPT ![s] = [i \in Slot |-> Empty]] /\ s \in Caches
  BY DEF ServerInit, Caches
<1>2. cache'[s] = [i \in Slot |-> Empty] /\ \A x \in Caches \ {s} : cache'[x] = cache[x]
  BY <1>1 DEF IInv, Caching, GoodCaches
<1>3. GoodCaches(cache')
  <2>1. cache' \in [Caches -> [Slot -> SlotState]]
    BY <1>1, EmptyCache DEF IInv, Caching, GoodCaches, GoodCache
  <2>. QED  BY <1>2, <2>1, EmptyCache DEF IInv, Caching, GoodCaches
<1>4. \A x \in Caches, j \in KeyId, o \in KeyObject : Holds(cache'[x], j, o) => Holds(cache[x], j, o)
  BY <1>2, EmptyCache
<1>5. UNCHANGED <<nvm, at, signing, made, released, reused, moves, revoked, leaked>> /\ signing = None
  BY DEF ServerInit, history
<1>6. Typed'
  BY <1>5 DEF IInv, Typed, Material
<1>. QED  BY <1>3, <1>4, <1>5, <1>6, SameCopies

\* Power is lost.
LEMMA ResetStep ==
  ASSUME IInv, Reset
  PROVE  IInv' /\ NoNewCopies
<1>1. cache' = [x \in Caches |-> [i \in Slot |-> Empty]]
  BY DEF Reset
<1>2. GoodCaches(cache')
  BY <1>1, EmptyCache DEF GoodCaches, GoodCache
<1>3. \A x \in Caches, j \in KeyId, o \in KeyObject : Holds(cache'[x], j, o) => Holds(cache[x], j, o)
  BY <1>1, EmptyCache
<1>4. UNCHANGED <<nvm, at, made, released, reused, moves, revoked, leaked>> /\ signing' = None
  BY DEF Reset, history
<1>5. Typed'
  BY <1>4 DEF IInv, Typed, Material
<1>. QED  BY <1>2, <1>3, <1>4, <1>5, SameCopies

\* A client moves: from now on nothing is promised for its keys, and the keys
\* of the others stay where they are.
LEMMA ConnectStep ==
  ASSUME IInv, NEW c \in Client, NEW s \in Server, Connect(c, s)
  PROVE  IInv' /\ NoNewCopies
<1>1. /\ at' = [at EXCEPT ![c] = s] /\ moves' = [moves EXCEPT ![c] = @ + 1]
      /\ moves[c] < MaxMoves /\ signing = None
      /\ UNCHANGED <<cache, nvm, signing, made, released, reused, revoked, leaked>>
  BY DEF Connect, storage
<1>2. moves \in [Client -> Nat] /\ at \in [Client -> Server]
  BY Constants DEF IInv, Typed
<1>3. Typed'
  <2>1. moves' \in [Client -> 0..MaxMoves]
    BY <1>1, <1>2, Constants DEF IInv, Typed
  <2>. QED  BY <1>1, <2>1 DEF IInv, Typed, Material
<1>4. ASSUME NEW k \in KeyId, Settled(k)'
      PROVE  Settled(k) /\ CacheOf(k)' = CacheOf(k)
  <2>1. CASE Owner[k] \in Client
    <3>1. moves'[Owner[k]] = 0
      BY <1>4, <2>1 DEF Settled
    <3>2. Owner[k] # c
      BY <1>1, <1>2, <2>1, <3>1
    <3>. QED  BY <1>1, <1>2, <2>1, <3>1, <3>2, Constants DEF Settled, CacheOf
  <2>2. CASE Owner[k] \notin Client
    BY <2>2, Constants DEF Settled, CacheOf
  <2>. QED  BY <2>1, <2>2
<1>5. \A k \in KeyId, o \in KeyObject : Copy(k, o)' <=> Copy(k, o)
  BY <1>1 DEF Copy, InNvm, Holds, Caches
<1>6. AtHome'
  <2>1. SUFFICES ASSUME NEW j \in KeyId, NEW x \in Caches, NEW o \in KeyObject,
                        Settled(j)', Holds(cache[x], j, o)
                 PROVE  x = CacheOf(j)'
    BY <1>1 DEF AtHome, Holds, Caches
  <2>. QED  BY <2>1, <1>4 DEF IInv, Copies, AtHome
<1>7. Making' /\ OneOwner' /\ Sealing'
  BY <1>1, <1>5 DEF IInv, Copies, Making, OneOwner, Sealing, Material
<1>8. Fresh'
  BY <1>1, <1>4, <1>5 DEF IInv, Copies, Fresh
<1>9. NoIndexReuse'
  <2>1. SUFFICES ASSUME reused PROVE \E d \in Client : moves'[d] > 0
    BY <1>1 DEF NoIndexReuse
  <2>2. moves'[c] > 0
    BY <1>1, <1>2
  <2>. QED  BY <2>2
<1>10. Caching' /\ OnItsWay'
  <2>1. Caching'
    BY <1>1 DEF IInv, Caching
  <2>2. OnItsWay'
    BY <1>1 DEF OnItsWay
  <2>. QED  BY <2>1, <2>2
<1>. QED  BY <1>3, <1>5, <1>6, <1>7, <1>8, <1>9, <1>10 DEF IInv, Copies, NoNewCopies
-----------------------------------------------------------------------------
(* The theorems.                                                           *)

\* The invariant holds at first.
LEMMA InitInv == ASSUME Init PROVE IInv
<1>. DEFINE o0 == [mat |-> 0, kind |-> "small", index |-> 0,
                   flags |-> {"trusted", "nonexportable", "usage"}]
<1>1. o0 \in KeyObject /\ o0.mat = 0 /\ o0.kind = "small" /\ o0.index = 0
  BY Constants DEF KeyObject, Material, Kinds, Flags
<1>2. /\ nvm = [k \in KeyId |-> IF k \in TrustedIds THEN o0 ELSE None]
      /\ cache = [x \in Caches |-> [i \in Slot |-> Empty]]
      /\ at \in [Client -> Server] /\ signing = None /\ made = 0
      /\ released = [m \in Material |-> 0] /\ reused = FALSE
      /\ moves = [c \in Client |-> 0] /\ revoked = {} /\ leaked = {}
  BY DEF Init
<1>. HIDE DEF o0
<1>3. Typed
  <2>1. nvm \in [KeyId -> KeyObject \union {None}]
    BY <1>1, <1>2
  <2>2. /\ signing \in [key: KeyId, mat: Material, index: 0..MaxIndex] \union {None}
        /\ reused \in BOOLEAN /\ revoked \subseteq KeyId /\ leaked \subseteq Material
    BY <1>2
  <2>3. /\ made \in Material /\ released \in [Material -> 0..(MaxIndex + 1)]
        /\ moves \in [Client -> 0..MaxMoves]
    BY <1>2, Constants DEF Material
  <2>. QED  BY <1>2, <2>1, <2>2, <2>3 DEF Typed
<1>4. Caching
  BY <1>2, EmptyCache DEF Caching, GoodCaches, GoodCache
<1>5. \A k \in KeyId, o \in KeyObject : Copy(k, o) => o = o0
  BY <1>2, EmptyCache DEF Copy, InNvm
<1>6. AtHome
  BY <1>2, EmptyCache DEF AtHome
<1>7. Making /\ OneOwner /\ Fresh /\ Sealing
  <2>1. \A m \in Material : released[m] = 0 /\ 0 \in Material
    BY <1>2, Constants DEF Material
  <2>2. Making
    BY <1>1, <1>2, <1>5, <2>1 DEF Making
  <2>3. OneOwner
    BY <1>1, <1>5 DEF OneOwner
  <2>4. Fresh
    BY <1>1, <1>5, <2>1, ObjectType DEF Fresh
  <2>5. Sealing
    BY <1>5 DEF Sealing, SameSeal
  <2>. QED  BY <2>2, <2>3, <2>4, <2>5
<1>8. OnItsWay /\ NoIndexReuse
  BY <1>2 DEF OnItsWay, NoIndexReuse
<1>. QED  BY <1>3, <1>4, <1>6, <1>7, <1>8 DEF IInv, Copies

\* It depends on the variables only.
LEMMA StutterInv == ASSUME IInv, UNCHANGED vars PROVE IInv'
<1>1. UNCHANGED <<cache, nvm, at, signing, made, released, reused, moves, revoked, leaked>>
  BY DEF vars
<1>2. Typed' /\ GoodCaches(cache')
  BY <1>1 DEF IInv, Typed, Caching, Material
<1>3. \A k, o : Copy(k, o)' <=> Copy(k, o)
  BY <1>1 DEF Copy, InNvm, Holds
<1>4. \A k : (Settled(k)' <=> Settled(k)) /\ CacheOf(k)' = CacheOf(k)
  BY <1>1 DEF Settled, CacheOf
<1>5. AtHome'
  <2>1. \A x, k, o : Holds(cache[x], k, o)' <=> Holds(cache[x], k, o)
    BY <1>1 DEF Holds
  <2>. QED  BY <1>4, <2>1 DEF IInv, Copies, AtHome
<1>6. Making' /\ OneOwner' /\ Fresh' /\ Sealing'
  BY <1>1, <1>3, <1>4 DEF IInv, Copies, Making, OneOwner, Fresh, Sealing
<1>7. OnItsWay'
  <2>1. \A o : Copy(signing.key, o)' <=> Copy(signing.key, o)
    BY <1>1 DEF Copy, InNvm, Holds
  <2>2. Settled(signing.key)' <=> Settled(signing.key)
    BY <1>1 DEF Settled
  <2>. QED  BY <1>1, <1>3, <2>1, <2>2 DEF IInv, OnItsWay
<1>8. NoIndexReuse' /\ Caching'
  BY <1>1, <1>2 DEF IInv, NoIndexReuse, Caching
<1>. QED  BY <1>2, <1>5, <1>6, <1>7, <1>8 DEF IInv, Copies

\* Every step keeps it.
LEMMA NextInv == ASSUME IInv, [Next]_vars PROVE IInv'
<1>1. ASSUME NEW k \in KeyId, KeyRequest(k) PROVE IInv'
  <2>1. ASSUME NEW kind \in ClientKinds, NEW f \in FlagSets, CacheKey(k, kind, f) PROVE IInv'
    BY <2>1, CacheKeyStep
  <2>2. ASSUME NEW kind \in {"small", "big"}, CacheKeyFails(k, kind) PROVE IInv'
    BY <2>2, CacheKeyFailsStep
  <2>3. ASSUME NEW e \in BOOLEAN, UseKey(k, e) PROVE IInv'
    BY <2>3, UseKeyStep
  <2>4. CASE EvictKey(k)
    BY <2>4, EvictKeyStep
  <2>5. CASE ExportKey(k)
    BY <2>5, ExportKeyStep
  <2>6. CASE FreshenFails(k)
    BY <2>6, FreshenFailsStep
  <2>7. CASE CommitKey(k)
    BY <2>7, CommitKeyStep
  <2>8. CASE EraseKey(k)
    BY <2>8, EraseKeyStep
  <2>9. CASE RevokeKey(k)
    BY <2>9, RevokeKeyStep
  <2>. QED  BY <1>1, <2>1, <2>2, <2>3, <2>4, <2>5, <2>6, <2>7, <2>8, <2>9 DEF KeyRequest
<1>2. ASSUME NEW k \in KeyId, StatefulRequest(k) PROVE IInv'
  BY <1>2, StatefulKeyGenStep, SignPersistStep, SignFailsStep DEF StatefulRequest
<1>3. ASSUME NEW k \in KeyId, NvmRequest(k) PROVE IInv'
  BY <1>3, NvmAddObjectStep, NvmDestroyObjectsStep, NvmReadStep DEF NvmRequest
<1>4. ASSUME NEW e \in BOOLEAN, SignRelease(e) PROVE IInv'
  BY <1>4, SignReleaseStep
<1>5. ASSUME NEW c \in Client, NEW s \in Server, Connect(c, s) PROVE IInv'
  BY <1>5, ConnectStep
<1>6. ASSUME NEW s \in Server, ServerInit(s) PROVE IInv'
  BY <1>6, ServerInitStep
<1>7. CASE Reset
  BY <1>7, ResetStep
<1>8. CASE UNCHANGED vars
  BY <1>8, StutterInv
<1>. QED  BY <1>1, <1>2, <1>3, <1>4, <1>5, <1>6, <1>7, <1>8 DEF Next

\* The invariant holds in every behaviour of the key store.
THEOREM Invariant == Spec => []IInv
<1>1. Init => IInv
  BY InitInv
<1>2. IInv /\ [Next]_vars => IInv'
  BY NextInv
<1>. QED  BY <1>1, <1>2, PTL DEF Spec

\* For any number of slots, keys and server contexts the state is well typed,
\* and a big key is never put in a small slot, whose buffer it would overrun.
THEOREM TypeCorrect == Spec => []TypeOK
<1>1. IInv => TypeOK
  BY DEF IInv, Typed, Caching, GoodCaches, GoodCache, TypeOK
<1>. QED  BY <1>1, Invariant, PTL

\* However the requests to evict, replace, freshen and revoke follow each other,
\* a key is in one slot of a cache at most.
THEOREM OneCopyHolds == Spec => []OneCopy
<1>1. IInv => OneCopy
  BY DEF IInv, Caching, GoodCaches, GoodCache, OneCopy
<1>. QED  BY <1>1, Invariant, PTL

\* Every copy of a key that a later signature may start from is past all the
\* released indices, as long as its client stays with its server context.
THEOREM CopiesStayFresh == Spec => []CopiesAreFresh
<1>1. IInv => CopiesAreFresh
  <2>1. SUFFICES ASSUME IInv, NEW k \in KeyId, Settled(k)
                 PROVE  /\ nvm[k] # None => nvm[k].index >= released[nvm[k].mat]
                        /\ \A x \in Caches, i \in Slot :
                             cache[x][i].id = k =>
                               cache[x][i].obj.index >= released[cache[x][i].obj.mat]
    BY DEF CopiesAreFresh
  <2>2. ASSUME nvm[k] # None PROVE nvm[k].index >= released[nvm[k].mat]
    <3>1. nvm[k] \in KeyObject /\ Copy(k, nvm[k])
      BY <2>1, <2>2 DEF IInv, Typed, Copy, InNvm
    <3>. QED  BY <2>1, <3>1 DEF IInv, Copies, Fresh
  <2>3. ASSUME NEW x \in Caches, NEW i \in Slot, cache[x][i].id = k
        PROVE  cache[x][i].obj.index >= released[cache[x][i].obj.mat]
    <3>1. GoodCache(cache[x])
      BY <2>1 DEF IInv, Caching, GoodCaches
    <3>2. cache[x][i].obj \in KeyObject
      BY <2>3, <3>1, Constants DEF GoodCache, SlotState
    <3>3. Copy(k, cache[x][i].obj)
      BY <2>3 DEF Copy, Holds
    <3>. QED  BY <2>1, <3>2, <3>3 DEF IInv, Copies, Fresh
  <2>. QED  BY <2>2, <2>3
<1>. QED  BY <1>1, Invariant, PTL

\* Whatever fails and whenever the power is lost, no signature leaves the server
\* for an index that was signed with before, unless a client has moved.
THEOREM NoReuse == Spec => []NoIndexReuse
<1>1. IInv => NoIndexReuse
  BY DEF IInv
<1>. QED  BY <1>1, Invariant, PTL
-----------------------------------------------------------------------------
(* Sealed material and revoked keys.                                       *)

\* An object that may leave the server shares its material with none that
\* may not.
LEMMA LeavesOpen ==
  ASSUME IInv, NEW k \in KeyId, NEW o \in KeyObject, Copy(k, o),
         "nonexportable" \notin o.flags, Leaving(o)
  PROVE  leaked' = leaked
<1>1. ASSUME NEW j \in KeyId, NEW p \in KeyObject, Copy(j, p), p.mat = o.mat
      PROVE  "nonexportable" \notin p.flags
  BY <1>1 DEF IInv, Copies, Sealing, SameSeal
<1>2. ASSUME NEW j \in KeyId, nvm[j] # None, nvm[j].mat = o.mat
      PROVE  "nonexportable" \notin nvm[j].flags
  <2>1. nvm[j] \in KeyObject /\ Copy(j, nvm[j])
    BY <1>2 DEF IInv, Typed, Copy, InNvm
  <2>. QED  BY <1>1, <1>2, <2>1
<1>3. ASSUME NEW x \in Caches, NEW i \in Slot, cache[x][i].id # Erased, cache[x][i].obj.mat = o.mat
      PROVE  "nonexportable" \notin cache[x][i].obj.flags
  <2>1. GoodCache(cache[x])
    BY DEF IInv, Caching, GoodCaches
  <2>2. cache[x][i].id \in KeyId /\ cache[x][i].obj \in KeyObject
    BY <1>3, <2>1, Constants DEF GoodCache, SlotState
  <2>3. Copy(cache[x][i].id, cache[x][i].obj)
    BY DEF Copy, Holds
  <2>. QED  BY <1>1, <1>3, <2>2, <2>3
<1>4. ~Sealed(o.mat)
  BY <1>2, <1>3 DEF Sealed, Stored
<1>. QED  BY <1>4 DEF Leaving

\* No request of any client, whatever copies it finds where, sends out material
\* that is marked as not exportable anywhere in the server.
THEOREM SealedStays == Spec => []SealedStaysInside
<1>1. Init => SealedStaysInside
  BY DEF Init, SealedStaysInside
<1>2. ASSUME IInv, SealedStaysInside, [Next]_vars PROVE SealedStaysInside'
  <2>1. ASSUME NEW k \in KeyId, ExportKey(k) PROVE leaked' = leaked
    <3>1. Known(k) /\ "nonexportable" \notin Current(k).flags /\ Leaving(Current(k))
      BY <2>1 DEF ExportKey, CheckPolicy
    <3>. QED  BY <1>2, <3>1, CurrentCopy, LeavesOpen
  <2>2. ASSUME NEW k \in KeyId, NvmRead(k) PROVE leaked' = leaked
    <3>1. nvm[k] # None /\ "nonexportable" \notin nvm[k].flags /\ Leaving(nvm[k])
      BY <2>2 DEF NvmRead, NvmPolicy
    <3>2. nvm[k] \in KeyObject /\ Copy(k, nvm[k])
      BY <1>2, <3>1 DEF IInv, Typed, Copy, InNvm
    <3>. QED  BY <1>2, <3>1, <3>2, LeavesOpen
  <2>3. ASSUME NEW k \in KeyId, KeyRequest(k) PROVE leaked' = leaked
    BY <2>1, <2>3 DEF KeyRequest, CacheKey, CacheKeyFails, EvictKey, UseKey, FreshenFails,
      CommitKey, EraseKey, RevokeKey, history
  <2>4. ASSUME NEW k \in KeyId, StatefulRequest(k) PROVE leaked' = leaked
    BY <2>4 DEF StatefulRequest, StatefulKeyGen, SignPersist, SignFails, history
  <2>5. ASSUME NEW k \in KeyId, NvmRequest(k) PROVE leaked' = leaked
    BY <2>2, <2>5 DEF NvmRequest, NvmAddObject, NvmDestroyObjects, history
  <2>6. ASSUME Next PROVE leaked' = leaked
    BY <2>3, <2>4, <2>5, <2>6 DEF Next, SignRelease, Connect, ServerInit, Reset, history
  <2>7. ASSUME UNCHANGED vars PROVE leaked' = leaked
    BY <2>7 DEF vars
  <2>. QED  BY <1>2, <2>6, <2>7 DEF SealedStaysInside
<1>. QED  BY <1>1, <1>2, Invariant, PTL DEF Spec

\* What makes a revocation last: the object in NVM and every copy of it show it.
Final ==
  \A k \in revoked : Settled(k) =>
    /\ nvm[k] # None
    /\ \A o \in KeyObject : Copy(k, o) => IsRevoked(o)

\* Such a key is neither replaced nor destroyed.
LEMMA NotTaken ==
  ASSUME IInv, Final, NEW k \in revoked, Settled(k)
  PROVE  /\ k \in KeyId /\ nvm[k] # None /\ Known(k) /\ IsRevoked(Current(k))
         /\ ~MayCache(k) /\ ~NvmPolicy("add", k) /\ ~NvmPolicy("destroy", k)
<1>1. k \in KeyId /\ nvm[k] # None /\ Known(k)
  BY DEF IInv, Typed, Final, Known
<1>2. IsRevoked(Current(k))
  BY <1>1, CurrentCopy DEF Final
<1>3. nvm[k] \in KeyObject /\ Copy(k, nvm[k])
  BY <1>1 DEF IInv, Typed, Copy, InNvm
<1>4. IsRevoked(nvm[k])
  BY <1>3 DEF Final
<1>. QED  BY <1>1, <1>2, <1>4 DEF MayCache, CheckPolicy, NvmPolicy, IsRevoked

\* A step that replaces and destroys no such key keeps its revocation.
LEMMA FinalKept ==
  ASSUME IInv, IInv', Final, revoked' = revoked,
         \A k \in KeyId : Settled(k)' => Settled(k),
         NoNewCopies \/ \E j \in KeyId : Stems(j) /\ (made' = made + 1 => j \notin revoked \/ ~Settled(j)),
         \A k \in revoked : Settled(k) => nvm'[k] # None
  PROVE  Final'
<1>1. SUFFICES ASSUME NEW k \in revoked, Settled(k)
               PROVE  /\ nvm'[k] # None
                      /\ \A o \in KeyObject : Copy(k, o)' => IsRevoked(o)
  BY DEF Final, IInv, Typed
<1>2. k \in KeyId
  BY DEF IInv, Typed
<1>3. ASSUME NEW o \in KeyObject, Copy(k, o)' PROVE IsRevoked(o)
  <2>1. Copy(k, o) \/ Continues(k, o)
    BY <1>1, <1>2, <1>3 DEF NoNewCopies, Stems
  <2>. QED  BY <1>1, <2>1 DEF Final, Continues
<1>. QED  BY <1>1, <1>3

\* The revocation itself: RevokeKey writes NVM first and then the copy in the
\* key's own cache, and a settled key has no other copy.
LEMMA RevokeFinal ==
  ASSUME IInv, IInv', Final, NEW k \in KeyId, RevokeKey(k), Stems(k)
  PROVE  Final'
<1>. DEFINE d == Freshened(k)
            old == Current(k)
            o == Revoke(old)
            c == Updated(d, k, o, TRUE)
<1>0. /\ CanFreshen(k)
      /\ UNCHANGED <<at, signing, made, released, reused, moves, leaked>>
  BY DEF RevokeKey
<1>1. \A j \in KeyId : (Settled(j)' <=> Settled(j)) /\ CacheOf(j)' = CacheOf(j)
  BY <1>0 DEF Settled, CacheOf
<1>2. made' # made + 1
  BY <1>0, MadeNat
<1>3. CASE revoked' = revoked /\ UNCHANGED nvm
  BY <1>1, <1>2, <1>3, FinalKept DEF Final
<1>4. CASE Write(k, c, o) /\ revoked' = revoked \union {k}
  <2>1. /\ old \in KeyObject /\ GoodCache(d) /\ Cached(d, k)
        /\ d[FindInCache(d, k)].obj = old
        /\ Edit(cache[CacheOf(k)], d, k, {old})
    BY <1>0, FreshenEdit DEF IInv
  <2>2. o \in KeyObject /\ o.kind = old.kind /\ IsRevoked(o)
    BY <2>1, RevokeType
  <2>. HIDE DEF d, old, o
  <2>3. \A p \in KeyObject : Holds(c, k, p) => p = o
    BY <2>1, <2>2, ReplaceEdit
  <2>. HIDE DEF c
  <2>4. /\ nvm' = [nvm EXCEPT ![k] = o]
        /\ cache' = MarkStale([cache EXCEPT ![CacheOf(k)] = c], k, CacheOf(k))
    BY <1>4 DEF Write
  <2>5. cache'[CacheOf(k)] = c
    BY <2>4, OwnCache DEF MarkStale, IInv, Caching, GoodCaches
  <2>6. nvm'[k] = o /\ o # None /\ \A j \in KeyId \ {k} : nvm'[j] = nvm[j]
    BY <2>2, <2>4, Constants DEF IInv, Typed
  <2>7. ASSUME Settled(k), NEW p \in KeyObject, Copy(k, p)' PROVE p = o
    <3>1. CASE InNvm(k, p)'
      BY <2>6, <3>1 DEF InNvm
    <3>2. CASE ~InNvm(k, p)'
      <4>1. PICK x \in Caches : Holds(cache'[x], k, p)
        BY <2>7, <3>2 DEF Copy, Holds, Caches
      <4>2. x = CacheOf(k)'
        BY <1>1, <2>7, <4>1 DEF IInv, Copies, AtHome, Holds
      <4>. QED  BY <1>1, <2>3, <2>5, <4>1, <4>2
    <3>. QED  BY <3>1, <3>2
  <2>8. ASSUME NEW j \in revoked, j # k, Settled(j), NEW p \in KeyObject, Copy(j, p)'
        PROVE  IsRevoked(p)
    <3>1. j \in KeyId
      BY DEF IInv, Typed
    <3>2. Continues(j, p)
      BY <2>8, <3>1 DEF Stems
    <3>. QED  BY <2>8, <3>2 DEF Final, Continues
  <2>9. SUFFICES ASSUME NEW j \in revoked \union {k}, Settled(j)
                 PROVE  /\ nvm'[j] # None
                        /\ \A p \in KeyObject : Copy(j, p)' => IsRevoked(p)
    BY <1>1, <1>4 DEF Final, IInv, Typed
  <2>10. CASE j = k
    BY <2>2, <2>6, <2>7, <2>9, <2>10
  <2>11. CASE j # k
    BY <2>6, <2>8, <2>9, <2>11 DEF Final, IInv, Typed
  <2>. QED  BY <2>10, <2>11
<1>. QED  BY <1>3, <1>4 DEF RevokeKey

\* The other steps.
LEMMA FinalStep == ASSUME IInv, Final, [Next]_vars PROVE Final'
<1>0. IInv'
  BY NextInv
<1>1. ASSUME UNCHANGED <<at, moves>> PROVE \A k \in KeyId : Settled(k)' <=> Settled(k)
  BY <1>1 DEF Settled
<1>2. ASSUME NEW k \in KeyId, KeyRequest(k) PROVE Final'
  <2>1. ASSUME NEW kind \in ClientKinds, NEW f \in FlagSets, CacheKey(k, kind, f) PROVE Final'
    <3>1. Stems(k) /\ MayCache(k) /\ UNCHANGED <<nvm, at, moves, revoked>>
      BY <2>1, CacheKeyStep DEF CacheKey
    <3>2. k \notin revoked \/ ~Settled(k)
      BY <3>1, NotTaken
    <3>. QED  BY <1>0, <1>1, <3>1, <3>2, FinalKept DEF Final
  <2>2. ASSUME Stems(k), UNCHANGED <<nvm, at, history>> PROVE Final'
    <3>1. UNCHANGED <<nvm, at, made, moves, revoked>> /\ made' # made + 1
      BY <2>2, MadeNat DEF history
    <3>. QED  BY <1>0, <1>1, <2>2, <3>1, FinalKept DEF Final
  <2>3. ASSUME NEW kind \in {"small", "big"}, CacheKeyFails(k, kind) PROVE Final'
    BY <2>2, <2>3, CacheKeyFailsStep DEF CacheKeyFails
  <2>4. ASSUME NEW e \in BOOLEAN, UseKey(k, e) PROVE Final'
    BY <2>2, <2>4, UseKeyStep DEF UseKey
  <2>5. CASE EvictKey(k)
    BY <2>2, <2>5, EvictKeyStep DEF EvictKey
  <2>6. CASE ExportKey(k)
    <3>1. Stems(k) /\ UNCHANGED <<nvm, at, made, moves, revoked>> /\ made' # made + 1
      BY <2>6, ExportKeyStep, MadeNat DEF ExportKey
    <3>. QED  BY <1>0, <1>1, <3>1, FinalKept DEF Final
  <2>7. CASE FreshenFails(k)
    BY <2>2, <2>7, FreshenFailsStep DEF FreshenFails
  <2>8. ASSUME CommitKey(k) \/ EraseKey(k) PROVE Final'
    <3>1. Stems(k) /\ UNCHANGED <<at, made, moves, revoked>> /\ made' # made + 1
      <4>1. Stems(k)
        BY <2>8, CommitKeyStep, EraseKeyStep
      <4>2. UNCHANGED <<at, made, moves, revoked>>
        BY <2>8 DEF CommitKey, EraseKey, history
      <4>. QED  BY <4>1, <4>2, MadeNat
    <3>2. ASSUME NEW j \in revoked, Settled(j) PROVE nvm'[j] # None
      <4>1. /\ j \in KeyId /\ nvm[j] # None /\ ~NvmPolicy("destroy", j)
        BY <3>2, NotTaken
      <4>2. CASE CommitKey(k)
        <5>1. Known(k) /\ Current(k) = CachedObject(k)
          BY <4>2 DEF CommitKey, Known, Current
        <5>2. CachedObject(k) \in KeyObject
          BY <5>1, CurrentCopy
        <5>3. nvm' = [nvm EXCEPT ![k] = CachedObject(k)]
          BY <4>2 DEF CommitKey, Write
        <5>. QED  BY <4>1, <5>2, <5>3, Constants DEF IInv, Typed
      <4>3. CASE EraseKey(k)
        <5>1. UNCHANGED nvm \/ (NvmPolicy("destroy", k) /\ nvm' = [nvm EXCEPT ![k] = None])
          BY <4>3 DEF EraseKey, Write
        <5>. QED  BY <4>1, <5>1 DEF IInv, Typed
      <4>. QED  BY <2>8, <4>2, <4>3
    <3>. QED  BY <1>0, <1>1, <3>1, <3>2, FinalKept
  <2>9. CASE RevokeKey(k)
    BY <1>0, <2>9, RevokeKeyStep, RevokeFinal
  <2>. QED  BY <1>2, <2>1, <2>3, <2>4, <2>5, <2>6, <2>7, <2>8, <2>9 DEF KeyRequest
<1>3. ASSUME NEW k \in KeyId, StatefulRequest(k) PROVE Final'
  <2>1. ASSUME NEW f \in FlagSets, StatefulKeyGen(k, f) PROVE Final'
    <3>1. Stems(k) /\ MayCache(k) /\ UNCHANGED <<at, moves, revoked>>
      BY <2>1, StatefulKeyGenStep DEF StatefulKeyGen
    <3>2. k \notin revoked \/ ~Settled(k)
      BY <3>1, NotTaken
    <3>3. \A j \in KeyId \ {k} : nvm'[j] = nvm[j]
      BY <2>1 DEF StatefulKeyGen, Write, IInv, Typed
    <3>4. ASSUME NEW j \in revoked, Settled(j) PROVE nvm'[j] # None
      BY <3>2, <3>3, <3>4 DEF Final, IInv, Typed
    <3>. QED  BY <1>0, <1>1, <3>1, <3>2, <3>4, FinalKept
  <2>2. ASSUME SignPersist(k) \/ \E e \in BOOLEAN : SignFails(k, e) PROVE Final'
    <3>1. Stems(k) /\ UNCHANGED <<at, made, moves, revoked>> /\ made' # made + 1
      BY <2>2, SignPersistStep, SignFailsStep, MadeNat DEF SignPersist, SignFails, history
    <3>2. CanFreshen(k) /\ Current(k).index < MaxIndex
      BY <2>2 DEF SignPersist, SignFails
    <3>3. Advanced(Current(k)) \in KeyObject
      BY <3>2, AdvanceEdit
    <3>4. UNCHANGED nvm \/ nvm' = [nvm EXCEPT ![k] = Advanced(Current(k))]
      BY <2>2 DEF SignPersist, SignFails, Write
    <3>5. ASSUME NEW j \in revoked, Settled(j) PROVE nvm'[j] # None
      BY <3>3, <3>4, <3>5, Constants DEF Final, IInv, Typed
    <3>. QED  BY <1>0, <1>1, <3>1, <3>5, FinalKept
  <2>. QED  BY <1>3, <2>1, <2>2 DEF StatefulRequest
<1>4. ASSUME NEW k \in KeyId, NvmRequest(k) PROVE Final'
  <2>1. ASSUME NEW kind \in ClientKinds, NEW f \in FlagSets, NvmAddObject(k, kind, f) PROVE Final'
    <3>1. /\ Stems(k) /\ (nvm[k] # None => NvmPolicy("add", k))
          /\ UNCHANGED <<at, moves, revoked>>
      BY <2>1, NvmAddObjectStep DEF NvmAddObject
    <3>2. k \notin revoked \/ ~Settled(k)
      BY <3>1, NotTaken
    <3>3. \A j \in KeyId \ {k} : nvm'[j] = nvm[j]
      BY <2>1 DEF NvmAddObject, IInv, Typed
    <3>4. ASSUME NEW j \in revoked, Settled(j) PROVE nvm'[j] # None
      BY <3>2, <3>3, <3>4 DEF Final, IInv, Typed
    <3>. QED  BY <1>0, <1>1, <3>1, <3>2, <3>4, FinalKept
  <2>2. CASE NvmDestroyObjects(k)
    <3>1. /\ Stems(k) /\ NvmPolicy("destroy", k) /\ made' # made + 1
          /\ UNCHANGED <<at, moves, revoked>>
      <4>1. Stems(k)
        BY <2>2, NvmDestroyObjectsStep
      <4>2. NvmPolicy("destroy", k) /\ UNCHANGED <<at, made, moves, revoked>>
        BY <2>2 DEF NvmDestroyObjects, history
      <4>. QED  BY <4>1, <4>2, MadeNat
    <3>2. ASSUME NEW j \in revoked, Settled(j) PROVE nvm'[j] # None
      <4>1. j \in KeyId /\ j # k /\ nvm[j] # None
        BY <3>1, <3>2, NotTaken
      <4>. QED  BY <2>2, <4>1 DEF NvmDestroyObjects, IInv, Typed
    <3>. QED  BY <1>0, <1>1, <3>1, <3>2, FinalKept
  <2>3. CASE NvmRead(k)
    <3>1. NoNewCopies /\ UNCHANGED <<nvm, at, moves, revoked>>
      BY <2>3, NvmReadStep DEF NvmRead
    <3>. QED  BY <1>0, <1>1, <3>1, FinalKept DEF Final
  <2>. QED  BY <1>4, <2>1, <2>2, <2>3 DEF NvmRequest
<1>5. ASSUME NoNewCopies, UNCHANGED <<nvm, revoked>>, \A k \in KeyId : Settled(k)' => Settled(k)
      PROVE  Final'
  BY <1>0, <1>5, FinalKept DEF Final
<1>6. ASSUME NEW e \in BOOLEAN, SignRelease(e) PROVE Final'
  <2>1. NoNewCopies /\ UNCHANGED <<nvm, at, moves, revoked>>
    BY <1>6, SignReleaseStep DEF SignRelease
  <2>. QED  BY <1>1, <1>5, <2>1
<1>7. ASSUME NEW c \in Client, NEW s \in Server, Connect(c, s) PROVE Final'
  <2>1. /\ NoNewCopies /\ UNCHANGED <<nvm, revoked>>
        /\ moves' = [moves EXCEPT ![c] = @ + 1]
    BY <1>7, ConnectStep DEF Connect, storage
  <2>2. \A k \in KeyId : Settled(k)' => Settled(k)
    BY <2>1, Constants DEF Settled, IInv, Typed
  <2>. QED  BY <1>5, <2>1, <2>2
<1>8. ASSUME Reset \/ \E s \in Server : ServerInit(s) PROVE Final'
  <2>1. NoNewCopies /\ UNCHANGED <<nvm, at, moves, revoked>>
    BY <1>8, ResetStep, ServerInitStep DEF Reset, ServerInit, history
  <2>. QED  BY <1>1, <1>5, <2>1
<1>9. CASE UNCHANGED vars
  <2>1. UNCHANGED <<cache, nvm, at, moves, revoked>>
    BY <1>9 DEF vars
  <2>2. NoNewCopies
    BY <2>1 DEF NoNewCopies, Copy, InNvm, Holds
  <2>. QED  BY <1>1, <1>5, <2>1, <2>2
<1>. QED  BY <1>2, <1>3, <1>4, <1>6, <1>7, <1>8, <1>9 DEF Next

\* Once RevokeKey has written a key to NVM, no sequence of requests, failures and
\* resets makes the key usable or replaces it while its client stays.
THEOREM RevokedStays == Spec => []RevokedForGood
<1>1. Init => Final
  BY DEF Init, Final
<1>2. IInv /\ Final /\ [Next]_vars => Final'
  BY FinalStep
<1>3. IInv /\ Final => RevokedForGood
  BY NotTaken DEF RevokedForGood
<1>. QED  BY <1>1, <1>2, <1>3, Invariant, PTL DEF Spec
-----------------------------------------------------------------------------
(* Committed slots.                                                        *)

\* What CommittedIsStored says of one slot, over the objects n, and of one cache.
SlotStored(s, n) ==
  s.id # Erased /\ s.committed /\ ~s.stale =>
    /\ n[s.id] # None
    /\ n[s.id].mat = s.obj.mat
    /\ n[s.id].flags = s.obj.flags
    /\ n[s.id].index <= s.obj.index

Backed(c, n) == \A i \in Slot : SlotStored(c[i], n)

\* The property says it of all caches.
LEMMA AllBacked == CommittedIsStored <=> \A x \in Caches : Backed(cache[x], nvm)
BY DEF CommittedIsStored, Backed, SlotStored

\* A slot that is filled, or emptied, leaves the others as they are.
LEMMA FillBacked ==
  ASSUME NEW c, GoodCache(c), NEW n, Backed(c, n), NEW i \in Slot, NEW s, SlotStored(s, n)
  PROVE  Backed([c EXCEPT ![i] = s], n)
BY DEF Backed, GoodCache

\* An empty slot, or one whose key is not marked committed, may hold anything.
LEMMA LooseStored ==
  /\ \A n : SlotStored(Empty, n)
  /\ \A n, k, o : SlotStored(Holding(k, o, FALSE), n)
BY DEF SlotStored, Empty, Holding

\* A copy of what NVM holds.
LEMMA HoldingStored ==
  ASSUME NEW n, NEW k, NEW o \in KeyObject, n[k] = o, NEW b
  PROVE  SlotStored(Holding(k, o, b), n)
<1>1. o # None /\ o.index <= o.index
  BY ObjectType, Constants
<1>. QED  BY <1>1 DEF SlotStored, Holding

\* Eviction.
LEMMA EvictBacked ==
  ASSUME NEW c, GoodCache(c), NEW n, Backed(c, n), NEW k \in KeyId
  PROVE  Backed(EvictFromCache(c, k), n)
<1>1. CASE Cached(c, k)
  <2>1. FindInCache(c, k) \in Slot
    BY <1>1, FindCached
  <2>. QED  BY <1>1, <2>1, FillBacked, LooseStored DEF EvictFromCache
<1>2. CASE ~Cached(c, k)
  BY <1>2 DEF EvictFromCache
<1>. QED  BY <1>1, <1>2

\* A slot taken for a key.  What was known of the key itself need not hold.
LEMMA WithSlotBacked ==
  ASSUME NEW c, GoodCache(c), NEW n, NEW k \in KeyId, NEW kind, NEW s, SlotStored(s, n),
         \A i \in Slot : c[i].id = k \/ SlotStored(c[i], n)
  PROVE  Backed(WithSlot(c, k, kind, s), n)
<1>. DEFINE rest == EvictFromCache(c, k)
            i == GetKeyCacheSlot(rest, kind)
<1>1. GoodCache(rest)
  BY EvictEdit DEF Edit
<1>2. Backed(rest, n)
  <2>1. CASE Cached(c, k)
    <3>1. FindInCache(c, k) \in Slot /\ c[FindInCache(c, k)].id = k
      BY <2>1, FindCached
    <3>2. \A j \in Slot \ {FindInCache(c, k)} : c[j].id # k
      BY <3>1, Constants DEF GoodCache
    <3>3. rest = [c EXCEPT ![FindInCache(c, k)] = Empty]
      BY <2>1 DEF EvictFromCache
    <3>. HIDE DEF rest
    <3>. QED  BY <3>1, <3>2, <3>3, LooseStored DEF Backed, GoodCache
  <2>2. CASE ~Cached(c, k)
    BY <2>2 DEF EvictFromCache, Cached, Backed
  <2>. QED  BY <2>1, <2>2
<1>3. WithSlot(c, k, kind, s) = IF i = 0 THEN rest ELSE [rest EXCEPT ![i] = s]
  BY DEF WithSlot
<1>4. i # 0 => i \in Slot
  BY SlotGot, Constants
<1>. HIDE DEF rest, i
<1>. QED  BY <1>1, <1>2, <1>3, <1>4, FillBacked

\* Freshening, which marks what it reads from NVM as committed.
LEMMA FreshenedBacked ==
  ASSUME IInv, CommittedIsStored, NEW k \in KeyId, Known(k)
  PROVE  GoodCache(Freshened(k)) /\ Backed(Freshened(k), nvm)
<1>. DEFINE c == cache[CacheOf(k)]
<1>1. GoodCache(c) /\ Backed(c, nvm)
  BY OwnCache, AllBacked
<1>2. CASE IsCached(k)
  BY <1>1, <1>2 DEF Freshened
<1>3. CASE ~IsCached(k)
  <2>1. nvm[k] \in KeyObject
    BY <1>3 DEF Known, IInv, Typed
  <2>2. Freshened(k) = WithSlot(c, k, nvm[k].kind, Holding(k, nvm[k], TRUE))
    BY <1>3 DEF Freshened
  <2>3. nvm[k].kind \in Kinds /\ {nvm[k]} \in SUBSET KeyObject
    BY <2>1, ObjectType
  <2>4. SlotStored(Holding(k, nvm[k], TRUE), nvm)
    BY <2>1, HoldingStored
  <2>5. /\ Holding(k, nvm[k], TRUE) \in SlotState /\ Holding(k, nvm[k], TRUE).id = k
        /\ Holding(k, nvm[k], TRUE).obj = nvm[k]
    BY <2>1, HoldingType
  <2>. HIDE DEF c
  <2>6. GoodCache(Freshened(k))
    <3>. DEFINE o == nvm[k]
                s == Holding(k, o, TRUE)
    <3>1. /\ Freshened(k) = WithSlot(c, k, o.kind, s) /\ o.kind \in Kinds
          /\ {o} \in SUBSET KeyObject /\ s \in SlotState
          /\ s.id = k /\ s.obj \in {o} /\ s.obj.kind = o.kind
      BY <2>2, <2>3, <2>5
    <3>. HIDE DEF o, s
    <3>. QED  BY <1>1, <3>1, WithSlotEdit DEF Edit
  <2>7. Backed(Freshened(k), nvm)
    BY <1>1, <2>2, <2>4, WithSlotBacked DEF Backed
  <2>. QED  BY <2>6, <2>7
<1>. QED  BY <1>2, <1>3

\* A copy changed in place, and nothing else.
LEMMA InPlaceOther ==
  ASSUME NEW c, GoodCache(c), NEW k \in KeyId, Cached(c, k), NEW o, NEW i \in Slot, c[i].id # k
  PROVE  InPlace(c, k, o)[i] = c[i] /\ Updated(c, k, o, TRUE)[i] = c[i]
<1>. DEFINE f == FindInCache(c, k)
<1>1. f \in Slot /\ c[f].id = k
  BY FindCached
<1>2. InPlace(c, k, o) = [c EXCEPT ![f].obj = o]
  BY DEF InPlace
<1>3. Updated(c, k, o, TRUE) = [c EXCEPT ![f] = Holding(k, o, TRUE)]
  BY DEF Updated
<1>. HIDE DEF f
<1>4. c \in [Slot -> SlotState] /\ i # f
  BY <1>1 DEF GoodCache
<1>. QED  BY <1>1, <1>2, <1>3, <1>4

\* The slot of the key, with its object changed in place or replaced.
PutInPlace(c, k, o, i) ==
  /\ i = FindInCache(c, k)
  /\ InPlace(c, k, o)[i].id = k
  /\ InPlace(c, k, o)[i].obj = o
  /\ InPlace(c, k, o)[i].committed = c[i].committed
  /\ InPlace(c, k, o)[i].stale = c[i].stale
  /\ Updated(c, k, o, TRUE)[i] = Holding(k, o, TRUE)

LEMMA InPlaceSlot ==
  ASSUME NEW c, GoodCache(c), NEW k \in KeyId, Cached(c, k), NEW o
  PROVE  \A i \in Slot : c[i].id = k => PutInPlace(c, k, o, i)
<1>. SUFFICES ASSUME NEW i \in Slot, c[i].id = k PROVE PutInPlace(c, k, o, i)
  OBVIOUS
<1>. DEFINE f == FindInCache(c, k)
            s == c[f]
            t == [s EXCEPT !.obj = o]
<1>1. f \in Slot /\ s.id = k
  BY FindCached
<1>2. InPlace(c, k, o) = [c EXCEPT ![f] = t]
  <2>1. InPlace(c, k, o) = [c EXCEPT ![f].obj = o]
    BY DEF InPlace
  <2>. QED  BY <2>1
<1>3. Updated(c, k, o, TRUE) = [c EXCEPT ![f] = Holding(k, o, TRUE)]
  BY DEF Updated
<1>4. s \in SlotState
  BY <1>1 DEF GoodCache
<1>. HIDE DEF s
<1>5. t.id = k /\ t.obj = o /\ t.committed = s.committed /\ t.stale = s.stale
  BY <1>1, <1>4 DEF SlotState
<1>. HIDE DEF f, t
<1>6. c \in [Slot -> SlotState] /\ i = f
  BY <1>1, Constants DEF GoodCache, s
<1>7. InPlace(c, k, o)[i] = t /\ Updated(c, k, o, TRUE)[i] = Holding(k, o, TRUE) /\ s = c[i]
  BY <1>2, <1>3, <1>6 DEF s
<1>. QED  BY <1>5, <1>6, <1>7 DEF f, PutInPlace

\* A request that changes k's cache only.
LEMMA SetCacheBacked ==
  ASSUME IInv, CommittedIsStored, NEW k \in KeyId, NEW c, SetCache(k, c), UNCHANGED nvm,
         Backed(c, nvm)
  PROVE  CommittedIsStored'
<1>1. \A x \in Caches : cache'[x] = IF x = CacheOf(k) THEN c ELSE cache[x]
  BY DEF SetCache, IInv, Caching, GoodCaches
<1>2. \A x \in Caches : Backed(cache'[x], nvm')
  BY <1>1, AllBacked
<1>. QED  BY <1>2 DEF CommittedIsStored, Backed, SlotStored

\* Slots of other keys are as NVM was, and those of k in cache y as it is now.
Tended(caches, k, y, old, new) ==
  \A x \in Caches, i \in Slot :
    \/ caches[x][i].id # k /\ SlotStored(caches[x][i], old)
    \/ caches[x][i].id = k /\ (x = y => SlotStored(caches[x][i], new))

\* After MarkStale no slot but those of cache y is held to what NVM says of k.
LEMMA StaleBacked ==
  ASSUME IInv, NEW caches, GoodCaches(caches), NEW k \in KeyId, NEW y, NEW o,
         cache' = MarkStale(caches, k, y), nvm' = [nvm EXCEPT ![k] = o],
         Tended(caches, k, y, nvm, nvm')
  PROVE  CommittedIsStored'
<1>1. \A j \in KeyId \ {k} : nvm'[j] = nvm[j]
  BY DEF IInv, Typed
<1>2. ASSUME NEW x \in Caches, NEW i \in Slot PROVE SlotStored(cache'[x][i], nvm')
  <2>. DEFINE s == caches[x][i]
  <2>1. s \in SlotState
    BY DEF GoodCaches
  <2>2. CASE s.id # k
    <3>1. cache'[x][i] = s
      BY <2>2 DEF MarkStale
    <3>2. SlotStored(s, nvm)
      BY <2>2 DEF Tended
    <3>. HIDE DEF s
    <3>. QED  BY <1>1, <2>1, <2>2, <3>1, <3>2 DEF SlotStored, SlotState
  <2>3. CASE s.id = k /\ x = y
    <3>1. cache'[x][i] = s
      BY <2>3 DEF MarkStale
    <3>. QED  BY <2>3, <3>1 DEF Tended
  <2>4. CASE s.id = k /\ x # y
    <3>1. cache'[x][i] = [s EXCEPT !.stale = TRUE]
      BY <2>4 DEF MarkStale, Cached
    <3>. HIDE DEF s
    <3>. QED  BY <2>1, <3>1 DEF SlotStored, SlotState
  <2>. QED  BY <2>2, <2>3, <2>4
<1>. QED  BY <1>2 DEF CommittedIsStored, SlotStored

\* A request that writes k's object through its cache.
LEMMA WriteBacked ==
  ASSUME IInv, CommittedIsStored, NEW k \in KeyId, NEW c, GoodCache(c), NEW o, Write(k, c, o),
         \A i \in Slot : IF c[i].id = k THEN SlotStored(c[i], nvm') ELSE SlotStored(c[i], nvm)
  PROVE  CommittedIsStored'
<1>. DEFINE x == CacheOf(k)
            caches == [cache EXCEPT ![x] = c]
<1>1. x \in Caches
  BY OwnCache
<1>2. /\ cache' = MarkStale(caches, k, x) /\ nvm' = [nvm EXCEPT ![k] = o]
  BY DEF Write
<1>. HIDE DEF x
<1>3. caches[x] = c /\ \A y \in Caches \ {x} : caches[y] = cache[y]
  BY <1>1 DEF IInv, Caching, GoodCaches
<1>4. GoodCaches(caches)
  BY <1>1, <1>3 DEF IInv, Caching, GoodCaches, GoodCache
<1>5. \A y \in Caches : Backed(cache[y], nvm)
  BY AllBacked
<1>. HIDE DEF caches
<1>6. Tended(caches, k, x, nvm, nvm')
  BY <1>3, <1>5 DEF Backed, Tended
<1>. QED  BY <1>2, <1>4, <1>6, StaleBacked

\* A request that writes k's object behind the caches.
LEMMA BehindBacked ==
  ASSUME IInv, CommittedIsStored, NEW k \in KeyId, NEW o,
         nvm' = [nvm EXCEPT ![k] = o], cache' = MarkStale(cache, k, None)
  PROVE  CommittedIsStored'
<1>1. \A x \in Caches : x # None /\ Backed(cache[x], nvm)
  BY AllBacked, Constants
<1>2. Tended(cache, k, None, nvm, nvm')
  BY <1>1 DEF Backed, Tended
<1>. QED  BY <1>2, StaleBacked DEF IInv, Caching

\* Requests of the key store that write no object.
LEMMA CacheRequestBacked ==
  ASSUME IInv, CommittedIsStored, NEW k \in KeyId,
         \/ \E kind \in ClientKinds, f \in FlagSets : CacheKey(k, kind, f)
         \/ \E kind \in {"small", "big"} : CacheKeyFails(k, kind)
         \/ EvictKey(k) \/ ExportKey(k) \/ FreshenFails(k)
         \/ \E e \in BOOLEAN : UseKey(k, e)
  PROVE  CommittedIsStored'
<1>. DEFINE c == cache[CacheOf(k)]
<1>1. GoodCache(c) /\ Backed(c, nvm)
  BY OwnCache, AllBacked
<1>2. ASSUME NEW kind, NEW s, SlotStored(s, nvm), SetCache(k, WithSlot(c, k, kind, s)), UNCHANGED nvm
      PROVE  CommittedIsStored'
  <2>. HIDE DEF c
  <2>1. Backed(WithSlot(c, k, kind, s), nvm)
    BY <1>1, <1>2, WithSlotBacked DEF Backed
  <2>. QED  BY <1>2, <2>1, SetCacheBacked
<1>3. ASSUME NEW kind, NEW f, CacheKey(k, kind, f) PROVE CommittedIsStored'
  BY <1>2, <1>3, LooseStored DEF CacheKey
<1>4. ASSUME NEW kind, CacheKeyFails(k, kind) PROVE CommittedIsStored'
  BY <1>2, <1>4, LooseStored DEF CacheKeyFails
<1>5. CASE FreshenFails(k)
  BY <1>2, <1>5, LooseStored DEF FreshenFails
<1>6. CASE EvictKey(k)
  <2>1. Backed(EvictFromCache(c, k), nvm)
    BY <1>1, EvictBacked
  <2>. QED  BY <1>6, <2>1, SetCacheBacked DEF EvictKey
<1>7. CASE ExportKey(k)
  <2>1. Known(k)
    BY <1>7 DEF ExportKey, CheckPolicy
  <2>. QED  BY <1>7, <2>1, FreshenedBacked, SetCacheBacked DEF ExportKey
<1>8. ASSUME NEW e \in BOOLEAN, UseKey(k, e) PROVE CommittedIsStored'
  <2>1. Known(k)
    BY <1>8 DEF UseKey, CanFreshen, Known
  <2>2. Backed(Freshened(k), nvm) /\ Backed(EvictFromCache(Freshened(k), k), nvm)
    BY <2>1, FreshenedBacked, EvictBacked
  <2>. QED  BY <1>8, <2>2, SetCacheBacked DEF UseKey
<1>. QED  BY <1>3, <1>4, <1>5, <1>6, <1>7, <1>8

\* An object written to NVM together with the copy in the key's cache.
LEMMA StoreBacked ==
  ASSUME IInv, CommittedIsStored, NEW k \in KeyId, NEW d, GoodCache(d), Cached(d, k),
         NEW o \in KeyObject, o.kind = d[FindInCache(d, k)].obj.kind,
         \A i \in Slot : d[i].id = k \/ SlotStored(d[i], nvm),
         Write(k, Updated(d, k, o, TRUE), o) \/ Write(k, InPlace(d, k, o), o)
  PROVE  CommittedIsStored'
<1>1. nvm'[k] = o
  BY DEF Write, IInv, Typed
<1>2. o # None /\ o.index <= o.index
  BY ObjectType, Constants
<1>3. GoodCache(InPlace(d, k, o)) /\ GoodCache(Updated(d, k, o, TRUE))
  BY ReplaceEdit DEF Edit
<1>4. \A i \in Slot : d[i] \in SlotState
  BY DEF GoodCache
<1>5. ASSUME NEW i \in Slot
      PROVE  /\ IF InPlace(d, k, o)[i].id = k
                THEN SlotStored(InPlace(d, k, o)[i], nvm')
                ELSE SlotStored(InPlace(d, k, o)[i], nvm)
             /\ IF Updated(d, k, o, TRUE)[i].id = k
                THEN SlotStored(Updated(d, k, o, TRUE)[i], nvm')
                ELSE SlotStored(Updated(d, k, o, TRUE)[i], nvm)
  <2>1. CASE d[i].id # k
    <3>1. InPlace(d, k, o)[i] = d[i] /\ Updated(d, k, o, TRUE)[i] = d[i]
      BY <2>1, InPlaceOther
    <3>. QED  BY <2>1, <3>1
  <2>2. CASE d[i].id = k
    <3>1. /\ InPlace(d, k, o)[i].id = k /\ InPlace(d, k, o)[i].obj = o
          /\ Updated(d, k, o, TRUE)[i] = Holding(k, o, TRUE)
      <4>1. PutInPlace(d, k, o, i)
        BY <2>2, InPlaceSlot
      <4>. QED  BY <4>1 DEF PutInPlace
    <3>2. SlotStored(InPlace(d, k, o)[i], nvm')
      BY <1>1, <1>2, <3>1 DEF SlotStored
    <3>3. Holding(k, o, TRUE).id = k /\ SlotStored(Holding(k, o, TRUE), nvm')
      BY <1>1, <1>2 DEF SlotStored, Holding
    <3>. QED  BY <3>1, <3>2, <3>3
  <2>. QED  BY <2>1, <2>2
<1>6. CASE Write(k, Updated(d, k, o, TRUE), o)
  BY <1>3, <1>5, <1>6, WriteBacked
<1>7. CASE Write(k, InPlace(d, k, o), o)
  BY <1>3, <1>5, <1>7, WriteBacked
<1>. QED  BY <1>6, <1>7

\* CommitKey.
LEMMA CommitBacked ==
  ASSUME IInv, CommittedIsStored, NEW k \in KeyId, CommitKey(k)
  PROVE  CommittedIsStored'
<1>. DEFINE c == cache[CacheOf(k)]
            o == CachedObject(k)
<1>1. GoodCache(c) /\ Backed(c, nvm)
  BY OwnCache, AllBacked
<1>2. Cached(c, k) /\ Write(k, Updated(c, k, o, TRUE), o) /\ o = c[FindInCache(c, k)].obj
  BY DEF CommitKey, IsCached, CachedObject
<1>. HIDE DEF c, o
<1>3. o \in KeyObject
  BY <1>1, <1>2, FindCached
<1>. QED  BY <1>1, <1>2, <1>3, StoreBacked DEF Backed

\* EraseKey, with the object or without.
LEMMA EraseBacked ==
  ASSUME IInv, CommittedIsStored, NEW k \in KeyId, EraseKey(k)
  PROVE  CommittedIsStored'
<1>. DEFINE d == EvictFromCache(cache[CacheOf(k)], k)
<1>1. Backed(d, nvm) /\ GoodCache(d) /\ \A i \in Slot : d[i].id # k
  BY OwnCache, AllBacked, EvictBacked, EvictEdit DEF Edit
<1>2. (SetCache(k, d) /\ UNCHANGED nvm) \/ Write(k, d, None)
  BY DEF EraseKey
<1>. HIDE DEF d
<1>3. CASE SetCache(k, d) /\ UNCHANGED nvm
  BY <1>1, <1>3, SetCacheBacked
<1>4. CASE Write(k, d, None)
  BY <1>1, <1>4, WriteBacked DEF Backed
<1>. QED  BY <1>2, <1>3, <1>4

\* RevokeKey: a copy of a key that is not in NVM is not marked committed.
LEMMA RevokeBacked ==
  ASSUME IInv, CommittedIsStored, NEW k \in KeyId, RevokeKey(k)
  PROVE  CommittedIsStored'
<1>. DEFINE d == Freshened(k)
            old == Current(k)
            o == Revoke(old)
<1>1. CanFreshen(k)
  BY DEF RevokeKey
<1>2. /\ Known(k) /\ old \in KeyObject /\ GoodCache(d) /\ Cached(d, k)
      /\ d[FindInCache(d, k)].obj = old
  BY <1>1, FreshenEdit DEF IInv
<1>3. Backed(d, nvm)
  BY <1>2, FreshenedBacked
<1>4. o \in KeyObject /\ o.kind = old.kind
  BY <1>2, RevokeType
<1>5. \/ SetCache(k, d) /\ UNCHANGED nvm
      \/ Write(k, Updated(d, k, o, TRUE), o)
      \/ nvm[k] = None /\ SetCache(k, InPlace(d, k, o)) /\ UNCHANGED nvm
  BY DEF RevokeKey
<1>. HIDE DEF d, old, o
<1>6. CASE SetCache(k, d) /\ UNCHANGED nvm
  BY <1>3, <1>6, SetCacheBacked
<1>7. CASE Write(k, Updated(d, k, o, TRUE), o)
  BY <1>2, <1>3, <1>4, <1>7, StoreBacked DEF Backed
<1>8. CASE nvm[k] = None /\ SetCache(k, InPlace(d, k, o)) /\ UNCHANGED nvm
  <2>1. ASSUME NEW i \in Slot PROVE SlotStored(InPlace(d, k, o)[i], nvm)
    <3>1. CASE d[i].id # k
      BY <1>2, <1>3, <3>1, InPlaceOther DEF Backed
    <3>2. CASE d[i].id = k
      <4>1. d[i].id = k /\ SlotStored(d[i], nvm)
        BY <1>3, <3>2 DEF Backed
      <4>2. ~(d[i].committed /\ ~d[i].stale)
        BY <1>8, <4>1, Constants DEF SlotStored
      <4>3. /\ InPlace(d, k, o)[i].committed = d[i].committed
            /\ InPlace(d, k, o)[i].stale = d[i].stale
        <5>1. PutInPlace(d, k, o, i)
          BY <1>2, <3>2, InPlaceSlot
        <5>. QED  BY <5>1 DEF PutInPlace
      <4>. QED  BY <4>2, <4>3 DEF SlotStored
    <3>. QED  BY <3>1, <3>2
  <2>2. Backed(InPlace(d, k, o), nvm)
    BY <2>1 DEF Backed
  <2>. QED  BY <1>8, <2>2, SetCacheBacked
<1>. QED  BY <1>5, <1>6, <1>7, <1>8

\* Making a key with one-time signatures: committed only if NVM took it.
LEMMA KeyGenBacked ==
  ASSUME IInv, CommittedIsStored, NEW k \in KeyId, NEW f \in FlagSets, StatefulKeyGen(k, f)
  PROVE  CommittedIsStored'
<1>. DEFINE c == cache[CacheOf(k)]
            o == NewObject("stateful", (f \ ServerOnly) \union {"nonexportable"})
            d(b) == WithSlot(c, k, "stateful", Holding(k, o, b))
<1>1. GoodCache(c) /\ Backed(c, nvm)
  BY OwnCache, AllBacked
<1>2. /\ "stateful" \in Kinds
      /\ (f \ ServerOnly) \union {"nonexportable"} \in SUBSET Flags
  BY Constants DEF Kinds, Flags
<1>3. \/ SetCache(k, EvictFromCache(c, k)) /\ UNCHANGED nvm
      \/ made < MaxMaterial /\ Write(k, d(TRUE), o)
      \/ made < MaxMaterial /\ SetCache(k, d(FALSE)) /\ UNCHANGED nvm
  BY DEF StatefulKeyGen
<1>4. made < MaxMaterial => o \in KeyObject /\ o.kind = "stateful"
  BY <1>2, NewObjectType
<1>. HIDE DEF c, o
<1>5. CASE SetCache(k, EvictFromCache(c, k)) /\ UNCHANGED nvm
  BY <1>1, <1>5, EvictBacked, SetCacheBacked
<1>6. CASE made < MaxMaterial /\ SetCache(k, d(FALSE)) /\ UNCHANGED nvm
  <2>1. Backed(d(FALSE), nvm)
    BY <1>1, LooseStored, WithSlotBacked DEF Backed
  <2>. HIDE DEF d
  <2>. QED  BY <1>6, <2>1, SetCacheBacked
<1>7. CASE made < MaxMaterial /\ Write(k, d(TRUE), o)
  <2>. DEFINE s == Holding(k, o, TRUE)
              n == [nvm EXCEPT ![k] = o]
  <2>1. o \in KeyObject /\ o.kind = "stateful" /\ n[k] = o /\ nvm' = n
    BY <1>4, <1>7 DEF Write, IInv, Typed
  <2>2. s \in SlotState /\ s.id = k /\ s.obj = o /\ SlotStored(s, n)
    BY <2>1, HoldingType, HoldingStored
  <2>. HIDE DEF s
  <2>3. GoodCache(WithSlot(c, k, "stateful", s))
    <3>1. {o} \in SUBSET KeyObject /\ s.obj \in {o} /\ s.obj.kind = "stateful"
      BY <2>1, <2>2
    <3>. QED  BY <1>1, <1>2, <2>2, <3>1, WithSlotEdit DEF Edit
  <2>4. Backed(WithSlot(c, k, "stateful", s), n)
    <3>1. \A j \in KeyId \ {k} : n[j] = nvm[j]
      BY DEF IInv, Typed
    <3>. HIDE DEF n
    <3>2. \A i \in Slot : c[i].id = k \/ SlotStored(c[i], n)
      BY <1>1, <3>1 DEF Backed, SlotStored, GoodCache, SlotState
    <3>. QED  BY <1>1, <2>2, <3>2, WithSlotBacked
  <2>5. \A j \in KeyId \ {k} : n[j] = nvm[j]
    BY DEF IInv, Typed
  <2>. DEFINE e == WithSlot(c, k, "stateful", s)
  <2>6. GoodCache(e) /\ Backed(e, n) /\ Write(k, e, o)
    BY <1>7, <2>3, <2>4 DEF s
  <2>. HIDE DEF n, e
  <2>7. \A i \in Slot : e[i].id # k => SlotStored(e[i], nvm)
    BY <2>5, <2>6 DEF Backed, SlotStored, GoodCache, SlotState
  <2>8. \A i \in Slot : SlotStored(e[i], nvm')
    BY <2>1, <2>6 DEF Backed
  <2>. QED  BY <2>6, <2>7, <2>8, WriteBacked
<1>. QED  BY <1>3, <1>5, <1>6, <1>7

\* Signing, whose copy may be ahead of NVM but never behind it.
LEMMA SignBacked ==
  ASSUME IInv, CommittedIsStored, NEW k \in KeyId,
         SignPersist(k) \/ \E e \in BOOLEAN : SignFails(k, e)
  PROVE  CommittedIsStored'
<1>. DEFINE d == Freshened(k)
            old == Current(k)
            o == Advanced(old)
<1>1. CanFreshen(k) /\ old.index < MaxIndex
  BY DEF SignPersist, SignFails
<1>2. /\ Known(k) /\ old \in KeyObject /\ GoodCache(d) /\ Cached(d, k)
      /\ d[FindInCache(d, k)].obj = old
  BY <1>1, FreshenEdit DEF IInv
<1>3. Backed(d, nvm)
  BY <1>2, FreshenedBacked
<1>4. /\ o \in KeyObject /\ o.kind = old.kind /\ o.mat = old.mat /\ o.flags = old.flags
      /\ o.index = old.index + 1
  BY <1>1, <1>2, AdvancedType
<1>5. \/ Write(k, InPlace(d, k, o), o)
      \/ /\ UNCHANGED nvm
         /\ \/ SetCache(k, InPlace(d, k, o))
            \/ SetCache(k, EvictFromCache(InPlace(d, k, o), k))
  BY DEF SignPersist, SignFails
<1>. HIDE DEF d, old, o
<1>6. CASE Write(k, InPlace(d, k, o), o)
  BY <1>2, <1>3, <1>4, <1>6, StoreBacked DEF Backed
<1>7. Backed(InPlace(d, k, o), nvm)
  <2>1. ASSUME NEW i \in Slot PROVE SlotStored(InPlace(d, k, o)[i], nvm)
    <3>1. CASE d[i].id # k
      BY <1>2, <1>3, <3>1, InPlaceOther DEF Backed
    <3>2. CASE d[i].id = k
      <4>1. SlotStored(d[i], nvm)
        BY <1>3, <3>2 DEF Backed
      <4>2. /\ i = FindInCache(d, k)
            /\ InPlace(d, k, o)[i].id = k /\ InPlace(d, k, o)[i].obj = o
            /\ InPlace(d, k, o)[i].committed = d[i].committed
            /\ InPlace(d, k, o)[i].stale = d[i].stale
        <5>1. PutInPlace(d, k, o, i)
          BY <1>2, <3>2, InPlaceSlot
        <5>. QED  BY <5>1 DEF PutInPlace
      <4>3. d[i].obj = old
        BY <1>2, <4>2
      <4>4. nvm[k] \in KeyObject \union {None}
        BY DEF IInv, Typed
      <4>5. nvm[k] # None /\ nvm[k].index <= old.index => nvm[k].index <= o.index
        BY <1>2, <1>4, <4>4, ObjectType
      <4>. QED  BY <1>4, <3>2, <4>1, <4>2, <4>3, <4>5 DEF SlotStored
    <3>. QED  BY <3>1, <3>2
  <2>. QED  BY <2>1 DEF Backed
<1>8. GoodCache(InPlace(d, k, o))
  BY <1>2, <1>4, ReplaceEdit DEF Edit
<1>9. Backed(EvictFromCache(InPlace(d, k, o), k), nvm)
  BY <1>7, <1>8, EvictBacked
<1>. QED  BY <1>5, <1>6, <1>7, <1>9, SetCacheBacked

\* All steps.
LEMMA BackedStep == ASSUME IInv, CommittedIsStored, [Next]_vars PROVE CommittedIsStored'
<1>1. ASSUME NEW k \in KeyId, KeyRequest(k) PROVE CommittedIsStored'
  BY <1>1, CacheRequestBacked, CommitBacked, EraseBacked, RevokeBacked DEF KeyRequest
<1>2. ASSUME NEW k \in KeyId, StatefulRequest(k) PROVE CommittedIsStored'
  BY <1>2, KeyGenBacked, SignBacked DEF StatefulRequest
<1>3. ASSUME UNCHANGED <<cache, nvm>> PROVE CommittedIsStored'
  BY <1>3 DEF CommittedIsStored
<1>4. ASSUME NEW k \in KeyId, NvmRequest(k) PROVE CommittedIsStored'
  BY <1>3, <1>4, BehindBacked DEF NvmRequest, NvmAddObject, NvmDestroyObjects, NvmRead
<1>5. ASSUME NEW e \in BOOLEAN, SignRelease(e) PROVE CommittedIsStored'
  <2>. DEFINE k == signing.key
              c == cache[CacheOf(k)]
  <2>1. k \in KeyId
    BY <1>5 DEF SignRelease, IInv, Typed
  <2>2. UNCHANGED nvm /\ (SetCache(k, c) \/ SetCache(k, EvictFromCache(c, k)))
    BY <1>5 DEF SignRelease
  <2>. HIDE DEF k
  <2>3. Backed(c, nvm) /\ Backed(EvictFromCache(c, k), nvm)
    BY <2>1, OwnCache, AllBacked, EvictBacked
  <2>. HIDE DEF c
  <2>. QED  BY <2>1, <2>2, <2>3, SetCacheBacked
<1>6. ASSUME NEW c \in Client, NEW s \in Server, Connect(c, s) PROVE CommittedIsStored'
  BY <1>3, <1>6 DEF Connect, storage
<1>7. ASSUME UNCHANGED nvm,
             \A x \in Caches : cache'[x] = cache[x] \/ cache'[x] = [i \in Slot |-> Empty]
      PROVE  CommittedIsStored'
  <2>1. Backed([i \in Slot |-> Empty], nvm)
    BY LooseStored DEF Backed
  <2>2. \A x \in Caches : Backed(cache'[x], nvm')
    BY <1>7, <2>1, AllBacked
  <2>. QED  BY <2>2 DEF CommittedIsStored, Backed, SlotStored
<1>8. ASSUME NEW s \in Server, ServerInit(s) PROVE CommittedIsStored'
  <2>1. /\ UNCHANGED nvm
        /\ \A x \in Caches : cache'[x] = cache[x] \/ cache'[x] = [i \in Slot |-> Empty]
    BY <1>8 DEF ServerInit, IInv, Caching, GoodCaches
  <2>. QED  BY <1>7, <2>1
<1>9. CASE Reset
  BY <1>7, <1>9 DEF Reset
<1>10. CASE UNCHANGED vars
  BY <1>3, <1>10 DEF vars
<1>. QED  BY <1>1, <1>2, <1>4, <1>5, <1>6, <1>8, <1>9, <1>10 DEF Next

\* A slot may be taken from a key that is marked committed without loss: unless
\* NVM was written behind the key store, it holds the same key, with the same
\* flags and an index that is no further on, in every cache and after every
\* failure.
THEOREM CommittedStays == Spec => []CommittedIsStored
<1>1. Init => CommittedIsStored
  <2>1. ASSUME Init, NEW x \in Caches, NEW i \in Slot PROVE cache[x][i].id = Erased
    BY <2>1, EmptyType DEF Init
  <2>. QED  BY <2>1 DEF CommittedIsStored
<1>2. IInv /\ CommittedIsStored /\ [Next]_vars => CommittedIsStored'
  BY BackedStep
<1>. QED  BY <1>1, <1>2, Invariant, PTL DEF Spec
-----------------------------------------------------------------------------
(* Requests for other keys.                                                *)

\* The slot s becomes t for the sake of k: it stays, or it was k's, empty or
\* to be had, and is k's or empty.
Spared(s, t, k) ==
  \/ t = s
  \/ t.id \in {Erased, k} /\ (s.id \in {Erased, k} \/ s.committed)
Spares(c, d, k) == \A i \in Slot : Spared(c[i], d[i], k)
AllSpared(k) == \A x \in Caches : Spares(cache[x], cache'[x], k)

LEMMA SparedTrans ==
  ASSUME NEW s, NEW t, NEW u, NEW k, Spared(s, t, k), Spared(t, u, k)
  PROVE  Spared(s, u, k)
BY DEF Spared

LEMMA SparesTrans ==
  ASSUME NEW c, NEW d, NEW e, NEW k, Spares(c, d, k), Spares(d, e, k)
  PROVE  Spares(c, e, k)
BY SparedTrans DEF Spares

LEMMA SparesSame == \A c, k : Spares(c, c, k)
BY DEF Spares, Spared

\* One slot is filled or emptied.
LEMMA FillSpares ==
  ASSUME NEW c, GoodCache(c), NEW k, NEW i \in Slot, NEW s, s.id \in {Erased, k},
         c[i].id \in {Erased, k} \/ c[i].committed
  PROVE  Spares(c, [c EXCEPT ![i] = s], k)
BY DEF GoodCache, Spares, Spared

LEMMA EvictSpares ==
  ASSUME NEW c, GoodCache(c), NEW k \in KeyId
  PROVE  Spares(c, EvictFromCache(c, k), k)
<1>1. CASE Cached(c, k)
  <2>1. FindInCache(c, k) \in Slot /\ c[FindInCache(c, k)].id = k
    BY <1>1, FindCached
  <2>. QED  BY <1>1, <2>1, EmptyType, FillSpares DEF EvictFromCache
<1>2. CASE ~Cached(c, k)
  BY <1>2, SparesSame DEF EvictFromCache
<1>. QED  BY <1>1, <1>2

\* The slot that GetKeyCacheSlot returns is empty or its key is committed.
LEMMA SlotToBeHad ==
  ASSUME NEW c, NEW kind, GetKeyCacheSlot(c, kind) # 0
  PROVE  /\ GetKeyCacheSlot(c, kind) \in Slot
         /\ \/ c[GetKeyCacheSlot(c, kind)].id = Erased
            \/ c[GetKeyCacheSlot(c, kind)].committed
<1>. DEFINE empty == {i \in SlotsFor(kind) : c[i].id = Erased}
            usable == IF empty # {} THEN empty
                      ELSE {i \in SlotsFor(kind) : c[i].committed}
<1>1. GetKeyCacheSlot(c, kind)
        = IF usable = {} THEN 0 ELSE CHOOSE i \in usable : \A j \in usable : i <= j
  BY DEF GetKeyCacheSlot
<1>2. /\ usable \subseteq SlotsFor(kind)
      /\ \A i \in usable : c[i].id = Erased \/ c[i].committed
  OBVIOUS
<1>. HIDE DEF usable
<1>3. usable # {}
  BY <1>1
<1>4. \E i \in usable : \A j \in usable : i <= j
  BY <1>2, <1>3, Constants, FirstSlot
<1>5. GetKeyCacheSlot(c, kind) \in usable
  BY <1>1, <1>3, <1>4
<1>. QED  BY <1>2, <1>5, Constants

\* A slot taken for k.
LEMMA WithSlotSpares ==
  ASSUME NEW c, GoodCache(c), NEW k \in KeyId, NEW kind, NEW s, s.id \in {Erased, k}
  PROVE  Spares(c, WithSlot(c, k, kind, s), k)
<1>. DEFINE rest == EvictFromCache(c, k)
            i == GetKeyCacheSlot(rest, kind)
<1>1. GoodCache(rest) /\ Spares(c, rest, k)
  BY EvictEdit, EvictSpares DEF Edit
<1>2. WithSlot(c, k, kind, s) = IF i = 0 THEN rest ELSE [rest EXCEPT ![i] = s]
  BY DEF WithSlot
<1>3. i # 0 => i \in Slot /\ (rest[i].id = Erased \/ rest[i].committed)
  BY SlotToBeHad
<1>. HIDE DEF rest, i
<1>. QED  BY <1>1, <1>2, <1>3, FillSpares, SparesTrans

\* k's copy changed in place.
LEMMA InPlaceSpares ==
  ASSUME NEW c, GoodCache(c), NEW k \in KeyId, Cached(c, k), NEW o
  PROVE  Spares(c, InPlace(c, k, o), k) /\ Spares(c, Updated(c, k, o, TRUE), k)
<1>1. ASSUME NEW i \in Slot
      PROVE  Spared(c[i], InPlace(c, k, o)[i], k) /\ Spared(c[i], Updated(c, k, o, TRUE)[i], k)
  <2>1. CASE c[i].id # k
    BY <2>1, InPlaceOther DEF Spared
  <2>2. CASE c[i].id = k
    <3>1. PutInPlace(c, k, o, i)
      BY <2>2, InPlaceSlot
    <3>2. /\ InPlace(c, k, o)[i].id = k
          /\ Updated(c, k, o, TRUE)[i] = Holding(k, o, TRUE)
      BY <3>1 DEF PutInPlace
    <3>3. Holding(k, o, TRUE).id = k
      BY DEF Holding
    <3>4. Updated(c, k, o, TRUE)[i].id = k
      BY <3>2, <3>3
    <3>. QED  BY <2>2, <3>2, <3>4 DEF Spared
  <2>. QED  BY <2>1, <2>2
<1>. QED  BY <1>1 DEF Spares

\* Freshening brings k in at the cost of a committed key at most.
LEMMA FreshenedSpares ==
  ASSUME IInv, NEW k \in KeyId
  PROVE  Spares(cache[CacheOf(k)], Freshened(k), k)
<1>. DEFINE c == cache[CacheOf(k)]
<1>1. GoodCache(c)
  BY OwnCache
<1>. DEFINE s == Holding(k, nvm[k], TRUE)
            kind == nvm[k].kind
<1>2. s.id \in {Erased, k}
  BY DEF Holding
<1>3. Freshened(k) = IF IsCached(k) THEN c ELSE WithSlot(c, k, kind, s)
  BY DEF Freshened
<1>. HIDE DEF c, s, kind
<1>4. Spares(c, WithSlot(c, k, kind, s), k) /\ Spares(c, c, k)
  BY <1>1, <1>2, WithSlotSpares, SparesSame
<1>5. Spares(c, Freshened(k), k)
  BY <1>3, <1>4
<1>. QED  BY <1>5 DEF c

\* A request that changes k's cache only.
LEMMA SetCacheSpares ==
  ASSUME IInv, NEW k \in KeyId, NEW c, SetCache(k, c), Spares(cache[CacheOf(k)], c, k)
  PROVE  AllSpared(k)
<1>1. \A x \in Caches : cache'[x] = IF x = CacheOf(k) THEN c ELSE cache[x]
  BY DEF SetCache, IInv, Caching, GoodCaches
<1>. QED  BY <1>1, SparesSame DEF AllSpared

\* Marking copies of k stale concerns its slots alone.
LEMMA StaleSpares ==
  ASSUME NEW caches, GoodCaches(caches), NEW k \in KeyId, NEW y, NEW x \in Caches
  PROVE  Spares(caches[x], MarkStale(caches, k, y)[x], k)
<1>1. ASSUME NEW i \in Slot PROVE Spared(caches[x][i], MarkStale(caches, k, y)[x][i], k)
  <2>. DEFINE s == caches[x][i]
  <2>1. s \in SlotState
    BY DEF GoodCaches
  <2>2. CASE MarkStale(caches, k, y)[x][i] = s
    BY <2>2 DEF Spared
  <2>3. CASE s.id = k /\ MarkStale(caches, k, y)[x][i] = [s EXCEPT !.stale = TRUE]
    <3>. HIDE DEF s
    <3>1. [s EXCEPT !.stale = TRUE].id = k
      BY <2>1, <2>3 DEF SlotState
    <3>. QED  BY <2>3, <3>1 DEF Spared, s
  <2>. QED  BY <2>2, <2>3 DEF MarkStale
<1>. QED  BY <1>1 DEF Spares

\* A request that writes k's object through its cache, or behind the caches.
LEMMA WriteSpares ==
  ASSUME IInv, NEW k \in KeyId, NEW c, GoodCache(c), NEW o, Write(k, c, o),
         Spares(cache[CacheOf(k)], c, k)
  PROVE  AllSpared(k)
<1>. DEFINE x == CacheOf(k)
            caches == [cache EXCEPT ![x] = c]
<1>1. x \in Caches
  BY OwnCache
<1>2. cache' = MarkStale(caches, k, x)
  BY DEF Write
<1>. HIDE DEF x
<1>3. caches[x] = c /\ \A y \in Caches \ {x} : caches[y] = cache[y]
  BY <1>1 DEF IInv, Caching, GoodCaches
<1>4. GoodCaches(caches)
  BY <1>1, <1>3 DEF IInv, Caching, GoodCaches, GoodCache
<1>. HIDE DEF caches
<1>5. ASSUME NEW y \in Caches PROVE Spares(cache[y], cache'[y], k)
  <2>1. Spares(cache[y], caches[y], k)
    BY <1>3, SparesSame DEF x
  <2>2. Spares(caches[y], cache'[y], k)
    BY <1>2, <1>4, StaleSpares
  <2>. QED  BY <2>1, <2>2, SparesTrans
<1>. QED  BY <1>5 DEF AllSpared

LEMMA BehindSpares ==
  ASSUME IInv, NEW k \in KeyId, cache' = MarkStale(cache, k, None)
  PROVE  AllSpared(k)
BY StaleSpares DEF AllSpared, IInv, Caching

\* Such a step leaves every other key to be found as it was.
LeavesOthers(k) ==
  /\ k \in KeyId /\ AllSpared(k) /\ at' = at
  /\ \A j \in KeyId \ {k} : nvm'[j] = nvm[j]

LEMMA OthersFound ==
  ASSUME IInv, IInv', CommittedIsStored, NEW k, LeavesOthers(k), NEW j \in KeyId \ {k}
  PROVE  Outdated(j) \/ Found(j)' = Found(j)
<1>. DEFINE x == CacheOf(j)
            c == cache[x]
            d == cache'[x]
<1>1. x \in Caches /\ GoodCache(c) /\ GoodCache(d) /\ CacheOf(j)' = x
  <2>1. x \in Caches /\ GoodCache(c) /\ CacheOf(j)' = x
    BY OwnCache DEF LeavesOthers, CacheOf
  <2>2. GoodCaches(cache')
    BY DEF IInv, Caching
  <2>. QED  BY <2>1, <2>2 DEF GoodCaches
<1>2. Spares(c, d, k) /\ nvm'[j] = nvm[j] /\ j # k /\ j # Erased
  <2>1. j # Erased
    BY Constants
  <2>2. Spares(c, d, k)
    BY <1>1 DEF LeavesOthers, AllSpared
  <2>. QED  BY <2>1, <2>2 DEF LeavesOthers
<1>. HIDE DEF x
<1>3. /\ IsCached(j) <=> Cached(c, j)
      /\ IsCached(j)' <=> Cached(d, j)
      /\ Cached(c, j) => Current(j) = c[FindInCache(c, j)].obj
      /\ ~Cached(c, j) => Current(j) = nvm[j]
      /\ Cached(d, j) => Current(j)' = d[FindInCache(d, j)].obj
      /\ ~Cached(d, j) => Current(j)' = nvm[j]
      /\ Outdated(j) <=> Cached(c, j) /\ c[FindInCache(c, j)].stale
  BY <1>1, <1>2 DEF IsCached, Current, CachedObject, Outdated, x
<1>4. /\ Known(j) <=> Cached(c, j) \/ nvm[j] # None
      /\ Known(j)' <=> Cached(d, j) \/ nvm[j] # None
  BY <1>2, <1>3 DEF Known
<1>5. \A i \in Slot : d[i].id = j => d[i] = c[i]
  BY <1>2 DEF Spares, Spared
<1>. HIDE DEF c, d
<1>6. CASE ~Cached(c, j)
  <2>1. ~Cached(d, j)
    BY <1>5, <1>6 DEF Cached
  <2>. QED  BY <1>3, <1>4, <1>6, <2>1 DEF Found
<1>7. CASE Cached(c, j)
  <2>1. PICK i \in Slot : c[i].id = j /\ FindInCache(c, j) = i
    BY <1>1, <1>7, FindCached
  <2>2. CASE d[i] = c[i]
    <3>1. Cached(d, j) /\ FindInCache(d, j) = i
      BY <1>1, <2>1, <2>2, FindUnique DEF Cached
    <3>. QED  BY <1>3, <1>4, <1>7, <2>1, <2>2, <3>1 DEF Found
  <2>3. CASE d[i] # c[i]
    <3>1. c[i].committed /\ d[i].id # j
      BY <1>2, <2>1, <2>3 DEF Spares, Spared
    <3>2. ~Cached(d, j)
      <4>. SUFFICES ASSUME NEW l \in Slot, d[l].id = j PROVE FALSE
        BY DEF Cached
      <4>1. c[l].id = j
        BY <1>5
      <4>2. l = i
        BY <1>1, <1>2, <2>1, <4>1 DEF GoodCache
      <4>. QED  BY <3>1, <4>2
    <3>3. CASE c[i].stale
      BY <1>3, <1>7, <2>1, <3>3
    <3>4. CASE ~c[i].stale
      <4>1. /\ nvm[j] # None /\ nvm[j].mat = c[i].obj.mat /\ nvm[j].flags = c[i].obj.flags
        BY <1>1, <1>2, <2>1, <3>1, <3>4 DEF CommittedIsStored, c
      <4>. QED  BY <1>3, <1>4, <1>7, <2>1, <3>2, <4>1 DEF Found
    <3>. QED  BY <3>3, <3>4
  <2>. QED  BY <2>2, <2>3
<1>. QED  BY <1>6, <1>7

\* A request that sets k's cache, and one that also writes k's object.
LEMMA SetLeaves ==
  ASSUME IInv, NEW k \in KeyId, NEW c, SetCache(k, c), UNCHANGED <<nvm, at>>,
         Spares(cache[CacheOf(k)], c, k)
  PROVE  LeavesOthers(k)
BY SetCacheSpares DEF LeavesOthers

LEMMA WriteLeaves ==
  ASSUME IInv, NEW k \in KeyId, NEW c, GoodCache(c), NEW o, Write(k, c, o), UNCHANGED at,
         Spares(cache[CacheOf(k)], c, k)
  PROVE  LeavesOthers(k)
<1>1. \A j \in KeyId \ {k} : nvm'[j] = nvm[j]
  BY DEF Write, IInv, Typed
<1>. QED  BY <1>1, WriteSpares DEF LeavesOthers

LEMMA BehindLeaves ==
  ASSUME IInv, NEW k \in KeyId, NEW o, nvm' = [nvm EXCEPT ![k] = o],
         cache' = MarkStale(cache, k, None), UNCHANGED at
  PROVE  LeavesOthers(k)
<1>1. \A j \in KeyId \ {k} : nvm'[j] = nvm[j]
  BY DEF IInv, Typed
<1>. QED  BY <1>1, BehindSpares DEF LeavesOthers

\* Requests of the key store that write no object.
LEMMA CacheRequestLeaves ==
  ASSUME IInv, NEW k \in KeyId,
         \/ \E kind \in ClientKinds, f \in FlagSets : CacheKey(k, kind, f)
         \/ \E kind \in {"small", "big"} : CacheKeyFails(k, kind)
         \/ EvictKey(k) \/ ExportKey(k) \/ FreshenFails(k)
         \/ \E e \in BOOLEAN : UseKey(k, e)
  PROVE  LeavesOthers(k)
<1>. DEFINE c == cache[CacheOf(k)]
<1>1. GoodCache(c)
  BY OwnCache
<1>2. ASSUME NEW kind, NEW s, s.id \in {Erased, k}, SetCache(k, WithSlot(c, k, kind, s)),
             UNCHANGED <<nvm, at>>
      PROVE  LeavesOthers(k)
  BY <1>1, <1>2, WithSlotSpares, SetLeaves
<1>3. ASSUME NEW kind, NEW f, CacheKey(k, kind, f) PROVE LeavesOthers(k)
  <2>. DEFINE s == Holding(k, NewObject(kind, f \ ServerOnly), FALSE)
  <2>1. s.id \in {Erased, k}
    BY DEF Holding
  <2>2. SetCache(k, WithSlot(c, k, kind, s)) /\ UNCHANGED <<nvm, at>>
    BY <1>3 DEF CacheKey
  <2>. HIDE DEF c, s
  <2>. QED  BY <1>2, <2>1, <2>2
<1>4. ASSUME NEW kind, CacheKeyFails(k, kind) PROVE LeavesOthers(k)
  BY <1>2, <1>4, EmptyType DEF CacheKeyFails
<1>5. CASE FreshenFails(k)
  BY <1>2, <1>5, EmptyType DEF FreshenFails
<1>6. CASE EvictKey(k)
  BY <1>1, <1>6, EvictSpares, SetLeaves DEF EvictKey
<1>7. CASE ExportKey(k)
  BY <1>7, FreshenedSpares, SetLeaves DEF ExportKey
<1>8. ASSUME NEW e \in BOOLEAN, UseKey(k, e) PROVE LeavesOthers(k)
  <2>1. CanFreshen(k) /\ UNCHANGED <<nvm, at>>
        /\ (SetCache(k, Freshened(k)) \/ SetCache(k, EvictFromCache(Freshened(k), k)))
    BY <1>8 DEF UseKey
  <2>2. Spares(c, Freshened(k), k) /\ Spares(c, EvictFromCache(Freshened(k), k), k)
    BY <2>1, FreshenedSpares, FreshenEdit, EvictSpares, SparesTrans DEF IInv
  <2>. QED  BY <2>1, <2>2, SetLeaves
<1>. QED  BY <1>3, <1>4, <1>5, <1>6, <1>7, <1>8

\* Those that write k's object to NVM, or destroy it.
LEMMA StoreLeaves ==
  ASSUME IInv, NEW k \in KeyId, CommitKey(k) \/ EraseKey(k) \/ RevokeKey(k)
  PROVE  LeavesOthers(k)
<1>. DEFINE c == cache[CacheOf(k)]
            d == Freshened(k)
            e == EvictFromCache(c, k)
            old == Current(k)
            o == Revoke(old)
<1>1. GoodCache(c)
  BY OwnCache
<1>2. CASE CommitKey(k)
  <2>. DEFINE q == CachedObject(k)
  <2>1. Cached(c, k) /\ Write(k, Updated(c, k, q, TRUE), q) /\ UNCHANGED at
        /\ q = c[FindInCache(c, k)].obj
    BY <1>2 DEF CommitKey, IsCached, CachedObject
  <2>. HIDE DEF c, q
  <2>2. q \in KeyObject
    BY <1>1, <2>1, FindCached
  <2>3. GoodCache(Updated(c, k, q, TRUE))
    BY <1>1, <2>1, <2>2, ReplaceEdit DEF Edit
  <2>4. Spares(c, Updated(c, k, q, TRUE), k)
    BY <1>1, <2>1, InPlaceSpares
  <2>. QED  BY <2>1, <2>3, <2>4, WriteLeaves DEF c
<1>3. CASE EraseKey(k)
  <2>1. /\ (SetCache(k, e) /\ UNCHANGED nvm) \/ Write(k, e, None)
        /\ UNCHANGED at
    BY <1>3 DEF EraseKey
  <2>2. Spares(c, e, k) /\ GoodCache(e)
    BY <1>1, EvictSpares, EvictEdit DEF Edit
  <2>. HIDE DEF e
  <2>3. CASE SetCache(k, e) /\ UNCHANGED nvm
    BY <2>1, <2>2, <2>3, SetLeaves
  <2>4. CASE Write(k, e, None)
    BY <2>1, <2>2, <2>4, WriteLeaves
  <2>. QED  BY <2>1, <2>3, <2>4
<1>4. CASE RevokeKey(k)
  <2>1. CanFreshen(k) /\ UNCHANGED at
    BY <1>4 DEF RevokeKey
  <2>2. /\ old \in KeyObject /\ GoodCache(d) /\ Cached(d, k)
        /\ d[FindInCache(d, k)].obj = old /\ Spares(c, d, k)
    BY <2>1, FreshenEdit, FreshenedSpares DEF IInv
  <2>3. o \in KeyObject /\ o.kind = old.kind
    BY <2>2, RevokeType
  <2>4. \/ SetCache(k, d) /\ UNCHANGED nvm
        \/ Write(k, Updated(d, k, o, TRUE), o)
        \/ SetCache(k, InPlace(d, k, o)) /\ UNCHANGED nvm
    BY <1>4 DEF RevokeKey
  <2>. HIDE DEF d, o, old
  <2>5. GoodCache(Updated(d, k, o, TRUE))
    BY <2>2, <2>3, ReplaceEdit DEF Edit
  <2>6. Spares(c, Updated(d, k, o, TRUE), k) /\ Spares(c, InPlace(d, k, o), k)
    BY <2>2, InPlaceSpares, SparesTrans
  <2>7. CASE SetCache(k, d) /\ UNCHANGED nvm
    BY <2>1, <2>2, <2>7, SetLeaves
  <2>8. CASE Write(k, Updated(d, k, o, TRUE), o)
    BY <2>1, <2>5, <2>6, <2>8, WriteLeaves
  <2>9. CASE SetCache(k, InPlace(d, k, o)) /\ UNCHANGED nvm
    BY <2>1, <2>6, <2>9, SetLeaves
  <2>. QED  BY <2>4, <2>7, <2>8, <2>9
<1>. QED  BY <1>2, <1>3, <1>4

\* Making a key with one-time signatures.
LEMMA KeyGenLeaves ==
  ASSUME IInv, NEW k \in KeyId, NEW f \in FlagSets, StatefulKeyGen(k, f)
  PROVE  LeavesOthers(k)
<1>. DEFINE c == cache[CacheOf(k)]
            o == NewObject("stateful", (f \ ServerOnly) \union {"nonexportable"})
            d(b) == WithSlot(c, k, "stateful", Holding(k, o, b))
<1>1. GoodCache(c)
  BY OwnCache
<1>2. /\ \/ SetCache(k, EvictFromCache(c, k)) /\ UNCHANGED nvm
         \/ made < MaxMaterial /\ Write(k, d(TRUE), o)
         \/ SetCache(k, d(FALSE)) /\ UNCHANGED nvm
      /\ UNCHANGED at
  BY DEF StatefulKeyGen
<1>3. /\ "stateful" \in Kinds
      /\ (f \ ServerOnly) \union {"nonexportable"} \in SUBSET Flags
  BY Constants DEF Kinds, Flags
<1>4. made < MaxMaterial => o \in KeyObject /\ o.kind = "stateful"
  BY <1>3, NewObjectType
<1>. HIDE DEF c, o
<1>5. CASE SetCache(k, EvictFromCache(c, k)) /\ UNCHANGED nvm
  BY <1>1, <1>2, <1>5, EvictSpares, SetLeaves DEF c
<1>6. CASE SetCache(k, d(FALSE)) /\ UNCHANGED nvm
  <2>. DEFINE s == Holding(k, o, FALSE)
  <2>1. s.id \in {Erased, k}
    BY DEF Holding
  <2>. HIDE DEF s
  <2>2. Spares(c, WithSlot(c, k, "stateful", s), k)
    BY <1>1, <2>1, WithSlotSpares
  <2>3. SetCache(k, WithSlot(c, k, "stateful", s)) /\ UNCHANGED <<nvm, at>>
    BY <1>2, <1>6 DEF s
  <2>. QED  BY <2>2, <2>3, SetLeaves DEF c
<1>7. CASE made < MaxMaterial /\ Write(k, d(TRUE), o)
  <2>. DEFINE s == Holding(k, o, TRUE)
  <2>1. s \in SlotState /\ s.id = k /\ s.obj = o
    BY <1>4, <1>7, HoldingType
  <2>. DEFINE e == WithSlot(c, k, "stateful", s)
  <2>2. Write(k, e, o) /\ UNCHANGED at
    BY <1>2, <1>7
  <2>. HIDE DEF s
  <2>3. GoodCache(e)
    <3>1. {o} \in SUBSET KeyObject /\ s.obj \in {o} /\ s.obj.kind = "stateful"
      BY <1>4, <1>7, <2>1
    <3>. QED  BY <1>1, <1>3, <2>1, <3>1, WithSlotEdit DEF Edit
  <2>4. Spares(c, e, k)
    BY <1>1, <2>1, WithSlotSpares
  <2>. HIDE DEF e
  <2>. QED  BY <2>2, <2>3, <2>4, WriteLeaves DEF c
<1>. QED  BY <1>2, <1>5, <1>6, <1>7

\* Signing.
LEMMA SignLeaves ==
  ASSUME IInv, NEW k \in KeyId, SignPersist(k) \/ \E e \in BOOLEAN : SignFails(k, e)
  PROVE  LeavesOthers(k)
<1>. DEFINE c == cache[CacheOf(k)]
            d == Freshened(k)
            old == Current(k)
            o == Advanced(old)
            p == InPlace(d, k, o)
<1>1. CanFreshen(k) /\ old.index < MaxIndex
  BY DEF SignPersist, SignFails
<1>2. /\ old \in KeyObject /\ GoodCache(d) /\ Cached(d, k)
      /\ d[FindInCache(d, k)].obj = old /\ Spares(c, d, k)
  BY <1>1, FreshenEdit, FreshenedSpares DEF IInv
<1>3. o \in KeyObject /\ o.kind = old.kind
  BY <1>1, <1>2, AdvancedType
<1>4. /\ UNCHANGED at
      /\ \/ Write(k, p, o)
         \/ UNCHANGED nvm /\ (SetCache(k, p) \/ SetCache(k, EvictFromCache(p, k)))
  BY DEF SignPersist, SignFails
<1>. HIDE DEF d, old, o
<1>5. GoodCache(p)
  BY <1>2, <1>3, ReplaceEdit DEF Edit
<1>6. Spares(c, p, k)
  BY <1>2, InPlaceSpares, SparesTrans
<1>. HIDE DEF p
<1>7. Spares(c, EvictFromCache(p, k), k)
  BY <1>5, <1>6, EvictSpares, SparesTrans
<1>8. CASE Write(k, p, o)
  BY <1>4, <1>5, <1>6, <1>8, WriteLeaves
<1>9. CASE UNCHANGED nvm /\ (SetCache(k, p) \/ SetCache(k, EvictFromCache(p, k)))
  BY <1>4, <1>6, <1>7, <1>9, SetLeaves
<1>. QED  BY <1>4, <1>8, <1>9

\* Sending a signature, which may evict its key.
LEMMA ReleaseLeaves ==
  ASSUME IInv, NEW e \in BOOLEAN, SignRelease(e)
  PROVE  \E k \in KeyId : LeavesOthers(k)
<1>. DEFINE k == signing.key
            c == cache[CacheOf(k)]
<1>1. k \in KeyId
  BY DEF SignRelease, IInv, Typed
<1>2. UNCHANGED <<nvm, at>> /\ (SetCache(k, c) \/ SetCache(k, EvictFromCache(c, k)))
  BY DEF SignRelease
<1>. HIDE DEF k
<1>3. Spares(c, c, k) /\ Spares(c, EvictFromCache(c, k), k)
  BY <1>1, OwnCache, SparesSame, EvictSpares
<1>4. LeavesOthers(k)
  BY <1>1, <1>2, <1>3, SetLeaves
<1>. QED  BY <1>1, <1>4

\* What a step may do to the keys it is not for.
OthersKept ==
  \/ at' # at
  \/ \E k \in KeyId : \A j \in KeyId \ {k} : Outdated(j) \/ Found(j)' = Found(j)
  \/ Restart

\* All steps.
LEMMA OthersStep ==
  ASSUME IInv, IInv', CommittedIsStored, [Next]_vars
  PROVE  OthersKept \/ UNCHANGED vars
<1>1. ASSUME NEW k, LeavesOthers(k) PROVE OthersKept
  <2>1. \A j \in KeyId \ {k} : Outdated(j) \/ Found(j)' = Found(j)
    BY <1>1, OthersFound
  <2>. QED  BY <1>1, <2>1 DEF OthersKept, LeavesOthers
<1>2. ASSUME NEW k \in KeyId, KeyRequest(k) PROVE OthersKept
  BY <1>1, <1>2, CacheRequestLeaves, StoreLeaves DEF KeyRequest
<1>3. ASSUME NEW k \in KeyId, StatefulRequest(k) PROVE OthersKept
  BY <1>1, <1>3, KeyGenLeaves, SignLeaves DEF StatefulRequest
<1>4. ASSUME NEW k \in KeyId, NvmRequest(k) PROVE OthersKept
  <2>1. CASE NvmRead(k)
    <3>1. AllSpared(k)
      BY <2>1, SparesSame DEF NvmRead, AllSpared
    <3>. QED  BY <1>1, <2>1, <3>1 DEF NvmRead, LeavesOthers
  <2>2. CASE NvmDestroyObjects(k)
    BY <1>1, <2>2, BehindLeaves DEF NvmDestroyObjects
  <2>3. ASSUME NEW kind, NEW f, NvmAddObject(k, kind, f) PROVE OthersKept
    BY <1>1, <2>3, BehindLeaves DEF NvmAddObject
  <2>. QED  BY <1>4, <2>1, <2>2, <2>3 DEF NvmRequest
<1>5. ASSUME NEW e \in BOOLEAN, SignRelease(e) PROVE OthersKept
  BY <1>1, <1>5, ReleaseLeaves
<1>6. ASSUME NEW c \in Client, NEW s \in Server, Connect(c, s) PROVE OthersKept
  <2>1. at[c] # s /\ at'[c] = s
    BY <1>6 DEF Connect, IInv, Typed
  <2>. QED  BY <2>1 DEF OthersKept
<1>7. ASSUME NEW s \in Server, ServerInit(s) PROVE OthersKept
  BY <1>7 DEF OthersKept, Restart
<1>8. CASE Reset
  BY <1>8 DEF OthersKept, Restart
<1>. QED  BY <1>2, <1>3, <1>4, <1>5, <1>6, <1>7, <1>8 DEF Next

\* A request for one key, even one that fails half way, takes nothing from any
\* other: what is found of it, its material and its flags, is as it was, unless
\* NVM was written behind the cached copy.
THEOREM OthersStay == Spec => OthersUntouched
<1>1. IInv /\ IInv' /\ CommittedIsStored /\ [Next]_vars => [OthersKept]_vars
  BY OthersStep
<1>2. Spec => []IInv /\ []CommittedIsStored
  BY Invariant, CommittedStays
<1>3. Spec => [][OthersKept]_vars
  BY <1>1, <1>2, PTL DEF Spec
<1>. QED  BY <1>3 DEF OthersUntouched, OthersKept
=============================================================================
