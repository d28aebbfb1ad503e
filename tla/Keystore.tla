------------------------------ MODULE Keystore ------------------------------
(***************************************************************************)
(* The key store of the server (src/wh_server_keystore.c) over the NVM     *)
(* objects (src/wh_nvm.c): keys live in the slots of a cache, are          *)
(* committed to NVM, dropped from the cache when room is needed, brought   *)
(* back when used, revoked and erased.  Each server context has a cache of *)
(* its own for the keys of its client; the global keys share one cache.    *)
(*                                                                         *)
(* A handler holds the NVM lock from its policy check to its last write,   *)
(* so it is one step.  The one step inside which a power loss matters, the *)
(* persisting of a signature index before the signature leaves, is two     *)
(* steps.  A request that is refused changes nothing and is no step.  NVM  *)
(* is the map of the abstract store NvmStore, which NvmFlash implements: a *)
(* write either happens or fails and leaves it alone.                      *)
(***************************************************************************)
EXTENDS Integers, FiniteSets

CONSTANTS KeyId,        \* key ids: a set of numbers without 0
          Server,       \* server contexts that share one NVM
          Client,       \* clients, each with an id of its own
          Global,       \* the cache of the global keys, not a server
          Owner,        \* [KeyId -> Client or Global], the USER field of the id
          SmallSlots,   \* WOLFHSM_CFG_SERVER_KEYCACHE_COUNT
          BigSlots,     \* WOLFHSM_CFG_SERVER_KEYCACHE_BIG_COUNT
          NvmSize,      \* WOLFHSM_CFG_NVM_OBJECT_COUNT
          ClientKinds,  \* the kinds of keys clients send: "small", "big"
          FlagSets,     \* the flags a client may ask for
          TrustedIds,   \* keys provisioned with the flag "trusted"
          MaxMaterial,  \* bound: how many key materials are ever made
          MaxIndex,     \* signatures one stateful key can make
          MaxMoves,     \* bound: how often a client changes server context
          None

VARIABLES cache,        \* [cache -> [Slot -> slot]]
          nvm,          \* [KeyId -> key object or None]
          at,           \* [Client -> Server], who serves the client
          signing,      \* a signature whose index is persisted, not yet sent
          made,         \* how many key materials were made
          released,     \* [material -> index after its last signature sent]
          reused,       \* history: an index was signed with twice
          moves,        \* [Client -> how often it changed server context]
          revoked,      \* history: keys whose revocation was persisted
          leaked        \* history: sealed materials that were sent out

storage == <<cache, nvm>>
history == <<made, released, reused, moves, revoked, leaked>>
vars == <<cache, nvm, at, signing, made, released, reused, moves, revoked, leaked>>

Erased == 0
Caches == Server \union {Global}
Slot == 1..(SmallSlots + BigSlots)
Kinds == {"small", "big", "stateful"}
Flags == {"nonmodifiable", "nondestroyable", "nonexportable", "usage", "trusted"}
ServerOnly == {"trusted"}
Material == 0..MaxMaterial
KeyObject == [mat: Material, kind: Kinds, index: 0..MaxIndex, flags: SUBSET Flags]

ASSUME KeystoreAssumption ==
  /\ KeyId \subseteq Nat \ {Erased}
  /\ Global \notin Server
  /\ Owner \in [KeyId -> Client \union {Global}]
  /\ Global \notin Client
  /\ SmallSlots \in Nat /\ BigSlots \in Nat /\ NvmSize \in Nat
  /\ MaxMaterial \in Nat /\ MaxIndex \in Nat /\ MaxMoves \in Nat
  /\ FlagSets \subseteq SUBSET Flags
  /\ ClientKinds \subseteq Kinds \ {"stateful"}
  /\ TrustedIds \subseteq KeyId
  /\ None \notin KeyObject \union Caches

\* A cache slot.  stale is history: the NVM object was changed by another way
\* than this copy since the copy was marked committed.
SlotState == [id: KeyId \union {Erased}, obj: KeyObject \union {None},
              committed: BOOLEAN, stale: BOOLEAN]
Empty == [id |-> Erased, obj |-> None, committed |-> FALSE, stale |-> FALSE]

\* Mutant: a slot keeps the flag of the key that was in it before.
M_Holding(k, o, committed) ==
  [id |-> k, obj |-> o, committed |-> TRUE, stale |-> FALSE]

\* A slot as _KeystoreCacheKey fills it.
Holding(k, o, committed) ==
  [id |-> k, obj |-> o, committed |-> committed, stale |-> FALSE]
-----------------------------------------------------------------------------
(* The cache: finding, evicting and finding room.                          *)

\* The cache a key id leads to: the global one, or that of the server context
\* its client is connected to.
CacheOf(k) == IF Owner[k] = Global THEN Global ELSE at[Owner[k]]

Cached(c, k) == \E i \in Slot : c[i].id = k

\* The first slot with this id.
FindInCache(c, k) ==
  CHOOSE i \in Slot : c[i].id = k /\ \A j \in Slot : c[j].id = k => i <= j

EvictFromCache(c, k) ==
  IF Cached(c, k) THEN [c EXCEPT ![FindInCache(c, k)] = Empty] ELSE c

\* A small key goes to the small slots, a stateful key reserves a big one.
SlotsFor(kind) == IF kind = "small" THEN 1..SmallSlots
                                    ELSE (SmallSlots + 1)..(SmallSlots + BigSlots)

\* Mutant: a key that is nowhere else may have to go.
M_TakesAny(c, kind) ==
  LET empty == {i \in SlotsFor(kind) : c[i].id = Erased}
      usable == IF empty # {} THEN empty ELSE SlotsFor(kind)
  IN IF usable = {} THEN 0 ELSE CHOOSE i \in usable : \A j \in usable : i <= j

\* Mutant: a big key takes a small slot when no big one is empty.
M_TakesAnySize(c, kind) ==
  LET empty == {i \in Slot : c[i].id = Erased}
      usable == IF empty # {} THEN empty ELSE {i \in SlotsFor(kind) : c[i].committed}
  IN IF usable = {} THEN 0 ELSE CHOOSE i \in usable : \A j \in usable : i <= j

\* The first empty slot, or else the first whose key is committed; 0 when every
\* slot holds a key that is nowhere else.
GetKeyCacheSlot(c, kind) ==
  LET empty == {i \in SlotsFor(kind) : c[i].id = Erased}
      usable == IF empty # {} THEN empty
                ELSE {i \in SlotsFor(kind) : c[i].committed}
  IN IF usable = {} THEN 0 ELSE CHOOSE i \in usable : \A j \in usable : i <= j

\* A copy of the key that is there already is evicted before room is looked for.
HasRoom(c, k, kind) == GetKeyCacheSlot(EvictFromCache(c, k), kind) # 0

\* Mutant: the copy that is there is not looked for.
M_WithSlot(c, k, kind, slot) ==
  LET i == GetKeyCacheSlot(c, kind)
  IN IF i = 0 THEN c ELSE [c EXCEPT ![i] = slot]

\* GetCacheSlot and then the caller's write to the slot it got, if it got one.
WithSlot(c, k, kind, slot) ==
  LET rest == EvictFromCache(c, k)
      i == GetKeyCacheSlot(rest, kind)
  IN IF i = 0 THEN rest ELSE [rest EXCEPT ![i] = slot]

CachedObject(k) == cache[CacheOf(k)][FindInCache(cache[CacheOf(k)], k)].obj
IsCached(k) == Cached(cache[CacheOf(k)], k)
IsCommitted(k) ==
  IsCached(k) /\ cache[CacheOf(k)][FindInCache(cache[CacheOf(k)], k)].committed

\* The cached copy of a key changed in place.
Updated(c, k, o, committed) == [c EXCEPT ![FindInCache(c, k)] = Holding(k, o, committed)]
\* Mutant: the copy in the slot is left as it was.
M_InPlace(c, k, o) == c
InPlace(c, k, o) == [c EXCEPT ![FindInCache(c, k)].obj = o]
-----------------------------------------------------------------------------
(* Policy.  The flags of the cached copy count, those of NVM if there is   *)
(* none.                                                                   *)

Known(k) == IsCached(k) \/ nvm[k] # None
Current(k) == IF IsCached(k) THEN CachedObject(k) ELSE nvm[k]

CheckPolicy(op, k) ==
  /\ Known(k)
  /\ Current(k).flags \intersect ServerOnly = {}
  /\ op = "cache" => "nonmodifiable" \notin Current(k).flags
  /\ op = "evict" => \/ IsCommitted(k)
                     \/ Current(k).flags \intersect {"nonmodifiable", "nondestroyable"} = {}
  /\ op = "export" => "nonexportable" \notin Current(k).flags

\* Mutant: a key that is in NVM only is not looked for.
M_MayCache(k) == IsCached(k) => CheckPolicy("cache", k)

\* What may take the id k: the policy allows it, or there is no such key yet.
MayCache(k) == Known(k) => CheckPolicy("cache", k)

\* Mutant: reading is not checked.
M_NvmPolicy(op, k) ==
  /\ nvm[k].flags \intersect ServerOnly = {}
  /\ op = "add" => "nonmodifiable" \notin nvm[k].flags
  /\ op = "destroy" => nvm[k].flags \intersect {"nonmodifiable", "nondestroyable"} = {}

\* The policy of the NVM requests of a client, which name the object directly.
NvmPolicy(op, k) ==
  /\ nvm[k].flags \intersect ServerOnly = {}
  /\ op = "add" => "nonmodifiable" \notin nvm[k].flags
  /\ op = "destroy" => nvm[k].flags \intersect {"nonmodifiable", "nondestroyable"} = {}
  /\ op = "read" => "nonexportable" \notin nvm[k].flags
-----------------------------------------------------------------------------
(* Writing to NVM.                                                         *)

Stored == {k \in KeyId : nvm[k] # None}

\* AddObjectWithReclaim needs a free entry after compaction, also to replace.
NvmHasRoom == Cardinality(Stored) < NvmSize

\* Every copy of k but the one in cache x is out of date from now on.
MarkStale(caches, k, x) ==
  [y \in Caches |->
     IF y = x \/ ~Cached(caches[y], k) THEN caches[y]
     ELSE [i \in Slot |-> IF caches[y][i].id = k
                          THEN [caches[y][i] EXCEPT !.stale = TRUE] ELSE caches[y][i]]]

\* k's cache becomes c and its object o is written to NVM.
Write(k, c, o) ==
  /\ nvm' = [nvm EXCEPT ![k] = o]
  /\ cache' = MarkStale([cache EXCEPT ![CacheOf(k)] = c], k, CacheOf(k))

SetCache(k, c) == cache' = [cache EXCEPT ![CacheOf(k)] = c]

NewObject(kind, flags) == [mat |-> made + 1, kind |-> kind, index |-> 0, flags |-> flags]

\* Copies of a material that may not leave the server, anywhere in it.
Sealed(m) ==
  \/ \E k \in Stored : nvm[k].mat = m /\ "nonexportable" \in nvm[k].flags
  \/ \E x \in Caches, i \in Slot :
       /\ cache[x][i].id # Erased /\ cache[x][i].obj.mat = m
       /\ "nonexportable" \in cache[x][i].obj.flags
Leaving(o) == leaked' = IF Sealed(o.mat) THEN leaked \union {o.mat} ELSE leaked
-----------------------------------------------------------------------------
Init ==
  /\ cache = [x \in Caches |-> [i \in Slot |-> Empty]]
  /\ nvm = [k \in KeyId |->
              IF k \in TrustedIds
              THEN [mat |-> 0, kind |-> "small", index |-> 0,
                    flags |-> {"trusted", "nonexportable", "usage"}]
              ELSE None]
  /\ at \in [Client -> Server]
  /\ \A c, d \in Client : at[c] = at[d] => c = d
  /\ signing = None
  /\ made = 0
  /\ released = [m \in Material |-> 0]
  /\ reused = FALSE
  /\ moves = [c \in Client |-> 0]
  /\ revoked = {}
  /\ leaked = {}

\* A key sent by the client, made by the RNG or by a key generation, is put in
\* the cache.  The copy that was there is evicted first, so when there is no
\* room the request fails with the old copy gone.
CacheKey(k, kind, flags) ==
  /\ signing = None
  /\ MayCache(k)
  /\ made < MaxMaterial
  /\ SetCache(k, WithSlot(cache[CacheOf(k)], k, kind,
                          Holding(k, NewObject(kind, flags \ ServerOnly), FALSE)))
  /\ made' = IF HasRoom(cache[CacheOf(k)], k, kind) THEN made + 1 ELSE made
  /\ UNCHANGED <<nvm, at, signing, released, reused, moves, revoked, leaked>>

\* The DMA copy or the generation fails after the slot was taken: it is empty.
CacheKeyFails(k, kind) ==
  /\ signing = None
  /\ MayCache(k)
  /\ SetCache(k, WithSlot(cache[CacheOf(k)], k, kind, Empty))
  /\ UNCHANGED <<nvm, at, signing, history>>

EvictKey(k) ==
  /\ signing = None
  /\ IsCached(k)
  /\ CheckPolicy("evict", k)
  /\ SetCache(k, EvictFromCache(cache[CacheOf(k)], k))
  /\ UNCHANGED <<nvm, at, signing, history>>

\* The cache of k with k in it, brought from NVM if need be.
Freshened(k) ==
  IF IsCached(k) THEN cache[CacheOf(k)]
  ELSE WithSlot(cache[CacheOf(k)], k, nvm[k].kind, Holding(k, nvm[k], TRUE))
CanFreshen(k) ==
  IsCached(k) \/ (nvm[k] # None /\ HasRoom(cache[CacheOf(k)], k, nvm[k].kind))

\* Reading a key out.  It stays in the cache if there is room for it.
ExportKey(k) ==
  /\ signing = None
  /\ CheckPolicy("export", k)
  /\ SetCache(k, Freshened(k))
  /\ Leaving(Current(k))
  /\ UNCHANGED <<nvm, at, signing, made, released, reused, moves, revoked>>

\* A cryptographic operation with the key, or the export of its public half;
\* the client may ask to have the key evicted afterwards, whatever its flags
\* and whether or not the operation succeeded.
UseKey(k, evict) ==
  /\ signing = None
  /\ CanFreshen(k)
  /\ SetCache(k, IF evict THEN EvictFromCache(Freshened(k), k) ELSE Freshened(k))
  /\ UNCHANGED <<nvm, at, signing, history>>

\* The key cannot be read from NVM: the slot it was to have stays empty.
FreshenFails(k) ==
  /\ signing = None
  /\ ~IsCached(k) /\ CanFreshen(k)
  /\ SetCache(k, WithSlot(cache[CacheOf(k)], k, nvm[k].kind, Empty))
  /\ UNCHANGED <<nvm, at, signing, history>>

CommitKey(k) ==
  /\ signing = None
  /\ CheckPolicy("commit", k)
  /\ IsCached(k)
  /\ NvmHasRoom
  /\ Write(k, Updated(cache[CacheOf(k)], k, CachedObject(k), TRUE), CachedObject(k))
  /\ UNCHANGED <<at, signing, history>>

\* The cached copy goes first; NVM may still refuse to destroy the object, or
\* fail to, or destroy it.  (The eviction may be refused with the key in NVM
\* only, whose flags then refuse the destroy as well.)
EraseKey(k) ==
  /\ signing = None
  /\ Known(k) => CheckPolicy("evict", k)
  /\ \/ /\ SetCache(k, EvictFromCache(cache[CacheOf(k)], k))
        /\ UNCHANGED nvm
     \/ /\ nvm[k] # None
        /\ NvmPolicy("destroy", k)
        /\ Write(k, EvictFromCache(cache[CacheOf(k)], k), None)
  /\ UNCHANGED <<at, signing, history>>

Revoke(o) == [o EXCEPT !.flags = (@ \union {"nonmodifiable"}) \ {"usage"}]
IsRevoked(o) == "nonmodifiable" \in o.flags /\ "usage" \notin o.flags

\* The revocation is persisted before the cached copy changes, if the key is in
\* NVM at all.
RevokeKey(k) ==
  /\ signing = None
  /\ CheckPolicy("revoke", k)
  /\ CanFreshen(k)
  /\ LET o == Revoke(Current(k)) IN
     IF IsRevoked(Current(k)) /\ (IsCommitted(k) \/ ~IsCached(k))
     THEN SetCache(k, Freshened(k)) /\ UNCHANGED <<nvm, revoked>>
     ELSE \/ /\ nvm[k] # None
             /\ NvmHasRoom
             /\ Write(k, Updated(Freshened(k), k, o, TRUE), o)
             /\ revoked' = revoked \union {k}
          \/ /\ nvm[k] # None              \* the write to NVM fails
             /\ SetCache(k, Freshened(k))
             /\ UNCHANGED <<nvm, revoked>>
          \/ /\ nvm[k] = None
             /\ SetCache(k, InPlace(Freshened(k), k, o))
             /\ UNCHANGED <<nvm, revoked>>
  /\ UNCHANGED <<at, signing, made, released, reused, moves, leaked>>
-----------------------------------------------------------------------------
(* Stateful signature keys (LMS and XMSS): one index, one signature.       *)

\* The key is put in the cache and committed at once; if that fails it stays in
\* the cache, uncommitted.
StatefulKeyGen(k, flags) ==
  /\ signing = None
  /\ MayCache(k)
  /\ made < MaxMaterial
  /\ LET o == NewObject("stateful", (flags \ ServerOnly) \union {"nonexportable"})
         c == cache[CacheOf(k)]
     IN IF ~HasRoom(c, k, "stateful")
        THEN SetCache(k, EvictFromCache(c, k)) /\ UNCHANGED <<nvm, made>>
        ELSE /\ made' = made + 1
             /\ \/ NvmHasRoom /\ Write(k, WithSlot(c, k, "stateful", Holding(k, o, TRUE)), o)
                \/ SetCache(k, WithSlot(c, k, "stateful", Holding(k, o, FALSE))) /\ UNCHANGED nvm
  /\ UNCHANGED <<at, signing, released, reused, moves, revoked, leaked>>

\* Mutant: the index is advanced after the signature was sent, if at all.
M_Advanced(o) == o
Advanced(o) == [o EXCEPT !.index = @ + 1]

\* The signature is computed, the index advanced in the cached copy and the
\* copy written to NVM.  If the write fails the signature is wiped, and the
\* index of the cached copy stays advanced.  The usage flags are not looked at.
SignPersist(k) ==
  /\ signing = None
  /\ CanFreshen(k)
  /\ Current(k).kind = "stateful"
  /\ Current(k).index < MaxIndex
  /\ LET old == Current(k)
         o == Advanced(old)
     IN /\ NvmHasRoom
        /\ Write(k, InPlace(Freshened(k), k, o), o)
        /\ signing' = [key |-> k, mat |-> old.mat, index |-> old.index]
  /\ UNCHANGED <<at, history>>

SignFails(k, evict) ==
  /\ signing = None
  /\ CanFreshen(k)
  /\ Current(k).kind = "stateful"
  /\ Current(k).index < MaxIndex
  /\ LET c == InPlace(Freshened(k), k, Advanced(Current(k)))
     IN SetCache(k, IF evict THEN EvictFromCache(c, k) ELSE c)
  /\ UNCHANGED <<nvm, at, signing, history>>

\* The signature is handed to the client, and the key evicted if asked for.
SignRelease(evict) ==
  /\ signing # None
  /\ reused' = (reused \/ signing.index < released[signing.mat])
  /\ released' = [released EXCEPT ![signing.mat] = signing.index + 1]
  /\ SetCache(signing.key, IF evict THEN EvictFromCache(cache[CacheOf(signing.key)], signing.key)
                                    ELSE cache[CacheOf(signing.key)])
  /\ signing' = None
  /\ UNCHANGED <<nvm, at, made, moves, revoked, leaked>>
-----------------------------------------------------------------------------
(* The NVM requests of a client, which do not go through the cache.        *)

NvmAddObject(k, kind, flags) ==
  /\ signing = None
  /\ nvm[k] # None => NvmPolicy("add", k)
  /\ NvmHasRoom
  /\ made < MaxMaterial
  /\ made' = made + 1
  /\ nvm' = [nvm EXCEPT ![k] = NewObject(kind, flags \ ServerOnly)]
  /\ cache' = MarkStale(cache, k, None)
  /\ UNCHANGED <<at, signing, released, reused, moves, revoked, leaked>>

NvmDestroyObjects(k) ==
  /\ signing = None
  /\ nvm[k] # None
  /\ NvmPolicy("destroy", k)
  /\ nvm' = [nvm EXCEPT ![k] = None]
  /\ cache' = MarkStale(cache, k, None)
  /\ UNCHANGED <<at, signing, history>>

NvmRead(k) ==
  /\ signing = None
  /\ nvm[k] # None
  /\ NvmPolicy("read", k)
  /\ Leaving(nvm[k])
  /\ UNCHANGED <<cache, nvm, at, signing, made, released, reused, moves, revoked>>
-----------------------------------------------------------------------------
\* A client reconnects, to a server context that no other client is connected
\* to.  Nothing is done to the cache of the context it leaves, nor to that of
\* the one it comes to.
Connect(c, s) ==
  /\ signing = None
  /\ \A d \in Client : at[d] # s
  /\ moves[c] < MaxMoves
  /\ at' = [at EXCEPT ![c] = s]
  /\ moves' = [moves EXCEPT ![c] = @ + 1]
  /\ UNCHANGED <<storage, signing, made, released, reused, revoked, leaked>>

\* The application initialises a server context anew, as it may when a client
\* has closed its connection: its own cache is cleared.
ServerInit(s) ==
  /\ signing = None
  /\ cache' = [cache EXCEPT ![s] = [i \in Slot |-> Empty]]
  /\ UNCHANGED <<nvm, at, signing, history>>

\* Power loss: the caches are gone, NVM remains.
Reset ==
  /\ cache' = [x \in Caches |-> [i \in Slot |-> Empty]]
  /\ signing' = None
  /\ UNCHANGED <<nvm, at, history>>

KeyRequest(k) ==
  \/ \E kind \in ClientKinds, f \in FlagSets : CacheKey(k, kind, f)
  \/ \E kind \in {"small", "big"} : CacheKeyFails(k, kind)
  \/ EvictKey(k)
  \/ ExportKey(k)
  \/ \E e \in BOOLEAN : UseKey(k, e)
  \/ FreshenFails(k)
  \/ CommitKey(k)
  \/ EraseKey(k)
  \/ RevokeKey(k)

StatefulRequest(k) ==
  \/ \E f \in FlagSets : StatefulKeyGen(k, f)
  \/ SignPersist(k)
  \/ \E e \in BOOLEAN : SignFails(k, e)

NvmRequest(k) ==
  \/ \E kind \in ClientKinds, f \in FlagSets : NvmAddObject(k, kind, f)
  \/ NvmDestroyObjects(k)
  \/ NvmRead(k)

Next ==
  \/ \E k \in KeyId : KeyRequest(k) \/ StatefulRequest(k) \/ NvmRequest(k)
  \/ \E e \in BOOLEAN : SignRelease(e)
  \/ \E c \in Client, s \in Server : Connect(c, s)
  \/ \E s \in Server : ServerInit(s)
  \/ Reset

Spec == Init /\ [][Next]_vars
-----------------------------------------------------------------------------
(* Properties.  A server context that a client has left keeps its copies;  *)
(* what is promised for the client's keys is promised until it has moved.  *)

Settled(k) == Owner[k] \in Client => moves[Owner[k]] = 0

\* Types; and a big key is never in a small slot, whose buffer it would overrun.
TypeOK ==
  /\ cache \in [Caches -> [Slot -> SlotState]]
  /\ nvm \in [KeyId -> KeyObject \union {None}]
  /\ at \in [Client -> Server]
  /\ signing \in [key: KeyId, mat: Material, index: 0..MaxIndex] \union {None}
  /\ made \in Material /\ released \in [Material -> 0..(MaxIndex + 1)]
  /\ reused \in BOOLEAN /\ moves \in [Client -> 0..MaxMoves]
  /\ revoked \subseteq KeyId /\ leaked \subseteq Material
  /\ \A x \in Caches, i \in Slot :
       cache[x][i].id # Erased => cache[x][i].obj # None /\ i \in SlotsFor(cache[x][i].obj.kind)

\* A key is in one slot of a cache at most: a lookup stops at the first one, so
\* a second copy would keep an old key, old flags or an old signature index, and
\* come back once the first is evicted.
OneCopy ==
  \A x \in Caches, i, j \in Slot :
    cache[x][i].id = cache[x][j].id /\ cache[x][i].id # Erased => i = j

\* A slot whose key is marked committed may be taken for another key without
\* asking: NVM then holds this very key, with these flags and with a signature
\* index that is no further on than the one of the cached copy.
CommittedIsStored ==
  \A x \in Caches, i \in Slot :
    LET s == cache[x][i] IN
    s.id # Erased /\ s.committed /\ ~s.stale =>
      /\ nvm[s.id] # None
      /\ nvm[s.id].mat = s.obj.mat
      /\ nvm[s.id].flags = s.obj.flags
      /\ nvm[s.id].index <= s.obj.index

\* What a request for the key k would find; copies that NVM was changed under
\* are exempt.
Outdated(k) == IsCached(k) /\
  cache[CacheOf(k)][FindInCache(cache[CacheOf(k)], k)].stale
Found(k) == IF ~Known(k) THEN None
            ELSE [mat |-> Current(k).mat, flags |-> Current(k).flags]

\* A request for one key, even one that fails half way, takes nothing from
\* another one: neither its material nor its flags change, and it does not
\* disappear, although its slot may be taken.
Restart == Reset \/ \E s \in Server : ServerInit(s)
OthersUntouched ==
  [][\/ at' # at
     \/ \E k \in KeyId : \A j \in KeyId \ {k} : Outdated(j) \/ Found(j)' = Found(j)
     \/ Restart]_vars

\* No signature leaves the server for an index that an earlier signature of the
\* same key was made with, whatever fails and whenever the power is lost,
\* except for keys of clients that changed server context.
NoIndexReuse == reused => \E c \in Client : moves[c] > 0

\* The same without the exception: the run KeystoreMoved refutes it.
NeverReused == ~reused

\* Why: every copy that a later signature could start from is past all released
\* indices, and past the one being released.
CopiesAreFresh ==
  \A k \in KeyId : Settled(k) =>
    /\ nvm[k] # None => nvm[k].index >= released[nvm[k].mat]
    /\ \A x \in Caches, i \in Slot :
         cache[x][i].id = k => cache[x][i].obj.index >= released[cache[x][i].obj.mat]

\* Once the revocation of a key is persisted, the key is never usable again and
\* never replaced, by any sequence of requests and resets.
RevokedForGood ==
  \A k \in revoked : Settled(k) => Known(k) /\ IsRevoked(Current(k))

\* A revoked key does not sign: refuted by the run KeystoreRevokedSign.
RevokedDoesNotSign ==
  [][\A k \in revoked : (signing = None /\ signing' # None) => signing'.key # k]_vars

\* No material that is marked as not exportable anywhere in the server is sent
\* out, by a key export or by an NVM read.
SealedStaysInside == leaked = {}
=============================================================================
