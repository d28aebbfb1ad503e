-------------------------------- MODULE She --------------------------------
(***************************************************************************)
(* The SHE extension, src/wh_server_she.c, over NVM and the key cache:     *)
(* secure boot, the memory update protocol, the RAM key and the seed of    *)
(* the random generator.                                                   *)
(*                                                                         *)
(* Several servers share one set of slots, as in a build with              *)
(* WOLFHSM_CFG_SHE_GLOBAL_KEYS (one server is a build without); each has   *)
(* its own SHE context.  A command that touches a slot runs under the NVM  *)
(* lock and is one action.  Slots are read from the cache first, and a     *)
(* read of NVM may leave a committed copy there.                           *)
(*                                                                         *)
(* Cryptography is ideal: a message for a slot is accepted only from who   *)
(* knows the authorizing key, and the value of BOOT_MAC is named by the    *)
(* BOOT_MAC_KEY under which it is the code of the genuine image.  The UID  *)
(* a message names, with the wildcard flag, only refuses messages and is   *)
(* left out, as are the outputs of the ciphers and of the generator.       *)
(***************************************************************************)
EXTENDS Integers, FiniteSets

CONSTANTS Server,     \* server contexts
          App,        \* KEY_1 .. KEY_N
          Key,        \* values of slots
          Zero,       \* the value of an empty MASTER_ECU_KEY
          MaxCount,   \* the largest counter (2^28 - 1 in the code)
          ImageSize,  \* size of the genuine image
          MaxSize,    \* the largest size a client announces
          MaxSeed,    \* bound: updates of the seed
          Provision,  \* the contents NVM is provisioned with
          Targets,    \* bound: the slots that clients load
          Primes      \* bound: the slots that clients prime

Slot == {"secret", "master", "boot_key", "boot_mac", "ram"} \union App
Empty == [count |-> -1]                   \* WH_ERROR_NOTFOUND
Record == [val: Key, count: 0 .. MaxCount, wp: BOOLEAN]
Copy == [val: Key, count: 0 .. MaxCount, wp: BOOLEAN, committed: BOOLEAN]
NoCmac == [len |-> -1]
Cmac == [key: Key, len: 0 .. MaxSize, size: 0 .. MaxSize, good: BOOLEAN]
NoPieces == [size |-> 0, good |-> TRUE]

ASSUME SheAssumption ==
  /\ MaxCount \in Nat /\ MaxSeed \in Nat \ {0}
  /\ ImageSize \in Nat \ {0} /\ MaxSize \in Nat /\ ImageSize <= MaxSize
  /\ Zero \notin Key
  /\ Provision \subseteq [Slot -> Record \union {Empty}]
  /\ \A p \in Provision : p["ram"] = Empty
  /\ Targets \subseteq Slot \ {"secret"}
  /\ Primes \subseteq Slot

VARIABLES
  nvm,       \* the records in NVM
  cache,     \* the copies in the cache
  seed,      \* PRNG_SEED in NVM: how often it was changed
  seedCopy,  \* its copy in the cache, or 0
  uid,       \* uidSet of each server
  sb,        \* sbState
  blSize,    \* the size announced
  blRecv,    \* blSizeReceived
  cmac,      \* sheCmac
  keyFound,  \* cmacKeyFound
  rnd,       \* rndInited
  fed,       \* history: the pieces fed since SECURE_BOOT_INIT
  cut,       \* history: a GET_ID came in between
  started,   \* history: the last seed a generator was started with
  primed,    \* history: slots with a primed copy since they were written
  unread     \* history: a read of NVM failed

slots == <<nvm, cache>>
seeds == <<seed, seedCopy, rnd, started>>
boot == <<sb, blSize, blRecv, cmac, keyFound, fed, cut>>
vars == <<slots, seeds, boot, uid, primed, unread>>

(***************************************************************************)
(* Reading slots: wh_Server_KeystoreReadKey.                               *)
(***************************************************************************)
Stripped(c) == [val |-> c.val, count |-> c.count, wp |-> c.wp]
Committed(r) == [val |-> r.val, count |-> r.count, wp |-> r.wp, committed |-> TRUE]

Visible(k) == IF cache[k] # Empty THEN Stripped(cache[k]) ELSE nvm[k]

\* An empty MASTER_ECU_KEY reads as a key of zeros with counter 0.
ZeroKey == [val |-> Zero, count |-> 0, wp |-> FALSE]
ReadSlot(k) == IF k = "master" /\ Visible(k) = Empty THEN ZeroKey ELSE Visible(k)

\* A read from NVM caches the record if there is room; SECRET_KEY stays out.
Cached(k) ==
  IF cache[k] = Empty /\ nvm[k] # Empty /\ k # "secret"
  THEN {cache, [cache EXCEPT ![k] = Committed(nvm[k])]}
  ELSE {cache}

ReadSeed == IF seedCopy # 0 THEN seedCopy ELSE seed

Init ==
  /\ nvm \in Provision
  /\ cache = [k \in Slot |-> Empty]
  /\ seed = 1 /\ seedCopy = 0 /\ started = 0
  /\ uid = [s \in Server |-> FALSE]
  /\ sb = [s \in Server |-> "INIT"]
  /\ blSize = [s \in Server |-> 0] /\ blRecv = [s \in Server |-> 0]
  /\ cmac = [s \in Server |-> NoCmac]
  /\ keyFound = [s \in Server |-> FALSE]
  /\ rnd = [s \in Server |-> FALSE]
  /\ fed = [s \in Server |-> NoPieces]
  /\ cut = [s \in Server |-> FALSE]
  /\ primed = {} /\ unread = FALSE

(***************************************************************************)
(* The gate in front of the commands, and the UID.                         *)
(***************************************************************************)
MayBoot(s) == uid[s]
Ready(s) == uid[s] /\ sb[s] = "SUCCESS"

SetUid(s) ==
  /\ ~uid[s]
  /\ uid' = [uid EXCEPT ![s] = TRUE]
  /\ UNCHANGED <<slots, seeds, boot, primed, unread>>

(***************************************************************************)
(* Secure boot.                                                            *)
(***************************************************************************)
\* Mutant: the bytes received so far are not forgotten.
M_BackToInit(s) ==
  /\ sb' = [sb EXCEPT ![s] = "INIT"]
  /\ blSize' = [blSize EXCEPT ![s] = 0]
  /\ keyFound' = [keyFound EXCEPT ![s] = FALSE]
  /\ cmac' = [cmac EXCEPT ![s] = NoCmac]
  /\ fed' = [fed EXCEPT ![s] = NoPieces]
  /\ cut' = [cut EXCEPT ![s] = FALSE]
  /\ UNCHANGED blRecv

\* What a failing boot command leaves.  sheCmac is set up again before its
\* next use.
BackToInit(s) ==
  /\ sb' = [sb EXCEPT ![s] = "INIT"]
  /\ blSize' = [blSize EXCEPT ![s] = 0]
  /\ blRecv' = [blRecv EXCEPT ![s] = 0]
  /\ keyFound' = [keyFound EXCEPT ![s] = FALSE]
  /\ cmac' = [cmac EXCEPT ![s] = NoCmac]
  /\ fed' = [fed EXCEPT ![s] = NoPieces]
  /\ cut' = [cut EXCEPT ![s] = FALSE]

\* ERC_NO_SECURE_BOOT: without a key there is nothing to measure.
Unmeasured(s, n) ==
  /\ sb' = [sb EXCEPT ![s] = "SUCCESS"]
  /\ blSize' = [blSize EXCEPT ![s] = n]
  /\ keyFound' = [keyFound EXCEPT ![s] = FALSE]
  /\ UNCHANGED <<blRecv, cmac, fed, cut>>

SecureBootInit(s, n) ==
  /\ MayBoot(s)
  /\ sb[s] = "INIT"
  /\ IF Visible("boot_key") = Empty
     THEN Unmeasured(s, n) /\ UNCHANGED cache
     ELSE /\ cache' \in Cached("boot_key")
          /\ sb' = [sb EXCEPT ![s] = "UPDATE"]
          /\ blSize' = [blSize EXCEPT ![s] = n]
          /\ keyFound' = [keyFound EXCEPT ![s] = TRUE]
          /\ cmac' = [cmac EXCEPT ![s] = [key |-> Visible("boot_key").val,
                                          len |-> n, size |-> 0, good |-> TRUE]]
          /\ UNCHANGED <<blRecv, fed, cut>>
  /\ UNCHANGED <<nvm, seeds, uid, primed, unread>>

\* Any other error of the read is taken for a missing key.
SecureBootInitUnread(s, n) ==
  /\ MayBoot(s)
  /\ sb[s] = "INIT"
  /\ cache["boot_key"] = Empty
  /\ ~unread
  /\ unread' = TRUE
  /\ Unmeasured(s, n)
  /\ UNCHANGED <<slots, seeds, uid, primed>>

\* The next piece of the image, n bytes, g if they are the genuine ones.
SecureBootUpdate(s, n, g) ==
  /\ MayBoot(s)
  /\ sb[s] = "UPDATE"
  /\ IF blRecv[s] + n > blSize[s]
     THEN BackToInit(s)
     ELSE /\ blRecv' = [blRecv EXCEPT ![s] = @ + n]
          /\ sb' = [sb EXCEPT ![s] = IF blRecv[s] + n = blSize[s] THEN "FINISH" ELSE @]
          /\ cmac' = [cmac EXCEPT ![s] =
                        IF @ = NoCmac THEN @
                        ELSE [key |-> @.key, len |-> @.len,
                              size |-> @.size + n, good |-> @.good /\ g]]
          /\ fed' = [fed EXCEPT ![s] = [size |-> @.size + n, good |-> @.good /\ g]]
          /\ UNCHANGED <<blSize, keyFound, cut>>
  /\ UNCHANGED <<slots, seeds, uid, primed, unread>>

\* Mutant: the size is not part of what the code covers.
M_Matches(s) ==
  /\ cmac[s] # NoCmac
  /\ cmac[s].key = Visible("boot_mac").val
  /\ cmac[s].good

\* The code of the image under the key that was read, against BOOT_MAC.
Matches(s) ==
  /\ cmac[s] # NoCmac
  /\ cmac[s].key = Visible("boot_mac").val
  /\ cmac[s].len = ImageSize
  /\ cmac[s].size = ImageSize
  /\ cmac[s].good

\* FAILURE, which a mismatch sets, is overwritten when the command returns.
SecureBootFinish(s) ==
  /\ MayBoot(s)
  /\ sb[s] = "FINISH"
  /\ IF Visible("boot_mac") = Empty
     THEN BackToInit(s) /\ UNCHANGED cache
     ELSE /\ cache' \in Cached("boot_mac")
          /\ IF Matches(s)
             THEN /\ sb' = [sb EXCEPT ![s] = "SUCCESS"]
                  /\ cmac' = [cmac EXCEPT ![s] = NoCmac]
                  /\ UNCHANGED <<blSize, blRecv, keyFound, fed, cut>>
             ELSE BackToInit(s)
  /\ UNCHANGED <<nvm, seeds, uid, primed, unread>>

\* A boot command out of sequence undoes what was reached, a success as well.
SecureBootOutOfSequence(s) ==
  /\ MayBoot(s)
  /\ sb[s] # "INIT"
  /\ BackToInit(s)
  /\ UNCHANGED <<slots, seeds, uid, primed, unread>>

(***************************************************************************)
(* Commands that read a slot.                                              *)
(***************************************************************************)
\* GET_ID needs no finished boot, and computes its code in sheCmac.
GetId(s) ==
  /\ uid[s]
  /\ cache' \in Cached("master")
  /\ cmac' = [cmac EXCEPT ![s] = NoCmac]
  /\ cut' = [cut EXCEPT ![s] = sb[s] \in {"UPDATE", "FINISH"}]
  /\ UNCHANGED <<nvm, seeds, uid, sb, blSize, blRecv, keyFound, fed, primed, unread>>

\* ENC and DEC, GENERATE_MAC, VERIFY_MAC, EXPORT_RAM_KEY, and a LOAD_KEY that
\* is refused or that NVM fails: each may leave a copy of the slot it read.
UseKey(s, k) ==
  /\ Ready(s)
  /\ cache' \in Cached(k) \ {cache}
  /\ UNCHANGED <<nvm, seeds, boot, uid, primed, unread>>

(***************************************************************************)
(* The memory update protocol.                                             *)
(***************************************************************************)
\* _CheckLoadKeyAuth.
MayLoad(t, a) ==
  /\ t # "secret"
  /\ \/ a \in {"secret", "master"}
     \/ t \in {"boot_key", "boot_mac"} /\ a = "boot_key"
     \/ t = "ram" /\ a \in App
     \/ t \in App /\ a = t

\* The record a load finds, and whether it may replace it.
Replaceable(old, c) == old # Empty => (~old.wp /\ c > old.count)

\* wh_Server_KeystoreCacheKey: an entry that is not committed.
RamCopy(v, c, w) == [val |-> v, count |-> c, wp |-> w, committed |-> FALSE]

\* Mutant: the copy is not evicted.
M_Written(t, r, c0) ==
  /\ nvm' = [nvm EXCEPT ![t] = r]
  /\ cache' = c0
  /\ primed' = primed \ {t}

\* wh_Nvm_AddObject, the eviction of the copy, and the read back, which may
\* cache the new record again.
Written(t, r, c0) ==
  /\ nvm' = [nvm EXCEPT ![t] = r]
  /\ cache' \in {[c0 EXCEPT ![t] = Empty], [c0 EXCEPT ![t] = Committed(r)]}
  /\ primed' = primed \ {t}

\* The RAM key is only cached.
StoreKey(t, r, c0) ==
  IF t = "ram"
  THEN /\ cache' = [c0 EXCEPT ![t] = RamCopy(r.val, r.count, r.wp)]
       /\ UNCHANGED <<nvm, primed>>
  ELSE Written(t, r, c0)

\* LOAD_KEY of slot t, authorized by slot a: M1 to M3 with a new record.
LoadKey(s, t, a, r) ==
  /\ Ready(s)
  /\ MayLoad(t, a)
  /\ ReadSlot(a) # Empty
  /\ Replaceable(ReadSlot(t), r.count)
  /\ \E c0 \in Cached(a) : StoreKey(t, r, c0)
  /\ UNCHANGED <<seeds, boot, uid, unread>>

\* The read of the target fails: counter and flags are taken for zero.
LoadKeyUnread(s, t, a, r) ==
  /\ Ready(s)
  /\ MayLoad(t, a)
  /\ a # t
  /\ ReadSlot(a) # Empty
  /\ cache[t] = Empty
  /\ ~unread
  /\ unread' = TRUE
  /\ r.count > 0
  /\ StoreKey(t, r, cache)
  /\ UNCHANGED <<seeds, boot, uid>>

LoadPlainKey(s, v) ==
  /\ Ready(s)
  /\ cache' = [cache EXCEPT !["ram"] = RamCopy(v, 0, FALSE)]
  /\ UNCHANGED <<nvm, seeds, boot, uid, primed, unread>>

\* Unwrap-and-cache of a blob that holds a SHE slot: a counter as large as
\* the one stored will do.
Prime(k, r) ==
  /\ cache[k] = Empty
  /\ nvm[k] # Empty => r.count >= nvm[k].count
  /\ cache' = [cache EXCEPT ![k] = RamCopy(r.val, r.count, r.wp)]
  /\ primed' = primed \union {k}
  /\ UNCHANGED <<nvm, seeds, boot, uid, unread>>

\* Other keys need the room: committed copies are evicted.
Evict(k) ==
  /\ cache[k] # Empty
  /\ cache[k].committed
  /\ cache' = [cache EXCEPT ![k] = Empty]
  /\ UNCHANGED <<nvm, seeds, boot, uid, primed, unread>>

EvictSeed ==
  /\ seedCopy # 0
  /\ seedCopy' = 0
  /\ UNCHANGED <<slots, seed, rnd, started, boot, uid, primed, unread>>

(***************************************************************************)
(* The random generator.                                                   *)
(***************************************************************************)
\* Mutant: the copy read before stays.
M_SaveSeed(n) == seed' = n /\ seedCopy' = ReadSeed

\* The new seed is written to NVM, and the copy of the old one evicted.
SaveSeed(n) == seed' = n /\ seedCopy' = 0

InitRnd(s) ==
  /\ Ready(s)
  /\ ~rnd[s]
  /\ Visible("secret") # Empty
  /\ ReadSeed < MaxSeed
  /\ SaveSeed(ReadSeed + 1)
  /\ rnd' = [rnd EXCEPT ![s] = TRUE]
  /\ started' = ReadSeed + 1
  /\ UNCHANGED <<slots, boot, uid, primed, unread>>

ExtendSeed(s) ==
  /\ Ready(s)
  /\ rnd[s]
  /\ ReadSeed < MaxSeed
  /\ SaveSeed(ReadSeed + 1)
  /\ UNCHANGED <<slots, rnd, started, boot, uid, primed, unread>>

\* The seed was read but not written, as NVM failed, or was used as a key.
SeedNotSaved(s) ==
  /\ Ready(s)
  /\ seedCopy = 0
  /\ seedCopy' = seed
  /\ UNCHANGED <<slots, seed, rnd, started, boot, uid, primed, unread>>

\* The device is reset: NVM stays.
Reset ==
  /\ cache' = [k \in Slot |-> Empty]
  /\ seedCopy' = 0
  /\ uid' = [s \in Server |-> FALSE]
  /\ sb' = [s \in Server |-> "INIT"]
  /\ blSize' = [s \in Server |-> 0] /\ blRecv' = [s \in Server |-> 0]
  /\ cmac' = [s \in Server |-> NoCmac]
  /\ keyFound' = [s \in Server |-> FALSE]
  /\ rnd' = [s \in Server |-> FALSE]
  /\ fed' = [s \in Server |-> NoPieces]
  /\ cut' = [s \in Server |-> FALSE]
  /\ primed' = {}
  /\ UNCHANGED <<nvm, seed, started, unread>>

Boot(s) ==
  \/ \E n \in 0 .. MaxSize : SecureBootInit(s, n) \/ SecureBootInitUnread(s, n)
  \/ \E n \in 0 .. MaxSize : \E g \in BOOLEAN : SecureBootUpdate(s, n, g)
  \/ SecureBootFinish(s)
  \/ SecureBootOutOfSequence(s)

Update(s) ==
  \E t \in Targets : \E a \in Slot \ {"ram"} : \E r \in Record :
    LoadKey(s, t, a, r) \/ LoadKeyUnread(s, t, a, r)

Command(s) ==
  \/ SetUid(s) \/ Boot(s) \/ GetId(s) \/ Update(s)
  \/ \E k \in Slot : UseKey(s, k)
  \/ \E v \in Key : LoadPlainKey(s, v)
  \/ InitRnd(s) \/ ExtendSeed(s) \/ SeedNotSaved(s)

Elsewhere ==
  \/ \E k \in Primes : \E r \in Record : Prime(k, r)
  \/ \E k \in Slot : Evict(k)
  \/ EvictSeed
  \/ Reset

Next == (\E s \in Server : Command(s)) \/ Elsewhere

Spec == Init /\ [][Next]_vars

(***************************************************************************)
(* Properties.                                                             *)
(***************************************************************************)
\* What the server holds in its SHE contexts, in the cache and in NVM.
TypeOK ==
  /\ nvm \in [Slot -> Record \union {Empty}]
  /\ cache \in [Slot -> Copy \union {Empty}]
  /\ seed \in 1 .. MaxSeed /\ seedCopy \in 0 .. MaxSeed /\ started \in 0 .. MaxSeed
  /\ uid \in [Server -> BOOLEAN]
  /\ sb \in [Server -> {"INIT", "UPDATE", "FINISH", "SUCCESS"}]
  /\ blSize \in [Server -> 0 .. MaxSize] /\ blRecv \in [Server -> 0 .. MaxSize]
  /\ cmac \in [Server -> Cmac \union {NoCmac}]
  /\ keyFound \in [Server -> BOOLEAN]
  /\ rnd \in [Server -> BOOLEAN]
  /\ fed \in [Server -> [size: 0 .. MaxSize, good: BOOLEAN]]
  /\ cut \in [Server -> BOOLEAN]
  /\ primed \subseteq Slot /\ unread \in BOOLEAN

\* While a boot runs, the bytes counted are those of the pieces of this boot,
\* and what will be compared is the code of exactly these pieces, unless a
\* GET_ID came in between: nothing is left over from a boot that failed.
Covers(s) ==
  /\ cmac[s] # NoCmac
  /\ cmac[s].len = blSize[s]
  /\ cmac[s].size = fed[s].size
  /\ cmac[s].good = fed[s].good

BootOnTrack ==
  \A s \in Server :
    sb[s] \in {"UPDATE", "FINISH"} =>
      /\ blRecv[s] = fed[s].size
      /\ blRecv[s] <= blSize[s]
      /\ cut[s] \/ Covers(s)

\* The same with GET_ID, which is permitted in every state.
PiecesAreMeasured ==
  \A s \in Server : sb[s] \in {"UPDATE", "FINISH"} => Covers(s)

\* The commands open up only after the whole genuine image was fed, or, as
\* long as NVM can be read, if there is no BOOT_MAC_KEY.
Opens(s) == sb[s] # "SUCCESS" /\ sb'[s] = "SUCCESS"
Genuine(s) == fed[s].good /\ fed[s].size = ImageSize /\ blSize[s] = ImageSize
BootMeasured ==
  [][\A s \in Server : Opens(s) => Genuine(s) \/ unread' \/ Visible("boot_key") = Empty]_vars

\* A load replaces the record of a slot only by one with a larger counter, and
\* never one that is write-protected: whichever server loads it, from
\* whichever copy it takes counter and flags.  (A primed copy of a
\* write-protected record shows other flags; a failed read shows none.)
Guarded(k) ==
  /\ nvm'[k].count > nvm[k].count
  /\ nvm[k].wp => k \in primed
SlotsGuarded ==
  [][\A k \in Slot : nvm[k] # Empty /\ nvm'[k] # nvm[k] /\ ~unread' => Guarded(k)]_vars

\* No two generators, of whichever server or before and after a reset, start
\* from the same seed, and the seed in NVM never goes back.
SeedFresh ==
  [][/\ \A s \in Server : ~rnd[s] /\ rnd'[s] => started' > started
     /\ seed' >= seed]_vars
=============================================================================
