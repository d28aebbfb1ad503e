------------------------------ MODULE SheProofs ------------------------------
(***************************************************************************)
(* Proofs about She, for any number of servers, slots, counters and sizes: *)
(* a boot that opens the commands has measured the genuine image, slots    *)
(* move forward only, and no seed is used twice.                           *)
(*                                                                         *)
(* The state falls into three parts that hardly touch each other, and so   *)
(* does the invariant: the boot of each server, the slots with their       *)
(* copies, and the seed.  Every command is shown to preserve the parts it  *)
(* changes; what it leaves alone is covered by one lemma for each part.    *)
(***************************************************************************)
EXTENDS She, TLAPS

\* How far the boot of server s is, and what is left of the one before it.
Track(s) ==
  /\ sb[s] = "INIT" => blRecv[s] = 0 /\ fed[s] = NoPieces /\ ~cut[s]
  /\ sb[s] \in {"UPDATE", "FINISH"} =>
       /\ blRecv[s] = fed[s].size
       /\ blRecv[s] <= blSize[s]
       /\ cmac[s] # NoCmac => Covers(s)
       /\ cmac[s] = NoCmac => cut[s]

BootType ==
  /\ sb \in [Server -> {"INIT", "UPDATE", "FINISH", "SUCCESS"}]
  /\ blSize \in [Server -> 0 .. MaxSize] /\ blRecv \in [Server -> 0 .. MaxSize]
  /\ cmac \in [Server -> Cmac \union {NoCmac}]
  /\ keyFound \in [Server -> BOOLEAN]
  /\ fed \in [Server -> [size: 0 .. MaxSize, good: BOOLEAN]]
  /\ cut \in [Server -> BOOLEAN]

BootInv == BootType /\ \A s \in Server : Track(s)

\* A committed copy is the record in NVM; another one was primed, or is the
\* RAM key, and has no smaller counter than the record.
CopyOK(k) ==
  cache[k] # Empty =>
    /\ cache[k].committed => nvm[k] = Stripped(cache[k])
    /\ ~cache[k].committed => k \in primed \union {"ram"}
    /\ nvm[k] # Empty => cache[k].count >= nvm[k].count

SlotType ==
  /\ nvm \in [Slot -> Record \union {Empty}]
  /\ cache \in [Slot -> Copy \union {Empty}]
  /\ primed \subseteq Slot

SlotInv == SlotType /\ nvm["ram"] = Empty /\ \A k \in Slot : CopyOK(k)

\* The copy of the seed is the seed, and generators started from earlier ones.
SeedInv ==
  /\ seed \in 1 .. MaxSeed
  /\ seedCopy \in {0, seed}
  /\ started \in 0 .. seed
  /\ rnd \in [Server -> BOOLEAN]

OtherType == uid \in [Server -> BOOLEAN] /\ unread \in BOOLEAN

IInv == BootInv /\ SlotInv /\ SeedInv /\ OtherType

(***************************************************************************)
(* What a command leaves alone.                                            *)
(***************************************************************************)
LEMMA BootStill == ASSUME BootInv, UNCHANGED boot PROVE BootInv'
BY DEF BootInv, BootType, boot, Track, Covers

LEMMA SlotsStill == ASSUME SlotInv, UNCHANGED <<slots, primed>> PROVE SlotInv'
BY DEF SlotInv, SlotType, slots, CopyOK

LEMMA SeedStill == ASSUME SeedInv, UNCHANGED seeds PROVE SeedInv'
BY DEF SeedInv, seeds

LEMMA Typed == IInv => TypeOK
<1> SUFFICES ASSUME IInv PROVE TypeOK
  OBVIOUS
<1>1. BootType /\ SlotType /\ SeedInv /\ OtherType
  BY DEF IInv, BootInv, SlotInv
<1>2. seedCopy \in 0 .. MaxSeed /\ started \in 0 .. MaxSeed
  BY <1>1, SheAssumption DEF SeedInv
<1> QED
  BY <1>1, <1>2 DEF BootType, SlotType, SeedInv, OtherType, TypeOK

(***************************************************************************)
(* The boot.                                                               *)
(***************************************************************************)
\* A step of the boot of server s leaves the boots of the others alone.
LEMMA OneBoot ==
  ASSUME BootInv, NEW s \in Server, BootType', Track(s)',
         \A t \in Server \ {s} :
           /\ sb'[t] = sb[t] /\ blSize'[t] = blSize[t] /\ blRecv'[t] = blRecv[t]
           /\ cmac'[t] = cmac[t] /\ fed'[t] = fed[t] /\ cut'[t] = cut[t]
  PROVE  BootInv'
<1>1. ASSUME NEW t \in Server, t # s PROVE Track(t)'
  BY <1>1 DEF BootInv, Track, Covers
<1> QED
  BY <1>1 DEF BootInv

LEMMA BackToInitOK ==
  ASSUME BootInv, NEW s \in Server, BackToInit(s) PROVE BootInv'
<1>1. BootType'
  BY SheAssumption DEF BootInv, BootType, BackToInit, NoPieces
<1>2. Track(s)'
  BY DEF BootInv, BootType, BackToInit, Track
<1> QED
  BY <1>1, <1>2, OneBoot DEF BackToInit, BootInv, BootType

LEMMA UnmeasuredOK ==
  ASSUME BootInv, NEW s \in Server, NEW n \in 0 .. MaxSize, Unmeasured(s, n)
  PROVE  BootInv'
<1>1. BootType'
  BY DEF BootInv, BootType, Unmeasured
<1>2. Track(s)'
  BY DEF BootInv, BootType, Unmeasured, Track
<1> QED
  BY <1>1, <1>2, OneBoot DEF Unmeasured, BootInv, BootType

\* The copies that a read of slot k leaves are good ones.
LEMMA CachedOK ==
  ASSUME SlotInv, NEW k \in Slot, NEW c \in Cached(k)
  PROVE  /\ c \in [Slot -> Copy \union {Empty}]
         /\ \A t \in Slot :
              \/ c[t] = cache[t]
              \/ /\ nvm[t] # Empty /\ nvm[t] \in Record
                 /\ cache[t] = Empty
                 /\ c[t] = Committed(nvm[t])
<1>1. CASE c = cache
  BY <1>1 DEF SlotInv, SlotType
<1>2. CASE c # cache
  <2>1. c = [cache EXCEPT ![k] = Committed(nvm[k])] /\ cache[k] = Empty /\ nvm[k] # Empty
    BY <1>2 DEF Cached
  <2>2. nvm[k] \in Record
    BY <2>1 DEF SlotInv, SlotType
  <2>3. Committed(nvm[k]) \in Copy
    BY <2>2 DEF Committed, Copy, Record
  <2> QED
    BY <2>1, <2>2, <2>3 DEF SlotInv, SlotType
<1> QED
  BY <1>1, <1>2

\* A committed copy is a good one.
LEMMA CommittedFits ==
  ASSUME NEW r \in Record
  PROVE  /\ Committed(r) \in Copy
         /\ Committed(r) # Empty
         /\ Committed(r).committed
         /\ Stripped(Committed(r)) = r
         /\ Committed(r).count = r.count
         /\ r # Empty
<1>1. Committed(r) \in Copy /\ Committed(r).count = r.count /\ Committed(r).committed
  BY DEF Committed, Copy, Record
<1>2. Stripped(Committed(r)) = r
  BY DEF Committed, Stripped, Record
<1>3. r.count # -1 /\ Committed(r).count # -1
  BY <1>1, SheAssumption DEF Record
<1> QED
  BY <1>1, <1>2, <1>3 DEF Empty

LEMMA ReadsOK ==
  ASSUME SlotInv, NEW k \in Slot, cache' \in Cached(k), UNCHANGED <<nvm, primed>>
  PROVE  SlotInv'
<1>1. SlotType'
  BY CachedOK DEF SlotInv, SlotType
<1>2. ASSUME NEW t \in Slot PROVE CopyOK(t)'
  <2>1. CASE cache'[t] = cache[t]
    BY <2>1 DEF SlotInv, CopyOK
  <2>2. CASE cache'[t] = Committed(nvm[t]) /\ nvm[t] \in Record
    BY <2>2, CommittedFits, SheAssumption DEF CopyOK, Record
  <2> QED
    BY <2>1, <2>2, CachedOK
<1> QED
  BY <1>1, <1>2 DEF SlotInv

(***************************************************************************)
(* Each boot command, and each command that touches slots or the seed.     *)
(***************************************************************************)
LEMMA SecureBootInitOK ==
  ASSUME IInv, NEW s \in Server, NEW n \in 0 .. MaxSize, SecureBootInit(s, n)
  PROVE  IInv'
<1>1. SlotInv'
  <2>1. CASE UNCHANGED cache
    BY <2>1, SlotsStill DEF SecureBootInit, IInv, slots
  <2>2. CASE cache' \in Cached("boot_key")
    BY <2>2, ReadsOK DEF SecureBootInit, IInv, Slot
  <2> QED
    BY <2>1, <2>2 DEF SecureBootInit
<1>2. BootInv'
  <2>1. CASE Visible("boot_key") = Empty
    BY <2>1, UnmeasuredOK DEF SecureBootInit, IInv
  <2>2. CASE Visible("boot_key") # Empty
    <3>1. Visible("boot_key").val \in Key
      <4>1. "boot_key" \in Slot
        BY DEF Slot
      <4>2. CASE cache["boot_key"] # Empty
        <5>1. cache["boot_key"] \in Copy
          BY <4>1, <4>2 DEF IInv, SlotInv, SlotType
        <5> QED
          BY <4>2, <5>1 DEF Visible, Stripped, Copy
      <4>3. CASE cache["boot_key"] = Empty
        <5>1. nvm["boot_key"] \in Record
          BY <2>2, <4>1, <4>3 DEF IInv, SlotInv, SlotType, Visible
        <5> QED
          BY <4>3, <5>1 DEF Visible, Record
      <4> QED
        BY <4>2, <4>3
    <3>2. [key |-> Visible("boot_key").val, len |-> n, size |-> 0, good |-> TRUE] \in Cmac
      BY <3>1, SheAssumption DEF Cmac
    <3>3. BootType'
      BY <2>2, <3>2 DEF SecureBootInit, IInv, BootInv, BootType
    <3>4. Track(s)'
      <4>1. blRecv[s] = 0 /\ fed[s] = NoPieces
        BY DEF SecureBootInit, IInv, BootInv, Track
      <4>2. /\ sb'[s] = "UPDATE" /\ blSize'[s] = n
            /\ cmac'[s] = [key |-> Visible("boot_key").val, len |-> n, size |-> 0, good |-> TRUE]
            /\ blRecv'[s] = 0 /\ fed'[s] = NoPieces
        BY <2>2, <4>1 DEF SecureBootInit, IInv, BootInv, BootType
      <4>3. cmac'[s] # NoCmac
        BY <4>2, SheAssumption DEF NoCmac
      <4>4. Covers(s)'
        BY <4>2, <4>3 DEF Covers, NoPieces
      <4> QED
        BY <4>2, <4>3, <4>4 DEF Track, NoPieces
    <3> QED
      BY <2>2, <3>3, <3>4, OneBoot DEF SecureBootInit, IInv, BootInv, BootType
  <2> QED
    BY <2>1, <2>2
<1> QED
  BY <1>1, <1>2, SeedStill DEF SecureBootInit, IInv, OtherType

LEMMA SecureBootInitUnreadOK ==
  ASSUME IInv, NEW s \in Server, NEW n \in 0 .. MaxSize, SecureBootInitUnread(s, n)
  PROVE  IInv'
BY UnmeasuredOK, SlotsStill, SeedStill DEF SecureBootInitUnread, IInv, OtherType

\* A piece that fits is counted on both sides, and goes into the code that
\* will be compared.
LEMMA SecureBootUpdateOK ==
  ASSUME IInv, NEW s \in Server, NEW n \in 0 .. MaxSize, NEW g \in BOOLEAN,
         SecureBootUpdate(s, n, g)
  PROVE  IInv'
<1>1. BootInv'
  <2>1. CASE blRecv[s] + n > blSize[s]
    BY <2>1, BackToInitOK DEF SecureBootUpdate, IInv
  <2>2. CASE ~(blRecv[s] + n > blSize[s])
    <3> DEFINE Longer == [key |-> cmac[s].key, len |-> cmac[s].len,
                          size |-> cmac[s].size + n, good |-> cmac[s].good /\ g]
    <3>1. /\ blRecv[s] = fed[s].size
          /\ blRecv[s] \in 0 .. MaxSize /\ blSize[s] \in 0 .. MaxSize
          /\ cmac[s] # NoCmac => cmac[s] \in Cmac /\ Covers(s)
          /\ cmac[s] = NoCmac => cut[s]
          /\ fed[s] \in [size: 0 .. MaxSize, good: BOOLEAN]
      BY DEF SecureBootUpdate, IInv, BootInv, BootType, Track
    <3>2. blRecv[s] + n \in 0 .. MaxSize
      BY <2>2, <3>1, SheAssumption
    <3>3. [size |-> fed[s].size + n, good |-> fed[s].good /\ g]
             \in [size: 0 .. MaxSize, good: BOOLEAN]
      BY <3>1, <3>2
    <3>4. cmac[s] # NoCmac =>
            /\ Longer \in Cmac
            /\ Longer # NoCmac
      BY <3>1, <3>2, SheAssumption DEF Cmac, Covers, NoCmac
    <3>5. BootType'
      BY <2>2, <3>2, <3>3, <3>4 DEF SecureBootUpdate, IInv, BootInv, BootType
    <3>6. Track(s)'
      <4>1. sb'[s] \in {"UPDATE", "FINISH"} /\ blSize'[s] = blSize[s] /\ cut'[s] = cut[s]
        BY <2>2 DEF SecureBootUpdate, IInv, BootInv, BootType
      <4>2. /\ blRecv'[s] = blRecv[s] + n
            /\ fed'[s].size = fed[s].size + n
            /\ fed'[s].good = (fed[s].good /\ g)
        BY <2>2, <3>1 DEF SecureBootUpdate, IInv, BootInv, BootType
      <4>3. cmac[s] = NoCmac => cmac'[s] = NoCmac
        BY <2>2 DEF SecureBootUpdate, IInv, BootInv, BootType
      <4>4. cmac[s] # NoCmac =>
              /\ cmac'[s] # NoCmac
              /\ cmac'[s].len = cmac[s].len
              /\ cmac'[s].size = cmac[s].size + n
              /\ cmac'[s].good = (cmac[s].good /\ g)
        BY <2>2, <3>1, <3>4 DEF SecureBootUpdate, IInv, BootInv, BootType, Cmac
      <4>5. cmac'[s] # NoCmac => Covers(s)'
        BY <3>1, <4>1, <4>2, <4>3, <4>4 DEF Covers
      <4> QED
        BY <2>2, <3>1, <4>1, <4>2, <4>3, <4>4, <4>5 DEF Track
    <3> QED
      BY <2>2, <3>5, <3>6, OneBoot DEF SecureBootUpdate, IInv, BootInv, BootType
  <2> QED
    BY <2>1, <2>2
<1> QED
  BY <1>1, SlotsStill, SeedStill DEF SecureBootUpdate, IInv, OtherType

LEMMA SecureBootFinishOK ==
  ASSUME IInv, NEW s \in Server, SecureBootFinish(s) PROVE IInv'
<1>1. SlotInv'
  <2>1. CASE UNCHANGED cache
    BY <2>1, SlotsStill DEF SecureBootFinish, IInv, slots
  <2>2. CASE cache' \in Cached("boot_mac")
    BY <2>2, ReadsOK DEF SecureBootFinish, IInv, Slot
  <2> QED
    BY <2>1, <2>2 DEF SecureBootFinish
<1>2. BootInv'
  <2>1. CASE BackToInit(s)
    BY <2>1, BackToInitOK DEF IInv
  <2>2. CASE /\ sb' = [sb EXCEPT ![s] = "SUCCESS"]
             /\ cmac' = [cmac EXCEPT ![s] = NoCmac]
             /\ UNCHANGED <<blSize, blRecv, keyFound, fed, cut>>
    <3>1. BootType'
      BY <2>2 DEF IInv, BootInv, BootType
    <3>2. Track(s)'
      BY <2>2 DEF IInv, BootInv, BootType, Track
    <3> QED
      BY <2>2, <3>1, <3>2, OneBoot DEF IInv, BootInv, BootType
  <2> QED
    BY <2>1, <2>2 DEF SecureBootFinish
<1> QED
  BY <1>1, <1>2, SeedStill DEF SecureBootFinish, IInv, OtherType

LEMMA SecureBootOutOfSequenceOK ==
  ASSUME IInv, NEW s \in Server, SecureBootOutOfSequence(s) PROVE IInv'
BY BackToInitOK, SlotsStill, SeedStill DEF SecureBootOutOfSequence, IInv, OtherType

LEMMA GetIdOK == ASSUME IInv, NEW s \in Server, GetId(s) PROVE IInv'
<1>1. SlotInv'
  BY ReadsOK DEF GetId, IInv, Slot
<1>2. BootType'
  BY DEF GetId, IInv, BootInv, BootType
<1>3. Track(s)'
  BY DEF GetId, IInv, BootInv, BootType, Track
<1>4. BootInv'
  BY <1>2, <1>3, OneBoot DEF GetId, IInv, BootInv, BootType
<1> QED
  BY <1>1, <1>4, SeedStill DEF GetId, IInv, OtherType

LEMMA UseKeyOK == ASSUME IInv, NEW s \in Server, NEW k \in Slot, UseKey(s, k) PROVE IInv'
<1>1. SlotInv'
  BY ReadsOK DEF UseKey, IInv
<1> QED
  BY <1>1, BootStill, SeedStill DEF UseKey, IInv, OtherType

(***************************************************************************)
(* The memory update protocol: what is replaced, and what takes its place. *)
(***************************************************************************)
\* The record that a load compares with is at least what NVM holds, and is
\* write-protected with it unless the slot has a primed copy.
LEMMA SeesRecord ==
  ASSUME SlotInv, NEW t \in Slot, NEW c \in Nat, nvm[t] # Empty,
         Replaceable(ReadSlot(t), c)
  PROVE  /\ c > nvm[t].count
         /\ nvm[t].wp => t \in primed
<1>1. nvm[t] \in Record /\ t # "ram"
  BY DEF SlotInv, SlotType
<1>2. CASE cache[t] = Empty
  <2>1. ReadSlot(t) = nvm[t]
    BY <1>2 DEF ReadSlot, Visible
  <2> QED
    BY <2>1 DEF Replaceable
<1>3. CASE cache[t] # Empty
  <2>1. cache[t] \in Copy
    BY <1>3 DEF SlotInv, SlotType
  <2>2. Stripped(cache[t]) # Empty
    BY <2>1, SheAssumption DEF Stripped, Copy, Empty
  <2>3. ReadSlot(t) = Stripped(cache[t])
    BY <1>3, <2>2 DEF ReadSlot, Visible
  <2>4. c > cache[t].count /\ ~cache[t].wp
    BY <2>2, <2>3 DEF Replaceable, Stripped
  <2>5. cache[t].count >= nvm[t].count
    BY <1>3 DEF SlotInv, CopyOK
  <2>6. cache[t].committed => ~nvm[t].wp
    <3>1. Stripped(cache[t]).wp = cache[t].wp
      BY DEF Stripped
    <3>2. cache[t].committed => nvm[t] = Stripped(cache[t])
      BY <1>3 DEF SlotInv, CopyOK
    <3> QED
      BY <2>4, <3>1, <3>2
  <2>7. ~cache[t].committed => t \in primed
    BY <1>1, <1>3 DEF SlotInv, CopyOK
  <2> QED
    BY <1>1, <2>1, <2>4, <2>5, <2>6, <2>7, SheAssumption DEF Record, Copy
<1> QED
  BY <1>2, <1>3

\* Storing a record under t over good copies leaves good copies.
LEMMA StoreKeyOK ==
  ASSUME SlotInv, NEW t \in Slot, NEW r \in Record, NEW a \in Slot,
         NEW c0 \in Cached(a), StoreKey(t, r, c0)
  PROVE  SlotInv'
<1>1. c0 \in [Slot -> Copy \union {Empty}]
  BY CachedOK
<1>2. ASSUME NEW k \in Slot, k # t, nvm'[k] = nvm[k], cache'[k] = c0[k],
             k \in primed => k \in primed'
      PROVE  CopyOK(k)'
  <2>1. CASE c0[k] = cache[k]
    BY <1>2, <2>1 DEF SlotInv, CopyOK
  <2>2. CASE c0[k] = Committed(nvm[k]) /\ nvm[k] \in Record
    BY <1>2, <2>2, CommittedFits, SheAssumption DEF CopyOK, Record
  <2> QED
    BY <2>1, <2>2, CachedOK
<1>3. CASE t = "ram"
  <2>1. cache' = [c0 EXCEPT ![t] = RamCopy(r.val, r.count, r.wp)] /\ UNCHANGED <<nvm, primed>>
    BY <1>3 DEF StoreKey
  <2>2. RamCopy(r.val, r.count, r.wp) \in Copy
    BY DEF RamCopy, Copy, Record
  <2>3. SlotType'
    BY <1>1, <2>1, <2>2 DEF SlotInv, SlotType
  <2>4. CopyOK(t)'
    <3>1. cache'[t] = RamCopy(r.val, r.count, r.wp) /\ nvm'[t] = Empty
      BY <1>1, <1>3, <2>1 DEF SlotInv
    <3> QED
      BY <1>3, <3>1 DEF CopyOK, RamCopy
  <2> QED
    BY <1>1, <1>2, <2>1, <2>3, <2>4 DEF SlotInv
<1>4. CASE t # "ram"
  <2>1. /\ nvm' = [nvm EXCEPT ![t] = r]
        /\ cache' \in {[c0 EXCEPT ![t] = Empty], [c0 EXCEPT ![t] = Committed(r)]}
        /\ primed' = primed \ {t}
    BY <1>4 DEF StoreKey, Written
  <2>2. Committed(r) \in Copy
    BY CommittedFits
  <2>3. SlotType'
    BY <1>1, <2>1, <2>2 DEF SlotInv, SlotType
  <2>4. nvm'["ram"] = Empty
    BY <1>4, <2>1 DEF SlotInv, SlotType
  <2>5. CopyOK(t)'
    <3>1. nvm'[t] = r
      BY <2>1 DEF SlotInv, SlotType
    <3>2. CASE cache'[t] = Empty
      BY <3>2 DEF CopyOK
    <3>3. CASE cache'[t] = Committed(r)
      BY <3>1, <3>3, CommittedFits, SheAssumption DEF CopyOK, Record
    <3> QED
      BY <1>1, <2>1, <3>2, <3>3
  <2> QED
    BY <1>1, <1>2, <2>1, <2>3, <2>4, <2>5 DEF SlotInv, SlotType
<1> QED
  BY <1>3, <1>4

LEMMA LoadKeyOK ==
  ASSUME IInv, NEW s \in Server, NEW t \in Slot, NEW a \in Slot, NEW r \in Record,
         LoadKey(s, t, a, r)
  PROVE  IInv'
<1>1. SlotInv'
  BY StoreKeyOK DEF LoadKey, IInv
<1> QED
  BY <1>1, BootStill, SeedStill DEF LoadKey, IInv, OtherType

LEMMA LoadKeyUnreadOK ==
  ASSUME IInv, NEW s \in Server, NEW t \in Slot, NEW a \in Slot, NEW r \in Record,
         LoadKeyUnread(s, t, a, r)
  PROVE  IInv'
<1>1. cache \in Cached(a)
  BY DEF Cached
<1>2. SlotInv'
  BY <1>1, StoreKeyOK DEF LoadKeyUnread, IInv
<1> QED
  BY <1>2, BootStill, SeedStill DEF LoadKeyUnread, IInv, OtherType

LEMMA LoadPlainKeyOK ==
  ASSUME IInv, NEW s \in Server, NEW v \in Key, LoadPlainKey(s, v) PROVE IInv'
<1>1. "ram" \in Slot
  BY DEF Slot
<1>2. RamCopy(v, 0, FALSE) \in Copy
  BY SheAssumption DEF RamCopy, Copy
<1>3. SlotType'
  BY <1>1, <1>2 DEF LoadPlainKey, IInv, SlotInv, SlotType
<1>4. ASSUME NEW k \in Slot PROVE CopyOK(k)'
  <2>1. CASE k = "ram"
    BY <1>1, <2>1 DEF LoadPlainKey, IInv, SlotInv, SlotType, CopyOK, RamCopy
  <2>2. CASE k # "ram"
    BY <1>1, <2>2 DEF LoadPlainKey, IInv, SlotInv, SlotType, CopyOK
  <2> QED
    BY <2>1, <2>2
<1> QED
  BY <1>3, <1>4, BootStill, SeedStill DEF LoadPlainKey, IInv, SlotInv, OtherType

LEMMA PrimeOK ==
  ASSUME IInv, NEW k \in Slot, NEW r \in Record, Prime(k, r) PROVE IInv'
<1>1. RamCopy(r.val, r.count, r.wp) \in Copy
  BY DEF RamCopy, Copy, Record
<1>2. SlotType'
  BY <1>1 DEF Prime, IInv, SlotInv, SlotType
<1>3. ASSUME NEW t \in Slot PROVE CopyOK(t)'
  <2>1. CASE t = k
    BY <2>1 DEF Prime, IInv, SlotInv, SlotType, CopyOK, RamCopy
  <2>2. CASE t # k
    BY <2>2 DEF Prime, IInv, SlotInv, SlotType, CopyOK
  <2> QED
    BY <2>1, <2>2
<1> QED
  BY <1>2, <1>3, BootStill, SeedStill DEF Prime, IInv, SlotInv, OtherType

LEMMA EvictOK == ASSUME IInv, NEW k \in Slot, Evict(k) PROVE IInv'
<1>1. SlotType'
  BY DEF Evict, IInv, SlotInv, SlotType
<1>2. ASSUME NEW t \in Slot PROVE CopyOK(t)'
  BY DEF Evict, IInv, SlotInv, SlotType, CopyOK
<1> QED
  BY <1>1, <1>2, BootStill, SeedStill DEF Evict, IInv, SlotInv, OtherType

(***************************************************************************)
(* The random generator, the UID and the reset.                            *)
(***************************************************************************)
\* Whichever copy is read, the seed is.
LEMMA SeedIsRead == SeedInv => ReadSeed = seed
BY DEF SeedInv, ReadSeed

LEMMA InitRndOK == ASSUME IInv, NEW s \in Server, InitRnd(s) PROVE IInv'
<1>1. SeedInv'
  BY SeedIsRead, SheAssumption DEF InitRnd, IInv, SeedInv, SaveSeed
<1> QED
  BY <1>1, BootStill, SlotsStill DEF InitRnd, IInv, OtherType

LEMMA ExtendSeedOK == ASSUME IInv, NEW s \in Server, ExtendSeed(s) PROVE IInv'
<1>1. SeedInv'
  BY SeedIsRead, SheAssumption DEF ExtendSeed, IInv, SeedInv, SaveSeed
<1> QED
  BY <1>1, BootStill, SlotsStill DEF ExtendSeed, IInv, OtherType

LEMMA SeedNotSavedOK == ASSUME IInv, NEW s \in Server, SeedNotSaved(s) PROVE IInv'
<1>1. SeedInv'
  BY DEF SeedNotSaved, IInv, SeedInv
<1> QED
  BY <1>1, BootStill, SlotsStill DEF SeedNotSaved, IInv, OtherType

LEMMA EvictSeedOK == ASSUME IInv, EvictSeed PROVE IInv'
<1>1. SeedInv'
  BY DEF EvictSeed, IInv, SeedInv
<1> QED
  BY <1>1, BootStill, SlotsStill DEF EvictSeed, IInv, OtherType

LEMMA SetUidOK == ASSUME IInv, NEW s \in Server, SetUid(s) PROVE IInv'
<1>1. OtherType'
  BY DEF SetUid, IInv, OtherType
<1> QED
  BY <1>1, BootStill, SlotsStill, SeedStill DEF SetUid, IInv

LEMMA ResetOK == ASSUME IInv, Reset PROVE IInv'
<1>1. BootInv'
  BY SheAssumption DEF Reset, IInv, BootInv, BootType, Track, NoPieces
<1>2. SlotInv'
  BY DEF Reset, IInv, SlotInv, SlotType, CopyOK
<1>3. SeedInv'
  BY DEF Reset, IInv, SeedInv
<1>4. OtherType'
  BY DEF Reset, IInv, OtherType
<1> QED
  BY <1>1, <1>2, <1>3, <1>4 DEF IInv

LEMMA InitOK == Init => IInv
<1> SUFFICES ASSUME Init PROVE IInv
  OBVIOUS
<1>1. BootInv
  BY SheAssumption DEF Init, BootInv, BootType, Track, NoPieces
<1>2. SlotInv
  BY SheAssumption DEF Init, SlotInv, SlotType, CopyOK
<1>3. SeedInv
  BY SheAssumption DEF Init, SeedInv
<1>4. OtherType
  BY DEF Init, OtherType
<1> QED
  BY <1>1, <1>2, <1>3, <1>4 DEF IInv

(***************************************************************************)
(* All steps.                                                              *)
(***************************************************************************)
LEMMA TargetsAndPrimes ==
  /\ \A t \in Targets : t \in Slot
  /\ \A k \in Primes : k \in Slot
BY SheAssumption

LEMMA BootStepOK == ASSUME IInv, NEW s \in Server, Boot(s) PROVE IInv'
<1>1. CASE \E n \in 0 .. MaxSize : SecureBootInit(s, n) \/ SecureBootInitUnread(s, n)
  BY <1>1, SecureBootInitOK, SecureBootInitUnreadOK
<1>2. CASE \E n \in 0 .. MaxSize : \E g \in BOOLEAN : SecureBootUpdate(s, n, g)
  BY <1>2, SecureBootUpdateOK
<1>3. CASE SecureBootFinish(s)
  BY <1>3, SecureBootFinishOK
<1>4. CASE SecureBootOutOfSequence(s)
  BY <1>4, SecureBootOutOfSequenceOK
<1> QED
  BY <1>1, <1>2, <1>3, <1>4 DEF Boot

LEMMA CommandOK == ASSUME IInv, NEW s \in Server, Command(s) PROVE IInv'
<1>1. CASE SetUid(s)
  BY <1>1, SetUidOK
<1>2. CASE Boot(s)
  BY <1>2, BootStepOK
<1>3. CASE GetId(s)
  BY <1>3, GetIdOK
<1>4. CASE Update(s)
  <2>1. PICK t \in Targets, a \in Slot \ {"ram"}, r \in Record :
          LoadKey(s, t, a, r) \/ LoadKeyUnread(s, t, a, r)
    BY <1>4 DEF Update
  <2> QED
    BY <2>1, TargetsAndPrimes, LoadKeyOK, LoadKeyUnreadOK
<1>5. CASE \E k \in Slot : UseKey(s, k)
  BY <1>5, UseKeyOK
<1>6. CASE \E v \in Key : LoadPlainKey(s, v)
  BY <1>6, LoadPlainKeyOK
<1>7. CASE InitRnd(s) \/ ExtendSeed(s) \/ SeedNotSaved(s)
  BY <1>7, InitRndOK, ExtendSeedOK, SeedNotSavedOK
<1> QED
  BY <1>1, <1>2, <1>3, <1>4, <1>5, <1>6, <1>7 DEF Command

LEMMA NextOK == IInv /\ [Next]_vars => IInv'
<1> SUFFICES ASSUME IInv, [Next]_vars PROVE IInv'
  OBVIOUS
<1>1. ASSUME NEW s \in Server, Command(s) PROVE IInv'
  BY <1>1, CommandOK
<1>2. CASE Elsewhere
  <2>1. CASE \E k \in Primes : \E r \in Record : Prime(k, r)
    BY <2>1, TargetsAndPrimes, PrimeOK
  <2>2. CASE \E k \in Slot : Evict(k)
    BY <2>2, EvictOK
  <2>3. CASE EvictSeed \/ Reset
    BY <2>3, EvictSeedOK, ResetOK
  <2> QED
    BY <1>2, <2>1, <2>2, <2>3 DEF Elsewhere
<1>3. CASE UNCHANGED vars
  BY <1>3, BootStill, SlotsStill, SeedStill DEF vars, IInv, OtherType
<1> QED
  BY <1>1, <1>2, <1>3 DEF Next

\* What src/wh_server_she.c keeps true of a boot, of the slots and of the seed
\* between any two commands of any number of servers.
THEOREM Invariant == Spec => []IInv
<1> QED
  BY InitOK, NextOK, PTL DEF Spec

\* The SHE contexts, the cache and NVM are well typed.
THEOREM TypeCorrect == Spec => []TypeOK
BY Invariant, Typed, PTL

\* While _SecureBootInit and _SecureBootUpdate measure an image, counters and
\* code are those of the pieces of this boot, whatever came before.
THEOREM BootStaysOnTrack == Spec => []BootOnTrack
<1>1. IInv => BootOnTrack
  BY DEF IInv, BootInv, Track, BootOnTrack
<1> QED
  BY <1>1, Invariant, PTL

(***************************************************************************)
(* What a step may do.                                                     *)
(***************************************************************************)
\* Which commands open the others.
LEMMA OnlyBootOpens ==
  ASSUME IInv, [Next]_vars, NEW s \in Server, Opens(s)
  PROVE  \/ \E n \in 0 .. MaxSize : SecureBootInit(s, n) \/ SecureBootInitUnread(s, n)
         \/ SecureBootFinish(s)
<1> USE DEF Opens
<1>0. sb \in [Server -> {"INIT", "UPDATE", "FINISH", "SUCCESS"}]
  BY DEF IInv, BootInv, BootType
<1>1. sb' # sb
  OBVIOUS
<1>2. ~Elsewhere
  BY <1>0, <1>1 DEF Elsewhere, Prime, Evict, EvictSeed, Reset, boot
<1>3. PICK t \in Server : Command(t)
  BY <1>1, <1>2 DEF Next, vars, boot
<1>4. Boot(t)
  BY <1>1, <1>3 DEF Command, SetUid, GetId, Update, LoadKey, LoadKeyUnread, UseKey,
                    LoadPlainKey, InitRnd, ExtendSeed, SeedNotSaved, boot
<1>5. CASE t = s
  <2>1. ASSUME NEW n \in 0 .. MaxSize, NEW g \in BOOLEAN, SecureBootUpdate(s, n, g)
        PROVE  FALSE
    BY <1>0, <2>1 DEF SecureBootUpdate, BackToInit
  <2>2. ~SecureBootOutOfSequence(s)
    BY <1>0 DEF SecureBootOutOfSequence, BackToInit
  <2> QED
    BY <1>4, <1>5, <2>1, <2>2 DEF Boot
<1>6. CASE t # s
  <2>1. sb'[s] = sb[s]
    BY <1>0, <1>4, <1>6 DEF Boot, SecureBootInit, SecureBootInitUnread, Unmeasured,
         SecureBootUpdate, SecureBootFinish, SecureBootOutOfSequence, BackToInit
  <2> QED
    BY <2>1
<1> QED
  BY <1>5, <1>6

\* wh_Server_HandleSheRequest lets the other commands through only behind a boot
\* that has measured the whole genuine image, or without a BOOT_MAC_KEY.
THEOREM BootIsMeasured == Spec => BootMeasured
<1>1. ASSUME IInv, [Next]_vars, NEW s \in Server, Opens(s)
      PROVE  Genuine(s) \/ unread' \/ Visible("boot_key") = Empty
  <2>1. CASE \E n \in 0 .. MaxSize : SecureBootInit(s, n)
    BY <1>1, <2>1 DEF SecureBootInit, IInv, BootInv, BootType, Opens
  <2>2. CASE \E n \in 0 .. MaxSize : SecureBootInitUnread(s, n)
    BY <2>2 DEF SecureBootInitUnread
  <2>3. CASE SecureBootFinish(s)
    <3>1. Matches(s)
      BY <1>1, <2>3 DEF SecureBootFinish, BackToInit, IInv, BootInv, BootType, Opens
    <3>2. Covers(s)
      BY <1>1, <2>3, <3>1 DEF SecureBootFinish, Matches, IInv, BootInv, Track
    <3> QED
      BY <3>1, <3>2 DEF Matches, Covers, Genuine
  <2> QED
    BY <1>1, <2>1, <2>2, <2>3, OnlyBootOpens
<1>2. IInv /\ [Next]_vars =>
        [\A s \in Server : Opens(s) => Genuine(s) \/ unread' \/ Visible("boot_key") = Empty]_vars
  BY <1>1
<1> QED
  BY <1>2, Invariant, PTL DEF Spec, BootMeasured

\* _LoadKey replaces a slot's record by one with a larger counter only, and a
\* write-protected one only behind a primed copy, whichever server loads it.
THEOREM SlotsMoveForward == Spec => SlotsGuarded
<1>1. ASSUME IInv, [Next]_vars, NEW k \in Slot, nvm[k] # Empty, nvm'[k] # nvm[k], ~unread'
      PROVE  Guarded(k)
  <2>1. nvm' # nvm
    BY <1>1
  <2>2. ~Elsewhere /\ vars' # vars
    BY <2>1 DEF Elsewhere, Prime, Evict, EvictSeed, Reset, vars, slots
  <2>3. PICK s \in Server : Command(s)
    BY <1>1, <2>2 DEF Next
  <2>4. Update(s)
    BY <2>1, <2>3 DEF Command, SetUid, GetId, Boot, SecureBootInit, SecureBootInitUnread,
         SecureBootUpdate, SecureBootFinish, SecureBootOutOfSequence, UseKey,
         LoadPlainKey, InitRnd, ExtendSeed, SeedNotSaved, slots
  <2>5. PICK t \in Targets, a \in Slot \ {"ram"}, r \in Record :
          LoadKey(s, t, a, r) \/ LoadKeyUnread(s, t, a, r)
    BY <2>4 DEF Update
  <2>6. LoadKey(s, t, a, r)
    BY <1>1, <2>5 DEF LoadKeyUnread
  <2>7. nvm' = [nvm EXCEPT ![t] = r]
    BY <2>1, <2>6 DEF LoadKey, StoreKey, Written
  <2>8. t = k /\ nvm'[k] = r
    BY <1>1, <2>7 DEF IInv, SlotInv, SlotType
  <2>9. r.count \in Nat
    BY SheAssumption DEF Record
  <2> QED
    BY <1>1, <2>6, <2>8, <2>9, SeesRecord DEF LoadKey, IInv, Guarded
<1>2. IInv /\ [Next]_vars =>
        [\A k \in Slot : nvm[k] # Empty /\ nvm'[k] # nvm[k] /\ ~unread' => Guarded(k)]_vars
  BY <1>1
<1> QED
  BY <1>2, Invariant, PTL DEF Spec, SlotsGuarded

\* _InitRnd starts a generator from a seed that no generator has had, and no
\* server ever puts an older seed into NVM.
THEOREM SeedsAreFresh == Spec => SeedFresh
<1> DEFINE A == /\ \A s \in Server : ~rnd[s] /\ rnd'[s] => started' > started
                /\ seed' >= seed
<1>1. ASSUME IInv, [Next]_vars PROVE A
  <2>0. /\ seed \in Nat /\ started \in Nat /\ started <= seed /\ ReadSeed = seed
        /\ rnd \in [Server -> BOOLEAN]
    BY <1>1, SeedIsRead, SheAssumption DEF IInv, SeedInv
  <2>1. CASE UNCHANGED <<seed, rnd>>
    BY <2>0, <2>1
  <2>2. CASE Reset
    BY <2>0, <2>2 DEF Reset
  <2>3. CASE \E s \in Server : InitRnd(s) \/ ExtendSeed(s)
    BY <2>0, <2>3 DEF InitRnd, ExtendSeed, SaveSeed
  <2>4. ASSUME ~Reset, ~\E s \in Server : InitRnd(s) \/ ExtendSeed(s)
        PROVE  UNCHANGED <<seed, rnd>>
    <3>1. ASSUME NEW s \in Server, SetUid(s) \/ GetId(s) \/ Boot(s)
          PROVE  UNCHANGED <<seed, rnd>>
      BY <3>1 DEF SetUid, GetId, Boot, SecureBootInit, SecureBootInitUnread,
           SecureBootUpdate, SecureBootFinish, SecureBootOutOfSequence, seeds
    <3>2. ASSUME NEW s \in Server, Update(s) PROVE UNCHANGED <<seed, rnd>>
      BY <3>2 DEF Update, LoadKey, LoadKeyUnread, seeds
    <3>3. ASSUME NEW s \in Server, NEW k \in Slot, UseKey(s, k) PROVE UNCHANGED <<seed, rnd>>
      BY <3>3 DEF UseKey, seeds
    <3>4. ASSUME NEW s \in Server, NEW v \in Key, LoadPlainKey(s, v)
          PROVE  UNCHANGED <<seed, rnd>>
      BY <3>4 DEF LoadPlainKey, seeds
    <3>5. ASSUME NEW s \in Server, SeedNotSaved(s) PROVE UNCHANGED <<seed, rnd>>
      BY <3>5 DEF SeedNotSaved
    <3>6. ASSUME Elsewhere PROVE UNCHANGED <<seed, rnd>>
      BY <2>4, <3>6 DEF Elsewhere, Prime, Evict, EvictSeed, seeds
    <3>7. CASE UNCHANGED vars
      BY <3>7 DEF vars, seeds
    <3>8. CASE Next
      BY <2>4, <3>1, <3>2, <3>3, <3>4, <3>5, <3>6, <3>8 DEF Next, Command
    <3> QED
      BY <1>1, <3>7, <3>8
  <2> QED
    BY <2>1, <2>2, <2>3, <2>4
<1>2. IInv /\ [Next]_vars => [A]_vars
  BY <1>1
<1> QED
  BY <1>2, Invariant, PTL DEF Spec, SeedFresh
=============================================================================
