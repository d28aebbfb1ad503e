------------------------------ MODULE NvmFlash ------------------------------
(***************************************************************************)
(* The default NVM backend, src/wh_nvm_flash.c: a log of objects in one of *)
(* two flash partitions, with a directory of it cached in RAM.             *)
(*                                                                         *)
(* AddObject appends to the active partition.  DestroyObjects (and         *)
(* compaction, its call with an empty list) copies the surviving objects   *)
(* to the other partition, makes that one active and erases the old one.   *)
(* Init chooses the active partition from the two headers and rebuilds the *)
(* directory.  A record on flash counts only once its state words are      *)
(* programmed, in the order epoch, start, count.                           *)
(*                                                                         *)
(* One action is one call of the flash driver: the controller may lose     *)
(* power, and the driver may report an error, at each of them.  Calls of   *)
(* the store itself are serialised by the NVM lock (wh_nvm.c).             *)
(***************************************************************************)
EXTENDS Integers, FiniteSetsExt, NvmOps

CONSTANTS UnitsOf,      \* [Val -> Nat], the flash units a content occupies
          ObjectCount,  \* WOLFHSM_CFG_NVM_OBJECT_COUNT, entries per partition
          DataUnits,    \* max_data, units of the data area of a partition
          MaxEpoch,     \* bound: partition epochs that are explored
          Faults,       \* which driver calls may fail, a subset of FaultKinds
          Blank,        \* an erased flash word
          Torn          \* metadata whose programming was cut short

\* "program" and "erase": the call stops half way; "verify": it is complete but
\* reported as failed; "reread" and "boot": the directory that was just written,
\* or a partition header, cannot be read.
FaultKinds == {"program", "verify", "erase", "reread", "boot"}

ASSUME FlashAssumption ==
  /\ UnitsOf \in [Val -> Nat]
  /\ ObjectCount \in Nat \ {0}
  /\ DataUnits \in Nat
  /\ MaxEpoch \in Nat
  /\ Faults \subseteq FaultKinds
ASSUME WordAssumption ==
  /\ Blank \notin Nat
  /\ Blank \notin Val
  /\ Blank \notin [id: Id, val: Val]
  /\ Torn \notin [id: Id, val: Val]
  /\ Torn # Blank

Part == {0, 1}
Other(p) == 1 - p
Entry == 1..ObjectCount
Slot == 1..(ObjectCount + 1)        \* an entry, or the end of the directory
DataUnit == 0..(DataUnits - 1)
Meta == [id: Id, val: Val]          \* whNvmMetadata; val stands for the data
Word == Nat \union {Blank}

VARIABLES
  \* Flash
  hdr,      \* nfPartition.state: epoch word, and whether start and count are set
  obj,      \* nfPartition.directory: the entries
  dat,      \* the data areas, unit by unit
  \* RAM: whNvmFlashContext
  pc,       \* where the code is: "off" before Init, "idle" between calls
  active,   \* context->active
  epoch,    \* context->state.epoch
  dir,      \* context->directory
  dirBad,   \* context->directory_bad
  cp,       \* the copy loop of DestroyObjects: source entry, destination
  op,       \* the call in progress
  ret       \* what the last call returned

flash == <<hdr, obj, dat>>
ram == <<active, epoch, dir, dirBad>>
vars == <<hdr, obj, dat, pc, active, epoch, dir, dirBad, cp, op, ret>>

(***************************************************************************)
(* Reading flash.                                                          *)
(***************************************************************************)
Status == {"FREE", "META_BAD", "DATA_BAD", "USED"}

\* nfMemState_Read: the status follows from which state words are blank.
StateStatus(epochSet, startSet, countSet) ==
  IF epochSet /\ startSet /\ countSet THEN "USED"
  ELSE IF epochSet /\ startSet THEN "DATA_BAD"
  ELSE IF epochSet THEN "META_BAD"
  ELSE "FREE"

HdrStatus(p) ==
  StateStatus(hdr[p].epoch # Blank, hdr[p].start, hdr[p].count)

Hdr(e, s, c) == [epoch |-> e, start |-> s, count |-> c]
BlankHdr == Hdr(Blank, FALSE, FALSE)
BlankObj == [epoch |-> FALSE, meta |-> Blank, start |-> Blank, count |-> Blank]
BlankPartition(p) ==
  /\ hdr[p] = BlankHdr
  /\ \A i \in Entry : obj[p][i] = BlankObj
  /\ \A u \in DataUnit : dat[p][u] = Blank

NoObject == [status |-> "FREE", meta |-> Blank, start |-> 0, count |-> 0]

\* nfMemObject_Read: metadata is kept for USED and DATA_BAD entries only.
ReadObject(o) ==
  LET s == StateStatus(o.epoch, o.start # Blank, o.count # Blank)
  IN  CASE s = "USED" ->
             [status |-> s, meta |-> o.meta, start |-> o.start, count |-> o.count]
        [] s = "DATA_BAD" ->
             [status |-> s, meta |-> o.meta, start |-> o.start, count |-> 0]
        [] OTHER -> [NoObject EXCEPT !.status = s]

\* Mutant: an interrupted write reserves nothing.
M_Extent(o) == IF o.status = "USED" THEN o.count ELSE 0

\* The data area an entry reserves, complete or not.
Extent(o) ==
  CASE o.status = "USED" -> o.count
    [] o.status = "DATA_BAD" -> UnitsOf[o.meta.val]
    [] OTHER -> 0

\* Mutant: start-up does not look for older versions.
M_Superseded(os, i) == FALSE

\* An older version of an object that a later entry replaces.
Superseded(os, i) ==
  /\ os[i].status = "USED"
  /\ \E j \in Entry : /\ j > i
                      /\ os[j].status = "USED"
                      /\ os[j].meta.id = os[i].meta.id

\* nfMemDirectory_Parse: the first free entry and data unit, what compaction
\* would reclaim, and only the latest version of an id left USED.
Parse(os) ==
  LET free == {i \in Entry : os[i].status = "FREE"}
      end == Min(free \union {ObjectCount + 1})
      sized == {i \in 1..(end - 1) : os[i].status # "META_BAD"}
      top == IF sized = {} THEN 0
             ELSE os[Max(sized)].start + Extent(os[Max(sized)])
      old == {i \in Entry : Superseded(os, i)}
      dead == old \union {i \in 1..(end - 1) : os[i].status # "USED"}
  IN  [objects |-> [i \in Entry |-> IF i \in old
                                    THEN [os[i] EXCEPT !.status = "DATA_BAD"]
                                    ELSE os[i]],
       next |-> end,
       data |-> Min({top, DataUnits}),
       recEntries |-> Cardinality(dead),
       recData |-> MapThenSumSet(LAMBDA i : Extent(os[i]), dead)]

\* nfPartition_ReadParseMemDirectory
ReadDirectory(p) == Parse([i \in Entry |-> ReadObject(obj[p][i])])

NoCopy == [src |-> 0, entry |-> 0, data |-> 0]
EmptyDirectory ==
  [objects |-> [i \in Entry |-> NoObject], next |-> 1, data |-> 0,
   recEntries |-> 0, recData |-> 0]

\* nfMemDirectory_FindObjectIndexById, as the set of its possible answers.
Find(d, id) ==
  {i \in 1..(d.next - 1) : /\ d.objects[i].status = "USED"
                           /\ d.objects[i].meta.id = id}

\* wh_NvmFlash_Read of partition p: the content, if the units of the entry
\* hold all of it.
Fetch(p, o) ==
  IF \A k \in 0..(o.count - 1) : dat[p][o.start + k] = o.meta.val
  THEN o.meta.val ELSE Torn

\* What reading every id through directory d of partition p returns.
View(p, d) ==
  [id \in Id |-> IF Find(d, id) = {} THEN None
                 ELSE Fetch(p, d.objects[Min(Find(d, id))])]

(***************************************************************************)
(* Writing flash: the driver call the code is about to make at each pc.    *)
(***************************************************************************)
InitPc == {"init_erase", "init_epoch", "init_start", "init_count"}
DstPc == {"dst_erase", "dst_epoch", "dst_start", "dst_count", "dst_reread"}
ObjPc == {"obj_epoch", "obj_meta", "obj_start", "obj_data", "obj_count"}
Pc == {"off", "idle", "src_erase"} \union InitPc \union DstPc \union ObjPc
ErasePc == {"init_erase", "dst_erase", "src_erase"}
WritePc == Pc \ {"off", "idle", "dst_reread"}

\* nfPartition_ProgramEpoch, nfPartition_ProgramStart, nfPartition_ProgramCount
ProgramHdr(p, words) == hdr' = [hdr EXCEPT ![p] = words] /\ UNCHANGED <<obj, dat>>
ProgramHdrEpoch(p, e) == ProgramHdr(p, Hdr(e, hdr[p].start, hdr[p].count))
ProgramHdrStart(p) == ProgramHdr(p, Hdr(hdr[p].epoch, TRUE, hdr[p].count))
ProgramHdrCount(p) == ProgramHdr(p, Hdr(hdr[p].epoch, hdr[p].start, TRUE))

\* nfPartition_Erase: sectors are erased one after the other, so an erase cut
\* short has cleared the header and nothing else, or everything but the header.
Areas == {"header", "directory", "data"}
PartialErases == {{"header"}, {"directory", "data"}, Areas}
Erase(p, areas) ==
  /\ hdr' = IF "header" \in areas THEN [hdr EXCEPT ![p] = BlankHdr] ELSE hdr
  /\ obj' = IF "directory" \in areas
            THEN [obj EXCEPT ![p] = [i \in Entry |-> BlankObj]] ELSE obj
  /\ dat' = IF "data" \in areas
            THEN [dat EXCEPT ![p] = [u \in DataUnit |-> Blank]] ELSE dat

\* What nfObject_Program (AddObject) or nfObject_Copy (DestroyObjects) is
\* writing: the partition and entry, the metadata, and where its data goes.
Target ==
  IF op.kind = "add"
  THEN [part |-> active, entry |-> dir.next, start |-> dir.data,
        meta |-> [id |-> op.id, val |-> op.val]]
  ELSE [part |-> Other(active), entry |-> cp.entry, start |-> cp.data,
        meta |-> dir.objects[cp.src].meta]
Length == UnitsOf[Target.meta.val]
TargetObj == obj[Target.part][Target.entry]

\* The data units written there: the caller's, or those of the source entry.
Source(k) ==
  IF op.kind = "add" THEN op.val ELSE dat[active][dir.objects[cp.src].start + k]

ProgramObj(words) ==
  /\ obj' = [obj EXCEPT ![Target.part][Target.entry] = words]
  /\ UNCHANGED <<hdr, dat>>

\* nfObject_ProgramDataBytes, of the first n units.
ProgramData(n) ==
  /\ dat' = [dat EXCEPT ![Target.part] =
               [u \in DataUnit |-> IF u \in Target.start..(Target.start + n - 1)
                                   THEN Source(u - Target.start) ELSE @[u]]]
  /\ UNCHANGED <<hdr, obj>>

\* wh_FlashUnit_Program refuses a range that is not erased (NOTBLANK), and
\* nfPartition_CheckDataRange one that leaves the partition.  An erase always
\* goes ahead.
Ready ==
  CASE pc = "init_epoch" -> hdr[active].epoch = Blank
    [] pc = "init_start" -> ~hdr[active].start
    [] pc = "init_count" -> ~hdr[active].count
    [] pc = "dst_epoch" -> hdr[Other(active)].epoch = Blank
    [] pc = "dst_start" -> ~hdr[Other(active)].start
    [] pc = "dst_count" -> ~hdr[Other(active)].count
    [] pc = "obj_epoch" -> ~TargetObj.epoch
    [] pc = "obj_meta" -> TargetObj.meta = Blank
    [] pc = "obj_start" -> TargetObj.start = Blank
    [] pc = "obj_count" -> TargetObj.count = Blank
    [] pc = "obj_data" ->
         /\ Target.start + Length <= DataUnits
         /\ \A k \in 0..(Length - 1) : dat[Target.part][Target.start + k] = Blank
    [] OTHER -> pc \in WritePc

Write ==
  \/ pc = "init_erase" /\ Erase(active, Areas)
  \/ pc = "init_epoch" /\ ProgramHdrEpoch(active, 0)
  \/ pc = "init_start" /\ ProgramHdrStart(active)
  \/ pc = "init_count" /\ ProgramHdrCount(active)
  \/ pc \in {"dst_erase", "src_erase"} /\ Erase(Other(active), Areas)
  \/ pc = "dst_epoch" /\ ProgramHdrEpoch(Other(active), epoch + 1)
  \/ pc = "dst_start" /\ ProgramHdrStart(Other(active))
  \/ pc = "dst_count" /\ ProgramHdrCount(Other(active))
  \/ pc = "obj_epoch" /\ ProgramObj([TargetObj EXCEPT !.epoch = TRUE])
  \/ pc = "obj_meta" /\ ProgramObj([TargetObj EXCEPT !.meta = Target.meta])
  \/ pc = "obj_start" /\ ProgramObj([TargetObj EXCEPT !.start = Target.start])
  \/ pc = "obj_data" /\ ProgramData(Length)
  \/ pc = "obj_count" /\ ProgramObj([TargetObj EXCEPT !.count = Length])

\* The same call cut short by a reset or an error of the driver.  A word is
\* written whole or not at all; a range of them may stop half way.
PartialWrite ==
  \/ \E areas \in PartialErases :
       \/ pc = "init_erase" /\ Erase(active, areas)
       \/ pc \in {"dst_erase", "src_erase"} /\ Erase(Other(active), areas)
  \/ pc = "obj_meta" /\ ProgramObj([TargetObj EXCEPT !.meta = Torn])
  \/ pc = "obj_data" /\ \E n \in 0..(Length - 1) : ProgramData(n)
  \/ UNCHANGED flash

(***************************************************************************)
(* wh_NvmFlash_Init.                                                       *)
(***************************************************************************)
\* The partitions whose header says they hold a complete directory, of those
\* whose header can be read.
Used(unreadable) == {p \in Part \ unreadable : HdrStatus(p) = "USED"}

\* Mutant: of two complete partitions takes the one written first.
M_Choose(used) ==
  IF used = Part THEN (IF hdr[1].epoch > hdr[0].epoch THEN 0 ELSE 1)
  ELSE IF used = {} THEN 0 ELSE CHOOSE p \in used : TRUE

\* Of two complete partitions the one written last is the current one.
Choose(used) ==
  IF used = Part THEN (IF hdr[1].epoch > hdr[0].epoch THEN 1 ELSE 0)
  ELSE IF used = {} THEN 0 ELSE CHOOSE p \in used : TRUE

Init ==
  /\ hdr = [p \in Part |-> BlankHdr]
  /\ obj = [p \in Part |-> [i \in Entry |-> BlankObj]]
  /\ dat = [p \in Part |-> [u \in DataUnit |-> Blank]]
  /\ pc = "off"
  /\ active = 0
  /\ epoch = 0
  /\ dir = EmptyDirectory
  /\ dirBad = FALSE
  /\ cp = NoCopy
  /\ op = NoOp
  /\ ret = "NONE"

\* Choose the active partition and read its directory, or, when none is
\* complete, start to format partition 0.  A header that cannot be read
\* counts as not complete.
InitFlash ==
  /\ pc = "off"
  /\ \E unreadable \in (IF "boot" \in Faults THEN SUBSET Part ELSE {{}}) :
       LET used == Used(unreadable)
           p == Choose(used)
       IN  /\ active' = p
           /\ IF used = {}
              THEN /\ pc' = "init_erase"
                   /\ UNCHANGED <<epoch, dir>>
              ELSE /\ pc' = "idle"
                   /\ epoch' = hdr[p].epoch
                   /\ dir' = ReadDirectory(p)
  /\ UNCHANGED <<flash, dirBad, cp, op, ret>>

\* nfPartition_ProgramInit
InitStep ==
  /\ pc \in InitPc
  /\ Ready
  /\ Write
  /\ pc' = CASE pc = "init_erase" -> "init_epoch"
             [] pc = "init_epoch" -> "init_start"
             [] pc = "init_start" -> "init_count"
             [] pc = "init_count" -> "idle"
  /\ dir' = IF pc = "init_count" THEN ReadDirectory(active) ELSE dir
  /\ UNCHANGED <<active, epoch, dirBad, cp, op, ret>>

(***************************************************************************)
(* wh_NvmFlash_AddObject.                                                  *)
(***************************************************************************)
Finish(result) ==
  /\ pc' = "idle"
  /\ op' = NoOp
  /\ cp' = NoCopy
  /\ ret' = result

Return(result) ==
  /\ ret' = result
  /\ UNCHANGED <<flash, pc, ram, cp, op>>

HasSpace(v) == dir.next <= ObjectCount /\ dir.data + UnitsOf[v] <= DataUnits

AddObject(id, v) ==
  /\ pc = "idle"
  /\ ~dirBad
  /\ HasSpace(v)
  /\ op' = [kind |-> "add", id |-> id, val |-> v]
  /\ ret' = "NONE"
  /\ pc' = "obj_epoch"
  /\ UNCHANGED <<flash, ram, cp>>

AddNoSpace(v) ==
  /\ pc = "idle"
  /\ ~dirBad
  /\ ~HasSpace(v)
  /\ Return("NOSPACE")

\* Mutants: the replaced entry stays USED; its data is not counted.
M_AppendedKeepsOld ==
  [dir EXCEPT !.objects[dir.next] = [status |-> "USED", meta |-> Target.meta,
                                     start |-> dir.data, count |-> Length],
              !.next = @ + 1, !.data = @ + Length]
M_AppendedForgetsData ==
  LET old == Find(dir, op.id)
  IN  IF old = {} THEN M_AppendedKeepsOld
      ELSE [M_AppendedKeepsOld EXCEPT !.objects[Min(old)].status = "DATA_BAD",
                                      !.recEntries = @ + 1]

\* The directory after an entry was written: the new one is USED, and the one
\* it replaces can be reclaimed.
Appended ==
  LET old == Find(dir, op.id)
      new == [status |-> "USED", meta |-> Target.meta, start |-> dir.data,
              count |-> Length]
      objects == [dir.objects EXCEPT ![dir.next] = new]
      one == Min(old)
      grown == [dir EXCEPT !.objects = objects, !.next = @ + 1, !.data = @ + Length]
  IN  IF old = {} THEN grown
      ELSE [grown EXCEPT !.objects[one].status = "DATA_BAD",
                         !.recEntries = @ + 1,
                         !.recData = @ + dir.objects[one].count]

(***************************************************************************)
(* wh_NvmFlash_DestroyObjects.  An empty set of ids asks for compaction.   *)
(***************************************************************************)
\* The entries to copy from entry i on: what is left when it is out of range.
NextSource(ids, i) ==
  Min({j \in i..ObjectCount : /\ dir.objects[j].status = "USED"
                              /\ dir.objects[j].meta.id \notin ids}
      \union {ObjectCount + 1})

Matches(ids) == \E i \in Entry : /\ dir.objects[i].status = "USED"
                                 /\ dir.objects[i].meta.id \in ids

DestroyObjects(ids) ==
  /\ pc = "idle"
  /\ ~dirBad
  /\ ids = {} \/ Matches(ids)
  /\ epoch < MaxEpoch
  /\ op' = [kind |-> "destroy", ids |-> ids]
  /\ ret' = "NONE"
  /\ pc' = "dst_erase"
  /\ UNCHANGED <<flash, ram, cp>>

\* Nothing to destroy: no flash wear.
DestroyNothing(ids) ==
  /\ pc = "idle"
  /\ ~dirBad
  /\ ids # {}
  /\ ~Matches(ids)
  /\ Return("OK")

\* Every operation is refused once the directory no longer matches the flash.
RefuseBad ==
  /\ pc = "idle"
  /\ dirBad
  /\ Return("ERROR")

\* Mutant: a destroy that leaves nothing does not complete the new header.
M_StartCopy(c) ==
  /\ cp' = c
  /\ pc' = IF c.src <= ObjectCount THEN "obj_epoch" ELSE "dst_reread"

StartCopy(c) ==
  /\ cp' = c
  /\ pc' = IF c.src <= ObjectCount THEN "obj_epoch" ELSE "dst_count"

\* Erase the inactive partition and write its epoch and start.
DstStep ==
  /\ pc \in {"dst_erase", "dst_epoch", "dst_start"}
  /\ Ready
  /\ Write
  /\ IF pc = "dst_start"
     THEN StartCopy([src |-> NextSource(op.ids, 1), entry |-> 1, data |-> 0])
     ELSE /\ pc' = IF pc = "dst_erase" THEN "dst_epoch" ELSE "dst_start"
          /\ UNCHANGED cp
  /\ UNCHANGED <<ram, op, ret>>

\* nfObject_Program or nfObject_Copy, word by word up to the data.
ObjStep ==
  /\ pc \in ObjPc \ {"obj_count"}
  /\ Ready
  /\ Write
  /\ pc' = CASE pc = "obj_epoch" -> "obj_meta"
             [] pc = "obj_meta" -> "obj_start"
             [] pc = "obj_start" -> "obj_data"
             [] pc = "obj_data" -> "obj_count"
  /\ UNCHANGED <<ram, cp, op, ret>>

\* nfObject_ProgramFinish: the entry is complete, and AddObject with it.
ObjCount ==
  /\ pc = "obj_count"
  /\ Ready
  /\ Write
  /\ UNCHANGED <<active, epoch, dirBad>>
  /\ IF op.kind = "add"
     THEN /\ dir' = Appended
          /\ Finish("OK")
     ELSE /\ StartCopy([src |-> NextSource(op.ids, cp.src + 1),
                        entry |-> cp.entry + 1, data |-> cp.data + Length])
          /\ UNCHANGED <<dir, op, ret>>

\* The count word of the new partition is the commit point.
DstCount ==
  /\ pc = "dst_count"
  /\ Ready
  /\ Write
  /\ pc' = "dst_reread"
  /\ UNCHANGED <<ram, cp, op, ret>>

\* The directory is read back from the new partition, which becomes active.
DstReread ==
  /\ pc = "dst_reread"
  /\ dir' = ReadDirectory(Other(active))
  /\ active' = Other(active)
  /\ epoch' = epoch + 1
  /\ pc' = "src_erase"
  /\ UNCHANGED <<flash, dirBad, cp, op, ret>>

\* Reading it back fails: the old directory is read again, and used on, or the
\* store refuses to work if that fails as well.
DstRereadError ==
  /\ pc = "dst_reread"
  /\ "reread" \in Faults
  /\ \/ dir' = ReadDirectory(active) /\ UNCHANGED dirBad
     \/ dirBad' = TRUE /\ dir' = EmptyDirectory
  /\ Finish("ERROR")
  /\ UNCHANGED <<flash, active, epoch>>

SrcErase ==
  /\ pc = "src_erase"
  /\ Write
  /\ Finish("OK")
  /\ UNCHANGED ram

(***************************************************************************)
(* Errors and resets.                                                      *)
(***************************************************************************)
\* A driver call fails: always when its range is not erased, and when the
\* driver says so, whatever it wrote.  Each caller returns the error as it is.
FlashError ==
  /\ pc \in WritePc
  /\ \/ ~Ready /\ UNCHANGED flash
     \/ pc \in ErasePc /\ "erase" \in Faults /\ PartialWrite
     \/ pc \notin ErasePc /\ "program" \in Faults /\ Ready /\ PartialWrite
     \/ pc \notin ErasePc /\ "verify" \in Faults /\ Ready /\ Write
  /\ IF pc \in InitPc
     THEN /\ pc' = "off"
          /\ UNCHANGED <<op, cp, ret>>
     ELSE Finish("ERROR")
  /\ UNCHANGED ram

\* Power is lost: RAM is gone, and the call under way is cut short.
Reset ==
  /\ pc # "off"
  /\ \/ pc \in WritePc /\ Ready /\ PartialWrite
     \/ UNCHANGED flash
  /\ pc' = "off"
  /\ active' = 0
  /\ epoch' = 0
  /\ dir' = EmptyDirectory
  /\ dirBad' = FALSE
  /\ cp' = NoCopy
  /\ op' = NoOp
  /\ ret' = "NONE"

Next ==
  \/ InitFlash
  \/ InitStep
  \/ \E id \in Id, v \in Val : AddObject(id, v)
  \/ \E v \in Val : AddNoSpace(v)
  \/ \E ids \in SUBSET Id : DestroyObjects(ids) \/ DestroyNothing(ids)
  \/ RefuseBad
  \/ DstStep
  \/ ObjStep
  \/ ObjCount
  \/ DstCount
  \/ DstReread
  \/ DstRereadError
  \/ SrcErase
  \/ FlashError
  \/ Reset

Spec == Init /\ [][Next]_vars

(***************************************************************************)
(* Properties.                                                             *)
(***************************************************************************)
Running == pc \notin InitPc \union {"off"}

EntryWords == [epoch: BOOLEAN, meta: Meta \union {Blank, Torn}, start: Word, count: Word]
HdrWords == [epoch: Word, start: BOOLEAN, count: BOOLEAN]
MemObject == [status: Status, meta: Meta \union {Blank}, start: Nat, count: Nat]
Directory == [objects: [Entry -> MemObject], next: Slot, data: 0..DataUnits,
              recEntries: Nat, recData: Nat]

FlashTypeOK ==
  /\ hdr \in [Part -> HdrWords]
  /\ obj \in [Part -> [Entry -> EntryWords]]
  /\ dat \in [Part -> [DataUnit -> Val \union {Blank}]]

ControlTypeOK ==
  /\ pc \in Pc
  /\ active \in Part
  /\ epoch \in Nat
  /\ dirBad \in BOOLEAN
  /\ op \in Ops \union {NoOp}
  /\ ret \in Returns

DirectoryTypeOK ==
  /\ dir \in Directory
  /\ cp \in [src: 0..(ObjectCount + 1), entry: 0..(ObjectCount + 1), data: 0..DataUnits]

\* Types of the flash words, of the RAM context and of the call in progress.
TypeOK == FlashTypeOK /\ ControlTypeOK /\ DirectoryTypeOK

\* While the store runs, the partition it uses is the one a reset would choose:
\* its header is complete and carries the epoch the code remembers, and the
\* other partition is incomplete or older.  Only between the commit point of a
\* destroy and the switch to the new partition is the other one the newer.
ActiveIsNewest ==
  Running =>
    /\ HdrStatus(active) = "USED"
    /\ hdr[active].epoch = epoch
    /\ HdrStatus(Other(active)) = "USED" =>
         IF pc = "dst_reread" THEN hdr[Other(active)].epoch = epoch + 1
                              ELSE hdr[Other(active)].epoch < epoch

\* No failed write sits in the entry that the next AddObject will program.
NextEntryErased == dir.next <= ObjectCount => obj[active][dir.next] = BlankObj

\* The directory kept up to date in RAM by each call is the one that a reset
\* would read back from flash, down to the counters of reclaimable space.
DirectoryMatchesFlash ==
  pc = "idle" /\ ~dirBad /\ NextEntryErased => dir = ReadDirectory(active)

\* What AddObject takes for free space is erased, so that a call that has the
\* space is never refused by the driver: the extent of an interrupted write is
\* reserved, even though the write never completed.
FreeSpaceIsErased ==
  pc = "idle" /\ ~dirBad /\ NextEntryErased =>
    /\ \A i \in dir.next..ObjectCount : obj[active][i] = BlankObj
    /\ \A u \in dir.data..(DataUnits - 1) : dat[active][u] = Blank

\* A compaction frees exactly what GetAvailable reported as reclaimable: of
\* entries, and of data units.  wh_Nvm_AddObjectWithReclaim decides on that.
ReclaimIsExact ==
  pc = "dst_reread" /\ op.ids = {} =>
    LET new == ReadDirectory(Other(active))
    IN  /\ new.next = dir.next - dir.recEntries
        /\ new.data = dir.data - dir.recData
        /\ new.recEntries = 0

\* Once a partition is complete there always is a complete partition: no step
\* of an update, reset or error leaves the store to be formatted anew.
NeverUnformatted == [][Used({}) # {} => (Used({}))' # {}]_vars

\* What the flash holds, as a reset finds it: for each id, the last complete
\* entry in the partition that Init would choose.
Complete(p, id) ==
  {i \in Entry : /\ obj[p][i].epoch /\ obj[p][i].start # Blank
                /\ obj[p][i].count # Blank
                /\ obj[p][i].meta.id = id}
Holds(p) ==
  [id \in Id |-> IF Complete(p, id) = {} THEN None
                ELSE Fetch(p, obj[p][Max(Complete(p, id))])]
Recovered ==
  IF Used({}) = {} THEN NoObjects
  ELSE IF Choose(Used({})) = 0 THEN Holds(0) ELSE Holds(1)

\* The store keeps its promise: each call takes effect on flash at one step,
\* success is returned only after it, and a reset recovers what is on flash.
Store == INSTANCE NvmStore WITH
           up <- Running,
           mem <- IF Running THEN View(active, dir) ELSE NoObjects,
           disk <- Recovered
StoreRefined == Store!StoreSpec

\* An object whose AddObject returned success is there after a reset.
AddIsDurable ==
  [][pc = "obj_count" /\ op.kind = "add" /\ ret' = "OK"
     => Recovered'[op.id] = op.val]_vars

\* When Init returns, an erase of the old partition that a reset had cut short
\* is done: the partition not in use is not a complete one.
InitFinishesErase == [][~Running /\ Running' => (Used({}))' # Part]_vars

\* Init formats partition 0 only while there is no complete partition.
FormatOnlyWhenEmpty == pc \in InitPc => Used({}) = {}
=============================================================================
