---------------------------- MODULE NvmFlashLog ----------------------------
(***************************************************************************)
(* The NVM backend for flash with large write units,                       *)
(* src/wh_nvm_flash_log.c: the whole store is an image in RAM, and every   *)
(* change writes that image to the partition that is not in use.  Its      *)
(* header, programmed last, carries a higher epoch than the other one; of  *)
(* two programmed headers the higher epoch is the current one.             *)
(*                                                                         *)
(* The RAM image is changed before flash is.  If a flash call then fails,  *)
(* the old image is read back from the partition still in use.  Two cases  *)
(* are not undone by that (history variable spoiled): the image read back  *)
(* is empty, which leaves the new object in the buffer, and a list of ids  *)
(* to destroy is found to be wrong when part of it is carried out.         *)
(*                                                                         *)
(* One action is one call of the flash driver (a program with its blank    *)
(* check and verification).  The layout inside an image is abstracted to   *)
(* the map from ids to contents: an id occurs once.                        *)
(***************************************************************************)
EXTENDS Integers, FiniteSetsExt, NvmOps

CONSTANTS UnitsOf,      \* [Val -> Nat], write units of a content, metadata included
          ObjectCount,  \* WOLFHSM_CFG_NVM_OBJECT_COUNT
          Capacity,     \* units of a partition after its header
          MaxEpoch,     \* bound: epochs that are explored
          Faults,       \* which driver calls may fail, a subset of FaultKinds
          BeyondSpoil,  \* bound: whether calls are explored once spoiled
          Blank,        \* erased flash
          Torn          \* an image whose programming or erasing was cut short

\* "program" and "erase" stop half way; "reread": the image in use cannot be
\* read back.
FaultKinds == {"program", "erase", "reread"}

ASSUME LogAssumption ==
  /\ UnitsOf \in [Val -> Nat]
  /\ ObjectCount \in Nat
  /\ Capacity \in Nat
  /\ MaxEpoch \in Nat
  /\ Faults \subseteq FaultKinds
  /\ BeyondSpoil \in BOOLEAN
ASSUME ImageAssumption ==
  /\ Blank \notin Contents
  /\ Torn \notin Contents
  /\ Blank \notin [epoch: Nat, empty: BOOLEAN]

Part == {0, 1}
Other(p) == 1 - p
Header == [epoch: Nat, empty: BOOLEAN]   \* empty stands for size = 0
Leftover == [id: Id, val: Val]

VARIABLES
  hdr,      \* flash: whNvmFlashLogPartitionHeader of each partition, or Blank
  dat,      \* flash: the image of each partition, or Blank, or Torn
  pc,       \* where the code is: "off" before Init, "idle" between calls
  active,   \* context->active_partition
  epoch,    \* context->directory.header.partition_epoch
  ram,      \* context->directory: the objects within header.size
  left,     \* an object left at the start of directory.data while size is 0
  op,       \* the call in progress
  ret,      \* what the last call returned
  spoiled   \* history: an error left RAM different from flash

flash == <<hdr, dat>>
image == <<active, epoch, ram, left>>
vars == <<hdr, dat, pc, active, epoch, ram, left, op, ret, spoiled>>

(***************************************************************************)
(* The image in RAM.                                                       *)
(***************************************************************************)
Present(c) == {i \in Id : c[i] # None}
Size(c) == MapThenSumSet(LAMBDA i : UnitsOf[c[i]], Present(c))
Fits(c) == Size(c) <= Capacity /\ Cardinality(Present(c)) <= ObjectCount

\* nfl_ObjectFindById takes the first object of the buffer without looking at
\* the size, so that a leftover of an empty image is found.
Ghost(id) == ram = NoObjects /\ left # None /\ left.id = id
View == [i \in Id |-> IF Ghost(i) THEN left.val ELSE ram[i]]

\* nfl_PartitionRead of the image in use; a size of 0 reads nothing.
Stored(p) ==
  IF hdr[p] = Blank \/ hdr[p].empty \/ dat[p] \notin Contents THEN NoObjects
  ELSE dat[p]

(***************************************************************************)
(* Flash: what the code is about to write at each pc.                      *)
(***************************************************************************)
ErasePc == {"init_erase", "init_clean", "new_erase", "old_erase", "undo_erase"}
ProgramPc == {"init_commit", "new_write", "new_commit"}
ChangePc == {"new_erase", "new_write", "new_commit"}
Pc == {"off", "idle"} \union ErasePc \union ProgramPc

EraseAreas(p, areas) ==
  /\ hdr' = IF "header" \in areas THEN [hdr EXCEPT ![p] = Blank] ELSE hdr
  /\ dat' = IF "data" \in areas THEN [dat EXCEPT ![p] = Blank] ELSE dat

\* nfl_PartitionCommit; its blank check comes before.
Commit(p) ==
  /\ hdr' = [hdr EXCEPT ![p] = [epoch |-> epoch, empty |-> ram = NoObjects]]
  /\ UNCHANGED dat

Target == IF pc \in {"init_erase", "init_commit"} THEN active ELSE Other(active)

\* The blank checks of nfl_FlashProgramHelper and nfl_PartitionCommit.
Ready ==
  /\ pc \in {"init_commit", "new_commit"} => hdr[Target] = Blank
  /\ pc = "new_write" => dat[Target] = Blank

Write ==
  \/ pc \in ErasePc /\ EraseAreas(Target, {"header", "data"})
  \/ pc = "new_write" /\ dat' = [dat EXCEPT ![Target] = ram] /\ UNCHANGED hdr
  \/ pc \in {"init_commit", "new_commit"} /\ Commit(Target)

\* The same call cut short by a reset or by an error.  The header is one write
\* unit; an erase goes through the partition in one order or the other.
PartialWrite ==
  \/ pc \in ErasePc /\ \E areas \in {{"header"}, {"data"}} : EraseAreas(Target, areas)
  \/ pc = "new_write" /\ dat' = [dat EXCEPT ![Target] = Torn] /\ UNCHANGED hdr
  \/ UNCHANGED flash

(***************************************************************************)
(* wh_NvmFlashLog_Init.                                                    *)
(***************************************************************************)
Programmed == {p \in Part : hdr[p] # Blank}

\* Mutant: takes partition 1 whenever it is programmed.
M_Choose == IF 1 \in Programmed THEN 1 ELSE 0

\* nfl_PartitionChoose, when a header is programmed.
Choose ==
  IF Programmed = Part THEN (IF hdr[0].epoch > hdr[1].epoch THEN 0 ELSE 1)
  ELSE IF 1 \in Programmed THEN 1 ELSE 0

Init ==
  /\ hdr = [p \in Part |-> Blank]
  /\ dat = [p \in Part |-> Blank]
  /\ pc = "off"
  /\ active = 0
  /\ epoch = 0
  /\ ram = NoObjects
  /\ left = None
  /\ op = NoOp
  /\ ret = "NONE"
  /\ spoiled = FALSE

\* Both headers are blank: partition 0 is formatted.
InitFormat ==
  /\ pc = "off"
  /\ Programmed = {}
  /\ pc' = "init_erase"
  /\ UNCHANGED <<flash, image, op, ret, spoiled>>

InitErase ==
  /\ pc = "init_erase"
  /\ Write
  /\ pc' = "init_commit"
  /\ UNCHANGED <<image, op, ret, spoiled>>

\* The empty image that was committed is what nfl_PartitionRead finds.
InitCommit ==
  /\ pc = "init_commit"
  /\ Ready
  /\ Write
  /\ pc' = "init_clean"
  /\ UNCHANGED <<image, op, ret, spoiled>>

\* nfl_PartitionChoose and nfl_PartitionRead.
InitRead ==
  /\ pc = "off"
  /\ Programmed # {}
  /\ active' = Choose
  /\ epoch' = hdr[Choose].epoch
  /\ ram' = Stored(Choose)
  /\ pc' = "init_clean"
  /\ UNCHANGED <<flash, left, op, ret, spoiled>>

\* The partition not in use is erased before the store is ready.
InitClean ==
  /\ pc = "init_clean"
  /\ Write
  /\ pc' = "idle"
  /\ UNCHANGED <<image, op, ret, spoiled>>

InitError ==
  /\ pc \in {"init_erase", "init_commit", "init_clean"}
  /\ \/ pc \in ErasePc /\ "erase" \in Faults /\ PartialWrite
     \/ pc \notin ErasePc /\ Ready /\ "program" \in Faults /\ PartialWrite
  /\ pc' = "off"
  /\ active' = 0
  /\ epoch' = 0
  /\ ram' = NoObjects
  /\ UNCHANGED <<left, op, ret, spoiled>>

(***************************************************************************)
(* wh_NvmFlashLog_AddObject and wh_NvmFlashLog_DestroyObjects.             *)
(***************************************************************************)
Serving == pc = "idle" /\ (spoiled => BeyondSpoil)

\* The change is made in RAM and takes the next epoch.
Change(o) ==
  /\ epoch < MaxEpoch
  /\ op' = o
  /\ ret' = "NONE"
  /\ ram' = Apply(o, ram)
  /\ epoch' = epoch + 1
  /\ pc' = "new_erase"
  /\ UNCHANGED <<flash, active, spoiled>>

AddObject(id, v) ==
  /\ Serving
  /\ ~Ghost(id)
  /\ Fits([ram EXCEPT ![id] = v])
  /\ Change([kind |-> "add", id |-> id, val |-> v])
  /\ left' = None

\* A leftover that is taken for the old version makes the count negative.
AddNoSpace(id, v) ==
  /\ Serving
  /\ Ghost(id) \/ ~Fits([ram EXCEPT ![id] = v])
  /\ ret' = "NOSPACE"
  /\ UNCHANGED <<flash, pc, image, op, spoiled>>

\* A list without ids returns at once; any other writes a new image.  (To
\* destroy a leftover would move a negative length of memory: not explored.)
DestroyObjects(ids) ==
  /\ Serving
  /\ ids # {}
  /\ \A i \in ids : ~Ghost(i)
  /\ Change([kind |-> "destroy", ids |-> ids])
  /\ UNCHANGED left

\* An invalid id ends the loop after the ids before it were removed from RAM.
DestroyInvalid(ids) ==
  /\ Serving
  /\ \A i \in ids : ~Ghost(i)
  /\ ret' = "ERROR"
  /\ ram' = Apply([kind |-> "destroy", ids |-> ids], ram)
  /\ spoiled' = (spoiled \/ ram' # ram)
  /\ UNCHANGED <<flash, pc, active, epoch, left, op>>

\* nfl_PartitionNewEpoch: erase, write the image, commit, switch.
NewErase ==
  /\ pc = "new_erase"
  /\ Write
  /\ pc' = IF ram = NoObjects THEN "new_commit" ELSE "new_write"
  /\ UNCHANGED <<image, op, ret, spoiled>>

NewWrite ==
  /\ pc = "new_write"
  /\ Ready
  /\ Write
  /\ pc' = "new_commit"
  /\ UNCHANGED <<image, op, ret, spoiled>>

NewCommit ==
  /\ pc = "new_commit"
  /\ Ready
  /\ Write
  /\ active' = Other(active)
  /\ pc' = "old_erase"
  /\ UNCHANGED <<epoch, ram, left, op, ret, spoiled>>

\* The rest of nfl_PartitionNewEpochOrFallback: whether the erase of the
\* partition not in use succeeds is not looked at.
FinalErase ==
  /\ pc \in {"old_erase", "undo_erase"}
  /\ Write \/ ("erase" \in Faults /\ PartialWrite)
  /\ pc' = "idle"
  /\ op' = NoOp
  /\ ret' = IF pc = "old_erase" THEN "OK" ELSE "ERROR"
  /\ UNCHANGED <<image, spoiled>>

ChangeFails ==
  /\ pc \in ChangePc
  /\ \/ ~Ready /\ UNCHANGED flash
     \/ pc = "new_erase" /\ "erase" \in Faults /\ PartialWrite
     \/ pc # "new_erase" /\ "program" \in Faults /\ Ready /\ PartialWrite
  /\ pc' = "undo_erase"
  /\ UNCHANGED <<active, op, ret>>

\* Mutant: the old image is not read back.
M_Fallback ==
  /\ ChangeFails
  /\ UNCHANGED <<epoch, ram, left, spoiled>>

\* The old image is read back.  Only header.size bytes are: when that is 0, the
\* object that was just put at the start of the buffer stays there.
Fallback ==
  /\ ChangeFails
  /\ epoch' = hdr[active].epoch
  /\ ram' = Stored(active)
  /\ left' = IF Stored(active) # NoObjects THEN None
             ELSE IF op.kind = "add" THEN [id |-> op.id, val |-> op.val]
             ELSE left
  /\ spoiled' = (spoiled \/ left' # None)

\* Reading it back fails, which nobody looks at: the change stays in RAM.
FallbackError ==
  /\ ChangeFails
  /\ "reread" \in Faults
  /\ spoiled' = TRUE
  /\ UNCHANGED <<epoch, ram, left>>

\* Power is lost.
Reset ==
  /\ pc # "off"
  /\ \/ pc \notin {"off", "idle"} /\ Ready /\ PartialWrite
     \/ UNCHANGED flash
  /\ pc' = "off"
  /\ active' = 0
  /\ epoch' = 0
  /\ ram' = NoObjects
  /\ left' = None
  /\ op' = NoOp
  /\ ret' = "NONE"
  /\ spoiled' = FALSE

Next ==
  \/ InitFormat
  \/ InitErase
  \/ InitCommit
  \/ InitRead
  \/ InitClean
  \/ InitError
  \/ \E id \in Id, v \in Val : AddObject(id, v) \/ AddNoSpace(id, v)
  \/ \E ids \in SUBSET Id : DestroyObjects(ids) \/ DestroyInvalid(ids)
  \/ NewErase
  \/ NewWrite
  \/ NewCommit
  \/ FinalErase
  \/ Fallback
  \/ FallbackError
  \/ Reset

Spec == Init /\ [][Next]_vars

(***************************************************************************)
(* Properties.                                                             *)
(***************************************************************************)
InitPc == {"init_erase", "init_commit", "init_clean"}
Running == pc \notin InitPc \union {"off"}

\* Types of flash, of the context and of the call in progress.
TypeOK ==
  /\ hdr \in [Part -> Header \union {Blank}]
  /\ dat \in [Part -> Contents \union {Blank, Torn}]
  /\ pc \in Pc
  /\ active \in Part
  /\ epoch \in Nat
  /\ ram \in Contents
  /\ left \in Leftover \union {None}
  /\ op \in Ops \union {NoOp}
  /\ ret \in Returns
  /\ spoiled \in BOOLEAN

\* A partition with a header holds the whole image the header speaks of.
Whole(p) == hdr[p] # Blank /\ (~hdr[p].empty => dat[p] \in Contents)

\* While the store runs, the partition in use is whole and the one a reset
\* would choose; between calls it is of the epoch that RAM remembers.
ActiveIsNewest ==
  Running =>
    /\ Whole(active)
    /\ hdr[Other(active)] # Blank => hdr[Other(active)].epoch < hdr[active].epoch
    /\ pc = "idle" /\ ~spoiled => epoch = hdr[active].epoch

\* What a reset finds.
Recovered == IF Programmed = {} THEN NoObjects ELSE Stored(Choose)

\* What was stored when the call in progress began.
Before == IF pc = "old_erase" THEN Stored(Other(active)) ELSE Stored(active)

\* The contract of the store, up to the call that spoils it; from then on only
\* that a reset finds what flash held before that call.
Store == INSTANCE NvmStore WITH
           up <- Running /\ ~spoiled,
           op <- IF spoiled THEN NoOp ELSE op,
           ret <- IF spoiled THEN "NONE" ELSE ret,
           mem <- IF ~Running \/ spoiled THEN NoObjects
                  ELSE IF pc = "idle" THEN View ELSE Before,
           disk <- Recovered
StoreRefined == Store!StoreSpec

\* Between calls, callers see what a reset would recover: what a call that
\* returned an error did to RAM has been undone.
CallersSeeFlash == pc = "idle" => View = Stored(active)
=============================================================================
