------------------------- MODULE NvmFlashLogProofs -------------------------
(***************************************************************************)
(* Proofs about NvmFlashLog, for every number of ids, contents, entries    *)
(* and epochs, every size of a partition and every set of faults: the      *)
(* partition in use is the one a reset would choose, and the backend       *)
(* implements NvmStore.                                                    *)
(***************************************************************************)
EXTENDS NvmFlashLog, TLAPS

(***************************************************************************)
(* The inductive invariant: what flash holds follows from where the code   *)
(* is.                                                                     *)
(***************************************************************************)
Next0 == hdr[Other(active)]

\* Between boots: a partition that a reset would choose is whole.
OffInv ==
  pc = "off" =>
    /\ Programmed # {} => Whole(Choose)
    /\ Programmed = Part => hdr[0].epoch # hdr[1].epoch
    /\ active = 0 /\ epoch = 0 /\ ram = NoObjects

\* While partition 0 is formatted.
FormatInv ==
  pc \in {"init_erase", "init_commit"} =>
    /\ Programmed = {} /\ active = 0 /\ epoch = 0 /\ ram = NoObjects

\* The partition in use is whole and of a higher epoch than the other one.
NewestInv ==
  Running \/ pc = "init_clean" =>
    /\ Whole(active)
    /\ Next0 # Blank => Next0.epoch < hdr[active].epoch
    /\ hdr[active].epoch <= epoch

\* The image in RAM is the one in use, or the one the change leads to.
ImageInv ==
  /\ pc \in {"idle", "init_clean", "undo_erase"} /\ ~spoiled =>
       ram = Stored(active) /\ epoch = hdr[active].epoch
  /\ pc \in ChangePc =>
       hdr[active].epoch < epoch
  /\ pc \in ChangePc /\ ~spoiled => ram = Apply(op, Stored(active))
  /\ pc = "old_erase" =>
       ram = Stored(active) /\ epoch = hdr[active].epoch
  /\ pc = "old_erase" /\ ~spoiled => ram = Apply(op, Stored(Other(active)))

\* How far the image of the change is written.
ChangeInv ==
  /\ pc = "new_write" => Next0 = Blank
  /\ pc = "new_commit" => Next0 = Blank /\ (ram # NoObjects => dat[Other(active)] = ram)

\* There is a call in progress, and an error, only while the store runs.
OpInv ==
  /\ pc \in ChangePc \union {"old_erase", "undo_erase"} <=> op # NoOp
  /\ op # NoOp => ret = "NONE"
  /\ ~Running => ret = "NONE" /\ ~spoiled
  /\ ~spoiled => left = None
  /\ spoiled /\ ~BeyondSpoil => pc \in {"idle", "undo_erase"}

IInv ==
  /\ TypeOK
  /\ OffInv
  /\ FormatInv
  /\ NewestInv
  /\ ImageInv
  /\ ChangeInv
  /\ OpInv

(***************************************************************************)
(* The two partitions and what a driver call does to them.                 *)
(***************************************************************************)
\* The two partitions.
LEMMA PartFacts ==
  /\ 0 \in Part /\ 1 \in Part
  /\ \A p \in Part : Other(p) \in Part /\ Other(p) # p /\ Other(Other(p)) = p
  /\ \A p, q \in Part : q # p => q = Other(p)
BY DEF Part, Other

\* The operations keep a map from ids to contents.
LEMMA ApplyType ==
  ASSUME NEW c \in Contents, NEW o \in Ops
  PROVE  Apply(o, c) \in Contents
BY DEF Apply, Contents, Ops, AddOps, DestroyOps

\* What can be read back from a partition is an image.
LEMMA StoredType ==
  /\ NoObjects \in Contents
  /\ \A p \in Part : Stored(p) \in Contents
BY DEF Stored, NoObjects, Contents

\* What is stored in a partition depends on that partition alone.
LEMMA StoredFrame ==
  ASSUME NEW p \in Part, hdr'[p] = hdr[p], dat'[p] = dat[p]
  PROVE  Stored(p)' = Stored(p) /\ Whole(p)' = Whole(p)
BY DEF Stored, Whole

\* No image or header is taken for erased flash, no call for its absence.
LEMMA Distinct ==
  /\ Blank \notin Header
  /\ Blank \notin Contents
  /\ Torn \notin Contents
  /\ NoOp \notin Ops
BY ImageAssumption DEF Header, NoOp, Ops, AddOps, DestroyOps

\* An erase, complete or cut short, leaves the other partition alone, and can
\* only clear what it erases.
LEMMA EraseEffect ==
  ASSUME TypeOK, NEW p \in Part, NEW areas, EraseAreas(p, areas)
  PROVE  /\ hdr' \in [Part -> Header \union {Blank}]
         /\ dat' \in [Part -> Contents \union {Blank, Torn}]
         /\ hdr'[Other(p)] = hdr[Other(p)] /\ dat'[Other(p)] = dat[Other(p)]
         /\ hdr'[p] \in {hdr[p], Blank}
         /\ areas = {"header", "data"} => hdr'[p] = Blank /\ dat'[p] = Blank
BY PartFacts DEF EraseAreas, TypeOK

\* The partition in use is the one a reset chooses.
LEMMA ChooseActive ==
  ASSUME TypeOK, hdr[active] # Blank,
         Next0 # Blank => Next0.epoch < hdr[active].epoch
  PROVE  Programmed # {} /\ Choose = active /\ Recovered = Stored(active)
<1>1. active \in Programmed
  BY DEF Programmed, TypeOK
<1>2. \A p \in Part : hdr[p] # Blank => hdr[p].epoch \in Nat
  BY DEF TypeOK, Header
<1>3. Choose = active
  BY <1>1, <1>2, PartFacts DEF Choose, Programmed, Next0, TypeOK, Part, Other
<1> QED
  BY <1>1, <1>3 DEF Recovered

(***************************************************************************)
(* Every action keeps the invariant.                                       *)
(***************************************************************************)
LEMMA InitInv == Init => IInv
<1> SUFFICES ASSUME Init PROVE IInv
  OBVIOUS
<1> USE DEF Init, Running, InitPc, ChangePc
<1>1. TypeOK
  BY PartFacts, StoredType DEF TypeOK, Pc, Returns
<1>2. OffInv
  BY PartFacts DEF OffInv, Programmed
<1>3. FormatInv /\ NewestInv /\ ImageInv /\ ChangeInv
  BY DEF FormatInv, NewestInv, ImageInv, ChangeInv
<1>4. OpInv
  BY Zenon DEF OpInv, ErasePc
<1> QED
  BY <1>1, <1>2, <1>3, <1>4 DEF IInv

\* An erase of the partition not in use leaves all that is known of the one in
\* use as it was.
LEMMA OtherErased ==
  ASSUME TypeOK, NEW areas, EraseAreas(Other(active), areas), active' = active
  PROVE  /\ Stored(active)' = Stored(active) /\ Whole(active)' = Whole(active)
         /\ hdr'[active] = hdr[active]
         /\ hdr'[Other(active)] \in {Next0, Blank}
         /\ hdr' \in [Part -> Header \union {Blank}]
         /\ dat' \in [Part -> Contents \union {Blank, Torn}]
         /\ areas = {"header", "data"} => hdr'[Other(active)] = Blank /\ dat'[Other(active)] = Blank
<1>1. active \in Part /\ Other(active) \in Part /\ Other(Other(active)) = active
  BY PartFacts DEF TypeOK
<1>2. /\ hdr'[active] = hdr[active] /\ dat'[active] = dat[active]
      /\ hdr'[Other(active)] \in {Next0, Blank}
      /\ hdr' \in [Part -> Header \union {Blank}]
      /\ dat' \in [Part -> Contents \union {Blank, Torn}]
      /\ areas = {"header", "data"} => hdr'[Other(active)] = Blank /\ dat'[Other(active)] = Blank
  BY <1>1, EraseEffect DEF Next0
<1> QED
  BY <1>1, <1>2, StoredFrame

\* Formatting, and the choice between two partitions at boot.
LEMMA FormatSteps ==
  ASSUME IInv, InitFormat \/ InitErase \/ InitCommit
  PROVE  IInv'
<1> USE DEF IInv, TypeOK, Pc, ErasePc, ProgramPc, ChangePc, Running, InitPc
<1>1. CASE InitFormat
  BY <1>1 DEF InitFormat, flash, image, OffInv, FormatInv, NewestInv, ImageInv, ChangeInv, OpInv, Programmed
<1>2. CASE InitErase
  <2>1. EraseAreas(active, {"header", "data"})
    BY <1>2 DEF InitErase, Write, Target
  <2>2. /\ hdr' \in [Part -> Header \union {Blank}]
        /\ dat' \in [Part -> Contents \union {Blank, Torn}]
        /\ Programmed' = {}
    BY <1>2, <2>1, EraseEffect, PartFacts DEF InitErase, FormatInv, Programmed
  <2> QED
    BY <1>2, <2>2 DEF InitErase, image, OffInv, FormatInv, NewestInv, ImageInv, ChangeInv, OpInv
<1>3. CASE InitCommit
  <2>1. /\ hdr' = [hdr EXCEPT ![0] = [epoch |-> 0, empty |-> TRUE]] /\ dat' = dat
        /\ active = 0 /\ epoch = 0 /\ ram = NoObjects /\ hdr[1] = Blank
    BY <1>3, PartFacts DEF InitCommit, Write, Commit, Target, FormatInv, Programmed
  <2>2. hdr' \in [Part -> Header \union {Blank}] /\ Whole(active)' /\ Stored(active)' = NoObjects
    <3>1. [epoch |-> 0, empty |-> TRUE] \in Header
      BY DEF Header
    <3>2. hdr'[0] = [epoch |-> 0, empty |-> TRUE] /\ hdr' \in [Part -> Header \union {Blank}]
      BY <2>1, <3>1, PartFacts
    <3>3. active' = 0 /\ hdr'[0] # Blank /\ hdr'[0].empty
      BY <1>3, <2>1, <3>1, <3>2, Distinct DEF InitCommit, image
    <3> QED
      BY <3>2, <3>3 DEF Whole, Stored
  <2>3. hdr'[Other(active')] = Blank /\ hdr'[active'].epoch = 0
    BY <1>3, <2>1, PartFacts DEF InitCommit, image, Other
  <2> QED
    BY <1>3, <2>1, <2>2, <2>3 DEF InitCommit, image, OffInv, FormatInv, NewestInv, ImageInv, ChangeInv, OpInv, Next0
<1> QED
  BY <1>1, <1>2, <1>3

\* Reading the two headers at start.
LEMMA InitReadStep ==
  ASSUME IInv, InitRead
  PROVE  IInv'
<1> USE DEF IInv, TypeOK, Pc, ErasePc, ProgramPc, ChangePc, Running, InitPc
<1>1. Choose \in Programmed /\ Choose \in Part
  BY PartFacts DEF InitRead, Choose, Programmed, Part
<1>2. Whole(Choose) /\ hdr[Choose].epoch \in Nat
  BY <1>1, Distinct DEF InitRead, OffInv, Programmed, Header
<1>3. hdr[Other(Choose)] # Blank => hdr[Other(Choose)].epoch < hdr[Choose].epoch
  <2>1. \A p \in Part : hdr[p] # Blank => hdr[p].epoch \in Nat
    BY DEF Header
  <2> QED
    BY <2>1, PartFacts DEF InitRead, OffInv, Choose, Programmed, Part, Other
<1>4. Stored(Choose)' = Stored(Choose) /\ Whole(Choose)' = Whole(Choose) /\ Choose' = Choose
  BY DEF InitRead, flash, Stored, Whole, Choose, Programmed
<1> QED
  BY <1>1, <1>2, <1>3, <1>4, StoredType
  DEF InitRead, flash, OffInv, FormatInv, NewestInv, ImageInv, ChangeInv, OpInv, Next0, Stored, Whole

\* A start that needs no write.
LEMMA InitCleanStep ==
  ASSUME IInv, InitClean
  PROVE  IInv'
<1> USE DEF IInv, TypeOK, Pc, ErasePc, ProgramPc, ChangePc, Running, InitPc
<1>1. EraseAreas(Other(active), {"header", "data"})
  BY DEF InitClean, Write, Target
<1>2. active' = active
  BY DEF InitClean, image
<1> QED
  BY <1>1, <1>2, OtherErased
  DEF InitClean, image, OffInv, FormatInv, NewestInv, ImageInv, ChangeInv, OpInv, Next0

\* A driver call that stops half way has cleared at most part of the partition
\* it erases, or torn the image that it writes next to a blank header.
LEMMA PartialEffect ==
  ASSUME IInv, PartialWrite, pc # "init_erase", pc # "off"
  PROVE  /\ hdr' \in [Part -> Header \union {Blank}]
         /\ dat' \in [Part -> Contents \union {Blank, Torn}]
         /\ pc = "init_commit" => hdr' = hdr
         /\ pc # "init_commit" =>
              /\ hdr'[active] = hdr[active] /\ dat'[active] = dat[active]
              /\ hdr'[Other(active)] \in {Next0, Blank}
<1> USE DEF IInv, TypeOK
<1>1. CASE pc \in ErasePc
  <2>1. PICK areas \in {{"header"}, {"data"}} : EraseAreas(Other(active), areas) \/ UNCHANGED flash
    BY <1>1 DEF PartialWrite, Target, ErasePc
  <2>2. CASE EraseAreas(Other(active), areas)
    BY <1>1, <2>2, EraseEffect, PartFacts DEF ErasePc, Next0
  <2>3. CASE UNCHANGED flash
    BY <1>1, <2>3 DEF flash, Next0, ErasePc
  <2> QED
    BY <2>1, <2>2, <2>3
<1>2. CASE pc = "new_write"
  BY <1>2, PartFacts DEF PartialWrite, Target, ErasePc, flash, Next0
<1>3. CASE pc \notin ErasePc /\ pc # "new_write"
  BY <1>3 DEF PartialWrite, flash, Next0
<1> QED
  BY <1>1, <1>2, <1>3

\* A boot that fails, and a reset.
Stops ==
  /\ pc # "off" /\ pc' = "off" /\ active' = 0 /\ epoch' = 0 /\ ram' = NoObjects
  /\ PartialWrite \/ UNCHANGED flash
  /\ left' = None /\ op' = NoOp /\ ret' = "NONE" /\ spoiled' = FALSE

\* An error or a reset stops what is under way.
LEMMA Stopping ==
  ASSUME IInv, InitError \/ Reset
  PROVE  Stops
<1>1. CASE InitError
  BY <1>1 DEF InitError, OpInv, IInv, TypeOK, Running, InitPc, ChangePc, Stops
<1>2. CASE Reset
  BY <1>2 DEF Reset, Stops
<1> QED
  BY <1>1, <1>2

\* While partition 0 is formatted, nothing is on flash yet.
LEMMA FormatStops ==
  ASSUME IInv, Stops, pc \in {"init_erase", "init_commit"}
  PROVE  /\ Programmed' = {}
         /\ hdr' \in [Part -> Header \union {Blank}]
         /\ dat' \in [Part -> Contents \union {Blank, Torn}]
<1> USE DEF IInv, TypeOK
<1>1. CASE UNCHANGED flash
  BY <1>1 DEF flash, FormatInv, Programmed
<1>2. CASE PartialWrite /\ pc = "init_commit"
  BY <1>2, PartialEffect DEF FormatInv, Programmed
<1>3. CASE PartialWrite /\ pc = "init_erase"
  <2>1. (\E areas : EraseAreas(active, areas)) \/ UNCHANGED flash
    BY <1>3 DEF PartialWrite, Target
  <2> QED
    BY <1>3, <2>1, EraseEffect, PartFacts DEF FormatInv, Programmed, flash
<1> QED
  BY <1>1, <1>2, <1>3 DEF Stops

\* Afterwards the partition in use is untouched and is the one a reset chooses.
Untouched(p) ==
  /\ p = active
  /\ hdr'[p] = hdr[p] /\ dat'[p] = dat[p] /\ hdr[p] # Blank
  /\ Stored(p)' = Stored(p) /\ Whole(p)'
  /\ Choose' = p
  /\ (Programmed = Part => hdr[0].epoch # hdr[1].epoch)'

\* Where it stops, one partition at least is untouched.
LEMMA UseStops ==
  ASSUME IInv, Stops, pc \notin {"init_erase", "init_commit"}
  PROVE  /\ hdr' \in [Part -> Header \union {Blank}]
         /\ dat' \in [Part -> Contents \union {Blank, Torn}]
         /\ \E p \in Part : Untouched(p)
<1> USE DEF IInv, TypeOK
<1>1. /\ hdr' \in [Part -> Header \union {Blank}] /\ dat' \in [Part -> Contents \union {Blank, Torn}]
      /\ hdr'[active] = hdr[active] /\ dat'[active] = dat[active]
      /\ hdr'[Other(active)] \in {Next0, Blank}
  BY PartialEffect DEF flash, Next0, Stops
<1>2. Whole(active) /\ (Next0 # Blank => Next0.epoch < hdr[active].epoch)
  BY DEF NewestInv, Stops, Running, InitPc, Pc, ErasePc, ProgramPc
<1>3. PICK p \in Part : p = active
  OBVIOUS
<1>4. Stored(p)' = Stored(p) /\ Whole(p)' /\ hdr[p] # Blank
  BY <1>1, <1>2, <1>3, StoredFrame DEF Whole
<1>5. hdr'[Other(p)] # Blank => hdr'[Other(p)].epoch < hdr'[p].epoch
  BY <1>1, <1>2, <1>3 DEF Next0
<1>6. \A q \in Part : hdr'[q] # Blank => hdr'[q].epoch \in Nat
  BY <1>1 DEF Header
<1>7. Choose' = p /\ (Programmed = Part => hdr[0].epoch # hdr[1].epoch)'
  BY <1>1, <1>3, <1>4, <1>5, <1>6, PartFacts DEF Choose, Programmed, Part, Other
<1> QED
  BY <1>1, <1>3, <1>4, <1>7 DEF Untouched

\* Stopping keeps the invariant.
LEMMA StopSteps ==
  ASSUME IInv, InitError \/ Reset
  PROVE  IInv'
<1>1. Stops
  BY Stopping
<1>2. /\ hdr' \in [Part -> Header \union {Blank}]
      /\ dat' \in [Part -> Contents \union {Blank, Torn}]
      /\ OffInv'
  <2>1. CASE pc \in {"init_erase", "init_commit"}
    BY <1>1, <2>1, FormatStops, PartFacts DEF OffInv, Stops
  <2>2. CASE pc \notin {"init_erase", "init_commit"}
    BY <1>1, <2>2, UseStops DEF OffInv, Stops, Untouched
  <2> QED
    BY <2>1, <2>2
<1>3. TypeOK'
  BY <1>1, <1>2, PartFacts, StoredType DEF Stops, TypeOK, Pc, Returns
<1>4. (FormatInv /\ NewestInv /\ ImageInv /\ ChangeInv)'
  BY <1>1 DEF Stops, FormatInv, NewestInv, ImageInv, ChangeInv, Running, InitPc, ChangePc
<1>5. OpInv'
  BY <1>1 DEF Stops, OpInv, Running, InitPc, ChangePc
<1> QED
  BY <1>2, <1>3, <1>4, <1>5 DEF IInv

\* A call changes RAM and takes the next epoch.
LEMMA CallSteps ==
  ASSUME IInv, NEW id, NEW v, NEW ids,
         (id \in Id /\ v \in Val /\ AddObject(id, v)) \/ (ids \subseteq Id /\ DestroyObjects(ids))
  PROVE  IInv'
<1> USE DEF IInv, TypeOK, Pc, ErasePc, ProgramPc, ChangePc, Running, InitPc
<1>1. PICK o \in Ops :
        /\ pc = "idle" /\ Change(o) /\ (spoiled => BeyondSpoil)
        /\ left' \in Leftover \union {None} /\ (~spoiled => left' = None)
  <2>1. CASE id \in Id /\ v \in Val /\ AddObject(id, v)
    BY <2>1 DEF AddObject, Serving, Ops, AddOps
  <2>2. CASE ids \subseteq Id /\ DestroyObjects(ids)
    <3>1. [kind |-> "destroy", ids |-> ids] \in Ops
      BY <2>2 DEF Ops, DestroyOps
    <3> QED
      BY <2>2, <3>1 DEF DestroyObjects, Serving, OpInv
  <2> QED
    BY <2>1, <2>2
<1>2. /\ hdr' = hdr /\ dat' = dat /\ active' = active /\ spoiled' = spoiled
      /\ op' = o /\ ret' = "NONE" /\ pc' = "new_erase" /\ epoch' = epoch + 1
      /\ ram' = Apply(o, ram)
  BY <1>1 DEF Change, flash
<1>3. /\ Stored(active)' = Stored(active) /\ Whole(active)' = Whole(active)
      /\ Next0' = Next0 /\ hdr[active].epoch \in Nat
  BY <1>1, <1>2, Distinct, PartFacts DEF Stored, Whole, Next0, NewestInv, Header
<1>4. TypeOK'
  BY <1>1, <1>2, ApplyType DEF Returns
<1>5. (OffInv /\ FormatInv /\ NewestInv /\ ChangeInv)'
  BY <1>1, <1>2, <1>3 DEF OffInv, FormatInv, NewestInv, ChangeInv
<1>6. ImageInv'
  BY <1>1, <1>2, <1>3 DEF ImageInv, NewestInv
<1>7. OpInv'
  BY <1>1, <1>2, Distinct DEF OpInv
<1> QED
  BY <1>4, <1>5, <1>6, <1>7

\* A call that is refused, or that fails before flash is touched.
LEMMA RefusedSteps ==
  ASSUME IInv, NEW id, NEW v, NEW ids,
         (id \in Id /\ v \in Val /\ AddNoSpace(id, v)) \/ (ids \subseteq Id /\ DestroyInvalid(ids))
  PROVE  IInv'
<1> USE DEF IInv, TypeOK, Pc, ErasePc, ProgramPc, ChangePc, Running, InitPc
<1>1. /\ pc = "idle" /\ pc' = pc /\ hdr' = hdr /\ dat' = dat /\ active' = active
      /\ epoch' = epoch /\ left' = left /\ op' = op /\ ret' \in {"NOSPACE", "ERROR"}
      /\ ram' \in Contents /\ spoiled' \in BOOLEAN
      /\ spoiled => spoiled'
      /\ ~spoiled' => ram' = ram
  <2>1. CASE id \in Id /\ v \in Val /\ AddNoSpace(id, v)
    BY <2>1 DEF AddNoSpace, Serving, flash, image
  <2>2. CASE ids \subseteq Id /\ DestroyInvalid(ids)
    <3>1. [kind |-> "destroy", ids |-> ids] \in Ops
      BY <2>2 DEF Ops, DestroyOps
    <3> QED
      BY <2>2, <3>1, ApplyType DEF DestroyInvalid, Serving, flash
  <2> QED
    BY <2>1, <2>2
<1>2. Stored(active)' = Stored(active) /\ Whole(active)' = Whole(active) /\ Next0' = Next0
  BY <1>1 DEF Stored, Whole, Next0
<1>3. op = NoOp
  BY <1>1, Zenon DEF OpInv
<1> QED
  BY <1>1, <1>2, <1>3 DEF OffInv, FormatInv, NewestInv, ImageInv, ChangeInv, OpInv, Returns

\* The other partition is erased, written and committed.
LEMMA NewEraseStep ==
  ASSUME IInv, NewErase
  PROVE  IInv'
<1> USE DEF IInv, TypeOK, Pc, ErasePc, ProgramPc, ChangePc, Running, InitPc
<1>1. EraseAreas(Other(active), {"header", "data"})
  BY DEF NewErase, Write, Target
<1>2. active' = active
  BY DEF NewErase, image
<1> QED
  BY <1>1, <1>2, OtherErased
  DEF NewErase, image, OffInv, FormatInv, NewestInv, ImageInv, ChangeInv, OpInv, Next0

\* The contents are programmed into the new partition.
LEMMA NewWriteStep ==
  ASSUME IInv, NewWrite
  PROVE  IInv'
<1> USE DEF IInv, TypeOK, Pc, ErasePc, ProgramPc, ChangePc, Running, InitPc
<1>1. /\ hdr' = hdr /\ dat' = [dat EXCEPT ![Other(active)] = ram]
      /\ active' = active /\ epoch' = epoch /\ ram' = ram /\ left' = left
  BY DEF NewWrite, Write, Target, image
<1>2. active \in Part /\ Other(active) \in Part /\ Other(active) # active
  BY PartFacts
<1>3. Stored(active)' = Stored(active) /\ Whole(active)' = Whole(active)
  BY <1>1, <1>2 DEF Stored, Whole
<1> QED
  BY <1>1, <1>2, <1>3 DEF NewWrite, OffInv, FormatInv, NewestInv, ImageInv, ChangeInv, OpInv, Next0

\* The header makes them the current ones.
LEMMA NewCommitStep ==
  ASSUME IInv, NewCommit
  PROVE  IInv'
<1> USE DEF IInv, TypeOK, Pc, ErasePc, ProgramPc, ChangePc, Running, InitPc
<1> DEFINE h == [epoch |-> epoch, empty |-> ram = NoObjects]
<1>1. /\ hdr' = [hdr EXCEPT ![Other(active)] = h] /\ dat' = dat
      /\ active' = Other(active) /\ epoch' = epoch /\ ram' = ram /\ left' = left
      /\ pc = "new_commit" /\ pc' = "old_erase"
      /\ op' = op /\ ret' = ret /\ spoiled' = spoiled
  BY DEF NewCommit, Write, Commit, Target
<1>2. PICK p \in Part : p = active
  OBVIOUS
<1>3. Other(p) \in Part /\ Other(p) # p /\ Other(Other(p)) = p
  BY PartFacts
<1>4. h \in Header /\ h # Blank
  <2>1. PICK empty \in BOOLEAN : empty = (ram = NoObjects)
    BY Zenon
  <2>2. [epoch |-> epoch, empty |-> empty] \in Header
    BY DEF Header
  <2> QED
    BY <2>1, <2>2, Distinct
<1>5. Stored(p)' = Stored(p) /\ hdr'[p] = hdr[p] /\ hdr'[Other(p)] = h
  BY <1>1, <1>2, <1>3 DEF Stored
<1>6. Stored(Other(p))' = ram /\ Whole(Other(p))'
  BY <1>1, <1>2, <1>3, <1>4, <1>5, Distinct DEF Stored, Whole, ChangeInv
<1>7. TypeOK'
  BY <1>1, <1>2, <1>3, <1>4
<1>8. NewestInv'
  BY <1>1, <1>2, <1>3, <1>4, <1>5, <1>6 DEF NewestInv, ImageInv, Next0
<1>9. ImageInv'
  BY <1>1, <1>2, <1>3, <1>4, <1>5, <1>6 DEF ImageInv
<1> QED
  BY <1>1, <1>7, <1>8, <1>9 DEF OffInv, FormatInv, ChangeInv, OpInv

\* The partition that is no longer in use is erased, as well as can be.
LEMMA FinalEraseStep ==
  ASSUME IInv, FinalErase
  PROVE  IInv'
<1> USE DEF IInv, TypeOK, Pc, ErasePc, ProgramPc, ChangePc, Running, InitPc
<1>1. active' = active /\ epoch' = epoch /\ ram' = ram /\ left' = left /\ spoiled' = spoiled
      /\ pc' = "idle" /\ op' = NoOp /\ ret' \in {"OK", "ERROR"}
  BY DEF FinalErase, image
<1>2. (\E areas : EraseAreas(Other(active), areas)) \/ UNCHANGED flash
  BY DEF FinalErase, Write, PartialWrite, Target
<1>3. /\ hdr' \in [Part -> Header \union {Blank}] /\ dat' \in [Part -> Contents \union {Blank, Torn}]
      /\ hdr'[active] = hdr[active] /\ hdr'[Other(active)] \in {Next0, Blank}
      /\ Stored(active)' = Stored(active) /\ Whole(active)' = Whole(active)
  <2>1. CASE UNCHANGED flash
    BY <2>1, <1>1 DEF flash, Next0, Stored, Whole
  <2>2. CASE \E areas : EraseAreas(Other(active), areas)
    BY <2>2, <1>1, OtherErased
  <2> QED
    BY <1>2, <2>1, <2>2
<1>4. TypeOK'
  BY <1>1, <1>3 DEF Returns
<1>5. (OffInv /\ FormatInv /\ NewestInv /\ ImageInv /\ ChangeInv)'
  BY <1>1, <1>3 DEF FinalErase, OffInv, FormatInv, NewestInv, ImageInv, ChangeInv, Next0
<1>6. OpInv'
  BY <1>1 DEF FinalErase, OpInv
<1> QED
  BY <1>4, <1>5, <1>6

\* The change fails; the old image is read back, or not.
LEMMA FallbackSteps ==
  ASSUME IInv, Fallback \/ FallbackError
  PROVE  IInv'
<1> USE DEF IInv, TypeOK, Pc, ErasePc, ProgramPc, ChangePc, Running, InitPc
<1>1. /\ pc \in {"new_erase", "new_write", "new_commit"} /\ pc' = "undo_erase"
      /\ active' = active /\ op' = op /\ ret' = ret
      /\ UNCHANGED flash \/ PartialWrite
  BY DEF Fallback, FallbackError, ChangeFails
<1>2. /\ hdr' \in [Part -> Header \union {Blank}] /\ dat' \in [Part -> Contents \union {Blank, Torn}]
      /\ hdr'[active] = hdr[active] /\ dat'[active] = dat[active]
      /\ hdr'[Other(active)] \in {Next0, Blank}
  BY <1>1, PartialEffect DEF flash, Next0
<1>3. Stored(active)' = Stored(active) /\ Whole(active)' = Whole(active) /\ Stored(active) \in Contents
  BY <1>1, <1>2, StoredType DEF Stored, Whole
<1>4. hdr[active] \in Header /\ hdr[active].epoch \in Nat /\ hdr[active].epoch < epoch /\ Whole(active)
  BY <1>1, Distinct DEF NewestInv, ImageInv, Whole, Header
<1>5. op \in Ops
  BY <1>1 DEF OpInv
<1>6. /\ epoch' \in {epoch, hdr[active].epoch} /\ ram' \in {ram, Stored(active)}
      /\ left' \in Leftover \union {None} /\ spoiled' \in BOOLEAN
      /\ ~spoiled' => ~spoiled /\ left' = None /\ epoch' = hdr[active].epoch /\ ram' = Stored(active)
  <2>1. CASE Fallback
    <3>1. op.kind = "add" => [id |-> op.id, val |-> op.val] \in Leftover
      BY <1>5 DEF Ops, AddOps, DestroyOps, Leftover
    <3>2. left' \in Leftover \union {None}
      BY <2>1, <3>1 DEF Fallback
    <3> QED
      BY <2>1, <3>2 DEF Fallback
  <2>2. CASE FallbackError
    BY <2>2 DEF FallbackError
  <2> QED
    BY <2>1, <2>2
<1>7. TypeOK'
  BY <1>1, <1>2, <1>3, <1>4, <1>6
<1>8. (OffInv /\ FormatInv /\ NewestInv /\ ImageInv /\ ChangeInv)'
  BY <1>1, <1>2, <1>3, <1>4, <1>6 DEF OffInv, FormatInv, NewestInv, ImageInv, ChangeInv, Next0
<1>9. OpInv'
  BY <1>1, <1>6 DEF OpInv
<1> QED
  BY <1>7, <1>8, <1>9

\* The invariant follows from the specification.
THEOREM Invariant == Spec => []IInv
<1>1. IInv /\ [Next]_vars => IInv'
  <2> SUFFICES ASSUME IInv, [Next]_vars PROVE IInv'
    OBVIOUS
  <2>1. CASE UNCHANGED vars
    BY <2>1 DEF vars, IInv, TypeOK, OffInv, FormatInv, NewestInv, ImageInv, ChangeInv, OpInv,
       Running, Programmed, Choose, Whole, Stored, Next0
  <2>2. CASE \E id \in Id, v \in Val : AddObject(id, v) \/ AddNoSpace(id, v)
    BY <2>2, CallSteps, RefusedSteps
  <2>3. CASE \E ids \in SUBSET Id : DestroyObjects(ids) \/ DestroyInvalid(ids)
    <3>1. PICK ids \in SUBSET Id : DestroyObjects(ids) \/ DestroyInvalid(ids)
      BY <2>3
    <3> QED
      BY <3>1, CallSteps, RefusedSteps
  <2>4. CASE ~(\E id \in Id, v \in Val : AddObject(id, v) \/ AddNoSpace(id, v))
             /\ ~(\E ids \in SUBSET Id : DestroyObjects(ids) \/ DestroyInvalid(ids)) /\ Next
    BY <2>4, FormatSteps, InitReadStep, InitCleanStep, StopSteps, NewEraseStep, NewWriteStep,
       NewCommitStep, FinalEraseStep, FallbackSteps DEF Next
  <2> QED
    BY <2>1, <2>2, <2>3, <2>4
<1> QED
  BY <1>1, InitInv, PTL DEF Spec

\* Flash, the context and the call in progress are well typed.
THEOREM TypeCorrect == Spec => []TypeOK
<1>1. IInv => TypeOK
  BY DEF IInv
<1> QED
  BY <1>1, Invariant, PTL

\* While the store runs, the partition in use holds a whole image and is the
\* one a reset would choose, whatever failed or was cut short before.
THEOREM NewestHolds == Spec => []ActiveIsNewest
<1>1. IInv => ActiveIsNewest
  BY DEF IInv, NewestInv, ImageInv, ActiveIsNewest, Next0
<1> QED
  BY <1>1, Invariant, PTL

(***************************************************************************)
(* The backend implements NvmStore.                                        *)
(***************************************************************************)
\* The variables of the store, as the backend gives them.
up == Running /\ ~spoiled
absOp == IF spoiled THEN NoOp ELSE op
absRet == IF spoiled THEN "NONE" ELSE ret
mem == IF ~Running \/ spoiled THEN NoObjects ELSE IF pc = "idle" THEN View ELSE Before

\* What the store sees at each pc.
MapInv ==
  /\ Running \/ pc = "init_clean" => Recovered = Stored(active)
  /\ pc \in {"init_erase", "init_commit"} => Recovered = NoObjects
  /\ ~Running => mem = NoObjects /\ ~spoiled /\ op = NoOp /\ ret = "NONE"
  /\ pc = "idle" /\ ~spoiled => mem = ram /\ ram = Stored(active) /\ op = NoOp
  /\ pc \in ChangePc /\ ~spoiled => mem = Stored(active) /\ ram = Apply(op, mem)
  /\ pc = "undo_erase" /\ ~spoiled => mem = Stored(active)
  /\ pc = "old_erase" /\ ~spoiled => Stored(active) = Apply(op, mem) /\ ram = Stored(active)
  /\ pc \in ChangePc \union {"old_erase", "undo_erase"} => op \in Ops /\ op # NoOp /\ ret = "NONE"

\* In every state of the invariant the abstract store is well mapped.
LEMMA Mapping == IInv => MapInv
<1> SUFFICES ASSUME IInv PROVE MapInv
  OBVIOUS
<1> USE DEF IInv, Running, InitPc, ChangePc
<1>1. Running \/ pc = "init_clean" => Recovered = Stored(active)
  BY ChooseActive DEF NewestInv, Whole
<1>2. pc \in {"init_erase", "init_commit"} => Recovered = NoObjects
  BY DEF FormatInv, Recovered
<1>3. ~Running => mem = NoObjects /\ ~spoiled /\ op = NoOp /\ ret = "NONE"
  BY DEF mem, OpInv, TypeOK, Pc, ErasePc, ProgramPc
<1>4. pc = "idle" /\ ~spoiled => mem = ram /\ ram = Stored(active) /\ op = NoOp
  <2>1. ~spoiled => View = ram
    BY DEF View, Ghost, OpInv, TypeOK, Contents
  <2> QED
    BY <2>1 DEF mem, ImageInv, OpInv
<1>5. pc \in ChangePc /\ ~spoiled => mem = Stored(active) /\ ram = Apply(op, mem)
  BY DEF mem, Before, ImageInv
<1>6. pc = "undo_erase" /\ ~spoiled => mem = Stored(active)
  BY DEF mem, Before
<1>7. pc = "old_erase" /\ ~spoiled => Stored(active) = Apply(op, mem) /\ ram = Stored(active)
  BY DEF mem, Before, ImageInv
<1>8. pc \in ChangePc \union {"old_erase", "undo_erase"} => op \in Ops /\ op # NoOp /\ ret = "NONE"
  BY DEF OpInv, TypeOK
<1> QED
  BY <1>1, <1>2, <1>3, <1>4, <1>5, <1>6, <1>7, <1>8 DEF MapInv

\* And after the step.
LEMMA MappingNext == IInv' => MapInv'
BY Mapping, PTL

\* Stopping changes nothing that a reset would find.
LEMMA StopRecovers ==
  ASSUME IInv, InitError \/ Reset
  PROVE  Recovered' = Recovered
<1>1. Stops /\ MapInv
  BY Stopping, Mapping
<1>2. CASE pc \in {"init_erase", "init_commit"}
  BY <1>1, <1>2, FormatStops DEF Recovered, MapInv
<1>3. CASE pc \notin {"init_erase", "init_commit"}
  <2>1. PICK p \in Part : Untouched(p)
    BY <1>1, <1>3, UseStops
  <2>2. Recovered = Stored(p)
    BY <1>1, <1>3, <2>1 DEF MapInv, Stops, Untouched, IInv, TypeOK, Pc, ErasePc, ProgramPc, Running, InitPc
  <2>3. p \in Programmed'
    BY <2>1 DEF Untouched, Programmed
  <2> QED
    BY <2>1, <2>2, <2>3 DEF Recovered, Untouched
<1> QED
  BY <1>2, <1>3

\* Initialisation: nothing is seen until the partition in use is known and the
\* other one is erased; from then on callers see what flash holds.
LEMMA BootRefines ==
  ASSUME IInv, IInv', InitFormat \/ InitErase \/ InitCommit \/ InitRead \/ InitClean \/ InitError
  PROVE  Store!Recover \/ UNCHANGED Store!storeVars
<1> USE DEF Running, InitPc, MapInv
<1>1. MapInv /\ MapInv'
  BY Mapping, MappingNext
<1>2. ~Running
  BY DEF InitFormat, InitErase, InitCommit, InitRead, InitClean, InitError
<1>3. spoiled' = spoiled /\ op' = op /\ ret' = ret /\ ~spoiled /\ op = NoOp /\ ret = "NONE"
  BY <1>1, <1>2 DEF InitFormat, InitErase, InitCommit, InitRead, InitClean, InitError
<1>4. Recovered' = Recovered
  <2>1. CASE InitFormat \/ InitRead
    <3>1. hdr' = hdr /\ dat' = dat
      BY <2>1 DEF InitFormat, InitRead, flash
    <3>2. Programmed' = Programmed
      BY <3>1 DEF Programmed
    <3>3. Choose' = Choose
      BY <3>1, <3>2, Zenon DEF Choose
    <3>4. Recovered' = IF Programmed = {} THEN NoObjects ELSE Stored(Choose)
      BY <3>1, <3>2, <3>3, Zenon DEF Recovered, Stored
    <3> QED BY <3>4 DEF Recovered
  <2>2. CASE InitErase
    BY <1>1, <2>2 DEF InitErase
  <2>3. CASE InitCommit
    <3>1. pc = "init_commit" /\ pc' = "init_clean" /\ ram' = NoObjects
      BY <2>3 DEF InitCommit, image, IInv, FormatInv
    <3>2. Stored(active)' = NoObjects
      BY <3>1, <1>3 DEF IInv, ImageInv
    <3> QED
      BY <1>1, <3>1, <3>2
  <2>4. CASE InitClean
    <3>1. EraseAreas(Other(active), {"header", "data"}) /\ active' = active /\ pc = "init_clean" /\ pc' = "idle"
      BY <2>4 DEF InitClean, Write, Target, ErasePc, image
    <3> QED
      BY <1>1, <3>1, OtherErased DEF IInv
  <2>5. CASE InitError
    BY <2>5, StopRecovers
  <2> QED
    BY <2>1, <2>2, <2>3, <2>4, <2>5
<1>5. CASE InitClean
  <2>1. Running' /\ mem = NoObjects /\ mem' = Recovered'
    BY <1>1, <1>2, <1>3, <1>5 DEF InitClean
  <2> QED
    BY <1>2, <1>3, <1>4, <2>1 DEF Store!Recover, mem
<1>6. CASE ~InitClean
  <2>1. ~Running'
    BY <1>6 DEF InitFormat, InitErase, InitCommit, InitRead, InitError
  <2> QED
    BY <1>1, <1>2, <1>3, <1>4, <2>1 DEF Store!storeVars, mem
<1> QED
  BY <1>5, <1>6

\* What the store does at each call, and while the change is carried out.
LEMMA CallRefines ==
  ASSUME IInv, IInv', ~BeyondSpoil, NEW id, NEW v, NEW ids,
         (id \in Id /\ v \in Val /\ AddObject(id, v)) \/ (ids \subseteq Id /\ DestroyObjects(ids))
  PROVE  \E o \in Store!Ops : Store!Call(o)
<1> USE DEF Running, InitPc, MapInv
<1>1. MapInv /\ MapInv'
  BY Mapping, MappingNext
<1>2. PICK o \in Ops : pc = "idle" /\ Change(o) /\ ~spoiled
  <2>1. CASE id \in Id /\ v \in Val /\ AddObject(id, v)
    BY <2>1 DEF AddObject, Serving, Ops, AddOps
  <2>2. CASE ids \subseteq Id /\ DestroyObjects(ids)
    <3>1. [kind |-> "destroy", ids |-> ids] \in Ops
      BY <2>2 DEF Ops, DestroyOps
    <3> QED
      BY <2>2, <3>1 DEF DestroyObjects, Serving
  <2> QED
    BY <2>1, <2>2
<1>3. /\ pc' = "new_erase" /\ op' = o /\ ret' = "NONE" /\ spoiled' = spoiled
      /\ op = NoOp /\ mem = Recovered /\ mem' = mem /\ Recovered' = Recovered
  <2>1. /\ hdr' = hdr /\ dat' = dat /\ active' = active /\ spoiled' = spoiled
        /\ pc' = "new_erase" /\ op' = o /\ ret' = "NONE"
    BY <1>2 DEF Change, flash
  <2>2. Stored(active)' = Stored(active)
    BY <2>1 DEF Stored
  <2> QED
    BY <1>1, <1>2, <2>1, <2>2 DEF ChangePc
<1>4. Store!Call(o)
  BY <1>2, <1>3 DEF Store!Call, mem, Store!NoOp, NoOp
<1> QED
  BY <1>4 DEF Store!Ops, Ops, Store!AddOps, AddOps, Store!DestroyOps, DestroyOps

\* A refused call is a refusal of the store.
LEMMA RefusedRefines ==
  ASSUME IInv, IInv', ~BeyondSpoil, NEW id, NEW v, NEW ids,
         (id \in Id /\ v \in Val /\ AddNoSpace(id, v)) \/ (ids \subseteq Id /\ DestroyInvalid(ids))
  PROVE  Store!Refuse \/ Store!Reset
<1> USE DEF Running, InitPc, MapInv
<1>1. MapInv /\ MapInv'
  BY Mapping, MappingNext
<1>2. /\ pc = "idle" /\ pc' = "idle" /\ ~spoiled /\ op' = op /\ ret' \in {"NOSPACE", "ERROR"}
      /\ hdr' = hdr /\ dat' = dat /\ active' = active /\ spoiled' \in BOOLEAN
  BY DEF AddNoSpace, DestroyInvalid, Serving, IInv, TypeOK, flash, image
<1>3. Recovered' = Recovered /\ Stored(active)' = Stored(active)
  BY <1>2 DEF Recovered, Programmed, Choose, Stored
<1>4. CASE ~spoiled'
  BY <1>1, <1>2, <1>3, <1>4 DEF Store!Refuse, Store!NoOp, NoOp, mem, Store!Returns
<1>5. CASE spoiled'
  BY <1>2, <1>3, <1>5 DEF Store!Reset, Store!NoOp, NoOp, Store!NoObjects, NoObjects
<1> QED
  BY <1>2, <1>4, <1>5

\* Erasing and writing the new partition changes nothing in the store.
LEMMA ChangeRefines ==
  ASSUME IInv, IInv', NewErase \/ NewWrite
  PROVE  UNCHANGED Store!storeVars
<1> USE DEF Running, InitPc, MapInv, ChangePc
<1>1. MapInv /\ MapInv'
  BY Mapping, MappingNext
<1>2. /\ pc \in ChangePc /\ pc' \in ChangePc
      /\ op' = op /\ ret' = ret /\ spoiled' = spoiled /\ active' = active
  BY DEF NewErase, NewWrite, image
<1>3. Stored(active)' = Stored(active)
  <2>1. CASE NewErase
    BY <1>2, <2>1, OtherErased DEF NewErase, Write, Target, ErasePc, IInv
  <2>2. CASE NewWrite
    BY <1>2, <2>2, PartFacts DEF NewWrite, Write, Target, ErasePc, Stored, IInv, TypeOK
  <2> QED
    BY <2>1, <2>2
<1>4. Recovered' = Recovered /\ (~spoiled => mem' = mem)
  BY <1>1, <1>2, <1>3
<1> QED
  BY <1>2, <1>4 DEF Store!storeVars, mem

\* The abstract operations are the ones of the backend.
LEMMA SameOps ==
  /\ Store!NoOp = NoOp
  /\ Store!NoObjects = NoObjects
  /\ \A o, c : Store!Apply(o, c) = Apply(o, c)
BY DEF Store!NoOp, NoOp, Store!NoObjects, NoObjects, Store!Apply, Apply

\* A call that began before RAM was spoiled goes on unseen.
LEMMA SpoiledIsUnseen ==
  ASSUME spoiled, spoiled', Recovered' = Recovered
  PROVE  UNCHANGED Store!storeVars
BY DEF Store!storeVars

\* The commit of the new header is the instant at which the change is stored.
LEMMA CommitRefines ==
  ASSUME IInv, IInv', NewCommit, ~spoiled
  PROVE  Store!Persist \/ UNCHANGED Store!storeVars
<1> USE DEF Running, InitPc, MapInv, ChangePc
<1>1. MapInv /\ MapInv'
  BY Mapping, MappingNext
<1>2. /\ pc = "new_commit" /\ pc' = "old_erase" /\ op' = op /\ ret' = ret /\ spoiled' = spoiled /\ ram' = ram
      /\ active' = Other(active) /\ hdr'[active] = hdr[active] /\ dat' = dat
  BY PartFacts DEF NewCommit, Write, Commit, Target, ErasePc, IInv, TypeOK
<1>3. Other(active') = active /\ Stored(active)' = ram'
  BY <1>1, <1>2, PartFacts DEF IInv, TypeOK
<1>4. Before' = Stored(active)
  BY <1>2, <1>3 DEF Before, Stored
<1>5. mem = Stored(active) /\ mem' = mem /\ Recovered' = Apply(op, mem) /\ op # NoOp
  BY <1>1, <1>2, <1>3, <1>4 DEF mem
<1>6. Store!Apply(op, mem) = Apply(op, mem) /\ Store!NoOp = NoOp
  BY SameOps
<1>7. CASE Recovered' = Recovered
  BY <1>2, <1>5, <1>7 DEF Store!storeVars, mem
<1>8. CASE Recovered' # Recovered
  BY <1>2, <1>5, <1>6, <1>8 DEF Store!Persist, mem
<1> QED
  BY <1>7, <1>8

\* The last erase ends the call of the store.
LEMMA FinalRefines ==
  ASSUME IInv, IInv', FinalErase
  PROVE  Store!Succeed \/ Store!Fail \/ UNCHANGED Store!storeVars
<1> USE DEF Running, InitPc, MapInv
<1>1. MapInv /\ MapInv'
  BY Mapping, MappingNext
<1>2. /\ pc \in {"old_erase", "undo_erase"} /\ pc' = "idle" /\ op' = NoOp /\ spoiled' = spoiled
      /\ ret' = (IF pc = "old_erase" THEN "OK" ELSE "ERROR") /\ active' = active /\ ram' = ram
  BY DEF FinalErase, image
<1>3. Recovered' = Recovered
  <2>1. (\E areas : EraseAreas(Other(active), areas)) \/ UNCHANGED flash
    BY <1>2 DEF FinalErase, Write, PartialWrite, Target, ErasePc
  <2>2. Stored(active)' = Stored(active)
    BY <1>2, <2>1, OtherErased DEF IInv, flash, Stored
  <2> QED
    BY <1>1, <1>2, <2>2
<1>4. CASE spoiled
  BY <1>2, <1>3, <1>4, SpoiledIsUnseen
<1>5. CASE ~spoiled
  <2>1. mem' = Recovered' /\ op # NoOp
    BY <1>1, <1>2, <1>5
  <2>2. Store!Apply(op, mem) = Apply(op, mem) /\ Store!NoOp = NoOp
    BY SameOps
  <2>3. CASE pc = "old_erase"
    <3>1. mem' = Apply(op, mem)
      BY <1>1, <1>2, <1>3, <1>5, <2>1, <2>3
    <3> QED
      BY <1>2, <1>5, <2>1, <2>2, <2>3, <3>1 DEF Store!Succeed, mem
  <2>4. CASE pc = "undo_erase"
    <3>1. mem' = mem
      BY <1>1, <1>2, <1>3, <1>5, <2>1, <2>4
    <3> QED
      BY <1>2, <1>3, <1>5, <2>1, <2>2, <2>4, <3>1 DEF Store!Fail, mem
  <2> QED
    BY <1>2, <2>3, <2>4
<1> QED
  BY <1>4, <1>5

\* Going back to the old partition is a reset of the store or nothing.
LEMMA FallbackRefines ==
  ASSUME IInv, IInv', Fallback \/ FallbackError
  PROVE  Store!Reset \/ UNCHANGED Store!storeVars
<1> USE DEF Running, InitPc, MapInv, ChangePc
<1>1. MapInv /\ MapInv'
  BY Mapping, MappingNext
<1>2. /\ pc \in ChangePc /\ pc' = "undo_erase" /\ op' = op /\ ret' = ret /\ active' = active
      /\ spoiled => spoiled'
      /\ spoiled' \in BOOLEAN
      /\ UNCHANGED flash \/ PartialWrite
  BY DEF Fallback, FallbackError, ChangeFails, IInv, TypeOK
<1>3. hdr'[active] = hdr[active] /\ dat'[active] = dat[active]
  BY <1>2, PartialEffect DEF flash
<1>4. Stored(active)' = Stored(active)
  BY <1>2, <1>3 DEF Stored
<1>5. Recovered' = Recovered
  BY <1>1, <1>2, <1>4
<1>6. CASE spoiled
  BY <1>2, <1>5, <1>6, SpoiledIsUnseen
<1>7. CASE ~spoiled /\ spoiled'
  BY <1>2, <1>5, <1>7, SameOps DEF Store!Reset
<1>8. CASE ~spoiled /\ ~spoiled'
  <2>1. mem' = mem
    BY <1>1, <1>2, <1>4, <1>8
  <2> QED
    BY <1>2, <1>5, <1>8, <2>1 DEF Store!storeVars, mem
<1> QED
  BY <1>2, <1>6, <1>7, <1>8

\* A reset finds the change stored or not begun.
LEMMA ResetRefines ==
  ASSUME IInv, IInv', Reset
  PROVE  Store!Reset
<1>1. MapInv' /\ pc' = "off" /\ Recovered' = Recovered /\ op' = NoOp /\ ret' = "NONE" /\ ~spoiled'
  BY MappingNext, StopRecovers DEF Reset
<1> QED
  BY <1>1, SameOps DEF Store!Reset, Running, InitPc

\* Both start from an empty store.
LEMMA InitRefines == Init => Store!StoreInit
<1> SUFFICES ASSUME Init PROVE Store!StoreInit
  OBVIOUS
<1>1. Recovered = NoObjects
  BY PartFacts DEF Init, Recovered, Programmed
<1> QED
  BY <1>1, SameOps DEF Init, Store!StoreInit, Running, InitPc

\* Every step of the backend is a step of the store, or changes nothing that
\* the store shows.
LEMMA StepRefines ==
  ASSUME ~BeyondSpoil, IInv, IInv', [Next]_vars
  PROVE  [Store!StoreNext]_(Store!storeVars)
<1>1. CASE UNCHANGED vars
  BY <1>1 DEF vars, Store!storeVars, Running, InitPc, View, Ghost, Before, Recovered, Programmed,
     Choose, Stored
<1>2. CASE \E id \in Id, v \in Val : AddObject(id, v) \/ AddNoSpace(id, v)
  BY <1>2, CallRefines, RefusedRefines DEF Store!StoreNext
<1>3. CASE \E ids \in SUBSET Id : DestroyObjects(ids) \/ DestroyInvalid(ids)
  BY <1>3, CallRefines, RefusedRefines DEF Store!StoreNext
<1>4. ~(NewCommit /\ spoiled)
  BY DEF NewCommit, IInv, OpInv
<1>5. CASE InitFormat \/ InitErase \/ InitCommit \/ InitRead \/ InitClean \/ InitError
  BY <1>5, BootRefines DEF Store!StoreNext
<1>6. CASE NewErase \/ NewWrite \/ (NewCommit /\ ~spoiled) \/ FinalErase \/ Fallback \/ FallbackError \/ Reset
  BY <1>6, ChangeRefines, CommitRefines, FinalRefines, FallbackRefines, ResetRefines DEF Store!StoreNext
<1> QED
  BY <1>1, <1>2, <1>3, <1>4, <1>5, <1>6 DEF Next

\* Up to a call that leaves RAM different from flash, the log backend is an
\* NVM store: each operation is stored at one instant, the commit of the new
\* header; success is returned only for what a reset can no longer undo; and a
\* reset at any point finds the operation stored or not begun.
THEOREM Refinement ==
  ASSUME ~BeyondSpoil
  PROVE  Spec => StoreRefined
<1>1. Init => Store!StoreInit
  BY InitRefines
<1>2. IInv /\ IInv' /\ [Next]_vars => [Store!StoreNext]_(Store!storeVars)
  BY StepRefines
<1> QED
  BY <1>1, <1>2, Invariant, PTL DEF Spec, StoreRefined, Store!StoreSpec
=============================================================================
